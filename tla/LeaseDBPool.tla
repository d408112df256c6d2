----------------------------- MODULE LeaseDBPool -----------------------------
(***************************************************************************)
(* The write-behind lease database of the master (master/lease_db_pool.go, *)
(* lease_in_db.go, hybrid_lease_manager.go) and the reload that reads it   *)
(* back (addr_allocator.go).  Every change of a subnet's leases in memory  *)
(* is sent to the goroutine of one database connection, which collects the *)
(* changes it receives and writes them OptBufCount at a time, or when its  *)
(* ticker fires.  A reload sends a load through the same channels.         *)
(*                                                                         *)
(* A lease is abstracted to its holder: a client, or Declined.  The row of *)
(* a lease is the holder with the subnet id; the address is a unique key   *)
(* of the table (lease_in_db.go:17).  Subnets do not share addresses.      *)
(* Requests are handled one at a time and never during a command or a      *)
(* reload.  MaxOps, MaxReloads and MaxCrashes bound the model.             *)
(***************************************************************************)
EXTENDS Naturals, SequencesExt, FiniteSetsExt

CONSTANTS SubnetID, Addr, Client, Declined, NoLease,
          PoolOf,       \* the addresses of each subnet's pool
          AddrOf,       \* those, and the ones its hosts reserve outside the pool
          Configs,      \* the sets of subnets a configuration file may list
          dbCount,      \* DefaultDBConnCount
          OptBufCount,
          MaxOps, MaxReloads, MaxCrashes

ASSUME LeaseDBPoolAssumption ==
  /\ PoolOf \in [SubnetID -> SUBSET Addr] /\ AddrOf \in [SubnetID -> SUBSET Addr]
  /\ \A s \in SubnetID : PoolOf[s] \subseteq AddrOf[s]
  /\ \A s, t \in SubnetID : s # t => AddrOf[s] \cap AddrOf[t] = {}
  /\ Configs \subseteq SUBSET SubnetID
  /\ dbCount \in Nat \ {0} /\ OptBufCount \in Nat \ {0}
  /\ NoLease \notin Client \cup {Declined}

Holder == Client \cup {Declined}
Leases == [Addr -> Holder \cup {NoLease}]
Row == [subnet : SubnetID, holder : Holder]
DbIndex == 0..(dbCount - 1)

\* deleteLeaseTask: one address, a pool's addresses, or with Addr all of the
\* subnet's (DeleteSubnet, DeleteLease with a nil address).
LeaseOpt ==
  [typ : {"add", "update"}, subnet : SubnetID, addr : Addr, holder : Holder]
    \cup [typ : {"delete"}, subnet : SubnetID, addrs : SUBSET Addr]
    \cup [typ : {"load"}, subnet : SubnetID]

VARIABLES engines,          \* live subnet -> [pools, leases], the memory
          subnetToDbIndex,  \* subnet -> connection
          optChan,          \* connection -> operations sent to it
          optBuf,           \* connection -> operations its goroutine collected
          rows,             \* the lease4 table
          reload,           \* the reload in progress
          stale,            \* a subnet was added again before its deletion
                            \* reached the table (history)
          ops, reloads, crashes   \* counters for the bounds

memory == <<engines, subnetToDbIndex>>
counters == <<ops, reloads, crashes>>
vars == <<engines, subnetToDbIndex, optChan, optBuf, rows, reload, stale,
          ops, reloads, crashes>>

NoLeases == [a \in Addr |-> NoLease]
EmptyFcn == [s \in {} |-> 0]
Idle == [pc |-> "idle", conf |-> {}, todo |-> {}, wait |-> {}, stores |-> EmptyFcn]

TypeOK ==
  /\ DOMAIN engines \subseteq SubnetID
  /\ \A s \in DOMAIN engines :
       engines[s].pools \subseteq Addr /\ engines[s].leases \in Leases
  /\ DOMAIN subnetToDbIndex \subseteq SubnetID
  /\ \A s \in DOMAIN subnetToDbIndex : subnetToDbIndex[s] \in DbIndex
  /\ optChan \in [DbIndex -> Seq(LeaseOpt)]
  /\ optBuf \in [DbIndex -> Seq(LeaseOpt)]
  /\ \A i \in DbIndex : Len(optBuf[i]) < OptBufCount
  /\ rows \in [Addr -> Row \cup {NoLease}]
  /\ reload.pc \in {"idle", "old", "new"}
  /\ DOMAIN reload.stores \subseteq SubnetID
  /\ stale \in BOOLEAN

-----------------------------------------------------------------------------
(* The table *)

\* One statement of a batch.  An insert of an address that has a row fails, and
\* with it the transaction; an update of one that has none changes nothing.
ExecInTx(state, opt) ==
  LET table == state.rows
      row == [subnet |-> opt.subnet, holder |-> opt.holder]
  IN CASE opt.typ = "add" ->
            IF table[opt.addr] = NoLease
            THEN [state EXCEPT !.rows[opt.addr] = row]
            ELSE [state EXCEPT !.ok = FALSE]
       [] opt.typ = "update" ->
            IF table[opt.addr] = NoLease
            THEN state
            ELSE [state EXCEPT !.rows[opt.addr] = row]
       [] opt.typ = "delete" ->
            [state EXCEPT !.rows =
               [a \in Addr |-> IF /\ a \in opt.addrs
                                  /\ table[a] # NoLease
                                  /\ table[a].subnet = opt.subnet
                               THEN NoLease ELSE table[a]]]

\* flushDBOp: a failed statement is logged and the commit is then a rollback.
flushDBOp(table, batch) ==
  LET end == FoldLeft(ExecInTx, [rows |-> table, ok |-> TRUE], batch)
  IN IF end.ok THEN end.rows ELSE table

\* Mutant: the first address of the pool counts as outside.
KeptAfterFirst(table, s, pools) ==
  [a \in Addr |-> IF /\ table[a] # NoLease /\ table[a].subnet = s
                     /\ a \notin {b \in pools : \E c \in pools : c < b}
                  THEN NoLease ELSE table[a]]

\* The rows of a subnet that LoadLease keeps: those of its pool, or none.
Kept(table, s, pools) ==
  [a \in Addr |-> IF table[a] # NoLease /\ table[a].subnet = s /\ a \notin pools
                  THEN NoLease ELSE table[a]]

\* The leases that the rows of a subnet stand for (ToLease).
LeasesOf(table, s) ==
  [a \in Addr |-> IF table[a] # NoLease /\ table[a].subnet = s
                  THEN table[a].holder ELSE NoLease]

-----------------------------------------------------------------------------
(* The goroutine of a connection *)

Receive(i) ==
  /\ optChan[i] # << >>
  /\ Head(optChan[i]).typ # "load"
  /\ optChan' = [optChan EXCEPT ![i] = Tail(@)]
  /\ LET buf == Append(optBuf[i], Head(optChan[i]))
     IN IF Len(buf) = OptBufCount
        THEN /\ rows' = flushDBOp(rows, buf)
             /\ optBuf' = [optBuf EXCEPT ![i] = << >>]
        ELSE /\ optBuf' = [optBuf EXCEPT ![i] = buf]
             /\ UNCHANGED rows
  /\ UNCHANGED <<memory, reload, stale, counters>>

\* Mutant: the ticker does not write an unfilled buffer.
FlushFullBatches(i) ==
  /\ Len(optBuf[i]) = OptBufCount
  /\ rows' = flushDBOp(rows, optBuf[i])
  /\ optBuf' = [optBuf EXCEPT ![i] = << >>]
  /\ UNCHANGED <<memory, optChan, reload, stale, counters>>

\* The ticker fires after MaxDBDelay.
Flush(i) ==
  /\ optBuf[i] # << >>
  /\ rows' = flushDBOp(rows, optBuf[i])
  /\ optBuf' = [optBuf EXCEPT ![i] = << >>]
  /\ UNCHANGED <<memory, optChan, reload, stale, counters>>

LoadLease(i) ==
  /\ optChan[i] # << >>
  /\ Head(optChan[i]).typ = "load"
  /\ LET s == Head(optChan[i]).subnet
         kept == Kept(flushDBOp(rows, optBuf[i]), s, PoolOf[s])
     IN /\ rows' = kept
        /\ reload' = [reload EXCEPT !.wait = @ \ {s},
                                    !.stores = (s :> LeasesOf(kept, s)) @@ @]
  /\ optChan' = [optChan EXCEPT ![i] = Tail(@)]
  /\ optBuf' = [optBuf EXCEPT ![i] = << >>]
  /\ UNCHANGED <<memory, stale, counters>>

-----------------------------------------------------------------------------
(* Requests: what they do to the memory and send to the subnet's connection *)

asyncDoOption(s, opts) ==
  optChan' = [optChan EXCEPT ![subnetToDbIndex[s]] = @ \o opts]

Serving(s) == reload.pc = "idle" /\ s \in DOMAIN engines /\ ops < MaxOps

\* Mutant: a new lease is sent as an update.
PutAsUpdate(s, a, holder) ==
  [typ |-> "update", subnet |-> s, addr |-> a, holder |-> holder]

Put(s, a, holder) ==
  [typ    |-> IF engines[s].leases[a] = NoLease THEN "add" ELSE "update",
   subnet |-> s, addr |-> a, holder |-> holder]

Drop(s, addrs) == [typ |-> "delete", subnet |-> s, addrs |-> addrs]

\* A granted request: the lease of the address is added, renewed or taken over
\* from a client whose lease expired.  If the client's lookup found the lease
\* of another address, that one is then deleted.
AllocateLease(s, a, c) ==
  /\ Serving(s)
  /\ a \in engines[s].pools \cup (AddrOf[s] \ PoolOf[s])
  /\ LET leases == engines[s].leases
         olds == {b \in Addr \ {a} : leases[b] = c}
     IN \/ /\ olds = {} \/ leases[a] = c
           /\ engines' = [engines EXCEPT ![s].leases[a] = c]
           /\ asyncDoOption(s, <<Put(s, a, c)>>)
        \/ \E b \in olds :
             /\ engines' = [engines EXCEPT ![s].leases[a] = c,
                                           ![s].leases[b] = NoLease]
             /\ asyncDoOption(s, <<Put(s, a, c), Drop(s, {b})>>)
  /\ ops' = ops + 1
  /\ UNCHANGED <<subnetToDbIndex, optBuf, rows, reload, stale, reloads, crashes>>

ReleaseLease(s, a) ==
  /\ Serving(s)
  /\ engines[s].leases[a] \in Client
  /\ engines' = [engines EXCEPT ![s].leases[a] = NoLease]
  /\ asyncDoOption(s, <<Drop(s, {a})>>)
  /\ ops' = ops + 1
  /\ UNCHANGED <<subnetToDbIndex, optBuf, rows, reload, stale, reloads, crashes>>

\* DeclineLease, or DeclineConflictIP of an address that may be free.
DeclineLease(s, a) ==
  /\ Serving(s)
  /\ a \in AddrOf[s]
  /\ engines' = [engines EXCEPT ![s].leases[a] = Declined]
  /\ asyncDoOption(s, <<Put(s, a, Declined)>>)
  /\ ops' = ops + 1
  /\ UNCHANGED <<subnetToDbIndex, optBuf, rows, reload, stale, reloads, crashes>>

-----------------------------------------------------------------------------
(* Commands *)

\* Operations of a subnet that are on their way to the table.
Pending(i) == optBuf[i] \o optChan[i]
HasPending(i, s) == \E k \in DOMAIN Pending(i) : Pending(i)[k].subnet = s

\* The subnet's index entry stays.
deleteSubnet(s) ==
  /\ Serving(s)
  /\ engines' = [t \in DOMAIN engines \ {s} |-> engines[t]]
  /\ asyncDoOption(s, <<Drop(s, Addr)>>)
  /\ ops' = ops + 1
  /\ UNCHANGED <<subnetToDbIndex, optBuf, rows, reload, stale, reloads, crashes>>

\* The new subnet has an empty store, no pool, and any connection
\* (AllocateNewDBConn).
addSubnet(s, i) ==
  /\ reload.pc = "idle" /\ ops < MaxOps
  /\ s \notin DOMAIN engines
  /\ engines' = (s :> [pools |-> {}, leases |-> NoLeases]) @@ engines
  /\ subnetToDbIndex' = (s :> i) @@ subnetToDbIndex
  /\ stale' = \/ stale
              \/ \E j \in DbIndex \ {i} : HasPending(j, s)
              \/ \E a \in Addr : /\ flushDBOp(rows, Pending(i))[a] # NoLease
                                 /\ flushDBOp(rows, Pending(i))[a].subnet = s
  /\ ops' = ops + 1
  /\ UNCHANGED <<optChan, optBuf, rows, reload, reloads, crashes>>

addPool(s) ==
  /\ Serving(s)
  /\ engines[s].pools = {} /\ PoolOf[s] # {}
  /\ engines' = [engines EXCEPT ![s].pools = PoolOf[s]]
  /\ ops' = ops + 1
  /\ UNCHANGED <<subnetToDbIndex, optChan, optBuf, rows, reload, stale,
                 reloads, crashes>>

deletePool(s) ==
  /\ Serving(s)
  /\ engines[s].pools # {}
  /\ engines' = [engines EXCEPT ![s].pools = {},
                   ![s].leases = [a \in Addr |-> IF a \in PoolOf[s]
                                                THEN NoLease ELSE @[a]]]
  /\ asyncDoOption(s, <<Drop(s, PoolOf[s])>>)
  /\ ops' = ops + 1
  /\ UNCHANGED <<subnetToDbIndex, optBuf, rows, reload, stale, reloads, crashes>>

-----------------------------------------------------------------------------
(* Reload, crash and restart *)

\* The subnets that have a connection are loaded first, through it.
StartReload(conf) ==
  /\ reload.pc = "idle" /\ reloads < MaxReloads
  /\ reload' = [Idle EXCEPT !.pc = "old", !.conf = conf,
                            !.todo = conf \cap DOMAIN subnetToDbIndex]
  /\ reloads' = reloads + 1
  /\ UNCHANGED <<memory, optChan, optBuf, rows, stale, ops, crashes>>

\* One goroutine per subnet sends its load, and waits for it.
SendLoad(s) ==
  /\ s \in reload.todo
  /\ reload' = [reload EXCEPT !.todo = @ \ {s}, !.wait = @ \cup {s}]
  /\ IF s \in DOMAIN subnetToDbIndex
     THEN asyncDoOption(s, <<[typ |-> "load", subnet |-> s]>>)
     ELSE UNCHANGED optChan
  /\ UNCHANGED <<memory, optBuf, rows, stale, counters>>

\* Kept subnets first, then new ones, each in the order of a map iteration, are
\* dealt the connections in turn.
DealtIndexes(olds, news) ==
  {[s \in olds \cup news |->
      ((CHOOSE k \in DOMAIN (o \o n) : (o \o n)[k] = s) - 1) % dbCount] :
   o \in SetToSeqs(olds), n \in SetToSeqs(news)}

\* The subnets that are gone are deleted through their old connection.
allocateDBConn ==
  /\ reload.pc = "old" /\ reload.todo = {} /\ reload.wait = {}
  /\ LET olds == reload.conf \cap DOMAIN subnetToDbIndex
         news == reload.conf \ olds
         gone == DOMAIN subnetToDbIndex \ olds
     IN /\ optChan' = [i \in DbIndex |-> optChan[i] \o
              SetToSeq({Drop(s, Addr) : s \in {t \in gone : subnetToDbIndex[t] = i}})]
        /\ \E dealt \in DealtIndexes(olds, news) :
             /\ subnetToDbIndex' = dealt
             /\ stale' = \/ stale
                         \/ \E s \in news \cap DOMAIN dealt :
                              \E j \in DbIndex \ {dealt[s]} : HasPending(j, s)
        /\ reload' = [reload EXCEPT !.pc = "new", !.todo = news]
  /\ UNCHANGED <<engines, optBuf, rows, counters>>

\* The new engines replace the old ones.
FinishReload ==
  /\ reload.pc = "new" /\ reload.todo = {} /\ reload.wait = {}
  /\ engines' = [s \in reload.conf |->
                   [pools |-> PoolOf[s], leases |-> reload.stores[s]]]
  /\ reload' = Idle
  /\ UNCHANGED <<subnetToDbIndex, optChan, optBuf, rows, stale, counters>>

\* The process dies, or is stopped: Server.stop does not flush the connections.
\* It starts again with some configuration and whatever the table holds.
Crash(conf) ==
  /\ crashes < MaxCrashes
  /\ engines' = EmptyFcn /\ subnetToDbIndex' = EmptyFcn
  /\ optChan' = [i \in DbIndex |-> << >>] /\ optBuf' = [i \in DbIndex |-> << >>]
  /\ reload' = [Idle EXCEPT !.pc = "old", !.conf = conf]
  /\ crashes' = crashes + 1
  /\ UNCHANGED <<rows, stale, ops, reloads>>

-----------------------------------------------------------------------------
\* The first start, on an empty table.
Init ==
  /\ engines = EmptyFcn /\ subnetToDbIndex = EmptyFcn
  /\ optChan = [i \in DbIndex |-> << >>] /\ optBuf = [i \in DbIndex |-> << >>]
  /\ rows = [a \in Addr |-> NoLease]
  /\ \E conf \in Configs : reload = [Idle EXCEPT !.pc = "old", !.conf = conf]
  /\ stale = FALSE
  /\ ops = 0 /\ reloads = 0 /\ crashes = 0

Next ==
  \/ \E s \in SubnetID, a \in Addr : \/ \E c \in Client : AllocateLease(s, a, c)
                                     \/ ReleaseLease(s, a)
                                     \/ DeclineLease(s, a)
  \/ \E s \in SubnetID : \/ deleteSubnet(s)
                         \/ \E i \in DbIndex : addSubnet(s, i)
                         \/ addPool(s)
                         \/ deletePool(s)
                         \/ SendLoad(s)
  \/ \E conf \in Configs : StartReload(conf) \/ Crash(conf)
  \/ allocateDBConn
  \/ FinishReload
  \/ \E i \in DbIndex : Receive(i) \/ Flush(i) \/ LoadLease(i)

\* The goroutines run, the tickers fire, and a reload goes on.
Fairness ==
  /\ \A i \in DbIndex : WF_vars(Receive(i)) /\ WF_vars(Flush(i))
                        /\ WF_vars(LoadLease(i))
  /\ \A s \in SubnetID : WF_vars(SendLoad(s))
  /\ WF_vars(allocateDBConn) /\ WF_vars(FinishReload)

Spec == Init /\ [][Next]_vars /\ Fairness
-----------------------------------------------------------------------------
(* Properties *)

\* Nothing is lost on the way to the table: once the operations that wait for
\* a subnet's connection are executed, in their order and whatever batches
\* they are cut into, the subnet's rows are the leases in memory
\* (lease_db_pool.go:98-186, hybrid_lease_manager.go:36-56), through reloads
\* that deal the connections anew.  Left out: a subnet added again while its
\* deletion is still on its way through another connection, or while rows a
\* restart never loaded are left.
CaughtUp ==
  (reload.pc = "idle" /\ ~stale) => \A s \in DOMAIN engines :
    LeasesOf(flushDBOp(rows, Pending(subnetToDbIndex[s])), s) = engines[s].leases

\* A reload loses no lease of a subnet it keeps, save those outside its pool,
\* although the memory is rebuilt from the table (addr_allocator.go:35-58).
ReloadKeepsLeases ==
  [][FinishReload /\ ~stale => \A s \in DOMAIN engines \cap DOMAIN engines' :
       \A a \in PoolOf[s] : engines'[s].leases[a] = engines[s].leases[a]]_vars

\* Every change reaches the table if the process lives on, also the last one
\* before a quiet time, which does not fill a batch: the ticker writes it
\* (lease_db_pool.go:99-150).
EventuallyDurable ==
  <>[](~stale => \A s \in DOMAIN engines :
         LeasesOf(rows, s) = engines[s].leases)

\* A reload, and a restart, always comes to its end: each load that is waited
\* for (lease_db_pool.go:219-239) is answered.
ReloadFinishes == reload.pc # "idle" ~> reload.pc = "idle"

\* Every subnet's rows and pending operations make up its leases in memory
\* (lease_db_pool.go:99-150, hybrid_lease_manager.go).
TableSound == TypeOK /\ CaughtUp

\* If the process lives on, every change reaches the table and every reload ends
\* (lease_db_pool.go:99-150, 219-239).
EverythingSettles == EventuallyDurable /\ ReloadFinishes
=============================================================================
