----------------------------- MODULE SubnetEngine -----------------------------
(***************************************************************************)
(* One subnet engine of the master at work.  Requests of the slaves reach  *)
(* it one at a time (AddrAllocator takes the engine's lock around each of  *)
(* them), the commands that change its pools and reservations run while    *)
(* the slaves' connections are closed (stopClient), and time passes.       *)
(*                                                                         *)
(* MaxTime, MaxPools, MaxReserved and the ...Choice constants only bound   *)
(* the model: how far the clock runs, how many pools there are, and which  *)
(* pools, hosts and lifetimes the commands name.                           *)
(***************************************************************************)
EXTENDS Engine

CONSTANTS InitPools, InitReserved, InitHosts, InitTtl,  \* the configuration
          PoolChoice, HostChoice, TtlChoice,            \* what commands name
          MaxTime, MaxPools, MaxReserved

ASSUME SubnetEngineAssumption ==
  /\ InitPools \in Seq(Pool) /\ InitReserved \in Seq(Pool)
  /\ InitHosts \in [Mac -> Addr \cup {NoAddr}]
  /\ InitTtl \in Nat
  /\ PoolChoice \subseteq Pool
  /\ HostChoice \subseteq Mac \X Addr
  /\ TtlChoice \subseteq Nat
  /\ MaxTime \in Nat /\ MaxPools \in Nat /\ MaxReserved \in Nat

VARIABLES engine,            \* the SubnetEngine: store, pools, reservations
          lastAllocateAddr,  \* the position of its IterativeAllocator
          now,               \* the clock
          panicked           \* the process died of a nil dereference: no action
                            \* is enabled any more

vars == <<engine, lastAllocateAddr, now, panicked>>

TypeOK == /\ engine \in EngineState
          /\ lastAllocateAddr \in Addr
          /\ now \in Nat
          /\ panicked \in BOOLEAN

\* LoadSubnet and newEngine, on an empty lease table.
Init == /\ engine = [store    |-> newLeaseStore,
                     pools    |-> InitPools,
                     reserved |-> InitReserved,
                     managed  |-> \E m \in Mac : InitHosts[m] # NoAddr,
                     hosts    |-> InitHosts,
                     ttl      |-> InitTtl]
        /\ lastAllocateAddr = 0
        /\ now = 0
        /\ panicked = FALSE

-----------------------------------------------------------------------------
(* Requests of the slaves *)

Discover(ctx) ==
  /\ ~panicked
  /\ \E view, view2 \in HostViews(engine) :
       IF PlanPanics(engine, view, lastAllocateAddr, ctx, now)
       THEN panicked' = TRUE /\ UNCHANGED lastAllocateAddr
       ELSE /\ lastAllocateAddr' =
                 PlanLease(engine, view, view2, lastAllocateAddr, ctx, now).last
            /\ UNCHANGED panicked
  /\ UNCHANGED <<engine, now>>

\* A refused request changes nothing.
Request(ctx) ==
  /\ ~panicked
  /\ \E view \in HostViews(engine) : ~AllocateRefused(engine, view, ctx, now)
  /\ engine' = [engine EXCEPT !.store = AllocateLease(engine, ctx, now)]
  /\ UNCHANGED <<lastAllocateAddr, now, panicked>>

Release(ctx) ==
  /\ ~panicked
  /\ NamesItsLease(engine, ctx)
  /\ engine' = [engine EXCEPT !.store = ReleaseLease(engine, ctx)]
  /\ UNCHANGED <<lastAllocateAddr, now, panicked>>

Decline(ctx) ==
  /\ ~panicked
  /\ NamesItsLease(engine, ctx)
  /\ engine' = [engine EXCEPT !.store = DeclineLease(engine, ctx, now)]
  /\ UNCHANGED <<lastAllocateAddr, now, panicked>>

\* A slave reports an address it was offered earlier; by now it may have been
\* leased, or its pool deleted.
ConflictIP(addr) ==
  /\ ~panicked
  /\ engine' = [engine EXCEPT !.store = DeclineConflictIP(engine, addr, now)]
  /\ UNCHANGED <<lastAllocateAddr, now, panicked>>

-----------------------------------------------------------------------------
(* Commands *)

PoolAddrs(pool) == {a \in Addr : IncludeVal(pool, a)}

\* The first pool equal to the given one is taken out (deletePoolFromPools).
WithoutPool(pools, pool) ==
  LET i == Min({j \in DOMAIN pools : pools[j] = pool})
  IN SubSeq(pools, 1, i - 1) \o SubSeq(pools, i + 1, Len(pools))

HasPool(pools, pool) == \E i \in DOMAIN pools : pools[i] = pool

addPool(pool) ==
  /\ ~panicked
  /\ Len(engine.pools) < MaxPools
  /\ engine' = [engine EXCEPT !.pools = Append(@, pool)]
  /\ UNCHANGED <<lastAllocateAddr, now, panicked>>

\* Mutant: the leases of the addresses stay.
addReservedPoolKeepingLeases(pool) ==
  /\ ~panicked
  /\ Len(engine.reserved) < MaxReserved
  /\ engine' = [engine EXCEPT !.reserved = Append(@, pool)]
  /\ UNCHANGED <<lastAllocateAddr, now, panicked>>

addReservedPool(pool) ==
  /\ ~panicked
  /\ Len(engine.reserved) < MaxReserved
  /\ engine' = [engine EXCEPT !.store = DeleteLeases(@, PoolAddrs(pool)),
                              !.reserved = Append(@, pool)]
  /\ UNCHANGED <<lastAllocateAddr, now, panicked>>

\* AddHost's refusal of a second host for the MAC is not passed on; the host
\* manager is created in any case.  No lease is touched.
addHost(mac, addr) ==
  /\ ~panicked
  /\ engine' = [engine EXCEPT !.managed = TRUE,
                              !.hosts[mac] = IF @ = NoAddr THEN addr ELSE @]
  /\ UNCHANGED <<lastAllocateAddr, now, panicked>>

deletePool(pool) ==
  /\ ~panicked
  /\ HasPool(engine.pools, pool)
  /\ engine' = [engine EXCEPT !.pools = WithoutPool(@, pool),
                              !.store = DeleteLeases(@, PoolAddrs(pool))]
  /\ UNCHANGED <<lastAllocateAddr, now, panicked>>

deleteReservedPool(pool) ==
  /\ ~panicked
  /\ HasPool(engine.reserved, pool)
  /\ engine' = [engine EXCEPT !.reserved = WithoutPool(@, pool)]
  /\ UNCHANGED <<lastAllocateAddr, now, panicked>>

\* The lease goes first: it is deleted even when DeleteHost then finds no such
\* host, or the MAC's host under another address.
deleteHost(mac, addr) ==
  /\ ~panicked
  /\ engine.managed
  /\ engine' = [engine EXCEPT !.store = DeleteLease(@, addr),
                              !.hosts[mac] = IF @ = addr THEN NoAddr ELSE @]
  /\ UNCHANGED <<lastAllocateAddr, now, panicked>>

updateSubnet(ttl) ==
  /\ ~panicked
  /\ engine' = [engine EXCEPT !.ttl = ttl]
  /\ UNCHANGED <<lastAllocateAddr, now, panicked>>

Tick == /\ ~panicked /\ now < MaxTime
        /\ now' = now + 1
        /\ UNCHANGED <<engine, lastAllocateAddr, panicked>>

Next ==
  \/ \E ctx \in Context : \/ Discover(ctx)
                         \/ Request(ctx)
                         \/ Release(ctx)
                         \/ Decline(ctx)
  \/ \E addr \in Addr \ {0} : ConflictIP(addr)
  \/ \E pool \in PoolChoice : \/ addPool(pool)
                              \/ addReservedPool(pool)
                              \/ deletePool(pool)
                              \/ deleteReservedPool(pool)
  \/ \E host \in HostChoice : \/ addHost(host[1], host[2])
                              \/ deleteHost(host[1], host[2])
  \/ \E ttl \in TtlChoice : updateSubnet(ttl)
  \/ Tick

Spec == Init /\ [][Next]_vars
-----------------------------------------------------------------------------
(* Properties *)

\* The lookups by MAC and by client identifier never answer with a lease that
\* is not in the store: what DeleteLease, AddLease and UpdateLease
\* (lease_in_mem.go:56-97) must keep true through every sequence of requests
\* of clients that share MACs and identifiers, and of commands.
IndexSound == StoreKeyed(engine.store) /\ StoreIndexSound(engine.store)

\* A client identifier holds at most one lease of the subnet, the one its
\* lookup finds: AllocateLease (engine.go:109-123) takes over, renews or
\* deletes the client's old lease whenever it grants another address.
ClientHoldsOneLease == StoreClientUnique(engine.store)

\* Two clients are taken for the same when they share the MAC address or the
\* client identifier.
SameClient(lease, mac, client) ==
  lease.mac = mac \/ (client # NoClient /\ lease.client = client)

\* One step gives no address to another client before its lease has expired.
TakesNothingOver ==
  \A a \in Addr :
    LET old == engine.store.ip[a]
        new == engine'.store.ip[a]
    IN (/\ old # NoLease /\ ~IsExpired(old, now)
        /\ new # NoLease /\ new.state = "Normal")
       => SameClient(old, new.mac, new.client)

\* No request moves an address from one client to another before the lease
\* has expired, and none grants a declined address before its quarantine is
\* over (engine.go:109-124, 169-173).
NoTakeover == [][TakesNothingOver]_vars

\* Discover never offers an address that is leased to somebody else or
\* declined, and not expired: the answer of PlanLease (engine.go:44-75) is an
\* address that AllocateLease may give to this client.
OfferIsFree ==
  \A ctx \in Context : \A view, view2 \in HostViews(engine) :
    LET addr == PlanLease(engine, view, view2, lastAllocateAddr, ctx, now).addr
    IN (/\ ~panicked
        /\ ~PlanPanics(engine, view, lastAllocateAddr, ctx, now)
        /\ addr # NoAddr)
       => \/ Usable(engine, addr, now)
          \/ SameClient(engine.store.ip[addr], ctx.mac, ctx.client)

\* The client of the request holds its reserved address under another lease
\* than the one PlanLease found.
HoldsReservation(ctx) ==
  LET reserved == engine.hosts[ctx.mac]
  IN /\ reserved # NoAddr
     /\ ~Usable(engine, reserved, now)
     /\ engine.store.ip[reserved].mac = ctx.mac

\* A client that requests the address it was just offered gets it.  Two cases
\* are left out, in both of which PlanLease and AllocateLease disagree and the
\* client is refused what it is offered, again and again: the old lease's
\* address was meanwhile reserved for another MAC (PlanLease line 59 offers
\* it, AllocateLease line 95 refuses it), and the client holds its reserved
\* address under its MAC while its identifier leads to another lease (lines
\* 53-61 against line 103).
OfferHonoured ==
  \A ctx \in Context : \A view, view2, view3 \in HostViews(engine) :
    LET addr == PlanLease(engine, view, view2, lastAllocateAddr, ctx, now).addr
        request == [ctx EXCEPT !.addr = addr]
    IN (/\ ~panicked
        /\ ~PlanPanics(engine, view, lastAllocateAddr, ctx, now)
        /\ addr # NoAddr
        /\ ~addressIsReserved(engine, view3, addr, ctx.mac)
        /\ addr = engine.hosts[ctx.mac] \/ ~HoldsReservation(ctx))
       => ~AllocateRefused(engine, view3, request, now)

PoolsDisjoint(pools) ==
  \A i, j \in DOMAIN pools :
    i # j => pools[i].end < pools[j].start \/ pools[j].end < pools[i].start

\* "all the ip address has been allocated" is only answered when it is so:
\* with pools that do not overlap and do not hold 0.0.0.0, which the iterator
\* takes for "no address yet", the Capacity picks of the iterator
\* (iterative_allocator.go:21-54) visit every address, wherever the last
\* request left it.
ExhaustionIsReal ==
  (~panicked /\ PoolsDisjoint(engine.pools) /\ ~IncludeAddr(engine.pools, 0)) =>
    \A ctx \in Context : \A view \in HostViews(engine) :
      (/\ ~PlanPanics(engine, view, lastAllocateAddr, ctx, now)
       /\ PlanLease(engine, view, view, lastAllocateAddr, ctx, now).addr = NoAddr)
      => \A a \in Addr : IncludeAddr(engine.pools, a) =>
           \/ addressIsReserved(engine, view, a, ctx.mac)
           \/ ~Usable(engine, a, now)

\* A lease inside a reserved pool belongs to a host that reserves its address:
\* the commands that create a reserved pool or drop a host
\* (subnet_command.go:229-231, 314-317) leave no other lease there, and no
\* request creates one.
ReservedPoolOnlyForHosts ==
  \A a \in Addr :
    LET lease == engine.store.ip[a]
    IN (/\ IncludeAddr(engine.reserved, a)
        /\ lease # NoLease /\ lease.state = "Normal")
       => lease.mac \in Mac /\ engine.hosts[lease.mac] = a

\* The store is well formed and its lookups find every lease of a client and nothing
\* else (lease_in_mem.go:37-97, engine.go:77-123).
LeasesSound == TypeOK /\ IndexSound /\ ClientHoldsOneLease

\* An offer is free for the client, and granted when the client asks for it
\* (engine.go:44-124).
OffersSound == OfferIsFree /\ OfferHonoured
=============================================================================
