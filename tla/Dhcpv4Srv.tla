------------------------------ MODULE Dhcpv4Srv ------------------------------
(***************************************************************************)
(* A request from the client to the master and back: the request           *)
(* processing of a slave (slave/server/server.cpp), the queue and the      *)
(* connections to the master (here the service that RpcAllocateEngine      *)
(* implements), the conflict check (the service that Pinger implements)    *)
(* and the engine of one subnet in the master (module Engine).             *)
(*                                                                         *)
(* Packets wait in the queue of the workers and are taken by any of them,  *)
(* so in any order.  Clients follow RFC 2131: a lease counts from when the *)
(* request was sent, and a reply is taken only while it is waited for.     *)
(* Clients have no identifier here; the engine's modules cover those.      *)
(*                                                                         *)
(* MaxPkts, MaxOpen (queries under way), MaxTime and MaxFaults are bounds  *)
(* of the model.                                                           *)
(***************************************************************************)
EXTENDS Engine

CONSTANTS Conn,          \* the connections to the master
          InitPool,      \* the pool of the subnet
          Ttl,           \* default-valid-lifetime, in both programs
          MinLft, MaxLft,\* min- and max-valid-lifetime of the slave
          Hints,         \* lease times that clients ask for
          Squatted,      \* addresses some host uses without a lease
          Remembered,    \* the address clients had before, or 0
          MaxRetry,      \* MAX_RETRY_COUNT
          MaxPkts, MaxOpen, MaxTime, MaxFaults

Dhcpv4SrvAssumption ==
  /\ InitPool \in Pool /\ Squatted \subseteq Addr \ {0} /\ Remembered \in Addr
  /\ MinLft \in 0..Ttl /\ Ttl \in 0..MaxLft /\ MaxLft \in Nat /\ Hints \subseteq Nat
  /\ MaxRetry \in Nat /\ MaxPkts \in Nat /\ MaxOpen \in Nat
  /\ MaxTime \in Nat /\ MaxFaults \in Nat

Id == 1..MaxOpen

VARIABLES client,    \* what each client knows and waits for
          sends,     \* how many packets were sent
          query,     \* the queries under way, NoQuery for an unused number
          inbox,     \* those that no worker has taken
          ctx,       \* the ClientContext of a query that a worker has taken
          queue,     \* requests to the master that no connection has taken
          conn,      \* the request of each connection, with its result
          orphans,   \* requests whose connection broke
          pinging,   \* contexts whose address is being checked
          engine, lastAllocateAddr,   \* the master
          now, faults,
          reported,  \* addresses whose conflict report was lost (history)
          overtaken  \* clients whose release was overtaken by a later request
                     \* (history)

slave == <<query, inbox, ctx, queue, pinging>>
master == <<engine, lastAllocateAddr>>
history == <<reported, overtaken>>
vars == <<client, sends, query, inbox, ctx, queue, conn, orphans, pinging, engine,
          lastAllocateAddr, now, faults, reported, overtaken>>

\* A query has the type and the contents of its packet and the number xid of the packet
\* that began the transaction.  A client waits for the reply to its query, or has an
\* address until some time, longer (over) than the master keeps it.
NoQuery == [type |-> "None"]

\* What goes to the master is for the context id; a report has no context.
NoMsg == [type |-> "None"]

NewCtx == [your |-> 0, retry |-> 0, tried |-> {}]

Init ==
  /\ client = [m \in Mac |-> [query |-> NoQuery, sent |-> 0, offer |-> Remembered,
                              addr |-> 0, until |-> 0, over |-> FALSE]]
  /\ sends = 0 /\ query = [i \in Id |-> NoQuery] /\ inbox = {}
  /\ ctx = [i \in Id |-> NewCtx]
  /\ queue = << >> /\ pinging = {}
  /\ conn = [k \in Conn |-> NoMsg] /\ orphans = {}
  /\ engine = [store    |-> newLeaseStore,
               pools    |-> <<InitPool>>, reserved |-> << >>,
               managed  |-> FALSE, hosts |-> [m \in Mac |-> NoAddr],
               ttl      |-> Ttl]
  /\ lastAllocateAddr = 0
  /\ now = 0 /\ faults = 0 /\ reported = {} /\ overtaken = {}

-----------------------------------------------------------------------------
(* Clients *)

Uses(m, a) == client[m].addr = a /\ a # 0

Send(q) ==
  LET free == {i \in Id : query[i] = NoQuery}
  IN /\ sends < MaxPkts /\ free # {}
     /\ sends' = sends + 1
     /\ query' = [query EXCEPT ![Min(free)] = q]
     /\ inbox' = inbox \cup {Min(free)}
     /\ UNCHANGED <<ctx, queue, pinging, conn, orphans, master, now, faults, history>>

NewQuery(type, m, a, lft) ==
  [type |-> type, mac |-> m, addr |-> a, lft |-> lft, xid |-> sends + 1]

SendAndWait(m, q) ==
  /\ Send(q)
  /\ client' = [client EXCEPT ![m].query = q, ![m].sent = now]

SendDiscover(m) ==
  /\ client[m].addr = 0
  /\ SendAndWait(m, NewQuery("Discover", m, 0, 0))

\* For the address it was offered or had before, or to renew the one it has.
SendRequest(m, lft) ==
  LET a == IF client[m].addr # 0 THEN client[m].addr ELSE client[m].offer
  IN a # 0 /\ SendAndWait(m, NewQuery("Request", m, a, lft))

\* The same packet again, because no reply has come, or twice from the network.
Resend(m) ==
  /\ client[m].query # NoQuery
  /\ Send(client[m].query)
  /\ UNCHANGED client

\* A client that releases its address, or declines it because it is squatted,
\* stops using it at once.
SendRelease(m) ==
  LET a == client[m].addr
  IN /\ a # 0
     /\ Send(NewQuery(IF a \in Squatted THEN "Decline" ELSE "Release", m, a, 0))
     /\ client' = [client EXCEPT ![m].addr = 0, ![m].until = 0, ![m].over = FALSE,
                                 ![m].offer = a, ![m].query = NoQuery, ![m].sent = 0]

\* The lease time of a reply: Triplet::get with the client's hint, 0 for none.
LeaseTime(lft) ==
  IF lft = 0 THEN Ttl
  ELSE IF lft <= MinLft THEN MinLft ELSE IF lft >= MaxLft THEN MaxLft ELSE lft

\* What a client makes of a reply (yiaddr 0: NAK).
Accept(m, q, yiaddr) ==
  LET c == [client[m] EXCEPT !.query = NoQuery, !.sent = 0]
      until == client[m].sent + LeaseTime(q.lft)
  IN IF client[m].query # q
     THEN client[m]
     ELSE IF q.type = "Discover" /\ yiaddr # 0
     THEN [c EXCEPT !.offer = yiaddr]
     ELSE IF yiaddr = 0 \/ until < now
     THEN [c EXCEPT !.addr = 0, !.offer = 0, !.until = 0, !.over = FALSE]
     ELSE [c EXCEPT !.addr = yiaddr, !.offer = 0, !.until = until,
                    !.over = LeaseTime(q.lft) > Ttl]

-----------------------------------------------------------------------------
(* The slave *)

\* The context is gone, and with it the query.
Free(i) ==
  /\ query' = [query EXCEPT ![i] = NoQuery]
  /\ ctx' = [ctx EXCEPT ![i] = NewCtx]

\* A reply that goes out reaches the client, or is lost.
Reply(i, yiaddr) ==
  LET m == query[i].mac
  IN client' \in {client, [client EXCEPT ![m] = Accept(m, query[i], yiaddr)]}

Msg(i) == [type |-> query[i].type, id |-> i, mac |-> query[i].mac,
           addr |-> query[i].addr, xid |-> query[i].xid]

Report(i) == [type |-> "ConflictIP", id |-> 0, mac |-> NoMac, addr |-> ctx[i].your,
              xid |-> 0]

\* processPacket, processRequest, processRelease, processDecline and the first
\* allocateLease: the query goes to the queue of the RPC engine.
processPacket(i) ==
  /\ i \in inbox
  /\ inbox' = inbox \ {i}
  /\ queue' = Append(queue, Msg(i))
  /\ UNCHANGED <<client, sends, query, ctx, pinging, conn, orphans, master, now, faults,
                 history>>

\* onRPCFinish: deny, ping, or assign.  Release, decline and report have no
\* callback.
onRPCFinish(k) ==
  LET i == conn[k].msg.id
      yiaddr == conn[k].result
  IN /\ conn[k] # NoMsg /\ conn[k].done
     /\ conn' = [conn EXCEPT ![k] = NoMsg]
     /\ IF conn[k].msg.type = "ConflictIP"
        THEN UNCHANGED <<client, query, ctx, pinging>>
        ELSE IF conn[k].msg.type \in {"Release", "Decline"}
        THEN Free(i) /\ UNCHANGED <<client, pinging>>
        ELSE IF conn[k].msg.type = "Discover" /\ yiaddr # 0
        THEN /\ ctx' = [ctx EXCEPT ![i].your = yiaddr]
             /\ pinging' = pinging \cup {i}
             /\ UNCHANGED <<client, query>>
        ELSE Reply(i, yiaddr) /\ Free(i) /\ UNCHANGED pinging
     /\ UNCHANGED <<sends, inbox, queue, orphans, master, now, faults, history>>

Used(a) == a \in Squatted \/ \E m \in Mac : Uses(m, a)

\* Mutant: the address is offered all the same.
onConflictOffering(i) ==
  /\ i \in pinging /\ Used(ctx[i].your)
  /\ pinging' = pinging \ {i}
  /\ queue' = queue \o <<Report(i), Msg(i)>>
  /\ Reply(i, ctx[i].your) /\ Free(i)
  /\ UNCHANGED <<sends, inbox, conn, orphans, master, now, faults, history>>

\* onPingFinish with a conflict: the report goes to the queue, and behind it the
\* query again, unless it was tried too often; then nobody is told.
onConflict(i) ==
  /\ i \in pinging /\ Used(ctx[i].your)
  /\ pinging' = pinging \ {i}
  /\ IF ctx[i].retry + 1 > MaxRetry
     THEN queue' = Append(queue, Report(i)) /\ Free(i)
     ELSE /\ queue' = queue \o <<Report(i), Msg(i)>>
          /\ ctx' = [ctx EXCEPT ![i].retry = @ + 1, ![i].tried = @ \cup {ctx[i].your}]
          /\ UNCHANGED query
  /\ UNCHANGED <<client, sends, inbox, conn, orphans, master, now, faults, history>>

\* onPingFinish without: no answer came, or it was lost.
onNoAnswer(i) ==
  /\ i \in pinging
  /\ pinging' = pinging \ {i}
  /\ Reply(i, ctx[i].your) /\ Free(i)
  /\ UNCHANGED <<sends, inbox, queue, conn, orphans, master, now, faults, history>>

\* The conflict check loses a context (its queue is full).
PingLost(i) ==
  /\ i \in pinging /\ faults < MaxFaults
  /\ faults' = faults + 1
  /\ pinging' = pinging \ {i}
  /\ Free(i)
  /\ UNCHANGED <<client, sends, inbox, queue, conn, orphans, master, now, history>>

-----------------------------------------------------------------------------
(* The connections and the master *)

Take(k) ==
  /\ conn[k] = NoMsg /\ queue # << >>
  /\ conn' = [conn EXCEPT ![k] = [msg |-> Head(queue), done |-> FALSE, result |-> 0]]
  /\ queue' = Tail(queue)
  /\ UNCHANGED <<client, sends, query, inbox, ctx, pinging, orphans, master, now, faults,
                 history>>

\* HandleRequest: the answer of the engine to a message (0: none), and the store
\* and the iterator it leaves.  The subnet has no reservations, so one view.
View == CHOOSE view \in HostViews(engine) : TRUE

Context4(msg) == [mac |-> msg.mac, client |-> NoClient, addr |-> msg.addr]

Plan(msg) == PlanLease(engine, View, View, lastAllocateAddr, Context4(msg), now)

Granted(msg) == ~AllocateRefused(engine, View, Context4(msg), now)

Answer(msg) ==
  CASE msg.type = "Discover" -> IF Plan(msg).addr = NoAddr THEN 0 ELSE Plan(msg).addr
    [] msg.type = "Request" -> IF Granted(msg) THEN msg.addr ELSE 0
    [] OTHER -> 0

StoreAfter(msg) ==
  CASE msg.type = "Request" /\ Granted(msg) -> AllocateLease(engine, Context4(msg), now)
    [] msg.type = "Release" /\ NamesItsLease(engine, Context4(msg)) ->
         ReleaseLease(engine, Context4(msg))
    [] msg.type = "Decline" /\ NamesItsLease(engine, Context4(msg)) ->
         DeclineLease(engine, Context4(msg), now)
    [] msg.type = "ConflictIP" -> DeclineConflictIP(engine, msg.addr, now)
    [] OTHER -> engine.store

HandleRequest(msg) ==
  /\ engine' = [engine EXCEPT !.store = StoreAfter(msg)]
  /\ lastAllocateAddr' = IF msg.type = "Discover" THEN Plan(msg).last
                         ELSE lastAllocateAddr

\* Messages that the master has not handled yet.
Unhandled ==
  {Msg(i) : i \in inbox} \cup {queue[j] : j \in DOMAIN queue} \cup orphans
    \cup {conn[k].msg : k \in {j \in Conn : conn[j] # NoMsg /\ ~conn[j].done}}

\* A request is handled before a release that its client sent earlier.
Overtakes(msg) ==
  overtaken' = IF /\ msg.type = "Request"
                  /\ \E other \in Unhandled : /\ other.type \in {"Release", "Decline"}
                                              /\ other.mac = msg.mac
                                              /\ other.xid < msg.xid
               THEN overtaken \cup {msg.mac} ELSE overtaken

Handle(k) ==
  /\ conn[k] # NoMsg /\ ~conn[k].done
  /\ HandleRequest(conn[k].msg)
  /\ conn' = [conn EXCEPT ![k].done = TRUE, ![k].result = Answer(conn[k].msg)]
  /\ Overtakes(conn[k].msg)
  /\ UNCHANGED <<client, sends, slave, orphans, now, faults, reported>>

HandleOrphan(msg) ==
  /\ msg \in orphans
  /\ orphans' = orphans \ {msg}
  /\ HandleRequest(msg)
  /\ Overtakes(msg)
  /\ UNCHANGED <<client, sends, slave, conn, now, faults, reported>>

\* The connection breaks: the request is lost to the slave, and the master may
\* have read it.
Break(k) ==
  /\ conn[k] # NoMsg /\ faults < MaxFaults
  /\ faults' = faults + 1
  /\ orphans' \in IF conn[k].done THEN {orphans} ELSE {orphans, orphans \cup {conn[k].msg}}
  /\ IF conn[k].msg.type = "ConflictIP"
     THEN /\ reported' = reported \cup {conn[k].msg.addr}
          /\ UNCHANGED <<query, ctx>>
     ELSE Free(conn[k].msg.id) /\ UNCHANGED reported
  /\ conn' = [conn EXCEPT ![k] = NoMsg]
  /\ UNCHANGED <<client, sends, inbox, queue, pinging, master, now, overtaken>>

\* Time passes; a client stops using an address when its lease time is over.
Tick ==
  /\ now < MaxTime
  /\ now' = now + 1
  /\ client' = [m \in Mac |->
                  IF client[m].until < now + 1
                  THEN [client[m] EXCEPT !.addr = 0, !.until = 0, !.over = FALSE]
                  ELSE client[m]]
  /\ UNCHANGED <<sends, slave, conn, orphans, master, faults, history>>

-----------------------------------------------------------------------------
Worker(i) == processPacket(i) \/ onConflict(i) \/ onNoAnswer(i)

Connection(k) == Take(k) \/ Handle(k) \/ onRPCFinish(k)

Next ==
  \/ \E m \in Mac : \/ SendDiscover(m) \/ Resend(m) \/ SendRelease(m)
                    \/ \E lft \in Hints \cup {0} : SendRequest(m, lft)
  \/ \E i \in Id : Worker(i) \/ PingLost(i)
  \/ \E k \in Conn : Connection(k) \/ Break(k)
  \/ \E msg \in orphans : HandleOrphan(msg)
  \/ Tick

Service == \/ \E i \in Id : Worker(i)
           \/ \E k \in Conn : Connection(k)

\* Workers, connections, the master and the conflict check keep going.
Spec ==
  Init /\ [][Next]_vars /\ WF_vars(Service)

-----------------------------------------------------------------------------
(* Properties *)

\* No two clients use one address, with packets handled in any order, requests
\* sent twice and connections that break: what the engine's lock, its expiry test
\* and the reply of assignLease (server.cpp:234) add up to.  Two things may break
\* it.  The slave grants up to max-valid-lifetime (response_gen.cpp:70), of which
\* the master, which keeps the lease for default-valid-lifetime (engine.go:136),
\* learns nothing.  And a release may be handled after a request that its client
\* sent later.
NoDoubleUse ==
  \A m1, m2 \in Mac :
    (m1 # m2 /\ client[m1].addr # 0 /\ client[m1].addr = client[m2].addr)
      => client[m1].over \/ client[m2].over \/ {m1, m2} \cap overtaken # {}

\* A context is in one place: with a worker, in the queue, on a connection or
\* with the conflict check; and it is gone when its reply is sent or it is dropped
\* (server.cpp:168-232, where every branch moves it on once).  So a query has at
\* most one reply.
ContextInOnePlace ==
  \A i \in Id :
    Cardinality({j \in DOMAIN queue : queue[j].id = i})
      + Cardinality({k \in Conn : conn[k] # NoMsg /\ conn[k].msg.id = i})
      + Cardinality({i} \cap pinging) + Cardinality({i} \cap inbox)
    = IF query[i] = NoQuery THEN 0 ELSE 1

\* The report of a conflict at this address has not reached the master yet, or
\* its connection broke.
ReportUnderWay(a) ==
  a \in reported \/ \E msg \in Unhandled : msg.type = "ConflictIP" /\ msg.addr = a

\* A query that met a conflict is not offered the same address again within the
\* lifetime of a lease, unless its retry overtook the report: both go to one
\* queue, but several connections empty it (server.cpp:207, 212).
OffersNothingTried ==
  \A k \in Conn :
    (/\ conn[k] # NoMsg /\ ~conn[k].done /\ conn'[k] # NoMsg /\ conn'[k].done
     /\ conn[k].msg.type = "Discover" /\ MaxTime <= Ttl)
    => \/ conn'[k].result \notin ctx[conn[k].msg.id].tried
       \/ ReportUnderWay(conn'[k].result)
NoRepeatedOffer == [][OffersNothingTried]_vars

\* A query that meets a conflict at every address does not go round for ever: it asks
\* the master at most MaxRetry times again (server.cpp:170), whatever is in use.
RoundsBounded ==
  \A i \in Id : ctx[i].retry <= MaxRetry /\ Cardinality(ctx[i].tried) <= ctx[i].retry
=============================================================================
