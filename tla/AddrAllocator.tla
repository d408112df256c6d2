---------------------------- MODULE AddrAllocator ----------------------------
(***************************************************************************)
(* The address allocator of the master (master/addr_allocator.go,          *)
(* shared_subnet.go): requests of several connections over several subnet  *)
(* engines (module Engine), some of which share a network.  A request that *)
(* its own subnet refuses walks the other subnets of the shared network    *)
(* and takes the lock of one engine at a time, so that other requests come *)
(* in between.  The commands that add and delete subnets and shared        *)
(* networks (subnet_command.go) stop the clients first; at most one client *)
(* is served during a command (AtMostOneIntruder of module Server).        *)
(*                                                                         *)
(* The clock stands still: leases do not expire here (see SubnetEngine).   *)
(***************************************************************************)
EXTENDS Engine, SequencesExt

CONSTANTS SubnetID,
          InitPools(_), InitHosts(_),   \* pools and reservations of a subnet
          Missing,                      \* subnets that are not configured at first
          InitShared, SharedChoice,     \* shared networks: configured, named by commands
          Session,                      \* connections with a request in progress
          Kinds,                        \* requests that clients make
          MaxCommands,
          NoEngine, None

VARIABLES engines,           \* allocator.engines
          lastAllocateAddr,  \* the iterator of each engine
          shared,            \* sharedSubnets: names and lists of subnets
          session,           \* the request that a connection works on, or None
          commands,
          panicked,
          consistent,        \* history: the lists named only subnets that exist
          intruded           \* history: a command ran during a request

vars == <<engines, lastAllocateAddr, shared, session, commands, panicked, consistent,
          intruded>>

now == 0

\* Mutant: every subnet is given the pools of all subnets.
newEngineWithAllPools(s, pools) ==
  [store |-> newLeaseStore, pools |-> <<[start |-> 1, end |-> Max(Addr)]>>, reserved |-> <<>>,
   managed |-> TRUE, hosts |-> InitHosts(s), ttl |-> 1]

\* The hosts are those of the manager that is known for the subnet's id.
newEngine(s, pools) == [store |-> newLeaseStore, pools |-> pools, reserved |-> <<>>,
                        managed |-> TRUE, hosts |-> InitHosts(s), ttl |-> 1]

Named(list) == UNION {ToSet(list[i].ids) : i \in DOMAIN list}

Init ==
  /\ engines = [s \in SubnetID |-> IF s \in Missing THEN NoEngine ELSE newEngine(s, InitPools(s))]
  /\ lastAllocateAddr = [s \in SubnetID |-> 0]
  /\ shared = InitShared
  /\ session = [c \in Session |-> None]
  /\ commands = 0 /\ panicked = FALSE /\ intruded = FALSE
  /\ consistent = (Named(InitShared) \cap Missing = {})

\* The first shared network that names the subnet, without it.
GetSubnetsSharedWith(s) ==
  LET lists == {i \in DOMAIN shared : s \in ToSet(shared[i].ids)}
  IN IF lists = {} THEN <<>> ELSE RemoveFirst(shared[Min(lists)].ids, s)

-----------------------------------------------------------------------------
(* What one engine answers, under its lock. *)

Refusal == [ok |-> FALSE, subnet |-> None, addr |-> NoAddr]
Grant(s, addr) == [ok |-> TRUE, subnet |-> s, addr |-> addr]

\* The outcomes of one request at engine e of subnet s: what is answered, the
\* store and the position of the iterator that are left behind.
Outcome(a, e, last) == [answer |-> a, store |-> e, last |-> last]
InSubnet(kind, ctx, s, e, last) ==
  CASE kind = "discover" ->
         {LET offer == PlanLease(e, v[1], v[2], last, ctx, now)
          IN Outcome(IF offer.addr = NoAddr THEN Refusal ELSE Grant(s, offer.addr), e.store,
                     offer.last) : v \in HostViews(e) \X HostViews(e)}
    [] kind = "request" ->
         {IF AllocateRefused(e, view, ctx, now) THEN Outcome(Refusal, e.store, last)
          ELSE Outcome(Grant(s, ctx.addr), AllocateLease(e, ctx, now), last)
            : view \in HostViews(e)}
    [] kind = "release" ->
         {IF NamesItsLease(e, ctx) THEN Outcome(Grant(s, ctx.addr), ReleaseLease(e, ctx), last)
          ELSE Outcome(Refusal, e.store, last)}
    [] kind = "decline" ->
         {IF NamesItsLease(e, ctx) THEN Outcome(Grant(s, ctx.addr), DeclineLease(e, ctx, now), last)
          ELSE Outcome(Refusal, e.store, last)}
    [] kind = "conflict" ->
         {Outcome(Grant(s, ctx.addr), DeclineConflictIP(e, ctx.addr, now), last)}

-----------------------------------------------------------------------------
(* A request. *)

\* An unknown subnet is refused at once, which changes nothing.
HandleRequest(c, kind, s, ctx) ==
  /\ ~panicked /\ session[c] = None
  /\ engines[s] # NoEngine
  /\ session' = [session EXCEPT ![c] = [kind |-> kind, ctx |-> ctx, rest |-> <<s>>, first |-> TRUE]]
  /\ UNCHANGED <<engines, lastAllocateAddr, shared, commands, panicked, consistent, intruded>>

\* The answer leaves, and the connection reads its next request.
Finish(c) == session' = [session EXCEPT ![c] = None]

\* Mutant: each subnet is asked for the ones it is shared with.
OthersAgain(r, s) == GetSubnetsSharedWith(s)

\* The subnets that a request still tries after it is refused in subnet s.
Others(r, s) == IF r.first THEN GetSubnetsSharedWith(s) ELSE Tail(r.rest)

\* One turn of the request: its own subnet first, then the ones it is shared with.
\* Only a discover tries a subnet whose pools do not hold the address.
Turn(c) ==
  /\ ~panicked /\ session[c] # None
  /\ LET r == session[c]
         s == Head(r.rest)
     IN IF r.rest = <<>>
        THEN Finish(c) /\ UNCHANGED <<engines, lastAllocateAddr, panicked>>
        ELSE IF engines[s] = NoEngine
        THEN panicked' = TRUE /\ UNCHANGED <<engines, lastAllocateAddr, session>>
        ELSE IF /\ ~r.first /\ r.kind # "discover"
                /\ ~IncludeAddr(engines[s].pools, r.ctx.addr)
        THEN /\ session' = [session EXCEPT ![c].rest = Others(r, s)]
             /\ UNCHANGED <<engines, lastAllocateAddr, panicked>>
        ELSE \E o \in InSubnet(r.kind, r.ctx, s, engines[s], lastAllocateAddr[s]) :
               /\ engines' = [engines EXCEPT ![s].store = o.store]
               /\ lastAllocateAddr' = [lastAllocateAddr EXCEPT ![s] = o.last]
               /\ IF o.answer.ok
                  THEN Finish(c)
                  ELSE session' = [session EXCEPT ![c].rest = Others(r, s), ![c].first = FALSE]
               /\ UNCHANGED panicked
  /\ UNCHANGED <<shared, commands, consistent, intruded>>

-----------------------------------------------------------------------------
(* Commands. *)

Active == {c \in Session : session[c] # None}

Command ==
  /\ ~panicked /\ Cardinality(Active) <= 1
  /\ commands < MaxCommands /\ commands' = commands + 1
  /\ intruded' = (intruded \/ Active # {})
  /\ consistent' = (consistent /\ \A s \in Named(shared') : engines'[s] # NoEngine)
  /\ UNCHANGED <<session, panicked>>

\* A new engine without pools; the host manager of a deleted subnet with that id is
\* found again.
addSubnet(s) ==
  /\ engines[s] = NoEngine
  /\ engines' = [engines EXCEPT ![s] = newEngine(s, <<>>)]
  /\ lastAllocateAddr' = [lastAllocateAddr EXCEPT ![s] = 0]
  /\ UNCHANGED shared
  /\ Command

deleteSubnet(s) ==
  /\ engines[s] # NoEngine
  /\ engines' = [engines EXCEPT ![s] = NoEngine]
  /\ UNCHANGED <<lastAllocateAddr, shared>>
  /\ Command

\* The subnet gets its pools back, as far as it has none.
addPool(s) ==
  /\ engines[s] # NoEngine /\ engines[s].pools = <<>>
  /\ engines' = [engines EXCEPT ![s].pools = InitPools(s)]
  /\ UNCHANGED <<lastAllocateAddr, shared>>
  /\ Command

addSharedNetwork(network) ==
  /\ shared' = Append(shared, network)
  /\ UNCHANGED <<engines, lastAllocateAddr>>
  /\ Command

\* The place of the first shared network of that name.
Place(name) == Min({i \in DOMAIN shared : shared[i].name = name})
Known(name) == \E i \in DOMAIN shared : shared[i].name = name

deleteSharedNetwork(name) ==
  /\ Known(name) /\ shared' = RemoveAt(shared, Place(name))
  /\ UNCHANGED <<engines, lastAllocateAddr>>
  /\ Command

updateSharedNetwork(network) ==
  /\ Known(network.name) /\ shared' = [shared EXCEPT ![Place(network.name)] = network]
  /\ UNCHANGED <<engines, lastAllocateAddr>>
  /\ Command

-----------------------------------------------------------------------------

Next ==
  \/ \E c \in Session, k \in Kinds, s \in SubnetID, ctx \in Context : HandleRequest(c, k, s, ctx)
  \/ \E c \in Session : Turn(c)
  \/ \E s \in SubnetID : addSubnet(s) \/ deleteSubnet(s) \/ addPool(s)
  \/ \E network \in SharedChoice :
       addSharedNetwork(network) \/ deleteSharedNetwork(network.name) \/ updateSharedNetwork(network)

Spec == Init /\ [][Next]_vars

-----------------------------------------------------------------------------

Existing == {s \in SubnetID : engines[s] # NoEngine}
Holders(a) ==
  {s \in Existing : engines[s].store.ip[a] # NoLease /\ engines[s].store.ip[a].state = "Normal"}

\* No address is leased in two subnets at the same time: a request that walks the
\* subnets of a shared network leaves a lease only where the address belongs, as
\* the unique address of table lease4 demands (lease_in_db.go:17).
AddressHeldOnce == \A a \in Addr : Cardinality(Holders(a)) <= 1

\* A request finds an engine in every subnet that it walks as long as the shared
\* networks named only subnets that exist and no command ran during a request
\* (addr_allocator.go:92-95, 119-122).
NoPanicWhenConsistent == panicked => ~consistent \/ intruded

\* The whole walk of a request of kind k from subnet s in this state, when no other
\* request and no command comes in between: where it is answered, or a refusal.
RECURSIVE Walk(_, _, _, _)
Walk(k, ctx, rest, first) ==
  IF rest = <<>> THEN {Refusal}
  ELSE LET s == Head(rest)
           next == IF first THEN GetSubnetsSharedWith(s) ELSE Tail(rest)
       IN IF ~first /\ k # "discover" /\ ~IncludeAddr(engines[s].pools, ctx.addr)
          THEN Walk(k, ctx, next, FALSE)
          ELSE UNION {IF o.answer.ok THEN {o.answer} ELSE Walk(k, ctx, next, FALSE)
                        : o \in InSubnet(k, ctx, s, engines[s], lastAllocateAddr[s])}

\* What a discover offers out of a shared network, a request that arrives through
\* the same subnet gets, and out of the same subnet: planLease and allocateLease
\* walk differently (addr_allocator.go:82-101, 110-133) and come to the same.  It is
\* looked at between requests, where every store of the engines is met.
SharedOfferHonoured ==
  Active = {} /\ Named(shared) \subseteq Existing =>
    \A s \in Existing, ctx \in Context :
      \A offer \in Walk("discover", ctx, <<s>>, TRUE) :
        offer.ok => Walk("request", [ctx EXCEPT !.addr = offer.addr], <<s>>, TRUE) = {offer}

\* Every turn of a request that its own subnet refused leaves fewer subnets to try,
\* also when a command changes the shared networks between two turns: the request is
\* answered after as many turns as the list had subnets (addr_allocator.go:91-99,
\* 118-131, 147-160, 175-188).
WalkShortens ==
  \A c \in Session :
    LET old == session[c]
        new == session'[c]
    IN (old # None /\ new # None /\ new # old) =>
         IF old.first THEN ~new.first ELSE Len(new.rest) < Len(old.rest)

=============================================================================
