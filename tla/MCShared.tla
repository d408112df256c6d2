------------------------------- MODULE MCShared -------------------------------
(* What the threads of the slave share, a part at a time: the thread pool, the *)
(* rate limit, the packet counters or the hook libraries.  The part is chosen  *)
(* at first; the others stay as they were started.                             *)
EXTENDS ThreadPool

CONSTANTS m1, m2, m3, w1, w2, receiver, both

VARIABLES which,
          items, keys, ratePc, lag, recent, used,
          counter, counted, statPc, todo, at, buf, lps, reports, wiped,
          hookPc, library_names, lib_managers, hook_vector, refs, stale, wanted, last

rateVars == <<items, keys, ratePc, lag, recent, used>>
statVars == <<counter, counted, statPc, todo, at, buf, lps, reports, wiped>>
hookVars == <<hookPc, library_names, lib_managers, hook_vector, refs, stale, wanted, last>>
allVars == <<which, vars, rateVars, statVars, hookVars>>

\* Three clients with room for two; two workers; a client that never stops asking.
Clients == INSTANCE RateLimit WITH
  Mac <- {m1, m2, m3}, Worker <- {w1}, MaxMacs <- 2, MaxRequests <- 3, Second <- 2, pc <- ratePc
Workers == INSTANCE RateLimit WITH
  Mac <- {m1, m2}, Worker <- {w1, w2}, MaxMacs <- 2, MaxRequests <- 3, Second <- 2, pc <- ratePc
Asking == INSTANCE RateLimit WITH
  Mac <- {m1, m2}, Worker <- {w1}, MaxMacs <- 2, MaxRequests <- 2, Second <- 2, pc <- ratePc
\* Two packets of one kind and one each of two others.
Count4 == INSTANCE Statistics WITH
  Packet <- {1, 2, 3, 5},
  KindOf <- LAMBDA p : <<"discover", "offer", "request", "ack">>[(p % 4) + 1], pc <- statPc
\* One library with a callout for received packets only, one with two.
H == INSTANCE Hooks WITH
  Lib <- {receiver, both},
  Exports <- [l \in {receiver, both} |->
                IF l = receiver THEN {"pkt4_receive"} ELSE {"pkt4_receive", "pkt4_send"}],
  MaxLibs <- 3, pc <- hookPc
ASSUME /\ Clients!RateLimitAssumption /\ Workers!RateLimitAssumption
       /\ Asking!RateLimitAssumption
       /\ Count4!StatisticsAssumption /\ H!HooksAssumption

MCInit ==
  /\ which \in {"pool", "clients", "workers", "asking", "counters", "hooks"}
  /\ Init /\ Count4!Init /\ H!Init
  /\ IF which = "workers" THEN Workers!Init
     ELSE IF which = "asking" THEN Asking!Init ELSE Clients!Init

\* A step of the part p.
Part(p, Step) ==
  /\ which = p /\ UNCHANGED which
  /\ Step
  /\ p # "pool" => UNCHANGED vars
  /\ p \notin {"clients", "workers", "asking"} => UNCHANGED rateVars
  /\ p # "counters" => UNCHANGED statVars
  /\ p # "hooks" => UNCHANGED hookVars

MCNext ==
  \/ Part("pool", Next)
  \/ Part("clients", Clients!Next)
  \/ Part("workers", Workers!Next)
  \/ Part("asking", Asking!Next)
  \/ Part("counters", Count4!Next)
  \/ Part("hooks", H!Next)

\* The fairness of ThreadPool!Spec, RateLimit!FairSpec and Statistics!Spec.
Wakes == Part("pool", Notify) \/ Part("asking", Asking!Tick) \/ Part("counters", Count4!Round)
Locks == Part("pool", Lock) \/ Part("asking", \E m \in {m1, m2} : Asking!Decide(w1, m))
MCSpec == MCInit /\ [][MCNext]_allVars /\ WF_allVars(Wakes) /\ WF_allVars(Locks)
-----------------------------------------------------------------------------

\* List and map of the rate limit's cache agree and keep the clients that asked last, and
\* within a second a client in the cache is allowed a bounded number of requests, also
\* with clocks read before the lock (lru_cache.h:25-52, rate_limit.cpp:62-70).
RateSound ==
  /\ which = "clients" =>
       Clients!CacheConsistent /\ Clients!KeepsMostRecent /\ Clients!BurstBound
  /\ which = "workers" =>
       Workers!CacheConsistent /\ Workers!KeepsMostRecent /\ Workers!BurstBound

\* No packet is counted in two seconds, and increments are lost only between the load and
\* the reset of a counter (pkt_statistic.cpp:134-137).
CountersSound == which = "counters" => Count4!CountedOnce /\ Count4!LostOnlyInGap

\* Packets meet the callouts of all libraries of a configuration in its order, or none,
\* and every library is open as often as it is loaded (library_manager_collection.cpp:31-36,
\* library_manager.cpp:104-134).
HooksSound == which = "hooks" => H!AllOrNothing /\ H!RefsBalanced

\* Nobody waits for ever: a task is started, a client that goes on asking is allowed again
\* and again, and what is counted and not wiped is published (thread_pool.cpp:17-27,
\* rate_limit.cpp:67, pkt_statistic.cpp:130-145).
EverythingIsServed ==
  /\ EveryTaskStarts
  /\ which = "asking" => Asking!NotStarved
  /\ Count4!EventuallyReported
=============================================================================
