----------------------------- MODULE RateLimit -----------------------------
(***************************************************************************)
(* The rate limit extension (slave/extensions/rate_limit.cpp) over the LRU *)
(* cache (slave/util/lru_cache.h).  Every worker calls isRequestAllowed for *)
(* every packet: it reads the clock, then takes the lock and looks up the  *)
(* record of the client's MAC address.                                     *)
(*                                                                         *)
(* Times are relative, so that time need not be bounded: a record has an   *)
(* age, a worker a lag (how long ago it read the clock), and a tick adds   *)
(* one to both.  Ages stop counting at MaxAge, where they all look alike.  *)
(***************************************************************************)
EXTENDS Integers, Sequences, SequencesExt, FiniteSets

CONSTANTS Mac,            \* Ethernet addresses of six bytes
          Worker,
          MaxMacs,        \* max-mac-count
          MaxRequests,    \* max-request-per-sec
          Second          \* ticks of the clock in a second

RateLimitAssumption ==
  /\ MaxMacs \in Nat \ {0} /\ MaxRequests \in Nat \ {0} /\ Second \in Nat \ {0}

MaxLag == Second - 1      \* bound: a worker gets the lock within a second
MaxAge == 3 * Second
Older(a) == IF a < MaxAge THEN a + 1 ELSE a

VARIABLES
  items,     \* cache_items_list_: [key, count, age], the youngest use first
  keys,      \* the keys of cache_items_map_
  pc,        \* per worker: idle or locking, and for which address
  lag,       \* per worker: age of the time it read
  recent,    \* history: ages of the requests allowed since the record was made
  used       \* history: keys in the order of their last use, the latest first

vars == <<items, keys, pc, lag, recent, used>>

Idle == <<"idle">>
Locking(m) == <<"locking", m>>

Init ==
  /\ items = <<>> /\ keys = {}
  /\ pc = [w \in Worker |-> Idle] /\ lag = [w \in Worker |-> 0]
  /\ recent = [m \in Mac |-> <<>>] /\ used = <<>>

(***************************************************************************)
(* LruCache.                                                               *)
(***************************************************************************)
Without(k) == SelectSeq(items, LAMBDA i : i.key # k)

\* put: the new element goes to the front, an old one of the same key goes, and
\* the last goes when there are too many.
put(i) ==
  LET list == <<i>> \o (IF i.key \in keys THEN Without(i.key) ELSE items)
      all  == keys \cup {i.key}
  IN IF Cardinality(all) > MaxMacs
       THEN items' = Front(list) /\ keys' = all \ {Last(list).key}
       ELSE items' = list /\ keys' = all

\* find: the element moves to the front; item is what the caller makes of it.
find(item) == items' = <<item>> \o Without(item.key) /\ UNCHANGED keys

Item(k) == CHOOSE i \in ToSet(items) : i.key = k

(***************************************************************************)
(* isRequestAllowed.                                                       *)
(***************************************************************************)
Call(w, m) ==
  /\ pc[w] = Idle
  /\ pc' = [pc EXCEPT ![w] = Locking(m)] /\ lag' = [lag EXCEPT ![w] = 0]
  /\ UNCHANGED <<items, keys, recent, used>>

Return(w, m) ==
  /\ pc' = [pc EXCEPT ![w] = Idle] /\ lag' = [lag EXCEPT ![w] = 0]
  /\ used' = <<m>> \o Remove(used, m)

Evicted == keys \ keys'
Forget(r) == [m \in Mac |-> IF m \in Evicted THEN <<>> ELSE r[m]]
Allowed(m) == [recent EXCEPT ![m] = Append(SelectSeq(@, LAMBDA a : a < Second), 0)]

\* duration_cast<seconds>(now - lastRequestTime_) > 1, for the time w read.
WindowOver(w, m) == (Item(m).age - lag[w]) \div Second > 1

NewRecord(w, m) ==
  /\ pc[w] = Locking(m) /\ m \notin keys
  /\ put([key |-> m, count |-> 1, age |-> lag[w]])
  /\ recent' = Forget(Allowed(m))
  /\ Return(w, m)

NewWindow(w, m) ==
  /\ pc[w] = Locking(m) /\ m \in keys /\ WindowOver(w, m)
  /\ find([key |-> m, count |-> 1, age |-> lag[w]])
  /\ recent' = Allowed(m)
  /\ Return(w, m)

CountUnlimited(w, m) ==
  /\ pc[w] = Locking(m) /\ m \in keys /\ ~WindowOver(w, m)
  /\ Item(m).count + 1 < 3 * MaxRequests
  /\ find([Item(m) EXCEPT !.count = @ + 1])
  /\ recent' = Allowed(m)
  /\ Return(w, m)

Count(w, m) ==
  /\ pc[w] = Locking(m) /\ m \in keys /\ ~WindowOver(w, m)
  /\ Item(m).count + 1 < MaxRequests
  /\ find([Item(m) EXCEPT !.count = @ + 1])
  /\ recent' = Allowed(m)
  /\ Return(w, m)

Refuse(w, m) ==
  /\ pc[w] = Locking(m) /\ m \in keys /\ ~WindowOver(w, m)
  /\ Item(m).count + 1 >= MaxRequests
  /\ find(Item(m))
  /\ Return(w, m)
  /\ UNCHANGED recent

\* Time passes.
Tick ==
  /\ \A w \in Worker : pc[w] # Idle => lag[w] < MaxLag
  /\ items' = [i \in DOMAIN items |-> [items[i] EXCEPT !.age = Older(@)]]
  /\ lag' = [w \in Worker |-> IF pc[w] = Idle THEN 0 ELSE lag[w] + 1]
  /\ recent' = [m \in Mac |->
                  SelectSeq([i \in DOMAIN recent[m] |-> recent[m][i] + 1], LAMBDA a : a < Second)]
  /\ UNCHANGED <<keys, pc, used>>

Allow(w, m) == NewRecord(w, m) \/ NewWindow(w, m) \/ Count(w, m)
Decide(w, m) == Allow(w, m) \/ Refuse(w, m)
Next == Tick \/ \E w \in Worker, m \in Mac : Call(w, m) \/ Decide(w, m)

Spec == Init /\ [][Next]_vars

(***************************************************************************)
(* Properties.                                                             *)
(***************************************************************************)
\* List and map of the cache name the same keys, each once, and no more than
\* the cache may hold (lru_cache.h:25-40).
CacheConsistent ==
  /\ \A i \in DOMAIN items : items[i].age \in 0..MaxAge
  /\ keys \subseteq Mac /\ keys = {items[i].key : i \in DOMAIN items}
  /\ Cardinality(keys) = Len(items) /\ Len(items) <= MaxMacs

\* What the cache keeps are the keys used last, in that order: put and find
\* never drop a client that asked after one they keep (lru_cache.h:34, 52).
KeepsMostRecent == [i \in DOMAIN items |-> items[i].key] = SubSeq(used, 1, Len(items))

\* Within a second a client whose record stays in the cache is allowed at most
\* 2 * max-request-per-sec - 3 requests, or one: a window lasts two seconds and
\* allows one request less than the limit, its first at its start, but the rest
\* of one window and all of the next may fall into the same second
\* (rate_limit.cpp:62-70).  A clock read before the lock does not add to that.
BurstBound ==
  \A m \in Mac : Len(recent[m]) <= (IF MaxRequests > 1 THEN 2 * MaxRequests - 3 ELSE 1)

\* A client that goes on asking is allowed again and again: refusals do not
\* prolong a window (rate_limit.cpp:67).
Fairness == WF_vars(Tick) /\ \A w \in Worker : WF_vars(\E m \in Mac : Decide(w, m))
FairSpec == Spec /\ Fairness
NotStarved ==
  \A m \in Mac : []<><<\E w \in Worker : Decide(w, m)>>_vars => []<><<\E w \in Worker : Allow(w, m)>>_vars

=============================================================================
