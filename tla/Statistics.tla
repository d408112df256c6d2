----------------------------- MODULE Statistics -----------------------------
(***************************************************************************)
(* The packet counters of the slave (slave/statistics/pkt_statistic.cpp).  *)
(* Workers and the threads that reply increment four atomic counters; once *)
(* a second one thread reads them one after the other, sets them to zero   *)
(* one after the other, and publishes what it read for "statis_lps".       *)
(*                                                                         *)
(* A counter is the set of the packets counted in it, so that a packet can *)
(* be told from another; its value is the size of that set.                *)
(***************************************************************************)
EXTENDS Integers, Sequences, FiniteSets

CONSTANTS Packet,       \* packets, each counted once
          KindOf(_)     \* discover, offer, request or ack

Kinds == <<"discover", "offer", "request", "ack">>
Kind == {Kinds[i] : i \in DOMAIN Kinds}
StatisticsAssumption == \A p \in Packet : KindOf(p) \in Kind

VARIABLES
  counter,      \* discover_, offer_, request_, ack_
  counted,      \* packets that were counted
  pc, todo, at, \* the thread: sleep, load, reset or publish; counters left to load
                \* and the one to reset next
  buf,          \* what it has loaded
  lps,          \* lps_
  reports,      \* history: how many values of lps_ counted a packet
  wiped         \* history: packets counted between the load and the reset

vars == <<counter, counted, pc, todo, at, buf, lps, reports, wiped>>

Zero == [k \in Kind |-> {}]

Init ==
  /\ counter = Zero /\ counted = {}
  /\ pc = "sleep" /\ todo = {} /\ at = 1 /\ buf = Zero
  /\ lps = Zero /\ reports = [p \in Packet |-> 0] /\ wiped = {}

\* count_recv, count_send
Increment(p) ==
  /\ p \notin counted
  /\ counter' = [counter EXCEPT ![KindOf(p)] = @ \cup {p}]
  /\ counted' = counted \cup {p}
  /\ UNCHANGED <<pc, todo, at, buf, lps, reports, wiped>>

Wake ==
  /\ pc = "sleep" /\ pc' = "load" /\ todo' = Kind /\ buf' = Zero
  /\ UNCHANGED <<at, counter, counted, lps, reports, wiped>>

\* One load; C++11 leaves the order of the four in one expression open.
Load ==
  /\ pc = "load"
  /\ \E k \in todo :
       /\ buf' = [buf EXCEPT ![k] = counter[k]]
       /\ todo' = todo \ {k}
  /\ IF todo' = {} THEN pc' = "reset" /\ at' = Len(Kinds) ELSE UNCHANGED <<pc, at>>
  /\ UNCHANGED <<counter, counted, lps, reports, wiped>>

ResetFirstOnly ==
  /\ pc = "reset" /\ pc' = "publish"
  /\ counter' = [counter EXCEPT ![Kinds[at]] = {}]
  /\ wiped' = wiped \cup (counter[Kinds[at]] \ buf[Kinds[at]])
  /\ UNCHANGED <<counted, todo, at, buf, lps, reports>>

\* a = b = c = d = 0 assigns from the last to the first.
Reset ==
  /\ pc = "reset"
  /\ counter' = [counter EXCEPT ![Kinds[at]] = {}]
  /\ wiped' = wiped \cup (counter[Kinds[at]] \ buf[Kinds[at]])
  /\ IF at > 1 THEN at' = at - 1 /\ UNCHANGED pc ELSE pc' = "publish" /\ UNCHANGED at
  /\ UNCHANGED <<counted, todo, buf, lps, reports>>

In(p, f) == p \in f[KindOf(p)]
Report(f) == reports' = [p \in Packet |-> IF In(p, f) THEN reports[p] + 1 ELSE reports[p]]

Publish ==
  /\ pc = "publish" /\ pc' = "sleep"
  /\ lps' = buf /\ Report(buf)
  /\ UNCHANGED <<counter, counted, todo, at, buf, wiped>>

Round == Wake \/ Load \/ Reset \/ Publish
Next == Round \/ \E p \in Packet : Increment(p)

Spec == Init /\ [][Next]_vars /\ WF_vars(Round)

\* No packet is counted in two seconds: what was published is in no counter when
\* the next second's loads begin (pkt_statistic.cpp:134-137).
CountedOnce ==
  \A p \in Packet :
    /\ reports[p] <= 1
    /\ reports[p] = 1 /\ pc \in {"sleep", "load"} => ~In(p, counter)

\* A packet that is missing from all of them was counted after its counter was
\* loaded and before it was reset: the gap between the two is the only place
\* where increments are lost.
LostOnlyInGap ==
  \A p \in counted : \/ p \in wiped /\ reports[p] = 0
                     \/ In(p, counter) \/ In(p, buf) \/ reports[p] = 1

\* What is counted and not wiped in that gap reaches lps_, where "statis_lps"
\* finds it (pkt_statistic.cpp:130-145).
EventuallyReported == \A p \in Packet : (p \in counted) ~> (p \in wiped \/ reports[p] = 1)

=============================================================================
