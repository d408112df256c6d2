------------------------------- MODULE MCSlave --------------------------------
(* Two parts of the slave in instances that are large enough for their safety:  *)
(* the control server or the conflict check.  The part is chosen at first; the  *)
(* other stays as it was started.                                               *)
EXTENDS CtrlServer, TLC

CONSTANTS c1, c2, c3

VARIABLES which,
          at, packId, packSeq, records, answers, timers, timerPc, callbacks, sleepTime,
          recvPc, stopPc, orphans, lostWakeup

pingVars == <<at, packId, packSeq, records, answers, timers, timerPc, callbacks, sleepTime,
              recvPc, stopPc, orphans, lostWakeup>>
allVars == <<which, pingVars, vars>>

\* Configurations that differ in what a reconfig can trip over.
A == [workers |-> 1, options |-> "o1", hooks |-> "h1", throws |-> None]
B == [workers |-> 2, options |-> "o2", hooks |-> None, throws |-> None]
Trips(part) == [workers |-> 1, options |-> None, hooks |-> "h2", throws |-> part]
Confs == {A, B} \cup {Trips(part) : part \in {"classes", "subnets", "rpc"}}

\* Sessions are only compared.
Symmetry == Permutations(Session)

\* Three pings over a sequence number that wraps, so that packet ids collide.
Ping == INSTANCE Pinger WITH
  Ctx <- {c1, c2, c3}, InUse <- {c1, c3}, Randoms <- {0, 1}, MaxSeq <- 2, maxSize <- 2,
  TimeOut <- 2, Delay <- 1
ASSUME Ping!PingerAssumption

MCInit == /\ which \in {"ctrl", "ping"} /\ Init /\ Ping!Init
          /\ which # "ping" => packSeq = 0

MCNext ==
  /\ UNCHANGED which
  /\ \/ which = "ctrl" /\ Next /\ UNCHANGED pingVars
     \/ which = "ping" /\ Ping!Next /\ UNCHANGED vars

MCSpec == MCInit /\ [][MCNext]_allVars
-----------------------------------------------------------------------------

\* A registered context has one end: its record, one callback, or the stop; and a timer
\* that will take its record off, unless that fired before the context was registered
\* (ping.cpp:73, 79).
PingsSound == which = "ping" => Ping!OneOwner /\ Ping!TimerCovers
=============================================================================
