------------------------------- MODULE Pinger -------------------------------
(***************************************************************************)
(* The conflict check of the slave (slave/ping/ping.cpp, timer_queue.cpp).  *)
(* ping() starts a timer, registers the context under a packet id and      *)
(* sends an echo request.  The context leaves the map once: through the    *)
(* thread that receives replies (a conflict) or through the timer thread   *)
(* (no reply).  stop() ends both threads and frees what is left.           *)
(*                                                                         *)
(* Every critical section is one step.  The timer thread holds the timer   *)
(* lock from its test of the queue until it waits or has collected the     *)
(* expired timers, and TimerQueue::stop touches the queue without it.      *)
(* Time is what a timer has left; a tick takes one unit from all of them.  *)
(* A stop finds no ping() under way: RpcAllocateEngine::stop joined the    *)
(* threads that call it (ctrl_server.cpp:111).                             *)
(***************************************************************************)
EXTENDS Integers, Sequences, FiniteSetsExt

CONSTANTS Ctx,        \* client contexts, each of which is pinged once
          InUse,      \* those whose address some host answers for
          MaxSeq,     \* pack_seq_ is an atomic uint16: 2^16
          Randoms,    \* what RandomGenerate may return
          maxSize,    \* QUEUE_MAX_SIZE
          TimeOut,    \* time_out_
          Delay       \* NEGNIGIBLE_DELAY, in the units of TimeOut

PingerAssumption ==
  /\ InUse \subseteq Ctx
  /\ MaxSeq \in Nat \ {0} /\ Randoms # {}
  /\ maxSize \in Nat \ {0} /\ TimeOut \in Nat /\ Delay \in Nat

PackId == Randoms \X (0..(MaxSeq - 1))

VARIABLES at,          \* where the thread that pings a context is
          packId,      \* the packet id of a context
          packSeq,     \* pack_seq_, which no constructor sets
          records,     \* seq_record_map_: packet id -> context
          answers,     \* what the callback of a context was called with
          timers,      \* timer_queue_: what each timer has left, and its id
          timerPc,     \* the thread of removeExpireTimers
          callbacks,   \* ids of the timers it took off the queue
          sleepTime,   \* what it has left to sleep
          recvPc,      \* the thread of recvPacket
          stopPc,      \* the thread that stops
          orphans,     \* contexts registered after their timer fired (history)
          lostWakeup   \* the timer thread missed the end (history)

calls == <<at, packId, packSeq, records, answers, orphans>>
timing == <<timers, timerPc, callbacks, sleepTime>>
ending == <<recvPc, stopPc, lostWakeup>>
vars == <<at, packId, packSeq, records, answers, timers, timerPc, callbacks,
          sleepTime, recvPc, stopPc, orphans, lostWakeup>>

NoId == << >>
NoTimer == NoId        \* the node that TimerQueue::stop pushes

Init ==
  /\ at = [c \in Ctx |-> "new"]
  /\ packId = [c \in Ctx |-> NoId]
  /\ packSeq \in 0..(MaxSeq - 1)
  /\ records = [i \in {} |-> 0]
  /\ answers = [c \in Ctx |-> << >>]
  /\ timers = << >>
  /\ timerPc = "check" /\ callbacks = << >> /\ sleepTime = 0
  /\ recvPc = "run" /\ stopPc = "run"
  /\ orphans = {} /\ lostWakeup = FALSE

TypeOK ==
  /\ at \in [Ctx -> {"new", "timed", "refused", "registered", "collided",
                    "sent", "freed"}]
  /\ packId \in [Ctx -> PackId \cup {NoId}]
  /\ packSeq \in 0..(MaxSeq - 1)
  /\ DOMAIN records \subseteq PackId
  /\ \A i \in DOMAIN records : records[i] \in Ctx
  /\ answers \in [Ctx -> Seq(BOOLEAN)]
  /\ timers \in Seq([id : PackId \cup {NoTimer}, left : Nat])
  /\ Len(timers) <= maxSize + (IF stopPc = "run" THEN 0 ELSE 1)
  /\ timerPc \in {"check", "lock", "block", "waiting", "collect", "run", "sleep", "done"}
  /\ callbacks \in Seq(PackId \cup {NoTimer}) /\ sleepTime \in Nat
  /\ recvPc \in {"run", "done"}
  /\ stopPc \in {"run", "flagged", "pushed", "join", "recv", "stopped"}
  /\ orphans \subseteq Ctx /\ lostWakeup \in BOOLEAN

timerLockFree == timerPc \notin {"block", "collect"}

\* notify_one of empty_condition_: the timer thread, if it waits, runs again.
notifyOne == timerPc' = IF timerPc = "waiting" THEN "lock" ELSE timerPc

-----------------------------------------------------------------------------
(* ping(), on a thread of the RPC engine *)

\* Mutant: a new timer does not wake the timer thread.
addTimerSilently(c) ==
  /\ at[c] = "new" /\ stopPc = "run" /\ timerLockFree
  /\ \E r \in Randoms : packId' = [packId EXCEPT ![c] = <<r, packSeq>>]
  /\ packSeq' = (packSeq + 1) % MaxSeq
  /\ at' = [at EXCEPT ![c] = IF Len(timers) >= maxSize THEN "refused" ELSE "timed"]
  /\ timers' = IF Len(timers) >= maxSize THEN timers
               ELSE Append(timers, [id |-> packId'[c], left |-> TimeOut])
  /\ UNCHANGED <<records, answers, orphans, timerPc, callbacks, sleepTime, ending>>

\* ping() up to addTimer.  A full queue refuses the timer, and ping() then
\* returns: the context, and with it the client's request, is gone.
addTimer(c) ==
  /\ at[c] = "new" /\ stopPc = "run" /\ timerLockFree
  /\ \E r \in Randoms : packId' = [packId EXCEPT ![c] = <<r, packSeq>>]
  /\ packSeq' = (packSeq + 1) % MaxSeq
  /\ IF Len(timers) >= maxSize
     THEN /\ at' = [at EXCEPT ![c] = "refused"]
          /\ UNCHANGED <<timers, timerPc>>
     ELSE /\ at' = [at EXCEPT ![c] = "timed"]
          /\ timers' = Append(timers, [id |-> packId'[c], left |-> TimeOut])
          /\ notifyOne
  /\ UNCHANGED <<records, answers, orphans, callbacks, sleepTime, ending>>

\* std::map::insert keeps what is there: the context of a colliding id is freed.
addPingTarget(c) ==
  /\ at[c] = "timed"
  /\ IF packId[c] \in DOMAIN records
     THEN /\ at' = [at EXCEPT ![c] = "collided"]
          /\ UNCHANGED records
     ELSE /\ at' = [at EXCEPT ![c] = "registered"]
          /\ records' = [i \in DOMAIN records \cup {packId[c]} |->
                           IF i = packId[c] THEN c ELSE records[i]]
  /\ UNCHANGED <<packId, packSeq, answers, orphans, timing, ending>>

\* The address was read before the context moved: a freed one is sent for too.
sendPacket(c) ==
  /\ at[c] \in {"registered", "collided"}
  /\ at' = [at EXCEPT ![c] = IF @ = "registered" THEN "sent" ELSE "freed"]
  /\ UNCHANGED <<packId, packSeq, records, answers, orphans, timing, ending>>

-----------------------------------------------------------------------------
(* notifyPingTarget, on the timer thread and on the receiving thread *)

Without(f, i) == [j \in DOMAIN f \ {i} |-> f[j]]

\* Mutant: the record stays in the map.
notifyPingTargetKept(id, reachable) ==
  IF id \in DOMAIN records
  THEN /\ answers' = [answers EXCEPT ![records[id]] = Append(@, reachable)]
       /\ UNCHANGED records
  ELSE UNCHANGED <<records, answers>>

\* Mutant: it stays, and the last answer is the one that counts.
notifyPingTargetAgain(id, reachable) ==
  IF id \in DOMAIN records
  THEN /\ answers' = [answers EXCEPT ![records[id]] = <<reachable>>]
       /\ UNCHANGED records
  ELSE UNCHANGED <<records, answers>>

\* The record is taken out under the lock, the callback is called without it.
notifyPingTarget(id, reachable) ==
  IF id \in DOMAIN records
  THEN /\ answers' = [answers EXCEPT ![records[id]] = Append(@, reachable)]
       /\ records' = Without(records, id)
  ELSE UNCHANGED <<records, answers>>

\* A reply to an echo request, once, again, late, or never: a host answers for
\* the address of a context in InUse.
recvPacket(c) ==
  /\ recvPc = "run" /\ c \in InUse /\ at[c] \in {"sent", "freed"}
  /\ notifyPingTarget(packId[c], TRUE)
  /\ UNCHANGED <<at, packId, packSeq, orphans, timing, ending>>

-----------------------------------------------------------------------------
(* The timer thread *)

CheckStop ==
  /\ timerPc = "check"
  /\ timerPc' = IF stopPc = "run" THEN "lock" ELSE "done"
  /\ UNCHANGED <<calls, timers, callbacks, sleepTime, ending>>

\* The lock, and the predicate of the wait.
TestQueue ==
  /\ timerPc = "lock"
  /\ timerPc' = IF timers = << >> THEN "block" ELSE "collect"
  /\ UNCHANGED <<calls, timers, callbacks, sleepTime, ending>>

Wait ==
  /\ timerPc = "block"
  /\ timerPc' = "waiting"
  /\ UNCHANGED <<calls, timers, callbacks, sleepTime, ending>>

\* The timers from the front on that have expired, up to the first that has not.
Expired == {n \in 0..Len(timers) : \A k \in 1..n : timers[k].left <= Delay}

Collect ==
  /\ timerPc = "collect"
  /\ LET n == Max(Expired)
     IN /\ callbacks' = [k \in 1..n |-> timers[k].id]
        /\ timers' = SubSeq(timers, n + 1, Len(timers))
        /\ sleepTime' = IF n < Len(timers) THEN timers[n + 1].left ELSE 0
  /\ timerPc' = "run"
  /\ UNCHANGED <<calls, ending>>

RunCallback ==
  /\ timerPc = "run" /\ callbacks # << >>
  /\ callbacks' = Tail(callbacks)
  /\ notifyPingTarget(Head(callbacks), FALSE)
  /\ orphans' = orphans \cup {c \in Ctx : at[c] = "timed" /\ packId[c] = Head(callbacks)}
  /\ UNCHANGED <<at, packId, packSeq, timers, timerPc, sleepTime, ending>>

Sleep ==
  /\ timerPc = "run" /\ callbacks = << >>
  /\ timerPc' = IF sleepTime > 0 THEN "sleep" ELSE "check"
  /\ UNCHANGED <<calls, timers, callbacks, sleepTime, ending>>

WakeUp ==
  /\ timerPc = "sleep" /\ sleepTime = 0
  /\ timerPc' = "check"
  /\ UNCHANGED <<calls, timers, callbacks, sleepTime, ending>>

Tick ==
  /\ sleepTime > 0 \/ \E k \in DOMAIN timers : timers[k].left > 0
  /\ timers' = [k \in DOMAIN timers |->
                  [timers[k] EXCEPT !.left = IF @ > 0 THEN @ - 1 ELSE 0]]
  /\ sleepTime' = IF timerPc = "sleep" /\ sleepTime > 0 THEN sleepTime - 1
                  ELSE sleepTime
  /\ UNCHANGED <<calls, timerPc, callbacks, ending>>

-----------------------------------------------------------------------------
(* stop() *)

StopFlag ==
  /\ stopPc = "run"
  /\ \A c \in Ctx : at[c] \notin {"timed", "registered", "collided"}
  /\ stopPc' = "flagged"
  /\ UNCHANGED <<calls, timing, recvPc, lostWakeup>>

\* TimerQueue::stop pushes an expired timer without the lock.  While the timer
\* thread pops, that is a data race: the node may be lost.
StopPush ==
  /\ stopPc = "flagged"
  /\ stopPc' = "pushed"
  /\ \/ /\ timers' = Append(timers, [id |-> NoTimer, left |-> 0])
        /\ UNCHANGED lostWakeup
     \/ /\ timerPc = "collect"
        /\ lostWakeup' = TRUE
        /\ UNCHANGED timers
  /\ UNCHANGED <<calls, timerPc, callbacks, sleepTime, recvPc>>

\* A thread that found the queue empty and does not wait yet hears nothing.
StopNotify ==
  /\ stopPc = "pushed"
  /\ stopPc' = "join"
  /\ notifyOne
  /\ lostWakeup' = (lostWakeup \/ timerPc = "block")
  /\ UNCHANGED <<calls, timers, callbacks, sleepTime, recvPc>>

StopJoin ==
  /\ stopPc = "join" /\ timerPc = "done"
  /\ timers' = << >>
  /\ stopPc' = "recv"
  /\ UNCHANGED <<calls, timerPc, callbacks, sleepTime, recvPc, lostWakeup>>

\* The byte written to the pipe ends the receiving thread.
RecvEnd ==
  /\ recvPc = "run" /\ stopPc = "recv"
  /\ recvPc' = "done"
  /\ UNCHANGED <<calls, timing, stopPc, lostWakeup>>

StopClear ==
  /\ stopPc = "recv" /\ recvPc = "done"
  /\ records' = [i \in {} |-> 0]
  /\ stopPc' = "stopped"
  /\ UNCHANGED <<at, packId, packSeq, answers, orphans, timing, recvPc, lostWakeup>>

-----------------------------------------------------------------------------
TimerThread ==
  CheckStop \/ TestQueue \/ Wait \/ Collect \/ RunCallback \/ Sleep \/ WakeUp

Stop == StopFlag \/ StopPush \/ StopNotify \/ StopJoin \/ RecvEnd \/ StopClear

Stopping == StopPush \/ StopNotify \/ StopJoin \/ RecvEnd \/ StopClear

Next ==
  \/ \E c \in Ctx : addTimer(c) \/ addPingTarget(c) \/ sendPacket(c) \/ recvPacket(c)
  \/ TimerThread
  \/ Tick
  \/ Stop

\* Every thread keeps running and time passes; nobody has to ping, to answer an
\* echo request, or to stop.
Spec ==
  /\ Init /\ [][Next]_vars
  /\ \A c \in Ctx : WF_vars(addPingTarget(c)) /\ WF_vars(sendPacket(c))
  /\ WF_vars(TimerThread)
  /\ WF_vars(Tick)
  /\ WF_vars(Stopping)

-----------------------------------------------------------------------------
(* What holds *)

\* A registered context has one owner, and so one end: the map still holds it,
\* or its callback was called once, or stop() freed it.  Before it is registered,
\* or when it was refused, it has no callback at all (ping.cpp:79, the race of an
\* echo reply with the timer).
OneOwner ==
  \A c \in Ctx :
    LET held == \E i \in DOMAIN records : records[i] = c
    IN /\ at[c] \notin {"registered", "sent"} => ~held /\ answers[c] = << >>
       /\ held => answers[c] = << >> /\ records[packId[c]] = c
       /\ Len(answers[c]) <= 1
       /\ at[c] \in {"registered", "sent"} /\ stopPc # "stopped"
            => held \/ Len(answers[c]) = 1

\* What waits in the map will be timed out: its timer is in the queue or among
\* the callbacks about to run, unless it fired before addPingTarget
\* (ping.cpp:73).
TimerCovers ==
  stopPc \in {"run", "flagged", "pushed", "join"} /\ timerPc # "done" =>
    \A i \in DOMAIN records :
      \/ \E k \in DOMAIN timers : timers[k].id = i
      \/ \E k \in DOMAIN callbacks : callbacks[k] = i
      \/ records[i] \in orphans

\* A conflict is only reported for an address some host answers for, however
\* late or often the echo replies arrive (the packet id of ping.cpp:69-71).
NoFalseConflict ==
  \A c \in Ctx \ InUse : answers[c] # <<TRUE>>

\* The conflict check is the service its callers expect.
Call == INSTANCE AsyncCall WITH
  Call <- Ctx,
  Answers <- LAMBDA c : BOOLEAN,
  status <- [c \in Ctx |->
               IF answers[c] # << >> THEN <<"answered", answers[c][1]>>
               ELSE IF at[c] = "new" THEN <<"not called">>
               ELSE IF \/ at[c] \in {"refused", "collided", "freed"}
                       \/ stopPc = "stopped"
               THEN <<"lost">> ELSE <<"pending">>]

\* Every step of the check is a step of AsyncCall: a context comes back once, or
\* it is lost because the queue was full, its id was taken or stop() freed it
\* (ping.cpp:35-45, 63-102).
ImplementsCall == Call!Spec

\* Every ping is answered, but for contexts whose timer fired before they were
\* registered (ping.cpp:73; ping_test.cpp:24-25 counts one callback for every ping).
AnsweredUnlessOrphaned ==
  \A c \in Ctx :
    at[c] = "timed" ~> answers[c] # << >> \/ c \in orphans \/ stopPc # "run"

\* A full queue does not stay full (timer_queue.cpp:32, timer_test.cpp:41).
QueueDrains == []<>(Len(timers) < maxSize \/ lostWakeup)

\* stop() returns, unless the timer thread was between its test of the queue and
\* its wait, or popping, when it was told (timer_queue.cpp:18).
StopEnds == stopPc = "flagged" ~> stopPc = "stopped" \/ lostWakeup
=============================================================================
