--------------------------- MODULE CtrlServerProofs ---------------------------
(***************************************************************************)
(* What stop() and reconfig leave of the slave process, for any            *)
(* configurations, numbers of workers, packets and commands.               *)
(***************************************************************************)
EXTENDS CtrlServer, FiniteSetTheorems, TLAPS

WorkerState == {"read", "busy", "reply", "ended"}
One(b) == IF b THEN 1 ELSE 0

\* Where a queue holds the null pointer, and the workers that are in state s.
NilsOf(q) == {i \in DOMAIN q : q[i] = Nil}
At(f, s) == {w \in DOMAIN f : f[w] = s}
nils == Cardinality(NilsOf(inq))
ended == Cardinality(At(worker, "ended"))
busy == Cardinality(At(worker, "busy"))

TaskInv == task \in [kind : {None, "stop", "reconfig", "exit"},
                     session : Session \cup {None}, file : Conf \cup {Unparsable, None}]

\* The process is stopped and waits for a command, or is about to go on.
Halted == pc = "stopped" \/ (pc = "idle" /\ stop_flag)

\* What stop() has ended when it has come to a place.
Told == {"drainOut", "readOut", "tellSender", "joinSender", "joinWorkers"}
StageInv ==
  /\ pc \in {"drainIn", "readIn", "joinRecv", "stopRpc", "tell", "stopped"} \cup Told => stop_flag
  /\ pc \in {"pipe", "flag"} => ~stop_flag
  /\ pc \in {"stopRpc", "tell"} \cup Told \/ Halted => recv = "ended"
  /\ pc \in {"tell"} \cup Told \/ Halted => ~rpcUp /\ pending = 0
  /\ pc = "joinWorkers" \/ Halted => send = "ended"
  /\ Halted => \A w \in DOMAIN worker : worker[w] = "ended"

\* Once drainQueue found in_queue empty the receiver adds one packet at most, so that
\* the null pointers find room.
RoomInv ==
  /\ pc \in {"joinRecv", "stopRpc"} => Len(inq) + One(recv = "put") <= 1
  /\ pc = "tell" => Len(inq) <= 1 + told
  /\ pc # "tell" => told = 0

\* Every null pointer is in in_queue or has ended a worker.
Handed == IF pc = "tell" THEN told ELSE IF pc \in Told \/ Halted THEN conf.workers ELSE 0
HandedInv == ~Ended => nils + ended = Handed

\* A packet that was received is in one place at most.
PacketInv ==
  Len(inq) - nils + busy + One(recv \in {"packet", "put"}) + pending <= received

\* What run() has set up last belongs to conf_.
PartsInv ==
  ~Ended =>
    /\ \A q \in {"classes", "subnets", "ping", "rpc"} : parts[q] = conf
    /\ conf.hooks # None => parts.hooks = conf.hooks
    /\ conf.options # None => parts.options # None
    /\ inits = 1 => parts.options = conf.options /\ parts.hooks = conf.hooks

\* The engine is alive until the process ends, and was set once per reconfig at most.
EngineInv ==
  /\ ~Ended => engine = "live"
  /\ inits <= cmds + 1
  /\ pc \in StopPcs \cup {"stopped"} /\ task.kind = "reconfig" => inits <= cmds

IInv == /\ TypeOK /\ TaskInv /\ StageInv /\ RoomInv /\ HandedInv /\ PacketInv
        /\ PartsInv /\ EngineInv /\ EngineUsedWhileAlive
-----------------------------------------------------------------------------
(* Counting *)

LEMMA PktIsNotNil == Pkt # Nil
  BY DEF Pkt, Nil

\* in_queue has room for two null pointers per worker at least.
LEMMA SizeFacts ==
  ASSUME NEW c \in Conf
  PROVE  /\ c.workers \in Nat \ {0} /\ c.workers * QueueSize \in Nat
         /\ c.workers + c.workers <= c.workers * QueueSize
  <1>1. c.workers \in Nat \ {0} /\ QueueSize \in Nat /\ QueueSize > 1
    BY CtrlServerAssumption
  <1>2. ASSUME NEW n \in Nat \ {0}, NEW m \in Nat, m > 1
        PROVE  n * m \in Nat /\ n + n <= n * m
    BY <1>2, SMTT(30)
  <1> QED
    BY <1>1, <1>2

\* A queue holds as many null pointers as it has places for them.
LEMMA NilsFinite ==
  ASSUME NEW q \in Seq({Pkt, Nil})
  PROVE  /\ IsFiniteSet(NilsOf(q)) /\ Cardinality(NilsOf(q)) \in Nat
         /\ Cardinality(NilsOf(q)) <= Len(q)
  <1>1. Len(q) \in Nat /\ NilsOf(q) \in SUBSET (1..Len(q))
    BY DEF NilsOf
  <1>2. IsFiniteSet(1..Len(q)) /\ Cardinality(1..Len(q)) = Len(q)
    <2>1. PICK n \in Nat : n = Len(q)
      BY <1>1
    <2>2. 1 \in Int /\ n \in Int
      OBVIOUS
    <2>3. IsFiniteSet(1..n) /\ Cardinality(1..n) = IF 1 > n THEN 0 ELSE n - 1 + 1
      BY <2>2, FS_Interval
    <2>4. Cardinality(1..n) = n
      BY <2>3
    <2> QED
      BY <2>1, <2>3, <2>4
  <1> QED
    BY <1>1, <1>2, FS_Subset, FS_CardinalityType

LEMMA EmptyHasNoNils == NilsOf(<< >>) = {} /\ Cardinality(NilsOf(<< >>)) = 0
  <1>1. NilsOf(<< >>) = {}
    BY DEF NilsOf
  <1> QED
    BY <1>1, FS_EmptySet

\* A write adds one null pointer if it writes one.
LEMMA AppendCount ==
  ASSUME NEW q \in Seq({Pkt, Nil}), NEW e \in {Pkt, Nil}
  PROVE  /\ Append(q, e) \in Seq({Pkt, Nil}) /\ Len(Append(q, e)) = Len(q) + 1
         /\ Len(q) \in Nat
         /\ Cardinality(NilsOf(Append(q, e))) = Cardinality(NilsOf(q)) + One(e = Nil)
  <1>1. /\ Append(q, e) \in Seq({Pkt, Nil}) /\ Len(Append(q, e)) = Len(q) + 1 /\ Len(q) \in Nat
        /\ Append(q, e)[Len(q) + 1] = e
        /\ \A i \in 1..Len(q) : Append(q, e)[i] = q[i]
        /\ DOMAIN q = 1..Len(q) /\ DOMAIN Append(q, e) = 1..(Len(q) + 1)
    OBVIOUS
  <1>2. CASE e = Nil
    <2>1. NilsOf(Append(q, e)) = NilsOf(q) \cup {Len(q) + 1} /\ Len(q) + 1 \notin NilsOf(q)
      BY <1>1, <1>2 DEF NilsOf
    <2>2. IsFiniteSet(NilsOf(q))
      BY NilsFinite
    <2>3. Cardinality(NilsOf(q) \cup {Len(q) + 1}) = Cardinality(NilsOf(q)) + 1
      BY <2>1, <2>2, FS_AddElement
    <2>4. One(e = Nil) = 1
      BY <1>2 DEF One
    <2> QED
      BY <1>1, <2>1, <2>3, <2>4
  <1>3. CASE e # Nil
    <2>1. NilsOf(Append(q, e)) = NilsOf(q)
      BY <1>1, <1>3 DEF NilsOf
    <2> QED
      BY <1>1, <1>3, <2>1, NilsFinite DEF One
  <1> QED
    BY <1>2, <1>3

\* A read takes one null pointer if it reads one: those behind it move up.
LEMMA TailCount ==
  ASSUME NEW q \in Seq({Pkt, Nil}), q # << >>
  PROVE  /\ Tail(q) \in Seq({Pkt, Nil}) /\ Len(Tail(q)) = Len(q) - 1
         /\ Len(q) \in Nat \ {0} /\ Head(q) \in {Pkt, Nil}
         /\ Cardinality(NilsOf(q)) = Cardinality(NilsOf(Tail(q))) + One(Head(q) = Nil)
  <1>1. /\ Tail(q) \in Seq({Pkt, Nil}) /\ Len(Tail(q)) = Len(q) - 1 /\ Len(q) \in Nat \ {0}
        /\ Head(q) = q[1] /\ q[1] \in {Pkt, Nil}
        /\ \A i \in 1..(Len(q) - 1) : Tail(q)[i] = q[i + 1]
        /\ DOMAIN q = 1..Len(q) /\ DOMAIN Tail(q) = 1..(Len(q) - 1)
    OBVIOUS
  <1> DEFINE rest == NilsOf(q) \ {1}
             up == [i \in NilsOf(Tail(q)) |-> i + 1]
  <1>2. \A i \in NilsOf(Tail(q)) : i \in Nat /\ i + 1 \in rest
    BY <1>1 DEF NilsOf
  <1>3. \A i \in rest : i \in Int /\ i - 1 \in NilsOf(Tail(q)) /\ (i - 1) + 1 = i
    BY <1>1 DEF NilsOf
  <1>4. up \in Bijection(NilsOf(Tail(q)), rest)
    <2>1. up \in [NilsOf(Tail(q)) -> rest]
      BY <1>2
    <2>2. \A i, j \in NilsOf(Tail(q)) : up[i] = up[j] => i = j
      BY <1>2
    <2>3. \A i \in rest : \E j \in NilsOf(Tail(q)) : up[j] = i
      BY <1>3
    <2> QED
      BY <2>1, <2>2, <2>3 DEF Bijection, Injection, Surjection, IsInjective
  <1>5. Cardinality(rest) = Cardinality(NilsOf(Tail(q)))
    <2>1. IsFiniteSet(NilsOf(Tail(q))) /\ ExistsBijection(NilsOf(Tail(q)), rest)
      BY <1>1, <1>4, NilsFinite DEF ExistsBijection
    <2> QED
      BY <2>1, FS_Bijection
  <1>6. 1 \in NilsOf(q) <=> Head(q) = Nil
    BY <1>1 DEF NilsOf
  <1>7. /\ IsFiniteSet(NilsOf(q)) /\ Cardinality(NilsOf(q)) \in Nat
        /\ Cardinality(NilsOf(Tail(q))) \in Nat
    BY <1>1, NilsFinite
  <1>8. Cardinality(rest) = IF 1 \in NilsOf(q) THEN Cardinality(NilsOf(q)) - 1
                            ELSE Cardinality(NilsOf(q))
    BY <1>7, FS_RemoveElement
  <1> QED
    BY <1>1, <1>5, <1>6, <1>7, <1>8 DEF One

\* Workers are counted by their state.
LEMMA AtFinite ==
  ASSUME NEW n \in Nat, NEW f \in [1..n -> WorkerState], NEW s
  PROVE  IsFiniteSet(At(f, s)) /\ Cardinality(At(f, s)) \in 0..n
  <1>1. IsFiniteSet(1..n) /\ Cardinality(1..n) = n
    BY FS_Interval
  <1>2. At(f, s) \in SUBSET (1..n)
    BY DEF At
  <1> QED
    BY <1>1, <1>2, FS_Subset, FS_CardinalityType

\* New workers all read.
LEMMA AtNew ==
  ASSUME NEW n \in Nat, NEW s, s # "read"
  PROVE  Cardinality(At([w \in 1..n |-> "read"], s)) = 0
  <1>1. At([w \in 1..n |-> "read"], s) = {}
    BY DEF At
  <1> QED
    BY <1>1, FS_EmptySet

-----------------------------------------------------------------------------
(* The invariant *)

\* What every step may use of the types.
LEMMA Facts ==
  ASSUME IInv
  PROVE  /\ conf \in Conf /\ conf.workers \in Nat \ {0} /\ Size \in Nat
         /\ conf.workers + conf.workers <= Size
         /\ Len(inq) \in Nat /\ nils \in Nat /\ nils <= Len(inq)
         /\ ended \in 0..conf.workers /\ busy \in Nat
         /\ received \in Nat /\ pending \in Nat /\ told \in Nat
  <1>1. /\ conf \in Conf /\ inq \in Seq({Pkt, Nil}) /\ Len(inq) \in Nat
        /\ worker \in [1..conf.workers -> WorkerState]
        /\ received \in Nat /\ pending \in Nat
    BY CtrlServerAssumption DEF IInv, TypeOK, WorkerState
  <1>2. conf.workers \in Nat \ {0} /\ Size \in Nat /\ conf.workers + conf.workers <= Size
    BY <1>1, SizeFacts DEF Size
  <1>3. nils \in Nat /\ nils <= Len(inq)
    BY <1>1, NilsFinite DEF nils
  <1>4. ended \in 0..conf.workers /\ busy \in 0..conf.workers
    BY <1>1, <1>2, AtFinite DEF ended, busy
  <1>5. told \in Nat
    BY <1>2 DEF IInv, TypeOK
  <1> QED
    BY <1>1, <1>2, <1>3, <1>4, <1>5

\* The threads leave alone what commands and run() set.
LEMMA ControlKept ==
  ASSUME IInv, UNCHANGED Control
  PROVE  TaskInv' /\ PartsInv' /\ EngineInv' /\ EngineUsedWhileAlive'
  BY DEF IInv, Control, set, TaskInv, PartsInv, EngineInv, EngineUsedWhileAlive, Ended

\* And so do the steps of stop().
LEMMA StopKept ==
  ASSUME IInv, pc \in StopPcs, pc' \in StopPcs \cup {"stopped"},
         UNCHANGED <<session, server_stop, task, cmds, set>>
  PROVE  TaskInv' /\ PartsInv' /\ EngineInv' /\ EngineUsedWhileAlive' /\ ~Ended /\ ~Ended'
  BY DEF IInv, StopPcs, set, TaskInv, PartsInv, EngineInv, EngineUsedWhileAlive, Ended

\* The queues keep their size with their configuration.
LEMMA SizeKept == UNCHANGED conf => UNCHANGED Size
  BY DEF Size

\* The counts follow the threads.
LEMMA CountsKept ==
  /\ UNCHANGED inq => UNCHANGED nils
  /\ UNCHANGED worker => UNCHANGED ended /\ UNCHANGED busy
  BY DEF nils, ended, busy

\* A packet comes, or none.
LEMMA Receive4Keeps ==
  ASSUME IInv, ~Ended, receive4
  PROVE  IInv'
  <1> USE DEF receive4, Control, set
  <1>1. TaskInv' /\ PartsInv' /\ EngineInv' /\ EngineUsedWhileAlive'
    BY ControlKept
  <1>2. nils' = nils /\ ended' = ended /\ busy' = busy
    BY CountsKept
  <1>3. TypeOK'
    BY Facts, CtrlServerAssumption, SizeKept DEF IInv, TypeOK
  <1>4. StageInv' /\ RoomInv' /\ HandedInv'
    BY <1>2 DEF IInv, StageInv, RoomInv, HandedInv, Handed, Halted, Ended, Told, One
  <1>5. PacketInv'
    <2>1. PICK l \in Int, b \in Nat, p \in Nat, r \in Nat :
            l = Len(inq) - nils /\ b = busy /\ p = pending /\ r = received
      BY Facts
    <2>2. l + b + 0 + p <= r
      BY <2>1 DEF IInv, PacketInv, One
    <2>3. CASE recv' = "nothing" /\ received' = r
      BY <1>2, <2>1, <2>2, <2>3 DEF PacketInv, One
    <2>4. CASE recv' = "packet" /\ received' = r + 1
      <3>1. l + b + 1 + p <= r + 1
        BY <2>2
      <3> QED
        BY <1>2, <2>1, <2>4, <3>1 DEF PacketInv, One
    <2> QED
      BY <2>1, <2>3, <2>4
  <1> QED
    BY <1>1, <1>3, <1>4, <1>5 DEF IInv

\* The flag ends the receiver, so that it puts nothing it receives later.
LEMMA RecvTestKeeps ==
  ASSUME IInv, ~Ended, RecvTest
  PROVE  IInv'
  <1> USE DEF RecvTest, Control, set
  <1>1. TaskInv' /\ PartsInv' /\ EngineInv' /\ EngineUsedWhileAlive'
    BY ControlKept
  <1>2. nils' = nils /\ ended' = ended /\ busy' = busy
    BY CountsKept
  <1>3. TypeOK'
    BY SizeKept DEF IInv, TypeOK
  <1>4. StageInv' /\ HandedInv'
    BY <1>2 DEF IInv, StageInv, HandedInv, Handed, Halted, Ended, Told
  <1>5. RoomInv'
    BY Facts DEF IInv, TypeOK, StageInv, RoomInv, One
  <1>6. PacketInv'
    BY <1>2, Facts DEF IInv, PacketInv, One
  <1> QED
    BY <1>1, <1>3, <1>4, <1>5, <1>6 DEF IInv

\* The packet that the receiver held is in the queue.
LEMMA RecvPutKeeps ==
  ASSUME IInv, ~Ended, RecvPut
  PROVE  IInv'
  <1> USE DEF RecvPut, Control, set
  <1>1. TaskInv' /\ PartsInv' /\ EngineInv' /\ EngineUsedWhileAlive'
    BY ControlKept
  <1>2. /\ inq' \in Seq({Pkt, Nil}) /\ Len(inq') = Len(inq) + 1
        /\ nils' = nils /\ ended' = ended /\ busy' = busy
    <2>1. inq \in Seq({Pkt, Nil}) /\ One(Pkt = Nil) = 0
      BY PktIsNotNil DEF IInv, TypeOK, One
    <2>2. /\ inq' \in Seq({Pkt, Nil}) /\ Len(inq') = Len(inq) + 1
          /\ Cardinality(NilsOf(inq')) = Cardinality(NilsOf(inq)) + 0
      BY <2>1, AppendCount
    <2> QED
      BY <2>2, CountsKept, Facts DEF nils
  <1>3. TypeOK'
    <2>1. Len(inq') <= Size
      BY <1>2, Facts
    <2>2. Size' = Size
      BY DEF Size
    <2> QED
      BY <1>2, <2>1, <2>2 DEF IInv, TypeOK
  <1>4. StageInv' /\ HandedInv'
    BY <1>2 DEF IInv, StageInv, HandedInv, Handed, Halted, Ended, Told
  <1>5. RoomInv'
    BY <1>2, Facts DEF IInv, StageInv, RoomInv, One
  <1>6. PacketInv'
    BY <1>2, Facts DEF IInv, PacketInv, One
  <1> QED
    BY <1>1, <1>3, <1>4, <1>5, <1>6 DEF IInv

\* A worker that changes its state leaves one count and joins another.
LEMMA WorkerCounted ==
  ASSUME IInv, NEW w \in DOMAIN worker, NEW t \in WorkerState, NEW s,
         worker' = [worker EXCEPT ![w] = t]
  PROVE  /\ worker' \in [1..conf.workers -> WorkerState]
         /\ Cardinality(At(worker', s)) \in Nat
         /\ Cardinality(At(worker', s)) + (IF worker[w] = s THEN 1 ELSE 0)
              = Cardinality(At(worker, s)) + (IF t = s THEN 1 ELSE 0)
  <1>1. /\ worker \in [1..conf.workers -> WorkerState] /\ w \in 1..conf.workers
        /\ conf.workers \in Nat /\ DOMAIN worker = 1..conf.workers
    BY Facts DEF IInv, TypeOK, WorkerState
  <1>2. /\ worker' \in [1..conf.workers -> WorkerState] /\ DOMAIN worker' = 1..conf.workers
        /\ worker'[w] = t /\ \A v \in 1..conf.workers : v # w => worker'[v] = worker[v]
    BY <1>1
  <1>3. /\ IsFiniteSet(At(worker, s)) /\ Cardinality(At(worker, s)) \in Nat
        /\ IsFiniteSet(At(worker', s)) /\ Cardinality(At(worker', s)) \in Nat
    <2>1. IsFiniteSet(At(worker, s)) /\ Cardinality(At(worker, s)) \in 0..conf.workers
      BY <1>1, AtFinite
    <2>2. IsFiniteSet(At(worker', s)) /\ Cardinality(At(worker', s)) \in 0..conf.workers
      BY <1>1, <1>2, AtFinite
    <2> QED
      BY <1>1, <2>1, <2>2
  <1>4. /\ At(worker, s) \ {w} = At(worker', s) \ {w}
        /\ w \in At(worker, s) <=> worker[w] = s
        /\ w \in At(worker', s) <=> t = s
    BY <1>1, <1>2 DEF At
  <1>5. /\ Cardinality(At(worker, s) \ {w}) = IF w \in At(worker, s)
             THEN Cardinality(At(worker, s)) - 1 ELSE Cardinality(At(worker, s))
        /\ Cardinality(At(worker', s) \ {w}) = IF w \in At(worker', s)
             THEN Cardinality(At(worker', s)) - 1 ELSE Cardinality(At(worker', s))
    BY <1>3, FS_RemoveElement
  <1>6. ASSUME NEW a \in Nat, NEW b \in Nat, NEW x \in BOOLEAN, NEW y \in BOOLEAN,
               (IF x THEN a - 1 ELSE a) = (IF y THEN b - 1 ELSE b)
        PROVE  b + (IF x THEN 1 ELSE 0) = a + (IF y THEN 1 ELSE 0)
    BY <1>6
  <1>7. (IF w \in At(worker, s) THEN Cardinality(At(worker, s)) - 1
         ELSE Cardinality(At(worker, s)))
          = (IF w \in At(worker', s) THEN Cardinality(At(worker', s)) - 1
             ELSE Cardinality(At(worker', s)))
    BY <1>4, <1>5
  <1>8. Cardinality(At(worker', s)) + (IF w \in At(worker, s) THEN 1 ELSE 0)
          = Cardinality(At(worker, s)) + (IF w \in At(worker', s) THEN 1 ELSE 0)
    BY <1>3, <1>6, <1>7
  <1> QED
    BY <1>2, <1>3, <1>4, <1>8

\* How the counts follow a worker.
LEMMA WorkerMoves ==
  ASSUME IInv, NEW w \in DOMAIN worker, NEW t \in WorkerState, worker[w] # "ended",
         worker' = [worker EXCEPT ![w] = t]
  PROVE  /\ worker' \in [1..conf.workers -> WorkerState] /\ ended' \in Nat /\ busy' \in Nat
         /\ ended' = ended + (IF t = "ended" THEN 1 ELSE 0)
         /\ busy' + (IF worker[w] = "busy" THEN 1 ELSE 0) = busy + (IF t = "busy" THEN 1 ELSE 0)
  <1>1. /\ worker' \in [1..conf.workers -> WorkerState] /\ ended' \in Nat
        /\ ended' + (IF worker[w] = "ended" THEN 1 ELSE 0) = ended + (IF t = "ended" THEN 1 ELSE 0)
    BY WorkerCounted DEF ended
  <1>2. /\ busy' \in Nat
        /\ busy' + (IF worker[w] = "busy" THEN 1 ELSE 0) = busy + (IF t = "busy" THEN 1 ELSE 0)
    BY WorkerCounted DEF busy
  <1> QED
    BY <1>1, <1>2

\* Packets that move on to the next place, or vanish, are no more than before.
LEMMA PacketsMove ==
  ASSUME NEW l \in Nat, NEW b \in Nat, NEW h \in {0, 1}, NEW p \in Nat, NEW r \in Nat,
         NEW b1 \in Nat, NEW p1 \in Nat, l + b + h + p <= r, b1 + p1 <= b + p
  PROVE  l + b1 + h + p1 <= r /\ p1 \in 0..r
  OBVIOUS

\* A null pointer that is read ends a worker, a packet makes it busy.
LEMMA WorkerReadKeeps ==
  ASSUME IInv, ~Ended, NEW w \in DOMAIN worker, WorkerRead(w)
  PROVE  IInv'
  <1> USE DEF WorkerRead, Control, set
  <1> DEFINE isNil == Head(inq) = Nil
  <1>1. TaskInv' /\ PartsInv' /\ EngineInv' /\ EngineUsedWhileAlive'
    BY ControlKept
  <1>2. /\ inq' \in Seq({Pkt, Nil}) /\ Len(inq') = Len(inq) - 1 /\ Len(inq) \in Nat \ {0}
        /\ nils = nils' + One(isNil) /\ nils' \in Nat
    <2>1. inq \in Seq({Pkt, Nil}) /\ inq # << >>
      BY DEF IInv, TypeOK
    <2>2. /\ inq' \in Seq({Pkt, Nil}) /\ Len(inq') = Len(inq) - 1 /\ Len(inq) \in Nat \ {0}
          /\ Cardinality(NilsOf(inq)) = Cardinality(NilsOf(inq')) + One(isNil)
      BY <2>1, TailCount
    <2> QED
      BY <2>2, NilsFinite DEF nils
  <1>3. /\ worker' \in [1..conf.workers -> WorkerState]
        /\ ended' = ended + One(isNil) /\ busy' = busy + 1 - One(isNil)
    <2>1. CASE isNil
      <3>1. worker' = [worker EXCEPT ![w] = "ended"] /\ worker[w] # "ended"
        BY <2>1
      <3>2. /\ worker' \in [1..conf.workers -> WorkerState] /\ busy' \in Nat
            /\ ended' = ended + 1 /\ busy' + 0 = busy + 0
        BY <3>1, WorkerMoves DEF WorkerState
      <3> QED
        BY <2>1, <3>2, Facts DEF One
    <2>2. CASE ~isNil
      <3>1. worker' = [worker EXCEPT ![w] = "busy"] /\ worker[w] # "ended"
        BY <2>2
      <3>2. /\ worker' \in [1..conf.workers -> WorkerState] /\ busy' \in Nat
            /\ ended' = ended + 0 /\ busy' + 0 = busy + 1
        BY <3>1, WorkerMoves DEF WorkerState
      <3> QED
        BY <2>2, <3>2, Facts DEF One
    <2> QED
      BY <2>1, <2>2
  <1> HIDE DEF isNil
  <1>4. TypeOK'
    <2>1. Len(inq') <= Size
      BY <1>2, Facts DEF IInv, TypeOK
    <2> QED
      BY <1>2, <1>3, <2>1, SizeKept DEF IInv, TypeOK, WorkerState
  <1>5. StageInv'
    BY DEF IInv, StageInv, Halted, Told
  <1>6. HandedInv'
    BY <1>2, <1>3, Facts DEF IInv, HandedInv, Handed, Halted, Ended, Told, One
  <1>7. RoomInv'
    BY <1>2, Facts DEF IInv, RoomInv, One
  <1>8. PacketInv'
    <2>1. One(isNil) \in {0, 1} /\ Len(inq) \in Nat /\ nils \in Nat /\ busy \in Nat
      BY Facts DEF One
    <2>2. PICK l \in Nat, n \in Nat, n1 \in Nat, b \in Nat, o \in {0, 1} :
            l = Len(inq) /\ n = nils /\ n1 = nils' /\ b = busy /\ o = One(isNil)
      BY <1>2, <2>1
    <2>3. Len(inq') - nils' + busy' = Len(inq) - nils + busy
      <3>1. Len(inq') = l - 1 /\ busy' = b + 1 - o /\ n = n1 + o
        BY <1>2, <1>3, <2>2
      <3>2. (l - 1) - n1 + (b + 1 - o) = l - n + b
        BY <3>1
      <3> QED
        BY <2>2, <3>1, <3>2
    <2> QED
      BY <2>3 DEF IInv, PacketInv
  <1> QED
    BY <1>1, <1>4, <1>5, <1>6, <1>7, <1>8 DEF IInv

\* A packet that is done is pending, answered or gone.
LEMMA WorkerDoneKeeps ==
  ASSUME IInv, ~Ended, NEW w \in DOMAIN worker, WorkerDone(w)
  PROVE  IInv'
  <1> USE DEF WorkerDone, Control, set
  <1>1. TaskInv' /\ PartsInv' /\ EngineInv' /\ EngineUsedWhileAlive'
    BY ControlKept
  <1>2. nils' = nils
    BY CountsKept
  <1>3. /\ worker' \in [1..conf.workers -> WorkerState]
        /\ ended' = ended /\ busy' + 1 = busy /\ busy' \in Nat
    <2>1. PICK t \in {"read", "reply"} : worker' = [worker EXCEPT ![w] = t]
      OBVIOUS
    <2>2. /\ worker' \in [1..conf.workers -> WorkerState] /\ busy' \in Nat
          /\ ended' = ended + 0 /\ busy' + 1 = busy + 0
      BY <2>1, WorkerMoves DEF WorkerState
    <2> QED
      BY <2>2, Facts
  <1> DEFINE held == One(recv \in {"packet", "put"})
  <1>4. /\ pending' \in Nat /\ busy' + pending' <= busy + pending
        /\ Len(inq) - nils \in Nat /\ held \in {0, 1}
    BY <1>3, Facts DEF One
  <1>5. Len(inq) - nils + busy + held + pending <= received
    BY DEF IInv, PacketInv
  <1> HIDE DEF held
  <1>6. /\ Len(inq) - nils + busy' + held + pending' <= received
        /\ pending' \in 0..received
    <2>1. PICK l \in Nat, b \in Nat, h \in {0, 1}, p \in Nat, r \in Nat, b1 \in Nat, p1 \in Nat :
            /\ l = Len(inq) - nils /\ b = busy /\ h = held /\ p = pending /\ r = received
            /\ b1 = busy' /\ p1 = pending'
      BY <1>3, <1>4, Facts
    <2>2. l + b + h + p <= r /\ b1 + p1 <= b + p
      BY <1>4, <1>5, <2>1
    <2>3. l + b1 + h + p1 <= r /\ p1 \in 0..r
      BY <2>2, PacketsMove
    <2> QED
      BY <2>1, <2>3
  <1>7. PacketInv'
    BY <1>2, <1>6 DEF PacketInv, held
  <1>8. TypeOK'
    BY <1>3, <1>6, SizeKept DEF IInv, TypeOK, WorkerState
  <1>9. StageInv'
    BY <1>3 DEF IInv, StageInv, Halted, Told
  <1>10. HandedInv' /\ RoomInv'
    BY <1>2, <1>3 DEF IInv, HandedInv, RoomInv, Handed, Halted, Ended, Told, One
  <1> QED
    BY <1>1, <1>7, <1>8, <1>9, <1>10 DEF IInv

\* A reply is queued.
LEMMA WorkerReplyKeeps ==
  ASSUME IInv, ~Ended, NEW w \in DOMAIN worker, WorkerReply(w)
  PROVE  IInv'
  <1> USE DEF WorkerReply, Control, set
  <1>1. TaskInv' /\ PartsInv' /\ EngineInv' /\ EngineUsedWhileAlive'
    BY ControlKept
  <1>2. nils' = nils
    BY CountsKept
  <1>3. /\ worker' \in [1..conf.workers -> WorkerState]
        /\ ended' = ended /\ busy' = busy
    <2>1. /\ worker' \in [1..conf.workers -> WorkerState] /\ busy' \in Nat
          /\ ended' = ended + 0 /\ busy' + 0 = busy + 0
      BY WorkerMoves DEF WorkerState
    <2> QED
      BY <2>1, Facts
  <1>4. TypeOK'
    <2>1. outq' \in Seq({Pkt, Nil}) /\ Len(outq') <= Size
      BY AppendCount, Facts DEF IInv, TypeOK
    <2> QED
      BY <1>3, <2>1, SizeKept DEF IInv, TypeOK, WorkerState
  <1>5. StageInv'
    BY <1>3 DEF IInv, StageInv, Halted, Told
  <1>6. HandedInv' /\ RoomInv' /\ PacketInv'
    BY <1>2, <1>3 DEF IInv, HandedInv, RoomInv, PacketInv, Handed, Halted, Ended, Told, One
  <1> QED
    BY <1>1, <1>4, <1>5, <1>6 DEF IInv

\* The engine and the pinger answer only while they run.
LEMMA EngineDoneKeeps ==
  ASSUME IInv, ~Ended, EngineDone
  PROVE  IInv'
  <1> USE DEF EngineDone, Control, set
  <1>1. TaskInv' /\ PartsInv' /\ EngineInv' /\ EngineUsedWhileAlive'
    BY ControlKept
  <1>2. nils' = nils /\ ended' = ended /\ busy' = busy
    BY CountsKept
  <1>3. TypeOK'
    <2>1. outq' \in Seq({Pkt, Nil}) /\ Len(outq') <= Size
      <3>1. outq \in Seq({Pkt, Nil}) /\ Len(outq) <= Size
        BY DEF IInv, TypeOK
      <3>2. CASE Len(outq) < Size /\ outq' = Append(outq, Pkt)
        BY <3>1, <3>2, AppendCount, Facts
      <3> QED
        BY <3>1, <3>2
    <2> QED
      BY <2>1, Facts, SizeKept DEF IInv, TypeOK, WorkerState
  <1>4. StageInv' /\ HandedInv' /\ RoomInv'
    BY <1>2 DEF IInv, StageInv, HandedInv, RoomInv, Handed, Halted, Ended, Told, One
  <1> DEFINE held == One(recv \in {"packet", "put"})
  <1>5. PacketInv'
    <2>1. Len(inq) - nils \in Nat /\ held \in {0, 1} /\ pending' \in Nat
      BY Facts DEF One
    <2>2. Len(inq) - nils + busy + held + pending <= received
      BY DEF IInv, PacketInv
    <2> HIDE DEF held
    <2>3. PICK l \in Nat, b \in Nat, h \in {0, 1}, p \in Nat, r \in Nat, p1 \in Nat :
            /\ l = Len(inq) - nils /\ b = busy /\ h = held /\ p = pending /\ r = received
            /\ p1 = pending'
      BY <2>1, Facts
    <2>4. l + b + h + p <= r /\ p1 = p - 1
      BY <2>2, <2>3
    <2>5. l + b + h + p1 <= r
      BY <2>4
    <2> QED
      BY <1>2, <2>3, <2>5 DEF PacketInv, held
  <1> QED
    BY <1>1, <1>3, <1>4, <1>5 DEF IInv

\* The sender ends with the null pointer it reads.
LEMMA SendReadKeeps ==
  ASSUME IInv, ~Ended, SendRead
  PROVE  IInv'
  <1> USE DEF SendRead, Control, set
  <1>1. TaskInv' /\ PartsInv' /\ EngineInv' /\ EngineUsedWhileAlive'
    BY ControlKept
  <1>2. nils' = nils /\ ended' = ended /\ busy' = busy
    BY CountsKept
  <1>3. TypeOK'
    <2>1. outq' \in Seq({Pkt, Nil}) /\ Len(outq') <= Size
      BY TailCount, Facts DEF IInv, TypeOK
    <2> QED
      BY <2>1, SizeKept DEF IInv, TypeOK, WorkerState
  <1>4. StageInv' /\ HandedInv' /\ RoomInv' /\ PacketInv'
    BY <1>2 DEF IInv, StageInv, HandedInv, RoomInv, PacketInv, Handed, Halted, Ended, Told, One
  <1> QED
    BY <1>1, <1>3, <1>4 DEF IInv

LEMMA SendDoneKeeps ==
  ASSUME IInv, ~Ended, SendDone
  PROVE  IInv'
  <1> USE DEF SendDone, Control, set
  <1>1. TaskInv' /\ PartsInv' /\ EngineInv' /\ EngineUsedWhileAlive'
    BY ControlKept
  <1>2. nils' = nils /\ ended' = ended /\ busy' = busy
    BY CountsKept
  <1>3. TypeOK'
    BY SizeKept DEF IInv, TypeOK, WorkerState
  <1>4. StageInv' /\ HandedInv' /\ RoomInv' /\ PacketInv'
    BY <1>2 DEF IInv, StageInv, HandedInv, RoomInv, PacketInv, Handed, Halted, Ended, Told, One
  <1> QED
    BY <1>1, <1>3, <1>4 DEF IInv

-----------------------------------------------------------------------------
(* stop() *)

\* Its tests and joins find what they wait for and change no queue
\* (ctrl_server.cpp:100-127).
LEMMA StopTestsKeep ==
  ASSUME IInv, ~Ended,
         \/ stopPipe \/ stopFlag \/ drainInTest \/ joinRecv \/ drainOutTest \/ joinSender
         \/ joinWorkers
  PROVE  IInv'
  <1> USE DEF Goto, Others, threads, set
  <1>1. /\ pc \in StopPcs /\ pc' \in StopPcs \cup {"stopped"}
        /\ UNCHANGED <<session, server_stop, task, cmds, set>>
        /\ UNCHANGED <<threads, rpcUp, told>>
    BY DEF stopPipe, stopFlag, drainInTest, joinRecv, drainOutTest, joinSender, joinWorkers, StopPcs
  <1>2. /\ TaskInv' /\ PartsInv' /\ EngineInv' /\ EngineUsedWhileAlive'
        /\ nils' = nils /\ ended' = ended /\ busy' = busy
    BY <1>1, StopKept, CountsKept
  <1>3. TypeOK'
    <2>1. stop_flag \in BOOLEAN /\ pipe \in BOOLEAN
      BY DEF IInv, TypeOK
    <2>2. stop_flag' \in BOOLEAN /\ pipe' \in BOOLEAN
      BY <2>1 DEF stopPipe, stopFlag, drainInTest, joinRecv, drainOutTest, joinSender, joinWorkers
    <2> QED
      BY <1>1, <2>2, SizeKept DEF IInv, TypeOK
  <1>4. StageInv' /\ HandedInv'
    BY <1>1, <1>2 DEF stopPipe, stopFlag, drainInTest, joinRecv, drainOutTest, joinSender,
                      joinWorkers, IInv, StageInv, HandedInv, Handed, Halted, Ended, Told
  <1>5. RoomInv'
    <2>1. inq = << >> => Len(inq) = 0
      OBVIOUS
    <2>2. Len(inq) \in Nat
      BY Facts
    <2> QED
      BY <1>1, <2>1, <2>2 DEF stopPipe, stopFlag, drainInTest, joinRecv, drainOutTest, joinSender,
                              joinWorkers, IInv, StageInv, RoomInv, One
  <1>6. PacketInv'
    BY <1>1, <1>2 DEF IInv, PacketInv
  <1> QED
    BY <1>2, <1>3, <1>4, <1>5, <1>6 DEF IInv

\* drainQueue takes what is there off in_queue.
LEMMA DrainInReadKeeps ==
  ASSUME IInv, ~Ended, drainInRead
  PROVE  IInv'
  <1> USE DEF drainInRead, Goto, Others, set
  <1>1. TaskInv' /\ PartsInv' /\ EngineInv' /\ EngineUsedWhileAlive'
    BY StopKept DEF StopPcs
  <1>2. /\ inq' \in Seq({Pkt, Nil}) /\ Len(inq') = Len(inq) - 1 /\ Len(inq) \in Nat \ {0}
        /\ nils = nils' + One(Head(inq) = Nil) /\ nils' \in Nat
        /\ ended' = ended /\ busy' = busy
    <2>1. inq \in Seq({Pkt, Nil}) /\ inq # << >>
      BY DEF IInv, TypeOK
    <2>2. /\ inq' \in Seq({Pkt, Nil}) /\ Len(inq') = Len(inq) - 1 /\ Len(inq) \in Nat \ {0}
          /\ Cardinality(NilsOf(inq)) = Cardinality(NilsOf(inq')) + One(Head(inq) = Nil)
      BY <2>1, TailCount
    <2> QED
      BY <2>2, NilsFinite, CountsKept DEF nils
  <1>3. nils = 0 /\ ended = 0 /\ nils' = 0
    <2>1. nils + ended = 0 /\ nils \in Nat /\ ended \in Nat
      BY Facts DEF IInv, HandedInv, Handed, Halted, Told
    <2>2. One(Head(inq) = Nil) \in {0, 1}
      BY DEF One
    <2>3. PICK n \in Nat, n1 \in Nat, e \in Nat, o \in {0, 1} :
            n = nils /\ n1 = nils' /\ e = ended /\ o = One(Head(inq) = Nil)
      BY <1>2, <2>1, <2>2
    <2>4. n + e = 0 /\ n = n1 + o
      BY <1>2, <2>1, <2>3
    <2>5. n = 0 /\ e = 0 /\ n1 = 0
      BY <2>4
    <2> QED
      BY <2>3, <2>5
  <1>4. TypeOK'
    <2>1. Len(inq') <= Size
      BY <1>2, Facts DEF IInv, TypeOK
    <2> QED
      BY <1>2, <2>1, SizeKept DEF IInv, TypeOK, StopPcs
  <1>5. StageInv' /\ RoomInv'
    BY DEF IInv, StageInv, RoomInv, Halted, Told
  <1>6. HandedInv'
    BY <1>2, <1>3 DEF HandedInv, Handed, Halted, Told
  <1>7. PacketInv'
    <2>1. Len(inq) + busy + One(recv \in {"packet", "put"}) + pending <= received
      BY <1>3, Facts DEF IInv, PacketInv, One
    <2>2. One(recv \in {"packet", "put"}) \in {0, 1}
      BY DEF One
    <2> QED
      BY <1>2, <1>3, <2>1, <2>2, Facts DEF PacketInv
  <1> QED
    BY <1>1, <1>4, <1>5, <1>6, <1>7 DEF IInv

\* The engine and the pinger are stopped and hold nothing.
LEMMA StopRpcKeeps ==
  ASSUME IInv, ~Ended, stopRpc
  PROVE  IInv'
  <1> USE DEF stopRpc, Goto, set
  <1>1. TaskInv' /\ PartsInv' /\ EngineInv' /\ EngineUsedWhileAlive'
    BY StopKept DEF StopPcs
  <1>2. nils' = nils /\ ended' = ended /\ busy' = busy
    BY CountsKept
  <1>3. TypeOK'
    <2>1. pending' \in 0..received
      BY Facts
    <2> QED
      BY <2>1, SizeKept DEF IInv, TypeOK, StopPcs
  <1>4. StageInv' /\ HandedInv'
    BY <1>2 DEF IInv, StageInv, RoomInv, HandedInv, Handed, Halted, Ended, Told
  <1>5. RoomInv'
    BY Facts DEF IInv, StageInv, RoomInv, One
  <1>6. PacketInv'
    BY <1>2, Facts DEF IInv, PacketInv, One
  <1> QED
    BY <1>1, <1>3, <1>4, <1>5, <1>6 DEF IInv

\* Each worker's null pointer finds room: two places per worker are more than the one
\* packet that may be left and the null pointers written before (ctrl_server.cpp:26).
LEMMA TellWorkersKeeps ==
  ASSUME IInv, ~Ended, tellWorkers
  PROVE  IInv'
  <1> USE DEF tellWorkers, Goto, set
  <1>1. TaskInv' /\ PartsInv' /\ EngineInv' /\ EngineUsedWhileAlive'
    BY StopKept DEF StopPcs
  <1>2. ended' = ended /\ busy' = busy
    BY CountsKept
  <1>3. CASE told < conf.workers
    <2>1. Len(inq) < Size
      BY <1>3, Facts DEF IInv, RoomInv
    <2>2. inq' = Append(inq, Nil) /\ told' = told + 1 /\ pc' = "tell"
      BY <1>3, <2>1
    <2>3. inq \in Seq({Pkt, Nil}) /\ One(Nil = Nil) = 1
      BY DEF IInv, TypeOK, One
    <2>4. /\ inq' \in Seq({Pkt, Nil}) /\ Len(inq') = Len(inq) + 1
          /\ Cardinality(NilsOf(inq')) = Cardinality(NilsOf(inq)) + 1
      BY <2>2, <2>3, AppendCount
    <2>5. nils' = nils + 1
      BY <2>4 DEF nils
    <2>6. TypeOK'
      <3>1. Len(inq') <= Size /\ told' \in 0..conf.workers
        BY <1>3, <2>1, <2>2, <2>4, Facts
      <3> QED
        BY <2>4, <3>1, SizeKept DEF IInv, TypeOK
    <2>7. StageInv'
      BY <2>2 DEF IInv, StageInv, Halted, Told
    <2>8. RoomInv'
      BY <2>2, <2>4, Facts DEF IInv, RoomInv
    <2>9. HandedInv'
      BY <1>2, <2>2, <2>5, Facts DEF IInv, HandedInv, Handed
    <2>10. PacketInv'
      <3>1. Len(inq') - nils' = Len(inq) - nils
        BY <2>4, <2>5, Facts
      <3> QED
        BY <1>2, <3>1 DEF IInv, PacketInv
    <2> QED
      BY <1>1, <2>6, <2>7, <2>8, <2>9, <2>10 DEF IInv
  <1>4. CASE ~(told < conf.workers)
    <2>1. told = conf.workers /\ told' = 0 /\ pc' = "drainOut" /\ inq' = inq /\ nils' = nils
      BY <1>4, Facts, CountsKept DEF IInv, TypeOK
    <2>2. TypeOK'
      <3>1. told' \in 0..conf.workers
        BY <2>1, Facts
      <3> QED
        BY <2>1, <3>1, SizeKept DEF IInv, TypeOK, StopPcs
    <2>3. StageInv' /\ RoomInv' /\ HandedInv' /\ PacketInv'
      BY <1>2, <2>1 DEF IInv, StageInv, RoomInv, HandedInv, PacketInv, Handed, Halted, Ended, Told
    <2> QED
      BY <1>1, <2>2, <2>3 DEF IInv
  <1> QED
    BY <1>3, <1>4

\* out_queue is drained, and the sender gets its null pointer.
LEMMA StopSenderKeeps ==
  ASSUME IInv, ~Ended, drainOutRead \/ tellSender
  PROVE  IInv'
  <1> USE DEF drainOutRead, tellSender, Goto, Others, set
  <1>1. TaskInv' /\ PartsInv' /\ EngineInv' /\ EngineUsedWhileAlive'
    BY StopKept DEF StopPcs
  <1>2. nils' = nils /\ ended' = ended /\ busy' = busy
    BY CountsKept
  <1>3. TypeOK'
    <2>1. outq \in Seq({Pkt, Nil}) /\ Len(outq) <= Size /\ Len(outq) \in Nat
      BY DEF IInv, TypeOK
    <2>2. Size' = Size
      BY DEF Size
    <2>3. outq' \in Seq({Pkt, Nil}) /\ Len(outq') <= Size
      <3>1. CASE drainOutRead
        <4>1. outq' \in Seq({Pkt, Nil}) /\ Len(outq') = Len(outq) - 1
          BY <2>1, <3>1, TailCount
        <4> QED
          BY <2>1, <4>1, Facts
      <3>2. CASE tellSender
        <4>1. outq' \in Seq({Pkt, Nil}) /\ Len(outq') = Len(outq) + 1
          BY <2>1, <3>2, AppendCount
        <4> QED
          BY <2>1, <3>2, <4>1, Facts
      <3> QED
        BY <3>1, <3>2
    <2>4. pc' \in StopPcs
      BY DEF StopPcs
    <2> QED
      BY <2>2, <2>3, <2>4 DEF IInv, TypeOK
  <1>4. StageInv'
    BY DEF IInv, StageInv, Halted, Told
  <1>5. RoomInv'
    BY DEF IInv, RoomInv
  <1>6. HandedInv'
    BY <1>2 DEF IInv, HandedInv, Handed, Halted, Ended, Told
  <1>7. PacketInv'
    BY <1>2 DEF IInv, PacketInv
  <1> QED
    BY <1>1, <1>3, <1>4, <1>5, <1>6, <1>7 DEF IInv

-----------------------------------------------------------------------------
(* Commands *)

\* A run() that does not throw sets up every part and a new engine.
LEMMA WholeRun ==
  ASSUME NEW c, c.throws = None, NEW p, NEW e
  PROVE  /\ \A q \in {"classes", "subnets", "ping", "rpc"} : PartsAfter(p, c)[q] = c
         /\ PartsAfter(p, c).options = IF p.options = None THEN c.options ELSE p.options
         /\ PartsAfter(p, c).hooks = IF c.hooks # None THEN c.hooks ELSE p.hooks
         /\ EngineAfter(e, c) = "live"
  <1>1. /\ \A i \in 1..Len(Parts) : Parts[i] # None
        /\ None \notin {"options", "hooks", "classes", "subnets", "rpc"}
    BY CtrlServerAssumption DEF PartNames, Parts
  <1>2. \A q : Reaches(c, q)
    BY <1>1 DEF Reaches
  <1> QED
    BY <1>1, <1>2 DEF PartsAfter, EngineAfter

\* A run() leaves the engine that was there freed only if the address of the master
\* does not resolve.
LEMMA FailedRun ==
  ASSUME NEW c
  PROVE  EngineAfter("live", c) = "live" \/ (EngineAfter("live", c) = "freed" /\ c.throws = "rpc")
  BY DEF EngineAfter

\* Sessions come and go and read and write.
LEMMA SessionKeeps ==
  ASSUME IInv, ~Ended, UNCHANGED <<task, pc, Others, threads, set>>,
         session' \in [Session -> {"closed", "open", "writing"}],
         server_stop' \in [Session -> BOOLEAN], cmds' \in {cmds, cmds + 1}, cmds' \in 0..MaxCmds
  PROVE  IInv'
  <1> USE DEF Others, threads, set
  <1>1. nils' = nils /\ ended' = ended /\ busy' = busy
    BY CountsKept
  <1>2. TypeOK'
    BY SizeKept DEF IInv, TypeOK
  <1>3. TaskInv' /\ PartsInv' /\ EngineUsedWhileAlive'
    BY DEF IInv, TaskInv, PartsInv, EngineUsedWhileAlive, Ended
  <1>4. EngineInv'
    <2>1. inits \in Int /\ cmds \in Int /\ cmds' \in Int /\ cmds <= cmds'
      BY DEF IInv, TypeOK
    <2>2. ASSUME NEW i \in Int, NEW n \in Int, NEW m \in Int, n <= m
          PROVE  (i <= n + 1 => i <= m + 1) /\ (i <= n => i <= m)
      BY <2>2
    <2>3. (inits <= cmds + 1 => inits <= cmds' + 1) /\ (inits <= cmds => inits <= cmds')
      BY <2>1, <2>2
    <2> QED
      BY <2>3 DEF IInv, EngineInv, Ended
  <1>5. StageInv' /\ RoomInv' /\ HandedInv' /\ PacketInv'
    BY <1>1 DEF IInv, StageInv, RoomInv, HandedInv, PacketInv, Handed, Halted, Ended, Told
  <1> QED
    BY <1>2, <1>3, <1>4, <1>5 DEF IInv

\* A stop() that finds the flag set returns at once: the threads have ended before.
LEMMA CallStopKeeps ==
  ASSUME IInv, pc = "idle",
         NEW t \in [kind : {"stop", "reconfig", "exit"}, session : Session \cup {None}, file : {None}],
         CallStop(t), session' \in [Session -> {"closed", "open", "writing"}],
         server_stop' \in [Session -> BOOLEAN], cmds' \in 0..MaxCmds,
         cmds' = cmds + 1 \/ (cmds' = cmds /\ t.kind = "exit")
  PROVE  IInv'
  <1> USE DEF CallStop, Others, threads, set
  <1>1. nils' = nils /\ ended' = ended /\ busy' = busy
    BY CountsKept
  <1>2. /\ pc' \in {"stopped", "pipe"} /\ ~Ended /\ ~Ended'
        /\ (pc' = "stopped" <=> stop_flag)
    BY DEF Ended
  <1>3. TypeOK'
    <2>1. task'.kind \in {None, "stop", "reconfig", "exit"}
      OBVIOUS
    <2> QED
      BY <1>2, <2>1, SizeKept DEF IInv, TypeOK, StopPcs
  <1>4. TaskInv' /\ PartsInv' /\ EngineUsedWhileAlive'
    BY <1>2 DEF IInv, TaskInv, PartsInv, EngineUsedWhileAlive, Ended
  <1>5. EngineInv'
    <2>1. inits \in Int /\ cmds \in Int /\ inits <= cmds + 1 /\ engine = "live"
      BY <1>2 DEF IInv, TypeOK, EngineInv
    <2>2. CASE cmds' = cmds + 1
      BY <2>1, <2>2 DEF EngineInv
    <2>3. CASE cmds' = cmds /\ t.kind = "exit"
      BY <2>1, <2>3 DEF EngineInv
    <2> QED
      BY <2>2, <2>3
  <1>6. StageInv' /\ RoomInv' /\ HandedInv' /\ PacketInv'
    BY <1>1, <1>2 DEF IInv, StageInv, RoomInv, HandedInv, PacketInv, Handed, Halted, Told
  <1> QED
    BY <1>3, <1>4, <1>5, <1>6 DEF IInv

\* What a session does.
LEMMA SessionsKeep ==
  ASSUME IInv, ~Ended, NEW s \in Session,
         \/ Connect(s) \/ Disconnect(s) \/ Query(s) \/ Written(s) \/ WriteFailed(s)
         \/ \E k \in {"stop", "reconfig"} : Command(s, k)
  PROVE  IInv'
  <1>1. /\ session \in [Session -> {"closed", "open", "writing"}]
        /\ server_stop \in [Session -> BOOLEAN] /\ cmds \in 0..MaxCmds /\ MaxCmds \in Nat
    BY CtrlServerAssumption DEF IInv, TypeOK
  <1>2. CASE Connect(s) \/ Disconnect(s) \/ WriteFailed(s)
    <2>1. /\ session' \in [Session -> {"closed", "open", "writing"}]
          /\ server_stop' \in [Session -> BOOLEAN] /\ cmds' = cmds
          /\ UNCHANGED <<task, pc, Others, threads, set>>
      BY <1>1, <1>2 DEF Connect, Disconnect, WriteFailed
    <2> QED
      BY <1>1, <2>1, SessionKeeps
  <1>3. CASE Query(s)
    <2>1. /\ session' \in [Session -> {"closed", "open", "writing"}]
          /\ server_stop' = server_stop /\ cmds' = cmds + 1 /\ cmds < MaxCmds
          /\ UNCHANGED <<task, pc, Others, threads, set>>
      BY <1>1, <1>3 DEF Query
    <2>2. cmds' \in 0..MaxCmds
      BY <1>1, <2>1
    <2> QED
      BY <1>1, <2>1, <2>2, SessionKeeps
  <1>4. CASE Written(s)
    <2>1. CASE server_stop[s]
      <3> DEFINE t == [kind |-> "exit", session |-> None, file |-> None]
      <3>1. /\ session' \in [Session -> {"closed", "open", "writing"}]
            /\ server_stop' = server_stop /\ cmds' = cmds /\ pc = "idle" /\ CallStop(t)
        BY <1>4, <2>1 DEF Written
      <3>2. t \in [kind : {"stop", "reconfig", "exit"}, session : Session \cup {None}, file : {None}]
        OBVIOUS
      <3>3. t.kind = "exit"
        OBVIOUS
      <3> HIDE DEF t
      <3> QED
        BY <1>1, <3>1, <3>2, <3>3, CallStopKeeps
    <2>2. CASE ~server_stop[s]
      <3>1. /\ session' \in [Session -> {"closed", "open", "writing"}]
            /\ server_stop' = server_stop /\ cmds' = cmds
            /\ UNCHANGED <<task, pc, Others, threads, set>>
        BY <1>1, <1>4, <2>2 DEF Written
      <3> QED
        BY <1>1, <3>1, SessionKeeps
    <2> QED
      BY <2>1, <2>2
  <1>5. ASSUME NEW k \in {"stop", "reconfig"}, Command(s, k)
        PROVE  IInv'
    <2> DEFINE t == [kind |-> k, session |-> s, file |-> None]
    <2>1. /\ session' = session /\ server_stop' \in [Session -> BOOLEAN] /\ cmds' = cmds + 1
          /\ cmds < MaxCmds /\ pc = "idle" /\ CallStop(t)
      BY <1>1, <1>5 DEF Command
    <2>2. t \in [kind : {"stop", "reconfig", "exit"}, session : Session \cup {None}, file : {None}]
      OBVIOUS
    <2>3. cmds' \in 0..MaxCmds
      BY <1>1, <2>1
    <2> HIDE DEF t
    <2> QED
      BY <1>1, <2>1, <2>2, <2>3, CallStopKeeps
  <1> QED
    BY <1>2, <1>3, <1>4, <1>5

\* The command "stop" is answered by a process that stays stopped.
LEMMA StopDoneKeeps ==
  ASSUME IInv, ~Ended, StopDone
  PROVE  IInv'
  <1> USE DEF StopDone, Answered, Others, threads, set
  <1>1. /\ nils' = nils /\ ended' = ended /\ busy' = busy /\ ~Ended'
        /\ stop_flag = TRUE
    BY CountsKept DEF Ended, IInv, StageInv, TypeOK
  <1>2. TypeOK' /\ TaskInv'
    BY SizeKept DEF IInv, TypeOK, TaskInv, Idle
  <1>3. StageInv' /\ RoomInv' /\ HandedInv' /\ PacketInv'
    BY <1>1 DEF IInv, StageInv, RoomInv, HandedInv, PacketInv, Handed, Halted, Told
  <1>4. PartsInv' /\ EngineInv' /\ EngineUsedWhileAlive'
    BY <1>1 DEF IInv, PartsInv, EngineInv, EngineUsedWhileAlive, StopPcs, Ended
  <1> QED
    BY <1>2, <1>3, <1>4 DEF IInv

\* reconfig starts all threads anew, with the new configuration or the old one
\* (ctrl_server.cpp:160-176).
LEMMA ReconfiguredKeeps ==
  ASSUME IInv, ~Ended, NEW f \in Conf \cup {Unparsable}, Reconfigured(f)
  PROVE  IInv'
  <1> DEFINE ok == f # Unparsable /\ f.throws = None
             new == IF ok THEN f ELSE conf
             p1 == IF f = Unparsable THEN parts ELSE PartsAfter(parts, f)
             e1 == IF f = Unparsable THEN engine ELSE EngineAfter(engine, f)
  <1>1. /\ pc = "stopped" /\ task.kind = "reconfig" /\ StartThreads(new)
        /\ conf' = new /\ inits' = inits + 1 /\ UNCHANGED <<server_stop, cmds>>
        /\ parts' = PartsAfter(IF ok THEN parts ELSE p1, new)
        /\ engine' = EngineAfter(IF ok THEN engine ELSE e1, new)
        /\ \/ /\ ~ok /\ e1 = "freed" /\ pc' = "undefined"
              /\ task' = [task EXCEPT !.file = f] /\ UNCHANGED session
           \/ pc' = "idle" /\ task' = Idle /\ Answered(task.session)
    BY DEF Reconfigured, IInv, EngineInv
  <1>2. new \in Conf /\ new.throws = None /\ new.workers \in Nat \ {0} /\ Size' \in Nat
    <2>1. new \in Conf /\ new.throws = None
      BY DEF IInv, TypeOK
    <2> QED
      BY <1>1, <2>1, SizeFacts DEF Size
  <1>3. /\ \A q \in {"classes", "subnets", "ping", "rpc"} : parts'[q] = new
        /\ parts'.options = IF (IF ok THEN parts ELSE p1).options = None THEN new.options
                            ELSE (IF ok THEN parts ELSE p1).options
        /\ new.hooks # None => parts'.hooks = new.hooks
        /\ engine' = "live"
    <2> HIDE DEF new, p1, e1, ok
    <2> QED
      BY <1>1, <1>2, WholeRun
  <1>4. e1 = "freed" => f # Unparsable /\ f.throws = "rpc"
    <2>1. engine = "live"
      BY DEF IInv, EngineInv
    <2> QED
      BY <2>1, FailedRun
  <1> HIDE DEF ok, new, p1, e1
  <1>5. /\ inq' = << >> /\ outq' = << >> /\ worker' = [w \in 1..new.workers |-> "read"]
        /\ recv' = "select" /\ send' = "read" /\ pending' = 0 /\ rpcUp' = TRUE
        /\ stop_flag' = FALSE /\ pipe' = FALSE /\ UNCHANGED <<told, received>>
    BY <1>1 DEF StartThreads
  <1>6. nils' = 0 /\ ended' = 0 /\ busy' = 0
    BY <1>2, <1>5, EmptyHasNoNils, AtNew DEF nils, ended, busy
  <1>7. inits' \in 1..(MaxCmds + 1) /\ inits' <= cmds' + 1 /\ inits' # 1
    BY <1>1, CtrlServerAssumption DEF IInv, TypeOK, EngineInv
  <1>8. told' = 0
    BY <1>1, <1>5 DEF IInv, RoomInv
  <1>9. TypeOK' /\ TaskInv'
    <2>1. /\ inq' \in Seq({Pkt, Nil}) /\ Len(inq') <= Size'
          /\ outq' \in Seq({Pkt, Nil}) /\ Len(outq') <= Size'
      BY <1>2, <1>5
    <2>2. /\ worker' \in [1..conf'.workers -> {"read", "busy", "reply", "ended"}]
          /\ told' \in 0..conf'.workers /\ conf' \in Conf /\ conf'.throws = None
      BY <1>1, <1>2, <1>5, <1>8
    <2>3. /\ session' \in [Session -> {"closed", "open", "writing"}]
          /\ pc' \in {"idle", "undefined"} /\ TaskInv'
      BY <1>1 DEF IInv, TypeOK, TaskInv, Answered, Idle
    <2>4. pending' \in 0..received' /\ received' \in 0..MaxPkts
      BY <1>5, Facts DEF IInv, TypeOK
    <2>5. task'.kind \in {None, "stop", "reconfig", "exit"}
      BY <2>3 DEF TaskInv
    <2> QED
      BY <1>1, <1>3, <1>5, <1>7, <2>1, <2>2, <2>3, <2>4, <2>5 DEF IInv, TypeOK
  <1>10. StageInv'
    BY <1>1, <1>5 DEF StageInv, Halted, Told
  <1>11. RoomInv' /\ HandedInv'
    BY <1>1, <1>5, <1>6, <1>8 DEF RoomInv, HandedInv, Handed, Halted, Told, Ended
  <1>12. PacketInv'
    BY <1>5, <1>6, Facts DEF PacketInv, One
  <1>13. PartsInv'
    <2>1. new.options # None => parts'.options # None
      BY <1>3
    <2> QED
      BY <1>1, <1>3, <1>7, <2>1 DEF PartsInv
  <1>14. EngineInv'
    BY <1>1, <1>3, <1>7 DEF EngineInv, StopPcs
  <1>15. EngineUsedWhileAlive'
    BY <1>1, <1>4 DEF IInv, TaskInv, EngineUsedWhileAlive
  <1> QED
    BY <1>9, <1>10, <1>11, <1>12, <1>13, <1>14, <1>15 DEF IInv

\* The process exits: a handler that finds the engine deleted was left by a reconfig
\* (rpc_allocate_engine.cpp:59).
LEMMA ExitKeeps ==
  ASSUME IInv, ~Ended, Exit
  PROVE  IInv'
  <1> USE DEF Exit, Others, threads
  <1>1. /\ nils' = nils /\ ended' = ended /\ busy' = busy /\ Ended'
        /\ pc = "stopped" /\ pc' \in {"exited", "undefined"} /\ engine = "live"
    BY CountsKept DEF Ended, IInv, EngineInv
  <1>2. TypeOK' /\ TaskInv'
    BY <1>1, SizeKept DEF IInv, TypeOK, TaskInv
  <1>3. StageInv' /\ RoomInv' /\ HandedInv' /\ PacketInv'
    BY <1>1 DEF IInv, StageInv, RoomInv, HandedInv, PacketInv, Halted, Told
  <1>4. PartsInv' /\ EngineInv' /\ EngineUsedWhileAlive'
    BY <1>1 DEF IInv, PartsInv, EngineInv, EngineUsedWhileAlive, StopPcs
  <1> QED
    BY <1>2, <1>3, <1>4 DEF IInv

-----------------------------------------------------------------------------
(* What it gives *)

\* The process starts with the threads of the first configuration and empty queues.
LEMMA InitInv == Init => IInv
  <1> SUFFICES ASSUME Init PROVE IInv
    OBVIOUS
  <1> USE DEF Init
  <1>1. /\ FirstConf \in Conf /\ FirstConf.throws = None /\ FirstConf.workers \in Nat \ {0}
        /\ Size \in Nat /\ MaxCmds \in Nat /\ MaxPkts \in Nat
    BY CtrlServerAssumption, SizeFacts DEF Size
  <1>2. nils = 0 /\ ended = 0 /\ busy = 0
    BY <1>1, EmptyHasNoNils, AtNew DEF nils, ended, busy
  <1>3. inq \in Seq({Pkt, Nil}) /\ Len(inq) = 0 /\ outq \in Seq({Pkt, Nil}) /\ Len(outq) = 0
    OBVIOUS
  <1>4. TypeOK /\ TaskInv
    <2>1. /\ 0 \in 0..MaxPkts /\ 0 \in 0..MaxCmds /\ 1 \in 1..(MaxCmds + 1)
          /\ 0 \in 0..0 /\ 0 \in 0..FirstConf.workers
      BY <1>1
    <2>2. Len(inq) <= Size /\ Len(outq) <= Size
      BY <1>1, <1>3
    <2>3. worker \in [1..conf.workers -> {"read", "busy", "reply", "ended"}]
      OBVIOUS
    <2>4. TaskInv /\ task.kind \in {None, "stop", "reconfig", "exit"}
      BY DEF TaskInv, Idle
    <2> QED
      BY <1>1, <1>3, <2>1, <2>2, <2>3, <2>4 DEF TypeOK
  <1>5. StageInv /\ RoomInv /\ HandedInv /\ PacketInv
    BY <1>2, <1>3 DEF StageInv, RoomInv, HandedInv, PacketInv, Handed, Halted, Told, One
  <1>6. PartsInv
    <2>1. NoParts.options = None /\ NoParts.hooks = None
      BY DEF NoParts
    <2>2. /\ \A q \in {"classes", "subnets", "ping", "rpc"} : parts[q] = FirstConf
          /\ parts.options = IF NoParts.options = None THEN FirstConf.options ELSE NoParts.options
          /\ parts.hooks = IF FirstConf.hooks # None THEN FirstConf.hooks ELSE NoParts.hooks
      <3>1. parts = PartsAfter(NoParts, FirstConf)
        OBVIOUS
      <3> HIDE DEF Init
      <3>2. LET after == PartsAfter(NoParts, FirstConf)
            IN  /\ \A q \in {"classes", "subnets", "ping", "rpc"} : after[q] = FirstConf
                /\ after.options =
                     IF NoParts.options = None THEN FirstConf.options ELSE NoParts.options
                /\ after.hooks =
                     IF FirstConf.hooks # None THEN FirstConf.hooks ELSE NoParts.hooks
        BY <1>1, WholeRun
      <3> QED
        BY <3>1, <3>2
    <2>3. parts.options = FirstConf.options /\ parts.hooks = FirstConf.hooks
      BY <2>1, <2>2
    <2> QED
      BY <2>2, <2>3 DEF PartsInv
  <1>7. EngineInv /\ EngineUsedWhileAlive
    BY DEF EngineInv, EngineUsedWhileAlive, StopPcs
  <1> QED
    BY <1>4, <1>5, <1>6, <1>7 DEF IInv

\* Every step of the process keeps the invariant.
LEMMA NextKeeps == IInv /\ [Next]_vars => IInv'
  <1> SUFFICES ASSUME IInv, [Next]_vars PROVE IInv'
    OBVIOUS
  <1>1. CASE ~Ended /\ Threads
    BY <1>1, Receive4Keeps, RecvTestKeeps, RecvPutKeeps, SendReadKeeps, SendDoneKeeps,
       EngineDoneKeeps, WorkerReadKeeps, WorkerDoneKeeps, WorkerReplyKeeps DEF Threads, Thread
  <1>2. CASE ~Ended /\ StopStep
    BY <1>2, StopTestsKeep, DrainInReadKeeps, StopRpcKeeps, TellWorkersKeeps, StopSenderKeeps
       DEF StopStep
  <1>3. CASE ~Ended /\ Commands
    BY <1>3, SessionsKeep, StopDoneKeeps, ExitKeeps, ReconfiguredKeeps DEF Commands
  <1>4. CASE UNCHANGED vars
    <2>1. UNCHANGED <<Size, Halted, Handed, Ended, nils, ended, busy>>
      BY <1>4 DEF vars, threads, set, Size, Halted, Handed, Ended, nils, ended, busy
    <2>2. TypeOK'
      <3>1. /\ session' = session /\ server_stop' = server_stop /\ task' = task /\ pc' = pc
            /\ stop_flag' = stop_flag /\ pipe' = pipe /\ rpcUp' = rpcUp /\ told' = told
            /\ cmds' = cmds /\ recv' = recv /\ send' = send /\ worker' = worker
            /\ inq' = inq /\ outq' = outq /\ pending' = pending /\ received' = received
            /\ conf' = conf /\ engine' = engine /\ inits' = inits
        BY <1>4 DEF vars, threads, set
      <3> QED
        BY <2>1, <3>1 DEF IInv, TypeOK
    <2>3. TaskInv' /\ StageInv'
      BY <1>4, <2>1 DEF vars, threads, set, IInv, TaskInv, StageInv
    <2>4. RoomInv' /\ HandedInv'
      BY <1>4, <2>1 DEF vars, threads, set, IInv, RoomInv, HandedInv
    <2>5. PacketInv' /\ PartsInv'
      BY <1>4, <2>1 DEF vars, threads, set, IInv, PacketInv, PartsInv
    <2>6. EngineInv' /\ EngineUsedWhileAlive'
      BY <1>4, <2>1 DEF vars, threads, set, IInv, EngineInv, EngineUsedWhileAlive
    <2> QED
      BY <2>2, <2>3, <2>4, <2>5, <2>6 DEF IInv
  <1> QED
    BY <1>1, <1>2, <1>3, <1>4 DEF Next

\* The invariant holds in every state of the process.
LEMMA Invariant == Spec => []IInv
  BY InitInv, NextKeeps, PTL DEF Spec

\* The queues keep to their size and no packet is in two places (ctrl_server.cpp:80-99).
THEOREM TypeCorrect == Spec => []TypeOK
  <1>1. IInv => TypeOK
    BY DEF IInv
  <1> QED
    BY <1>1, Invariant, PTL

\* When a stop() is over, no thread is left (ctrl_server.cpp:100-127).
THEOREM StopEndsAllThreads == Spec => []NoThreadSurvivesStop
  <1>1. IInv => NoThreadSurvivesStop
    BY DEF IInv, StageInv, Halted, NoThreadSurvivesStop
  <1> QED
    BY <1>1, Invariant, PTL

\* No null pointer is lost to a full queue: every worker that still runs has one when
\* stop() joins the workers (ctrl_server.cpp:26).
THEOREM WorkersAreTold == Spec => []EveryWorkerTold
  <1>1. ASSUME IInv, pc = "joinWorkers"
        PROVE  nils >= Cardinality({w \in DOMAIN worker : worker[w] # "ended"})
    <2>1. /\ worker \in [1..conf.workers -> WorkerState] /\ conf.workers \in Nat
          /\ DOMAIN worker = 1..conf.workers
      BY <1>1, Facts DEF IInv, TypeOK, WorkerState
    <2>2. IsFiniteSet(1..conf.workers) /\ Cardinality(1..conf.workers) = conf.workers
      <3>1. /\ IsFiniteSet(1..conf.workers)
            /\ Cardinality(1..conf.workers)
                 = IF 1 > conf.workers THEN 0 ELSE conf.workers - 1 + 1
        BY <2>1, FS_Interval
      <3> QED
        BY <2>1, <3>1
    <2>3. /\ {w \in DOMAIN worker : worker[w] # "ended"} = (1..conf.workers) \ At(worker, "ended")
          /\ (1..conf.workers) \cap At(worker, "ended") = At(worker, "ended")
      BY <2>1 DEF At
    <2>4. Cardinality((1..conf.workers) \ At(worker, "ended")) = conf.workers - ended
      <3>1. Cardinality((1..conf.workers) \ At(worker, "ended"))
              = Cardinality(1..conf.workers) - Cardinality((1..conf.workers) \cap At(worker, "ended"))
        BY <2>2, FS_Difference, Zenon
      <3> QED
        BY <2>2, <2>3, <3>1, Zenon DEF ended
    <2>5. nils + ended = conf.workers /\ nils \in Nat /\ ended \in 0..conf.workers
      BY <1>1, Facts DEF IInv, HandedInv, Handed, Halted, Told, Ended
    <2>6. ASSUME NEW n \in Nat, NEW e \in Nat, NEW k \in Nat, n + e = k
          PROVE  n >= k - e
      BY <2>6
    <2>7. nils >= conf.workers - ended
      BY <2>1, <2>5, <2>6
    <2> QED
      BY <2>3, <2>4, <2>7
  <1>2. IInv => EveryWorkerTold
    BY <1>1 DEF EveryWorkerTold, nils, NilsOf
  <1> QED
    BY <1>2, Invariant, PTL

\* A server that runs runs one configuration (ctrl_server.cpp:160-176).
THEOREM OneConfRuns == Spec => []RunsOneConf
  <1>1. IInv => RunsOneConf
    BY DEF IInv, PartsInv, RunsOneConf, Ended
  <1> QED
    BY <1>1, Invariant, PTL

\* The engine is used only while it is alive, but for the two cases that the property
\* names (rpc_allocate_engine.cpp:54-59).
THEOREM EngineIsAlive == Spec => []EngineUsedWhileAlive
  <1>1. IInv => EngineUsedWhileAlive
    BY DEF IInv
  <1> QED
    BY <1>1, Invariant, PTL

\* A stop() tells every thread and leaves none.
THEOREM StopIsSound == Spec => []StopSound
  <1>1. TypeOK /\ NoThreadSurvivesStop /\ EveryWorkerTold => StopSound
    BY DEF StopSound
  <1> QED
    BY <1>1, TypeCorrect, StopEndsAllThreads, WorkersAreTold, PTL
=============================================================================
