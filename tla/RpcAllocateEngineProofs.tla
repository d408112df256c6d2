------------------------ MODULE RpcAllocateEngineProofs ------------------------
(***************************************************************************)
(* The safety of the RPC engine of a slave and that it implements          *)
(* AsyncCall, for any contexts, connections, size of the queue and number  *)
(* of faults.                                                              *)
(***************************************************************************)
EXTENDS RpcAllocateEngine, TLAPS

Busy == {"writing", "header", "body"}

\* The queue holds every context once, and no empty record before stop() adds them.
QueueInv ==
  /\ stopPc \in {"run", "drain", "take"} => \A i \in 1..Len(queue) : queue[i] # None
  /\ \A i, j \in 1..Len(queue) : queue[i] # None /\ queue[i] = queue[j] => i = j

\* What a connection carries belongs to the request of its thread.
ConnInv ==
  \A k \in Conn :
    /\ request[k] # None <=> pc[k] \in Busy
    /\ toSlave[k] # None =>
         toSlave[k] = request[k] /\ pc[k] \in {"header", "body"} /\ toMaster[k] = None
    /\ toMaster[k] # None => toMaster[k] = request[k] /\ pc[k] = "header"
    /\ pc[k] = "body" => toSlave[k] # None

\* A context that waits: it was not handled, and it is on no connection.
Waits(c) ==
  /\ c \in submitted /\ c \notin lost /\ c \notin orphans
  /\ answer[c] = None /\ handled[c] = 0
  /\ \A k \in Conn : request[k] # c

\* A context under way on connection k: it was handled when its result is there.
UnderWay(c, k) ==
  /\ c \in submitted /\ c \notin lost /\ c \notin orphans
  /\ answer[c] = None /\ handled[c] = IF toSlave[k] = None THEN 0 ELSE 1
  /\ \A j \in Conn : request[j] = c => j = k

\* Where a context is determines how often the master has handled it.
Waiting == \A i \in 1..Len(queue) : queue[i] # None => Waits(queue[i])
Requested == \A k \in Conn : request[k] # None => UnderWay(request[k], k)
Counted ==
  /\ \A c \in orphans : c \in lost /\ handled[c] = 0
  /\ \A c \in lost : c \in submitted /\ answer[c] = None
  /\ \A c \in Ctx : handled[c] <= 1
  /\ \A c \in Ctx : answer[c] # None => answer[c] = c /\ c \in submitted /\ handled[c] = 1
  /\ \A c \in Ctx : c \notin submitted => handled[c] = 0

\* stop() leaves only ended threads behind.
StopInv ==
  /\ stopPc = "join" => \A k \in Conn \ ending : pc[k] = "ended"
  /\ stopPc = "stopped" => \A k \in Conn : pc[k] = "ended"

IInv == TypeOK /\ QueueInv /\ ConnInv /\ Waiting /\ Requested /\ Counted /\ StopInv
-----------------------------------------------------------------------------
(* The queue *)

\* A write adds an element behind the others.
LEMMA AppendFacts ==
  ASSUME NEW S, NEW q \in Seq(S), NEW e \in S
  PROVE  /\ Append(q, e) \in Seq(S) /\ Len(Append(q, e)) = Len(q) + 1 /\ Len(q) \in Nat
         /\ Append(q, e)[Len(q) + 1] = e
         /\ \A i \in 1..Len(q) : Append(q, e)[i] = q[i]
  OBVIOUS

\* A read takes the first element off.
LEMMA TailFacts ==
  ASSUME NEW S, NEW q \in Seq(S), q # << >>
  PROVE  /\ Tail(q) \in Seq(S) /\ Len(Tail(q)) = Len(q) - 1 /\ Len(q) \in Nat \ {0}
         /\ Head(q) = q[1] /\ q[1] \in S
         /\ \A i \in 1..(Len(q) - 1) : Tail(q)[i] = q[i + 1]
  OBVIOUS

\* What remains in the queue after a read: each element was there, at another place,
\* and none of them is the one that was read.
LEMMA TailKeeps ==
  ASSUME TypeOK, QueueInv, queue # << >>
  PROVE  /\ Tail(queue) \in Seq(Ctx \cup {None}) /\ Len(Tail(queue)) <= MaxQueue
         /\ Head(queue) \in Ctx \cup {None} /\ 1 \in 1..Len(queue) /\ Head(queue) = queue[1]
         /\ \A i \in 1..Len(Tail(queue)) :
              /\ i + 1 \in 1..Len(queue) /\ Tail(queue)[i] = queue[i + 1]
              /\ Tail(queue)[i] # None => Tail(queue)[i] # Head(queue)
         /\ \A i, j \in 1..Len(Tail(queue)) :
              Tail(queue)[i] # None /\ Tail(queue)[i] = Tail(queue)[j] => i = j
  <1>1. queue \in Seq(Ctx \cup {None}) /\ Len(queue) <= MaxQueue /\ MaxQueue \in Nat
    BY RpcAssumption DEF TypeOK
  <1>2. /\ Tail(queue) \in Seq(Ctx \cup {None}) /\ Len(Tail(queue)) = Len(queue) - 1
        /\ Len(queue) \in Nat \ {0} /\ Head(queue) = queue[1] /\ queue[1] \in Ctx \cup {None}
        /\ \A i \in 1..(Len(queue) - 1) : Tail(queue)[i] = queue[i + 1]
    BY <1>1, TailFacts
  <1> QED
    BY <1>1, <1>2 DEF QueueInv

-----------------------------------------------------------------------------
(* The invariant *)

\* The constructor leaves an empty queue and idle connections.
LEMMA InitInv == Init => IInv
  <1> SUFFICES ASSUME Init PROVE IInv
    OBVIOUS
  <1>1. queue = << >> /\ Len(queue) = 0 /\ queue \in Seq(Ctx \cup {None})
    BY DEF Init
  <1>2. TypeOK
    BY <1>1, RpcAssumption DEF Init, TypeOK
  <1>3. QueueInv /\ ConnInv /\ Waiting /\ Requested /\ Counted /\ StopInv
    BY <1>1, RpcAssumption DEF Init, QueueInv, ConnInv, Waiting, Requested, Counted, StopInv, Busy
  <1> QED
    BY <1>2, <1>3 DEF IInv

\* A context that is handed over was nowhere before, and now waits
\* (rpc_allocate_engine.cpp:27-30).
LEMMA AllocateInv ==
  ASSUME IInv, NEW c \in Ctx, allocateAddr(c)
  PROVE  IInv'
  <1> USE DEF IInv, allocateAddr, conns, wire, stopping
  <1>1. /\ queue' \in Seq(Ctx \cup {None}) /\ Len(queue') = Len(queue) + 1
        /\ Len(queue) \in Nat /\ queue'[Len(queue) + 1] = c
        /\ \A i \in 1..Len(queue) : queue'[i] = queue[i]
        /\ c # None /\ MaxQueue \in Nat
    BY AppendFacts, RpcAssumption DEF TypeOK
  <1>2. TypeOK'
    BY <1>1 DEF TypeOK
  <1>3. \A i \in 1..Len(queue) : queue[i] # c
    BY <1>1 DEF Waiting, Waits
  <1>4. \A k \in Conn : request[k] # c
    BY <1>1 DEF Requested, UnderWay
  <1>5. QueueInv'
    BY <1>1, <1>3 DEF QueueInv
  <1>6. ConnInv' /\ StopInv' /\ Counted'
    BY DEF ConnInv, StopInv, Counted
  <1>7. c \notin lost /\ c \notin orphans /\ answer[c] = None /\ handled[c] = 0
    BY DEF Counted
  <1>8. Waiting'
    BY <1>1, <1>4, <1>7 DEF Waiting, Waits
  <1>9. Requested'
    BY DEF Requested, UnderWay
  <1> QED
    BY <1>2, <1>5, <1>6, <1>8, <1>9

\* A connection takes the first context, which then waits no more
\* (rpc_allocate_engine.cpp:109-113).
LEMMA MessageWriteInv ==
  ASSUME IInv, NEW k \in Conn, messageWrite(k)
  PROVE  IInv'
  <1> USE DEF IInv, messageWrite, wire, stopping
  <1> DEFINE c == Head(queue)
  <1>1. /\ queue' = Tail(queue) /\ queue' \in Seq(Ctx \cup {None}) /\ Len(queue') <= MaxQueue
        /\ c \in Ctx \cup {None} /\ 1 \in 1..Len(queue) /\ c = queue[1]
        /\ \A i \in 1..Len(queue') :
             /\ i + 1 \in 1..Len(queue) /\ queue'[i] = queue[i + 1]
             /\ queue'[i] # None => queue'[i] # c
        /\ \A i, j \in 1..Len(queue') : queue'[i] # None /\ queue'[i] = queue'[j] => i = j
    BY TailKeeps
  <1>2. TypeOK'
    BY <1>1 DEF TypeOK
  <1>3. QueueInv'
    BY <1>1 DEF QueueInv
  <1>4. request[k] = None /\ toSlave[k] = None /\ toMaster[k] = None
    BY DEF ConnInv, Busy
  <1>5. /\ request' = [request EXCEPT ![k] = c]
        /\ pc' = [pc EXCEPT ![k] = IF c = None THEN "ended" ELSE "writing"]
        /\ request \in [Conn -> Ctx \cup {None}] /\ DOMAIN pc = Conn
    BY DEF TypeOK
  <1>6. ConnInv'
    BY <1>4, <1>5 DEF ConnInv, Busy
  <1>7. StopInv'
    BY <1>5 DEF StopInv
  <1>8. Counted'
    BY DEF Counted
  <1>9. Waiting'
    BY <1>1, <1>5 DEF Waiting, Waits
  <1>10. c # None => Waits(c)
    BY <1>1 DEF Waiting
  <1>11. Requested'
    <2> SUFFICES ASSUME NEW j \in Conn, request'[j] # None
                 PROVE  UnderWay(request[j], j)'
      BY DEF Requested
    <2>1. CASE j = k
      BY <2>1, <1>4, <1>5, <1>10 DEF Waits, UnderWay
    <2>2. CASE j # k
      BY <2>2, <1>5, <1>10 DEF Waits, UnderWay, Requested
    <2> QED
      BY <2>1, <2>2
  <1> QED
    BY <1>2, <1>3, <1>6, <1>7, <1>8, <1>9, <1>11

\* The request goes out on a connection that carries nothing
\* (rpc_allocate_engine.cpp:114-120).
LEMMA WrittenInv ==
  ASSUME IInv, NEW k \in Conn, written(k)
  PROVE  IInv'
  <1> USE DEF IInv, written, stopping
  <1>1. /\ request[k] # None /\ toSlave[k] = None
        /\ pc' = [pc EXCEPT ![k] = "header"] /\ DOMAIN pc = Conn
        /\ toMaster' = [toMaster EXCEPT ![k] = request[k]] /\ DOMAIN toMaster = Conn
    BY DEF ConnInv, Busy, TypeOK
  <1>2. TypeOK'
    BY <1>1 DEF TypeOK
  <1>3. ConnInv'
    BY <1>1 DEF ConnInv, Busy
  <1>4. QueueInv' /\ StopInv' /\ Counted'
    BY <1>1 DEF QueueInv, StopInv, Counted
  <1>5. Waiting' /\ Requested'
    BY DEF Waiting, Waits, Requested, UnderWay
  <1> QED
    BY <1>2, <1>3, <1>4, <1>5

\* The callback gets the result of its own request (rpc_allocate_engine.cpp:144-186).
LEMMA ReadBodyInv ==
  ASSUME IInv, NEW k \in Conn, readResultBody(k)
  PROVE  IInv'
  <1> USE DEF IInv, readResultBody, stopping
  <1> DEFINE c == request[k]
  <1>1. /\ c \in Ctx /\ toSlave[k] = c /\ toMaster[k] = None /\ handled[c] = 1
        /\ c \in submitted /\ c \notin lost
    BY DEF ConnInv, Busy, TypeOK, Requested, UnderWay
  <1>2. /\ pc' = [pc EXCEPT ![k] = "reading"] /\ DOMAIN pc = Conn
        /\ request' = [request EXCEPT ![k] = None] /\ DOMAIN request = Conn
        /\ toSlave' = [toSlave EXCEPT ![k] = None] /\ DOMAIN toSlave = Conn
        /\ answer' = [answer EXCEPT ![c] = c] /\ DOMAIN answer = Ctx
    BY <1>1 DEF TypeOK
  <1>3. TypeOK'
    BY <1>1, <1>2 DEF TypeOK
  <1>4. ConnInv'
    BY <1>1, <1>2 DEF ConnInv, Busy
  <1>5. QueueInv' /\ StopInv'
    BY <1>2 DEF QueueInv, StopInv
  <1>6. Counted'
    BY <1>1, <1>2, RpcAssumption DEF Counted, TypeOK
  <1>7. Waiting'
    BY <1>1, <1>2 DEF Waiting, Waits
  <1>8. Requested'
    <2> SUFFICES ASSUME NEW j \in Conn, request'[j] # None
                 PROVE  UnderWay(request[j], j)'
      BY DEF Requested
    <2>1. j # k /\ request'[j] = request[j] /\ request[j] # c
      BY <1>1, <1>2 DEF Requested, UnderWay
    <2> QED
      BY <2>1, <1>2 DEF Requested, UnderWay
  <1> QED
    BY <1>3, <1>4, <1>5, <1>6, <1>7, <1>8

\* An error frees the request under way; the master may have it all the same
\* (rpc_allocate_engine.cpp:120-157).
LEMMA IoErrorInv ==
  ASSUME IInv, NEW k \in Conn, ioError(k)
  PROVE  IInv'
  <1> USE DEF IInv, ioError, stopping
  <1> DEFINE c == request[k]
  <1>1. /\ c \in Ctx /\ c \in submitted /\ c \notin lost /\ answer[c] = None
        /\ toMaster[k] \in {None, c} /\ toSlave[k] \in {None, c}
        /\ toMaster[k] = c => toSlave[k] = None
        /\ handled[c] = IF toSlave[k] = None THEN 0 ELSE 1
    BY RpcAssumption DEF ConnInv, Busy, TypeOK, Requested, UnderWay
  <1>2. /\ pc' = [pc EXCEPT ![k] = IF connStop[k] THEN "ended" ELSE "connecting"]
        /\ DOMAIN pc = Conn
        /\ request' = [request EXCEPT ![k] = None] /\ DOMAIN request = Conn
        /\ toSlave' = [toSlave EXCEPT ![k] = None] /\ DOMAIN toSlave = Conn
        /\ toMaster' = [toMaster EXCEPT ![k] = None] /\ DOMAIN toMaster = Conn
        /\ lost' = lost \cup {c}
        /\ orphans' = orphans \cup ({toMaster[k]} \ {None})
        /\ faults' \in 0..MaxFaults
    BY RpcAssumption DEF TypeOK
  <1>3. TypeOK'
    BY <1>1, <1>2 DEF TypeOK
  <1>4. ConnInv'
    BY <1>1, <1>2 DEF ConnInv, Busy
  <1>5. QueueInv' /\ StopInv'
    BY <1>2 DEF QueueInv, StopInv, Busy
  <1>6. Counted'
    BY <1>1, <1>2 DEF Counted
  <1>7. Waiting'
    BY <1>1, <1>2 DEF Waiting, Waits
  <1>8. Requested'
    <2> SUFFICES ASSUME NEW j \in Conn, request'[j] # None
                 PROVE  UnderWay(request[j], j)'
      BY DEF Requested
    <2>1. j # k /\ request'[j] = request[j] /\ request[j] # c
      BY <1>1, <1>2 DEF Requested, UnderWay
    <2> QED
      BY <2>1, <1>1, <1>2 DEF Requested, UnderWay
  <1> QED
    BY <1>3, <1>4, <1>5, <1>6, <1>7, <1>8

\* The master handles the request on a connection and writes its result
\* (client.go:28-55).
LEMMA HandleInv ==
  ASSUME IInv, NEW k \in Conn, handle(k)
  PROVE  IInv'
  <1> USE DEF IInv, handle, conns, stopping
  <1> DEFINE c == request[k]
  <1>1. /\ c \in Ctx /\ toMaster[k] = c /\ toSlave[k] = None /\ pc[k] = "header"
        /\ handled[c] = 0 /\ c \in submitted /\ c \notin lost /\ c \notin orphans
        /\ answer[c] = None
    BY DEF ConnInv, Busy, TypeOK, Requested, UnderWay
  <1>2. /\ handled' = [handled EXCEPT ![c] = 1] /\ DOMAIN handled = Ctx
        /\ toSlave' = [toSlave EXCEPT ![k] = c] /\ DOMAIN toSlave = Conn
        /\ toMaster' = [toMaster EXCEPT ![k] = None] /\ DOMAIN toMaster = Conn
    BY <1>1 DEF TypeOK
  <1>3. TypeOK'
    BY <1>1, <1>2 DEF TypeOK
  <1>4. ConnInv'
    BY <1>1, <1>2 DEF ConnInv, Busy
  <1>5. QueueInv' /\ StopInv'
    BY DEF QueueInv, StopInv
  <1>6. Counted'
    BY <1>1, <1>2 DEF Counted, TypeOK
  <1>7. Waiting'
    BY <1>1, <1>2 DEF Waiting, Waits, TypeOK
  <1>8. Requested'
    <2> SUFFICES ASSUME NEW j \in Conn, request'[j] # None
                 PROVE  UnderWay(request[j], j)'
      BY DEF Requested
    <2>1. CASE j = k
      BY <2>1, <1>1, <1>2, RpcAssumption DEF Requested, UnderWay
    <2>2. CASE j # k
      <3>1. request[j] # c /\ request[j] \in Ctx
        BY <2>2, <1>1 DEF Requested, UnderWay, TypeOK
      <3> QED
        BY <2>2, <3>1, <1>2 DEF Requested, UnderWay
    <2> QED
      BY <2>1, <2>2
  <1> QED
    BY <1>3, <1>4, <1>5, <1>6, <1>7, <1>8

\* The master handles a request whose connection is gone: it was lost, and is
\* handled for the first time.
LEMMA HandleOrphanInv ==
  ASSUME IInv, NEW c \in Ctx, handleOrphan(c)
  PROVE  IInv'
  <1> USE DEF IInv, handleOrphan, conns, stopping
  <1>1. c \in lost /\ handled[c] = 0 /\ c \in submitted /\ answer[c] = None
    BY DEF Counted
  <1>2. handled' = [handled EXCEPT ![c] = 1] /\ DOMAIN handled = Ctx
    BY <1>1 DEF TypeOK
  <1>3. TypeOK' /\ ConnInv' /\ QueueInv' /\ StopInv'
    BY <1>2 DEF TypeOK, ConnInv, QueueInv, StopInv
  <1>4. Counted'
    BY <1>1, <1>2 DEF Counted, TypeOK
  <1>5. Waiting'
    BY <1>1, <1>2 DEF Waiting, Waits, TypeOK
  <1>6. Requested'
    BY <1>1, <1>2 DEF Requested, UnderWay, TypeOK
  <1> QED
    BY <1>3, <1>4, <1>5, <1>6

\* The steps of a connection that move no context.
LEMMA ConnectionInv ==
  ASSUME IInv, NEW k \in Conn,
         Built(k) \/ connected(k) \/ connectFailed(k) \/ readResultHeader(k) \/ Close(k)
                  \/ ConnStop(k)
  PROVE  IInv'
  <1> USE DEF IInv, wire, stopping
  <1>1. UNCHANGED <<queue, submitted, request, toMaster, toSlave, orphans, handled, answer,
                    lost, stopPc, ending>>
    BY DEF Built, connected, connectFailed, readResultHeader, Close, ConnStop
  <1>2. \/ pc' = pc
        \/ pc[k] = "connecting" /\ pc' = [pc EXCEPT ![k] = "reading"]
        \/ pc[k] = "connecting" /\ pc' = [pc EXCEPT ![k] = "ended"]
        \/ pc[k] = "header" /\ toSlave[k] # None /\ pc' = [pc EXCEPT ![k] = "body"]
    BY DEF Built, connected, connectFailed, readResultHeader, Close, ConnStop, TypeOK
  <1>3. TypeOK'
    <2>1. connStop' \in [Conn -> BOOLEAN] /\ built' \subseteq Conn /\ closing' \subseteq Conn
      BY DEF TypeOK, Built, connected, connectFailed, readResultHeader, Close, ConnStop
    <2>2. faults' \in 0..MaxFaults
      BY RpcAssumption
         DEF TypeOK, Built, connected, connectFailed, readResultHeader, Close, ConnStop
    <2>3. pc' \in [Conn -> {"connecting", "reading", "writing", "header", "body", "ended"}]
      BY <1>2 DEF TypeOK
    <2> QED
      BY <1>1, <2>1, <2>2, <2>3 DEF TypeOK
  <1>4. ConnInv'
    <2> SUFFICES ASSUME NEW j \in Conn
                 PROVE  (/\ request[j] # None <=> pc[j] \in Busy
                         /\ toSlave[j] # None =>
                              /\ toSlave[j] = request[j]
                              /\ pc[j] \in {"header", "body"} /\ toMaster[j] = None
                         /\ toMaster[j] # None => toMaster[j] = request[j] /\ pc[j] = "header"
                         /\ pc[j] = "body" => toSlave[j] # None)'
      BY DEF ConnInv
    <2> QED
      BY <1>1, <1>2 DEF ConnInv, Busy, TypeOK
  <1>5. StopInv'
    BY <1>1, <1>2 DEF StopInv, TypeOK
  <1>6. QueueInv' /\ Counted' /\ Waiting' /\ Requested'
    BY <1>1 DEF QueueInv, Counted, Waiting, Waits, Requested, UnderWay
  <1> QED
    BY <1>3, <1>4, <1>5, <1>6

\* The drain of stop() frees a context that waits (rpc_allocate_engine.cpp:38-40).
LEMMA DrainTakeInv ==
  ASSUME IInv, DrainTake
  PROVE  IInv'
  <1> USE DEF IInv, DrainTake, conns, wire
  <1> DEFINE c == Head(queue)
  <1>1. /\ queue' = Tail(queue) /\ queue' \in Seq(Ctx \cup {None}) /\ Len(queue') <= MaxQueue
        /\ c \in Ctx \cup {None} /\ 1 \in 1..Len(queue) /\ c = queue[1]
        /\ \A i \in 1..Len(queue') :
             /\ i + 1 \in 1..Len(queue) /\ queue'[i] = queue[i + 1]
             /\ queue'[i] # None => queue'[i] # c
        /\ \A i, j \in 1..Len(queue') : queue'[i] # None /\ queue'[i] = queue'[j] => i = j
    BY TailKeeps
  <1>2. c # None /\ c \in Ctx /\ Waits(c)
    BY <1>1 DEF QueueInv, Waiting
  <1>3. TypeOK' /\ QueueInv' /\ ConnInv' /\ StopInv'
    BY <1>1, <1>2 DEF TypeOK, QueueInv, ConnInv, StopInv
  <1>4. Waiting'
    BY <1>1 DEF Waiting, Waits
  <1>5. Requested'
    BY <1>2 DEF Requested, UnderWay, Waits
  <1>6. Counted'
    BY <1>2 DEF Counted, Waits
  <1> QED
    BY <1>3, <1>4, <1>5, <1>6

\* The empty records come when the drain is over (rpc_allocate_engine.cpp:42-44).
LEMMA FillInv ==
  ASSUME IInv, Fill
  PROVE  IInv'
  <1> USE DEF IInv, Fill, conns, wire
  <1>1. /\ queue' \in Seq(Ctx \cup {None}) /\ Len(queue') = Len(queue) + 1
        /\ Len(queue) \in Nat /\ queue'[Len(queue) + 1] = None
        /\ \A i \in 1..Len(queue) : queue'[i] = queue[i]
        /\ MaxQueue \in Nat
    BY AppendFacts, RpcAssumption DEF TypeOK
  <1>2. stopPc' \in {"fill", "join"} /\ ending' \subseteq Conn
    BY DEF TypeOK
  <1>3. stopPc' = "join" => ending' = Conn
    BY DEF TypeOK
  <1>4. TypeOK'
    BY <1>1, <1>2 DEF TypeOK
  <1>5. QueueInv'
    BY <1>1, <1>2 DEF QueueInv
  <1>6. StopInv' /\ ConnInv' /\ Counted'
    BY <1>2, <1>3 DEF StopInv, ConnInv, Counted
  <1>7. Waiting' /\ Requested'
    BY <1>1 DEF Waiting, Waits, Requested, UnderWay
  <1> QED
    BY <1>4, <1>5, <1>6, <1>7

\* The steps of stop() that leave queue and connections alone.
LEMMA StoppingInv ==
  ASSUME IInv, Stop \/ DrainTest \/ \E k \in Conn : ConnJoin(k)
  PROVE  IInv'
  <1> USE DEF IInv, conns, wire
  <1>1. UNCHANGED <<queue, submitted, conns, wire, answer, lost, faults>>
    BY DEF Stop, DrainTest, ConnJoin
  <1>2. TypeOK'
    BY <1>1 DEF TypeOK, Stop, DrainTest, ConnJoin
  <1>3. QueueInv'
    BY <1>1 DEF QueueInv, Stop, DrainTest, ConnJoin
  <1>4. StopInv'
    BY <1>1 DEF StopInv, Stop, DrainTest, ConnJoin
  <1>5. ConnInv' /\ Counted' /\ Waiting' /\ Requested'
    BY <1>1 DEF ConnInv, Counted, Waiting, Waits, Requested, UnderWay
  <1> QED
    BY <1>2, <1>3, <1>4, <1>5

\* Every step keeps the invariant.
LEMMA NextInv == IInv /\ [Next]_vars => IInv'
  <1> SUFFICES ASSUME IInv, [Next]_vars PROVE IInv'
    OBVIOUS
  <1>1. CASE UNCHANGED vars
    BY <1>1 DEF vars, IInv, TypeOK, QueueInv, ConnInv, Counted, Waiting, Waits, Requested,
                UnderWay, StopInv
  <1>2. ASSUME NEW k \in Conn, IoThread(k) PROVE IInv'
    BY <1>2, MessageWriteInv, WrittenInv, ReadBodyInv, IoErrorInv, ConnectionInv DEF IoThread
  <1>3. CASE Stopping
    BY <1>3, DrainTakeInv, FillInv, StoppingInv, ConnectionInv DEF Stopping
  <1>4. CASE Next
    BY <1>2, <1>3, <1>4, AllocateInv, HandleOrphanInv, HandleInv, ConnectionInv, StoppingInv
       DEF Next
  <1> QED
    BY <1>1, <1>4

LEMMA Invariant == Spec => []IInv
  BY InitInv, NextInv, PTL DEF Spec

-----------------------------------------------------------------------------
(* The theorems *)

\* Only the callback changes the answers, only errors and the drain lose a context, and
\* only callers submit one.
LEMMA OnlyCallbacksAnswer ==
  ASSUME Next
  PROVE  \/ UNCHANGED <<submitted, answer, lost>>
         \/ \E c \in Ctx : allocateAddr(c)
         \/ \E k \in Conn : readResultBody(k) \/ ioError(k)
         \/ DrainTake
  BY DEF Next, IoThread, Stopping, handleOrphan, Built, connected, connectFailed,
         messageWrite, written, readResultHeader, handle, Close, Stop, DrainTest, Fill,
         ConnStop, ConnJoin

\* The queue, the connections and the stop have their types; in particular the queue
\* never holds more than its size (rpc_allocate_engine.cpp:27-44).
THEOREM TypeCorrect == Spec => []TypeOK
  BY Invariant, PTL DEF IInv

\* However connections break and are made again, no client is given the result of
\* another (rpc_allocate_engine.cpp:116-157).
THEOREM ResultsArePaired == Spec => []Paired
  <1>1. IInv => Paired
    BY DEF IInv, ConnInv, Counted, Paired
  <1> QED
    BY <1>1, Invariant, PTL

\* The master handles no request twice (rpc_allocate_engine.cpp:122, 137, 154).
THEOREM RequestsAreHandledOnce == Spec => []HandledOnce
  <1>1. IInv => HandledOnce
    BY DEF IInv, Counted, HandledOnce
  <1> QED
    BY <1>1, Invariant, PTL

\* No callback runs when stop() has returned (rpc_allocate_engine.cpp:46-49).
THEOREM StoppedIsQuiet == Spec => QuietAfterStop
  <1>1. IInv /\ [Next]_vars => [stopPc = "stopped" => answer' = answer]_vars
    <2> SUFFICES ASSUME IInv, Next, stopPc = "stopped" PROVE answer' = answer
      OBVIOUS
    <2>1. \A k \in Conn : pc[k] = "ended"
      BY DEF IInv, StopInv
    <2> QED
      BY <2>1, OnlyCallbacksAnswer DEF allocateAddr, readResultBody, ioError, DrainTake
  <1> QED
    BY <1>1, Invariant, PTL DEF Spec, QuietAfterStop

-----------------------------------------------------------------------------
(* The engine implements AsyncCall. *)

status == [c \in Ctx |->
             IF answer[c] # None THEN <<"answered", answer[c]>>
             ELSE IF c \in lost THEN <<"lost">>
             ELSE IF c \in submitted THEN <<"pending">> ELSE <<"not called">>]

\* At first nothing was called.
LEMMA InitRefines == Init => Call!Init
  BY DEF Init, Call!Init, Call!NotCalled

\* To hand a context over is a Submit.
LEMMA AllocateRefines ==
  ASSUME IInv, NEW c \in Ctx, allocateAddr(c)
  PROVE  status' # status /\ Call!Submit(c)
  <1>1. /\ c \notin submitted /\ answer[c] = None /\ c \notin lost
        /\ answer' = answer /\ lost' = lost /\ submitted' = submitted \cup {c}
    BY DEF IInv, Counted, allocateAddr
  <1>2. status[c] = <<"not called">> /\ status'[c] = <<"pending">>
    BY <1>1 DEF status
  <1>3. <<"not called">> # <<"pending">>
    OBVIOUS
  <1>4. status' = [status EXCEPT ![c] = <<"pending">>]
    BY <1>1 DEF status
  <1> QED
    BY <1>2, <1>3, <1>4 DEF Call!Submit, Call!NotCalled, Call!Pending, status

\* To call the callback is a Finish, with the answer that belongs to the call.
LEMMA ReadBodyRefines ==
  ASSUME IInv, NEW k \in Conn, readResultBody(k)
  PROVE  status' # status /\ \E c \in Ctx : Call!Finish(c)
  <1> DEFINE c == request[k]
  <1>1. /\ c \in Ctx /\ toSlave[k] = c /\ answer[c] = None /\ c \in submitted /\ c \notin lost
        /\ c # None
    BY DEF IInv, ConnInv, Busy, TypeOK, Requested, UnderWay, readResultBody
  <1>2. /\ answer' = [answer EXCEPT ![c] = c] /\ DOMAIN answer = Ctx
        /\ lost' = lost /\ submitted' = submitted
    BY <1>1 DEF IInv, TypeOK, readResultBody
  <1>3. status[c] = <<"pending">> /\ status'[c] = <<"answered", c>>
    BY <1>1, <1>2 DEF status
  <1>4. <<"pending">> # <<"answered", c>>
    OBVIOUS
  <1>5. status' = [status EXCEPT ![c] = <<"answered", c>>]
    BY <1>1, <1>2 DEF status
  <1>6. Call!Finish(c)
    BY <1>3, <1>5 DEF Call!Finish, Call!Pending, Call!Answered, status
  <1>7. status' # status
    BY <1>3, <1>4
  <1>8. \E d \in Ctx : Call!Finish(d)
    BY <1>1, <1>6 DEF Call!Finish
  <1> QED
    BY <1>7, <1>8

\* To free a pending context is a Lose.
LEMMA FreeRefines ==
  ASSUME IInv, NEW c \in Ctx, c \in submitted, c \notin lost, answer[c] = None,
         lost' = lost \cup {c}, answer' = answer, submitted' = submitted
  PROVE  status' # status /\ Call!Lose
  <1>1. status[c] = <<"pending">> /\ status'[c] = <<"lost">>
    BY DEF status
  <1>2. <<"pending">> # <<"lost">>
    OBVIOUS
  <1>3. \A d \in Ctx : d # c => status'[d] = status[d]
    BY DEF status
  <1>4. {d \in Ctx : status'[d] # status[d]} = {c}
    BY <1>1, <1>2, <1>3
  <1>5. status' = [d \in Ctx |-> IF d \in {c} THEN <<"lost">> ELSE status[d]]
    BY <1>1, <1>3 DEF status
  <1> QED
    BY <1>1, <1>2, <1>4, <1>5 DEF Call!Lose, Call!Lost, Call!Pending, Call!NotCalled, status

\* Every step of the engine is a step of AsyncCall or leaves every call as it was.
LEMMA NextRefines == IInv /\ [Next]_vars => [Call!Next]_status
  <1> SUFFICES ASSUME IInv, [Next]_vars PROVE Call!Next \/ status' = status
    OBVIOUS
  <1>1. CASE UNCHANGED <<submitted, answer, lost>>
    BY <1>1 DEF status
  <1>2. ASSUME NEW c \in Ctx, allocateAddr(c) PROVE Call!Next
    BY <1>2, AllocateRefines DEF Call!Next, status
  <1>3. ASSUME NEW k \in Conn, readResultBody(k) PROVE Call!Next
    BY <1>3, ReadBodyRefines DEF Call!Next, status
  <1>4. ASSUME NEW k \in Conn, ioError(k) PROVE Call!Next
    <2>1. /\ request[k] \in Ctx /\ request[k] \in submitted /\ request[k] \notin lost
          /\ answer[request[k]] = None /\ lost' = lost \cup {request[k]}
          /\ answer' = answer /\ submitted' = submitted
      BY <1>4 DEF IInv, ConnInv, Busy, TypeOK, Requested, UnderWay, ioError
    <2> QED
      BY <2>1, FreeRefines DEF Call!Next, status
  <1>5. CASE DrainTake
    <2>1. /\ Head(queue) \in Ctx \cup {None} /\ 1 \in 1..Len(queue) /\ Head(queue) = queue[1]
      BY <1>5, TailKeeps DEF IInv, DrainTake
    <2>2. /\ Head(queue) \in Ctx /\ Head(queue) \in submitted /\ Head(queue) \notin lost
          /\ answer[Head(queue)] = None /\ lost' = lost \cup {Head(queue)}
          /\ answer' = answer /\ submitted' = submitted
      BY <1>5, <2>1 DEF IInv, QueueInv, Waiting, Waits, DrainTake
    <2> QED
      BY <2>2, FreeRefines DEF Call!Next, status
  <1>6. CASE UNCHANGED vars
    BY <1>6 DEF vars, status
  <1> QED
    BY <1>1, <1>2, <1>3, <1>4, <1>5, <1>6, OnlyCallbacksAnswer

\* The engine is the service that its callers expect: a context that is handed over
\* comes back once, with its own result, or is lost, and never both
\* (rpc_allocate_engine.cpp:183).
THEOREM EngineImplementsCall == Spec => ImplementsCall
  <1>1. IInv /\ [Next]_vars => [Call!Next]_status
    BY NextRefines
  <1> QED
    BY <1>1, InitRefines, Invariant, PTL DEF Spec, ImplementsCall, Call!Spec, status

\* A result goes to its own request, and no request is handled twice, over any number of
\* connections that break and reconnect.
THEOREM AnswersAreSound == Spec => []AnswersSound
  <1>1. TypeOK /\ Paired /\ HandledOnce => AnswersSound
    BY DEF AnswersSound
  <1> QED
    BY <1>1, TypeCorrect, ResultsArePaired, RequestsAreHandledOnce, PTL
=============================================================================
