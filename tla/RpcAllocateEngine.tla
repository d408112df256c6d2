------------------------- MODULE RpcAllocateEngine -------------------------
(***************************************************************************)
(* The slave's connections to the master                                   *)
(* (slave/rpc/rpc_allocate_engine.cpp).  Contexts wait in one bounded      *)
(* queue; each connection has a thread that takes one, writes it, reads    *)
(* the result and calls the callback, then takes the next.  An I/O error   *)
(* reconnects, and the request under way is lost.  stop() empties the      *)
(* queue, puts one empty record per connection into it and joins.          *)
(*                                                                         *)
(* A connection carries at most one request or one result, because its     *)
(* thread waits for the result; when the socket is closed both are lost to *)
(* the slave, but the master may already have read the request.            *)
(* MaxFaults bounds the connects that fail and the connections that break. *)
(***************************************************************************)
EXTENDS Naturals, Sequences, FiniteSets

CONSTANTS Ctx,        \* client contexts, each handed over once
          Conn,       \* connections_
          MaxQueue,   \* QUEUE_MAX_SIZE * DEFAULT_CONN_COUNT
          None,       \* no context; in the queue, the empty RPCRecord
          MaxFaults

ASSUME RpcAssumption ==
  /\ IsFiniteSet(Conn) /\ Conn # {} /\ None \notin Ctx
  /\ MaxQueue \in Nat \ {0} /\ MaxFaults \in Nat

VARIABLES queue,      \* request_queue_
          submitted,  \* contexts handed to allocateAddr
          pc,         \* what the io thread of a connection waits for
          request,    \* rpc_request_
          connStop,   \* stop_ of a connection, not set until its constructor ends
          built,      \* connections whose constructor has returned
          closing,    \* connections whose posted close has run
          toMaster,   \* the request on a connection
          toSlave,    \* the result on a connection
          orphans,    \* requests the master may have read before a break
          handled,    \* how often the master has handled a request
          answer,     \* the request whose result a context was given
          lost,       \* contexts freed without a callback
          stopPc,     \* the thread in RpcAllocateEngine::stop
          ending,     \* connections stop() has still to end
          faults

conns == <<pc, request, connStop, built, closing>>
wire == <<toMaster, toSlave, orphans, handled>>
stopping == <<stopPc, ending>>
vars == <<queue, submitted, pc, request, connStop, built, closing, toMaster,
          toSlave, orphans, handled, answer, lost, stopPc, ending, faults>>

\* Nothing stores to stop_ before the io thread runs: it starts with any value.
Init ==
  /\ queue = << >> /\ submitted = {}
  /\ pc = [k \in Conn |-> "connecting"]
  /\ request = [k \in Conn |-> None]
  /\ connStop \in [Conn -> BOOLEAN]
  /\ built = {} /\ closing = {}
  /\ toMaster = [k \in Conn |-> None] /\ toSlave = [k \in Conn |-> None]
  /\ orphans = {} /\ handled = [c \in Ctx |-> 0]
  /\ answer = [c \in Ctx |-> None] /\ lost = {}
  /\ stopPc = "run" /\ ending = Conn /\ faults = 0

TypeOK ==
  /\ queue \in Seq(Ctx \cup {None}) /\ Len(queue) <= MaxQueue
  /\ submitted \subseteq Ctx
  /\ pc \in [Conn -> {"connecting", "reading", "writing", "header", "body", "ended"}]
  /\ request \in [Conn -> Ctx \cup {None}]
  /\ connStop \in [Conn -> BOOLEAN] /\ built \subseteq Conn /\ closing \subseteq Conn
  /\ toMaster \in [Conn -> Ctx \cup {None}] /\ toSlave \in [Conn -> Ctx \cup {None}]
  /\ orphans \subseteq Ctx /\ handled \in [Ctx -> Nat]
  /\ answer \in [Ctx -> Ctx \cup {None}] /\ lost \subseteq Ctx
  /\ stopPc \in {"run", "drain", "take", "fill", "join", "stopped"}
  /\ ending \subseteq Conn /\ faults \in 0..MaxFaults

-----------------------------------------------------------------------------
(* Callers, on the worker threads and on those of the pinger *)

allocateAddr(c) ==
  /\ c \notin submitted /\ Len(queue) < MaxQueue
  /\ submitted' = submitted \cup {c}
  /\ queue' = Append(queue, c)
  /\ UNCHANGED <<conns, wire, answer, lost, stopping, faults>>

-----------------------------------------------------------------------------
(* One connection *)

\* The last line of the constructor, on the thread that creates the engine.
Built(k) ==
  /\ k \notin built
  /\ built' = built \cup {k}
  /\ connStop' = [connStop EXCEPT ![k] = FALSE]
  /\ UNCHANGED <<queue, submitted, pc, request, closing, wire, answer, lost,
                 stopping, faults>>

connected(k) ==
  /\ pc[k] = "connecting" /\ k \notin closing
  /\ pc' = [pc EXCEPT ![k] = "reading"]
  /\ UNCHANGED <<queue, submitted, request, connStop, built, closing, wire, answer,
                 lost, stopping, faults>>

\* The master is not there, or the close that stop() posted cancels the connect.
connectFailed(k) ==
  /\ pc[k] = "connecting"
  /\ \/ k \in closing /\ UNCHANGED faults
     \/ faults < MaxFaults /\ faults' = faults + 1
  /\ pc' = [pc EXCEPT ![k] = IF connStop[k] THEN "ended" ELSE @]
  /\ UNCHANGED <<queue, submitted, request, connStop, built, closing, wire, answer,
                 lost, stopping>>

\* messageWrite: the record taken before is overwritten, the empty one ends it.
messageWrite(k) ==
  /\ pc[k] = "reading" /\ queue # << >>
  /\ queue' = Tail(queue)
  /\ request' = [request EXCEPT ![k] = Head(queue)]
  /\ pc' = [pc EXCEPT ![k] = IF Head(queue) = None THEN "ended" ELSE "writing"]
  /\ UNCHANGED <<submitted, connStop, built, closing, wire, answer, lost, stopping, faults>>

written(k) ==
  /\ pc[k] = "writing" /\ k \notin closing
  /\ toMaster' = [toMaster EXCEPT ![k] = request[k]]
  /\ pc' = [pc EXCEPT ![k] = "header"]
  /\ UNCHANGED <<queue, submitted, request, connStop, built, closing, toSlave, orphans,
                 handled, answer, lost, stopping, faults>>

readResultHeader(k) ==
  /\ pc[k] = "header" /\ k \notin closing /\ toSlave[k] # None
  /\ pc' = [pc EXCEPT ![k] = "body"]
  /\ UNCHANGED <<queue, submitted, request, connStop, built, closing, wire, answer,
                 lost, stopping, faults>>

\* unMarshResult gives the result to the context of the request under way.
readResultBody(k) ==
  /\ pc[k] = "body" /\ k \notin closing
  /\ answer' = [answer EXCEPT ![request[k]] = toSlave[k]]
  /\ toSlave' = [toSlave EXCEPT ![k] = None]
  /\ request' = [request EXCEPT ![k] = None]
  /\ pc' = [pc EXCEPT ![k] = "reading"]
  /\ UNCHANGED <<queue, submitted, connStop, built, closing, toMaster, orphans,
                 handled, lost, stopping, faults>>

\* Mutant: the next request is written to the same connection.
ioErrorKeepingSocket(k) ==
  /\ pc[k] \in {"writing", "header", "body"}
  /\ \/ k \in closing /\ UNCHANGED faults
     \/ faults < MaxFaults /\ faults' = faults + 1
  /\ pc' = [pc EXCEPT ![k] = IF connStop[k] THEN "ended" ELSE "reading"]
  /\ lost' = lost \cup {request[k]}
  /\ request' = [request EXCEPT ![k] = None]
  /\ UNCHANGED <<queue, submitted, connStop, built, closing, wire, answer, stopping>>

\* The error branches of the write and of both reads, whatever broke the
\* connection: connectServer opens a new socket.
ioError(k) ==
  /\ pc[k] \in {"writing", "header", "body"}
  /\ \/ k \in closing /\ UNCHANGED faults
     \/ faults < MaxFaults /\ faults' = faults + 1
  /\ pc' = [pc EXCEPT ![k] = IF connStop[k] THEN "ended" ELSE "connecting"]
  /\ lost' = lost \cup {request[k]}
  /\ request' = [request EXCEPT ![k] = None]
  /\ orphans' = orphans \cup ({toMaster[k]} \ {None})
  /\ toMaster' = [toMaster EXCEPT ![k] = None]
  /\ toSlave' = [toSlave EXCEPT ![k] = None]
  /\ UNCHANGED <<queue, submitted, connStop, built, closing, handled, answer, stopping>>

-----------------------------------------------------------------------------
(* The master: one result for each request it reads *)

handle(k) ==
  /\ toMaster[k] # None
  /\ handled' = [handled EXCEPT ![toMaster[k]] = @ + 1]
  /\ toSlave' = [toSlave EXCEPT ![k] = toMaster[k]]
  /\ toMaster' = [toMaster EXCEPT ![k] = None]
  /\ UNCHANGED <<queue, submitted, conns, orphans, answer, lost, stopping, faults>>

handleOrphan(c) ==
  /\ c \in orphans
  /\ handled' = [handled EXCEPT ![c] = @ + 1]
  /\ orphans' = orphans \ {c}
  /\ UNCHANGED <<queue, submitted, conns, toMaster, toSlave, answer, lost, stopping,
                 faults>>

-----------------------------------------------------------------------------
(* stop(), called when the constructors have returned *)

Stop ==
  /\ stopPc = "run" /\ built = Conn
  /\ stopPc' = "drain"
  /\ UNCHANGED <<queue, submitted, conns, wire, answer, lost, ending, faults>>

\* isEmpty, and then blockingRead: a connection may take the element between.
DrainTest ==
  /\ stopPc = "drain"
  /\ stopPc' = IF queue = << >> THEN "fill" ELSE "take"
  /\ UNCHANGED <<queue, submitted, conns, wire, answer, lost, ending, faults>>

\* Mutant: the element is looked at and stays.
DrainPeek ==
  /\ stopPc = "take" /\ queue # << >>
  /\ lost' = lost \cup {Head(queue)}
  /\ stopPc' = "drain"
  /\ UNCHANGED <<queue, submitted, conns, wire, answer, ending, faults>>

DrainTake ==
  /\ stopPc = "take" /\ queue # << >>
  /\ queue' = Tail(queue)
  /\ lost' = lost \cup {Head(queue)}
  /\ stopPc' = "drain"
  /\ UNCHANGED <<submitted, conns, wire, answer, ending, faults>>

\* Mutant: one empty record for all of them.
FillOne ==
  /\ stopPc = "fill" /\ Len(queue) < MaxQueue
  /\ queue' = Append(queue, None)
  /\ ending' = Conn /\ stopPc' = "join"
  /\ UNCHANGED <<submitted, conns, wire, answer, lost, faults>>

\* One empty record for each connection; then ending counts the joins.
Fill ==
  /\ stopPc = "fill" /\ Len(queue) < MaxQueue
  /\ queue' = Append(queue, None)
  /\ \E k \in ending :
       IF ending = {k}
       THEN ending' = Conn /\ stopPc' = "join"
       ELSE ending' = ending \ {k} /\ UNCHANGED stopPc
  /\ UNCHANGED <<submitted, conns, wire, answer, lost, faults>>

\* RpcConn::stop up to the join ...
ConnStop(k) ==
  /\ stopPc = "join" /\ k \in ending
  /\ \A j \in Conn : connStop[j] => j \notin ending
  /\ connStop' = [connStop EXCEPT ![k] = TRUE]
  /\ UNCHANGED <<queue, submitted, pc, request, built, closing, wire, answer, lost,
                 stopping, faults>>

\* ... the close it posts, which runs when the io thread waits for an event ...
Close(k) ==
  /\ stopPc = "join" /\ connStop[k] /\ k \notin closing
  /\ pc[k] \in {"connecting", "writing", "header", "body"}
  /\ closing' = closing \cup {k}
  /\ UNCHANGED <<queue, submitted, pc, request, connStop, built, wire, answer, lost,
                 stopping, faults>>

\* ... and the join.
ConnJoin(k) ==
  /\ stopPc = "join" /\ k \in ending /\ connStop[k] /\ pc[k] = "ended"
  /\ ending' = ending \ {k}
  /\ stopPc' = IF ending = {k} THEN "stopped" ELSE "join"
  /\ UNCHANGED <<queue, submitted, conns, wire, answer, lost, faults>>

-----------------------------------------------------------------------------
IoThread(k) ==
  connected(k) \/ connectFailed(k) \/ messageWrite(k) \/ written(k)
    \/ readResultHeader(k) \/ readResultBody(k) \/ ioError(k)

Stopping ==
  DrainTest \/ DrainTake \/ Fill \/ \E k \in Conn : ConnStop(k) \/ ConnJoin(k)

Next ==
  \/ \E c \in Ctx : allocateAddr(c) \/ handleOrphan(c)
  \/ \E k \in Conn : Built(k) \/ IoThread(k) \/ handle(k) \/ Close(k)
  \/ Stop \/ Stopping

\* The threads run and the master answers; nobody has to submit or to stop.
Spec ==
  /\ Init /\ [][Next]_vars
  /\ \A k \in Conn : /\ WF_vars(Built(k)) /\ WF_vars(IoThread(k))
                     /\ WF_vars(handle(k)) /\ WF_vars(Close(k))
  /\ WF_vars(Stopping)

-----------------------------------------------------------------------------
(* Properties *)

\* A result on a connection is the one of the request its thread waits for, so
\* no client is given the address of another, through any reconnect
\* (rpc_allocate_engine.cpp:116-157).
Paired ==
  /\ \A k \in Conn :
       /\ toSlave[k] # None => toSlave[k] = request[k] /\ pc[k] \in {"header", "body"}
       /\ toMaster[k] # None => toMaster[k] = request[k] /\ pc[k] = "header"
  /\ \A c \in Ctx : answer[c] \in {c, None}

\* The master handles no request twice, and none that was not sent: what an error
\* leaves in doubt is not sent again (rpc_allocate_engine.cpp:122, 137, 154).
HandledOnce ==
  \A c \in Ctx : handled[c] <= 1 /\ (answer[c] # None => handled[c] = 1)

\* The io thread of a connection is gone before stop() ended it: connectServer
\* read a stop_ that was true by chance (rpc_allocate_engine.cpp:79, 101).
Dead(k) == pc[k] = "ended" /\ stopPc = "run"

\* Every context comes back or is lost while the engine runs, if the connects
\* that fail do not find an uninitialised stop_.
RequestEnds ==
  \A c \in Ctx : c \in submitted ~>
    \/ answer[c] # None \/ c \in lost \/ stopPc # "run" \/ \E k \in Conn : Dead(k)

\* stop() waits for an element that a connection took first
\* (rpc_allocate_engine.cpp:38-39).
DrainStuck == stopPc = "take" /\ queue = << >>

\* stop() returns: every connection finds its empty record or its socket closed,
\* whatever it was doing; only the drain may wait for ever.
StopEnds == stopPc = "drain" ~> stopPc = "stopped" \/ DrainStuck

\* When stop() has returned, no callback runs any more: what they use may go.
QuietAfterStop == [][stopPc = "stopped" => answer' = answer]_vars

\* The engine is the service its callers expect.
Call == INSTANCE AsyncCall WITH
  Call <- Ctx,
  Answers <- LAMBDA c : {c},
  status <- [c \in Ctx |->
               IF answer[c] # None THEN <<"answered", answer[c]>>
               ELSE IF c \in lost THEN <<"lost">>
               ELSE IF c \in submitted THEN <<"pending">> ELSE <<"not called">>]

\* Every step of the engine is a step of AsyncCall: a context is answered once
\* with its own result, or lost, and never both (rpc_allocate_engine.cpp:183).
ImplementsCall == Call!Spec

\* A result goes to its own request, and no request is handled twice
\* (rpc_allocate_engine.cpp:116-157).
AnswersSound == TypeOK /\ Paired /\ HandledOnce
=============================================================================
