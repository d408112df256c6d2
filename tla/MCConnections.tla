---------------------------- MODULE MCConnections -----------------------------
(* The two servers of the master: Server, with its connections to slaves, and *)
(* RawTCP, with its connections of the management.  They share no state; one  *)
(* of them is chosen at first and the other stays as it was started.          *)
EXTENDS Server

CONSTANT Client

VARIABLES which, tcpListening, run, tcpConn, pc, tcpCmd, getStopCmd, tcpClients, lock,
          tcpTodo, history

tcpVars == <<tcpListening, run, tcpConn, pc, tcpCmd, getStopCmd, tcpClients, lock, tcpTodo,
             history>>
allVars == <<which, vars, tcpVars>>

T == INSTANCE RawTCP WITH
       listening <- tcpListening, conn <- tcpConn, cmd <- tcpCmd, clients <- tcpClients,
       todo <- tcpTodo

MCInit == which \in {"slaves", "management"} /\ Init /\ T!Init

MCNext == /\ UNCHANGED which
          /\ \/ which = "slaves" /\ Next /\ UNCHANGED tcpVars
             \/ which = "management" /\ T!Next /\ UNCHANGED vars

\* The fairness of the server that runs.
MCSpec ==
  /\ MCInit /\ [][MCNext]_allVars
  /\ WF_vars(which = "slaves" /\ Loop)
  /\ WF_vars(which = "slaves" /\ Command)
  /\ \A c \in Conn : WF_vars(which = "slaves" /\ Serve(c))
  /\ WF_tcpVars(which = "management" /\ T!RunReturns)
  /\ \A c \in Client :
       /\ WF_tcpVars(which = "management" /\ T!ioLoop(c))
       /\ WF_tcpVars(which = "management" /\ \E s \in Client : T!SelectStop(c, s))
-----------------------------------------------------------------------------

\* Unless AcceptTCP fails, the process ends only after the result of a Stop was written,
\* and no list of clients changes under the walk of a stop (raw_tcp.go, ioLoop and stop).
ManagementSound == T!EndsOnlyWhenAnswered /\ T!WalksTheClients

\* Commands end, but for the waits that the property names, and a Stop whose result was
\* written ends the process (server.go:141-158, client.go:57-60; raw_tcp.go, stop and Run).
CommandsEnd == CommandEnds /\ T!StopEndsProcess
=============================================================================
