------------------------------- MODULE RawTCP --------------------------------
(***************************************************************************)
(* The command server of the master (master/command/raw_tcp.go): Run       *)
(* accepts connections, each has a goroutine (ioLoop) that reads commands, *)
(* has them handled and writes the results.  The goroutine that got a Stop *)
(* closes the listener and stops the other clients, under clientsLock.     *)
(* When Run returns, the process ends (master/bin/kea_master.go).          *)
(***************************************************************************)
EXTENDS Naturals, Sequences, SequencesExt

CONSTANTS Client, None

VARIABLES
  listening, run,   \* run: accept, returned
  conn,             \* none, open, failed (closed by the peer or by a deadline), closed
  pc,               \* of ioLoop
  cmd,              \* the command that was read last: stop, other
  getStopCmd,
  clients, lock,    \* clientsLock: its holder or None
  todo,             \* the clients that a stop has not stopped yet
  history           \* answered: who got the result of a Stop; error: AcceptTCP failed

vars == <<listening, run, conn, pc, cmd, getStopCmd, clients, lock, todo, history>>

Init ==
  /\ listening = TRUE /\ run = "accept" /\ clients = <<>> /\ lock = None
  /\ conn = [c \in Client |-> "none"] /\ pc = [c \in Client |-> "none"]
  /\ cmd = [c \in Client |-> "other"] /\ getStopCmd = [c \in Client |-> FALSE]
  /\ todo = [c \in Client |-> <<>>]
  /\ history = [answered |-> {}, error |-> FALSE]

shared == <<listening, clients, lock>>
Goto(c, from, to) == run = "accept" /\ pc[c] = from /\ pc' = [pc EXCEPT ![c] = to]

-----------------------------------------------------------------------------
(* Run, and the other ends of the connections. *)

Accept(c) ==
  /\ listening /\ conn[c] = "none" /\ Goto(c, "none", "add")
  /\ conn' = [conn EXCEPT ![c] = "open"]
  /\ UNCHANGED <<run, cmd, getStopCmd, shared, todo, history>>

\* AcceptTCP returns no connection, because the listener is closed or for an error that
\* may pass (no file descriptors).
RunReturns ==
  /\ run = "accept" /\ ~listening /\ run' = "returned"
  /\ UNCHANGED <<conn, pc, cmd, getStopCmd, shared, todo, history>>

AcceptFails ==
  /\ run = "accept" /\ listening /\ run' = "returned"
  /\ history' = [history EXCEPT !.error = TRUE]
  /\ UNCHANGED <<conn, pc, cmd, getStopCmd, shared, todo>>

\* The peer closes the connection, sends nothing for IODeadLine, or a bad length.
ConnFails(c) ==
  /\ run = "accept" /\ conn[c] = "open" /\ conn' = [conn EXCEPT ![c] = "failed"]
  /\ UNCHANGED <<run, pc, cmd, getStopCmd, shared, todo, history>>

-----------------------------------------------------------------------------
(* ioLoop. *)

addClient(c) ==
  /\ lock = None /\ Goto(c, "add", "select")
  /\ clients' = Append(clients, c)
  /\ UNCHANGED <<run, conn, cmd, getStopCmd, listening, lock, todo, history>>

\* Whoever waits to stop client c.
Stopper(c) == {s \in Client : pc[s] = "send" /\ todo[s] # <<>> /\ Head(todo[s]) = c}

\* The value that a stop sends is taken and sent back if there is one; the break leaves
\* only the select.
Select(c) ==
  /\ Goto(c, "select", "read") /\ Stopper(c) = {}
  /\ UNCHANGED <<run, conn, cmd, getStopCmd, shared, todo, history>>

SelectStop(c, s) ==
  /\ run = "accept" /\ pc[c] = "select" /\ s \in Stopper(c)
  /\ pc' = [pc EXCEPT ![c] = "read", ![s] = "next"]
  /\ todo' = [todo EXCEPT ![s] = Tail(@)]
  /\ UNCHANGED <<run, conn, cmd, getStopCmd, shared, history>>

readCommand(c) ==
  /\ UNCHANGED <<run, conn, getStopCmd, shared, todo, history>>
  /\ \/ /\ conn[c] = "open" /\ Goto(c, "read", "handle")
        /\ \E k \in {"stop", "other"} : cmd' = [cmd EXCEPT ![c] = k]
     \/ conn[c] # "open" /\ Goto(c, "read", "close") /\ UNCHANGED cmd

\* HandleCmd of the service, which may wait for other commands.
HandleCmd(c) ==
  /\ Goto(c, "handle", "write")
  /\ UNCHANGED <<run, conn, cmd, getStopCmd, shared, todo, history>>

Answer(c) ==
  IF conn[c] = "open" /\ cmd[c] = "stop" THEN [history EXCEPT !.answered = @ \cup {c}]
  ELSE history

\* Mutant: a Stop counts whether its result was written or not.
WriteResultUntested(c) ==
  /\ Goto(c, "write", IF conn[c] = "open" /\ cmd[c] # "stop" THEN "select" ELSE "close")
  /\ getStopCmd' = [getStopCmd EXCEPT ![c] = cmd[c] = "stop"]
  /\ history' = Answer(c)
  /\ UNCHANGED <<run, conn, cmd, shared, todo>>

WriteResult(c) ==
  /\ Goto(c, "write", IF conn[c] = "open" /\ cmd[c] # "stop" THEN "select" ELSE "close")
  /\ getStopCmd' = [getStopCmd EXCEPT ![c] = conn[c] = "open" /\ cmd[c] = "stop"]
  /\ history' = Answer(c)
  /\ UNCHANGED <<run, conn, cmd, shared, todo>>

Close(c) ==
  /\ Goto(c, "close", "remove")
  /\ conn' = [conn EXCEPT ![c] = "closed"]
  /\ UNCHANGED <<run, cmd, getStopCmd, shared, todo, history>>

removeClient(c) ==
  /\ lock = None /\ Goto(c, "remove", IF getStopCmd[c] THEN "stop" ELSE "done")
  /\ clients' = SelectSeq(clients, LAMBDA d : d # c)
  /\ UNCHANGED <<run, conn, cmd, getStopCmd, listening, lock, todo, history>>

-----------------------------------------------------------------------------
(* RawTCP.stop, in the goroutine of client c. *)

CloseListener(c) ==
  /\ Goto(c, "stop", "lock") /\ listening' = FALSE
  /\ UNCHANGED <<run, conn, cmd, getStopCmd, clients, lock, todo, history>>

Lock(c) ==
  /\ lock = None /\ Goto(c, "lock", "next")
  /\ lock' = c /\ todo' = [todo EXCEPT ![c] = clients]
  /\ UNCHANGED <<run, conn, cmd, getStopCmd, listening, clients, history>>

\* client.stop closes the connection, and then waits until ioLoop is at its select.
stopClient(c) ==
  /\ todo[c] # <<>> /\ Goto(c, "next", "send")
  /\ conn' = [conn EXCEPT ![Head(todo[c])] = "closed"]
  /\ UNCHANGED <<run, cmd, getStopCmd, shared, todo, history>>

Unlock(c) ==
  /\ todo[c] = <<>> /\ Goto(c, "next", "done") /\ lock' = None
  /\ UNCHANGED <<run, conn, cmd, getStopCmd, listening, clients, todo, history>>

-----------------------------------------------------------------------------
ioLoop(c) ==
  \/ addClient(c) \/ Select(c) \/ readCommand(c) \/ HandleCmd(c) \/ WriteResult(c)
  \/ Close(c) \/ removeClient(c)
  \/ CloseListener(c) \/ Lock(c) \/ stopClient(c) \/ Unlock(c)

Next ==
  \/ RunReturns \/ AcceptFails
  \/ \E c \in Client : \/ Accept(c) \/ ConnFails(c) \/ ioLoop(c)
                       \/ \E s \in Client : SelectStop(c, s)

\* Run and the goroutines go on; nobody has to connect or to send a command.
Spec ==
  /\ Init /\ [][Next]_vars /\ WF_vars(RunReturns)
  /\ \A c \in Client : WF_vars(ioLoop(c)) /\ WF_vars(\E s \in Client : SelectStop(c, s))

-----------------------------------------------------------------------------
\* A Stop whose result was written ends the process, although RawTCP.stop may wait for
\* ever for a client that has left its loop and waits for clientsLock.
StopEndsProcess == \A c \in Client : c \in history.answered ~> run = "returned"

\* Unless AcceptTCP fails, the process does not end before the result of a Stop was
\* written, whichever clients send one and lose their connections.
EndsOnlyWhenAnswered == run = "returned" => history.error \/ history.answered # {}

\* One goroutine at a time is between Lock and Unlock, and while it stops the clients
\* nobody is added to or removed from the list that it walks over.
WalksTheClients ==
  \A c \in Client : pc[c] \in {"next", "send"} =>
    lock = c /\ IsSuffix(todo[c], clients)
=============================================================================
