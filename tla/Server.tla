------------------------------- MODULE Server -------------------------------
(***************************************************************************)
(* The connections of the master (master/server.go, client.go) and the     *)
(* part of every command that stops them (server_command.go,               *)
(* subnet_command.go).  One goroutine accepts connections, one goroutine   *)
(* serves each client, and commands run one at a time under                *)
(* cmdExecuteLock.  A command sets duringReconfig, stops all clients under *)
(* clientsLock and only then changes the engines.                          *)
(*                                                                         *)
(* clientsLock is held across a step only by the command that stops the    *)
(* clients: to append and to remove take one step each.                    *)
(***************************************************************************)
EXTENDS Integers, Sequences, FiniteSets

CONSTANTS Conn,       \* connections of slaves, each made at most once
          MaxCmds,    \* bound on the commands
          None

VARIABLES
  conn,       \* none, pending (not yet accepted), open, closed
  serve,      \* goroutine of a client: none, read, handle, disconnect, remove, done
  token,      \* what is in the buffered stopChan of a client
  clients,    \* s.clients
  locked,     \* clientsLock is held by stopClient
  loop,       \* ioloop: select, accept, check, create, append, send, ended
  accepted,   \* the connection it holds
  listening,
  duringReconfig,
  cmd,        \* [pc, kind]
  todo,       \* clients that stopClient has not stopped yet
  cmds,       \* commands begun
  stops       \* history: how often a client was waited for with success

vars == <<conn, serve, token, clients, locked, loop, accepted, listening, duringReconfig,
          cmd, todo, cmds, stops>>

Idle == [pc |-> "idle", kind |-> "none"]

Init ==
  /\ conn = [c \in Conn |-> "none"] /\ serve = [c \in Conn |-> "none"]
  /\ token = [c \in Conn |-> 0] /\ clients = <<>> /\ locked = FALSE
  /\ loop = "select" /\ accepted = None /\ listening = TRUE /\ duringReconfig = FALSE
  /\ cmd = Idle /\ todo = <<>> /\ cmds = 0 /\ stops = [c \in Conn |-> 0]

ioVars == <<clients, loop, accepted>>
cmdVars == <<locked, listening, duringReconfig, cmd, todo, cmds, stops>>

----------------------------------------------------------------------------
(* The slaves.                                                             *)

Connect(c) ==
  /\ conn[c] = "none" /\ listening
  /\ conn' = [conn EXCEPT ![c] = "pending"]
  /\ UNCHANGED <<serve, token, ioVars, cmdVars>>

PeerCloses(c) ==
  /\ conn[c] = "open"
  /\ conn' = [conn EXCEPT ![c] = "closed"]
  /\ UNCHANGED <<serve, token, ioVars, cmdVars>>

----------------------------------------------------------------------------
(* ioloop of the server.                                                   *)

Select ==
  /\ loop = "select" /\ cmd.pc # "send"
  /\ loop' = "accept"
  /\ UNCHANGED <<conn, serve, token, clients, accepted, cmdVars>>

\* The listener is closed: AcceptTCP returns an error.
AcceptFails ==
  /\ loop = "accept" /\ ~listening
  /\ loop' = "select"
  /\ UNCHANGED <<conn, serve, token, clients, accepted, cmdVars>>

Accept(c) ==
  /\ loop = "accept" /\ listening /\ conn[c] = "pending"
  /\ loop' = "check" /\ accepted' = c
  /\ conn' = [conn EXCEPT ![c] = "open"]
  /\ UNCHANGED <<serve, token, clients, cmdVars>>

CheckNothing ==
  /\ loop = "check" /\ loop' = "create"
  /\ UNCHANGED <<conn, serve, token, clients, accepted, cmdVars>>

Check ==
  /\ loop = "check"
  /\ IF duringReconfig
       THEN /\ conn' = [conn EXCEPT ![accepted] = "closed"]
            /\ loop' = "select" /\ accepted' = None
       ELSE loop' = "create" /\ UNCHANGED <<conn, accepted>>
  /\ UNCHANGED <<serve, token, clients, cmdVars>>

\* newClient: the goroutine of the client starts here.
Create ==
  /\ loop = "create" /\ loop' = "append"
  /\ serve' = [serve EXCEPT ![accepted] = "read"]
  /\ UNCHANGED <<conn, token, clients, accepted, cmdVars>>

AppendClient ==
  /\ loop = "append" /\ ~locked
  /\ clients' = Append(clients, accepted)
  /\ loop' = "select" /\ accepted' = None
  /\ UNCHANGED <<conn, serve, token, cmdVars>>

----------------------------------------------------------------------------
(* ioloop of a client.                                                     *)

\* readContext
ReadContext(c) ==
  /\ serve[c] = "read"
  /\ serve' = [serve EXCEPT ![c] = IF conn[c] = "open" THEN "handle" ELSE "disconnect"]
  /\ UNCHANGED <<conn, token, ioVars, cmdVars>>

\* The request is handled and the result written.
Reply(c) ==
  /\ serve[c] = "handle"
  /\ serve' = [serve EXCEPT ![c] = IF conn[c] = "open" THEN "read" ELSE "disconnect"]
  /\ UNCHANGED <<conn, token, ioVars, cmdVars>>

DisconnectSilently(c) ==
  /\ serve[c] = "disconnect"
  /\ serve' = [serve EXCEPT ![c] = "remove"]
  /\ UNCHANGED <<conn, token, ioVars, cmdVars>>

Disconnect(c) ==
  /\ serve[c] = "disconnect" /\ token[c] = 0
  /\ serve' = [serve EXCEPT ![c] = "remove"]
  /\ token' = [token EXCEPT ![c] = 1]
  /\ UNCHANGED <<conn, ioVars, cmdVars>>

\* The first entry that is c goes, and those behind it move up.
removeClient(c) ==
  /\ serve[c] = "remove" /\ ~locked
  /\ serve' = [serve EXCEPT ![c] = "done"]
  /\ \/ (\A i \in DOMAIN clients : clients[i] # c) /\ clients' = clients
     \/ \E i \in DOMAIN clients :
          /\ clients[i] = c /\ \A j \in 1..(i - 1) : clients[j] # c
          /\ clients' = [j \in 1..(Len(clients) - 1) |->
                           IF j < i THEN clients[j] ELSE clients[j + 1]]
  /\ UNCHANGED <<conn, token, loop, accepted, cmdVars>>

----------------------------------------------------------------------------
(* Commands.  "change" stands for every command that changes the engines,  *)
(* all of which begin with stopClient.                                     *)

HandleCmd(k) ==
  /\ cmd = Idle /\ cmds < MaxCmds
  /\ cmds' = cmds + 1 /\ duringReconfig' = TRUE
  /\ cmd' = [pc |-> IF k = "stop" THEN "send" ELSE "lock", kind |-> k]
  /\ listening' = (listening /\ k # "stop")
  /\ UNCHANGED <<conn, serve, token, ioVars, locked, todo, stops>>

\* stop: the server's stopChan is not buffered.
StopSend ==
  /\ cmd.pc = "send" /\ loop = "select"
  /\ cmd' = [cmd EXCEPT !.pc = "receive"] /\ loop' = "send"
  /\ UNCHANGED <<conn, serve, token, clients, accepted, locked, listening, duringReconfig,
                 todo, cmds, stops>>

StopReceive ==
  /\ cmd.pc = "receive" /\ loop = "send"
  /\ cmd' = [cmd EXCEPT !.pc = "lock"] /\ loop' = "ended"
  /\ UNCHANGED <<conn, serve, token, clients, accepted, locked, listening, duringReconfig,
                 todo, cmds, stops>>

Count ==
  /\ cmd = [pc |-> "lock", kind |-> "count"]
  /\ cmd' = [cmd EXCEPT !.pc = "return"]
  /\ UNCHANGED <<conn, serve, token, ioVars, locked, listening, duringReconfig, todo, cmds, stops>>

StopClientLock ==
  /\ cmd.pc = "lock" /\ cmd.kind # "count"
  /\ locked' = TRUE /\ todo' = clients
  /\ cmd' = [cmd EXCEPT !.pc = "close"]
  /\ UNCHANGED <<conn, serve, token, ioVars, listening, duringReconfig, cmds, stops>>

\* Client.Stop closes the connection ...
ClientStopClose ==
  /\ cmd.pc = "close" /\ todo # <<>>
  /\ conn' = [conn EXCEPT ![Head(todo)] = "closed"]
  /\ cmd' = [cmd EXCEPT !.pc = "wait"]
  /\ UNCHANGED <<serve, token, ioVars, locked, listening, duringReconfig, todo, cmds, stops>>

\* ... and waits until the goroutine of the client says that it has ended.
ClientStopWait ==
  /\ cmd.pc = "wait" /\ token[Head(todo)] = 1
  /\ token' = [token EXCEPT ![Head(todo)] = 0]
  /\ stops' = [stops EXCEPT ![Head(todo)] = @ + 1]
  /\ todo' = Tail(todo)
  /\ cmd' = [cmd EXCEPT !.pc = "close"]
  /\ UNCHANGED <<conn, serve, ioVars, locked, listening, duringReconfig, cmds>>

StopClientUnlock ==
  /\ cmd.pc = "close" /\ todo = <<>>
  /\ locked' = FALSE
  /\ cmd' = [cmd EXCEPT !.pc = IF cmd.kind = "stop" THEN "return" ELSE "change"]
  /\ UNCHANGED <<conn, serve, token, ioVars, listening, duringReconfig, todo, cmds, stops>>

\* The engines are as the command wants them.
Change ==
  /\ cmd.pc = "change"
  /\ cmd' = [cmd EXCEPT !.pc = "return"]
  /\ UNCHANGED <<conn, serve, token, ioVars, locked, listening, duringReconfig, todo, cmds, stops>>

Return ==
  /\ cmd.pc = "return"
  /\ duringReconfig' = FALSE /\ cmd' = Idle
  /\ UNCHANGED <<conn, serve, token, ioVars, locked, listening, todo, cmds, stops>>

----------------------------------------------------------------------------

Serve(c) == ReadContext(c) \/ Reply(c) \/ Disconnect(c) \/ removeClient(c)
Loop == Select \/ AcceptFails \/ Check \/ Create \/ AppendClient \/ \E c \in Conn : Accept(c)
Command == StopSend \/ StopReceive \/ Count \/ StopClientLock \/ ClientStopClose
             \/ ClientStopWait \/ StopClientUnlock \/ Change \/ Return

Next ==
  \/ Loop \/ Command
  \/ \E c \in Conn : Connect(c) \/ PeerCloses(c) \/ Serve(c)
  \/ \E k \in {"count", "change", "stop"} : HandleCmd(k)

Spec == Init /\ [][Next]_vars /\ WF_vars(Loop) /\ WF_vars(Command)
             /\ \A c \in Conn : WF_vars(Serve(c))

----------------------------------------------------------------------------

Listed == {clients[i] : i \in DOMAIN clients}
Serving == {c \in Conn : serve[c] \in {"read", "handle"}}
Ended(c) == serve[c] \in {"remove", "done"}

\* A client that may still handle a request is in s.clients, where stopClient finds
\* it, or is about to be appended (server.go:125-133, 149-158).
ServedIsListed == \A c \in Serving : c \in Listed \/ (loop = "append" /\ accepted = c)

\* While a command changes the engines, no client is served but the one that ioloop
\* accepted before duringReconfig was set and started after stopClient
\* (server.go:125-130).
AtMostOneIntruder == cmd.pc = "change" => Cardinality(Serving) <= 1

\* A stop ends the accept loop before it stops the clients: none is served when it
\* returns, nor later (server.go:141-147).
NobodyServedAfterStop ==
  loop = "ended" /\ (cmd.pc = "return" \/ cmd = Idle) => Serving = {}

\* A command ends, unless it waits for a client that an earlier command already
\* waited for with success and that is in s.clients still or for good, or is a
\* second stop (client.go:57-60, server.go:141-147).
Stuck ==
  \/ /\ cmd.pc = "wait" /\ stops[Head(todo)] > 0
     /\ token[Head(todo)] = 0 /\ Ended(Head(todo))
  \/ cmd.pc = "send" /\ loop = "ended"
CommandEnds == cmd # Idle ~> (cmd = Idle \/ Stuck)

\* Commands change the engines alone: stopClient finds whoever is served, and ends all
\* but the one that ioloop let in before (server.go:125-158).
ServingSound == ServedIsListed /\ AtMostOneIntruder /\ NobodyServedAfterStop
=============================================================================
