----------------------------- MODULE ServerProofs -----------------------------
(***************************************************************************)
(* Which clients the master serves during and after a command, for any     *)
(* number of connections and commands.                                     *)
(***************************************************************************)
EXTENDS Server, FiniteSetTheorems, TLAPS

TypeOK ==
  /\ conn \in [Conn -> {"none", "pending", "open", "closed"}]
  /\ serve \in [Conn -> {"none", "read", "handle", "disconnect", "remove", "done"}]
  /\ token \in [Conn -> {0, 1}] /\ clients \in Seq(Conn) /\ todo \in Seq(Conn)
  /\ loop \in {"select", "accept", "check", "create", "append", "send", "ended"}
  /\ loop \in {"check", "create", "append"} => accepted \in Conn
  /\ cmd \in [pc : {"idle", "send", "receive", "lock", "close", "wait", "change", "return"},
              kind : {"none", "count", "change", "stop"}]

\* A client is served once: a connection that ioloop holds has no goroutine before
\* newClient, and a listed client has had one.
ServedOnce ==
  /\ \A c \in Conn : conn[c] \in {"none", "pending"} => serve[c] = "none"
  /\ loop \in {"check", "create"} =>
       /\ serve[accepted] = "none"
       /\ conn[accepted] \in {"open", "closed"}
  /\ loop = "append" => serve[accepted] # "none"
  /\ \A c \in Listed : serve[c] # "none"

\* A goroutine sends its token when it handles no more requests.
TokenInv == \A c \in Conn : token[c] = 1 => Ended(c)

\* Which commands are where, and what they hold.
CommandInv ==
  /\ locked <=> cmd.pc \in {"close", "wait"}
  /\ cmd.pc = "wait" => todo # <<>>
  /\ cmd # Idle => duringReconfig
  /\ cmd.pc \in {"send", "receive"} => cmd.kind = "stop"
  /\ cmd.pc = "change" => cmd.kind # "stop"
  /\ cmd.pc = "idle" => cmd = Idle
  /\ cmd.kind = "stop" /\ cmd.pc \in {"lock", "close", "wait", "return"} => loop = "ended"

\* stopClient has ended what it has walked over.
Todo == {todo[i] : i \in DOMAIN todo}
WalkInv == locked => \A c \in Listed : Ended(c) \/ c \in Todo

\* While the engines change, only the connection that ioloop held may be served.
ChangeInv ==
  cmd.pc = "change" =>
    IF loop \in {"create", "append"} THEN Serving \subseteq {accepted}
    ELSE Serving = {} \/ \E x \in Conn : Serving \subseteq {x}

\* Once ioloop has ended only the stop that ended it finds clients that are served.
EndedInv ==
  loop = "ended" =>
    Serving = {} \/ (cmd.kind = "stop" /\ cmd.pc \in {"lock", "close", "wait"})

IInv == /\ TypeOK /\ ServedOnce /\ ServedIsListed /\ TokenInv /\ CommandInv
        /\ WalkInv /\ ChangeInv /\ EndedInv
-----------------------------------------------------------------------------
(* s.clients *)

\* An append lists the connection besides the others.
LEMMA AppendLists ==
  ASSUME NEW q \in Seq(Conn), NEW e \in Conn
  PROVE  /\ Append(q, e) \in Seq(Conn)
         /\ {Append(q, e)[i] : i \in DOMAIN Append(q, e)} = {q[i] : i \in DOMAIN q} \cup {e}
  <1>1. /\ Append(q, e) \in Seq(Conn) /\ Len(Append(q, e)) = Len(q) + 1 /\ Len(q) \in Nat
        /\ Append(q, e)[Len(q) + 1] = e
        /\ \A i \in 1..Len(q) : Append(q, e)[i] = q[i]
    OBVIOUS
  <1>2. DOMAIN q = 1..Len(q) /\ DOMAIN Append(q, e) = 1..(Len(q) + 1)
    BY <1>1
  <1> QED
    BY <1>1, <1>2

\* stopClient goes on to the next client.
LEMMA TailLists ==
  ASSUME NEW q \in Seq(Conn), q # << >>
  PROVE  /\ Tail(q) \in Seq(Conn) /\ Head(q) \in Conn
         /\ {q[i] : i \in DOMAIN q} \subseteq {Tail(q)[i] : i \in DOMAIN Tail(q)} \cup {Head(q)}
  <1>1. /\ Tail(q) \in Seq(Conn) /\ Len(Tail(q)) = Len(q) - 1 /\ Len(q) \in Nat \ {0}
        /\ Head(q) = q[1] /\ q[1] \in Conn
        /\ \A i \in 1..(Len(q) - 1) : Tail(q)[i] = q[i + 1]
    OBVIOUS
  <1>2. DOMAIN q = 1..Len(q) /\ DOMAIN Tail(q) = 1..(Len(q) - 1)
    BY <1>1
  <1>3. ASSUME NEW i \in DOMAIN q
        PROVE  q[i] \in {Tail(q)[j] : j \in DOMAIN Tail(q)} \cup {Head(q)}
    <2>1. i = 1 \/ (i - 1 \in DOMAIN Tail(q) /\ q[i] = Tail(q)[i - 1])
      BY <1>1, <1>2
    <2> QED
      BY <1>1, <2>1
  <1> QED
    BY <1>1, <1>3

\* A removal takes no other connection off the list (server.go:149-158).
LEMMA RemoveLists ==
  ASSUME TypeOK, NEW c \in Conn, removeClient(c)
  PROVE  /\ clients' \in Seq(Conn)
         /\ Listed \ {c} \subseteq Listed' /\ Listed' \subseteq Listed
  <1>1. CASE clients' = clients
    BY <1>1 DEF TypeOK, Listed
  <1>2. CASE \E i \in DOMAIN clients :
               /\ clients[i] = c
               /\ clients' = [j \in 1..(Len(clients) - 1) |->
                                IF j < i THEN clients[j] ELSE clients[j + 1]]
    <2>1. PICK i \in DOMAIN clients :
               /\ clients[i] = c
               /\ clients' = [j \in 1..(Len(clients) - 1) |->
                                IF j < i THEN clients[j] ELSE clients[j + 1]]
      BY <1>2
    <2>2. /\ clients \in Seq(Conn) /\ Len(clients) \in Nat \ {0}
          /\ DOMAIN clients = 1..Len(clients)
      BY DEF TypeOK
    <2>3. /\ DOMAIN clients' = 1..(Len(clients) - 1)
          /\ \A j \in DOMAIN clients' :
               clients'[j] = IF j < i THEN clients[j] ELSE clients[j + 1]
      BY <2>1
    <2>4. \A j \in DOMAIN clients' : clients'[j] \in Conn /\ clients'[j] \in Listed
      BY <2>2, <2>3 DEF Listed
    <2>5. clients' \in Seq(Conn)
      BY <2>1, <2>2, <2>3, <2>4
    <2>6. ASSUME NEW j \in DOMAIN clients, clients[j] # c
          PROVE  clients[j] \in Listed'
      <3>1. CASE j < i
        BY <2>2, <2>3, <3>1 DEF Listed
      <3>2. CASE j > i
        <4>1. j - 1 \in DOMAIN clients' /\ clients'[j - 1] = clients[j]
          BY <2>2, <2>3, <3>2
        <4> QED
          BY <4>1 DEF Listed
      <3> QED
        BY <2>1, <2>2, <2>6, <3>1, <3>2
    <2> QED
      BY <2>4, <2>5, <2>6 DEF Listed
  <1> QED
    BY <1>1, <1>2 DEF removeClient

-----------------------------------------------------------------------------
(* The invariant *)

\* No client is listed and no command runs when the server starts.
LEMMA InitInv == Init => IInv
  <1> SUFFICES ASSUME Init PROVE IInv
    OBVIOUS
  <1>1. clients = << >> /\ clients \in Seq(Conn) /\ Listed = {} /\ Serving = {}
    BY DEF Init, Listed, Serving
  <1> QED
    BY <1>1 DEF Init, IInv, TypeOK, ServedOnce, ServedIsListed, TokenInv, CommandInv, WalkInv,
                ChangeInv, EndedInv, Idle

\* A connection that is made was not served before.
LEMMA ConnectKeeps ==
  ASSUME IInv, NEW c \in Conn, Connect(c)
  PROVE  IInv'
  <1> USE DEF IInv, Connect, ioVars, cmdVars, Idle, Serving, Ended
  <1>1. Listed' = Listed /\ Todo' = Todo
    BY DEF Listed, Todo
  <1> QED
    BY <1>1 DEF TypeOK, ServedOnce, ServedIsListed, TokenInv, CommandInv, WalkInv,
                ChangeInv, EndedInv

\* A slave that hangs up changes nothing that is served.
LEMMA PeerClosesKeeps ==
  ASSUME IInv, NEW c \in Conn, PeerCloses(c)
  PROVE  IInv'
  <1> USE DEF IInv, PeerCloses, ioVars, cmdVars, Idle, Serving, Ended
  <1>1. Listed' = Listed /\ Todo' = Todo
    BY DEF Listed, Todo
  <1> QED
    BY <1>1 DEF TypeOK, ServedOnce, ServedIsListed, TokenInv, CommandInv, WalkInv,
                ChangeInv, EndedInv

\* ioloop goes to the listener.
LEMMA SelectKeeps ==
  ASSUME IInv, Select
  PROVE  IInv'
  <1> USE DEF IInv, Select, ioVars, cmdVars, Idle, Serving, Ended
  <1>1. Listed' = Listed /\ Todo' = Todo
    BY DEF Listed, Todo
  <1> QED
    BY <1>1 DEF TypeOK, ServedOnce, ServedIsListed, TokenInv, CommandInv, WalkInv,
                ChangeInv, EndedInv

\* ioloop finds the listener closed.
LEMMA AcceptFailsKeeps ==
  ASSUME IInv, AcceptFails
  PROVE  IInv'
  <1> USE DEF IInv, AcceptFails, ioVars, cmdVars, Idle, Serving, Ended
  <1>1. Listed' = Listed /\ Todo' = Todo
    BY DEF Listed, Todo
  <1> QED
    BY <1>1 DEF TypeOK, ServedOnce, ServedIsListed, TokenInv, CommandInv, WalkInv,
                ChangeInv, EndedInv

\* A connection that is accepted has no goroutine yet (server.go:117-124).
LEMMA AcceptKeeps ==
  ASSUME IInv, NEW c \in Conn, Accept(c)
  PROVE  IInv'
  <1> USE DEF IInv, Accept, ioVars, cmdVars, Idle, Serving, Ended
  <1>1. Listed' = Listed /\ Todo' = Todo
    BY DEF Listed, Todo
  <1> QED
    BY <1>1 DEF TypeOK, ServedOnce, ServedIsListed, TokenInv, CommandInv, WalkInv,
                ChangeInv, EndedInv

\* No connection passes the test of duringReconfig while a command runs
\* (server.go:125-128).
LEMMA CheckKeeps ==
  ASSUME IInv, Check
  PROVE  IInv'
  <1> USE DEF IInv, Check, ioVars, cmdVars, Idle, Serving, Ended
  <1>1. Listed' = Listed /\ Todo' = Todo
    BY DEF Listed, Todo
  <1>2. TypeOK' /\ TokenInv' /\ CommandInv' /\ WalkInv' /\ EndedInv'
    BY <1>1 DEF TypeOK, ServedOnce, ServedIsListed, TokenInv, CommandInv, WalkInv,
                EndedInv
  <1>3. ServedOnce'
    BY <1>1 DEF TypeOK, ServedOnce
  <1>4. ServedIsListed'
    BY <1>1 DEF TypeOK, ServedOnce, ServedIsListed
  <1>5. ChangeInv'
    BY <1>1 DEF TypeOK, ServedOnce, ServedIsListed, CommandInv, WalkInv, ChangeInv
  <1> QED
    BY <1>2, <1>3, <1>4, <1>5

\* The connection that ioloop holds becomes the one that may be served
\* (server.go:130).
LEMMA CreateKeeps ==
  ASSUME IInv, Create
  PROVE  IInv'
  <1> USE DEF IInv, Create, ioVars, cmdVars, Idle, Serving, Ended
  <1>1. Listed' = Listed /\ Todo' = Todo
    BY DEF Listed, Todo
  <1>2. TypeOK' /\ CommandInv'
    BY <1>1 DEF TypeOK, CommandInv
  <1>3. ServedOnce'
    BY <1>1 DEF TypeOK, ServedOnce
  <1>4. ServedIsListed'
    BY <1>1 DEF TypeOK, ServedOnce, ServedIsListed
  <1>5. TokenInv'
    BY <1>1 DEF TypeOK, ServedOnce, TokenInv
  <1>6. WalkInv'
    BY <1>1 DEF TypeOK, ServedOnce, TokenInv, CommandInv, WalkInv
  <1>7. ChangeInv'
    BY <1>1 DEF TypeOK, ServedOnce, ServedIsListed, CommandInv, WalkInv, ChangeInv
  <1>8. EndedInv'
    BY <1>1 DEF TypeOK, ServedOnce, ServedIsListed, CommandInv, WalkInv, EndedInv
  <1> QED
    BY <1>2, <1>3, <1>4, <1>5, <1>6, <1>7, <1>8

\* The client that is served already joins the list (server.go:131-133).
LEMMA AppendClientKeeps ==
  ASSUME IInv, AppendClient
  PROVE  IInv'
  <1> USE DEF IInv, AppendClient, ioVars, cmdVars, Idle, Serving, Ended
  <1>1. clients \in Seq(Conn) /\ accepted \in Conn /\ clients' = Append(clients, accepted)
    BY DEF TypeOK
  <1>2. clients' \in Seq(Conn) /\ Listed' = Listed \cup {accepted}
    BY <1>1, AppendLists DEF Listed
  <1>3. Todo' = Todo
    BY DEF Todo
  <1>4. TypeOK' /\ TokenInv' /\ CommandInv'
    BY <1>1, <1>2, <1>3 DEF TypeOK, ServedOnce, TokenInv, CommandInv
  <1>5. ServedOnce'
    BY <1>1, <1>2, <1>3 DEF TypeOK, ServedOnce
  <1>6. ServedIsListed'
    BY <1>1, <1>2, <1>3 DEF TypeOK, ServedOnce, ServedIsListed
  <1>7. WalkInv'
    BY <1>1, <1>2, <1>3 DEF TypeOK, ServedOnce, TokenInv, CommandInv, WalkInv
  <1>8. ChangeInv'
    BY <1>1, <1>2, <1>3 DEF TypeOK, ServedOnce, ServedIsListed, CommandInv, WalkInv,
                            ChangeInv
  <1>9. EndedInv'
    BY <1>1, <1>2, <1>3 DEF TypeOK, ServedOnce, ServedIsListed, CommandInv, WalkInv,
                            EndedInv
  <1> QED
    BY <1>4, <1>5, <1>6, <1>7, <1>8, <1>9

\* A goroutine reads a request of a client that is served.
LEMMA ReadContextKeeps ==
  ASSUME IInv, NEW c \in Conn, ReadContext(c)
  PROVE  IInv'
  <1> USE DEF IInv, ReadContext, ioVars, cmdVars, Idle, Serving, Ended
  <1>1. Listed' = Listed /\ Todo' = Todo
    BY DEF Listed, Todo
  <1> QED
    BY <1>1 DEF TypeOK, ServedOnce, ServedIsListed, TokenInv, CommandInv, WalkInv,
                ChangeInv, EndedInv

\* A goroutine goes back to read, or ends.
LEMMA ReplyKeeps ==
  ASSUME IInv, NEW c \in Conn, Reply(c)
  PROVE  IInv'
  <1> USE DEF IInv, Reply, ioVars, cmdVars, Idle, Serving, Ended
  <1>1. Listed' = Listed /\ Todo' = Todo
    BY DEF Listed, Todo
  <1> QED
    BY <1>1 DEF TypeOK, ServedOnce, ServedIsListed, TokenInv, CommandInv, WalkInv,
                ChangeInv, EndedInv

\* A goroutine sends its token when it has ended.
LEMMA DisconnectKeeps ==
  ASSUME IInv, NEW c \in Conn, Disconnect(c)
  PROVE  IInv'
  <1> USE DEF IInv, Disconnect, ioVars, cmdVars, Idle, Serving, Ended
  <1>1. Listed' = Listed /\ Todo' = Todo
    BY DEF Listed, Todo
  <1>2. TypeOK' /\ CommandInv'
    BY <1>1 DEF TypeOK, CommandInv
  <1>3. ServedOnce'
    BY <1>1 DEF TypeOK, ServedOnce
  <1>4. ServedIsListed'
    BY <1>1 DEF TypeOK, ServedOnce, ServedIsListed
  <1>5. TokenInv'
    BY <1>1 DEF TypeOK, ServedOnce, TokenInv
  <1>6. WalkInv'
    BY <1>1 DEF TypeOK, ServedOnce, TokenInv, CommandInv, WalkInv
  <1>7. ChangeInv'
    BY <1>1 DEF TypeOK, ServedOnce, ServedIsListed, CommandInv, WalkInv, ChangeInv
  <1>8. EndedInv'
    BY <1>1 DEF TypeOK, ServedOnce, ServedIsListed, CommandInv, WalkInv, EndedInv
  <1> QED
    BY <1>2, <1>3, <1>4, <1>5, <1>6, <1>7, <1>8

\* Only a goroutine that has ended takes its client off the list
\* (server.go:149-158).
LEMMA RemoveClientKeeps ==
  ASSUME IInv, NEW c \in Conn, removeClient(c)
  PROVE  IInv'
  <1> USE DEF IInv, removeClient, ioVars, cmdVars, Idle, Serving, Ended
  <1>1. /\ clients' \in Seq(Conn)
        /\ Listed \ {c} \subseteq Listed' /\ Listed' \subseteq Listed
    BY RemoveLists
  <1>2. Todo' = Todo
    BY DEF Todo
  <1>3. TypeOK' /\ CommandInv'
    BY <1>1, <1>2 DEF TypeOK, CommandInv
  <1>4. ServedOnce'
    BY <1>1, <1>2 DEF TypeOK, ServedOnce
  <1>5. ServedIsListed'
    BY <1>1, <1>2 DEF TypeOK, ServedOnce, ServedIsListed
  <1>6. TokenInv'
    BY <1>1, <1>2 DEF TypeOK, ServedOnce, TokenInv
  <1>7. WalkInv'
    BY <1>1, <1>2 DEF TypeOK, ServedOnce, TokenInv, CommandInv, WalkInv
  <1>8. ChangeInv'
    BY <1>1, <1>2 DEF TypeOK, ServedOnce, ServedIsListed, CommandInv, WalkInv, ChangeInv
  <1>9. EndedInv'
    BY <1>1, <1>2 DEF TypeOK, ServedOnce, ServedIsListed, CommandInv, WalkInv, EndedInv
  <1> QED
    BY <1>3, <1>4, <1>5, <1>6, <1>7, <1>8, <1>9

\* A command sets duringReconfig first.
LEMMA HandleCmdKeeps ==
  ASSUME IInv, NEW k \in {"count", "change", "stop"}, HandleCmd(k)
  PROVE  IInv'
  <1> USE DEF IInv, HandleCmd, ioVars, cmdVars, Idle, Serving, Ended
  <1>1. Listed' = Listed /\ Todo' = Todo
    BY DEF Listed, Todo
  <1>2. TypeOK' /\ ServedOnce' /\ ServedIsListed' /\ TokenInv' /\ WalkInv'
    BY <1>1 DEF TypeOK, ServedOnce, ServedIsListed, TokenInv, CommandInv, WalkInv
  <1>3. CommandInv'
    BY <1>1 DEF TypeOK, CommandInv
  <1>4. ChangeInv'
    BY <1>1 DEF TypeOK, ServedOnce, ServedIsListed, CommandInv, WalkInv, ChangeInv
  <1>5. EndedInv'
    BY <1>1 DEF TypeOK, ServedOnce, ServedIsListed, CommandInv, WalkInv, EndedInv
  <1> QED
    BY <1>2, <1>3, <1>4, <1>5

\* stop() is heard between two connections (server.go:141-147).
LEMMA StopSendKeeps ==
  ASSUME IInv, StopSend
  PROVE  IInv'
  <1> USE DEF IInv, StopSend, ioVars, cmdVars, Idle, Serving, Ended
  <1>1. Listed' = Listed /\ Todo' = Todo
    BY DEF Listed, Todo
  <1>2. TypeOK' /\ TokenInv' /\ WalkInv'
    BY <1>1 DEF TypeOK, ServedOnce, TokenInv, CommandInv, WalkInv
  <1>3. ServedOnce'
    BY <1>1 DEF TypeOK, ServedOnce
  <1>4. ServedIsListed'
    BY <1>1 DEF TypeOK, ServedOnce, ServedIsListed
  <1>5. CommandInv'
    BY <1>1 DEF TypeOK, CommandInv
  <1>6. ChangeInv'
    BY <1>1 DEF TypeOK, ServedOnce, ServedIsListed, CommandInv, WalkInv, ChangeInv
  <1>7. EndedInv'
    BY <1>1 DEF TypeOK, ServedOnce, ServedIsListed, CommandInv, WalkInv, EndedInv
  <1> QED
    BY <1>2, <1>3, <1>4, <1>5, <1>6, <1>7

\* ioloop ends before the clients are stopped (server.go:141-147).
LEMMA StopReceiveKeeps ==
  ASSUME IInv, StopReceive
  PROVE  IInv'
  <1> USE DEF IInv, StopReceive, ioVars, cmdVars, Idle, Serving, Ended
  <1>1. Listed' = Listed /\ Todo' = Todo
    BY DEF Listed, Todo
  <1>2. TypeOK' /\ TokenInv' /\ WalkInv'
    BY <1>1 DEF TypeOK, ServedOnce, TokenInv, CommandInv, WalkInv
  <1>3. ServedOnce'
    BY <1>1 DEF TypeOK, ServedOnce
  <1>4. ServedIsListed'
    BY <1>1 DEF TypeOK, ServedOnce, ServedIsListed
  <1>5. CommandInv'
    BY <1>1 DEF TypeOK, CommandInv
  <1>6. ChangeInv'
    BY <1>1 DEF TypeOK, ServedOnce, ServedIsListed, CommandInv, WalkInv, ChangeInv
  <1>7. EndedInv'
    BY <1>1 DEF TypeOK, ServedOnce, ServedIsListed, CommandInv, WalkInv, EndedInv
  <1> QED
    BY <1>2, <1>3, <1>4, <1>5, <1>6, <1>7

\* A command that only counts leaves the clients alone.
LEMMA CountKeeps ==
  ASSUME IInv, Count
  PROVE  IInv'
  <1> USE DEF IInv, Count, ioVars, cmdVars, Idle, Serving, Ended
  <1>1. Listed' = Listed /\ Todo' = Todo
    BY DEF Listed, Todo
  <1> QED
    BY <1>1 DEF TypeOK, ServedOnce, ServedIsListed, TokenInv, CommandInv, WalkInv,
                ChangeInv, EndedInv

\* stopClient starts with everything that is listed.
LEMMA StopClientLockKeeps ==
  ASSUME IInv, StopClientLock
  PROVE  IInv'
  <1> USE DEF IInv, StopClientLock, ioVars, cmdVars, Idle, Serving, Ended
  <1>1. Listed' = Listed /\ Todo' = Listed
    BY DEF Listed, Todo
  <1>2. TypeOK' /\ ServedOnce' /\ ServedIsListed' /\ TokenInv'
    BY <1>1 DEF TypeOK, ServedOnce, ServedIsListed, TokenInv
  <1>3. CommandInv'
    BY <1>1 DEF TypeOK, CommandInv
  <1>4. WalkInv'
    BY <1>1 DEF TypeOK, ServedOnce, TokenInv, CommandInv, WalkInv
  <1>5. ChangeInv'
    BY <1>1 DEF TypeOK, ServedOnce, ServedIsListed, CommandInv, WalkInv, ChangeInv
  <1>6. EndedInv'
    BY <1>1 DEF TypeOK, ServedOnce, ServedIsListed, CommandInv, WalkInv, EndedInv
  <1> QED
    BY <1>2, <1>3, <1>4, <1>5, <1>6

\* The next client is closed.
LEMMA ClientStopCloseKeeps ==
  ASSUME IInv, ClientStopClose
  PROVE  IInv'
  <1> USE DEF IInv, ClientStopClose, ioVars, cmdVars, Idle, Serving, Ended
  <1>1. Listed' = Listed /\ Todo' = Todo /\ Head(todo) \in Conn
    BY DEF Listed, Todo, TypeOK
  <1>2. TypeOK' /\ ServedIsListed' /\ TokenInv'
    BY <1>1 DEF TypeOK, ServedOnce, ServedIsListed, TokenInv
  <1>3. ServedOnce'
    BY <1>1 DEF TypeOK, ServedOnce
  <1>4. CommandInv'
    BY <1>1 DEF TypeOK, CommandInv
  <1>5. WalkInv'
    BY <1>1 DEF TypeOK, ServedOnce, TokenInv, CommandInv, WalkInv
  <1>6. ChangeInv'
    BY <1>1 DEF TypeOK, ServedOnce, ServedIsListed, CommandInv, WalkInv, ChangeInv
  <1>7. EndedInv'
    BY <1>1 DEF TypeOK, ServedOnce, ServedIsListed, CommandInv, WalkInv, EndedInv
  <1> QED
    BY <1>2, <1>3, <1>4, <1>5, <1>6, <1>7

\* The client that was waited for has ended (client.go:57-60).
LEMMA ClientStopWaitKeeps ==
  ASSUME IInv, ClientStopWait
  PROVE  IInv'
  <1> USE DEF IInv, ClientStopWait, ioVars, cmdVars, Idle, Serving, Ended
  <1>1. Listed' = Listed
    BY DEF Listed
  <1>2. /\ todo' \in Seq(Conn) /\ Head(todo) \in Conn
        /\ Todo \subseteq Todo' \cup {Head(todo)}
    BY TailLists DEF TypeOK, Todo, CommandInv
  <1>3. TypeOK' /\ ServedOnce' /\ ServedIsListed'
    BY <1>1, <1>2 DEF TypeOK, ServedOnce, ServedIsListed
  <1>4. TokenInv'
    BY <1>1, <1>2 DEF TypeOK, ServedOnce, TokenInv
  <1>5. CommandInv'
    BY <1>1, <1>2 DEF TypeOK, CommandInv
  <1>6. WalkInv'
    BY <1>1, <1>2 DEF TypeOK, ServedOnce, TokenInv, CommandInv, WalkInv
  <1>7. ChangeInv'
    BY <1>1, <1>2 DEF TypeOK, ServedOnce, ServedIsListed, CommandInv, WalkInv, ChangeInv
  <1>8. EndedInv'
    BY <1>1, <1>2 DEF TypeOK, ServedOnce, ServedIsListed, CommandInv, WalkInv, EndedInv
  <1> QED
    BY <1>3, <1>4, <1>5, <1>6, <1>7, <1>8

\* All that was listed has ended, so at most what ioloop still holds is served.
LEMMA StopClientUnlockKeeps ==
  ASSUME IInv, StopClientUnlock
  PROVE  IInv'
  <1> USE DEF IInv, StopClientUnlock, ioVars, cmdVars, Idle, Serving, Ended
  <1>1. Listed' = Listed /\ Todo = {} /\ Todo' = {}
    BY DEF Listed, Todo
  <1>2. TypeOK' /\ ServedOnce' /\ ServedIsListed' /\ TokenInv' /\ WalkInv'
    BY <1>1 DEF TypeOK, ServedOnce, ServedIsListed, TokenInv, CommandInv, WalkInv
  <1>3. CommandInv'
    BY <1>1 DEF TypeOK, CommandInv
  <1>4. ChangeInv'
    BY <1>1 DEF TypeOK, ServedOnce, ServedIsListed, CommandInv, WalkInv, ChangeInv
  <1>5. EndedInv'
    BY <1>1 DEF TypeOK, ServedOnce, ServedIsListed, CommandInv, WalkInv, EndedInv
  <1> QED
    BY <1>2, <1>3, <1>4, <1>5

\* The engines have changed.
LEMMA ChangeKeeps ==
  ASSUME IInv, Change
  PROVE  IInv'
  <1> USE DEF IInv, Change, ioVars, cmdVars, Idle, Serving, Ended
  <1>1. Listed' = Listed /\ Todo' = Todo
    BY DEF Listed, Todo
  <1> QED
    BY <1>1 DEF TypeOK, ServedOnce, ServedIsListed, TokenInv, CommandInv, WalkInv,
                ChangeInv, EndedInv

\* The command returns.
LEMMA ReturnKeeps ==
  ASSUME IInv, Return
  PROVE  IInv'
  <1> USE DEF IInv, Return, ioVars, cmdVars, Idle, Serving, Ended
  <1>1. Listed' = Listed /\ Todo' = Todo
    BY DEF Listed, Todo
  <1> QED
    BY <1>1 DEF TypeOK, ServedOnce, ServedIsListed, TokenInv, CommandInv, WalkInv,
                ChangeInv, EndedInv

\* Every step of the server keeps the invariant.
LEMMA NextKeeps == IInv /\ [Next]_vars => IInv'
  <1> SUFFICES ASSUME IInv, [Next]_vars PROVE IInv'
    OBVIOUS
  <1>1. CASE Loop
    BY <1>1, SelectKeeps, AcceptFailsKeeps, CheckKeeps, CreateKeeps, AppendClientKeeps, AcceptKeeps
       DEF Loop
  <1>2. CASE Command
    BY <1>2, StopSendKeeps, StopReceiveKeeps, CountKeeps, StopClientLockKeeps,
       ClientStopCloseKeeps, ClientStopWaitKeeps, StopClientUnlockKeeps, ChangeKeeps, ReturnKeeps
       DEF Command
  <1>3. CASE \E c \in Conn : Connect(c) \/ PeerCloses(c) \/ Serve(c)
    BY <1>3, ConnectKeeps, PeerClosesKeeps, ReadContextKeeps, ReplyKeeps, DisconnectKeeps,
       RemoveClientKeeps DEF Serve
  <1>4. CASE \E k \in {"count", "change", "stop"} : HandleCmd(k)
    BY <1>4, HandleCmdKeeps
  <1>5. CASE UNCHANGED vars
    BY <1>5 DEF vars, IInv, TypeOK, ServedOnce, ServedIsListed, TokenInv, CommandInv, WalkInv,
                ChangeInv, EndedInv, Idle, Serving, Ended, Listed, Todo
  <1> QED
    BY <1>1, <1>2, <1>3, <1>4, <1>5 DEF Next

\* The invariant holds in every state of the server.
LEMMA Invariant == Spec => []IInv
  BY InitInv, NextKeeps, PTL DEF Spec

-----------------------------------------------------------------------------
(* What it gives *)

\* A client that may still handle a request is where stopClient finds it, or is about
\* to be appended (server.go:125-133, 149-158).
THEOREM ServedClientsAreListed == Spec => []ServedIsListed
  <1>1. IInv => ServedIsListed
    BY DEF IInv
  <1> QED
    BY <1>1, Invariant, PTL

\* While a command changes the engines at most one client is served: the one that
\* ioloop accepted before duringReconfig was set (server.go:125-130).
THEOREM OneIntruderAtMost == Spec => []AtMostOneIntruder
  <1>1. ASSUME IInv, cmd.pc = "change"
        PROVE  Cardinality(Serving) <= 1
    <2>1. Serving = {} \/ \E x : Serving \subseteq {x}
      BY <1>1 DEF IInv, ChangeInv
    <2>2. Serving = {} \/ \E x : Serving = {x}
      BY <2>1
    <2>3. CASE Serving = {}
      BY <2>3, FS_EmptySet
    <2>4. ASSUME NEW x, Serving = {x} PROVE Cardinality(Serving) <= 1
      <3>1. Cardinality(Serving) = 1
        BY <2>4, FS_Singleton, Zenon
      <3> QED
        BY <3>1
    <2> QED
      BY <2>2, <2>3, <2>4
  <1> QED
    BY <1>1, Invariant, PTL DEF AtMostOneIntruder

\* Nobody is served once a stop has returned, whatever commands follow
\* (server.go:141-147).
THEOREM StopServesNobody == Spec => []NobodyServedAfterStop
  <1>1. IInv => NobodyServedAfterStop
    BY DEF IInv, EndedInv, NobodyServedAfterStop, Idle
  <1> QED
    BY <1>1, Invariant, PTL

\* Commands change the engines alone, but for one client that ioloop let in before.
THEOREM ServingIsSound == Spec => []ServingSound
  <1>1. ServedIsListed /\ AtMostOneIntruder /\ NobodyServedAfterStop => ServingSound
    BY DEF ServingSound
  <1> QED
    BY <1>1, ServedClientsAreListed, OneIntruderAtMost, StopServesNobody, PTL
=============================================================================
