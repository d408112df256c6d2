----------------------------- MODULE CtrlServer -----------------------------
(***************************************************************************)
(* The life of the slave process (slave/server/ctrl_server.cpp, ctrl_      *)
(* server_init.h, bin/kea_slave.cpp) under the commands of its command     *)
(* server (slave/controller/).  One thread receives packets into in_queue, *)
(* the workers take them from there, the replies go through out_queue to   *)
(* one sending thread.  The main thread runs the command server, whose     *)
(* sessions are served one handler at a time: "stop" ends the threads,     *)
(* "reconfig" does that and starts them again with the file on disk, or    *)
(* with the old configuration if that fails.                               *)
(*                                                                         *)
(* Packets are alike.  A packet a worker gave to the RPC engine is counted *)
(* in pending until its reply is queued (RpcAllocateEngine and Pinger are  *)
(* modules of their own).  Nil is the null pointer that ends a reader.     *)
(***************************************************************************)
EXTENDS Integers, Sequences, FiniteSets

CONSTANTS Session,          \* connections of the command server
          Conf,             \* configurations that parse
          FirstConf,        \* the one the process is started with
          Unparsable,       \* a file JsonConf::parseFile rejects
          None,
          QueueSize,        \* DEFAULT_QUEUE_SIZE
          MaxPkts,          \* bound on packets received
          MaxCmds           \* bound on commands

\* A configuration names its number of workers, its definition of a custom
\* option and its hook libraries (None: it has no such key), and the first part
\* of run() that throws on it (None: none does).
Parts == <<"options", "hooks", "classes", "subnets", "rpc">>
PartNames == {Parts[i] : i \in DOMAIN Parts}

ASSUME CtrlServerAssumption ==
  /\ FirstConf \in Conf
  /\ \A c \in Conf : /\ c.workers \in Nat \ {0}
                     /\ c.throws \in PartNames \cup {None}
  /\ None \notin PartNames
  /\ FirstConf.throws = None
  /\ Unparsable \notin Conf
  /\ QueueSize \in Nat /\ QueueSize > 1
  /\ MaxPkts \in Nat /\ MaxCmds \in Nat

Pkt == <<"pkt">>
Nil == <<"nil">>

VARIABLES
  session,      \* per connection: closed, open (a read is under way) or writing
  server_stop,  \* server_stop_ of the sessions
  task,         \* what the main thread does for whom
  pc,           \* where stop() is; idle, exited, or undefined after a use of freed memory
  stop_flag,    \* stop_flag_
  pipe,         \* whether the stop pipe is readable
  recv, send, worker,   \* the threads: what each does, or ended
  inq, outq,    \* in_queue_, out_queue_
  rpcUp,        \* whether the RPC engine and the pinger run
  pending,      \* packets they hold
  told,         \* how many workers' contexts were told to stop
  conf,         \* conf_
  parts,        \* what run() set up last, per part; the hooks loaded
  engine,       \* SingletonRpcAllocateEngine: none, live or freed
  inits,        \* how often it was set: one atexit handler each
  received, cmds

threads == <<recv, send, worker, inq, outq, pending, received>>
set == <<conf, parts, engine, inits>>
vars == <<session, server_stop, task, pc, stop_flag, pipe, rpcUp, told, cmds, threads, set>>

MaxWorkers == CHOOSE n \in {c.workers : c \in Conf} : \A c \in Conf : c.workers <= n
Size == conf.workers * QueueSize
Idle == [kind |-> None, session |-> None, file |-> None]

(***************************************************************************)
(* run(): every part in turn, then queues and threads.                     *)
(***************************************************************************)
\* Whether run() gets to part p of configuration c without a throw before it.
Reaches(c, p) ==
  \A i, j \in 1..Len(Parts) : Parts[i] = c.throws /\ Parts[j] = p => j <= i

PartsAfterSubnetsKept(p, c) ==
  [options |-> c.options, hooks |-> c.hooks, classes |-> c, ping |-> c, rpc |-> c,
   subnets |-> IF p.subnets = None THEN c ELSE p.subnets]

\* What a run() with c leaves of the parts.  A definition of an option that
\* exists stays, a configuration without hooks leaves the loaded ones alone,
\* classes are cleared before they are read, the engine before it is built.
PartsAfter(p, c) ==
  LET Done(q) == Reaches(c, q) /\ c.throws # q
      New(q)  == IF Done(q) THEN c ELSE IF Reaches(c, q) THEN None ELSE p[q]
  IN [options |-> IF Done("options") /\ p.options = None THEN c.options ELSE p.options,
      hooks   |-> IF Done("hooks") /\ c.hooks # None THEN c.hooks ELSE p.hooks,
      classes |-> New("classes"),
      subnets |-> IF Done("subnets") THEN c ELSE p.subnets,
      ping    |-> IF Reaches(c, "rpc") THEN c ELSE p.ping,
      rpc     |-> New("rpc")]

\* RpcAllocateEngine::init stops and deletes the engine it finds, then builds
\* the new one; the address of the master may not resolve.
EngineAfter(e, c) ==
  CASE ~Reaches(c, "rpc") -> e
    [] Reaches(c, "rpc") /\ c.throws = "rpc" -> IF e = "none" THEN "none" ELSE "freed"
    [] OTHER -> "live"

NoParts == [options |-> None, hooks |-> None, classes |-> None, subnets |-> None,
            ping |-> None, rpc |-> None]

Init ==
  /\ session = [s \in Session |-> "closed"]
  /\ server_stop = [s \in Session |-> FALSE]
  /\ task = Idle /\ pc = "idle"
  /\ stop_flag = FALSE /\ pipe = FALSE
  /\ recv = "select" /\ send = "read" /\ worker = [w \in 1..FirstConf.workers |-> "read"]
  /\ inq = <<>> /\ outq = <<>>
  /\ rpcUp = TRUE /\ pending = 0 /\ told = 0
  /\ conf = FirstConf
  /\ parts = PartsAfter(NoParts, FirstConf)
  /\ engine = "live" /\ inits = 1
  /\ received = 0 /\ cmds = 0

(***************************************************************************)
(* The threads between the queues.                                         *)
(***************************************************************************)
Control == <<session, server_stop, task, pc, stop_flag, pipe, rpcUp, told, cmds, set>>

\* receive4 returns a packet, or nothing when it times out or finds the pipe
\* readable; the pipe goes before the sockets and nobody reads it.
receive4 ==
  /\ recv = "select"
  /\ \/ recv' = "nothing" /\ UNCHANGED received
     \/ ~pipe /\ received < MaxPkts /\ recv' = "packet" /\ received' = received + 1
  /\ UNCHANGED <<send, worker, inq, outq, pending, Control>>

\* The receiver looks at the flag between receive4 and its write.
RecvTest ==
  /\ recv \in {"packet", "nothing"}
  /\ recv' = IF stop_flag THEN "ended" ELSE IF recv = "packet" THEN "put" ELSE "select"
  /\ UNCHANGED <<send, worker, inq, outq, pending, received, Control>>

RecvPut ==
  /\ recv = "put" /\ Len(inq) < Size
  /\ inq' = Append(inq, Pkt) /\ recv' = "select"
  /\ UNCHANGED <<send, worker, outq, pending, received, Control>>

\* Dhcpv4SrvContext::run
WorkerRead(w) ==
  /\ worker[w] = "read" /\ inq # <<>>
  /\ worker' = [worker EXCEPT ![w] = IF Head(inq) = Nil THEN "ended" ELSE "busy"]
  /\ inq' = Tail(inq)
  /\ UNCHANGED <<recv, send, outq, pending, received, Control>>

\* processPacket drops the packet, hands it to the RPC engine, whose queue
\* takes it even after its stop, or answers an inform itself.
WorkerDone(w) ==
  /\ worker[w] = "busy"
  /\ \/ worker' = [worker EXCEPT ![w] = "read"] /\ UNCHANGED pending
     \/ worker' = [worker EXCEPT ![w] = "read"] /\ rpcUp /\ pending' = pending + 1
     \/ worker' = [worker EXCEPT ![w] = "reply"] /\ UNCHANGED pending
  /\ UNCHANGED <<recv, send, inq, outq, received, Control>>

WorkerReply(w) ==
  /\ worker[w] = "reply" /\ Len(outq) < Size
  /\ outq' = Append(outq, Pkt) /\ worker' = [worker EXCEPT ![w] = "read"]
  /\ UNCHANGED <<recv, send, inq, pending, received, Control>>

\* A thread of the RPC engine or of the pinger answers, or drops, a query.
EngineDone ==
  /\ rpcUp /\ pending > 0
  /\ pending' = pending - 1
  /\ \/ Len(outq) < Size /\ outq' = Append(outq, Pkt)
     \/ UNCHANGED outq
  /\ UNCHANGED <<recv, send, worker, inq, received, Control>>

SendRead ==
  /\ send = "read" /\ outq # <<>>
  /\ send' = IF Head(outq) = Nil THEN "ended" ELSE "send"
  /\ outq' = Tail(outq)
  /\ UNCHANGED <<recv, worker, inq, pending, received, Control>>

\* IfaceMgr::send; a write error is caught and logged.
SendDone ==
  /\ send = "send" /\ send' = "read"
  /\ UNCHANGED <<recv, worker, inq, outq, pending, received, Control>>

Thread(w) == WorkerRead(w) \/ WorkerDone(w) \/ WorkerReply(w)
Threads ==
  \/ receive4 \/ RecvTest \/ RecvPut \/ SendRead \/ SendDone \/ EngineDone
  \/ \E w \in DOMAIN worker : Thread(w)

(***************************************************************************)
(* stop(), on the main thread.                                             *)
(***************************************************************************)
Goto(l) == pc' = l /\ UNCHANGED <<session, server_stop, task, cmds, set>>
Others == <<stop_flag, pipe, rpcUp, told>>

stopPipe ==
  /\ pc = "pipe" /\ pipe' = TRUE /\ Goto("flag")
  /\ UNCHANGED <<stop_flag, rpcUp, told, threads>>

stopFlag ==
  /\ pc = "flag" /\ stop_flag' = TRUE /\ Goto("drainIn")
  /\ UNCHANGED <<pipe, rpcUp, told, threads>>

\* drainQueue tests isEmpty and then reads, while the workers read too.
drainInSkipped ==
  /\ pc = "drainIn" /\ Goto("joinRecv")
  /\ UNCHANGED <<Others, threads>>

drainInTest ==
  /\ pc = "drainIn" /\ Goto(IF inq = <<>> THEN "joinRecv" ELSE "readIn")
  /\ UNCHANGED <<Others, threads>>

drainInRead ==
  /\ pc = "readIn" /\ inq # <<>> /\ inq' = Tail(inq) /\ Goto("drainIn")
  /\ UNCHANGED <<recv, send, worker, outq, pending, received, Others>>

joinRecv ==
  /\ pc = "joinRecv" /\ recv = "ended" /\ Goto("stopRpc")
  /\ UNCHANGED <<Others, threads>>

\* RpcAllocateEngine::stop and Pinger::stop; what they hold is dropped.
stopRpcDeleting ==
  /\ pc = "stopRpc" /\ rpcUp' = FALSE /\ pending' = 0
  /\ pc' = "tell" /\ engine' = "freed"
  /\ UNCHANGED <<stop_flag, pipe, told, recv, send, worker, inq, outq, received,
                 session, server_stop, task, cmds, conf, parts, inits>>

stopRpc ==
  /\ pc = "stopRpc" /\ rpcUp' = FALSE /\ pending' = 0 /\ Goto("tell")
  /\ UNCHANGED <<stop_flag, pipe, told, recv, send, worker, inq, outq, received>>

\* Dhcpv4SrvContext::stop of every worker: a write that fails on a full queue.
tellWorkers ==
  /\ pc = "tell"
  /\ IF told < conf.workers
       THEN /\ inq' = (IF Len(inq) < Size THEN Append(inq, Nil) ELSE inq)
            /\ told' = told + 1 /\ Goto("tell")
       ELSE /\ told' = 0 /\ Goto("drainOut") /\ UNCHANGED inq
  /\ UNCHANGED <<stop_flag, pipe, rpcUp, recv, send, worker, outq, pending, received>>

drainOutTest ==
  /\ pc = "drainOut" /\ Goto(IF outq = <<>> THEN "tellSender" ELSE "readOut")
  /\ UNCHANGED <<Others, threads>>

drainOutRead ==
  /\ pc = "readOut" /\ outq # <<>> /\ outq' = Tail(outq) /\ Goto("drainOut")
  /\ UNCHANGED <<recv, send, worker, inq, pending, received, Others>>

tellSender ==
  /\ pc = "tellSender" /\ Len(outq) < Size /\ outq' = Append(outq, Nil) /\ Goto("joinSender")
  /\ UNCHANGED <<recv, send, worker, inq, pending, received, Others>>

joinSender ==
  /\ pc = "joinSender" /\ send = "ended" /\ Goto("joinWorkers")
  /\ UNCHANGED <<Others, threads>>

joinWorkers ==
  /\ pc = "joinWorkers" /\ (\A w \in DOMAIN worker : worker[w] = "ended") /\ Goto("stopped")
  /\ pipe' = FALSE
  /\ UNCHANGED <<stop_flag, rpcUp, told, threads>>

StopStep ==
  \/ stopPipe \/ stopFlag \/ drainInTest \/ drainInRead \/ joinRecv \/ stopRpc \/ tellWorkers
  \/ drainOutTest \/ drainOutRead \/ tellSender \/ joinSender \/ joinWorkers

(***************************************************************************)
(* The sessions of the command server and what follows a stop().           *)
(***************************************************************************)
\* stop() returns at once when the flag is set.
CallStop(t) ==
  /\ task' = t /\ pc' = (IF stop_flag THEN "stopped" ELSE "pipe")
  /\ UNCHANGED <<Others, threads, set>>

Connect(s) ==
  /\ pc = "idle" /\ session[s] = "closed"
  /\ session' = [session EXCEPT ![s] = "open"] /\ server_stop' = [server_stop EXCEPT ![s] = FALSE]
  /\ UNCHANGED <<task, pc, cmds, Others, threads, set>>

\* A read fails, or a length is out of bounds.
Disconnect(s) ==
  /\ pc = "idle" /\ session[s] = "open"
  /\ session' = [session EXCEPT ![s] = "closed"]
  /\ UNCHANGED <<server_stop, task, pc, cmds, Others, threads, set>>

\* processCmd of a message without a name, of an unknown command or of a query
\* for the statistics: the first has an empty result, which is not written.
Query(s) ==
  /\ pc = "idle" /\ session[s] = "open" /\ cmds < MaxCmds
  /\ cmds' = cmds + 1
  /\ \E r \in {"closed", "writing"} : session' = [session EXCEPT ![s] = r]
  /\ UNCHANGED <<server_stop, task, pc, Others, threads, set>>

Command(s, kind) ==
  /\ pc = "idle" /\ session[s] = "open" /\ cmds < MaxCmds
  /\ cmds' = cmds + 1
  /\ server_stop' = [server_stop EXCEPT ![s] = (kind = "stop")]
  /\ CallStop([kind |-> kind, session |-> s, file |-> None])
  /\ UNCHANGED session

Answered(s) == session' = [session EXCEPT ![s] = "writing"]

StopDone ==
  /\ pc = "stopped" /\ task.kind = "stop"
  /\ Answered(task.session) /\ task' = Idle /\ pc' = "idle"
  /\ UNCHANGED <<server_stop, cmds, Others, threads, set>>

\* createWorkers and runWorkers.
StartThreads(c) ==
  /\ stop_flag' = FALSE /\ pipe' = FALSE /\ rpcUp' = TRUE
  /\ recv' = "select" /\ send' = "read" /\ worker' = [w \in 1..c.workers |-> "read"]
  /\ inq' = <<>> /\ outq' = <<>> /\ pending' = 0
  /\ UNCHANGED <<told, received>>

\* reconfigCmd after its stop(), with file f: a run() with f and, when reading
\* f or that run() throws, a run() with the old configuration.
Reconfigured(f) ==
  LET ok  == f # Unparsable /\ f.throws = None
      p1  == IF f = Unparsable THEN parts ELSE PartsAfter(parts, f)
      e1  == IF f = Unparsable THEN engine ELSE EngineAfter(engine, f)
      new == IF ok THEN f ELSE conf
  IN /\ pc = "stopped" /\ task.kind = "reconfig"
     /\ parts' = (IF ok THEN p1 ELSE PartsAfter(p1, conf))
     /\ engine' = (IF ok THEN e1 ELSE EngineAfter(e1, conf))
     /\ conf' = new /\ inits' = inits + 1
     /\ StartThreads(new)
     /\ IF engine = "freed" \/ (~ok /\ e1 = "freed")
          THEN pc' = "undefined" /\ task' = [task EXCEPT !.file = f] /\ UNCHANGED session
          ELSE pc' = "idle" /\ task' = Idle /\ Answered(task.session)
     /\ UNCHANGED <<server_stop, cmds>>

\* The result is written, or not.  After that of a stop the command server
\* stops, main() returns and the destructor calls stop() again.
Written(s) ==
  /\ pc = "idle" /\ session[s] = "writing"
  /\ IF server_stop[s]
       THEN session' = [x \in Session |-> "closed"] /\ CallStop([kind |-> "exit", session |-> None, file |-> None])
       ELSE /\ session' = [session EXCEPT ![s] = "open"]
            /\ UNCHANGED <<task, pc, Others, threads, set>>
  /\ UNCHANGED <<server_stop, cmds>>

WriteFailed(s) ==
  /\ pc = "idle" /\ session[s] = "writing"
  /\ session' = [session EXCEPT ![s] = "closed"]
  /\ UNCHANGED <<server_stop, task, pc, cmds, Others, threads, set>>

\* Every handler of atexit stops and deletes the engine the pointer names.
Exit ==
  /\ pc = "stopped" /\ task.kind = "exit"
  /\ pc' = (IF inits > 1 \/ engine = "freed" THEN "undefined" ELSE "exited")
  /\ engine' = "freed"
  /\ UNCHANGED <<session, server_stop, task, cmds, conf, parts, inits, Others, threads>>

Commands ==
  \/ \E s \in Session : \/ Connect(s) \/ Disconnect(s) \/ Query(s) \/ Written(s) \/ WriteFailed(s)
                        \/ \E k \in {"stop", "reconfig"} : Command(s, k)
  \/ StopDone \/ Exit
  \/ \E f \in Conf \cup {Unparsable} : Reconfigured(f)

Ended == pc \in {"exited", "undefined"}
Next == ~Ended /\ (Threads \/ StopStep \/ Commands)

Spec == Init /\ [][Next]_vars

(***************************************************************************)
(* Safety.                                                                 *)
(***************************************************************************)
StopPcs == {"pipe", "flag", "drainIn", "readIn", "joinRecv", "stopRpc", "tell", "drainOut",
            "readOut", "tellSender", "joinSender", "joinWorkers"}

\* The queues keep to their size, and the null pointers go one to each worker
\* and one to the sender.
TypeOK ==
  /\ session \in [Session -> {"closed", "open", "writing"}]
  /\ server_stop \in [Session -> BOOLEAN]
  /\ task.kind \in {None, "stop", "reconfig", "exit"}
  /\ pc \in StopPcs \cup {"idle", "stopped", "exited", "undefined"}
  /\ stop_flag \in BOOLEAN /\ pipe \in BOOLEAN /\ rpcUp \in BOOLEAN
  /\ recv \in {"select", "packet", "nothing", "put", "ended"}
  /\ send \in {"read", "send", "ended"}
  /\ worker \in [1..conf.workers -> {"read", "busy", "reply", "ended"}]
  /\ inq \in Seq({Pkt, Nil}) /\ Len(inq) <= Size
  /\ outq \in Seq({Pkt, Nil}) /\ Len(outq) <= Size
  /\ pending \in 0..received /\ received \in 0..MaxPkts /\ cmds \in 0..MaxCmds
  /\ told \in 0..conf.workers
  /\ conf \in Conf /\ conf.throws = None
  /\ engine \in {"none", "live", "freed"} /\ inits \in 1..(MaxCmds + 1)

\* When a stop() is over no thread is left that could touch the queues, the
\* subnets or the engine that run() replaces next (ctrl_server.cpp:100-127).
NoThreadSurvivesStop ==
  pc = "stopped" => /\ recv = "ended" /\ send = "ended" /\ ~rpcUp /\ pending = 0
                    /\ \A w \in DOMAIN worker : worker[w] = "ended"

\* Dhcpv4SrvContext::stop does not wait for room in the queue
\* (ctrl_server.cpp:26).  There is room all the same: when stop() joins the
\* workers, every one of them that still runs has its null pointer.
EveryWorkerTold ==
  pc = "joinWorkers" =>
    Cardinality({i \in DOMAIN inq : inq[i] = Nil})
      >= Cardinality({w \in DOMAIN worker : worker[w] # "ended"})

\* A server that runs runs one configuration, after a failed reconfig the old
\* one (ctrl_server.cpp:160-176).  Two parts may be left from an earlier one:
\* hooks, when the present one has none, and the definition of an option that
\* an earlier one defined too.
RunsOneConf ==
  pc = "idle" /\ ~stop_flag =>
    /\ \A q \in {"classes", "subnets", "ping", "rpc"} : parts[q] = conf
    /\ conf.hooks # None => parts.hooks = conf.hooks
    /\ conf.options # None => parts.options # None
    /\ inits = 1 => parts.options = conf.options /\ parts.hooks = conf.hooks

\* No step uses a freed engine, but for two: the run() that follows a
\* configuration whose master does not resolve finds the pointer to the deleted
\* engine (rpc_allocate_engine.cpp:54-58), and after a reconfig every init()
\* has left an exit handler that deletes it (rpc_allocate_engine.cpp:59).
EngineUsedWhileAlive ==
  pc = "undefined" =>
    \/ task.kind = "reconfig" /\ task.file # Unparsable /\ task.file.throws = "rpc"
    \/ task.kind = "exit" /\ inits > 1

(***************************************************************************)
(* Liveness: the threads run, every step of the main thread is taken, and  *)
(* the command server comes to a reply once it is there to be written.     *)
(***************************************************************************)
MainStep == StopStep \/ StopDone \/ Exit \/ \E f \in Conf \cup {Unparsable} : Reconfigured(f)

\* A process that has ended does nothing.
Alive(action) == ~Ended /\ action

Fairness ==
  /\ WF_vars(Alive(receive4)) /\ WF_vars(Alive(RecvTest)) /\ WF_vars(Alive(RecvPut))
  /\ WF_vars(Alive(SendRead)) /\ WF_vars(Alive(SendDone)) /\ WF_vars(Alive(EngineDone))
  /\ \A w \in 1..MaxWorkers : WF_vars(Alive(w \in DOMAIN worker /\ Thread(w)))
  /\ WF_vars(Alive(MainStep))

FairSpec == Spec /\ Fairness

\* The main thread reads from a queue that others emptied after its test.
StuckIn == pc = "readIn" /\ inq = <<>>
StuckOut == pc = "readOut" /\ outq = <<>>

\* A stop() that never ends is stuck for good in one of the two reads of
\* drainQueue (ctrl_server_init.h:288-294), because another reader took the
\* last packet between the test and the read; nothing else holds it up.
StopEndsUnlessDrainLost == <>[](pc \in StopPcs) => <>[]StuckIn \/ <>[]StuckOut

\* The receiver is not held up for good by a full queue: workers, engine and
\* sender never wait for each other, nor for a stop() (ctrl_server.cpp:92).
ReceiverGoesOn == (recv = "put") ~> (recv # "put" \/ Ended)

\* A stop() tells every thread and leaves none (ctrl_server.cpp:26, 100-127).
StopSound == TypeOK /\ NoThreadSurvivesStop /\ EveryWorkerTold
=============================================================================
