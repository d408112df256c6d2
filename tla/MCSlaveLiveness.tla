--------------------------- MODULE MCSlaveLiveness ----------------------------
(* The threads of the slave in instances that are small enough for liveness, a  *)
(* part at a time: the RPC engine, the conflict check or the control server.    *)
(* The part is chosen at first; the others stay as they were started.           *)
EXTENDS RpcAllocateEngine

CONSTANTS c1, c2, k1, k2, s1, Unparsable

VARIABLES which,
          at, packId, packSeq, records, answers, timers, timerPc, callbacks, sleepTime,
          recvPc, pingStop, unregistered, lostWakeup,
          session, server_stop, task, ctrlPc, stop_flag, pipe, recv, send, worker, inq, outq,
          rpcUp, pending, told, conf, parts, engine, inits, received, cmds

pingVars == <<at, packId, packSeq, records, answers, timers, timerPc, callbacks, sleepTime,
              recvPc, pingStop, unregistered, lostWakeup>>
ctrlVars == <<session, server_stop, task, ctrlPc, stop_flag, pipe, recv, send, worker, inq,
              outq, rpcUp, pending, told, conf, parts, engine, inits, received, cmds>>
allVars == <<which, vars, pingVars, ctrlVars>>

\* Two pings with packet ids of their own and a queue for one timer.
Ping == INSTANCE Pinger WITH
  Ctx <- {c1, c2}, InUse <- {c1}, Randoms <- {0}, MaxSeq <- 2, maxSize <- 1,
  TimeOut <- 2, Delay <- 1, stopPc <- pingStop, orphans <- unregistered

\* One worker, one command and six packets.
OneWorker == [workers |-> 1, options |-> "o1", hooks |-> "h1", throws |-> None]
Ctrl == INSTANCE CtrlServer WITH
  Session <- {s1}, Conf <- {OneWorker}, FirstConf <- OneWorker, QueueSize <- 2,
  MaxPkts <- 6, MaxCmds <- 1, pc <- ctrlPc
ASSUME Ping!PingerAssumption /\ Ctrl!CtrlServerAssumption

MCInit ==
  /\ which \in {"rpc", "ping", "ctrl"}
  /\ Init /\ (which # "rpc" => connStop = [k \in Conn |-> FALSE])
  /\ Ping!Init /\ (which # "ping" => packSeq = 0)
  /\ Ctrl!Init

MCNext ==
  /\ UNCHANGED which
  /\ \/ which = "rpc" /\ Next /\ UNCHANGED <<pingVars, ctrlVars>>
     \/ which = "ping" /\ Ping!Next /\ UNCHANGED <<vars, ctrlVars>>
     \/ which = "ctrl" /\ Ctrl!Next /\ UNCHANGED <<vars, pingVars>>

\* The steps for which the specifications of the parts assume weak fairness, each with
\* a number.
RpcStep(i) ==
  CASE i = 1 -> Built(k1) [] i = 2 -> IoThread(k1) [] i = 3 -> handle(k1)
    [] i = 4 -> Close(k1) [] i = 5 -> Built(k2) [] i = 6 -> IoThread(k2)
    [] i = 7 -> handle(k2) [] i = 8 -> Close(k2) [] OTHER -> Stopping
PingStep(i) ==
  CASE i = 1 -> Ping!addPingTarget(c1) [] i = 2 -> Ping!addPingTarget(c2)
    [] i = 3 -> Ping!sendPacket(c1) [] i = 4 -> Ping!sendPacket(c2)
    [] i = 5 -> Ping!TimerThread [] i = 6 -> Ping!Tick [] OTHER -> Ping!Stopping
CtrlStep(i) ==
  CASE i = 1 -> Ctrl!receive4 [] i = 2 -> Ctrl!RecvTest [] i = 3 -> Ctrl!RecvPut
    [] i = 4 -> Ctrl!SendRead [] i = 5 -> Ctrl!SendDone [] i = 6 -> Ctrl!EngineDone
    [] i = 7 -> 1 \in DOMAIN worker /\ Ctrl!Thread(1) [] OTHER -> Ctrl!MainStep

FairStep(i) ==
  \/ which = "rpc" /\ RpcStep(i) /\ UNCHANGED <<which, pingVars, ctrlVars>>
  \/ which = "ping" /\ PingStep(i) /\ UNCHANGED <<which, vars, ctrlVars>>
  \/ which = "ctrl" /\ Ctrl!Alive(CtrlStep(i)) /\ UNCHANGED <<which, vars, pingVars>>

MCSpec == MCInit /\ [][MCNext]_allVars /\ \A i \in 1..9 : WF_allVars(FairStep(i))
-----------------------------------------------------------------------------

\* The conflict check implements AsyncCall: a context comes back once or is lost, and a
\* conflict is only reported for an address that some host answers for, however late or
\* often its echo replies arrive, as long as packet ids differ (ping.cpp:35-45, 63-102).
PingImplementsCall ==
  Ping!ImplementsCall /\ [](which = "ping" => Ping!NoFalseConflict)

\* What is asked ends: a request to the master, a ping, but for one whose timer fired
\* before it was registered, a timer's wait for room and a receiver's
\* (rpc_allocate_engine.cpp:79, ping.cpp:73, timer_queue.cpp:32, ctrl_server.cpp:92).
RequestsEnd ==
  /\ RequestEnds
  /\ Ping!AnsweredUnlessOrphaned /\ Ping!QueueDrains
  /\ Ctrl!ReceiverGoesOn

\* Every stop returns, but for the races that are named: two drains that wait for what
\* others took, and a timer thread that misses the end
\* (rpc_allocate_engine.cpp:38, ctrl_server_init.h:288-294, timer_queue.cpp:18).
StopsEnd == StopEnds /\ Ping!StopEnds /\ Ctrl!StopEndsUnlessDrainLost
=============================================================================
