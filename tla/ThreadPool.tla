----------------------------- MODULE ThreadPool -----------------------------
(***************************************************************************)
(* The thread pool of the slave (slave/util/thread_pool.cpp): run() puts a *)
(* task into runq_ and starts a thread when fewer threads are free than    *)
(* tasks wait.  The first max_cached_threads_ threads stay, later ones end *)
(* after one task.  What a task does is not modelled: it may block for     *)
(* ever, so no fairness makes it return.                                   *)
(*                                                                         *)
(* Threads are told apart only by their place and by the flag "cache";     *)
(* `threads' counts them: one that holds no lock yet is at "begin", one in *)
(* wait() at "wait" until a notification moves it to "woken".              *)
(***************************************************************************)
EXTENDS Integers, Sequences, FiniteSets

CONSTANTS Task,               \* tasks, each submitted at most once
          MaxCached,          \* max_cached_threads_
          MaxFailures         \* bound on threads that cannot be created

ASSUME MaxCachedAssumption == MaxCached \in Nat
ASSUME MaxFailuresAssumption == MaxFailures \in Nat

Cache == {"stay", "once"}     \* the flag "cache" of a thread
Place == {"begin", "wait", "woken", "run", "leave"}

VARIABLES
  runq,        \* runq_
  threads,     \* threads[p][c]: how many threads with cache = c are at place p
  numThreads,  \* num_threads_
  freeThreads, \* free_threads_
  owed,        \* calls of run() that have unlocked and not yet notified
  failed,      \* threads that std::thread could not create
  submitted, started

vars == <<runq, threads, numThreads, freeThreads, owed, failed, submitted, started>>

Init ==
  /\ runq = <<>> /\ threads = [p \in Place |-> [c \in Cache |-> 0]]
  /\ numThreads = 0 /\ freeThreads = 0 /\ owed = 0 /\ failed = 0
  /\ submitted = {} /\ started = {}

Count(f, p) == f[p]["stay"] + f[p]["once"]
At(p) == Count(threads, p)

\* A thread with flag c goes from p to q.
Goes(c, p, q) ==
  /\ threads[p][c] > 0
  /\ threads' = [threads EXCEPT ![p][c] = @ - 1, ![q][c] = @ + 1]

CacheFlag(n) == IF n <= MaxCached THEN "stay" ELSE "once"

startThread ==
  /\ numThreads' = numThreads + 1
  /\ threads' = [threads EXCEPT !["begin"][CacheFlag(numThreads + 1)] = @ + 1]

\* startThread when the constructor of std::thread throws out of run(): the
\* task stays in runq_, the thread stays counted and nobody is notified.
startThreadFails ==
  /\ failed < MaxFailures
  /\ numThreads' = numThreads + 1 /\ failed' = failed + 1
  /\ UNCHANGED <<threads, owed>>

runLooksAtEmpty(t) ==
  /\ t \notin submitted
  /\ submitted' = submitted \cup {t}
  /\ runq' = Append(runq, t)
  /\ IF freeThreads = 0
       THEN \/ startThread /\ owed' = owed + 1 /\ UNCHANGED failed
            \/ startThreadFails
       ELSE owed' = owed + 1 /\ UNCHANGED <<threads, numThreads, failed>>
  /\ UNCHANGED <<freeThreads, started>>

run(t) ==
  /\ t \notin submitted
  /\ submitted' = submitted \cup {t}
  /\ runq' = Append(runq, t)
  /\ IF Len(runq) + 1 > freeThreads
       THEN \/ startThread /\ owed' = owed + 1 /\ UNCHANGED failed
            \/ startThreadFails
       ELSE owed' = owed + 1 /\ UNCHANGED <<threads, numThreads, failed>>
  /\ UNCHANGED <<freeThreads, started>>

\* wakeup_.notify_one(), outside the lock
Notify ==
  /\ owed > 0 /\ owed' = owed - 1
  /\ IF At("wait") = 0 THEN UNCHANGED threads ELSE \E c \in Cache : Goes(c, "wait", "woken")
  /\ UNCHANGED <<runq, numThreads, freeThreads, failed, submitted, started>>

SpuriousWakeup ==
  /\ \E c \in Cache : Goes(c, "wait", "woken")
  /\ UNCHANGED <<runq, numThreads, freeThreads, owed, failed, submitted, started>>

\* The thread holds the lock and runq_ is empty: it waits.
Wait(c, p) ==
  /\ runq = <<>>
  /\ Goes(c, p, "wait")
  /\ freeThreads' = IF p = "begin" THEN freeThreads + 1 ELSE freeThreads
  /\ UNCHANGED <<runq, numThreads, owed, failed, submitted, started>>

TakePopsFirst(c, p) ==
  /\ runq # <<>>
  /\ Goes(c, p, "run")
  /\ runq' = Tail(runq) /\ started' = started \cup (IF Len(runq) > 1 THEN {runq[2]} ELSE {})
  /\ freeThreads' = IF p = "begin" THEN freeThreads ELSE freeThreads - 1
  /\ UNCHANGED <<numThreads, owed, failed, submitted>>

\* The thread holds the lock and takes the first task.  A thread at "begin"
\* counts itself free and busy again in one go.
Take(c, p) ==
  /\ runq # <<>>
  /\ Goes(c, p, "run")
  /\ runq' = Tail(runq) /\ started' = started \cup {Head(runq)}
  /\ freeThreads' = IF p = "begin" THEN freeThreads ELSE freeThreads - 1
  /\ UNCHANGED <<numThreads, owed, failed, submitted>>

\* task() returns or throws an exception, which is swallowed.
Return(c) ==
  /\ Goes(c, "run", IF c = "stay" THEN "begin" ELSE "leave")
  /\ UNCHANGED <<runq, numThreads, freeThreads, owed, failed, submitted, started>>

Leave ==
  /\ threads["leave"]["once"] > 0
  /\ threads' = [threads EXCEPT !["leave"]["once"] = @ - 1]
  /\ numThreads' = numThreads - 1
  /\ UNCHANGED <<runq, freeThreads, owed, failed, submitted, started>>

Lock == \E c \in Cache, p \in {"begin", "woken"} : Wait(c, p) \/ Take(c, p)

Next ==
  \/ \E t \in Task : run(t)
  \/ Notify \/ SpuriousWakeup \/ Lock \/ Leave
  \/ \E c \in Cache : Return(c)

Spec == Init /\ [][Next]_vars /\ WF_vars(Notify) /\ WF_vars(Lock)

----------------------------------------------------------------------------

TypeOK ==
  /\ runq \in Seq(Task)
  /\ threads \in [Place -> [Cache -> Nat]]
  /\ numThreads \in Nat /\ freeThreads \in Nat /\ owed \in Nat /\ failed \in Nat

\* free_threads_ is the number of threads that are in wait() or on their way out
\* of it, and num_threads_ the number of threads there are and of those that
\* could not be created, whenever no thread holds runq_mutex_.
CountsRight ==
  /\ freeThreads = At("wait") + At("woken")
  /\ numThreads = At("begin") + At("wait") + At("woken") + At("run") + At("leave") + failed

\* No wakeup is lost: for every task in runq_ there is a thread that is about to
\* look at runq_, or a notification still to come and a thread waiting for it;
\* only threads that could not be created are missing (thread_pool.cpp:17-27).
EveryTaskHasThread ==
  /\ Len(runq) <= At("begin") + At("woken") + failed + owed
  /\ Len(runq) <= At("begin") + At("woken") + failed + At("wait")

\* At most max_cached_threads_ threads stay for ever, whatever the order in which
\* others come and go (thread_pool.cpp:32-35).
Cached(f) == f["begin"]["stay"] + f["wait"]["stay"] + f["woken"]["stay"]
               + f["run"]["stay"] + f["leave"]["stay"]
CachedBounded == Cached(threads) <= MaxCached /\ threads["leave"]["stay"] = 0

\* A task that is submitted is started though no task ever returns, as long as
\* threads can be created.
EveryTaskStarts == \A t \in Task : t \in submitted ~> (t \in started \/ failed > 0)

\* The counts are right, and so no task waits without a thread and no thread stays that
\* should not (thread_pool.cpp:17-64).
PoolSound == TypeOK /\ CountsRight /\ EveryTaskHasThread /\ CachedBounded
=============================================================================
