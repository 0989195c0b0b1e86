----------------------------- MODULE ThreadPool -----------------------------
(***************************************************************************)
(* The pool of ThreadPool.cpp: one owner thread ("main") that constructs   *)
(* the pool, waits for its workers, enqueues tasks and finally destroys    *)
(* it, and the workers that take tasks from the queue.                     *)
(*                                                                         *)
(* A critical section of queueMutex is one action, except where a thread   *)
(* keeps the mutex between evaluating the predicate of a condition         *)
(* variable and blocking on it: the destructor stores `stop' and notifies  *)
(* without taking the mutex, so its steps may fall in between.             *)
(*                                                                         *)
(* Tasks are numbered 1, 2, ... in the order they are enqueued.            *)
(***************************************************************************)
EXTENDS Naturals, Sequences, FiniteSets

CONSTANTS Workers,     \* the threads the constructor creates
          NoThread,    \* queueMutex is free
          NoTask,      \* a worker that runs nothing
          MaxTasks,    \* bound: tasks the owner enqueues
          MaxSpurious  \* bound: wakeups without a notification

ASSUME PoolAssumption ==
  /\ IsFiniteSet(Workers)
  /\ Workers # {}
  /\ NoThread \notin Workers \cup {"main"}
  /\ "main" \notin Workers
  /\ NoTask \notin Nat
  /\ MaxTasks \in Nat
  /\ MaxSpurious \in Nat

VARIABLES
  mainPc,        \* where the owner is
  pc,            \* where each worker is
  queueMutex,    \* the thread that holds the mutex across steps
  tasks,         \* the queue
  stop,          \* the flag the destructor sets
  readyThreads,  \* workers that have announced themselves
  running,       \* the task each worker runs
  submitted,     \* number of tasks enqueued so far
  finished,      \* history: the tasks that have returned
  spurious       \* spurious wakeups so far

vars == <<mainPc, pc, queueMutex, tasks, stop, readyThreads, running,
          submitted, finished, spurious>>

MainPcs == {"construct", "waitReady", "parkReady", "sleepReady", "idle",
            "notify", "notifyAll", "join", "done"}
WorkerPcs == {"unborn", "starting", "lock", "park", "waiting", "run", "exited"}

At(label) == {w \in Workers : pc[w] = label}

TypeOK ==
  /\ mainPc \in MainPcs
  /\ pc \in [Workers -> WorkerPcs]
  /\ queueMutex \in Workers \cup {"main", NoThread}
  /\ tasks \in Seq(Nat)
  /\ stop \in BOOLEAN
  /\ readyThreads \in Nat
  /\ running \in [Workers -> Nat \cup {NoTask}]
  /\ submitted \in Nat
  /\ finished \in SUBSET Nat
  /\ spurious \in 0..MaxSpurious

Init ==
  /\ mainPc = "construct"
  /\ pc = [w \in Workers |-> "unborn"]
  /\ queueMutex = NoThread
  /\ tasks = <<>>
  /\ stop = FALSE
  /\ readyThreads = 0
  /\ running = [w \in Workers |-> NoTask]
  /\ submitted = 0
  /\ finished = {}
  /\ spurious = 0

-----------------------------------------------------------------------------
(* The owner.                                                              *)

\* One round of the constructor's loop; the last one ends the constructor.
Spawn ==
  /\ mainPc = "construct"
  /\ \E w \in At("unborn") :
       /\ pc' = [pc EXCEPT ![w] = "starting"]
       /\ mainPc' = IF At("unborn") = {w} THEN "waitReady" ELSE mainPc
  /\ UNCHANGED <<queueMutex, tasks, stop, readyThreads, running, submitted,
                 finished, spurious>>

\* Mutant: one worker too few is waited for.
AllReadyButOne == readyThreads + 1 >= Cardinality(Workers)

AllReady == readyThreads = Cardinality(Workers)

\* waitForThreads, with the mutex: either every worker is ready, or the owner
\* is about to block on allThreadsReady and still holds the mutex.
CheckReady ==
  /\ mainPc = "waitReady"
  /\ queueMutex = NoThread
  /\ IF AllReady
       THEN mainPc' = "idle" /\ UNCHANGED queueMutex
       ELSE mainPc' = "parkReady" /\ queueMutex' = "main"
  /\ UNCHANGED <<pc, tasks, stop, readyThreads, running, submitted, finished,
                 spurious>>

SleepReady ==
  /\ mainPc = "parkReady"
  /\ mainPc' = "sleepReady"
  /\ queueMutex' = NoThread
  /\ UNCHANGED <<pc, tasks, stop, readyThreads, running, submitted, finished,
                 spurious>>

\* Mutant: enqueue forgets to notify.
EnqueueSilently ==
  /\ mainPc = "idle"
  /\ queueMutex = NoThread
  /\ submitted < MaxTasks
  /\ submitted' = submitted + 1
  /\ tasks' = Append(tasks, submitted + 1)
  /\ UNCHANGED <<mainPc, pc, queueMutex, stop, readyThreads, running, finished,
                 spurious>>

\* enqueue pushes under the mutex and notifies after releasing it.
Enqueue ==
  /\ mainPc = "idle"
  /\ queueMutex = NoThread
  /\ submitted < MaxTasks
  /\ submitted' = submitted + 1
  /\ tasks' = Append(tasks, submitted + 1)
  /\ mainPc' = "notify"
  /\ UNCHANGED <<pc, queueMutex, stop, readyThreads, running, finished,
                 spurious>>

\* condition.notify_one(): one sleeping worker, if any, is woken.
NotifyOne ==
  /\ mainPc = "notify"
  /\ mainPc' = "idle"
  /\ \/ At("waiting") = {} /\ UNCHANGED pc
     \/ \E w \in At("waiting") : pc' = [pc EXCEPT ![w] = "lock"]
  /\ UNCHANGED <<queueMutex, tasks, stop, readyThreads, running, submitted,
                 finished, spurious>>

\* The destructor sets stop without the mutex ...
SetStop ==
  /\ mainPc = "idle"
  /\ stop' = TRUE
  /\ mainPc' = "notifyAll"
  /\ UNCHANGED <<pc, queueMutex, tasks, readyThreads, running, submitted,
                 finished, spurious>>

\* ... wakes the workers that are asleep at that moment ...
NotifyAll ==
  /\ mainPc = "notifyAll"
  /\ pc' = [w \in Workers |-> IF pc[w] = "waiting" THEN "lock" ELSE pc[w]]
  /\ mainPc' = "join"
  /\ UNCHANGED <<queueMutex, tasks, stop, readyThreads, running, submitted,
                 finished, spurious>>

\* ... and joins every worker.
Join ==
  /\ mainPc = "join"
  /\ At("exited") = Workers
  /\ mainPc' = "done"
  /\ UNCHANGED <<pc, queueMutex, tasks, stop, readyThreads, running, submitted,
                 finished, spurious>>

-----------------------------------------------------------------------------
(* The workers.                                                            *)

\* The worker counts itself and notifies allThreadsReady under the mutex.
AnnounceReady(w) ==
  /\ pc[w] = "starting"
  /\ queueMutex = NoThread
  /\ readyThreads' = readyThreads + 1
  /\ mainPc' = IF mainPc = "sleepReady" THEN "waitReady" ELSE mainPc
  /\ pc' = [pc EXCEPT ![w] = "lock"]
  /\ UNCHANGED <<queueMutex, tasks, stop, running, submitted, finished,
                 spurious>>

\* The predicate of condition.wait.
MayProceed == stop \/ tasks # <<>>

\* Mutant: the front is copied but not popped.
TakeWithoutPop(w) ==
  /\ pc[w] = "lock"
  /\ queueMutex = NoThread
  /\ tasks # <<>>
  /\ running' = [running EXCEPT ![w] = Head(tasks)]
  /\ pc' = [pc EXCEPT ![w] = "run"]
  /\ UNCHANGED <<mainPc, queueMutex, tasks, stop, readyThreads, submitted,
                 finished, spurious>>

\* Mutant: the youngest task is taken.
TakeBack(w) ==
  /\ pc[w] = "lock"
  /\ queueMutex = NoThread
  /\ tasks # <<>>
  /\ running' = [running EXCEPT ![w] = tasks[Len(tasks)]]
  /\ tasks' = SubSeq(tasks, 1, Len(tasks) - 1)
  /\ pc' = [pc EXCEPT ![w] = "run"]
  /\ UNCHANGED <<mainPc, queueMutex, stop, readyThreads, submitted, finished,
                 spurious>>

\* The predicate holds and the queue is not empty: pop the front.
Take(w) ==
  /\ pc[w] = "lock"
  /\ queueMutex = NoThread
  /\ tasks # <<>>
  /\ running' = [running EXCEPT ![w] = Head(tasks)]
  /\ tasks' = Tail(tasks)
  /\ pc' = [pc EXCEPT ![w] = "run"]
  /\ UNCHANGED <<mainPc, queueMutex, stop, readyThreads, submitted, finished,
                 spurious>>

\* Mutant: a stopping worker returns whatever is queued.
ExitAtOnce(w) ==
  /\ pc[w] = "lock"
  /\ queueMutex = NoThread
  /\ stop
  /\ pc' = [pc EXCEPT ![w] = "exited"]
  /\ UNCHANGED <<mainPc, queueMutex, tasks, stop, readyThreads, running,
                 submitted, finished, spurious>>

\* The predicate holds with an empty queue: the pool is stopping.
Exit(w) ==
  /\ pc[w] = "lock"
  /\ queueMutex = NoThread
  /\ stop
  /\ tasks = <<>>
  /\ pc' = [pc EXCEPT ![w] = "exited"]
  /\ UNCHANGED <<mainPc, queueMutex, tasks, stop, readyThreads, running,
                 submitted, finished, spurious>>

\* The predicate is false: the worker will block, and still holds the mutex.
Park(w) ==
  /\ pc[w] = "lock"
  /\ queueMutex = NoThread
  /\ ~MayProceed
  /\ queueMutex' = w
  /\ pc' = [pc EXCEPT ![w] = "park"]
  /\ UNCHANGED <<mainPc, tasks, stop, readyThreads, running, submitted,
                 finished, spurious>>

\* Releasing the mutex and joining the waiters is one atomic step.
Sleep(w) ==
  /\ pc[w] = "park"
  /\ queueMutex' = NoThread
  /\ pc' = [pc EXCEPT ![w] = "waiting"]
  /\ UNCHANGED <<mainPc, tasks, stop, readyThreads, running, submitted,
                 finished, spurious>>

\* Mutant: the task is cleared before it is called.
FinishClearedTask(w) ==
  /\ pc[w] = "run"
  /\ running' = [running EXCEPT ![w] = NoTask]
  /\ finished' = finished \cup {running'[w]}
  /\ pc' = [pc EXCEPT ![w] = "lock"]
  /\ UNCHANGED <<mainPc, queueMutex, tasks, stop, readyThreads, submitted,
                 spurious>>

\* task() returns and the worker goes back for the mutex.
FinishTask(w) ==
  /\ pc[w] = "run"
  /\ finished' = finished \cup {running[w]}
  /\ running' = [running EXCEPT ![w] = NoTask]
  /\ pc' = [pc EXCEPT ![w] = "lock"]
  /\ UNCHANGED <<mainPc, queueMutex, tasks, stop, readyThreads, submitted,
                 spurious>>

\* Both condition variables may wake a thread that nobody notified.
SpuriousWakeup ==
  /\ spurious < MaxSpurious
  /\ spurious' = spurious + 1
  /\ \/ \E w \in At("waiting") : pc' = [pc EXCEPT ![w] = "lock"]
        /\ UNCHANGED mainPc
     \/ mainPc = "sleepReady" /\ mainPc' = "waitReady" /\ UNCHANGED pc
  /\ UNCHANGED <<queueMutex, tasks, stop, readyThreads, running, submitted,
                 finished>>

-----------------------------------------------------------------------------

MainStep == Spawn \/ CheckReady \/ SleepReady \/ NotifyOne \/ NotifyAll \/ Join

WorkerStep(w) ==
  AnnounceReady(w) \/ Take(w) \/ Exit(w) \/ Park(w) \/ Sleep(w) \/ FinishTask(w)

Next ==
  \/ MainStep
  \/ Enqueue
  \/ SetStop
  \/ \E w \in Workers : WorkerStep(w)
  \/ SpuriousWakeup

Spec == Init /\ [][Next]_vars

\* Threads that can run do run; a task that was started returns.  Enqueueing
\* and destroying the pool are the caller's choice, a spurious wakeup nobody's.
FairSpec ==
  Spec /\ WF_vars(MainStep) /\ \A w \in Workers : WF_vars(WorkerStep(w))

-----------------------------------------------------------------------------
(* What the pool promises.                                                 *)

\* The owner leaves waitForThreads only when every worker of the pool has been
\* created and has announced itself (ThreadPool.cpp:45-50).
StartupBarrier ==
  mainPc \in {"idle", "notify", "notifyAll", "join", "done"} =>
    At("unborn") \cup At("starting") = {}

\* enqueue notifies after it released the mutex, a busy worker may take the
\* task before the notified one gets there, and notifications to nobody are
\* lost (ThreadPool.cpp:18, 36-43).  Still, while some worker sleeps, every
\* queued task has a worker on its way to the queue or a notification to come.
NoLostWakeup ==
  At("waiting") # {} =>
    Len(tasks) <= Cardinality(At("lock")) + (IF mainPc = "notify" THEN 1 ELSE 0)

\* The queue holds the youngest tasks, in order; each older one is run by
\* exactly one worker or has finished, so no task is lost, run twice or
\* overtaken in the queue (ThreadPool.cpp:20-21, 40).
TasksAccountedFor ==
  LET taken == submitted - Len(tasks) IN
  /\ Len(tasks) <= submitted
  /\ \A i \in 1..Len(tasks) : tasks[i] = taken + i
  /\ \A w \in At("run") : running[w] \in (1..taken) \ finished
  /\ \A v, w \in At("run") : running[v] = running[w] => v = w
  /\ \A t \in 1..taken : t \in finished \/ \E w \in At("run") : running[w] = t

Queue == INSTANCE TaskQueue WITH Tasks <- 1..MaxTasks

\* Seen from outside, the mutex, the two condition variables and the flags make
\* a queue that hands each task to one idle worker, oldest first
\* (ThreadPool.cpp:7-24, 36-43).
ImplementsTaskQueue == Queue!Spec

\* A stopping worker returns only on an empty queue (ThreadPool.cpp:19), so a
\* pool whose destructor has joined its workers has run everything enqueued.
DrainedWhenJoined ==
  mainPc = "done" => finished = 1..submitted

\* waitForThreads returns, and every enqueued task is run to its end, whatever
\* the interleaving of constructor, enqueue, workers and destructor, provided the
\* tasks before it return: no notification that matters is missed
\* (ThreadPool.cpp:7-24, 36-50).
EveryTaskFinishes ==
  /\ <>(mainPc = "idle")
  /\ \A t \in 1..MaxTasks : submitted >= t ~> t \in finished

\* The wait predicate `stop || !tasks.empty()' (ThreadPool.cpp:18) says that a
\* worker does not wait in a stopped pool, so the destructor's joins
\* (ThreadPool.cpp:28-34) come to an end.
ShutdownCompletes == mainPc = "join" ~> mainPc = "done"

=============================================================================
