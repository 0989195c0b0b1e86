-------------------------- MODULE ThreadPoolProofs --------------------------
(***************************************************************************)
(* Proofs about ThreadPool, for any number of workers, tasks and spurious  *)
(* wakeups.                                                                *)
(***************************************************************************)
EXTENDS ThreadPool, FiniteSetTheorems, TLAPS

-----------------------------------------------------------------------------
(* Types.                                                                  *)

\* The workers that run a task are those that are at its call.
Busy == \A w \in Workers : pc[w] = "run" <=> running[w] # NoTask

\* The pool begins with every variable in its type.
LEMMA TypeInit == Init => TypeOK /\ Busy
<1> SUFFICES ASSUME Init PROVE TypeOK /\ Busy
  OBVIOUS
<1> USE PoolAssumption DEF PoolAssumption, Init
<1>1. tasks \in Seq(Nat) /\ spurious \in 0..MaxSpurious
  OBVIOUS
<1>2. pc \in [Workers -> WorkerPcs] /\ running \in [Workers -> Nat \cup {NoTask}]
  BY DEF WorkerPcs
<1> QED
  BY <1>1, <1>2 DEF TypeOK, MainPcs, Busy

\* Every step keeps the types; a worker has a task exactly while it runs.
LEMMA TypeStep == TypeOK /\ Busy /\ [Next]_vars => (TypeOK /\ Busy)'
<1> SUFFICES ASSUME TypeOK, Busy, [Next]_vars PROVE (TypeOK /\ Busy)'
  OBVIOUS
<1> USE PoolAssumption DEF PoolAssumption, TypeOK, Busy, MainPcs, WorkerPcs
<1>1. CASE Spawn
  BY <1>1 DEF Spawn, At
<1>2. CASE CheckReady
  BY <1>2 DEF CheckReady
<1>3. CASE SleepReady
  BY <1>3 DEF SleepReady
<1>4. CASE Enqueue
  BY <1>4 DEF Enqueue
<1>5. CASE NotifyOne
  BY <1>5 DEF NotifyOne, At
<1>6. CASE SetStop
  BY <1>6 DEF SetStop
<1>7. CASE NotifyAll
  BY <1>7 DEF NotifyAll
<1>8. CASE Join
  BY <1>8 DEF Join
<1>9. ASSUME NEW w \in Workers, WorkerStep(w) PROVE (TypeOK /\ Busy)'
  <2>1. CASE AnnounceReady(w)
    BY <2>1 DEF AnnounceReady
  <2>2. CASE Take(w)
    BY <2>2 DEF Take
  <2>3. CASE Exit(w)
    BY <2>3 DEF Exit
  <2>4. CASE Park(w)
    BY <2>4 DEF Park
  <2>5. CASE Sleep(w)
    BY <2>5 DEF Sleep
  <2>6. CASE FinishTask(w)
    BY <2>6 DEF FinishTask
  <2> QED BY <1>9, <2>1, <2>2, <2>3, <2>4, <2>5, <2>6 DEF WorkerStep
<1>10. CASE SpuriousWakeup
  BY <1>10 DEF SpuriousWakeup, At
<1>11. CASE UNCHANGED vars
  BY <1>11 DEF vars
<1> QED
  BY <1>1, <1>2, <1>3, <1>4, <1>5, <1>6, <1>7, <1>8, <1>9, <1>10, <1>11
     DEF Next, MainStep

\* Every variable keeps its type in every behaviour of the pool.
THEOREM TypeCorrect == Spec => []TypeOK
  BY TypeInit, TypeStep, PTL DEF Spec

-----------------------------------------------------------------------------
(* The start of the pool.                                                  *)

Started == {w \in Workers : pc[w] \notin {"unborn", "starting"}}

\* readyThreads counts the workers that have announced themselves, and the
\* constructor leaves no worker behind.
Barrier ==
  /\ mainPc # "construct" => At("unborn") = {}
  /\ readyThreads = Cardinality(Started)
  /\ StartupBarrier

\* There are finitely many workers that have started.
LEMMA StartedFinite == IsFiniteSet(Started) /\ Started \subseteq Workers
  BY PoolAssumption, FS_Subset DEF PoolAssumption, Started

\* No worker has started at the beginning.
LEMMA BarrierInit == Init => Barrier
<1> SUFFICES ASSUME Init PROVE Barrier
  OBVIOUS
<1>1. Started = {}
  BY DEF Init, Started
<1> QED
  BY <1>1, FS_EmptySet DEF Init, Barrier, StartupBarrier

\* readyThreads keeps counting the workers that have announced themselves.
LEMMA BarrierStep == TypeOK /\ Barrier /\ [Next]_vars => Barrier'
<1> SUFFICES ASSUME TypeOK, Barrier, [Next]_vars PROVE Barrier'
  OBVIOUS
<1> USE DEF TypeOK, MainPcs, WorkerPcs, Barrier, StartupBarrier, At
<1>1. CASE Spawn
  <2>1. Started' = Started
    BY <1>1 DEF Spawn, Started
  <2> QED
    BY <1>1, <2>1 DEF Spawn
<1>2. CASE CheckReady
  <2>1. Started' = Started
    BY <1>2 DEF CheckReady, Started
  <2>2. CASE AllReady
    <3>1. Started = Workers
      BY <2>2, StartedFinite, PoolAssumption, FS_Subset
         DEF AllReady, PoolAssumption
    <3> QED
      BY <1>2, <2>1, <3>1 DEF CheckReady, Started
  <2>3. CASE ~AllReady
    BY <1>2, <2>1, <2>3 DEF CheckReady
  <2> QED
    BY <2>2, <2>3
<1>3. CASE SleepReady \/ NotifyAll \/ Join \/ NotifyOne \/ Enqueue \/ SetStop
  <2>1. Started' = Started
    BY <1>3 DEF SleepReady, NotifyAll, Join, NotifyOne, Enqueue, SetStop, Started
  <2> QED
    BY <1>3, <2>1
       DEF SleepReady, NotifyAll, Join, NotifyOne, Enqueue, SetStop
<1>4. ASSUME NEW w \in Workers, AnnounceReady(w) PROVE Barrier'
  <2>1. Started' = Started \cup {w} /\ w \notin Started
    BY <1>4 DEF AnnounceReady, Started
  <2>2. Cardinality(Started') = Cardinality(Started) + 1
    BY <2>1, StartedFinite, FS_AddElement
  <2> QED
    BY <1>4, <2>2 DEF AnnounceReady
<1>5. ASSUME NEW w \in Workers,
             Take(w) \/ Exit(w) \/ Park(w) \/ Sleep(w) \/ FinishTask(w)
      PROVE  Barrier'
  <2>1. Started' = Started
    BY <1>5 DEF Take, Exit, Park, Sleep, FinishTask, Started
  <2> QED
    BY <1>5, <2>1 DEF Take, Exit, Park, Sleep, FinishTask
<1>6. CASE SpuriousWakeup
  <2>1. Started' = Started
    BY <1>6 DEF SpuriousWakeup, Started
  <2> QED
    BY <1>6, <2>1 DEF SpuriousWakeup
<1>7. CASE UNCHANGED vars
  <2>1. Started' = Started
    BY <1>7 DEF vars, Started
  <2> QED
    BY <1>7, <2>1 DEF vars
<1> QED
  BY <1>1, <1>2, <1>3, <1>4, <1>5, <1>6, <1>7 DEF Next, MainStep, WorkerStep

\* The owner leaves waitForThreads only when every worker has been created and
\* has announced itself, for any number of workers.
THEOREM StartupBarrierHolds == Spec => []StartupBarrier
<1>1. Init => TypeOK /\ Busy /\ Barrier
  BY TypeInit, BarrierInit
<1>2. TypeOK /\ Busy /\ Barrier /\ [Next]_vars => (TypeOK /\ Busy /\ Barrier)'
  BY TypeStep, BarrierStep
<1>3. Barrier => StartupBarrier
  BY DEF Barrier
<1> QED
  BY <1>1, <1>2, <1>3, PTL DEF Spec

-----------------------------------------------------------------------------
(* Stopping and blocking.                                                  *)

\* stop is set when the destructor runs; workers leave an empty queue behind.
Stopping ==
  /\ stop <=> mainPc \in {"notifyAll", "join", "done"}
  /\ At("exited") # {} => stop /\ tasks = <<>>
  /\ mainPc = "done" => At("exited") = Workers

\* A thread between its predicate and its sleep holds the mutex, and what it saw
\* of the queue is still so.
Parked ==
  /\ mainPc = "parkReady" => queueMutex = "main"
  /\ \A w \in At("park") : queueMutex = w /\ tasks = <<>>

\* The pool does not begin stopping, and nobody holds the mutex.
LEMMA StoppingInit == Init => Stopping /\ Parked
  BY DEF Init, Stopping, Parked, At

\* A worker returns only when the pool stops and its queue is empty, for good,
\* and a thread about to block keeps the mutex.
LEMMA StoppingStep ==
  TypeOK /\ Stopping /\ Parked /\ [Next]_vars => (Stopping /\ Parked)'
<1> SUFFICES ASSUME TypeOK, Stopping, Parked, [Next]_vars
             PROVE  (Stopping /\ Parked)'
  OBVIOUS
<1> USE PoolAssumption
    DEF PoolAssumption, TypeOK, MainPcs, WorkerPcs, Stopping, Parked, At
<1>1. CASE Spawn \/ CheckReady \/ SleepReady
  BY <1>1 DEF Spawn, CheckReady, SleepReady
<1>2. CASE NotifyOne \/ NotifyAll \/ Join
  BY <1>2 DEF NotifyOne, NotifyAll, Join
<1>3. CASE Enqueue
  BY <1>3 DEF Enqueue
<1>4. CASE SetStop
  BY <1>4 DEF SetStop
<1>5. ASSUME NEW w \in Workers, WorkerStep(w) PROVE (Stopping /\ Parked)'
  <2>1. CASE AnnounceReady(w) \/ FinishTask(w)
    BY <2>1 DEF AnnounceReady, FinishTask
  <2>2. CASE Take(w)
    BY <2>2 DEF Take
  <2>3. CASE Exit(w)
    BY <2>3 DEF Exit
  <2>4. CASE Park(w)
    BY <2>4 DEF Park, MayProceed
  <2>5. CASE Sleep(w)
    BY <2>5 DEF Sleep
  <2> QED
    BY <1>5, <2>1, <2>2, <2>3, <2>4, <2>5 DEF WorkerStep
<1>6. CASE SpuriousWakeup
  BY <1>6 DEF SpuriousWakeup
<1>7. CASE UNCHANGED vars
  BY <1>7 DEF vars
<1> QED
  BY <1>1, <1>2, <1>3, <1>4, <1>5, <1>6, <1>7 DEF Next, MainStep

-----------------------------------------------------------------------------
(* The tasks.                                                              *)

Taken == submitted - Len(tasks)

\* A finished task was taken from the queue.
Accounted ==
  /\ TasksAccountedFor
  /\ finished \subseteq 1..Taken

\* There is no task at the beginning.
LEMMA AccountedInit == Init => Accounted
  BY DEF Init, Accounted, TasksAccountedFor, Taken, At

\* Nothing that TasksAccountedFor speaks of changes.
SameTasks ==
  UNCHANGED <<tasks, running, submitted, finished>> /\ At("run")' = At("run")

\* Steps that leave the tasks alone keep the account.
LEMMA SameTasksAccounted == Accounted /\ SameTasks => Accounted'
  BY DEF Accounted, SameTasks, TasksAccountedFor, Taken

\* So do enqueue, the pop and the return of a task.
LEMMA AccountedStep ==
  TypeOK /\ Busy /\ Accounted /\ [Next]_vars => Accounted'
<1> SUFFICES ASSUME TypeOK, Busy, Accounted, [Next]_vars PROVE Accounted'
  OBVIOUS
<1> DEFINE Queued(s, t) == \A i \in 1..Len(s) : s[i] = t + i
<1> USE PoolAssumption DEF PoolAssumption, TypeOK
<1>1. CASE Enqueue
  <2>1. /\ tasks' = Append(tasks, submitted + 1)
        /\ submitted' = submitted + 1
        /\ UNCHANGED <<running, finished>>
        /\ At("run")' = At("run")
    BY <1>1 DEF Enqueue, At
  <2>2. Taken' = Taken /\ Len(tasks') = Len(tasks) + 1
    BY <2>1 DEF Taken
  <2>3. ASSUME NEW i \in 1..Len(tasks') PROVE tasks'[i] = Taken' + i
    <3>1. CASE i <= Len(tasks)
      <4>1. tasks'[i] = tasks[i]
        BY <2>1, <2>2, <3>1
      <4> QED
        BY <2>2, <3>1, <4>1 DEF Accounted, TasksAccountedFor, Taken
    <3>2. CASE i = Len(tasks) + 1
      <4>1. tasks'[i] = submitted + 1
        BY <2>1, <3>2
      <4> QED
        BY <2>2, <3>2, <4>1 DEF Taken
    <3> QED
      BY <2>2, <3>1, <3>2
  <2> QED
    BY <2>1, <2>2, <2>3 DEF Accounted, TasksAccountedFor, Taken
<1>2. ASSUME NEW w \in Workers, Take(w) PROVE Accounted'
  <2>1. /\ tasks # <<>>
        /\ tasks' = Tail(tasks)
        /\ running' = [running EXCEPT ![w] = tasks[1]]
        /\ pc' = [pc EXCEPT ![w] = "run"]
        /\ pc[w] = "lock"
        /\ UNCHANGED <<submitted, finished>>
    BY <1>2 DEF Take
  <2>2. /\ Len(tasks) > 0
        /\ Len(tasks') = Len(tasks) - 1
        /\ \A i \in 1..Len(tasks') : tasks'[i] = tasks[i + 1]
    BY <2>1
  <2>3. Taken \in Nat /\ Taken' = Taken + 1 /\ tasks[1] = Taken + 1
    BY <2>1, <2>2 DEF Taken, Accounted, TasksAccountedFor
  <2>4. Len(tasks') <= submitted' /\ Queued(tasks', Taken')
    BY <2>1, <2>2, <2>3 DEF Accounted, TasksAccountedFor, Taken
  <2>5. At("run")' = At("run") \cup {w} /\ w \notin At("run")
    BY <2>1 DEF At, WorkerPcs
  <2>6. \A v \in At("run") : running'[v] = running[v] /\ running[v] \in 1..Taken
    BY <2>1, <2>5 DEF Accounted, TasksAccountedFor, Taken, At
  <2>7. running'[w] = Taken + 1 /\ Taken + 1 \notin finished
    BY <2>1, <2>3 DEF Accounted
  <2>8. finished' \subseteq 1..Taken' /\ finished' = finished
    BY <2>1, <2>3 DEF Accounted
  <2>9. \A v \in At("run")' : running'[v] \in (1..Taken') \ finished'
    BY <2>3, <2>5, <2>6, <2>7, <2>8 DEF Accounted, TasksAccountedFor, Taken
  <2>10. \A v, x \in At("run")' : running'[v] = running'[x] => v = x
    BY <2>3, <2>5, <2>6, <2>7 DEF Accounted, TasksAccountedFor
  <2>11. ASSUME NEW t \in 1..Taken'
         PROVE  t \in finished' \/ \E v \in At("run")' : running'[v] = t
    <3>1. CASE t = Taken + 1
      BY <2>5, <2>7, <3>1
    <3>2. CASE t \in 1..Taken
      <4>1. t \in finished \/ \E v \in At("run") : running[v] = t
        BY <3>2 DEF Accounted, TasksAccountedFor, Taken
      <4> QED
        BY <2>5, <2>6, <2>8, <4>1
    <3> QED
      BY <2>3, <3>1, <3>2
  <2> QED
    BY <2>4, <2>8, <2>9, <2>10, <2>11 DEF Accounted, TasksAccountedFor, Taken
<1>3. ASSUME NEW w \in Workers, FinishTask(w) PROVE Accounted'
  <2>1. /\ finished' = finished \cup {running[w]}
        /\ running' = [running EXCEPT ![w] = NoTask]
        /\ UNCHANGED <<tasks, submitted>>
        /\ w \in At("run")
        /\ At("run")' = At("run") \ {w}
    BY <1>3 DEF FinishTask, At, WorkerPcs
  <2>2. Taken' = Taken
    BY <2>1 DEF Taken
  <2>3. \A v \in At("run")' : v \in At("run") /\ v # w /\ running'[v] = running[v]
    BY <2>1 DEF At
  <2>4. finished' \subseteq 1..Taken'
    <3>1. running[w] \in 1..Taken
      BY <2>1 DEF Accounted, TasksAccountedFor, Taken
    <3> QED
      BY <2>1, <2>2, <3>1 DEF Accounted
  <2>5. ASSUME NEW v \in At("run")' PROVE running'[v] \in (1..Taken') \ finished'
    <3>1. running[v] \in (1..Taken) \ finished
      BY <2>3 DEF Accounted, TasksAccountedFor, Taken
    <3>2. running[v] # running[w]
      BY <2>1, <2>3 DEF Accounted, TasksAccountedFor
    <3> QED
      BY <2>1, <2>2, <2>3, <3>1, <3>2
  <2>6. \A v, x \in At("run")' : running'[v] = running'[x] => v = x
    BY <2>3 DEF Accounted, TasksAccountedFor
  <2>7. \A v \in At("run") : v = w \/ v \in At("run")'
    BY <2>1
  <2>8. ASSUME NEW t \in 1..Taken'
        PROVE  t \in finished' \/ \E v \in At("run")' : running'[v] = t
    <3>1. t \in finished \/ \E v \in At("run") : running[v] = t
      BY <2>2 DEF Accounted, TasksAccountedFor, Taken
    <3>2. ASSUME NEW v \in At("run"), running[v] = t, v # w
          PROVE  v \in At("run")' /\ running'[v] = t
      BY <2>3, <2>7, <3>2
    <3> QED
      BY <2>1, <3>1, <3>2
  <2> QED
    BY <2>1, <2>2, <2>4, <2>5, <2>6, <2>8
       DEF Accounted, TasksAccountedFor, Taken
<1>4. ASSUME NEW w \in Workers,
             AnnounceReady(w) \/ Exit(w) \/ Park(w) \/ Sleep(w)
      PROVE  SameTasks
  BY <1>4 DEF AnnounceReady, Exit, Park, Sleep, SameTasks, At, WorkerPcs
<1>5. ASSUME Spawn \/ CheckReady \/ SleepReady \/ Join \/ SetStop
      PROVE  SameTasks
  BY <1>5 DEF Spawn, CheckReady, SleepReady, Join, SetStop, SameTasks, At,
              WorkerPcs
<1>6. ASSUME NotifyOne \/ NotifyAll \/ SpuriousWakeup PROVE SameTasks
  BY <1>6 DEF NotifyOne, NotifyAll, SpuriousWakeup, SameTasks, At, WorkerPcs
<1>7. ASSUME UNCHANGED vars PROVE SameTasks
  BY <1>7 DEF vars, SameTasks, At
<1> QED
  BY <1>1, <1>2, <1>3, <1>4, <1>5, <1>6, <1>7, SameTasksAccounted
     DEF Next, MainStep, WorkerStep

\* No task is lost, run twice or overtaken in the queue.
THEOREM TasksAccountedForHolds == Spec => []TasksAccountedFor
<1>1. Init => TypeOK /\ Busy /\ Accounted
  BY TypeInit, AccountedInit
<1>2. TypeOK /\ Busy /\ Accounted /\ [Next]_vars => (TypeOK /\ Busy /\ Accounted)'
  BY TypeStep, AccountedStep
<1>3. Accounted => TasksAccountedFor
  BY DEF Accounted
<1> QED
  BY <1>1, <1>2, <1>3, PTL DEF Spec

\* A destroyed pool has run everything that was enqueued: when the last worker is
\* joined the queue is empty, and nobody is left to run a task.
THEOREM DrainedWhenJoinedHolds == Spec => []DrainedWhenJoined
<1> DEFINE Inv == TypeOK /\ Busy /\ Stopping /\ Parked /\ Accounted
<1>1. Init => Inv
  BY TypeInit, StoppingInit, AccountedInit
<1>2. Inv /\ [Next]_vars => Inv'
  BY TypeStep, StoppingStep, AccountedStep
<1>3. Inv => DrainedWhenJoined
  <2> SUFFICES ASSUME Inv, mainPc = "done" PROVE finished = 1..submitted
    BY DEF DrainedWhenJoined
  <2>1. At("exited") = Workers /\ At("run") = {}
    BY DEF Stopping, At
  <2>2. tasks = <<>>
    BY <2>1, PoolAssumption DEF Stopping, PoolAssumption
  <2>3. Taken = submitted
    BY <2>2 DEF Taken, TypeOK
  <2> QED
    BY <2>1, <2>3 DEF Accounted, TasksAccountedFor, Taken
<1> QED
  BY <1>1, <1>2, <1>3, PTL DEF Spec

-----------------------------------------------------------------------------
(* Wakeups.                                                                *)

\* The workers at a label are finitely many.
LEMMA AtFinite ==
  ASSUME NEW label
  PROVE  IsFiniteSet(At(label)) /\ Cardinality(At(label)) \in Nat
  BY PoolAssumption, FS_Subset, FS_CardinalityType DEF PoolAssumption, At

\* Every step keeps a worker or a notification for each queued task.
LEMMA NoLostWakeupStep ==
  TypeOK /\ Parked /\ NoLostWakeup /\ [Next]_vars => NoLostWakeup'
<1> SUFFICES ASSUME TypeOK, Parked, NoLostWakeup, [Next]_vars,
                    At("waiting")' # {}
             PROVE  Len(tasks') <= Cardinality(At("lock"))'
                                     + IF mainPc' = "notify" THEN 1 ELSE 0
  BY DEF NoLostWakeup
<1> USE DEF TypeOK, MainPcs, WorkerPcs
<1>0. Cardinality(At("lock")) \in Nat /\ Cardinality(At("lock"))' \in Nat
  <2>1. IsFiniteSet(At("lock")') /\ Cardinality(At("lock")') \in Nat
    BY PoolAssumption, FS_Subset, FS_CardinalityType DEF PoolAssumption, At
  <2> QED
    BY <2>1, AtFinite
<1>1. ASSUME NEW w \in Workers, w \notin At("lock"),
             At("lock")' = At("lock") \cup {w}
      PROVE  Cardinality(At("lock"))' = Cardinality(At("lock")) + 1
  BY <1>1, AtFinite, FS_AddElement
<1>2. CASE Enqueue
  <2>1. /\ At("lock")' = At("lock") /\ At("waiting")' = At("waiting")
        /\ Len(tasks') = Len(tasks) + 1
        /\ mainPc = "idle" /\ mainPc' = "notify"
    BY <1>2 DEF Enqueue, At
  <2> QED
    BY <1>0, <2>1 DEF NoLostWakeup
<1>3. CASE NotifyOne
  <2>1. PICK w \in At("waiting") : pc' = [pc EXCEPT ![w] = "lock"]
    BY <1>3 DEF NotifyOne, At
  <2>2. w \in Workers /\ w \notin At("lock") /\ At("lock")' = At("lock") \cup {w}
    BY <2>1 DEF At
  <2>3. mainPc = "notify" /\ mainPc' = "idle" /\ UNCHANGED tasks
    BY <1>3 DEF NotifyOne
  <2> QED
    BY <1>0, <1>1, <2>1, <2>2, <2>3 DEF NoLostWakeup
<1>4. CASE NotifyAll
  BY <1>4 DEF NotifyAll, At
<1>5. CASE Spawn \/ CheckReady \/ SleepReady \/ Join \/ SetStop
  <2>1. UNCHANGED tasks /\ At("lock")' = At("lock") /\ At("waiting")' = At("waiting")
    BY <1>5 DEF Spawn, CheckReady, SleepReady, Join, SetStop, At
  <2>2. mainPc # "notify"
    BY <1>5 DEF Spawn, CheckReady, SleepReady, Join, SetStop
  <2> QED
    BY <1>0, <2>1, <2>2 DEF NoLostWakeup
<1>6. CASE SpuriousWakeup
  <2>1. CASE \E w \in At("waiting") : pc' = [pc EXCEPT ![w] = "lock"]
    <3>1. PICK w \in At("waiting") : pc' = [pc EXCEPT ![w] = "lock"]
      BY <2>1
    <3>2. w \in Workers /\ w \notin At("lock") /\ At("lock")' = At("lock") \cup {w}
      BY <3>1 DEF At
    <3>3. UNCHANGED tasks /\ (mainPc' = "notify" <=> mainPc = "notify")
      BY <1>6 DEF SpuriousWakeup
    <3> QED
      BY <1>0, <1>1, <3>1, <3>2, <3>3 DEF NoLostWakeup
  <2>2. CASE UNCHANGED pc
    <3>1. /\ At("lock")' = At("lock") /\ At("waiting")' = At("waiting")
          /\ UNCHANGED tasks /\ (mainPc' = "notify" <=> mainPc = "notify")
      BY <1>6, <2>2 DEF SpuriousWakeup, At
    <3> QED
      BY <1>0, <3>1 DEF NoLostWakeup
  <2> QED
    BY <1>6, <2>1, <2>2 DEF SpuriousWakeup
<1>7. CASE UNCHANGED vars
  BY <1>7 DEF vars, NoLostWakeup, At
<1>8. ASSUME NEW w \in Workers, AnnounceReady(w) \/ FinishTask(w)
      PROVE  Len(tasks') <= Cardinality(At("lock"))'
                              + IF mainPc' = "notify" THEN 1 ELSE 0
  <2>1. /\ w \notin At("lock")
        /\ At("lock")' = At("lock") \cup {w}
        /\ At("waiting")' = At("waiting")
        /\ UNCHANGED tasks
        /\ mainPc' = "notify" <=> mainPc = "notify"
    BY <1>8 DEF AnnounceReady, FinishTask, At
  <2> QED
    BY <1>0, <1>1, <2>1 DEF NoLostWakeup
<1>9. ASSUME NEW w \in Workers, Take(w)
      PROVE  Len(tasks') <= Cardinality(At("lock"))'
                              + IF mainPc' = "notify" THEN 1 ELSE 0
  <2>1. /\ w \in At("lock")
        /\ At("lock")' = At("lock") \ {w}
        /\ At("waiting")' = At("waiting")
        /\ UNCHANGED mainPc
    BY <1>9 DEF Take, At
  <2>2. Cardinality(At("lock"))' = Cardinality(At("lock")) - 1
    BY <2>1, AtFinite, FS_RemoveElement
  <2>3. Len(tasks') = Len(tasks) - 1
    BY <1>9 DEF Take
  <2> QED
    BY <1>0, <2>1, <2>2, <2>3 DEF NoLostWakeup
<1>10. ASSUME NEW w \in Workers, Exit(w) \/ Park(w) \/ Sleep(w)
       PROVE  tasks' = <<>>
  BY <1>10 DEF Exit, Park, Sleep, MayProceed, Parked, At
<1>11. ASSUME tasks' = <<>>
       PROVE  Len(tasks') <= Cardinality(At("lock"))'
                               + IF mainPc' = "notify" THEN 1 ELSE 0
  BY <1>0, <1>11
<1> QED
  BY <1>2, <1>3, <1>4, <1>5, <1>6, <1>7, <1>8, <1>9, <1>10, <1>11
     DEF Next, MainStep, WorkerStep

\* While a worker sleeps, every queued task has a worker on its way to it or a
\* notification to come, for any number of workers and any interleaving.
THEOREM NoLostWakeupHolds == Spec => []NoLostWakeup
<1> DEFINE Inv == TypeOK /\ Busy /\ Stopping /\ Parked /\ NoLostWakeup
<1>1. Init => Inv
  <2>1. Init => NoLostWakeup
    BY DEF Init, NoLostWakeup, At
  <2> QED
    BY <2>1, TypeInit, StoppingInit
<1>2. Inv /\ [Next]_vars => Inv'
  BY TypeStep, StoppingStep, NoLostWakeupStep
<1> QED
  BY <1>1, <1>2, PTL DEF Spec

-----------------------------------------------------------------------------
(* The pool is a queue of tasks.                                           *)

\* Every step of the pool is a step of TaskQueue or leaves its variables alone.
LEMMA QueueStep ==
  TypeOK /\ Busy /\ [Next]_vars => [Queue!Next]_(Queue!vars)
<1> SUFFICES ASSUME TypeOK, Busy, [Next]_vars
             PROVE  [Queue!Next]_(Queue!vars)
  OBVIOUS
<1> USE DEF Queue!Next, Queue!vars
<1>1. CASE Enqueue
  <2>1. submitted + 1 \in 1..MaxTasks
    BY <1>1, PoolAssumption DEF Enqueue, TypeOK, PoolAssumption
  <2>2. Queue!Submit(submitted + 1)
    BY <1>1 DEF Enqueue, Queue!Submit
  <2> QED
    BY <2>1, <2>2
<1>2. ASSUME NEW w \in Workers, Take(w) PROVE Queue!Start(w)
  BY <1>2 DEF Take, Queue!Start, Busy
<1>3. ASSUME NEW w \in Workers, FinishTask(w) PROVE Queue!Finish(w)
  BY <1>3 DEF FinishTask, Queue!Finish, Busy
<1>4. ASSUME NEW w \in Workers,
             AnnounceReady(w) \/ Exit(w) \/ Park(w) \/ Sleep(w)
      PROVE  UNCHANGED <<tasks, running>>
  BY <1>4 DEF AnnounceReady, Exit, Park, Sleep
<1>5. ASSUME Spawn \/ CheckReady \/ SleepReady \/ NotifyOne \/ NotifyAll \/ Join
               \/ SetStop \/ SpuriousWakeup \/ UNCHANGED vars
      PROVE  UNCHANGED <<tasks, running>>
  BY <1>5 DEF Spawn, CheckReady, SleepReady, NotifyOne, NotifyAll, Join, SetStop,
              SpuriousWakeup, vars
<1> QED
  BY <1>1, <1>2, <1>3, <1>4, <1>5 DEF Next, MainStep, WorkerStep

\* The mutex, the condition variables and the flags implement a queue that hands
\* each task to one idle worker, oldest first.
THEOREM PoolImplementsQueue == Spec => ImplementsTaskQueue
<1>1. Init => Queue!Init
  BY DEF Init, Queue!Init
<1>2. Init => TypeOK /\ Busy
  BY TypeInit
<1>3. TypeOK /\ Busy /\ [Next]_vars => (TypeOK /\ Busy)'
  BY TypeStep
<1>4. TypeOK /\ Busy /\ [Next]_vars => [Queue!Next]_(Queue!vars)
  BY QueueStep
<1> QED
  BY <1>1, <1>2, <1>3, <1>4, PTL DEF Spec, ImplementsTaskQueue, Queue!Spec

=============================================================================
