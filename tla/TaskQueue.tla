------------------------------ MODULE TaskQueue ------------------------------
(***************************************************************************)
(* What the servers rely on in a thread pool: tasks leave the queue in the *)
(* order they were submitted, each to one worker that runs nothing else    *)
(* until the task returns.  Threads, mutex and condition variables are     *)
(* ThreadPool's business.                                                  *)
(***************************************************************************)
EXTENDS Sequences

CONSTANTS Workers, Tasks, NoTask

VARIABLES tasks,   \* submitted, not yet started
          running  \* the task each worker runs, or NoTask

vars == <<tasks, running>>

Init ==
  /\ tasks = <<>>
  /\ running = [w \in Workers |-> NoTask]

Submit(t) ==
  /\ tasks' = Append(tasks, t)
  /\ UNCHANGED running

Start(w) ==
  /\ running[w] = NoTask
  /\ tasks # <<>>
  /\ running' = [running EXCEPT ![w] = Head(tasks)]
  /\ tasks' = Tail(tasks)

Finish(w) ==
  /\ running[w] # NoTask
  /\ running' = [running EXCEPT ![w] = NoTask]
  /\ UNCHANGED tasks

Next ==
  \/ \E t \in Tasks : Submit(t)
  \/ \E w \in Workers : Start(w) \/ Finish(w)

Spec == Init /\ [][Next]_vars

=============================================================================
