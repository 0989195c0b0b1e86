-------------------------- MODULE V1SemaphoreProxy --------------------------
(***************************************************************************)
(* v1/proxy3.cpp, from which SemaphoreServer was made: the same workers    *)
(* around a semaphore, the same double close, the same SIGINT and main     *)
(* thread, with the handler of V1Handler.  It and SemaphoreServer are one  *)
(* module here, told apart by env.program.                                 *)
(***************************************************************************)
EXTENDS SemaphoreServer, V1Handler

IsV1 == env.program = "proxy3"

\* The class LRUCache of this program, statement by statement that of LRUCache.cpp.
V1Cache == INSTANCE LRUCache WITH Values <- Responses

\* datafromclient(&newsockfd), and the functions it calls.
V1DataFromClient(w) ==
  /\ pc[w] = "handle"
  /\ V1Request(w)
  /\ UNCHANGED <<running, thread_semaphore, pc, clientSocket, mainPc>>

V1Socket(w) ==
  /\ pc[w] = "handle"
  /\ V1Transfer(w)
  /\ UNCHANGED <<running, thread_semaphore, pc, clientSocket, mainPc>>

\* worker_thread
V1WorkerStep(w) ==
  \/ Loop(w) \/ SemWait(w) \/ CheckRunning(w) \/ Accept(w) \/ AcceptFails(w)
  \/ V1DataFromClient(w) \/ V1Socket(w) \/ Return(w) \/ CloseAgain(w)
  \/ SemPost(w)

\* The worker of whichever program runs.
EitherWorkerStep(w) ==
  \/ ~IsV1 /\ WorkerStep(w)
  \/ IsV1 /\ V1WorkerStep(w)

\* main, with sigint_handler: socket, bind and listen, the workers, the joins.
EitherNext ==
  /\ ProcessRuns
  /\ \/ \E w \in Workers : EitherWorkerStep(w)
     \/ MainStep
     \/ Sigint
     \/ Outside

=============================================================================
