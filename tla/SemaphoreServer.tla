--------------------------- MODULE SemaphoreServer ---------------------------
(***************************************************************************)
(* SemaphoreServer.cpp: as many workers as the semaphore has permits; each *)
(* takes a permit, accepts a connection itself, runs datafromclient, which *)
(* is handleClient over again, closes the connection and gives the permit  *)
(* back.  SIGINT clears `running', and start returns when every worker has.*)
(***************************************************************************)
EXTENDS ClientHandler, FiniteSetsExt

CONSTANT NumThreads  \* permits; start creates as many workers

ASSUME SemaphoreAssumption ==
  IsFiniteSet(Workers) /\ NumThreads = Cardinality(Workers)

VARIABLES
  running,           \* cleared by the signal handler
  thread_semaphore,  \* its value
  pc,                \* where each worker is in workerThread
  clientSocket,      \* what accept returned to each worker
  mainPc             \* where start is

vars == <<handlerVars, running, thread_semaphore, pc, clientSocket, mainPc>>

WorkerPcs == {"unborn", "loop", "wait", "check", "accept", "handle", "close",
              "post", "leave", "ended"}
MainPcs == {"listen", "spawn", "join", "returned", "failed"}

TypeOK ==
  /\ HandlerTypeOK
  /\ running \in BOOLEAN
  /\ thread_semaphore \in 0..NumThreads
  /\ pc \in [Workers -> WorkerPcs]
  /\ clientSocket \in [Workers -> Fds \cup {NoFd}]
  /\ mainPc \in MainPcs

Init ==
  /\ HandlerInit
  /\ running = TRUE
  /\ thread_semaphore = NumThreads
  /\ pc = [w \in Workers |-> "unborn"]
  /\ clientSocket = [w \in Workers |-> NoFd]
  /\ mainPc = "listen"

GoTo(w, label) == pc' = [pc EXCEPT ![w] = label]

-----------------------------------------------------------------------------
(* workerThread                                                            *)

\* while (running)
Loop(w) ==
  /\ pc[w] = "loop"
  /\ GoTo(w, IF running THEN "wait" ELSE "ended")
  /\ UNCHANGED <<handlerVars, running, thread_semaphore, clientSocket, mainPc>>

SemWait(w) ==
  /\ pc[w] = "wait"
  /\ thread_semaphore > 0
  /\ thread_semaphore' = thread_semaphore - 1
  /\ GoTo(w, "check")
  /\ UNCHANGED <<handlerVars, running, clientSocket, mainPc>>

\* Mutant: the worker ends with its permit.
CheckRunningKeepingPermit(w) ==
  /\ pc[w] = "check"
  /\ GoTo(w, IF running THEN "accept" ELSE "ended")
  /\ UNCHANGED <<handlerVars, running, thread_semaphore, clientSocket, mainPc>>

\* if (!running), with the permit.
CheckRunning(w) ==
  /\ pc[w] = "check"
  /\ GoTo(w, IF running THEN "accept" ELSE "leave")
  /\ UNCHANGED <<handlerVars, running, thread_semaphore, clientSocket, mainPc>>

Accept(w) ==
  /\ pc[w] = "accept"
  /\ backlog # <<>>
  /\ FreeFds # {}
  /\ backlog' = Tail(backlog)
  /\ fdTable' = [fdTable EXCEPT ![LowestFd] = Head(backlog)]
  /\ clientSocket' = [clientSocket EXCEPT ![w] = LowestFd]
  /\ Call(w, LowestFd)
  /\ GoTo(w, "handle")
  /\ UNCHANGED <<env, peer, inbox, outbox, cacheVars, exited, running,
                 thread_semaphore, mainPc>>

\* Mutant: the permit is given back here and again at the end of the round.
AcceptFailsPosting(w) ==
  /\ pc[w] = "accept"
  /\ FreeFds = {}
  /\ thread_semaphore' = thread_semaphore + 1
  /\ GoTo(w, "post")
  /\ UNCHANGED <<handlerVars, running, clientSocket, mainPc>>

\* accept returns -1 for want of a descriptor.  It does not for SIGINT: signal()
\* installs the handler with SA_RESTART, and the system call goes on.
AcceptFails(w) ==
  /\ pc[w] = "accept"
  /\ FreeFds = {}
  /\ GoTo(w, "post")
  /\ UNCHANGED <<handlerVars, running, thread_semaphore, clientSocket, mainPc>>

DataFromClient(w) ==
  /\ pc[w] = "handle"
  /\ HandlerStep(w)
  /\ UNCHANGED <<running, thread_semaphore, pc, clientSocket, mainPc>>

Return(w) ==
  /\ pc[w] = "handle"
  /\ frame[w].pc = "return"
  /\ frame' = [frame EXCEPT ![w] = IdleFrame]
  /\ GoTo(w, "close")
  /\ UNCHANGED <<socketVars, cacheVars, exited, running, thread_semaphore,
                 clientSocket, mainPc>>

\* close(clientSocket): datafromclient has closed that number already.
CloseAgain(w) ==
  /\ pc[w] = "close"
  /\ fdTable' = CloseFd(clientSocket[w])
  /\ GoTo(w, "post")
  /\ UNCHANGED <<env, backlog, peer, inbox, outbox, cacheVars, frame, exited,
                 running, thread_semaphore, clientSocket, mainPc>>

\* Mutant: only the way out gives the permit back.
SemPostOnlyLeaving(w) ==
  /\ pc[w] \in {"post", "leave"}
  /\ thread_semaphore' = IF pc[w] = "leave" THEN thread_semaphore + 1
                                            ELSE thread_semaphore
  /\ GoTo(w, IF pc[w] = "post" THEN "loop" ELSE "ended")
  /\ UNCHANGED <<handlerVars, running, clientSocket, mainPc>>

\* sem_post: at the end of a round, or on the way out.
SemPost(w) ==
  /\ pc[w] \in {"post", "leave"}
  /\ thread_semaphore' = thread_semaphore + 1
  /\ GoTo(w, IF pc[w] = "post" THEN "loop" ELSE "ended")
  /\ UNCHANGED <<handlerVars, running, clientSocket, mainPc>>

WorkerStep(w) ==
  \/ Loop(w) \/ SemWait(w) \/ CheckRunning(w) \/ Accept(w) \/ AcceptFails(w)
  \/ DataFromClient(w) \/ Return(w) \/ CloseAgain(w) \/ SemPost(w)

-----------------------------------------------------------------------------

\* start with a socket: the signal handler is installed.
Listen ==
  /\ mainPc = "listen"
  /\ Listens
  /\ mainPc' = "spawn"
  /\ UNCHANGED <<handlerVars, running, thread_semaphore, pc, clientSocket>>

\* start without one throws, and main returns 1.
ListenFails ==
  /\ mainPc = "listen"
  /\ ~Listens
  /\ mainPc' = "failed"
  /\ UNCHANGED <<handlerVars, running, thread_semaphore, pc, clientSocket>>

\* pthread_create: the workers run while others are still to be created.
Spawn ==
  /\ mainPc = "spawn"
  /\ \E w \in Workers :
       /\ pc[w] = "unborn"
       /\ GoTo(w, "loop")
       /\ mainPc' = IF \A v \in Workers \ {w} : pc[v] # "unborn"
                      THEN "join" ELSE "spawn"
  /\ UNCHANGED <<handlerVars, running, thread_semaphore, clientSocket>>

\* sigint_handler
Sigint ==
  /\ mainPc \in {"spawn", "join"}
  /\ running
  /\ running' = FALSE
  /\ UNCHANGED <<handlerVars, thread_semaphore, pc, clientSocket, mainPc>>

\* Mutant: start does not wait for the workers.
JoinNobody ==
  /\ mainPc = "join"
  /\ ~running
  /\ mainPc' = "returned"
  /\ UNCHANGED <<handlerVars, running, thread_semaphore, pc, clientSocket>>

\* start has joined every worker; it destroys the semaphore and returns.
JoinWorkers ==
  /\ mainPc = "join"
  /\ \A w \in Workers : pc[w] = "ended"
  /\ mainPc' = "returned"
  /\ UNCHANGED <<handlerVars, running, thread_semaphore, pc, clientSocket>>

\* Clients can connect from listen to the end of start.
Outside ==
  /\ mainPc \in {"spawn", "join"}
  /\ OutsideStep
  /\ UNCHANGED <<running, thread_semaphore, pc, clientSocket, mainPc>>

MainStep == Listen \/ ListenFails \/ Spawn \/ JoinWorkers

Next ==
  /\ ProcessRuns
  /\ \/ \E w \in Workers : WorkerStep(w)
     \/ MainStep
     \/ Sigint
     \/ Outside

Spec == Init /\ [][Next]_vars

-----------------------------------------------------------------------------

\* The workers that have a permit.
Holders ==
  {w \in Workers : pc[w] \in {"check", "accept", "handle", "close", "post",
                              "leave"}}

\* Every path out of the loop's body gives its permit back, once
\* (SemaphoreServer.cpp:39-71).
PermitsConserved == thread_semaphore + Cardinality(Holders) = NumThreads

\* After SIGINT every worker leaves its loop, unless the process ends first: the
\* handler's other waits end, permits come back (SemaphoreServer.cpp:37-45, 71).
\* Only a worker that is blocked in accept, or held up by a silent client, may stay,
\* and start with it.
WorkersNoticeSigint ==
  \A w \in Workers :
    ~running ~> pc[w] \in {"ended", "accept"} \/ IsHeldUp(w) \/ ~ProcessRuns

=============================================================================
