-------------------------- MODULE ThreadPoolServer --------------------------
(***************************************************************************)
(* ThreadPoolServer.cpp: the main thread accepts connections for ever and  *)
(* enqueues one task for each; the workers of the pool, which ThreadPool   *)
(* shows to be a TaskQueue, run handleClient on them.                      *)
(***************************************************************************)
EXTENDS ClientHandler

CONSTANT NoTask  \* a worker of the pool that runs nothing

ASSUME ServerAssumption == NoTask \notin Fds

VARIABLES tasks, running  \* the pool's queue, and what its workers run

vars == <<handlerVars, tasks, running>>

\* A task is a call of handleClient, known by the descriptor it is called with.
Pool == INSTANCE TaskQueue WITH Tasks <- Fds

TypeOK ==
  /\ HandlerTypeOK
  /\ tasks \in Seq(Fds)
  /\ running \in [Workers -> Fds \cup {NoTask}]

Init == HandlerInit /\ Pool!Init

Accept ==
  /\ backlog # <<>>
  /\ FreeFds # {}
  /\ backlog' = Tail(backlog)
  /\ fdTable' = [fdTable EXCEPT ![LowestFd] = Head(backlog)]
  /\ Pool!Submit(LowestFd)
  /\ UNCHANGED <<env, peer, inbox, outbox, cacheVars, frame, exited>>

\* Mutant: a task is enqueued although accept failed.
AcceptFailsUnnoticed ==
  /\ FreeFds = {}
  /\ Pool!Submit(NoFd)
  /\ UNCHANGED handlerVars

\* accept returns -1 when no descriptor is free, and always when start has got no
\* socket, which it does not look at; the loop goes round.
AcceptFails ==
  /\ FreeFds = {} \/ ~Listens
  /\ UNCHANGED vars

StartTask(w) ==
  /\ Pool!Start(w)
  /\ Call(w, Head(tasks))
  /\ UNCHANGED <<socketVars, cacheVars, exited>>

HandleClient(w) ==
  /\ HandlerStep(w)
  /\ UNCHANGED <<tasks, running>>

FinishTask(w) ==
  /\ frame[w].pc = "return"
  /\ frame' = [frame EXCEPT ![w] = IdleFrame]
  /\ Pool!Finish(w)
  /\ UNCHANGED <<socketVars, cacheVars, exited>>

WorkerStep(w) == StartTask(w) \/ HandleClient(w) \/ FinishTask(w)

Outside == Listens /\ OutsideStep /\ UNCHANGED <<tasks, running>>

Next ==
  /\ ProcessRuns
  /\ \/ Accept
     \/ AcceptFails
     \/ \E w \in Workers : WorkerStep(w)
     \/ Outside

Spec == Init /\ [][Next]_vars

-----------------------------------------------------------------------------

\* The workers whose handler has fd as the client's or as the origin's socket.
ClientSide(fd) ==
  {w \in Workers : /\ frame[w].pc \notin {"idle", "return"}
                   /\ frame[w].newsockfd = fd}
OriginSide(fd) ==
  {w \in Workers : /\ frame[w].pc \in {"forward", "relay", "add", "closeServer"}
                   /\ frame[w].iServerfd = fd}
Queued(fd) == {i \in DOMAIN tasks : tasks[i] = fd}

\* Every descriptor in use is waiting in the queue or belongs to one worker, and
\* leads to the connection its owner opened: none is leaked on any of the
\* handler's paths, closed twice, or closed by someone else
\* (ThreadPoolServer.cpp:25-33, 122-131).
DescriptorsHaveOneOwner ==
  \A fd \in Fds :
    /\ Cardinality(Queued(fd)) + Cardinality(ClientSide(fd))
         + Cardinality(OriginSide(fd)) = IF fdTable[fd] = Closed THEN 0 ELSE 1
    /\ Queued(fd) # {} \/ ClientSide(fd) # {} => fdTable[fd] \in Clients
    /\ \A w \in OriginSide(fd) : fdTable[fd] = w

=============================================================================
