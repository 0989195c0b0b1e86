----------------------------- MODULE V1PoolProxy -----------------------------
(***************************************************************************)
(* v1/proxy2.cpp, from which ThreadPoolServer was made: the same pool and  *)
(* accept loop, with the handler of V1Handler.  The task that main         *)
(* enqueues closes the client's descriptor, which datafromclient has       *)
(* closed before, so that main may have got the number for another client  *)
(* in between.  It and ThreadPoolServer are one module here, told apart by *)
(* env.program.                                                            *)
(***************************************************************************)
EXTENDS ThreadPoolServer, V1Handler

IsV1 == env.program = "proxy2"

\* The class LRUCache of this program, statement by statement that of LRUCache.cpp,
\* and its class ThreadPool, as ThreadPool.cpp.
V1Cache == INSTANCE LRUCache WITH Values <- Responses
V1Pool == INSTANCE TaskQueue WITH Tasks <- Fds

\* accept returns -1 for want of a descriptor; without a socket main has returned 1.
V1AcceptFails ==
  /\ FreeFds = {} /\ Listens
  /\ UNCHANGED vars

\* datafromclient, and the functions it calls.
V1DataFromClient(w) ==
  /\ V1Request(w)
  /\ UNCHANGED <<tasks, running>>

V1Socket(w) ==
  /\ V1Transfer(w)
  /\ UNCHANGED <<tasks, running>>

\* close(newsockfd) in the task, which ends with it.
CloseAgain(w) ==
  /\ frame[w].pc = "return"
  /\ fdTable' = CloseFd(frame[w].newsockfd)
  /\ frame' = [frame EXCEPT ![w] = IdleFrame]
  /\ V1Pool!Finish(w)
  /\ UNCHANGED <<env, backlog, peer, inbox, outbox, cacheVars, exited>>

V1WorkerStep(w) ==
  StartTask(w) \/ V1DataFromClient(w) \/ V1Socket(w) \/ CloseAgain(w)

\* The worker of whichever program runs.
EitherWorkerStep(w) ==
  \/ ~IsV1 /\ WorkerStep(w)
  \/ IsV1 /\ V1WorkerStep(w)

EitherNext ==
  /\ ProcessRuns
  /\ \/ Accept
     \/ ~IsV1 /\ AcceptFails
     \/ IsV1 /\ V1AcceptFails
     \/ \E w \in Workers : EitherWorkerStep(w)
     \/ Outside

\* Threads that can run do run, and origins answer.  Clients need not do anything.
EitherSpec ==
  /\ Init /\ [][EitherNext]_vars
  /\ WF_vars(ProcessRuns /\ Accept)
  /\ \A w \in Workers : /\ WF_vars(ProcessRuns /\ EitherWorkerStep(w))
                        /\ WF_vars(ProcessRuns /\ Answer(w) /\ Outside)

-----------------------------------------------------------------------------

AllHeldUp == \A w \in Workers : IsHeldUp(w)

\* ThreadPoolServer.cpp:12, "after every response is sent to client we close the
\* connection . objective here to make sure other clients get turn too": every
\* client that has sent its request gets its turn, unless every worker is held up for
\* ever by a client that stays silent, since a worker waits without a limit
\* (ThreadPoolServer.cpp:57-59) - or, in the first version, the process ends over a
\* second close (v1/proxy2.cpp:503-506).
EveryClientGetsATurn ==
  \A c \in Clients :
    \/ <>[]AllHeldUp
    \/ peer[c] = "sent" ~> Served(c) \/ (IsV1 /\ ~ProcessRuns)

=============================================================================
