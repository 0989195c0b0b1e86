------------------------------ MODULE V1Server ------------------------------
(***************************************************************************)
(* v1/proxy_server_with_threadpool_and_cache.c as a whole: the workers of  *)
(* ClientQueue, each of whose handle_client runs over the one cache of     *)
(* ListCache.                                                              *)
(***************************************************************************)
EXTENDS ClientQueue

CONSTANTS Threads, NoThread, Urls, NoUrl, ElementSize, MaxSize, MaxElementSize

ASSUME V1Assumption ==
  /\ IsFiniteSet(Threads) /\ NoThread \notin Threads
  /\ Workers \subseteq Threads
  /\ NoUrl \notin Urls
  /\ ElementSize \in [Urls -> Nat \ {0}]
  /\ MaxSize \in Nat /\ MaxElementSize \in Nat /\ MaxElementSize <= MaxSize

VARIABLES
  lock, elements, cache_size, step, url,  \* of ListCache
  stopped                                 \* the process has ended

Cache == INSTANCE ListCache

cacheVars == <<lock, elements, cache_size, step, url>>

v1Vars == <<vars, cacheVars, stopped>>

V1TypeOK == TypeOK /\ Cache!CacheTypeOK /\ stopped \in BOOLEAN

V1Init == Init /\ Cache!CacheInit /\ stopped = FALSE

-----------------------------------------------------------------------------

\* A step of main, or of a worker inside dequeue.
QueueStep(Step) == Step /\ UNCHANGED <<cacheVars, stopped>>

\* handle_client: its first step, those in between, and its last.
BeginHandling(w) ==
  /\ pc[w] = "handle"
  /\ Cache!Receive(w)
  /\ UNCHANGED <<vars, stopped>>

KeepHandling(w) ==
  /\ Cache!CacheStep(w)
  /\ UNCHANGED <<vars, stopped>>

EndHandling(w) ==
  /\ Cache!Return(w)
  /\ HandleClient(w)
  /\ UNCHANGED stopped

\* main exits because accept fails, or send to a client that has left ends the
\* process: by SIGPIPE, or by the -1 it returns, taken for the number of bytes to
\* copy.
Stop ==
  /\ new_node = NULL \/ \E w \in Workers : step[w] \in {"fetch", "answered"}
  /\ stopped' = TRUE
  /\ UNCHANGED <<vars, cacheVars>>

MainStep == QueueStep(Enqueue)

V1Worker(w) ==
  \/ QueueStep(Wait(w))
  \/ QueueStep(Dequeue(w))
  \/ BeginHandling(w)
  \/ KeepHandling(w)
  \/ EndHandling(w)

V1Next ==
  /\ ~stopped
  /\ \/ QueueStep(Accept)
     \/ MainStep
     \/ \E w \in Workers : V1Worker(w)
     \/ QueueStep(SpuriousWakeup)
     \/ Stop

\* While the process runs, threads that can run do run, clients send or leave,
\* and origins answer or fail.  Nobody has to connect.
V1Spec ==
  /\ V1Init /\ [][V1Next]_v1Vars
  /\ WF_v1Vars(~stopped /\ MainStep)
  /\ \A w \in Workers : WF_v1Vars(~stopped /\ V1Worker(w))

-----------------------------------------------------------------------------

SizeIsAccounted == Cache!SizeIsAccounted

\* add does not look whether the url is cached, so workers that missed it together
\* add it together; but no url is listed more often than there are workers, since
\* whoever asks later finds it (v1/proxy_server_with_threadpool_and_cache.c:310-327,
\* 471-504, 570-579).
DuplicatesOnlyFromRaces ==
  \A u \in Urls : Cache!CopiesOf(u) <= Cardinality(Workers)

\* Some thread waits in remove_cache_element for the lock it has: from then on
\* nobody gets past find.
IsFull == \E t \in Threads : step[t] = "remove"

\* Every client that was accepted is handled in the end, however the signals and
\* the workers' own rounds fall (lines 249-286, 382-390, 441-466), unless the
\* cache has become full for somebody (lines 564-568) or the process has ended.
EveryClientIsHandled ==
  \A k \in 1..MaxClients : accepted >= k ~> k \in done \/ IsFull \/ stopped

=============================================================================
