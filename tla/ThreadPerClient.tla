--------------------------- MODULE ThreadPerClient ---------------------------
(***************************************************************************)
(* The two C programs that came before the thread pool,                    *)
(* v1/proxy_server_with_cache.c and v1/proxy_server_without_cache.c.  main *)
(* accepts a client, stores its socket in the next slot of an array and    *)
(* creates a thread that is given the address of the slot.  The thread     *)
(* takes a permit of the semaphore, handles the client as handle_client    *)
(* does in V1Server, over the same cache, and gives the permit back.  What *)
(* V1Server has and these two are one module here, told apart by `program'. *)
(*                                                                         *)
(* The arrays have MAX_CLIENTS slots and slots are never used again.  What *)
(* a program does behind the end of its arrays is undefined; the models    *)
(* stop there.  A thread goes by the number of its slot, a client by the   *)
(* order in which it was accepted.                                         *)
(***************************************************************************)
EXTENDS V1Server

CONSTANTS NoSocket,  \* a thread that has not read its slot
          MaxFds     \* descriptors the process may have for connections

ASSUME PerClientAssumption ==
  /\ Threads = 1..Cardinality(Threads)
  /\ NoSocket \notin Nat
  /\ MaxFds \in Nat

VARIABLES
  program,             \* fixed: the program that runs
  i,                   \* clients accepted: slots used
  Connected_socketId,  \* the array
  socket,              \* the client each thread has read from its slot
  seamaphore,          \* its value
  place,               \* where each thread is in thread_fn
  open,                \* descriptors of connections in use
  failed               \* history: connections to origins that failed

threadVars == <<i, Connected_socketId, socket, seamaphore, place, open, failed>>
allVars == <<v1Vars, program, threadVars>>

MAX_CLIENTS == Cardinality(Threads)

PerClientTypeOK ==
  /\ V1TypeOK
  /\ program \in {"threadpool", "with_cache", "without_cache"}
  /\ i \in 0..MAX_CLIENTS
  /\ Connected_socketId \in [Threads -> 0..MAX_CLIENTS]
  /\ socket \in [Threads -> (1..MAX_CLIENTS) \cup {NoSocket}]
  /\ seamaphore \in 0..MAX_CLIENTS
  /\ place \in [Threads -> {"none", "wait", "handle", "post", "ended"}]
  /\ open \in 0..MaxFds
  /\ failed \in 0..MAX_CLIENTS

AllInit ==
  /\ V1Init
  /\ program \in {"threadpool", "with_cache", "without_cache"}
  /\ i = 0
  /\ Connected_socketId = [t \in Threads |-> 0]
  /\ socket = [t \in Threads |-> NoSocket]
  /\ seamaphore = MAX_CLIENTS
  /\ place = [t \in Threads |-> "none"]
  /\ open = 0
  /\ failed = 0

MoveTo(t, label) == place' = [place EXCEPT ![t] = label]

-----------------------------------------------------------------------------
(* main                                                                    *)

\* accept, the slot and pthread_create, whose result is not looked at: the client
\* may get no thread.
AcceptClient ==
  /\ i < MAX_CLIENTS
  /\ open < MaxFds
  /\ i' = i + 1
  /\ Connected_socketId' = [Connected_socketId EXCEPT ![i + 1] = i + 1]
  /\ open' = open + 1
  /\ MoveTo(i + 1, "wait") \/ UNCHANGED place
  /\ UNCHANGED <<v1Vars, program, socket, seamaphore, failed>>

\* accept fails for want of a descriptor, and main exits; or it succeeds once more
\* than the arrays have slots.
MainStops ==
  /\ open = MaxFds \/ i = MAX_CLIENTS
  /\ stopped' = TRUE
  /\ UNCHANGED <<vars, cacheVars, program, threadVars>>

-----------------------------------------------------------------------------
(* thread_fn                                                               *)

\* Mutant: the threads are given the address of main's variable.
SemWaitSharing(t) ==
  /\ place[t] = "wait"
  /\ seamaphore > 0
  /\ seamaphore' = seamaphore - 1
  /\ socket' = [socket EXCEPT ![t] = Connected_socketId[i]]
  /\ MoveTo(t, "handle")
  /\ UNCHANGED <<v1Vars, program, i, Connected_socketId, open, failed>>

\* sem_wait, and the socket is read from the slot.
SemWait(t) ==
  /\ place[t] = "wait"
  /\ seamaphore > 0
  /\ seamaphore' = seamaphore - 1
  /\ socket' = [socket EXCEPT ![t] = Connected_socketId[t]]
  /\ MoveTo(t, "handle")
  /\ UNCHANGED <<v1Vars, program, i, Connected_socketId, open, failed>>

\* A step of the handler over the cache, with the descriptors it opens (1), closes
\* (-1) or leaves alone.
Handling(Step, opens) ==
  /\ Step
  /\ open' = open + opens
  /\ open' <= MaxFds
  /\ UNCHANGED <<vars, stopped, program, i, Connected_socketId, socket,
                 seamaphore, place>>

ReceiveRequest(t) ==
  /\ place[t] = "handle"
  /\ Handling(Cache!Receive(t), 0)
  /\ UNCHANGED failed

\* find.  The key, tempReq, is not terminated: behind the request may be anything,
\* and a request that is cached may not be found.  Without the cache nothing is.
LookUp(t) ==
  /\ Handling(Cache!Find(t) \/ Cache!FindGarbled(t), 0)
  /\ UNCHANGED failed

\* No request, no GET, or no descriptor for the origin.
Refuse(t) ==
  /\ Handling(Cache!NoResponse(t), 0)
  /\ UNCHANGED failed

\* connectRemoteServer has a socket and fails; it does not close it.
ConnectFails(t) ==
  /\ Handling(Cache!NoResponse(t), 1)
  /\ failed' = failed + 1

\* handle_request has connected and relayed the response; the version without the
\* cache returns, and does not close the origin's socket.
RelayResponse(t) ==
  /\ \/ program = "with_cache" /\ Handling(Cache!Relay(t), 1)
     \/ program = "without_cache" /\ Handling(Cache!NoResponse(t), 1)
  /\ UNCHANGED failed

\* Mutant: the origin's socket is not closed, as in the version without the cache.
AddWithoutClosing(t) ==
  /\ Handling(Cache!Add(t) \/ Cache!AddTooLarge(t), 0)
  /\ UNCHANGED failed

\* add_cache_element, and the origin's socket is closed.
AddAndClose(t) ==
  /\ Handling(Cache!Add(t) \/ Cache!AddTooLarge(t), -1)
  /\ UNCHANGED failed

\* add_cache_element calls remove_cache_element with the lock, which never returns.
AddForEver(t) ==
  /\ Handling(Cache!AddToFull(t), 0)
  /\ UNCHANGED failed

\* shutdown and close of the client's socket.
CloseSocket(t) ==
  /\ Cache!Return(t)
  /\ open' = open - 1
  /\ MoveTo(t, "post")
  /\ UNCHANGED <<vars, stopped, program, i, Connected_socketId, socket,
                 seamaphore, failed>>

SemPost(t) ==
  /\ place[t] = "post"
  /\ seamaphore' = seamaphore + 1
  /\ MoveTo(t, "ended")
  /\ UNCHANGED <<v1Vars, program, i, Connected_socketId, socket, open, failed>>

ThreadStep(t) ==
  \/ SemWait(t) \/ ReceiveRequest(t) \/ LookUp(t) \/ Refuse(t)
  \/ ConnectFails(t) \/ RelayResponse(t) \/ AddAndClose(t) \/ AddForEver(t)
  \/ CloseSocket(t) \/ SemPost(t)

\* send to a client or an origin that has left: SIGPIPE.
ThreadStops ==
  /\ \E t \in Threads : step[t] \in {"fetch", "answered"}
  /\ stopped' = TRUE
  /\ UNCHANGED <<vars, cacheVars, program, threadVars>>

PerClientNext ==
  /\ ~stopped
  /\ \/ AcceptClient
     \/ MainStops
     \/ \E t \in Threads : ThreadStep(t)
     \/ ThreadStops

AllNext ==
  \/ program = "threadpool" /\ V1Next /\ UNCHANGED <<program, threadVars>>
  \/ program # "threadpool" /\ PerClientNext

\* While the process runs, threads that can run do run, clients send or leave, and
\* origins answer or fail.  Nobody has to connect.
AllSpec ==
  /\ AllInit /\ [][AllNext]_allVars
  /\ WF_allVars(program = "threadpool" /\ ~stopped /\ MainStep
                  /\ UNCHANGED <<program, threadVars>>)
  /\ \A w \in Workers :
       /\ WF_allVars(program = "threadpool" /\ ~stopped /\ V1Worker(w)
                       /\ UNCHANGED <<program, threadVars>>)
  /\ \A t \in Threads :
       WF_allVars(program # "threadpool" /\ ~stopped /\ ThreadStep(t))

-----------------------------------------------------------------------------

\* The same in the version with the cache, where a request that is cached may not be
\* found, does not hold (see LookUp).
CopiesAreFromRaces == program # "with_cache" => DuplicatesOnlyFromRaces

\* The clients whose sockets are open: those that wait for a permit, are handled,
\* or have got no thread.
Unfinished == {t \in 1..i : place[t] \in {"none", "wait", "handle"}}

\* Until main runs off its arrays, every thread handles the client it was created
\* for, although main goes on to the next before the thread has looked
\* (v1/proxy_server_with_cache.c:248-249, 441, 451); no thread ever waits for the
\* semaphore, since there are not more threads than permits; and in the version
\* with the cache the descriptors in use are the sockets of unfinished clients, of
\* the origins of those being answered, and of the connections that failed, which
\* nobody closes (lines 118-139, 220, 356).
ThreadsKeepToTheirClients ==
  /\ \A t \in Threads : socket[t] \in {NoSocket, t}
  /\ \A t \in Threads : place[t] = "wait" => seamaphore > 0
  /\ program = "with_cache" =>
       open = Cardinality(Unfinished) + failed
                + Cardinality({t \in Threads : step[t] \in {"add", "remove"}})

\* In the other programs too every client that was accepted is handled in the end
\* and its socket closed, unless no thread could be created for it, which nobody
\* looks at (v1/proxy_server_with_cache.c:451), or one of the reasons of
\* EveryClientIsHandled.
EveryClientIsSeenTo ==
  /\ EveryClientIsHandled
  /\ \A t \in Threads :
       i >= t ~> place[t] \in {"none", "ended"} \/ IsFull \/ stopped

=============================================================================
