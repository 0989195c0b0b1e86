---------------------------- MODULE ClientHandler ----------------------------
(***************************************************************************)
(* What a worker does with one connection: ThreadPoolServer::handleClient  *)
(* (and SemaphoreServer::datafromclient, the same statements), with        *)
(* writeToClient and the other functions of ProxyUtils.cpp it calls, over  *)
(* the LRU cache and the sockets.  The servers differ in how a worker gets *)
(* a connection and in what it does after the handler returns.             *)
(*                                                                         *)
(* One action is what a thread does between two system calls or cache      *)
(* operations.  frame[w] is the stack frame of worker w.                   *)
(***************************************************************************)
EXTENDS Sockets

CONSTANTS Urls, KeyOf,  \* cache keys: host and path of a resource, no port
          Cells, Free, Capacities,  \* as in LRUCache
          Null,         \* nullptr
          NoRequest     \* no request has been parsed

ASSUME HandlerAssumption ==
  /\ KeyOf \in [Resources -> Urls]
  /\ Free \notin [url : Urls, data : Seq(Items)]
  /\ Capacities \subseteq Nat
  /\ Null \notin Cells
  /\ NoRequest \notin Resources

VARIABLES
  capacity, cache_list, cache_map, heap, crashed,  \* the shared cache
  frame,   \* the locals of each worker's handler
  exited   \* how the process ended, "no" while it runs

cacheVars == <<capacity, cache_list, cache_map, heap, crashed>>
handlerVars == <<socketVars, cacheVars, frame, exited>>

Responses == Seq(Items)

Cache == INSTANCE LRUCache WITH Values <- Responses

HandlerPcs == {"idle", "recv", "find", "serve", "connect", "forward", "relay",
               "add", "closeServer", "closeClient", "return"}

Frames ==
  [pc : HandlerPcs,
   newsockfd : Fds \cup {NoFd},         \* the client's socket
   req : Resources \cup {NoRequest},
   cached_response : Cells \cup {Null},
   iServerfd : Fds \cup {NoFd},         \* the origin's socket
   response : Responses]

HandlerTypeOK ==
  /\ SocketsTypeOK
  /\ Cache!TypeOK
  /\ frame \in [Workers -> Frames]
  /\ exited \in {"no", "exit(0)", "exit(1)", "SIGPIPE"}

IdleFrame ==
  [pc |-> "idle", newsockfd |-> NoFd, req |-> NoRequest,
   cached_response |-> Null, iServerfd |-> NoFd, response |-> <<>>]

HandlerInit ==
  /\ SocketsInit
  /\ Cache!Init
  /\ frame = [w \in Workers |-> IdleFrame]
  /\ exited = "no"

ProcessRuns == exited = "no" /\ ~crashed

\* createServerSocket(port) gets its socket, and clients can connect.
Listens == "portTaken" \notin env.faults

\* handleClient(fd) is called.
Call(w, fd) ==
  frame' = [frame EXCEPT ![w] =
              [IdleFrame EXCEPT !.pc = "recv", !.newsockfd = fd]]

Goto(w, label) == frame' = [frame EXCEPT ![w].pc = label]

\* writeToSocket, without a signal handler for SIGPIPE: the items reach a
\* connected peer; after the peer has gone they are lost, with an error that is
\* only printed, or the signal ends the process; a bad descriptor only fails.
Send(fd, items) ==
  LET e == Behind(fd) IN
  IF e # Closed /\ IsUp(e)
    THEN /\ outbox' = [outbox EXCEPT ![e] = @ \o items]
         /\ UNCHANGED exited
    ELSE /\ UNCHANGED outbox
         /\ \/ UNCHANGED exited
            \/ e # Closed /\ items # <<>> /\ exited' = "SIGPIPE"

-----------------------------------------------------------------------------
(* Reading the request.                                                    *)

\* The loop ends with a whole request, which parses, and the request is built
\* again; or with something else, which does not, and the process exits.
RecvRequest(w) ==
  /\ frame[w].pc = "recv"
  /\ HasData(frame[w].newsockfd)
  /\ LET e == Behind(frame[w].newsockfd) IN
       /\ inbox' = [inbox EXCEPT ![e] = Tail(@)]
       /\ LET item == Head(inbox[e]) IN
            \/ /\ item.type = "request"
               /\ frame' = [frame EXCEPT ![w].pc = "find", ![w].req = item.of]
               /\ UNCHANGED exited
            \/ /\ item.type # "request"
               /\ exited' = "exit(0)"
               /\ UNCHANGED frame
  /\ UNCHANGED <<env, backlog, fdTable, peer, outbox, cacheVars>>

\* recv returns 0 before the request is whole: what there is does not parse.
RecvEnd(w) ==
  /\ frame[w].pc = "recv"
  /\ HasEnded(frame[w].newsockfd)
  /\ exited' = "exit(0)"
  /\ UNCHANGED <<socketVars, cacheVars, frame>>

\* recv returns -1.
RecvError(w) ==
  /\ frame[w].pc = "recv"
  /\ IsBroken(frame[w].newsockfd)
  /\ exited' = "exit(1)"
  /\ UNCHANGED <<socketVars, cacheVars, frame>>

-----------------------------------------------------------------------------
(* Answering from the cache.                                               *)

Key(w) == KeyOf[frame[w].req]

\* cache->find, under the cache's mutex; the pointer outlives the lock.
FindInCache(w) ==
  /\ frame[w].pc = "find"
  /\ \/ /\ Cache!FindHit(Key(w))
        /\ frame' = [frame EXCEPT ![w].pc = "serve",
                                  ![w].cached_response = cache_map[Key(w)]]
     \/ Cache!FindMiss(Key(w)) /\ Goto(w, "connect")
  /\ UNCHANGED <<socketVars, exited>>

\* Mutant: only the first buffer of the element is written.
ServeFirstPart(w) ==
  /\ frame[w].pc = "serve"
  /\ heap[frame[w].cached_response] # Free
  /\ LET data == heap[frame[w].cached_response].data IN
       Send(frame[w].newsockfd,
            IF data = <<>> THEN <<>> ELSE <<Head(data)>>)
  /\ Goto(w, "closeClient")
  /\ UNCHANGED <<env, backlog, fdTable, peer, inbox, cacheVars>>

\* writeToClientSocket reads through the pointer.  If the element has been
\* freed meanwhile the memory may still hold anything, and may not be there.
ServeCached(w) ==
  /\ frame[w].pc = "serve"
  /\ LET element == heap[frame[w].cached_response] IN
       \/ /\ element # Free
          /\ Send(frame[w].newsockfd, element.data)
          /\ UNCHANGED crashed
       \/ /\ element = Free
          /\ \/ Send(frame[w].newsockfd, <<Garbage>>) /\ UNCHANGED crashed
             \/ crashed' = TRUE /\ UNCHANGED <<outbox, exited>>
  /\ Goto(w, "closeClient")
  /\ UNCHANGED <<env, backlog, fdTable, peer, inbox, capacity, cache_list,
                 cache_map, heap>>

-----------------------------------------------------------------------------
(* Fetching from the origin.                                               *)

\* createServerSocket(host, port)
ConnectToOrigin(w) ==
  /\ frame[w].pc = "connect"
  /\ FreeFds # {}
  /\ fdTable' = [fdTable EXCEPT ![LowestFd] = w]
  /\ peer' = [peer EXCEPT ![w] = "connected"]
  /\ inbox' = [inbox EXCEPT ![w] = <<>>]
  /\ outbox' = [outbox EXCEPT ![w] = <<>>]
  /\ frame' = [frame EXCEPT ![w].pc = "forward", ![w].iServerfd = LowestFd]
  /\ UNCHANGED <<env, backlog, cacheVars, exited>>

CannotConnect == FreeFds = {} \/ "unreachable" \in env.faults

\* What the first version does instead (V1Handler), and so a mutant: the process
\* ends.
ConnectFailsExits(w) ==
  /\ frame[w].pc = "connect"
  /\ CannotConnect
  /\ exited' = "exit(1)"
  /\ UNCHANGED <<socketVars, cacheVars, frame>>

\* Without a free descriptor, or under the fault "unreachable", it returns -1,
\* which nobody tests.
ConnectFails(w) ==
  /\ frame[w].pc = "connect"
  /\ CannotConnect
  /\ Goto(w, "forward")
  /\ UNCHANGED <<socketVars, cacheVars, exited>>

\* writeToServerSocket
ForwardRequest(w) ==
  /\ frame[w].pc = "forward"
  /\ Send(frame[w].iServerfd, <<Request(frame[w].req)>>)
  /\ Goto(w, "relay")
  /\ UNCHANGED <<env, backlog, fdTable, peer, inbox, cacheVars>>

\* One round of writeToClient's loop: recv, append, and on to the client.
RelayPart(w) ==
  /\ frame[w].pc = "relay"
  /\ HasData(frame[w].iServerfd)
  /\ LET e == Behind(frame[w].iServerfd) IN
       /\ inbox' = [inbox EXCEPT ![e] = Tail(@)]
       /\ frame' = [frame EXCEPT ![w].response = Append(@, Head(inbox[e]))]
       /\ Send(frame[w].newsockfd, <<Head(inbox[e])>>)
  /\ UNCHANGED <<env, backlog, fdTable, peer, cacheVars>>

\* recv returns 0: what has come is taken for the whole response.
RelayEnd(w) ==
  /\ frame[w].pc = "relay"
  /\ HasEnded(frame[w].iServerfd)
  /\ Goto(w, "add")
  /\ UNCHANGED <<socketVars, cacheVars, exited>>

\* Mutant: what has come is cached.
RelayErrorAdds(w) ==
  /\ frame[w].pc = "relay"
  /\ IsBroken(frame[w].iServerfd)
  /\ Goto(w, "add")
  /\ UNCHANGED <<socketVars, cacheVars, exited>>

\* What the first version does instead, and so a mutant: the process ends.
RelayErrorExits(w) ==
  /\ frame[w].pc = "relay"
  /\ IsBroken(frame[w].iServerfd)
  /\ exited' = "exit(1)"
  /\ UNCHANGED <<socketVars, cacheVars, frame>>

\* recv returns -1: nothing is cached.
RelayError(w) ==
  /\ frame[w].pc = "relay"
  /\ IsBroken(frame[w].iServerfd)
  /\ Goto(w, "closeServer")
  /\ UNCHANGED <<socketVars, cacheVars, exited>>

\* cache.add, under the cache's mutex.
AddToCache(w) ==
  /\ frame[w].pc = "add"
  /\ Cache!Add(Key(w), frame[w].response)
  /\ Goto(w, "closeServer")
  /\ UNCHANGED <<socketVars, exited>>

-----------------------------------------------------------------------------
(* Cleaning up.                                                            *)

\* Mutant: the origin's socket is not closed.
CloseServerNot(w) ==
  /\ frame[w].pc = "closeServer"
  /\ Goto(w, "closeClient")
  /\ UNCHANGED <<socketVars, cacheVars, exited>>

CloseServer(w) ==
  /\ frame[w].pc = "closeServer"
  /\ fdTable' = CloseFd(frame[w].iServerfd)
  /\ Goto(w, "closeClient")
  /\ UNCHANGED <<env, backlog, peer, inbox, outbox, cacheVars, exited>>

\* Mutant: the client's socket is not closed.
CloseClientNot(w) ==
  /\ frame[w].pc = "closeClient"
  /\ Goto(w, "return")
  /\ UNCHANGED <<socketVars, cacheVars, exited>>

CloseClient(w) ==
  /\ frame[w].pc = "closeClient"
  /\ fdTable' = CloseFd(frame[w].newsockfd)
  /\ Goto(w, "return")
  /\ UNCHANGED <<env, backlog, peer, inbox, outbox, cacheVars, exited>>

HandlerStep(w) ==
  \/ RecvRequest(w) \/ RecvEnd(w) \/ RecvError(w)
  \/ FindInCache(w) \/ ServeCached(w)
  \/ ConnectToOrigin(w) \/ ConnectFails(w) \/ ForwardRequest(w)
  \/ RelayPart(w) \/ RelayEnd(w) \/ RelayError(w) \/ AddToCache(w)
  \/ CloseServer(w) \/ CloseClient(w)

OutsideStep ==
  /\ \/ \E c \in Clients : ClientStep(c)
     \/ \E w \in Workers : Leave(w) \/ Answer(w)
  /\ UNCHANGED <<cacheVars, frame, exited>>

-----------------------------------------------------------------------------
(* What the clients may count on.                                          *)

\* The proxy has accepted c's connection and closed it again.
Served(c) ==
  /\ peer[c] # "absent"
  /\ c \notin Range(backlog) \cup Range(fdTable)

\* Worker w waits for something from a client that has nothing under way: for its
\* request or, when the number of the origin's socket has come to lead to a client
\* through a second close, for a response.
IsHeldUp(w) ==
  \E c \in Clients :
    /\ \/ frame[w].pc = "recv" /\ Behind(frame[w].newsockfd) = c
       \/ frame[w].pc = "relay" /\ Behind(frame[w].iServerfd) = c
    /\ IsUp(c) /\ inbox[c] = <<>>

Complete(r) == [i \in 1..ResponseParts |-> Part(r, i)]

\* README.md:91, "The proxy server should forward your request to the target
\* server and return the response": when the proxy is through with a client that
\* has sent its request and stayed, the client has the whole response of the
\* resource it asked for, and nothing else.
ReturnsTheResponse ==
  \A c \in Clients :
    Served(c) /\ peer[c] = "sent" => outbox[c] = Complete(RequestOf[c])

\* The same up to what a cache key can tell apart: host and path, not the port
\* (ThreadPoolServer.cpp:104-105).
ReturnsAResponseOfTheUrl ==
  \A c \in Clients :
    Served(c) /\ peer[c] = "sent" =>
      \E r \in Resources : /\ KeyOf[r] = KeyOf[RequestOf[c]]
                           /\ outbox[c] = Complete(r)

\* Clients send what they are expected to, and wait for the response.
ClientsBehave == env.faults \cap {"garbage", "hangup", "reset"} = {}

\* No url has to be evicted for another.
RoomForAll == IsFiniteSet(Urls) /\ capacity >= Cardinality(Urls)

\* As long as the cache has room for every url, so that no element is freed while
\* a worker still reads it (ThreadPoolServer.cpp:107-117), and nothing goes wrong
\* outside, the hits and misses of several workers never mix up or cut responses.
RightWhileNothingIsEvicted ==
  env.faults = {} /\ RoomForAll => ReturnsAResponseOfTheUrl

\* What is cached for a url is the response to one request for it, never a mixture,
\* however the fetches of several workers interleave; and it is the whole response,
\* although a connection that breaks leaves the part that had come
\* (ProxyUtils.cpp:166-197), unless the origin has closed early, which cannot be
\* told from being done: then it is a first part of one (line 175).
CachesWholeResponses ==
  \A u \in DOMAIN cache_map :
    \E r \in Resources, n \in 0..ResponseParts :
      /\ KeyOf[r] = u
      /\ heap[cache_map[u]].data = SubSeq(Complete(r), 1, n)
      /\ n = ResponseParts \/ "truncate" \in env.faults

\* The origin of worker w went away before it had its request.
OriginLeft(w) ==
  /\ frame[w].pc \in {"forward", "relay"}
  /\ Behind(frame[w].iServerfd) = w
  /\ peer[w] \in {"closed", "reset"}
  /\ outbox[w] = <<>>

\* The exits in the handler (ThreadPoolServer.cpp:61-65, 92-96) are reached over what
\* a client has done.  SIGPIPE (ProxyUtils.cpp:114-127) is raised over a client that
\* has left, or over an origin that left before it had its request; whatever an origin
\* does later goes wrong for its own client only.  And two workers over one cache
\* crash only when an element has to go for another (ThreadPoolServer.cpp:107-117,
\* LRUCache.cpp:77).
EndsForACause ==
  /\ exited = "exit(0)" => \/ "garbage" \in env.faults
                           \/ \E c \in Clients : peer[c] = "closed"
  /\ exited = "exit(1)" => \E c \in Clients : peer[c] = "reset"
  /\ exited = "SIGPIPE" => \/ \E c \in Clients : peer[c] \in {"closed", "reset"}
                           \/ \E w \in Workers : OriginLeft(w)
  /\ crashed => ~RoomForAll

=============================================================================
