----------------------- MODULE ThreadPoolServerProofs -----------------------
(***************************************************************************)
(* Proofs about the thread pool server, for any number of workers, clients *)
(* and descriptors, any cache and any resources: its descriptors, what it  *)
(* caches and over whom it ends, whatever clients, origins and the network *)
(* do wrong; and what clients get when they do nothing wrong.              *)
(***************************************************************************)
EXTENDS ThreadPoolServer, ClientHandlerProofs, FiniteSetTheorems

-----------------------------------------------------------------------------

IsFrame(f) ==
  /\ f = [field \in DOMAIN f |-> f[field]]
  /\ {"pc", "newsockfd", "iServerfd"} \subseteq DOMAIN f
  /\ f.pc \in HandlerPcs

Shape ==
  /\ env.fds \subseteq Fds
  /\ backlog \in Seq(Clients)
  /\ fdTable \in [Fds -> Endpoints \cup {Closed}]
  /\ frame = [w \in Workers |-> frame[w]]
  /\ \A w \in Workers : IsFrame(frame[w])
  /\ tasks \in Seq(Fds)
  /\ running = [w \in Workers |-> running[w]]
  /\ \A w \in Workers : running[w] = NoTask <=> frame[w].pc = "idle"

\* No number is waiting twice, and each leads to a client.
QueueOwns ==
  /\ \A i, j \in DOMAIN tasks : tasks[i] = tasks[j] => i = j
  /\ \A i \in DOMAIN tasks : fdTable[tasks[i]] \in Clients

\* A worker's client has a number that is nobody else's.
WorkersOwn ==
  /\ \A w \in Workers : frame[w].pc \in ServingPcs =>
       /\ frame[w].newsockfd \in Fds
       /\ fdTable[frame[w].newsockfd] \in Clients
       /\ \A i \in DOMAIN tasks : tasks[i] # frame[w].newsockfd
  /\ \A v, w \in Workers :
       /\ frame[v].pc \in ServingPcs /\ frame[w].pc \in ServingPcs
       /\ frame[v].newsockfd = frame[w].newsockfd
       => v = w

\* A worker has no descriptor for its origin, or one that leads there.
OriginsAreOwned ==
  \A w \in Workers :
    /\ frame[w].pc \in EarlyPcs => frame[w].iServerfd = NoFd
    /\ frame[w].pc \in FetchingPcs =>
         \/ frame[w].iServerfd = NoFd
         \/ frame[w].iServerfd \in Fds /\ fdTable[frame[w].iServerfd] = w

HasOwner(fd) ==
  \/ \E i \in DOMAIN tasks : tasks[i] = fd
  \/ \E w \in Workers : frame[w].pc \in ServingPcs /\ frame[w].newsockfd = fd
  \/ \E w \in Workers : frame[w].pc \in FetchingPcs /\ frame[w].iServerfd = fd

NoneIsLeaked == \A fd \in Fds : fdTable[fd] # Closed => HasOwner(fd)

Owned == Shape /\ QueueOwns /\ WorkersOwn /\ OriginsAreOwned /\ NoneIsLeaked

-----------------------------------------------------------------------------
(* What a step of a handler is, as far as the descriptors go.              *)

OthersStay(w) ==
  /\ frame' = [v \in Workers |-> frame'[v]]
  /\ \A v \in Workers \ {w} : frame'[v] = frame[v]
  /\ IsFrame(frame'[w])
  /\ frame'[w].newsockfd = frame[w].newsockfd

\* Worker w goes on with the descriptors it has.
GoesOn(w) ==
  /\ frame[w].pc \in ServingPcs /\ frame'[w].pc \in ServingPcs
  /\ frame'[w].pc \in FetchingPcs <=> frame[w].pc \in FetchingPcs
  /\ frame'[w].pc \in EarlyPcs => frame[w].pc \in EarlyPcs
  /\ frame'[w].iServerfd = frame[w].iServerfd
  /\ UNCHANGED fdTable

\* It gets one for its origin, or none.
Opens(w) ==
  /\ frame[w].pc = "connect" /\ frame'[w].pc = "forward"
  /\ FreeFds # {}
  /\ frame'[w].iServerfd = LowestFd
  /\ fdTable' = [fdTable EXCEPT ![LowestFd] = w]
GetsNone(w) ==
  /\ frame[w].pc = "connect" /\ frame'[w].pc = "forward"
  /\ frame'[w].iServerfd = frame[w].iServerfd
  /\ UNCHANGED fdTable

\* It closes the one or the other.
ClosesOrigin(w) ==
  /\ frame[w].pc = "closeServer" /\ frame'[w].pc = "closeClient"
  /\ fdTable' = CloseFd(frame[w].iServerfd)
ClosesClient(w) ==
  /\ frame[w].pc = "closeClient" /\ frame'[w].pc = "return"
  /\ fdTable' = CloseFd(frame[w].newsockfd)

\* No step of the handler does anything else.
LEMMA HandlerSteps ==
  ASSUME Shape, NEW w \in Workers, HandlerStep(w)
  PROVE  /\ OthersStay(w)
         /\ UNCHANGED <<env, backlog>>
         /\ GoesOn(w) \/ Opens(w) \/ GetsNone(w) \/ ClosesOrigin(w) \/ ClosesClient(w)
<1>1. IsFrame(frame[w]) /\ frame = [v \in Workers |-> frame[v]]
  BY DEF Shape
<1> USE <1>1 DEF IsFrame, HandlerPcs, ServingPcs, FetchingPcs, EarlyPcs,
                OthersStay, Goto
<1>2. CASE RecvRequest(w)
  BY <1>2 DEF RecvRequest, GoesOn
<1>3. CASE RecvEnd(w) \/ RecvError(w)
  BY <1>3 DEF RecvEnd, RecvError, GoesOn, socketVars
<1>4. CASE FindInCache(w)
  BY <1>4 DEF FindInCache, GoesOn, socketVars
<1>5. CASE ServeCached(w)
  BY <1>5 DEF ServeCached, GoesOn
<1>6. CASE ConnectToOrigin(w)
  BY <1>6 DEF ConnectToOrigin, Opens
<1>7. CASE ConnectFails(w)
  BY <1>7 DEF ConnectFails, GetsNone, socketVars
<1>8. CASE ForwardRequest(w)
  BY <1>8 DEF ForwardRequest, GoesOn
<1>9. CASE RelayPart(w)
  BY <1>9 DEF RelayPart, GoesOn
<1>10. CASE RelayEnd(w) \/ RelayError(w)
  BY <1>10 DEF RelayEnd, RelayError, GoesOn, socketVars
<1>11. CASE AddToCache(w)
  BY <1>11 DEF AddToCache, GoesOn, socketVars
<1>12. CASE CloseServer(w)
  BY <1>12 DEF CloseServer, ClosesOrigin
<1>13. CASE CloseClient(w)
  BY <1>13 DEF CloseClient, ClosesClient
<1> QED
  BY <1>2, <1>3, <1>4, <1>5, <1>6, <1>7, <1>8, <1>9, <1>10, <1>11, <1>12, <1>13
  DEF HandlerStep
-----------------------------------------------------------------------------
(* Owned is inductive.                                                     *)

LEMMA OwnedInit == Init => Owned
<1> SUFFICES ASSUME Init PROVE Owned
  OBVIOUS
<1> USE DEF Init, HandlerInit, SocketsInit, Pool!Init, IdleFrame
<1>1. \A w \in Workers : frame[w] = IdleFrame
  OBVIOUS
<1>2. Shape
  BY <1>1, SocketsAssumption
  DEF Shape, IsFrame, HandlerPcs, SocketsAssumption, Endpoints
<1>3. QueueOwns /\ NoneIsLeaked
  BY DEF QueueOwns, NoneIsLeaked
<1>4. WorkersOwn /\ OriginsAreOwned
  BY <1>1 DEF WorkersOwn, OriginsAreOwned, ServingPcs, FetchingPcs, EarlyPcs
<1> QED BY <1>2, <1>3, <1>4 DEF Owned

\* Every step of a handler.
LEMMA HandlerKeepsOwned ==
  ASSUME Owned, NEW w \in Workers, HandleClient(w)
  PROVE  Owned'
<1>1. /\ OthersStay(w)
      /\ UNCHANGED <<env, backlog, tasks, running>>
      /\ GoesOn(w) \/ Opens(w) \/ GetsNone(w) \/ ClosesOrigin(w) \/ ClosesClient(w)
  BY HandlerSteps DEF Owned, HandleClient
<1>2. Shape /\ QueueOwns /\ WorkersOwn /\ OriginsAreOwned /\ NoneIsLeaked
  BY DEF Owned
<1>3. frame[w].pc \in ServingPcs /\ frame'[w].pc \in HandlerPcs \ {"idle"}
  BY <1>1
  DEF OthersStay, IsFrame, GoesOn, Opens, GetsNone, ClosesOrigin, ClosesClient,
      ServingPcs, HandlerPcs
<1>4. fdTable' \in [Fds -> Endpoints \cup {Closed}]
  BY <1>1, <1>2, LowestFdIsFree
  DEF Shape, GoesOn, Opens, GetsNone, ClosesOrigin, ClosesClient, CloseFd, Endpoints
<1>5. Shape'
  <2>1. \A v \in Workers : /\ IsFrame(frame[v])'
                           /\ running[v] = NoTask <=> frame'[v].pc = "idle"
    BY <1>1, <1>2, <1>3 DEF Shape, OthersStay, ServingPcs, IsFrame
  <2> QED BY <1>1, <1>2, <1>4, <2>1 DEF Shape, OthersStay
<1> USE DEF ServingPcs, FetchingPcs, EarlyPcs, HandlerPcs, OthersStay
<1>6. CASE GoesOn(w) \/ GetsNone(w)
  <2>1. QueueOwns' /\ WorkersOwn'
    BY <1>1, <1>2, <1>3, <1>6 DEF QueueOwns, WorkersOwn, GoesOn, GetsNone
  <2>2. OriginsAreOwned'
    BY <1>1, <1>2, <1>3, <1>6 DEF OriginsAreOwned, GoesOn, GetsNone
  <2>3. NoneIsLeaked'
    BY <1>1, <1>2, <1>3, <1>6 DEF NoneIsLeaked, HasOwner, GoesOn, GetsNone
  <2> QED BY <1>5, <2>1, <2>2, <2>3 DEF Owned
<1>7. CASE Opens(w)
  <2>1. /\ LowestFd \in Fds /\ fdTable[LowestFd] = Closed
        /\ fdTable'[LowestFd] = w
        /\ \A fd \in Fds \ {LowestFd} : fdTable'[fd] = fdTable[fd]
    BY <1>2, <1>7, LowestFdIsFree DEF Opens, Shape
  <2>2. \A fd \in Fds : fdTable[fd] \in Clients \cup Workers => fd # LowestFd
    BY <2>1, SocketsAssumption DEF SocketsAssumption
  <2>3. QueueOwns'
    BY <1>1, <1>2, <2>1, <2>2 DEF QueueOwns, Shape
  <2>4. WorkersOwn'
    BY <1>1, <1>2, <1>7, <2>1, <2>2 DEF WorkersOwn, Opens
  <2>5. OriginsAreOwned'
    BY <1>1, <1>2, <1>7, <2>1, <2>2 DEF OriginsAreOwned, Opens
  <2>6. NoneIsLeaked'
    BY <1>1, <1>2, <1>7, <2>1, <2>2 DEF NoneIsLeaked, HasOwner, Opens
  <2> QED BY <1>5, <2>3, <2>4, <2>5, <2>6 DEF Owned
<1>8. CASE ClosesOrigin(w)
  <2>1. \A fd \in Fds : fdTable'[fd] =
          IF fd = frame[w].iServerfd THEN Closed ELSE fdTable[fd]
    BY <1>2, <1>8 DEF ClosesOrigin, CloseFd, Shape
  <2>2. frame[w].iServerfd \in Fds => fdTable[frame[w].iServerfd] = w
    BY <1>2, <1>8, SocketsAssumption
    DEF SocketsAssumption, OriginsAreOwned, ClosesOrigin
  <2>3. \A fd \in Fds : fdTable[fd] # w => fdTable'[fd] = fdTable[fd]
    BY <2>1, <2>2
  <2>4. w \notin Clients
    BY SocketsAssumption DEF SocketsAssumption
  <2>5. QueueOwns'
    BY <1>1, <1>2, <2>3, <2>4 DEF QueueOwns, Shape
  <2>6. WorkersOwn'
    BY <1>1, <1>2, <1>8, <2>3, <2>4 DEF WorkersOwn, ClosesOrigin
  <2>7. OriginsAreOwned'
    BY <1>1, <1>2, <1>8, <2>3, <2>4 DEF OriginsAreOwned, ClosesOrigin
  <2>8. NoneIsLeaked'
    BY <1>1, <1>2, <1>8, <2>1 DEF NoneIsLeaked, HasOwner, ClosesOrigin
  <2> QED BY <1>5, <2>5, <2>6, <2>7, <2>8 DEF Owned
<1>9. CASE ClosesClient(w)
  <2>1. \A fd \in Fds : fdTable'[fd] =
          IF fd = frame[w].newsockfd THEN Closed ELSE fdTable[fd]
    BY <1>2, <1>9 DEF ClosesClient, CloseFd, Shape
  <2>2. fdTable[frame[w].newsockfd] \in Clients /\ frame[w].newsockfd \in Fds
    BY <1>2, <1>9 DEF WorkersOwn, ClosesClient
  <2>3. \A v \in Workers : v \notin Clients
    BY SocketsAssumption DEF SocketsAssumption
  <2>4. QueueOwns'
    BY <1>1, <1>2, <1>3, <2>1 DEF QueueOwns, WorkersOwn, Shape
  <2>5. WorkersOwn'
    BY <1>1, <1>2, <1>3, <1>9, <2>1 DEF WorkersOwn, ClosesClient
  <2>6. OriginsAreOwned'
    BY <1>1, <1>2, <1>9, <2>1, <2>2, <2>3 DEF OriginsAreOwned, ClosesClient
  <2>7. NoneIsLeaked'
    BY <1>1, <1>2, <1>9, <2>1 DEF NoneIsLeaked, HasOwner, ClosesClient
  <2> QED BY <1>5, <2>4, <2>5, <2>6, <2>7 DEF Owned
<1> QED BY <1>1, <1>6, <1>7, <1>8, <1>9

\* A step that moves no descriptor.
LEMMA StayingKeepsOwned ==
  ASSUME Owned, UNCHANGED <<env, fdTable, frame, tasks, running>>,
         backlog' \in Seq(Clients)
  PROVE  Owned'
BY DEF Owned, Shape, QueueOwns, WorkersOwn, OriginsAreOwned, NoneIsLeaked, HasOwner

\* A connection gets a number that leads nowhere yet, and waits.
LEMMA AcceptKeepsOwned == Owned /\ Accept => Owned'
<1> SUFFICES ASSUME Owned, Accept PROVE Owned'
  OBVIOUS
<1>1. Shape /\ QueueOwns /\ WorkersOwn /\ OriginsAreOwned /\ NoneIsLeaked
  BY DEF Owned
<1>2. UNCHANGED <<env, frame, running>>
  BY DEF Accept, Pool!Submit
<1>3. /\ LowestFd \in Fds /\ fdTable[LowestFd] = Closed
      /\ fdTable' \in [Fds -> Endpoints \cup {Closed}]
      /\ fdTable'[LowestFd] \in Clients
      /\ \A fd \in Fds \ {LowestFd} : fdTable'[fd] = fdTable[fd]
      /\ backlog' \in Seq(Clients)
  BY <1>1, LowestFdIsFree, HeadTailProperties DEF Accept, Shape, Endpoints
<1>4. \A fd \in Fds : fdTable[fd] \in Clients \cup Workers => fd # LowestFd
  BY <1>3, SocketsAssumption DEF SocketsAssumption
<1>5. /\ tasks' \in Seq(Fds)
      /\ Len(tasks') = Len(tasks) + 1
      /\ \A i \in DOMAIN tasks : tasks'[i] = tasks[i]
      /\ tasks'[Len(tasks) + 1] = LowestFd
  BY <1>1, <1>3, AppendProperties DEF Accept, Pool!Submit, Shape
<1>6. DOMAIN tasks' = DOMAIN tasks \cup {Len(tasks) + 1}
  BY <1>1, <1>5 DEF Shape
<1>7. \A i \in DOMAIN tasks : tasks[i] \in Fds
  BY <1>1 DEF Shape
<1>8. Shape'
  BY <1>1, <1>2, <1>3, <1>5 DEF Shape, IsFrame
<1>9. QueueOwns'
  BY <1>1, <1>3, <1>4, <1>5, <1>6, <1>7 DEF QueueOwns
<1>10. WorkersOwn'
  BY <1>1, <1>2, <1>3, <1>4, <1>5, <1>6 DEF WorkersOwn
<1>11. OriginsAreOwned'
  BY <1>1, <1>2, <1>3, <1>4 DEF OriginsAreOwned
<1>12. NoneIsLeaked'
  BY <1>1, <1>2, <1>3, <1>5, <1>6 DEF NoneIsLeaked, HasOwner
<1> QED BY <1>8, <1>9, <1>10, <1>11, <1>12 DEF Owned

\* The number that has waited longest goes to a worker that has none.
LEMMA StartKeepsOwned ==
  ASSUME Owned, NEW w \in Workers, StartTask(w)
  PROVE  Owned'
<1>1. Shape /\ QueueOwns /\ WorkersOwn /\ OriginsAreOwned /\ NoneIsLeaked
  BY DEF Owned
<1>2. UNCHANGED <<env, backlog, fdTable>>
  BY DEF StartTask, socketVars
<1>3. /\ frame' = [v \in Workers |-> frame'[v]]
      /\ \A v \in Workers \ {w} : frame'[v] = frame[v]
  BY <1>1 DEF StartTask, Call, Shape
<1>4. /\ frame'[w].pc = "recv" /\ frame'[w].newsockfd = Head(tasks)
      /\ frame'[w].iServerfd = NoFd /\ IsFrame(frame'[w])
  <2>1. frame'[w] = [IdleFrame EXCEPT !.pc = "recv", !.newsockfd = Head(tasks)]
    BY <1>1 DEF StartTask, Call, Shape
  <2> QED BY <2>1 DEF IdleFrame, IsFrame, HandlerPcs
<1>5. /\ tasks # <<>> /\ tasks' = Tail(tasks)
      /\ running[w] = NoTask /\ running' = [running EXCEPT ![w] = Head(tasks)]
  BY DEF StartTask, Pool!Start
<1>6. /\ Head(tasks) \in Fds /\ tasks' \in Seq(Fds)
      /\ Len(tasks') = Len(tasks) - 1
      /\ \A i \in 1..Len(tasks') : tasks'[i] = tasks[i + 1]
      /\ Head(tasks) = tasks[1] /\ Len(tasks) \in Nat \ {0}
  BY <1>1, <1>5, HeadTailProperties DEF Shape
<1>7. /\ DOMAIN tasks = 1..Len(tasks) /\ DOMAIN tasks' = 1..Len(tasks')
      /\ 1 \in DOMAIN tasks
  BY <1>1, <1>6 DEF Shape
<1>8. \A i \in DOMAIN tasks' : /\ i + 1 \in DOMAIN tasks /\ i + 1 # 1
                               /\ tasks'[i] = tasks[i + 1]
  BY <1>6, <1>7
<1>9. \A i \in DOMAIN tasks \ {1} : /\ i - 1 \in DOMAIN tasks'
                                    /\ tasks'[i - 1] = tasks[i]
  BY <1>6, <1>7
<1>10. frame[w].pc = "idle"
  BY <1>1, <1>5 DEF Shape
<1>11. Shape'
  <2>1. Head(tasks) # NoTask
    BY <1>6, ServerAssumption DEF ServerAssumption
  <2>2. /\ running' = [v \in Workers |-> running'[v]]
        /\ \A v \in Workers \ {w} : running'[v] = running[v]
        /\ running'[w] = Head(tasks)
    BY <1>1, <1>5 DEF Shape
  <2>3. \A v \in Workers : running'[v] = NoTask <=> frame'[v].pc = "idle"
    BY <1>1, <1>3, <1>4, <2>1, <2>2 DEF Shape
  <2>4. \A v \in Workers : IsFrame(frame[v])'
    BY <1>1, <1>3, <1>4 DEF Shape, IsFrame
  <2> QED BY <1>1, <1>2, <1>3, <1>6, <2>2, <2>3, <2>4 DEF Shape
<1>12. QueueOwns'
  <2>1. ASSUME NEW i \in DOMAIN tasks', NEW j \in DOMAIN tasks', tasks'[i] = tasks'[j]
        PROVE  i = j
    <3>1. i + 1 = j + 1
      BY <1>1, <1>8, <2>1 DEF QueueOwns
    <3> QED BY <1>6, <1>7, <3>1
  <2> QED BY <1>1, <1>2, <1>8, <2>1 DEF QueueOwns
<1>13. \A i \in DOMAIN tasks' : tasks'[i] # Head(tasks)
  BY <1>1, <1>6, <1>7, <1>8 DEF QueueOwns
<1>14. WorkersOwn'
  <2>1. fdTable[Head(tasks)] \in Clients
    BY <1>1, <1>6, <1>7 DEF QueueOwns
  <2>2. \A v \in Workers :
          frame[v].pc \in ServingPcs => frame[v].newsockfd # Head(tasks)
    BY <1>1, <1>6, <1>7 DEF WorkersOwn
  <2>3. ASSUME NEW v \in Workers, frame'[v].pc \in ServingPcs
        PROVE  /\ frame'[v].newsockfd \in Fds
               /\ fdTable[frame'[v].newsockfd] \in Clients
               /\ \A i \in DOMAIN tasks' : tasks'[i] # frame'[v].newsockfd
    <3>1. CASE v = w
      BY <1>4, <1>6, <1>13, <2>1, <3>1
    <3>2. CASE v # w
      BY <1>1, <1>3, <1>8, <2>3, <3>2 DEF WorkersOwn
    <3> QED BY <3>1, <3>2
  <2>4. ASSUME NEW u \in Workers, NEW v \in Workers,
               frame'[u].pc \in ServingPcs, frame'[v].pc \in ServingPcs,
               frame'[u].newsockfd = frame'[v].newsockfd
        PROVE  u = v
    <3>1. CASE u # w /\ v # w
      BY <1>1, <1>3, <2>4, <3>1 DEF WorkersOwn
    <3>2. CASE u = w \/ v = w
      BY <1>3, <1>4, <2>2, <2>4, <3>2
    <3> QED BY <3>1, <3>2
  <2> QED BY <1>2, <2>3, <2>4 DEF WorkersOwn
<1>15. OriginsAreOwned'
  BY <1>1, <1>2, <1>3, <1>4 DEF OriginsAreOwned, FetchingPcs
<1>16. NoneIsLeaked'
  <2> SUFFICES ASSUME NEW fd \in Fds, fdTable[fd] # Closed PROVE HasOwner(fd)'
    BY <1>2 DEF NoneIsLeaked
  <2>1. HasOwner(fd)
    BY <1>1 DEF NoneIsLeaked
  <2>2. CASE fd = Head(tasks)
    BY <1>4, <2>2 DEF HasOwner, ServingPcs, HandlerPcs
  <2>3. ASSUME NEW i \in DOMAIN tasks, tasks[i] = fd, fd # Head(tasks)
        PROVE  HasOwner(fd)'
    BY <1>6, <1>9, <2>3 DEF HasOwner
  <2>4. ASSUME NEW v \in Workers,
               \/ frame[v].pc \in ServingPcs /\ frame[v].newsockfd = fd
               \/ frame[v].pc \in FetchingPcs /\ frame[v].iServerfd = fd
        PROVE  HasOwner(fd)'
    BY <1>3, <1>10, <2>4 DEF HasOwner, ServingPcs, FetchingPcs
  <2> QED BY <2>1, <2>2, <2>3, <2>4 DEF HasOwner
<1> QED BY <1>11, <1>12, <1>14, <1>15, <1>16 DEF Owned

\* A worker that is through has no descriptor left.
LEMMA FinishKeepsOwned ==
  ASSUME Owned, NEW w \in Workers, FinishTask(w)
  PROVE  Owned'
<1>1. Shape /\ QueueOwns /\ WorkersOwn /\ OriginsAreOwned /\ NoneIsLeaked
  BY DEF Owned
<1>2. UNCHANGED <<env, backlog, fdTable, tasks>> /\ frame[w].pc = "return"
  BY DEF FinishTask, Pool!Finish, socketVars
<1>3. /\ frame' = [v \in Workers |-> frame'[v]]
      /\ \A v \in Workers \ {w} : frame'[v] = frame[v]
      /\ frame'[w] = IdleFrame
      /\ running' = [v \in Workers |-> running'[v]]
      /\ \A v \in Workers \ {w} : running'[v] = running[v]
      /\ running'[w] = NoTask
  BY <1>1 DEF FinishTask, Pool!Finish, Shape
<1>4. frame'[w].pc = "idle" /\ IsFrame(frame'[w])
  BY <1>3 DEF IdleFrame, IsFrame, HandlerPcs
<1> USE DEF ServingPcs, FetchingPcs, EarlyPcs
<1>5. Shape'
  <2>1. \A v \in Workers : /\ IsFrame(frame[v])'
                           /\ running'[v] = NoTask <=> frame'[v].pc = "idle"
    BY <1>1, <1>3, <1>4 DEF Shape, IsFrame
  <2> QED BY <1>1, <1>2, <1>3, <2>1 DEF Shape
<1>6. QueueOwns' /\ WorkersOwn' /\ OriginsAreOwned'
  BY <1>1, <1>2, <1>3, <1>4 DEF QueueOwns, WorkersOwn, OriginsAreOwned
<1>7. NoneIsLeaked'
  BY <1>1, <1>2, <1>3 DEF NoneIsLeaked, HasOwner
<1> QED BY <1>5, <1>6, <1>7 DEF Owned

\* Every step of the server and of the outside.
LEMMA OwnedStep == Owned /\ [Next]_vars => Owned'
<1> SUFFICES ASSUME Owned, [Next]_vars PROVE Owned'
  OBVIOUS
<1>1. backlog \in Seq(Clients)
  BY DEF Owned, Shape
<1>2. CASE AcceptFails \/ UNCHANGED vars
  BY <1>1, <1>2, StayingKeepsOwned DEF AcceptFails, vars, handlerVars, socketVars
<1>3. CASE Outside
  <2>1. backlog' = backlog \/ \E c \in Clients : backlog' = Append(backlog, c)
    BY <1>3
    DEF Outside, OutsideStep, ClientStep, Connect, SendRequest, HangUp, Leave, Answer
  <2>2. UNCHANGED <<env, fdTable, frame, tasks, running>>
    BY <1>3
    DEF Outside, OutsideStep, ClientStep, Connect, SendRequest, HangUp, Leave, Answer
  <2>3. backlog' \in Seq(Clients)
    BY <1>1, <2>1, AppendProperties
  <2> QED BY <2>2, <2>3, StayingKeepsOwned
<1>4. ASSUME NEW w \in Workers, WorkerStep(w) PROVE Owned'
  BY <1>4, StartKeepsOwned, HandlerKeepsOwned, FinishKeepsOwned DEF WorkerStep
<1> QED
  BY <1>2, <1>3, <1>4, AcceptKeepsOwned DEF Next

-----------------------------------------------------------------------------

LEMMA IsOwned == Spec => []Owned
BY OwnedInit, OwnedStep, PTL DEF Spec

\* What is counted of the owners of a number.
LEMMA OneOwner ==
  ASSUME Owned, NEW fd \in Fds
  PROVE  Cardinality(Queued(fd)) + Cardinality(ClientSide(fd))
           + Cardinality(OriginSide(fd)) = IF fdTable[fd] = Closed THEN 0 ELSE 1
<1>1. QueueOwns /\ WorkersOwn /\ OriginsAreOwned /\ NoneIsLeaked
  BY DEF Owned
<1>2. Closed \notin Clients \cup Workers /\ Clients \cap Workers = {} /\ NoFd # fd
  BY SocketsAssumption DEF SocketsAssumption
<1>3. \A w \in Workers : frame[w].pc \in HandlerPcs
  BY DEF Owned, Shape, IsFrame
<1>4. \A i \in Queued(fd) : fdTable[fd] \in Clients
  BY <1>1 DEF Queued, QueueOwns
<1>5. \A w \in ClientSide(fd) : fdTable[fd] \in Clients /\ Queued(fd) = {}
  BY <1>1, <1>3 DEF ClientSide, Queued, WorkersOwn, ServingPcs
<1>6. \A w \in OriginSide(fd) : fdTable[fd] = w
  BY <1>1, <1>2 DEF OriginSide, OriginsAreOwned, FetchingPcs
<1>7. \A i, j \in Queued(fd) : i = j
  BY <1>1 DEF Queued, QueueOwns
<1>8. \A v, w \in ClientSide(fd) : v = w
  BY <1>1, <1>3 DEF ClientSide, WorkersOwn, ServingPcs
<1>9. OriginSide(fd) # {} => Queued(fd) = {} /\ ClientSide(fd) = {}
  BY <1>2, <1>4, <1>5, <1>6 DEF OriginSide
<1>10. CASE fdTable[fd] = Closed
  <2>1. Queued(fd) = {} /\ ClientSide(fd) = {} /\ OriginSide(fd) = {}
    BY <1>2, <1>4, <1>5, <1>6, <1>10 DEF OriginSide
  <2> QED BY <1>10, <2>1, FS_EmptySet
<1>11. CASE fdTable[fd] # Closed
  <2>1. Queued(fd) # {} \/ ClientSide(fd) # {} \/ OriginSide(fd) # {}
    BY <1>1, <1>3, <1>11
    DEF NoneIsLeaked, HasOwner, Queued, ClientSide, OriginSide, ServingPcs,
        FetchingPcs
  <2>2. CASE OriginSide(fd) # {}
    <3>1. PICK w : OriginSide(fd) = {w}
      BY <1>6, <2>2
    <3> QED BY <1>9, <1>11, <2>2, <3>1, FS_EmptySet, FS_Singleton
  <2>3. CASE ClientSide(fd) # {}
    <3>1. PICK w : ClientSide(fd) = {w}
      BY <1>8, <2>3
    <3>2. Queued(fd) = {} /\ OriginSide(fd) = {}
      BY <1>5, <1>9, <2>3
    <3> QED BY <1>11, <3>1, <3>2, FS_EmptySet, FS_Singleton
  <2>4. CASE Queued(fd) # {} /\ ClientSide(fd) = {} /\ OriginSide(fd) = {}
    <3>1. PICK i : Queued(fd) = {i}
      BY <1>7, <2>4
    <3> QED BY <1>11, <2>4, <3>1, FS_EmptySet, FS_Singleton
  <2> QED BY <2>1, <2>2, <2>3, <2>4
<1> QED BY <1>10, <1>11

\* DescriptorsHaveOneOwner: the server leaks no descriptor on any path, closes none
\* twice and none of someone else, with any number of workers, clients and
\* descriptors and whatever fails (ThreadPoolServer.cpp:25-33, 122-131).
THEOREM DescriptorsHaveOneOwnerHolds == Spec => []DescriptorsHaveOneOwner
<1>1. Owned => DescriptorsHaveOneOwner
  <2> SUFFICES ASSUME Owned, NEW fd \in Fds
               PROVE  /\ Queued(fd) # {} \/ ClientSide(fd) # {} =>
                           fdTable[fd] \in Clients
                      /\ \A w \in OriginSide(fd) : fdTable[fd] = w
    BY OneOwner DEF DescriptorsHaveOneOwner
  <2>1. Queued(fd) # {} => fdTable[fd] \in Clients
    BY DEF Owned, QueueOwns, Queued
  <2>2. ClientSide(fd) # {} => fdTable[fd] \in Clients
    BY DEF Owned, Shape, IsFrame, WorkersOwn, ClientSide, ServingPcs
  <2>3. \A w \in OriginSide(fd) : fdTable[fd] = w
    BY SocketsAssumption
    DEF SocketsAssumption, Owned, OriginsAreOwned, OriginSide, FetchingPcs
  <2> QED BY <2>1, <2>2, <2>3
<1> QED BY <1>1, IsOwned, PTL

\* ClientsStayConnected: a worker has its client's number for itself from recv to
\* close: no step of the others can take the connection from under it (what
\* SemaphoreServer.cpp:70 does, and ThreadPoolServer.cpp:27-31 does not).
THEOREM ClientsStayConnectedHolds ==
  Spec => [](\A w \in Workers : frame[w].pc \in ServingPcs =>
               Behind(frame[w].newsockfd) \in Clients)
<1>1. Owned => \A w \in Workers : frame[w].pc \in ServingPcs =>
                 Behind(frame[w].newsockfd) \in Clients
  BY DEF Owned, WorkersOwn, Behind
<1> QED BY <1>1, IsOwned, PTL

-----------------------------------------------------------------------------
(* The end of the process.                                                 *)

\* What a client may have sent.
Sendable ==
  {Request(r) : r \in Resources}
    \cup (IF "garbage" \in env.faults THEN {Garbage} ELSE {})

\* The origin of worker w has been sent nothing, and may have left.
IsUnasked(w) ==
  /\ outbox[w] = <<>>
  /\ \/ peer[w] = "connected"
     \/ peer[w] = "closed" /\ "truncate" \in env.faults
     \/ peer[w] = "reset" /\ "abort" \in env.faults

\* A client that has been seen has connected, and sends what it may; nobody talks
\* to an origin before its worker does.
Apart ==
  /\ peer \in [Endpoints -> PeerStates]
  /\ inbox = [e \in Endpoints |-> inbox[e]]
  /\ outbox = [e \in Endpoints |-> outbox[e]]
  /\ \A c \in Clients : inbox[c] \in Seq(Sendable)
  /\ \A k \in DOMAIN backlog : peer[backlog[k]] # "absent"
  /\ \A fd \in Fds : fdTable[fd] \in Clients => peer[fdTable[fd]] # "absent"
  /\ \A w \in Workers :
       frame[w].pc = "forward" /\ frame[w].iServerfd # NoFd => IsUnasked(w)

\* EndsForACause, without what it says of crashes.
ExitsForACause ==
  /\ exited = "exit(0)" => \/ "garbage" \in env.faults
                           \/ \E c \in Clients : peer[c] = "closed"
  /\ exited = "exit(1)" => \E c \in Clients : peer[c] = "reset"
  /\ exited = "SIGPIPE" => \/ \E c \in Clients : peer[c] \in {"closed", "reset"}
                           \/ \E w \in Workers : OriginLeft(w)

\* What a worker sends to its client ends the process only when the client has left.
LEMMA SendToClient ==
  ASSUME Owned, Apart, NEW w \in Workers, frame[w].pc \in ServingPcs,
         NEW items, Send(frame[w].newsockfd, items), exited = "no"
  PROVE  /\ outbox' = [e \in Endpoints |-> outbox'[e]]
         /\ \A v \in Workers : outbox'[v] = outbox[v]
         /\ exited' \in {"no", "SIGPIPE"}
         /\ exited' = "SIGPIPE" => \E c \in Clients : peer[c] \in {"closed", "reset"}
<1> DEFINE c == Behind(frame[w].newsockfd)
<1>1. c \in Clients /\ c # Closed /\ peer[c] # "absent" /\ peer[c] \in PeerStates
  BY SocketsAssumption
  DEF SocketsAssumption, Owned, WorkersOwn, Apart, Behind, Endpoints
<1>2. ~IsUp(c) => peer[c] \in {"closed", "reset"}
  BY <1>1 DEF IsUp, PeerStates
<1>3. \A v \in Workers : v # c
  BY <1>1, SocketsAssumption DEF SocketsAssumption
<1>4. \/ outbox' = [outbox EXCEPT ![c] = @ \o items] /\ exited' = exited
      \/ ~IsUp(c) /\ outbox' = outbox /\ exited' \in {exited, "SIGPIPE"}
  BY <1>1 DEF Send
<1> HIDE DEF c
<1>5. CASE outbox' = [outbox EXCEPT ![c] = @ \o items] /\ exited' = exited
  <2>1. outbox = [e \in Endpoints |-> outbox[e]] /\ Workers \subseteq Endpoints
    BY DEF Apart, Endpoints
  <2> QED BY <1>3, <1>5, <2>1
<1>6. CASE ~IsUp(c) /\ outbox' = outbox /\ exited' \in {exited, "SIGPIPE"}
  BY <1>1, <1>2, <1>6 DEF Apart
<1> QED BY <1>4, <1>5, <1>6

\* What it sends to its origin does so only when the origin has left.
LEMMA SendToOrigin ==
  ASSUME Owned, Apart, NEW w \in Workers, frame[w].pc = "forward",
         NEW items, Send(frame[w].iServerfd, items), exited = "no"
  PROVE  /\ outbox' = [e \in Endpoints |-> outbox'[e]]
         /\ \A v \in Workers \ {w} : outbox'[v] = outbox[v]
         /\ exited' \in {"no", "SIGPIPE"}
         /\ exited' = "SIGPIPE" => /\ Behind(frame[w].iServerfd) = w
                                   /\ peer[w] \in {"closed", "reset"}
                                   /\ outbox'[w] = <<>>
<1>1. outbox = [e \in Endpoints |-> outbox[e]] /\ Workers \subseteq Endpoints
  BY DEF Apart, Endpoints
<1>2. CASE frame[w].iServerfd = NoFd
  <2>1. Behind(frame[w].iServerfd) = Closed
    BY <1>2, SocketsAssumption DEF SocketsAssumption, Behind
  <2> QED BY <1>1, <2>1 DEF Send
<1>3. CASE frame[w].iServerfd # NoFd
  <2>1. Behind(frame[w].iServerfd) = w /\ w # Closed /\ IsUnasked(w)
    BY <1>3, SocketsAssumption
    DEF SocketsAssumption, Owned, OriginsAreOwned, FetchingPcs, Apart, Behind
  <2>2. CASE IsUp(w)
    <3>1. outbox' = [outbox EXCEPT ![w] = @ \o items] /\ exited' = exited
      BY <2>1, <2>2 DEF Send
    <3> QED BY <1>1, <3>1
  <2>3. CASE ~IsUp(w)
    <3>1. outbox' = outbox /\ exited' \in {exited, "SIGPIPE"}
      BY <2>1, <2>3 DEF Send
    <3>2. peer[w] \in {"closed", "reset"} /\ outbox[w] = <<>>
      BY <2>1, <2>3 DEF IsUnasked, IsUp
    <3> QED BY <1>1, <2>1, <3>1, <3>2
  <2> QED BY <2>2, <2>3
<1> QED BY <1>2, <1>3

\* A handler opens and closes, but gives no number to a client.
LEMMA HandlersConnectNoClient ==
  ASSUME Owned, NEW w \in Workers, HandlerStep(w),
         NEW fd \in Fds, fdTable'[fd] \in Clients
  PROVE  fdTable'[fd] = fdTable[fd]
<1>1. GoesOn(w) \/ Opens(w) \/ GetsNone(w) \/ ClosesOrigin(w) \/ ClosesClient(w)
  BY HandlerSteps DEF Owned
<1>2. w \notin Clients /\ Closed \notin Clients
  BY SocketsAssumption DEF SocketsAssumption
<1> QED
  BY <1>1, <1>2
  DEF Owned, Shape, GoesOn, Opens, GetsNone, ClosesOrigin, ClosesClient, CloseFd

\* What it takes for Apart when worker w has moved.
LEMMA OthersStayApart ==
  ASSUME Owned, Apart, NEW w \in Workers, HandlerStep(w),
         peer' \in [Endpoints -> PeerStates],
         \A e \in Endpoints \ {w} : peer'[e] = peer[e],
         inbox' = [e \in Endpoints |-> inbox'[e]],
         \A c \in Clients : inbox'[c] \in Seq(Sendable),
         outbox' = [e \in Endpoints |-> outbox'[e]],
         \A v \in Workers \ {w} : outbox'[v] = outbox[v],
         frame'[w].pc = "forward" /\ frame'[w].iServerfd # NoFd => IsUnasked(w)'
  PROVE  Apart'
<1>1. OthersStay(w) /\ UNCHANGED <<env, backlog>>
  BY HandlerSteps DEF Owned
<1>2. w \notin Clients /\ Workers \subseteq Endpoints /\ Clients \subseteq Endpoints
  BY SocketsAssumption DEF SocketsAssumption, Endpoints
<1>3. \A k \in DOMAIN backlog' : peer'[backlog'[k]] # "absent"
  BY <1>1, <1>2 DEF Apart, Owned, Shape
<1>4. \A fd \in Fds : fdTable'[fd] \in Clients => peer'[fdTable'[fd]] # "absent"
  BY <1>2, HandlersConnectNoClient DEF Apart
<1>5. \A v \in Workers :
        frame'[v].pc = "forward" /\ frame'[v].iServerfd # NoFd => IsUnasked(v)'
  BY <1>1, <1>2 DEF Apart, OthersStay, IsUnasked
<1>6. Sendable' = Sendable
  BY <1>1 DEF Sendable
<1> QED BY <1>3, <1>4, <1>5, <1>6 DEF Apart

\* Every step of a handler keeps Apart, and ends the process for a cause only.
LEMMA HandlerKeepsApart ==
  ASSUME Owned, Apart, NEW w \in Workers, HandlerStep(w), exited = "no"
  PROVE  Apart' /\ ExitsForACause'
<1>1. IsFrame(frame[w]) /\ frame = [v \in Workers |-> frame[v]]
  BY DEF Owned, Shape
<1>2. /\ peer \in [Endpoints -> PeerStates]
      /\ inbox = [e \in Endpoints |-> inbox[e]]
      /\ \A c \in Clients : inbox[c] \in Seq(Sendable)
      /\ outbox = [e \in Endpoints |-> outbox[e]]
      /\ Workers \subseteq Endpoints /\ Clients \subseteq Endpoints
      /\ w \notin Clients
  BY SocketsAssumption DEF SocketsAssumption, Apart, Endpoints
<1>3. frame[w].pc \in ServingPcs => Behind(frame[w].newsockfd) \in Clients
  BY DEF Owned, WorkersOwn, Behind
<1>4. frame[w].pc \in FetchingPcs => Behind(frame[w].iServerfd) \in {w, Closed}
  BY SocketsAssumption DEF SocketsAssumption, Owned, OriginsAreOwned, Behind
<1> USE DEF IsFrame, HandlerPcs, ServingPcs, FetchingPcs, EarlyPcs, Goto
<1>5. CASE RecvRequest(w)
  <2> DEFINE c == Behind(frame[w].newsockfd)
  <2>1. c \in Clients /\ inbox[c] \in Seq(Sendable) /\ inbox[c] # <<>>
    BY <1>2, <1>3, <1>5 DEF RecvRequest, HasData
  <2>2. Head(inbox[c]) \in Sendable /\ Tail(inbox[c]) \in Seq(Sendable)
    BY <2>1, HeadTailProperties
  <2>3. inbox' = [inbox EXCEPT ![c] = Tail(@)] /\ UNCHANGED <<env, peer, outbox>>
    BY <1>5 DEF RecvRequest
  <2>4. \/ exited' = "no"
        \/ exited' = "exit(0)" /\ Head(inbox[c]).type # "request"
    BY <1>5 DEF RecvRequest
  <2>5. Head(inbox[c]).type # "request" => "garbage" \in env.faults
    BY <2>2 DEF Sendable, Request, Garbage
  <2>6. ExitsForACause'
    BY <2>3, <2>4, <2>5 DEF ExitsForACause
  <2>7. frame'[w].pc # "forward"
    BY <1>1, <1>5 DEF RecvRequest
  <2>8. inbox' = [e \in Endpoints |-> inbox'[e]]
        /\ \A d \in Clients : inbox'[d] \in Seq(Sendable)
    BY <1>2, <2>1, <2>2, <2>3
  <2>9. Apart'
    BY <1>2, <2>3, <2>7, <2>8, OthersStayApart
  <2> QED BY <2>6, <2>9
<1>6. CASE RecvEnd(w) \/ RecvError(w)
  <2>1. UNCHANGED <<env, peer, inbox, outbox, frame>>
    BY <1>6 DEF RecvEnd, RecvError, socketVars
  <2>2. Behind(frame[w].newsockfd) \in Clients
    BY <1>3, <1>6 DEF RecvEnd, RecvError
  <2>3. \/ exited' = "exit(0)" /\ peer[Behind(frame[w].newsockfd)] = "closed"
        \/ exited' = "exit(1)" /\ peer[Behind(frame[w].newsockfd)] = "reset"
    BY <1>2, <1>6, <2>2 DEF RecvEnd, RecvError, HasEnded, IsBroken
  <2>4. ExitsForACause'
    BY <2>1, <2>2, <2>3 DEF ExitsForACause
  <2>5. Apart'
    BY <1>2, <1>6, <2>1, OthersStayApart DEF RecvEnd, RecvError
  <2> QED BY <2>4, <2>5
<1>7. CASE FindInCache(w) \/ ConnectFails(w) \/ RelayEnd(w) \/ RelayError(w)
             \/ AddToCache(w) \/ CloseServer(w) \/ CloseClient(w)
  <2>1. UNCHANGED <<env, peer, inbox, outbox, exited>>
    BY <1>7
    DEF FindInCache, ConnectFails, RelayEnd, RelayError, AddToCache, CloseServer,
        CloseClient, socketVars
  <2>2. frame'[w].pc = "forward" => frame'[w].iServerfd = NoFd
    BY <1>1, <1>7
    DEF FindInCache, ConnectFails, RelayEnd, RelayError, AddToCache, CloseServer,
        CloseClient, Owned, OriginsAreOwned
  <2> QED BY <1>2, <2>1, <2>2, OthersStayApart DEF ExitsForACause
<1>8. CASE ServeCached(w) \/ RelayPart(w)
  <2>1. PICK items : Send(frame[w].newsockfd, items) \/ UNCHANGED <<outbox, exited>>
    BY <1>8 DEF ServeCached, RelayPart
  <2>2. /\ outbox' = [e \in Endpoints |-> outbox'[e]]
        /\ \A v \in Workers : outbox'[v] = outbox[v]
        /\ exited' \in {"no", "SIGPIPE"}
        /\ exited' = "SIGPIPE" =>
             \E c \in Clients : peer[c] \in {"closed", "reset"}
    <3>1. CASE Send(frame[w].newsockfd, items)
      BY <1>8, <3>1, SendToClient DEF ServeCached, RelayPart
    <3>2. CASE UNCHANGED <<outbox, exited>>
      BY <1>2, <3>2
    <3> QED BY <2>1, <3>1, <3>2
  <2>3. frame'[w].pc # "forward" /\ UNCHANGED <<env, peer>>
    BY <1>1, <1>8 DEF ServeCached, RelayPart
  <2>4. \/ UNCHANGED inbox
        \/ /\ RelayPart(w)
           /\ inbox' = [inbox EXCEPT ![Behind(frame[w].iServerfd)] = Tail(@)]
    BY <1>8 DEF ServeCached, RelayPart
  <2>5. RelayPart(w) => Behind(frame[w].iServerfd) \notin Clients
    BY <1>4, SocketsAssumption DEF SocketsAssumption, RelayPart
  <2>6. inbox' = [e \in Endpoints |-> inbox'[e]]
        /\ \A c \in Clients : inbox'[c] \in Seq(Sendable)
    BY <1>2, <2>4, <2>5
  <2>7. Apart'
    BY <1>2, <2>2, <2>3, <2>6, OthersStayApart
  <2>8. ExitsForACause'
    BY <2>2, <2>3 DEF ExitsForACause
  <2> QED BY <2>7, <2>8
<1>9. CASE ConnectToOrigin(w)
  <2>1. /\ peer' = [peer EXCEPT ![w] = "connected"]
        /\ inbox' = [inbox EXCEPT ![w] = <<>>]
        /\ outbox' = [outbox EXCEPT ![w] = <<>>]
        /\ exited' = exited
    BY <1>9 DEF ConnectToOrigin
  <2>2. ExitsForACause'
    BY <2>1 DEF ExitsForACause
  <2>3. IsUnasked(w)'
    BY <1>2, <2>1 DEF IsUnasked
  <2>4. Apart'
    BY <1>2, <2>1, <2>3, OthersStayApart DEF PeerStates
  <2> QED BY <2>2, <2>4
<1>10. CASE ForwardRequest(w)
  <2>1. frame[w].pc = "forward" /\ Send(frame[w].iServerfd, <<Request(frame[w].req)>>)
    BY <1>10 DEF ForwardRequest
  <2>2. /\ outbox' = [e \in Endpoints |-> outbox'[e]]
        /\ \A v \in Workers \ {w} : outbox'[v] = outbox[v]
        /\ exited' \in {"no", "SIGPIPE"}
        /\ exited' = "SIGPIPE" => /\ Behind(frame[w].iServerfd) = w
                                  /\ peer[w] \in {"closed", "reset"}
                                  /\ outbox'[w] = <<>>
    BY <2>1, SendToOrigin
  <2>3. /\ UNCHANGED <<env, fdTable, peer, inbox>>
        /\ frame'[w].pc = "relay" /\ frame'[w].iServerfd = frame[w].iServerfd
    BY <1>1, <1>10 DEF ForwardRequest
  <2>4. exited' = "SIGPIPE" => \E v \in Workers : OriginLeft(v)'
    BY <2>2, <2>3 DEF OriginLeft, Behind
  <2>5. exited' # "exit(0)" /\ exited' # "exit(1)"
    BY <2>2
  <2>6. ExitsForACause'
    BY <2>4, <2>5 DEF ExitsForACause
  <2>7. Apart'
    BY <1>2, <2>2, <2>3, OthersStayApart
  <2> QED BY <2>6, <2>7
<1> QED
  BY <1>5, <1>6, <1>7, <1>8, <1>9, <1>10 DEF HandlerStep

\* At first nobody has connected.
LEMMA ApartInit == Init => Apart /\ ExitsForACause
<1> SUFFICES ASSUME Init PROVE Apart /\ ExitsForACause
  OBVIOUS
<1> USE DEF Init, HandlerInit, SocketsInit, IdleFrame
<1>1. ExitsForACause
  BY DEF ExitsForACause
<1>2. \A fd \in Fds : fdTable[fd] \notin Clients
  BY SocketsAssumption DEF SocketsAssumption
<1>3. backlog = <<>> /\ \A c \in Clients : inbox[c] = <<>>
  BY DEF Endpoints
<1>4. \A w \in Workers : frame[w].pc = "idle"
  OBVIOUS
<1>5. \A c \in Clients : inbox[c] \in Seq(Sendable)
  <2>1. <<>> \in Seq(Sendable)
    OBVIOUS
  <2> QED BY <1>3, <2>1, Zenon
<1>6. peer \in [Endpoints -> PeerStates]
  BY DEF PeerStates
<1> QED BY <1>1, <1>2, <1>3, <1>4, <1>5, <1>6 DEF Apart

\* A client or an origin has moved.
LEMMA OutsideKeepsApart ==
  ASSUME Owned, Apart, Outside, exited = "no"
  PROVE  Apart' /\ ExitsForACause'
<1>1. UNCHANGED <<env, fdTable, frame, outbox, exited>>
  BY DEF Outside, OutsideStep, ClientStep, Connect, SendRequest, HangUp, Leave, Answer
<1>2. ExitsForACause'
  BY <1>1 DEF ExitsForACause
<1>3. /\ peer \in [Endpoints -> PeerStates]
      /\ inbox = [e \in Endpoints |-> inbox[e]]
      /\ \A c \in Clients : inbox[c] \in Seq(Sendable)
      /\ Workers \subseteq Endpoints /\ Clients \subseteq Endpoints
      /\ \A w \in Workers : w \notin Clients
      /\ backlog \in Seq(Clients)
      /\ Sendable' = Sendable
  BY <1>1, SocketsAssumption
  DEF SocketsAssumption, Apart, Endpoints, Owned, Shape, Sendable
<1>4. \E e \in Endpoints : \E state \in PeerStates \ {"absent"} :
        /\ peer' = [peer EXCEPT ![e] = state]
        /\ e \in Workers =>
             \/ outbox[e] # <<>>
             \/ state = "closed" /\ "truncate" \in env.faults
             \/ state = "reset" /\ "abort" \in env.faults
  BY <1>3
  DEF Outside, OutsideStep, ClientStep, Connect, SendRequest, HangUp, Leave, Answer,
      PeerStates
<1>5. /\ peer' \in [Endpoints -> PeerStates]
      /\ \A e \in Endpoints : peer'[e] = "absent" => peer[e] = "absent"
      /\ \A w \in Workers : IsUnasked(w) => IsUnasked(w)'
  <2>1. /\ peer' \in [Endpoints -> PeerStates]
        /\ \A e \in Endpoints : peer'[e] = "absent" => peer[e] = "absent"
    BY <1>3, <1>4
  <2>2. \A w \in Workers :
          \/ outbox[w] # <<>>
          \/ peer'[w] = peer[w]
          \/ peer'[w] = "closed" /\ "truncate" \in env.faults
          \/ peer'[w] = "reset" /\ "abort" \in env.faults
    BY <1>3, <1>4
  <2> QED BY <1>1, <2>1, <2>2 DEF IsUnasked
<1>6. \/ backlog' = backlog
      \/ \E c \in Clients : backlog' = Append(backlog, c) /\ peer'[c] # "absent"
  BY <1>3
  DEF Outside, OutsideStep, ClientStep, Connect, SendRequest, HangUp, Leave, Answer
<1>7. \A k \in DOMAIN backlog' : peer'[backlog'[k]] # "absent"
  <2>1. CASE backlog' = backlog
    BY <1>3, <1>5, <2>1 DEF Apart
  <2>2. ASSUME NEW c \in Clients, backlog' = Append(backlog, c), peer'[c] # "absent"
        PROVE  \A k \in DOMAIN backlog' : peer'[backlog'[k]] # "absent"
    <3>1. \A k \in DOMAIN backlog' : \/ backlog'[k] = c
                                     \/ k \in DOMAIN backlog /\ backlog'[k] = backlog[k]
      BY <1>3, <2>2, AppendProperties
    <3>2. \A k \in DOMAIN backlog :
            backlog[k] \in Endpoints /\ peer[backlog[k]] # "absent"
      BY <1>3 DEF Apart
    <3> QED BY <1>5, <2>2, <3>1, <3>2
  <2> QED BY <1>6, <2>1, <2>2
<1>8. \E e \in Endpoints : \E sent :
        /\ inbox' = [inbox EXCEPT ![e] = sent]
        /\ e \in Clients => sent \in Seq(Sendable)
  <2>1. CASE \E c \in Clients : Connect(c) \/ HangUp(c)
    <3>1. PICK c \in Clients : inbox' = inbox
      BY <2>1 DEF Connect, HangUp
    <3> QED BY <1>3, <3>1
  <2>2. ASSUME NEW c \in Clients, SendRequest(c)
        PROVE  \E sent \in Seq(Sendable) : inbox' = [inbox EXCEPT ![c] = sent]
    <3>1. \E item \in Sendable : inbox' = [inbox EXCEPT ![c] = Append(inbox[c], item)]
      BY <2>2, SocketsAssumption DEF SendRequest, Sendable, SocketsAssumption
    <3> QED BY <1>3, <3>1, AppendProperties
  <2>3. ASSUME NEW w \in Workers, Answer(w)
        PROVE  \E sent : inbox' = [inbox EXCEPT ![w] = sent]
    BY <2>3 DEF Answer
  <2>4. ASSUME NEW w \in Workers, Leave(w)
        PROVE  \E sent : inbox' = [inbox EXCEPT ![w] = sent]
    <3>1. inbox' = inbox
      BY <2>4 DEF Leave
    <3> QED BY <1>3, <3>1
  <2> QED
    BY <1>3, <2>1, <2>2, <2>3, <2>4 DEF Outside, OutsideStep, ClientStep
<1>9. inbox' = [e \in Endpoints |-> inbox'[e]]
      /\ \A c \in Clients : inbox'[c] \in Seq(Sendable)
  BY <1>3, <1>8
<1>10. \A fd \in Fds : fdTable[fd] \in Clients => peer'[fdTable[fd]] # "absent"
  BY <1>3, <1>5 DEF Apart
<1> QED BY <1>1, <1>2, <1>3, <1>5, <1>7, <1>9, <1>10 DEF Apart

\* The server takes a client from the backlog that has connected.
LEMMA AcceptKeepsApart ==
  ASSUME Owned, Apart, Accept, exited = "no"
  PROVE  Apart' /\ ExitsForACause'
<1>1. UNCHANGED <<env, peer, inbox, outbox, frame, exited>>
  BY DEF Accept
<1>2. backlog \in Seq(Clients) /\ backlog # <<>> /\ backlog' = Tail(backlog)
  BY DEF Accept, Owned, Shape
<1>3. Head(backlog) = backlog[1] /\ 1 \in DOMAIN backlog
  BY <1>2
<1>4. \A k \in DOMAIN backlog' : /\ k + 1 \in DOMAIN backlog
                                 /\ backlog'[k] = backlog[k + 1]
  BY <1>2, HeadTailProperties
<1>5. \A fd \in Fds : fdTable'[fd] \in {fdTable[fd], Head(backlog)}
  BY DEF Accept, Owned, Shape
<1>6. Sendable' = Sendable
  BY <1>1 DEF Sendable
<1> QED
  BY <1>1, <1>3, <1>4, <1>5, <1>6 DEF Apart, IsUnasked, ExitsForACause

LEMMA ApartStep ==
  Owned /\ Apart /\ ExitsForACause /\ [Next]_vars =>
    Apart' /\ ExitsForACause'
<1> SUFFICES ASSUME Owned, Apart, ExitsForACause, [Next]_vars
             PROVE  Apart' /\ ExitsForACause'
  OBVIOUS
<1>1. CASE AcceptFails \/ UNCHANGED vars
  BY <1>1
  DEF AcceptFails, vars, handlerVars, socketVars, Apart, IsUnasked, ExitsForACause,
      OriginLeft, Behind, Sendable
<1>2. CASE Next
  <2>1. exited = "no"
    BY <1>2 DEF Next, ProcessRuns
  <2>2. ASSUME NEW w \in Workers, StartTask(w) \/ FinishTask(w)
        PROVE  Apart' /\ ExitsForACause'
    <3>1. UNCHANGED <<env, backlog, fdTable, peer, inbox, outbox, exited>>
      BY <2>2 DEF StartTask, FinishTask, socketVars
    <3>2. \A v \in Workers : frame'[v] = frame[v] \/ frame'[v].pc # "forward"
      <4>1. frame = [v \in Workers |-> frame[v]]
        BY DEF Owned, Shape
      <4> DEFINE called == [IdleFrame EXCEPT !.pc = "recv", !.newsockfd = Head(tasks)]
      <4>2. \/ frame' = [frame EXCEPT ![w] = called]
            \/ frame' = [frame EXCEPT ![w] = IdleFrame]
        BY <2>2 DEF StartTask, FinishTask, Call
      <4>3. called.pc = "recv" /\ IdleFrame.pc = "idle"
        BY DEF IdleFrame
      <4> HIDE DEF called
      <4> QED BY <4>1, <4>2, <4>3
    <3> QED
      BY <2>1, <3>1, <3>2 DEF Apart, IsUnasked, ExitsForACause, Sendable
  <2> QED
    BY <1>1, <1>2, <2>1, <2>2, AcceptKeepsApart, HandlerKeepsApart, OutsideKeepsApart
    DEF Next, WorkerStep, HandleClient
<1> QED BY <1>1, <1>2

-----------------------------------------------------------------------------
(* What is cached.                                                         *)

ServerTypes == HandlerTypes /\ TypeOK

\* The server's own steps keep the types.
LEMMA TypesStep == Owned /\ ServerTypes /\ [Next]_vars => ServerTypes'
<1> SUFFICES ASSUME Owned, ServerTypes, [Next]_vars PROVE ServerTypes'
  OBVIOUS
<1>1. /\ HandlerTypes
      /\ tasks \in Seq(Fds)
      /\ running \in [Workers -> Fds \cup {NoTask}]
  BY DEF ServerTypes, TypeOK
<1>2. ASSUME HandlerTypes', tasks' \in Seq(Fds),
             running' \in [Workers -> Fds \cup {NoTask}]
      PROVE  ServerTypes'
  BY <1>2 DEF ServerTypes, TypeOK, HandlerTypes
<1>3. CASE Accept
  <2>1. /\ backlog \in Seq(Clients) /\ Clients \subseteq Endpoints
        /\ fdTable \in [Fds -> Endpoints \cup {Closed}]
        /\ env.fds \subseteq Fds
    BY DEF Owned, Shape, Endpoints
  <2>2. LowestFd \in Fds
    BY <1>3, <2>1, LowestFdIsFree DEF Accept
  <2>3. backlog' \in Seq(Clients) /\ Head(backlog) \in Clients
    BY <1>3, <2>1, HeadTailProperties DEF Accept
  <2>4. fdTable' \in [Fds -> Endpoints \cup {Closed}]
    BY <1>3, <2>1, <2>2, <2>3 DEF Accept
  <2>5. SocketsTypeOK' /\ UNCHANGED <<cacheVars, frame, exited>>
    BY <1>1, <1>3, <2>3, <2>4
    DEF Accept, HandlerTypes, HandlerTypeOK, SocketsTypeOK
  <2>6. tasks' \in Seq(Fds) /\ running' = running
    BY <1>1, <1>3, <2>2, AppendProperties DEF Accept, Pool!Submit
  <2> QED BY <1>1, <1>2, <2>5, <2>6, SocketsKeepTypes
<1>4. CASE AcceptFails \/ UNCHANGED vars
  BY <1>4
  DEF ServerTypes, TypeOK, HandlerTypes, HandlerTypeOK, SocketsTypeOK, AcceptFails, vars,
      handlerVars, socketVars, cacheVars, Cache!TypeOK, Cache!Element, HasWhatItUses
<1>5. ASSUME NEW w \in Workers, StartTask(w) PROVE ServerTypes'
  <2>1. Head(tasks) \in Fds /\ tasks' \in Seq(Fds)
    BY <1>1, <1>5, HeadTailProperties DEF StartTask, Pool!Start
  <2>2. running' \in [Workers -> Fds \cup {NoTask}]
    BY <1>1, <1>5, <2>1 DEF StartTask, Pool!Start
  <2>3. /\ frame' \in [Workers -> Frames]
        /\ \A v \in Workers : HasWhatItUses(frame'[v])
    BY <1>1, <1>5, <2>1, CallTypes DEF StartTask
  <2>4. UNCHANGED <<socketVars, cacheVars, exited>>
    BY <1>5 DEF StartTask
  <2> QED BY <1>1, <1>2, <2>1, <2>2, <2>3, <2>4, FramesKeepTypes
<1>6. ASSUME NEW w \in Workers, HandleClient(w) PROVE ServerTypes'
  BY <1>1, <1>2, <1>6, HandlerKeepsTypes DEF HandleClient
<1>7. ASSUME NEW w \in Workers, FinishTask(w) PROVE ServerTypes'
  <2>1. running' \in [Workers -> Fds \cup {NoTask}] /\ tasks' = tasks
    BY <1>1, <1>7 DEF FinishTask, Pool!Finish
  <2>2. /\ frame' \in [Workers -> Frames]
        /\ \A v \in Workers : HasWhatItUses(frame'[v])
    <3>1. running[w] \in Fds
      BY <1>1, <1>7 DEF FinishTask, Pool!Finish
    <3> QED BY <1>1, <1>7, <3>1, CallTypes DEF FinishTask
  <2>3. UNCHANGED <<socketVars, cacheVars, exited>>
    BY <1>7 DEF FinishTask
  <2> QED BY <1>1, <1>2, <2>1, <2>2, <2>3, FramesKeepTypes
<1>8. CASE Outside
  BY <1>1, <1>2, <1>8, OutsideKeepsTypes DEF Outside
<1> QED
  BY <1>3, <1>4, <1>5, <1>6, <1>7, <1>8 DEF Next, WorkerStep

LEMMA TypesInit == Init => ServerTypes
<1> SUFFICES ASSUME Init PROVE ServerTypes
  OBVIOUS
<1>1. HandlerTypes
  BY HandlerInitTypes DEF Init
<1>2. tasks \in Seq(Fds) /\ running \in [Workers -> Fds \cup {NoTask}]
  BY DEF Init, Pool!Init
<1> QED BY <1>1, <1>2 DEF ServerTypes, TypeOK, HandlerTypes

\* TypeOK: whatever the clients, the origins and the network do, a worker has a
\* request when it asks for one, and the cache holds responses
\* (ThreadPoolServer.cpp:47-131).
THEOREM ServerTypeCorrect == Spec => []TypeOK
<1>1. ServerTypes => TypeOK
  BY DEF ServerTypes
<1> QED BY <1>1, IsOwned, TypesInit, TypesStep, PTL DEF Spec

-----------------------------------------------------------------------------

\* What a handler takes for the response to a request.
IsTaken(r, items) ==
  \E n \in 0..ResponseParts :
    /\ items = SubSeq(Complete(r), 1, n)
    /\ n = ResponseParts \/ "truncate" \in env.faults

\* What a handler has received and is about to receive is what its origin has
\* sent, and it has that from its own origin only.
Fetches(w) ==
  LET f == frame[w]
      coming == f.response \o inbox[w]
  IN
  /\ f.pc \in EarlyPcs \cup {"forward"} => f.response = <<>>
  /\ f.pc = "forward" /\ f.iServerfd # NoFd => inbox[w] = <<>>
  /\ f.pc = "relay" /\ f.iServerfd # NoFd =>
       \/ peer[w] = "connected" /\ outbox[w] = <<Request(f.req)>> /\ coming = <<>>
       \/ peer[w] = "closed" /\ IsTaken(f.req, coming)
       \/ peer[w] = "reset"
  /\ f.pc = "add" => IsTaken(f.req, f.response)

\* What CachesWholeResponses needs to be inductive.
Caching == Filed /\ CachesWholeResponses /\ \A w \in Workers : Fetches(w)

\* A worker whose sockets are left alone.
LEMMA FetchesOn ==
  ASSUME NEW v \in Workers, Fetches(v), frame'[v] = frame[v], inbox'[v] = inbox[v],
         outbox'[v] = outbox[v], peer'[v] = peer[v], env' = env
  PROVE  Fetches(v)'
BY DEF Fetches, IsTaken, Request

\* A handler leaves alone what the others have from their origins.
LEMMA HandlersTouchOwn ==
  ASSUME Owned, Apart, NEW w \in Workers, HandlerStep(w), exited = "no"
  PROVE  /\ env' = env
         /\ \A v \in Workers \ {w} : /\ frame'[v] = frame[v]
                                     /\ inbox'[v] = inbox[v]
                                     /\ outbox'[v] = outbox[v]
                                     /\ peer'[v] = peer[v]
<1>1. OthersStay(w) /\ env' = env
  BY HandlerSteps DEF Owned
<1>2. /\ peer = [e \in Endpoints |-> peer[e]]
      /\ inbox = [e \in Endpoints |-> inbox[e]]
      /\ outbox = [e \in Endpoints |-> outbox[e]]
      /\ Workers \subseteq Endpoints
  BY DEF Apart, Endpoints
<1>3. frame[w].pc \in ServingPcs => Behind(frame[w].newsockfd) \in Clients
  BY DEF Owned, WorkersOwn, Behind
<1>4. frame[w].pc \in FetchingPcs => Behind(frame[w].iServerfd) \in {w, Closed}
  BY SocketsAssumption DEF SocketsAssumption, Owned, OriginsAreOwned, Behind
<1>5. \A v \in Workers : v \notin Clients /\ v # Closed
  BY SocketsAssumption DEF SocketsAssumption
<1>6. SUFFICES ASSUME NEW v \in Workers \ {w}
               PROVE  inbox'[v] = inbox[v] /\ outbox'[v] = outbox[v] /\ peer'[v] = peer[v]
  BY <1>1 DEF OthersStay
<1> USE DEF ServingPcs, FetchingPcs, HandlerPcs
<1>7. CASE RecvRequest(w)
  BY <1>2, <1>3, <1>5, <1>7 DEF RecvRequest
<1>8. CASE RecvEnd(w) \/ RecvError(w) \/ FindInCache(w) \/ ConnectFails(w) \/ RelayEnd(w)
             \/ RelayError(w) \/ AddToCache(w) \/ CloseServer(w) \/ CloseClient(w)
  BY <1>8
  DEF RecvEnd, RecvError, FindInCache, ConnectFails, RelayEnd, RelayError, AddToCache,
      CloseServer, CloseClient, socketVars
<1>9. CASE ServeCached(w) \/ RelayPart(w)
  <2>1. PICK items : Send(frame[w].newsockfd, items) \/ UNCHANGED <<outbox, exited>>
    BY <1>9 DEF ServeCached, RelayPart
  <2>2. outbox'[v] = outbox[v]
    <3>1. frame[w].pc \in ServingPcs
      BY <1>9 DEF ServeCached, RelayPart
    <3>2. CASE Send(frame[w].newsockfd, items)
      BY <3>1, <3>2, SendToClient
    <3> QED BY <2>1, <3>2
  <2>3. \/ inbox' = inbox
        \/ /\ inbox' = [inbox EXCEPT ![Behind(frame[w].iServerfd)] = Tail(@)]
           /\ frame[w].pc = "relay"
    BY <1>9 DEF ServeCached, RelayPart
  <2>4. inbox'[v] = inbox[v]
    BY <1>2, <1>4, <1>5, <2>3
  <2>5. peer' = peer
    BY <1>9 DEF ServeCached, RelayPart
  <2> QED BY <2>2, <2>4, <2>5
<1>10. CASE ConnectToOrigin(w)
  BY <1>2, <1>10 DEF ConnectToOrigin
<1>11. CASE ForwardRequest(w)
  <2>1. outbox'[v] = outbox[v]
    BY <1>11, SendToOrigin DEF ForwardRequest
  <2> QED BY <1>11, <2>1 DEF ForwardRequest
<1> QED BY <1>7, <1>8, <1>9, <1>10, <1>11 DEF HandlerStep

\* A part that has been received is no longer coming.
LEMMA PartReceived ==
  ASSUME NEW s \in Seq(Items), NEW t \in Seq(Items), t # <<>>
  PROVE  Append(s, Head(t)) \o Tail(t) = s \o t
<1>1. /\ Head(t) \in Items /\ Head(t) = t[1]
      /\ Tail(t) \in Seq(Items)
      /\ Len(t) \in Nat \ {0}
  BY HeadTailProperties
<1>2. Append(s, Head(t)) = s \o <<Head(t)>> /\ <<Head(t)>> \in Seq(Items)
  BY <1>1, AppendIsConcat
<1>3. (s \o <<Head(t)>>) \o Tail(t) = s \o (<<Head(t)>> \o Tail(t))
  BY <1>1, <1>2, ConcatAssociative
<1>4. t = <<t[1]>> \o SubSeq(t, 2, Len(t))
  <2>1. 1 \in 1..Len(t) /\ Len(t) \in 1..Len(t) /\ 1 + 1 = 2
    BY <1>1
  <2>2. SubSeq(t, 1, Len(t)) = <<t[1]>> \o SubSeq(t, 2, Len(t))
    BY <2>1, SubSeqRecursiveFirst
  <2> QED BY <2>2, SubSeqFull
<1>5. Tail(t) = SubSeq(t, 2, Len(t))
  BY TailIsSubSeq
<1> QED BY <1>1, <1>2, <1>3, <1>4, <1>5

\* The first parts of a response, as an origin sends them, and the empty one.
LEMMA FirstParts ==
  ASSUME NEW r \in Resources, NEW n \in 0..ResponseParts
  PROVE  Reply(Request(r), n) = SubSeq(Complete(r), 1, n)
<1>1. ResponseParts \in Nat /\ n \in Nat /\ n <= ResponseParts
  BY SocketsAssumption DEF SocketsAssumption
<1>2. Reply(Request(r), n) = [i \in 1..n |-> Part(r, i)]
  BY DEF Reply, Request
<1>3. \A i \in 1..n : i \in 1..ResponseParts
  BY <1>1
<1>4. \A i \in 1..ResponseParts : Complete(r)[i] \in Items
  BY ItemTypes DEF Complete
<1> DEFINE first == SubSeq(Complete(r), 1, n)
           reply == [i \in 1..n |-> Part(r, i)]
<1>5. /\ first \in Seq(Items) /\ Len(first) = n
      /\ \A i \in 1..n : first[i] = Complete(r)[i]
  <2>1. \A i \in 1..n : Complete(r)[i] \in Items
    BY <1>3, <1>4
  <2>2. /\ SubSeq(Complete(r), 1, n) \in Seq(Items)
        /\ Len(SubSeq(Complete(r), 1, n)) = IF 1 <= n THEN n - 1 + 1 ELSE 0
        /\ \A i \in 1..(n - 1 + 1) : SubSeq(Complete(r), 1, n)[i] = Complete(r)[1 + i - 1]
    BY ONLY <1>1, <2>1, SubSeqProperties
  <2> HIDE DEF first
  <2>3. first \in Seq(Items) /\ Len(first) = n
    BY <1>1, <2>2 DEF first
  <2>4. \A i \in 1..n : i \in 1..(n - 1 + 1) /\ 1 + i - 1 = i
    BY <1>1
  <2> QED BY <2>2, <2>3, <2>4 DEF first
<1>6. /\ reply \in Seq(Items) /\ Len(reply) = n
      /\ \A i \in 1..n : reply[i] = Part(r, i)
  <2>1. \A i \in 1..n : Part(r, i) \in Items
    BY <1>3, ItemTypes
  <2> QED BY <1>1, <2>1
<1>7. \A i \in 1..n : first[i] = reply[i]
  BY <1>3, <1>5, <1>6 DEF Complete
<1> HIDE DEF first, reply
<1>8. first = reply
  BY <1>5, <1>6, <1>7, SeqEqual
<1> QED BY <1>2, <1>8 DEF first, reply

\* What a handler has received is always what its origin has sent.
LEMMA HandlerFetches ==
  ASSUME Owned, Apart, HandlerTypes, exited = "no",
         NEW w \in Workers, Fetches(w), HandlerStep(w)
  PROVE  Fetches(w)'
<1> DEFINE f == frame[w]
<1>1. /\ frame \in [Workers -> Frames] /\ f \in Frames
      /\ f.response \in Seq(Items) /\ f.pc \in HandlerPcs
      /\ inbox \in [Endpoints -> Seq(Items)] /\ inbox[w] \in Seq(Items)
      /\ outbox \in [Endpoints -> Seq(Items)] /\ outbox[w] \in Seq(Items)
      /\ w \in Endpoints
  BY DEF HandlerTypes, HandlerTypeOK, SocketsTypeOK, Frames, Responses, Endpoints
<1>2. f.pc \in EarlyPcs => f.iServerfd = NoFd
  BY DEF Owned, OriginsAreOwned
<1>3. f.pc \in FetchingPcs /\ f.iServerfd # NoFd => Behind(f.iServerfd) = w
  BY DEF Owned, OriginsAreOwned, Behind
<1>4. Behind(NoFd) = Closed /\ Closed \notin Endpoints
  BY SocketsAssumption DEF SocketsAssumption, Behind, Endpoints
<1>5. frame'[w].pc \in EarlyPcs /\ frame'[w].response = <<>> => Fetches(w)'
  BY DEF Fetches, EarlyPcs
<1>6. frame'[w].pc \in {"closeServer", "closeClient", "return"} => Fetches(w)'
  BY DEF Fetches, EarlyPcs
<1>7. f.pc \in EarlyPcs \cup {"forward"} => f.response = <<>>
  BY DEF Fetches
<1> HIDE DEF f
<1>8. CASE RecvRequest(w) \/ RecvEnd(w) \/ RecvError(w) \/ FindInCache(w)
  <2>1. f.pc \in EarlyPcs
    BY <1>8 DEF RecvRequest, RecvEnd, RecvError, FindInCache, EarlyPcs, f
  <2>2. frame'[w].pc \in EarlyPcs /\ frame'[w].response = f.response
    BY <1>1, <1>8
    DEF RecvRequest, RecvEnd, RecvError, FindInCache, Goto, EarlyPcs, f, Frames
  <2> QED BY <1>5, <1>7, <2>1, <2>2
<1>9. CASE ServeCached(w) \/ RelayError(w) \/ AddToCache(w) \/ CloseServer(w)
             \/ CloseClient(w)
  <2>1. frame'[w].pc \in {"closeServer", "closeClient", "return"}
    BY <1>1, <1>9
    DEF ServeCached, RelayError, AddToCache, CloseServer, CloseClient, Goto, Frames
  <2> QED BY <1>6, <2>1
<1>10. CASE ConnectToOrigin(w)
  <2>1. f.pc = "connect"
    BY <1>10 DEF ConnectToOrigin, f
  <2>2. /\ frame'[w].pc = "forward" /\ frame'[w].response = f.response
        /\ inbox'[w] = <<>>
    BY <1>1, <1>10 DEF ConnectToOrigin, f, Frames
  <2> QED BY <1>7, <2>1, <2>2 DEF Fetches, EarlyPcs
<1>11. CASE ConnectFails(w)
  <2>1. f.pc = "connect"
    BY <1>11 DEF ConnectFails, f
  <2>2. /\ frame'[w].pc = "forward" /\ frame'[w].response = f.response
        /\ frame'[w].iServerfd = f.iServerfd
    BY <1>1, <1>11 DEF ConnectFails, Goto, f, Frames
  <2> QED BY <1>2, <1>7, <2>1, <2>2 DEF Fetches, EarlyPcs
<1>12. CASE ForwardRequest(w)
  <2>1. f.pc = "forward"
    BY <1>12 DEF ForwardRequest, f
  <2>2. /\ frame'[w].pc = "relay" /\ frame'[w].response = f.response
        /\ frame'[w].iServerfd = f.iServerfd /\ frame'[w].req = f.req
        /\ UNCHANGED <<peer, inbox>>
    BY <1>1, <1>12 DEF ForwardRequest, Goto, f, Frames
  <2>3. CASE f.iServerfd = NoFd
    BY <2>2, <2>3 DEF Fetches, EarlyPcs
  <2>4. CASE f.iServerfd # NoFd
    <3>1. inbox[w] = <<>> /\ IsUnasked(w) /\ Behind(f.iServerfd) = w /\ w # Closed
      BY <1>1, <1>3, <1>4, <2>1, <2>4 DEF Fetches, Apart, FetchingPcs, f
    <3>2. f.response \o inbox[w] = <<>>
      <4>1. f.response = <<>>
        BY <1>7, <2>1
      <4> QED BY <1>1, <3>1, <4>1, ConcatEmptySeq
    <3>3. CASE peer[w] = "connected"
      <4>1. outbox' = [outbox EXCEPT ![w] = outbox[w] \o <<Request(f.req)>>]
        BY <1>12, <3>1, <3>3 DEF ForwardRequest, Send, IsUp, f
      <4>2. outbox'[w] = <<Request(f.req)>>
        <5>1. <<>> \o <<Request(f.req)>> = <<Request(f.req)>>
          OBVIOUS
        <5> QED BY <1>1, <3>1, <4>1, <5>1 DEF IsUnasked
      <4> QED BY <1>7, <2>1, <2>2, <3>2, <3>3, <4>2 DEF Fetches, EarlyPcs, Request
    <3>4. CASE peer[w] = "closed" /\ "truncate" \in env.faults
      <4>1. env' = env
        BY <1>12 DEF ForwardRequest
      <4>2. IsTaken(frame[w].req, frame[w].response \o inbox[w])'
        <5>1. frame'[w].response \o inbox'[w] = <<>>
          BY <2>2, <3>2
        <5>2. 0 \in 0..ResponseParts
          BY SocketsAssumption DEF SocketsAssumption
        <5>3. \A r : SubSeq(Complete(r), 1, 0) = <<>>
          BY SocketsAssumption DEF SocketsAssumption, Complete
        <5> QED BY <3>4, <4>1, <5>1, <5>2, <5>3 DEF IsTaken, Complete, Part
      <4> QED BY <2>2, <3>4, <4>2 DEF Fetches, EarlyPcs
    <3>5. CASE peer[w] = "reset"
      BY <2>2, <3>5 DEF Fetches, EarlyPcs
    <3> QED BY <3>1, <3>3, <3>4, <3>5 DEF IsUnasked
  <2> QED BY <2>3, <2>4
<1>13. CASE RelayPart(w)
  <2>1. f.pc = "relay" /\ HasData(f.iServerfd)
    BY <1>13 DEF RelayPart, f
  <2>2. f.iServerfd # NoFd /\ Behind(f.iServerfd) = w /\ inbox[w] # <<>>
    BY <1>3, <1>4, <2>1 DEF HasData, FetchingPcs
  <2>3. /\ frame'[w].pc = "relay" /\ frame'[w].iServerfd = f.iServerfd
        /\ frame'[w].req = f.req
        /\ frame'[w].response = Append(f.response, Head(inbox[w]))
        /\ inbox'[w] = Tail(inbox[w])
        /\ peer' = peer
        /\ env' = env
    <3>1. /\ inbox' = [inbox EXCEPT ![w] = Tail(inbox[w])]
          /\ frame' = [frame EXCEPT ![w].response =
                         Append(f.response, Head(inbox[w]))]
      BY <1>13, <2>2 DEF RelayPart, f
    <3>2. peer' = peer /\ env' = env
      BY <1>13 DEF RelayPart
    <3> QED BY <1>1, <2>1, <3>1, <3>2 DEF f, Frames
  <2>4. outbox'[w] = outbox[w]
    <3>1. Send(frame[w].newsockfd, <<Head(inbox[w])>>) /\ frame[w].pc \in ServingPcs
      BY <1>13, <2>1, <2>2 DEF RelayPart, f, ServingPcs, HandlerPcs
    <3> QED BY <3>1, SendToClient
  <2>5. frame'[w].response \o inbox'[w] = f.response \o inbox[w]
    BY <1>1, <2>2, <2>3, PartReceived
  <2> DEFINE coming == f.response \o inbox[w]
  <2>6. \/ peer[w] = "connected" /\ outbox[w] = <<Request(f.req)>> /\ coming = <<>>
        \/ peer[w] = "closed" /\ IsTaken(f.req, coming)
        \/ peer[w] = "reset"
    BY <2>1, <2>2 DEF Fetches, f
  <2>7. IsTaken(f.req, coming) =>
          IsTaken(frame[w].req, frame[w].response \o inbox[w])'
    BY <2>3, <2>5 DEF IsTaken
  <2> QED BY <2>3, <2>4, <2>5, <2>6, <2>7 DEF Fetches, EarlyPcs, Request
<1>14. CASE RelayEnd(w)
  <2>1. f.pc = "relay" /\ HasEnded(f.iServerfd)
    BY <1>14 DEF RelayEnd, f
  <2>2. /\ f.iServerfd # NoFd /\ Behind(f.iServerfd) = w
        /\ inbox[w] = <<>> /\ peer[w] = "closed"
    BY <1>3, <1>4, <2>1 DEF HasEnded, FetchingPcs
  <2>3. /\ frame'[w].pc = "add" /\ frame'[w].req = f.req
        /\ frame'[w].response = f.response
        /\ env' = env
    BY <1>1, <1>14 DEF RelayEnd, Goto, f, Frames, socketVars
  <2>4. f.response \o inbox[w] = f.response
    BY <1>1, <2>2, ConcatEmptySeq
  <2>5. IsTaken(f.req, f.response)
    BY <2>1, <2>2, <2>4 DEF Fetches, f
  <2>6. IsTaken(frame[w].req, frame[w].response)'
    BY <2>3, <2>5 DEF IsTaken
  <2> QED BY <2>3, <2>6 DEF Fetches, EarlyPcs
<1> QED
  BY <1>8, <1>9, <1>10, <1>11, <1>12, <1>13, <1>14 DEF HandlerStep

\* An origin that answers, answers what it was asked.
LEMMA AnswerFetches ==
  ASSUME Apart, HandlerTypes, NEW w \in Workers, Fetches(w), Answer(w),
         frame' = frame
  PROVE  Fetches(w)'
<1> DEFINE f == frame[w]
<1>1. /\ w \in Endpoints /\ inbox[w] \in Seq(Items) /\ f.response \in Seq(Items)
      /\ peer = [e \in Endpoints |-> peer[e]]
      /\ inbox = [e \in Endpoints |-> inbox[e]]
      /\ HasWhatItUses(f)
  BY DEF HandlerTypes, HandlerTypeOK, SocketsTypeOK, Frames, Responses, Endpoints
<1>2. /\ IsUp(w) /\ outbox[w] # <<>> /\ outbox' = outbox /\ env' = env
  BY DEF Answer
<1>3. PICK n \in 0..ResponseParts, end \in {"closed", "reset"} :
        /\ \/ end = "closed" /\ n = ResponseParts
           \/ end = "closed" /\ "truncate" \in env.faults
           \/ end = "reset" /\ "abort" \in env.faults
        /\ peer' = [peer EXCEPT ![w] = end]
        /\ inbox' = [inbox EXCEPT ![w] = @ \o Reply(Head(outbox[w]), n)]
  BY DEF Answer
<1>4. f.pc = "forward" => f.iServerfd = NoFd
  BY <1>2 DEF Apart, IsUnasked
<1>5. CASE f.pc = "relay" /\ f.iServerfd # NoFd
  <2>1. f.req \in Resources
    BY <1>1, <1>5 DEF HasWhatItUses, AskingPcs
  <2>2. outbox[w] = <<Request(f.req)>> /\ f.response \o inbox[w] = <<>>
    BY <1>2, <1>5 DEF Fetches, IsUp
  <2>3. f.response = <<>> /\ inbox[w] = <<>>
    BY <1>1, <2>2, ConcatEqualIffEmpty
  <2>4. inbox'[w] = Reply(Request(f.req), n)
    <3>1. inbox'[w] = inbox[w] \o Reply(Head(outbox[w]), n)
      BY <1>1, <1>3
    <3>2. Reply(Request(f.req), n) \in Seq(Items)
      BY <2>1, ItemTypes, ReplyTypes
    <3>3. Head(outbox[w]) = Request(f.req)
      BY <2>2
    <3>4. inbox'[w] = <<>> \o Reply(Request(f.req), n)
      BY <2>3, <3>1, <3>3
    <3> QED BY <3>2, <3>4, ConcatEmptySeq
  <2>5. frame'[w].response \o inbox'[w] = SubSeq(Complete(f.req), 1, n)
    <3>1. Reply(Request(f.req), n) = SubSeq(Complete(f.req), 1, n)
      BY <2>1, FirstParts
    <3>2. Reply(Request(f.req), n) \in Seq(Items)
      BY <2>1, ItemTypes, ReplyTypes
    <3>3. <<>> \o inbox'[w] = inbox'[w]
      BY <2>4, <3>2, ConcatEmptySeq
    <3> QED BY <2>3, <2>4, <3>1, <3>3
  <2>6. peer'[w] = end
    BY <1>1, <1>3
  <2>7. end = "closed" =>
          IsTaken(frame[w].req, frame[w].response \o inbox[w])'
    BY <1>2, <1>3, <2>5 DEF IsTaken
  <2> QED
    BY <1>2, <1>5, <2>2, <2>6, <2>7 DEF Fetches, EarlyPcs, Request
<1>6. CASE ~(f.pc = "relay" /\ f.iServerfd # NoFd)
  BY <1>2, <1>4, <1>6 DEF Fetches, IsTaken
<1> QED BY <1>5, <1>6

\* An origin that leaves before it has its request has sent nothing.
LEMMA LeaveFetches ==
  ASSUME NEW w \in Workers, Fetches(w), Leave(w), frame' = frame
  PROVE  Fetches(w)'
<1>1. IsUp(w) /\ outbox[w] = <<>> /\ UNCHANGED <<env, inbox, outbox>>
  BY DEF Leave
<1>2. ~(frame[w].pc = "relay" /\ frame[w].iServerfd # NoFd)
  <2>1. <<Request(frame[w].req)>> # <<>>
    OBVIOUS
  <2> QED BY <1>1, <2>1 DEF Fetches, IsUp
<1> QED BY <1>1, <1>2 DEF Fetches, IsTaken

\* Every step of the server and of the outside.
LEMMA FetchesStep ==
  ASSUME Owned, Apart, HandlerTypes, \A w \in Workers : Fetches(w), [Next]_vars
  PROVE  \A w \in Workers : Fetches(w)'
<1>1. CASE Accept \/ AcceptFails \/ UNCHANGED vars
  <2>1. UNCHANGED <<env, frame, inbox, outbox, peer>>
    BY <1>1 DEF Accept, AcceptFails, vars, handlerVars, socketVars
  <2> QED BY <2>1, FetchesOn
<1>2. CASE Next
  <2>1. exited = "no"
    BY <1>2 DEF Next, ProcessRuns
  <2>2. ASSUME NEW w \in Workers, HandleClient(w) PROVE \A v \in Workers : Fetches(v)'
    <3>1. HandlerStep(w)
      BY <2>2 DEF HandleClient
    <3>2. Fetches(w)'
      BY <2>1, <3>1, HandlerFetches
    <3>3. \A v \in Workers \ {w} : Fetches(v)'
      BY <2>1, <3>1, HandlersTouchOwn, FetchesOn
    <3> QED BY <3>2, <3>3
  <2>3. ASSUME NEW w \in Workers, StartTask(w) \/ FinishTask(w)
        PROVE  \A v \in Workers : Fetches(v)'
    <3>1. UNCHANGED <<env, inbox, outbox, peer>>
      BY <2>3 DEF StartTask, FinishTask, socketVars
    <3> DEFINE called == [IdleFrame EXCEPT !.pc = "recv", !.newsockfd = Head(tasks)]
    <3>2. \/ frame' = [frame EXCEPT ![w] = called]
          \/ frame' = [frame EXCEPT ![w] = IdleFrame]
      BY <2>3 DEF StartTask, FinishTask, Call
    <3>3. /\ called.pc = "recv" /\ called.response = <<>>
          /\ IdleFrame.pc = "idle"
      BY DEF IdleFrame
    <3> HIDE DEF called
    <3>4. frame = [v \in Workers |-> frame[v]]
      BY DEF Owned, Shape
    <3>5. frame'[w] \in {called, IdleFrame}
          /\ \A v \in Workers \ {w} : frame'[v] = frame[v]
      BY <3>2, <3>4
    <3>6. Fetches(w)'
      BY <3>3, <3>5 DEF Fetches, EarlyPcs
    <3> QED BY <3>1, <3>5, <3>6, FetchesOn
  <2>4. CASE Outside
    <3>1. frame' = frame /\ env' = env /\ outbox' = outbox
      BY <2>4
      DEF Outside, OutsideStep, ClientStep, Connect, SendRequest, HangUp, Leave, Answer
    <3>2. /\ peer = [e \in Endpoints |-> peer[e]]
          /\ inbox = [e \in Endpoints |-> inbox[e]]
          /\ Workers \subseteq Endpoints
          /\ \A v \in Workers : v \notin Clients
      BY SocketsAssumption DEF SocketsAssumption, Apart, Endpoints
    <3>3. ASSUME NEW c \in Clients, ClientStep(c), NEW v \in Workers
          PROVE  Fetches(v)'
      <4>1. inbox'[v] = inbox[v] /\ peer'[v] = peer[v]
        BY <3>2, <3>3 DEF ClientStep, Connect, SendRequest, HangUp
      <4> QED BY <3>1, <4>1, FetchesOn
    <3>4. ASSUME NEW w \in Workers, Answer(w), NEW v \in Workers PROVE Fetches(v)'
      <4>1. CASE v = w
        BY <3>1, <3>4, <4>1, AnswerFetches
      <4>2. CASE v # w
        <5>1. inbox'[v] = inbox[v] /\ peer'[v] = peer[v]
          BY <3>2, <3>4, <4>2 DEF Answer
        <5> QED BY <3>1, <5>1, FetchesOn
      <4> QED BY <4>1, <4>2
    <3>5. ASSUME NEW w \in Workers, Leave(w), NEW v \in Workers PROVE Fetches(v)'
      <4>1. CASE v = w
        BY <3>1, <3>5, <4>1, LeaveFetches
      <4>2. CASE v # w
        <5>1. inbox'[v] = inbox[v] /\ peer'[v] = peer[v]
          BY <3>2, <3>5, <4>2 DEF Leave
        <5> QED BY <3>1, <5>1, FetchesOn
      <4> QED BY <4>1, <4>2
    <3> QED BY <2>4, <3>3, <3>4, <3>5 DEF Outside, OutsideStep
  <2> QED BY <1>1, <1>2, <2>2, <2>3, <2>4 DEF Next, WorkerStep
<1> QED BY <1>1, <1>2

\* Only add puts anything into the cache, and what a handler adds it has taken for the
\* response to the request whose key it adds it under.
LEMMA HandlerCaches ==
  ASSUME HandlerTypes, Caching, NEW w \in Workers, HandlerStep(w)
  PROVE  Filed' /\ CachesWholeResponses'
<1>1. /\ Cache!TypeOK /\ frame \in [Workers -> Frames] /\ HasWhatItUses(frame[w])
      /\ Filed /\ CachesWholeResponses /\ Fetches(w)
  BY DEF HandlerTypes, HandlerTypeOK, Caching
<1>2. env' = env
  BY DEF HandlerStep, RecvRequest, RecvEnd, RecvError, FindInCache, ServeCached,
         ConnectToOrigin, ConnectFails, ForwardRequest, RelayPart, RelayEnd,
         RelayError, AddToCache, CloseServer, CloseClient, socketVars
<1>3. CASE UNCHANGED <<cache_map, heap>>
  BY <1>1, <1>2, <1>3 DEF Filed, CachesWholeResponses
<1>4. CASE AddToCache(w)
  <2>1. /\ frame[w].pc = "add" /\ frame[w].req \in Resources
        /\ frame[w].response \in Responses
        /\ Key(w) = KeyOf[frame[w].req] /\ Key(w) \in Urls
        /\ IsTaken(frame[w].req, frame[w].response)
    BY <1>1, <1>4, HandlerAssumption
    DEF AddToCache, HasWhatItUses, AskingPcs, HandlerAssumption, Key, Frames, Fetches
  <2>2. CASE Cache!AddPresent(Key(w)) \/ Cache!AddCrash(Key(w))
    BY <1>3, <2>2 DEF Cache!AddPresent, Cache!AddCrash
  <2>3. CASE Cache!AddNew(Key(w), frame[w].response)
    <3> DEFINE u == Key(w)
               v == frame[w].response
    <3>1. /\ Filed'
          /\ \A x \in DOMAIN cache_map' :
               \/ x = u /\ heap'[cache_map'[x]].data = v
               \/ /\ x \in DOMAIN cache_map
                  /\ heap'[cache_map'[x]].data = heap[cache_map[x]].data
      BY <1>1, <2>1, <2>3, AddNewFiles
    <3>2. \E r \in Resources : KeyOf[r] = u /\ IsTaken(r, v)
      BY <2>1
    <3> HIDE DEF u, v
    <3>3. ASSUME NEW x \in DOMAIN cache_map'
          PROVE  \E r \in Resources :
                   KeyOf[r] = x /\ IsTaken(r, heap'[cache_map'[x]].data)
      <4>1. CASE x = u /\ heap'[cache_map'[x]].data = v
        BY <3>2, <4>1
      <4>2. CASE x \in DOMAIN cache_map
                 /\ heap'[cache_map'[x]].data = heap[cache_map[x]].data
        BY <1>1, <4>2 DEF CachesWholeResponses, IsTaken
      <4> QED BY <3>1, <4>1, <4>2
    <3> QED BY <1>2, <3>1, <3>3 DEF CachesWholeResponses, IsTaken
  <2> QED BY <1>4, <2>2, <2>3 DEF AddToCache, Cache!Add
<1>5. UNCHANGED <<cache_map, heap>> \/ AddToCache(w)
  BY DEF HandlerStep, RecvRequest, RecvEnd, RecvError, FindInCache, ServeCached,
         ConnectToOrigin, ConnectFails, ForwardRequest, RelayPart, RelayEnd,
         RelayError, CloseServer, CloseClient, cacheVars, Cache!FindHit,
         Cache!FindMiss, Cache!lruVars
<1> QED BY <1>3, <1>4, <1>5

LEMMA CachingStep ==
  Owned /\ Apart /\ ServerTypes /\ Caching /\ [Next]_vars => Caching'
<1> SUFFICES ASSUME Owned, Apart, ServerTypes, Caching, [Next]_vars PROVE Caching'
  OBVIOUS
<1>1. HandlerTypes
  BY DEF ServerTypes
<1>2. \A w \in Workers : Fetches(w)'
  BY <1>1, FetchesStep DEF Caching
<1>3. Filed' /\ CachesWholeResponses'
  <2>1. ASSUME NEW w \in Workers, HandleClient(w) PROVE Filed' /\ CachesWholeResponses'
    BY <1>1, <2>1, HandlerCaches DEF HandleClient
  <2>2. CASE UNCHANGED <<env, cache_map, heap>>
    BY <2>2 DEF Caching, Filed, CachesWholeResponses
  <2>3. UNCHANGED <<env, cache_map, heap>> \/ \E w \in Workers : HandleClient(w)
    BY DEF Next, WorkerStep, Accept, AcceptFails, StartTask, FinishTask, Outside,
           OutsideStep, ClientStep, Connect, SendRequest, HangUp, Leave, Answer,
           vars, handlerVars, socketVars, cacheVars
  <2> QED BY <2>1, <2>2, <2>3
<1> QED BY <1>2, <1>3 DEF Caching

LEMMA CachingInit == Init => Caching
<1> SUFFICES ASSUME Init PROVE Caching
  OBVIOUS
<1>1. Filed
  BY HandlerInitTypes DEF Init
<1>2. DOMAIN cache_map = {}
  BY DEF Init, HandlerInit, Cache!Init
<1>3. \A w \in Workers : frame[w] = IdleFrame
  BY DEF Init, HandlerInit
<1>4. \A w \in Workers : Fetches(w)
  BY <1>3 DEF Fetches, IdleFrame, EarlyPcs
<1> QED BY <1>1, <1>2, <1>4 DEF Caching, CachesWholeResponses

\* CachesWholeResponses: however many workers fetch at once, and whatever breaks, what
\* is cached for a url is the whole response to a request for it, or what an origin
\* that closed early has sent of it (ProxyUtils.cpp:166-197).
THEOREM CachesWholeResponsesHolds == Spec => []CachesWholeResponses
<1>1. Caching => CachesWholeResponses
  BY DEF Caching
<1> QED
  BY <1>1, IsOwned, ApartInit, ApartStep, TypesInit, TypesStep, CachingInit,
     CachingStep, PTL DEF Spec

\* As long as no url has to be evicted, whoever serves an element reads one that is
\* there, and nothing crashes.
KeepsWhatIsServed == RoomForAll => HasRoom /\ ServesWhatIsThere /\ ~crashed

LEMMA KeepsStep ==
  ASSUME Owned, ServerTypes, Caching, KeepsWhatIsServed, [Next]_vars
  PROVE  KeepsWhatIsServed'
<1>1. HandlerTypes /\ Filed
  BY DEF ServerTypes, Caching
<1>2. ASSUME NEW w \in Workers, HandleClient(w) PROVE KeepsWhatIsServed'
  <2>1. HandlerStep(w) /\ capacity' = capacity
    BY <1>1, <1>2, HandlerUsesCache DEF HandleClient, UsesCache, LeavesCache
  <2>2. \A v \in Workers \ {w} : frame'[v] = frame[v]
    BY <2>1, HandlerSteps DEF Owned, OthersStay
  <2>3. RoomForAll' = RoomForAll
    BY <2>1 DEF RoomForAll
  <2> QED BY <1>1, <2>1, <2>2, <2>3, HandlerKeepsServed DEF KeepsWhatIsServed
<1>3. ASSUME UNCHANGED cacheVars,
             \A w \in Workers : frame'[w] = frame[w] \/ frame'[w].pc # "serve"
      PROVE  KeepsWhatIsServed'
  BY <1>3 DEF KeepsWhatIsServed, RoomForAll, HasRoom, ServesWhatIsThere, cacheVars
<1>4. ASSUME NEW w \in Workers, StartTask(w) \/ FinishTask(w)
      PROVE  KeepsWhatIsServed'
  <2> DEFINE called == [IdleFrame EXCEPT !.pc = "recv", !.newsockfd = Head(tasks)]
  <2>1. \/ frame' = [frame EXCEPT ![w] = called]
        \/ frame' = [frame EXCEPT ![w] = IdleFrame]
    BY <1>4 DEF StartTask, FinishTask, Call
  <2>2. called.pc = "recv" /\ IdleFrame.pc = "idle"
    BY DEF IdleFrame
  <2> HIDE DEF called
  <2>3. frame = [v \in Workers |-> frame[v]]
    BY DEF Owned, Shape
  <2>4. UNCHANGED cacheVars
    BY <1>4 DEF StartTask, FinishTask
  <2> QED BY <1>3, <2>1, <2>2, <2>3, <2>4
<1>5. CASE Accept \/ AcceptFails \/ Outside \/ UNCHANGED vars
  <2>1. UNCHANGED <<cacheVars, frame>>
    BY <1>5
    DEF Accept, AcceptFails, Outside, OutsideStep, vars, handlerVars
  <2> QED BY <1>3, <2>1
<1> QED BY <1>2, <1>4, <1>5 DEF Next, WorkerStep

LEMMA KeepsInit == Init => KeepsWhatIsServed
<1> SUFFICES ASSUME Init PROVE KeepsWhatIsServed
  OBVIOUS
<1>1. /\ cache_list = <<>> /\ cache_map = [u \in {} |-> Free] /\ crashed = FALSE
      /\ \A w \in Workers : frame[w].pc = "idle"
  BY DEF Init, HandlerInit, Cache!Init, IdleFrame
<1>2. HasRoom
  <2>1. DOMAIN cache_map = {} /\ Len(cache_list) = 0
    BY <1>1
  <2> QED BY <2>1, FS_EmptySet DEF HasRoom
<1> QED BY <1>1, <1>2 DEF KeepsWhatIsServed, ServesWhatIsThere

\* EndsForACause: with any number of workers and clients, and however their steps and
\* those of the origins fall, the process exits only over what a client has done
\* (ThreadPoolServer.cpp:61-65, 92-96), SIGPIPE is raised only over a client that has
\* left or an origin that left before it had its request (ProxyUtils.cpp:114-127,
\* 144-149), and no cache with room for every url crashes it.
THEOREM EndsForACauseHolds == Spec => []EndsForACause
<1>1. ExitsForACause /\ KeepsWhatIsServed => EndsForACause
  BY DEF ExitsForACause, KeepsWhatIsServed, EndsForACause
<1>2. Owned /\ ServerTypes /\ Caching /\ KeepsWhatIsServed /\ [Next]_vars
      => KeepsWhatIsServed'
  BY KeepsStep
<1> QED
  BY <1>1, <1>2, IsOwned, ApartInit, ApartStep, TypesInit, TypesStep, CachingInit,
     CachingStep, KeepsInit, PTL DEF Spec

-----------------------------------------------------------------------------
(* What clients get when nothing goes wrong and nothing is evicted.        *)

\* There are not so many clients and workers that one of them could go without a
\* descriptor, for itself or for its origin.
EnoughForAll ==
  IsFiniteSet(Endpoints) /\ Cardinality(env.fds) >= Cardinality(Endpoints)

Quiet == EnoughForAll /\ env.faults = {} /\ RoomForAll

\* The client that worker w serves.
ClientOf(w) == fdTable[frame[w].newsockfd]

HasItsResponse(c) ==
  \E r \in Resources : KeyOf[r] = KeyOf[RequestOf[c]] /\ outbox[c] = Complete(r)

\* Clients ask for what they ask for, and nobody breaks off.
Behave ==
  /\ \A c \in Clients : /\ peer[c] \in {"absent", "connected", "sent"}
                        /\ inbox[c] \in Seq({Request(RequestOf[c])})
  /\ \A w \in Workers : peer[w] # "reset"

\* A client is in the backlog or behind a number, and there once.
OnePlace ==
  /\ \A i, j \in DOMAIN backlog : backlog[i] = backlog[j] => i = j
  /\ \A i \in DOMAIN backlog, fd \in Fds : backlog[i] # fdTable[fd]
  /\ \A fd, gd \in Fds :
       fdTable[fd] = fdTable[gd] /\ fdTable[fd] \in Clients => fd = gd

\* Nobody has sent a client anything before a worker serves it.
Unanswered ==
  /\ \A c \in Clients : peer[c] = "absent" => outbox[c] = <<>>
  /\ \A i \in DOMAIN backlog : outbox[backlog[i]] = <<>>
  /\ \A i \in DOMAIN tasks : outbox[fdTable[tasks[i]]] = <<>>

\* What a worker's client has got so far: nothing, what its origin has sent, or its
\* response; and an element that is to be served is still the one of its url.
Serves(w) ==
  LET f == frame[w] IN
  /\ f.pc \in AskingPcs => f.req = RequestOf[ClientOf(w)]
  /\ f.pc \in EarlyPcs \cup {"forward"} => outbox[ClientOf(w)] = <<>>
  /\ f.pc = "serve" => /\ Key(w) \in DOMAIN cache_map
                       /\ f.cached_response = cache_map[Key(w)]
  /\ f.pc \in {"forward", "relay", "add"} => f.iServerfd # NoFd
  /\ f.pc \in {"relay", "add"} => outbox[ClientOf(w)] = f.response
  /\ f.pc \in {"closeServer", "closeClient"} => HasItsResponse(ClientOf(w))

Answered == \A c \in Clients : Served(c) => HasItsResponse(c)

Serving ==
  /\ HasRoom /\ Behave /\ OnePlace /\ Unanswered /\ Answered
  /\ \A w \in Workers : Serves(w)

\* The world is as quiet after a step as before.
LEMMA QuietStays == [Next]_vars => (Quiet' <=> Quiet)
<1> SUFFICES ASSUME [Next]_vars PROVE Quiet' <=> Quiet
  OBVIOUS
<1>1. env' = env /\ capacity' = capacity
  <2>1. ASSUME NEW w \in Workers, HandlerStep(w) PROVE env' = env /\ capacity' = capacity
    BY <2>1
    DEF HandlerStep, RecvRequest, RecvEnd, RecvError, FindInCache, ServeCached,
        ConnectToOrigin, ConnectFails, ForwardRequest, RelayPart, RelayEnd,
        RelayError, AddToCache, CloseServer, CloseClient, socketVars, cacheVars,
        Cache!FindHit, Cache!FindMiss, Cache!lruVars, Cache!Add, Cache!AddPresent,
        Cache!AddNew, Cache!AddCrash
  <2> QED
    BY <2>1
    DEF Next, WorkerStep, HandleClient, Accept, AcceptFails, StartTask, FinishTask,
        Outside, OutsideStep, ClientStep, Connect, SendRequest, HangUp, Leave, Answer, vars,
        handlerVars, socketVars, cacheVars
<1> QED BY <1>1 DEF Quiet, EnoughForAll, RoomForAll, Endpoints

\* Who wants a descriptor for its origin gets one: each of the others leads to another
\* endpoint.
LEMMA DescriptorIsFree ==
  ASSUME Owned, OnePlace, Quiet, NEW w \in Workers, frame[w].pc = "connect"
  PROVE  FreeFds # {}
<1> SUFFICES ASSUME FreeFds = {} PROVE FALSE
  OBVIOUS
<1>1. /\ env.fds \subseteq Fds /\ fdTable \in [Fds -> Endpoints \cup {Closed}]
      /\ QueueOwns /\ WorkersOwn /\ OriginsAreOwned /\ NoneIsLeaked
  BY DEF Owned, Shape
<1>2. \A v \in Workers : v \notin Clients /\ v # Closed /\ NoFd \notin Fds
  BY SocketsAssumption DEF SocketsAssumption
<1>3. ASSUME NEW fd \in Fds, NEW v \in Workers, fdTable[fd] = v
      PROVE  frame[v].pc \in FetchingPcs /\ frame[v].iServerfd = fd
  <2>1. HasOwner(fd)
    BY <1>1, <1>2, <1>3 DEF NoneIsLeaked
  <2>2. PICK u \in Workers : frame[u].pc \in FetchingPcs /\ frame[u].iServerfd = fd
    BY <1>1, <1>2, <1>3, <2>1 DEF HasOwner, QueueOwns, WorkersOwn
  <2> QED BY <1>1, <1>2, <1>3, <2>2 DEF OriginsAreOwned
<1>4. \A fd \in env.fds : fdTable[fd] \in Endpoints \ {w}
  <2>1. \A fd \in env.fds : fdTable[fd] # Closed
    BY DEF FreeFds
  <2>2. "connect" \notin FetchingPcs
    BY DEF FetchingPcs
  <2> QED BY <1>1, <1>3, <2>1, <2>2
<1> DEFINE T == Endpoints \ {w}
           f == [fd \in env.fds |-> fdTable[fd]]
<1>5. \A fd, gd \in env.fds : fdTable[fd] = fdTable[gd] => fd = gd
  <2> SUFFICES ASSUME NEW fd \in env.fds, NEW gd \in env.fds, fdTable[fd] = fdTable[gd]
               PROVE  fd = gd
    OBVIOUS
  <2>1. CASE fdTable[fd] \in Clients
    BY <1>1, <2>1 DEF OnePlace
  <2>2. CASE fdTable[fd] \in Workers
    BY <1>1, <1>3, <2>2
  <2> QED BY <1>4, <2>1, <2>2 DEF Endpoints
<1>6. /\ IsFiniteSet(Endpoints) /\ IsFiniteSet(env.fds)
      /\ Cardinality(Endpoints) \in Nat /\ Cardinality(env.fds) \in Nat
      /\ Cardinality(env.fds) >= Cardinality(Endpoints)
  BY <1>1, FS_Subset, FS_CardinalityType, SocketsAssumption
  DEF Quiet, EnoughForAll, SocketsAssumption
<1>7. IsFiniteSet(T) /\ Cardinality(T) = Cardinality(Endpoints) - 1
  BY <1>6, FS_RemoveElement DEF Endpoints
<1>8. Cardinality(T) < Cardinality(env.fds)
  BY <1>6, <1>7
<1>9. f \in [env.fds -> T]
  BY <1>4
<1> HIDE DEF T, f
<1>10. PICK fd \in env.fds, gd \in env.fds : fd # gd /\ f[fd] = f[gd]
  BY <1>6, <1>7, <1>8, <1>9, FS_PigeonHole
<1> QED BY <1>5, <1>10 DEF f

\* A handler talks to its own client and its own origin only.
LEMMA HandlersTouchTwo ==
  ASSUME Owned, Apart, NEW w \in Workers, HandlerStep(w), exited = "no"
  PROVE  /\ \A c \in Clients : peer'[c] = peer[c]
         /\ \A c \in Clients \ {ClientOf(w)} :
              inbox'[c] = inbox[c] /\ outbox'[c] = outbox[c]
<1>1. /\ peer = [e \in Endpoints |-> peer[e]]
      /\ inbox = [e \in Endpoints |-> inbox[e]]
      /\ outbox = [e \in Endpoints |-> outbox[e]]
      /\ Workers \subseteq Endpoints /\ Clients \subseteq Endpoints
  BY DEF Apart, Endpoints
<1>2. frame[w].pc \in ServingPcs =>
        Behind(frame[w].newsockfd) = ClientOf(w) /\ ClientOf(w) \in Clients
  BY DEF Owned, WorkersOwn, Behind, ClientOf
<1>3. frame[w].pc \in FetchingPcs => Behind(frame[w].iServerfd) \in {w, Closed}
  BY SocketsAssumption DEF SocketsAssumption, Owned, OriginsAreOwned, Behind
<1>4. \A c \in Clients : c \notin Workers /\ c # Closed
  BY SocketsAssumption DEF SocketsAssumption
<1> USE DEF ServingPcs, FetchingPcs, HandlerPcs
<1>5. CASE RecvRequest(w)
  BY <1>1, <1>2, <1>5 DEF RecvRequest
<1>6. CASE RecvEnd(w) \/ RecvError(w) \/ FindInCache(w) \/ ConnectFails(w) \/ RelayEnd(w)
             \/ RelayError(w) \/ AddToCache(w) \/ CloseServer(w) \/ CloseClient(w)
  BY <1>6
  DEF RecvEnd, RecvError, FindInCache, ConnectFails, RelayEnd, RelayError, AddToCache,
      CloseServer, CloseClient, socketVars
<1>7. CASE ServeCached(w) \/ RelayPart(w)
  <2>1. PICK items : Send(frame[w].newsockfd, items) \/ UNCHANGED <<outbox, exited>>
    BY <1>7 DEF ServeCached, RelayPart
  <2>2. \/ UNCHANGED outbox
        \/ outbox' = [outbox EXCEPT ![ClientOf(w)] = @ \o items]
    BY <1>2, <1>7, <2>1 DEF Send, ServeCached, RelayPart
  <2>3. \/ inbox' = inbox
        \/ /\ inbox' = [inbox EXCEPT ![Behind(frame[w].iServerfd)] = Tail(@)]
           /\ frame[w].pc = "relay"
    BY <1>7 DEF ServeCached, RelayPart
  <2>4. \A c \in Clients : inbox'[c] = inbox[c]
    BY <1>1, <1>3, <1>4, <2>3
  <2>5. peer' = peer
    BY <1>7 DEF ServeCached, RelayPart
  <2> QED BY <1>1, <2>2, <2>4, <2>5
<1>8. CASE ConnectToOrigin(w)
  BY <1>1, <1>4, <1>8 DEF ConnectToOrigin
<1>9. CASE ForwardRequest(w)
  <2>1. \/ UNCHANGED outbox
        \/ \E e \in {w, Closed} : outbox' = [outbox EXCEPT ![e] = @ \o <<Request(frame[w].req)>>]
    BY <1>3, <1>9 DEF ForwardRequest, Send
  <2> QED BY <1>1, <1>4, <1>9, <2>1 DEF ForwardRequest
<1> QED BY <1>5, <1>6, <1>7, <1>8, <1>9 DEF HandlerStep

\* What a worker sends to its client arrives, while clients stay.
LEMMA ClientReceives ==
  ASSUME Owned, Apart, Behave, NEW w \in Workers, frame[w].pc \in ServingPcs,
         NEW items, Send(frame[w].newsockfd, items)
  PROVE  outbox'[ClientOf(w)] = outbox[ClientOf(w)] \o items
<1> DEFINE c == ClientOf(w)
<1>1. Behind(frame[w].newsockfd) = c /\ c \in Clients /\ peer[c] # "absent"
  BY DEF Owned, WorkersOwn, Apart, Behind, ClientOf
<1>2. c # Closed /\ IsUp(c)
  BY <1>1, SocketsAssumption DEF SocketsAssumption, Behave, IsUp
<1> HIDE DEF c
<1>3. outbox' = [outbox EXCEPT ![c] = @ \o items]
  BY <1>1, <1>2 DEF Send
<1>4. outbox = [e \in Endpoints |-> outbox[e]] /\ c \in Endpoints
  BY <1>1 DEF Apart, Endpoints
<1>5. outbox'[c] = outbox[c] \o items
  BY <1>3, <1>4
<1> QED BY <1>5 DEF c

\* A worker that does not move, and whose client is left alone.
LEMMA ServesOn ==
  ASSUME NEW v \in Workers, Serves(v), frame'[v] = frame[v],
         frame[v].pc \in ServingPcs =>
           /\ ClientOf(v)' = ClientOf(v)
           /\ outbox'[ClientOf(v)] = outbox[ClientOf(v)],
         \A x \in DOMAIN cache_map :
           x \in DOMAIN cache_map' /\ cache_map'[x] = cache_map[x],
         frame[v].pc \in HandlerPcs
  PROVE  Serves(v)'
<1>1. CASE frame[v].pc \in ServingPcs
  <2>1. HasItsResponse(ClientOf(v)) => HasItsResponse(ClientOf(v))'
    BY <1>1 DEF HasItsResponse, Complete, Part
  <2>2. Key(v)' = Key(v)
    BY DEF Key
  <2> QED BY <1>1, <2>1, <2>2 DEF Serves
<1>2. CASE frame[v].pc \notin ServingPcs
  <2>1. frame[v].pc \in {"idle", "return"}
    BY <1>2 DEF ServingPcs
  <2> QED BY <2>1 DEF Serves, AskingPcs, EarlyPcs
<1> QED BY <1>1, <1>2

\* A worker has its client until it closes it.
LEMMA ClientStays ==
  ASSUME Owned, NEW w \in Workers, HandlerStep(w), frame[w].pc # "closeClient"
  PROVE  ClientOf(w)' = ClientOf(w)
<1>1. OthersStay(w) /\ (GoesOn(w) \/ Opens(w) \/ GetsNone(w) \/ ClosesOrigin(w))
  BY HandlerSteps DEF Owned, ClosesClient
<1>2. frame[w].pc \in ServingPcs
  BY <1>1 DEF GoesOn, Opens, GetsNone, ClosesOrigin, ServingPcs, HandlerPcs
<1>3. /\ frame[w].newsockfd \in Fds /\ ClientOf(w) \in Clients
      /\ env.fds \subseteq Fds /\ fdTable = [fd \in Fds |-> fdTable[fd]]
  BY <1>2 DEF Owned, Shape, WorkersOwn, ClientOf
<1>4. w \notin Clients /\ Closed \notin Clients
  BY SocketsAssumption DEF SocketsAssumption
<1>5. CASE GoesOn(w) \/ GetsNone(w)
  BY <1>1, <1>5 DEF GoesOn, GetsNone, OthersStay, ClientOf
<1>6. CASE Opens(w)
  <2>1. LowestFd # frame[w].newsockfd
    BY <1>3, <1>4, <1>6, LowestFdIsFree DEF Opens, ClientOf
  <2> QED BY <1>1, <1>3, <1>6, <2>1 DEF Opens, OthersStay, ClientOf
<1>7. CASE ClosesOrigin(w)
  <2>1. frame[w].iServerfd \in Fds => frame[w].iServerfd # frame[w].newsockfd
    BY <1>3, <1>4, <1>7, SocketsAssumption
    DEF SocketsAssumption, ClosesOrigin, Owned, OriginsAreOwned, FetchingPcs, ClientOf
  <2> QED BY <1>1, <1>3, <1>7, <2>1 DEF ClosesOrigin, CloseFd, OthersStay, ClientOf
<1> QED BY <1>1, <1>5, <1>6, <1>7

\* Two workers serve two clients, and one does not disturb the other's.
LEMMA OtherClientsStay ==
  ASSUME Owned, OnePlace, Owned', NEW w \in Workers, HandlerStep(w),
         NEW v \in Workers \ {w}, frame[v].pc \in ServingPcs
  PROVE  ClientOf(v)' = ClientOf(v) /\ ClientOf(v) \in Clients \ {ClientOf(w)}
<1>1. /\ OthersStay(w)
      /\ GoesOn(w) \/ Opens(w) \/ GetsNone(w) \/ ClosesOrigin(w) \/ ClosesClient(w)
  BY HandlerSteps DEF Owned
<1>2. frame[w].pc \in ServingPcs
  BY <1>1
  DEF GoesOn, Opens, GetsNone, ClosesOrigin, ClosesClient, ServingPcs, HandlerPcs
<1>3. frame'[v] = frame[v]
  BY <1>1 DEF OthersStay
<1>4. frame[v].newsockfd \in Fds /\ fdTable'[frame[v].newsockfd] \in Clients
  BY <1>3 DEF Owned, WorkersOwn
<1>5. ClientOf(v)' = ClientOf(v)
  BY <1>3, <1>4, HandlersConnectNoClient DEF ClientOf
<1>6. /\ frame[w].newsockfd \in Fds /\ ClientOf(w) \in Clients /\ ClientOf(v) \in Clients
      /\ frame[v].newsockfd # frame[w].newsockfd
  BY <1>2 DEF Owned, WorkersOwn, ClientOf
<1> QED BY <1>4, <1>5, <1>6 DEF OnePlace, ClientOf

\* All parts of a response are the response.
LEMMA TakenIsComplete ==
  ASSUME NEW r \in Resources
  PROVE  /\ Complete(r) \in Seq(Items)
         /\ SubSeq(Complete(r), 1, ResponseParts) = Complete(r)
<1>1. ResponseParts \in Nat
  BY SocketsAssumption DEF SocketsAssumption
<1>2. \A i \in 1..ResponseParts : Part(r, i) \in Items
  BY ItemTypes
<1>3. Complete(r) \in Seq(Items) /\ Len(Complete(r)) = ResponseParts
  BY <1>1, <1>2 DEF Complete
<1> HIDE DEF Complete
<1>4. SubSeq(Complete(r), 1, Len(Complete(r))) = Complete(r)
  BY <1>3, SubSeqFull
<1> QED BY <1>3, <1>4

\* Each step of a handler, for the client it serves.
LEMMA HandlerServes ==
  ASSUME Owned, Apart, HandlerTypes, Caching, Quiet, Behave, OnePlace, exited = "no",
         NEW w \in Workers, Serves(w), HandlerStep(w)
  PROVE  Serves(w)'
<1> DEFINE f == frame[w]
           c == ClientOf(w)
<1>1. /\ frame \in [Workers -> Frames] /\ f \in Frames /\ HasWhatItUses(f)
      /\ f.response \in Seq(Items) /\ f.pc \in HandlerPcs
      /\ inbox \in [Endpoints -> Seq(Items)]
      /\ outbox \in [Endpoints -> Seq(Items)]
      /\ w \in Endpoints
  BY DEF HandlerTypes, HandlerTypeOK, SocketsTypeOK, Frames, Responses, Endpoints
<1>2. /\ f.pc \in ServingPcs => c \in Clients /\ Behind(f.newsockfd) = c
      /\ Clients \subseteq Endpoints /\ w \notin Clients /\ Closed \notin Endpoints
  BY SocketsAssumption
  DEF SocketsAssumption, Owned, WorkersOwn, Behind, ClientOf, Endpoints
<1>3. f.pc \in FetchingPcs /\ f.iServerfd # NoFd => Behind(f.iServerfd) = w
  BY DEF Owned, OriginsAreOwned, Behind
<1>4. f.pc # "closeClient" => ClientOf(w)' = c
  BY ClientStays
<1>5. "truncate" \notin env.faults /\ "unreachable" \notin env.faults
  BY DEF Quiet
<1>6. \A r \in Resources : \A items : IsTaken(r, items) => items = Complete(r)
  BY <1>5, TakenIsComplete DEF IsTaken
<1>7. /\ f.pc \in AskingPcs => f.req = RequestOf[c]
      /\ f.pc \in EarlyPcs \cup {"forward"} => outbox[c] = <<>>
      /\ f.pc \in {"forward", "relay", "add"} => f.iServerfd # NoFd
      /\ f.pc \in {"relay", "add"} => outbox[c] = f.response
      /\ f.pc \in {"closeServer", "closeClient"} => HasItsResponse(c)
      /\ f.pc = "serve" => /\ Key(w) \in DOMAIN cache_map
                           /\ f.cached_response = cache_map[Key(w)]
  BY DEF Serves
<1> HIDE DEF f, c
<1> USE DEF AskingPcs, EarlyPcs, FetchingPcs
<1>8. CASE RecvRequest(w)
  <2>1. f.pc = "recv" /\ f.pc \in ServingPcs
    BY <1>8 DEF RecvRequest, f, ServingPcs, HandlerPcs
  <2>2. c \in Clients /\ Behind(f.newsockfd) = c /\ outbox[c] = <<>>
    BY <1>2, <1>7, <2>1
  <2>3. inbox[c] \in Seq({Request(RequestOf[c])}) /\ inbox[c] # <<>>
    BY <1>8, <2>2 DEF RecvRequest, HasData, Behave, f
  <2>4. Head(inbox[c]) = Request(RequestOf[c])
    BY <2>3, HeadTailProperties
  <2>5. Head(inbox[c]).type = "request" /\ Head(inbox[c]).of = RequestOf[c]
    BY <2>4 DEF Request
  <2>6. outbox' = outbox
    BY <1>8 DEF RecvRequest
  <2>7. frame' = [frame EXCEPT ![w].pc = "find", ![w].req = RequestOf[c]]
    BY <1>8, <2>2, <2>5 DEF RecvRequest, f
  <2>8. frame'[w].pc = "find" /\ frame'[w].req = RequestOf[c]
    BY <1>1, <2>7 DEF Frames
  <2>9. ClientOf(w)' = c
    BY <1>4, <2>1
  <2> QED BY <2>2, <2>6, <2>8, <2>9 DEF Serves
<1>9. CASE RecvEnd(w) \/ RecvError(w)
  <2>1. frame' = frame /\ outbox' = outbox /\ f.pc = "recv"
    BY <1>9 DEF RecvEnd, RecvError, socketVars, f
  <2>2. ClientOf(w)' = c /\ frame'[w].pc = "recv" /\ outbox'[c] = <<>>
    BY <1>4, <1>7, <2>1 DEF f
  <2> QED BY <2>2 DEF Serves
<1>10. CASE FindInCache(w)
  <2>1. f.pc = "find" /\ outbox' = outbox
    BY <1>10 DEF FindInCache, socketVars, f
  <2>2. ClientOf(w)' = c /\ outbox'[c] = <<>>
    BY <1>4, <1>7, <2>1
  <2>3. /\ frame'[w].req = RequestOf[c]
        /\ \/ frame'[w].pc = "connect"
           \/ /\ frame'[w].pc = "serve" /\ Key(w) \in DOMAIN cache_map
              /\ frame'[w].cached_response = cache_map[Key(w)]
    BY <1>1, <1>7, <1>10, <2>1 DEF FindInCache, Goto, Frames, f, Cache!FindHit
  <2>4. cache_map' = cache_map /\ Key(w)' = Key(w)
    <3>1. frame'[w].req = f.req
      BY <1>7, <2>1, <2>3
    <3>2. cache_map' = cache_map
      BY <1>10 DEF FindInCache, Cache!FindHit, Cache!FindMiss, Cache!lruVars
    <3> QED BY <3>1, <3>2 DEF Key, f
  <2> QED BY <2>2, <2>3, <2>4 DEF Serves
<1>11. CASE ServeCached(w)
  <2>1. f.pc = "serve" /\ f.pc \in ServingPcs
    BY <1>11 DEF ServeCached, f, ServingPcs, HandlerPcs
  <2>2. heap[f.cached_response] # Free
    BY <1>7, <2>1 DEF Caching, Filed
  <2>3. PICK r \in Resources :
          KeyOf[r] = Key(w) /\ heap[f.cached_response].data = Complete(r)
    <3>1. PICK r \in Resources : KeyOf[r] = Key(w)
                                 /\ IsTaken(r, heap[f.cached_response].data)
      BY <1>7, <2>1 DEF Caching, CachesWholeResponses, IsTaken
    <3> QED BY <1>6, <3>1
  <2>4. Send(f.newsockfd, Complete(r))
    BY <1>11, <2>2, <2>3 DEF ServeCached, f
  <2>5. outbox'[c] = outbox[c] \o Complete(r)
    BY <2>1, <2>4, ClientReceives DEF f, c
  <2>6. outbox'[c] = Complete(r)
    <3>1. outbox[c] = <<>>
      BY <1>7, <2>1
    <3>2. Complete(r) \in Seq(Items)
      BY TakenIsComplete
    <3> QED BY <2>5, <3>1, <3>2, ConcatEmptySeq
  <2>7. ClientOf(w)' = c /\ frame'[w].pc = "closeClient"
    BY <1>1, <1>4, <1>11, <2>1 DEF ServeCached, Goto, Frames
  <2>8. Key(w) = KeyOf[RequestOf[c]]
    BY <1>7, <2>1 DEF Key, f
  <2>9. HasItsResponse(ClientOf(w))'
    <3>1. KeyOf[r] = KeyOf[RequestOf[ClientOf(w)']] /\ outbox'[ClientOf(w)'] = Complete(r)
      BY <2>3, <2>6, <2>7, <2>8
    <3> QED BY <3>1 DEF HasItsResponse, Complete, Part
  <2> QED BY <2>7, <2>9 DEF Serves
<1>12. CASE ConnectToOrigin(w)
  <2>1. f.pc = "connect" /\ f.pc \in ServingPcs
    BY <1>12 DEF ConnectToOrigin, f, ServingPcs, HandlerPcs
  <2>2. LowestFd # NoFd
    BY <1>12, LowestFdIsFree, SocketsAssumption
    DEF ConnectToOrigin, SocketsAssumption, Owned, Shape
  <2>3. /\ frame'[w].pc = "forward" /\ frame'[w].iServerfd = LowestFd
        /\ frame'[w].req = f.req
    BY <1>1, <1>12 DEF ConnectToOrigin, Frames, f
  <2>4. outbox'[c] = outbox[c]
    BY <1>1, <1>2, <1>12, <2>1 DEF ConnectToOrigin
  <2>5. ClientOf(w)' = c
    BY <1>4, <2>1
  <2> QED BY <1>7, <2>1, <2>2, <2>3, <2>4, <2>5 DEF Serves
<1>13. CASE ConnectFails(w)
  <2>1. f.pc = "connect" /\ FreeFds = {}
    BY <1>5, <1>13 DEF ConnectFails, CannotConnect, f
  <2> QED BY <2>1, DescriptorIsFree DEF f
<1>14. CASE ForwardRequest(w)
  <2>1. f.pc = "forward" /\ f.pc \in ServingPcs
    BY <1>14 DEF ForwardRequest, f, ServingPcs, HandlerPcs
  <2>2. Behind(f.iServerfd) = w
    BY <1>3, <1>7, <2>1
  <2>3. outbox'[c] = outbox[c]
    <3>1. \/ outbox' = outbox
          \/ outbox' = [outbox EXCEPT ![w] = @ \o <<Request(frame[w].req)>>]
      BY <1>14, <2>2 DEF ForwardRequest, Send, f
    <3> QED BY <1>1, <1>2, <2>1, <3>1
  <2>4. /\ frame'[w].pc = "relay" /\ frame'[w].iServerfd = f.iServerfd
        /\ frame'[w].req = f.req /\ frame'[w].response = f.response
    BY <1>1, <1>14 DEF ForwardRequest, Goto, Frames, f
  <2>5. f.response = <<>>
    BY <2>1 DEF Caching, Fetches, f
  <2>6. ClientOf(w)' = c
    BY <1>4, <2>1
  <2> QED BY <1>7, <2>1, <2>3, <2>4, <2>5, <2>6 DEF Serves
<1>15. CASE RelayPart(w)
  <2>1. f.pc = "relay" /\ f.pc \in ServingPcs
    BY <1>15 DEF RelayPart, f, ServingPcs, HandlerPcs
  <2>2. Behind(f.iServerfd) = w
    BY <1>3, <1>7, <2>1
  <2>3. inbox[w] # <<>> /\ inbox[w] \in Seq(Items) /\ Head(inbox[w]) \in Items
    BY <1>1, <1>15, <2>2, HeadTailProperties DEF RelayPart, HasData, f
  <2>4. Send(f.newsockfd, <<Head(inbox[w])>>)
    BY <1>15, <2>2 DEF RelayPart, f
  <2>5. outbox'[c] = outbox[c] \o <<Head(inbox[w])>>
    BY <2>1, <2>4, ClientReceives DEF f, c
  <2>6. /\ frame'[w].pc = "relay" /\ frame'[w].iServerfd = f.iServerfd
        /\ frame'[w].req = f.req
        /\ frame'[w].response = Append(f.response, Head(inbox[w]))
    <3>1. frame' = [frame EXCEPT ![w].response = Append(@, Head(inbox[w]))]
      BY <1>15, <2>2 DEF RelayPart, f
    <3> QED BY <1>1, <2>1, <3>1 DEF Frames, f
  <2>7. Append(f.response, Head(inbox[w])) = f.response \o <<Head(inbox[w])>>
    BY <1>1, <2>3, AppendIsConcat
  <2>8. ClientOf(w)' = c
    BY <1>4, <2>1
  <2> QED BY <1>7, <2>1, <2>5, <2>6, <2>7, <2>8 DEF Serves
<1>16. CASE RelayEnd(w)
  <2>1. f.pc = "relay" /\ outbox' = outbox
    BY <1>16 DEF RelayEnd, f, socketVars
  <2>2. /\ frame'[w].pc = "add" /\ frame'[w].iServerfd = f.iServerfd
        /\ frame'[w].req = f.req /\ frame'[w].response = f.response
    BY <1>1, <1>16 DEF RelayEnd, Goto, Frames, f
  <2>3. ClientOf(w)' = c
    BY <1>4, <2>1
  <2> QED BY <1>7, <2>1, <2>2, <2>3 DEF Serves
<1>17. CASE RelayError(w)
  <2>1. f.pc = "relay" /\ IsBroken(f.iServerfd)
    BY <1>17 DEF RelayError, f
  <2>2. Behind(f.iServerfd) = w
    BY <1>3, <1>7, <2>1
  <2> QED BY <1>1, <2>1, <2>2 DEF IsBroken, Behave
<1>18. CASE AddToCache(w)
  <2>1. f.pc = "add" /\ outbox' = outbox
    BY <1>18 DEF AddToCache, f, socketVars
  <2>2. f.req = RequestOf[c] /\ f.req \in Resources /\ IsTaken(f.req, f.response)
    BY <1>1, <1>7, <2>1 DEF HasWhatItUses, Caching, Fetches, f
  <2>3. outbox[c] = Complete(f.req)
    BY <1>6, <1>7, <2>1, <2>2
  <2>4. ClientOf(w)' = c /\ frame'[w].pc = "closeServer"
    BY <1>1, <1>4, <1>18, <2>1 DEF AddToCache, Goto, Frames
  <2>5. HasItsResponse(ClientOf(w))'
    BY <2>1, <2>2, <2>3, <2>4 DEF HasItsResponse, Complete, Part
  <2> QED BY <2>4, <2>5 DEF Serves
<1>19. CASE CloseServer(w)
  <2>1. f.pc = "closeServer" /\ outbox' = outbox
    BY <1>19 DEF CloseServer, f
  <2>2. ClientOf(w)' = c /\ frame'[w].pc = "closeClient"
    BY <1>1, <1>4, <1>19, <2>1 DEF CloseServer, Goto, Frames
  <2>3. HasItsResponse(ClientOf(w))'
    BY <1>7, <2>1, <2>2 DEF HasItsResponse, Complete, Part
  <2> QED BY <2>2, <2>3 DEF Serves
<1>20. CASE CloseClient(w)
  <2>1. frame'[w].pc = "return"
    BY <1>1, <1>20 DEF CloseClient, Goto, Frames
  <2> QED BY <2>1 DEF Serves
<1> QED
  BY <1>8, <1>9, <1>10, <1>11, <1>12, <1>13, <1>14, <1>15, <1>16, <1>17, <1>18,
     <1>19, <1>20
  DEF HandlerStep

\* The other parts of Serving.
LEMMA HandlerKeepsServing ==
  ASSUME Owned, Apart, HandlerTypes, Caching, Quiet, Serving, exited = "no", Owned',
         NEW w \in Workers, HandlerStep(w), tasks' = tasks
  PROVE  Serving'
<1>1. /\ HasRoom /\ Behave /\ OnePlace /\ Unanswered /\ Answered
      /\ \A v \in Workers : Serves(v)
  BY DEF Serving
<1>2. /\ OthersStay(w) /\ UNCHANGED <<env, backlog>>
      /\ GoesOn(w) \/ Opens(w) \/ GetsNone(w) \/ ClosesOrigin(w) \/ ClosesClient(w)
  BY HandlerSteps DEF Owned
<1>3. frame[w].pc \in ServingPcs
  BY <1>2
  DEF GoesOn, Opens, GetsNone, ClosesOrigin, ClosesClient, ServingPcs, HandlerPcs
<1>4. /\ frame[w].newsockfd \in Fds /\ ClientOf(w) \in Clients
      /\ \A i \in DOMAIN tasks : tasks[i] # frame[w].newsockfd
  BY <1>3 DEF Owned, WorkersOwn, ClientOf
<1>5. /\ \A c \in Clients : peer'[c] = peer[c]
      /\ \A c \in Clients \ {ClientOf(w)} : inbox'[c] = inbox[c] /\ outbox'[c] = outbox[c]
  BY HandlersTouchTwo
<1>6. \A fd \in Fds : fdTable'[fd] \in Clients => fdTable'[fd] = fdTable[fd]
  BY HandlersConnectNoClient
<1>7. /\ HasRoom'
      /\ \A x \in DOMAIN cache_map :
           x \in DOMAIN cache_map' /\ cache_map'[x] = cache_map[x]
  <2>1. CASE UNCHANGED cacheVars \/ ServeCached(w)
    BY <1>1, <2>1 DEF HasRoom, cacheVars, ServeCached
  <2>2. CASE FindInCache(w) \/ AddToCache(w)
    <3>1. Cache!TypeOK /\ Key(w) \in Urls /\ frame[w].response \in Responses
      BY <2>2, HandlerAssumption
      DEF HandlerTypes, HandlerTypeOK, HasWhatItUses, AskingPcs, HandlerAssumption, Key,
          Frames, FindInCache, AddToCache
    <3>2. CacheOperation(Key(w))
      BY <2>2, <3>1 DEF FindInCache, AddToCache, CacheOperation, Cache!Add
    <3> QED BY <1>1, <3>1, <3>2, NothingIsEvicted DEF Quiet
  <2>3. UNCHANGED cacheVars \/ ServeCached(w) \/ FindInCache(w) \/ AddToCache(w)
    BY DEF HandlerStep, RecvRequest, RecvEnd, RecvError, ConnectToOrigin, ConnectFails,
           ForwardRequest, RelayPart, RelayEnd, RelayError, CloseServer, CloseClient
  <2> QED BY <2>1, <2>2, <2>3
<1>8. ASSUME NEW v \in Workers PROVE Serves(v)'
  <2>1. CASE v = w
    BY <1>1, <2>1, HandlerServes
  <2>2. CASE v # w
    <3>1. frame'[v] = frame[v] /\ frame[v].pc \in HandlerPcs
      BY <1>2, <2>2 DEF OthersStay, Owned, Shape, IsFrame
    <3>2. frame[v].pc \in ServingPcs =>
            ClientOf(v)' = ClientOf(v) /\ outbox'[ClientOf(v)] = outbox[ClientOf(v)]
      BY <1>1, <1>5, <2>2, OtherClientsStay
    <3> QED BY <1>1, <1>7, <3>1, <3>2, ServesOn
  <2> QED BY <2>1, <2>2
<1>9. Behave'
  <2>1. ASSUME NEW c \in Clients PROVE inbox'[c] \in Seq({Request(RequestOf[c])})
    <3>1. inbox[c] \in Seq({Request(RequestOf[c])})
      BY <1>1 DEF Behave
    <3>2. inbox'[c] = inbox[c] \/ (inbox[c] # <<>> /\ inbox'[c] = Tail(inbox[c]))
      <4>1. CASE c = ClientOf(w)
        <5>1. Behind(frame[w].newsockfd) = c /\ c # w
          BY <1>4, <4>1, SocketsAssumption DEF SocketsAssumption, Behind, ClientOf
        <5>2. inbox = [e \in Endpoints |-> inbox[e]] /\ c \in Endpoints
          BY DEF Apart, Endpoints
        <5>3. \/ inbox' = inbox
              \/ RecvRequest(w)
              \/ \E e : e # c /\ \E sent : inbox' = [inbox EXCEPT ![e] = sent]
          <6>1. RelayPart(w) => Behind(frame[w].iServerfd) # c
            BY SocketsAssumption
            DEF SocketsAssumption, Owned, OriginsAreOwned, FetchingPcs, Behind, RelayPart
          <6>2. RelayPart(w) => inbox' = [inbox EXCEPT ![Behind(frame[w].iServerfd)] =
                                            Tail(inbox[Behind(frame[w].iServerfd)])]
            BY DEF RelayPart
          <6>3. RelayPart(w) => \E e : e # c /\ \E sent : inbox' = [inbox EXCEPT ![e] = sent]
            BY <6>1, <6>2
          <6>4. ConnectToOrigin(w) => inbox' = [inbox EXCEPT ![w] = <<>>]
            BY DEF ConnectToOrigin
          <6>5. RelayPart(w) \/ ConnectToOrigin(w) \/ RecvRequest(w) \/ inbox' = inbox
            BY DEF HandlerStep, RecvEnd, RecvError, FindInCache, ServeCached, ConnectFails,
                   ForwardRequest, RelayEnd, RelayError, AddToCache, CloseServer,
                   CloseClient, socketVars
          <6> QED BY <5>1, <6>3, <6>4, <6>5
        <5>4. RecvRequest(w) => inbox[c] # <<>> /\ inbox'[c] = Tail(inbox[c])
          BY <5>1, <5>2 DEF RecvRequest, HasData
        <5>5. inbox'[c] = inbox[c] \/ RecvRequest(w)
          BY <5>2, <5>3
        <5> QED BY <5>4, <5>5
      <4>2. CASE c # ClientOf(w)
        BY <1>5, <4>2
      <4> QED BY <4>1, <4>2
    <3> QED BY <3>1, <3>2, HeadTailProperties
  <2>2. \A v \in Workers : peer'[v] # "reset"
    <3>1. peer = [e \in Endpoints |-> peer[e]] /\ Workers \subseteq Endpoints
      BY DEF Apart, Endpoints
    <3>2. peer' = peer \/ peer' = [peer EXCEPT ![w] = "connected"]
      BY DEF HandlerStep, RecvRequest, RecvEnd, RecvError, FindInCache, ServeCached,
             ConnectToOrigin, ConnectFails, ForwardRequest, RelayPart, RelayEnd,
             RelayError, AddToCache, CloseServer, CloseClient, socketVars
    <3> QED BY <1>1, <3>1, <3>2 DEF Behave
  <2> QED BY <1>1, <1>5, <2>1, <2>2 DEF Behave, Request
<1>10. OnePlace'
  <2>1. \A i \in DOMAIN backlog : backlog[i] \in Clients
    BY DEF Owned, Shape
  <2> QED BY <1>1, <1>2, <1>6, <2>1 DEF OnePlace
<1>11. ClientOf(w) \notin Range(backlog) /\ peer[ClientOf(w)] # "absent"
  BY <1>1, <1>4 DEF OnePlace, Apart, ClientOf, Range
<1>12. \A i \in DOMAIN tasks : /\ tasks[i] \in Fds
                               /\ fdTable[tasks[i]] \in Clients \ {ClientOf(w)}
  BY <1>1, <1>4 DEF Owned, Shape, QueueOwns, OnePlace, ClientOf
<1>13. Unanswered'
  <2>1. \A c \in Clients : peer'[c] = "absent" => outbox'[c] = <<>>
    BY <1>1, <1>5, <1>11 DEF Unanswered
  <2>2. \A i \in DOMAIN backlog : backlog[i] \in Clients \ {ClientOf(w)}
    BY <1>11 DEF Owned, Shape, Range
  <2>3. \A i \in DOMAIN backlog' : outbox'[backlog'[i]] = <<>>
    BY <1>1, <1>2, <1>5, <2>2 DEF Unanswered
  <2>4. \A i \in DOMAIN tasks : fdTable'[tasks[i]] = fdTable[tasks[i]]
    <3>1. \A i \in DOMAIN tasks : fdTable'[tasks[i]] \in Clients
      BY DEF Owned, QueueOwns
    <3> QED BY <1>6, <1>12, <3>1
  <2> QED BY <1>1, <1>5, <1>12, <2>1, <2>3, <2>4 DEF Unanswered
<1>14. Answered'
  <2> SUFFICES ASSUME NEW c \in Clients, Served(c)' PROVE HasItsResponse(c)'
    BY DEF Answered
  <2>1. peer[c] # "absent" /\ c \notin Range(backlog) /\ c \notin Range(fdTable')
    BY <1>2, <1>5 DEF Served, Range
  <2>2. CASE c \notin Range(fdTable)
    <3>1. Served(c) /\ c # ClientOf(w)
      BY <1>4, <2>1, <2>2 DEF Served, Range, ClientOf, Owned, Shape
    <3>2. HasItsResponse(c) /\ outbox'[c] = outbox[c]
      BY <1>1, <1>5, <3>1 DEF Answered
    <3> QED BY <3>2 DEF HasItsResponse, Complete, Part
  <2>3. CASE c \in Range(fdTable)
    <3>1. PICK fd \in Fds : fdTable[fd] = c
      BY <2>3 DEF Range, Owned, Shape
    <3>2. fdTable'[fd] # c
      BY <2>1 DEF Range, Owned, Shape
    <3>3. ClosesClient(w) /\ fd = frame[w].newsockfd
      <4>1. /\ fdTable = [gd \in Fds |-> fdTable[gd]] /\ env.fds \subseteq Fds
            /\ c # w /\ c # Closed
        BY SocketsAssumption DEF SocketsAssumption, Owned, Shape
      <4>2. ~GoesOn(w) /\ ~GetsNone(w)
        BY <3>1, <3>2 DEF GoesOn, GetsNone
      <4>3. ~Opens(w)
        BY <3>1, <3>2, <4>1, LowestFdIsFree DEF Opens
      <4>4. ~ClosesOrigin(w)
        BY <3>1, <3>2, <4>1, SocketsAssumption
        DEF SocketsAssumption, ClosesOrigin, CloseFd, Owned, OriginsAreOwned, FetchingPcs
      <4> QED BY <1>2, <3>1, <3>2, <4>1, <4>2, <4>3, <4>4 DEF ClosesClient, CloseFd
    <3>4. c = ClientOf(w) /\ frame[w].pc = "closeClient"
      BY <3>1, <3>3 DEF ClosesClient, ClientOf
    <3>5. HasItsResponse(c)
      BY <1>1, <3>4 DEF Serves
    <3>6. outbox' = outbox
      BY <3>4
      DEF HandlerStep, RecvRequest, RecvEnd, RecvError, FindInCache, ServeCached,
          ConnectToOrigin, ConnectFails, ForwardRequest, RelayPart, RelayEnd,
          RelayError, AddToCache, CloseServer, CloseClient
    <3> QED BY <3>5, <3>6 DEF HasItsResponse, Complete, Part
  <2> QED BY <2>2, <2>3
<1> QED BY <1>7, <1>8, <1>9, <1>10, <1>13, <1>14 DEF Serving

\* When nothing changes but the numbers behind other clients, workers serve theirs.
LEMMA AllServeOn ==
  ASSUME Owned, \A v \in Workers : Serves(v), UNCHANGED <<cache_map, outbox>>,
         \A fd \in Fds : fdTable[fd] \in Clients => fdTable'[fd] = fdTable[fd],
         NEW v \in Workers, frame'[v] = frame[v]
  PROVE  Serves(v)'
<1>1. frame[v].pc \in HandlerPcs
  BY DEF Owned, Shape, IsFrame
<1>2. frame[v].pc \in ServingPcs => ClientOf(v)' = ClientOf(v)
  BY DEF Owned, WorkersOwn, ClientOf
<1> QED BY <1>1, <1>2, ServesOn

\* A client from the backlog goes behind a number that led nowhere.
LEMMA AcceptKeepsServing ==
  ASSUME Owned, Apart, Serving, Accept
  PROVE  Serving'
<1>1. /\ HasRoom /\ Behave /\ OnePlace /\ Unanswered /\ Answered
      /\ \A v \in Workers : Serves(v)
  BY DEF Serving
<1>2. UNCHANGED <<env, peer, inbox, outbox, frame, cache_list, cache_map>>
  BY DEF Accept, cacheVars
<1> DEFINE c == Head(backlog)
<1>3. /\ backlog \in Seq(Clients) /\ backlog # <<>> /\ backlog' = Tail(backlog)
      /\ fdTable = [fd \in Fds |-> fdTable[fd]] /\ tasks \in Seq(Fds)
      /\ LowestFd \in Fds /\ fdTable[LowestFd] = Closed /\ Closed \notin Clients
      /\ fdTable' = [fdTable EXCEPT ![LowestFd] = c]
      /\ tasks' = Append(tasks, LowestFd)
  BY LowestFdIsFree, SocketsAssumption
  DEF SocketsAssumption, Accept, Pool!Submit, Owned, Shape
<1>4. /\ c = backlog[1] /\ 1 \in DOMAIN backlog /\ c \in Clients
      /\ \A k \in DOMAIN backlog' : /\ k + 1 \in DOMAIN backlog /\ k + 1 # 1
                                    /\ backlog'[k] = backlog[k + 1]
      /\ \A k \in DOMAIN backlog \ {1} : k - 1 \in DOMAIN backlog'
                                         /\ backlog'[k - 1] = backlog[k]
  BY <1>3, HeadTailProperties
<1>5. \A k \in DOMAIN backlog' : backlog'[k] # c
  BY <1>1, <1>4 DEF OnePlace
<1> HIDE DEF c
<1>6. \A fd \in Fds : fdTable'[fd] = IF fd = LowestFd THEN c ELSE fdTable[fd]
  BY <1>3
<1>7. OnePlace'
  <2>1. ASSUME NEW i \in DOMAIN backlog', NEW j \in DOMAIN backlog',
               backlog'[i] = backlog'[j]
        PROVE  i = j
    <3>1. i + 1 = j + 1
      BY <1>1, <1>4, <2>1 DEF OnePlace
    <3>2. i \in Nat /\ j \in Nat
      BY <1>3
    <3> QED BY <3>1, <3>2
  <2>2. \A i \in DOMAIN backlog', fd \in Fds : backlog'[i] # fdTable'[fd]
    BY <1>1, <1>4, <1>5, <1>6 DEF OnePlace
  <2>3. ASSUME NEW fd \in Fds, NEW gd \in Fds, fdTable'[fd] = fdTable'[gd],
               fdTable'[fd] \in Clients
        PROVE  fd = gd
    <3>1. \A hd \in Fds : fdTable[hd] # c
      BY <1>1, <1>4 DEF OnePlace
    <3> QED BY <1>1, <1>6, <2>3, <3>1 DEF OnePlace
  <2> QED BY <2>1, <2>2, <2>3 DEF OnePlace
<1>8. Unanswered'
  <2>1. \A i \in DOMAIN backlog' : outbox[backlog'[i]] = <<>>
    BY <1>1, <1>4 DEF Unanswered
  <2>2. outbox[c] = <<>>
    BY <1>1, <1>4 DEF Unanswered
  <2>3. ASSUME NEW i \in DOMAIN tasks' PROVE outbox[fdTable'[tasks'[i]]] = <<>>
    <3>1. \/ tasks'[i] = LowestFd
          \/ i \in DOMAIN tasks /\ tasks'[i] = tasks[i]
      BY <1>3, AppendProperties
    <3>2. CASE tasks'[i] = LowestFd
      BY <1>3, <1>6, <2>2, <3>2
    <3>3. CASE i \in DOMAIN tasks /\ tasks'[i] = tasks[i]
      <4>1. tasks[i] \in Fds
        BY <1>3, <3>3
      <4>2. fdTable[tasks[i]] \in Clients
        BY <3>3 DEF Owned, QueueOwns
      <4>3. tasks[i] # LowestFd
        BY <1>3, <4>2
      <4>4. fdTable'[tasks'[i]] = fdTable[tasks[i]]
        BY <1>6, <3>3, <4>1, <4>3
      <4>5. outbox[fdTable[tasks[i]]] = <<>>
        BY <1>1, <3>3 DEF Unanswered
      <4> QED BY <4>4, <4>5
    <3> QED BY <3>1, <3>2, <3>3
  <2> QED BY <1>1, <1>2, <2>1, <2>3 DEF Unanswered
<1>9. Answered'
  <2> SUFFICES ASSUME NEW d \in Clients, Served(d)' PROVE HasItsResponse(d)'
    BY DEF Answered
  <2>1. /\ peer[d] # "absent" /\ \A k \in DOMAIN backlog' : backlog'[k] # d
        /\ \A fd \in Fds : fdTable'[fd] # d
    BY <1>2, <1>3 DEF Served, Range
  <2>2. d # c
    BY <1>3, <1>6, <2>1
  <2>3. \A k \in DOMAIN backlog : backlog[k] # d
    <3> SUFFICES ASSUME NEW k \in DOMAIN backlog PROVE backlog[k] # d
      OBVIOUS
    <3>1. CASE k = 1
      BY <1>4, <2>2, <3>1
    <3>2. CASE k # 1
      BY <1>4, <2>1, <3>2
    <3> QED BY <3>1, <3>2
  <2>4. \A fd \in Fds : fdTable[fd] # d
    BY <1>3, <1>6, <2>1
  <2>5. Served(d)
    BY <1>3, <2>1, <2>3, <2>4 DEF Served, Range
  <2>6. HasItsResponse(d)
    BY <1>1, <2>5 DEF Answered
  <2> QED BY <1>2, <2>6 DEF HasItsResponse, Complete, Part
<1>10. \A v \in Workers : Serves(v)'
  <2>1. \A fd \in Fds : fdTable[fd] \in Clients => fdTable'[fd] = fdTable[fd]
    BY <1>3, <1>6
  <2> QED BY <1>1, <1>2, <2>1, AllServeOn
<1>11. Behave' /\ HasRoom'
  BY <1>1, <1>2 DEF Behave, HasRoom, Request
<1> QED BY <1>7, <1>8, <1>9, <1>10, <1>11 DEF Serving

\* A worker begins with a client, or is through with it.
LEMMA TurnKeepsServing ==
  ASSUME Owned, Apart, Serving, NEW w \in Workers, StartTask(w) \/ FinishTask(w)
  PROVE  Serving'
<1>1. /\ HasRoom /\ Behave /\ OnePlace /\ Unanswered /\ Answered
      /\ \A v \in Workers : Serves(v)
  BY DEF Serving
<1>2. UNCHANGED <<env, backlog, fdTable, peer, inbox, outbox, cache_list, cache_map>>
  BY DEF StartTask, FinishTask, socketVars, cacheVars
<1>3. HasRoom' /\ Behave' /\ OnePlace'
  BY <1>1, <1>2 DEF HasRoom, Behave, Request, OnePlace
<1>4. Answered'
  BY <1>1, <1>2 DEF Answered, Served, HasItsResponse, Complete, Part, Range
<1>5. frame = [v \in Workers |-> frame[v]] /\ tasks \in Seq(Fds)
  BY DEF Owned, Shape
<1>6. CASE StartTask(w)
  <2> DEFINE called == [IdleFrame EXCEPT !.pc = "recv", !.newsockfd = Head(tasks)]
  <2>1. frame' = [frame EXCEPT ![w] = called] /\ tasks # <<>> /\ tasks' = Tail(tasks)
    BY <1>6 DEF StartTask, Call, Pool!Start
  <2>2. called.pc = "recv" /\ called.newsockfd = Head(tasks)
    BY DEF IdleFrame
  <2> HIDE DEF called
  <2>3. /\ Head(tasks) = tasks[1] /\ 1 \in DOMAIN tasks
        /\ \A i \in DOMAIN tasks' : i + 1 \in DOMAIN tasks /\ tasks'[i] = tasks[i + 1]
    BY <1>5, <2>1, HeadTailProperties
  <2>4. Unanswered'
    BY <1>1, <1>2, <2>3 DEF Unanswered
  <2>5. outbox[fdTable[Head(tasks)]] = <<>>
    BY <1>1, <2>3 DEF Unanswered
  <2>6. frame'[w] = called /\ \A v \in Workers \ {w} : frame'[v] = frame[v]
    BY <1>5, <2>1
  <2>7. Serves(w)'
    <3>1. frame'[w].pc = "recv" /\ outbox'[ClientOf(w)'] = <<>>
      BY <1>2, <2>2, <2>5, <2>6 DEF ClientOf
    <3> QED BY <3>1 DEF Serves, AskingPcs, EarlyPcs
  <2>8. \A v \in Workers \ {w} : Serves(v)'
    BY <1>1, <1>2, <2>6, AllServeOn
  <2> QED BY <1>3, <1>4, <2>4, <2>7, <2>8 DEF Serving
<1>7. CASE FinishTask(w)
  <2>1. /\ frame'[w] = IdleFrame /\ \A v \in Workers \ {w} : frame'[v] = frame[v]
        /\ tasks' = tasks
    BY <1>5, <1>7 DEF FinishTask, Pool!Finish
  <2>2. Serves(w)'
    BY <2>1 DEF Serves, IdleFrame, AskingPcs, EarlyPcs
  <2>3. \A v \in Workers \ {w} : Serves(v)'
    BY <1>1, <1>2, <2>1, AllServeOn
  <2>4. Unanswered'
    BY <1>1, <1>2, <2>1 DEF Unanswered
  <2> QED BY <1>3, <1>4, <2>2, <2>3, <2>4 DEF Serving
<1> QED BY <1>6, <1>7

\* A client comes or sends its request, or an origin responds.
LEMMA OutsideKeepsServing ==
  ASSUME Owned, Apart, Quiet, Serving, Outside
  PROVE  Serving'
<1>1. /\ HasRoom /\ Behave /\ OnePlace /\ Unanswered /\ Answered
      /\ \A v \in Workers : Serves(v)
  BY DEF Serving
<1>2. UNCHANGED <<env, fdTable, outbox, cache_list, cache_map, frame, tasks>>
  BY DEF Outside, OutsideStep, ClientStep, Connect, SendRequest, HangUp, Leave, Answer, cacheVars
<1>3. HasRoom' /\ \A v \in Workers : Serves(v)'
  BY <1>1, <1>2, AllServeOn DEF HasRoom
<1>4. /\ peer = [e \in Endpoints |-> peer[e]] /\ inbox = [e \in Endpoints |-> inbox[e]]
      /\ Workers \subseteq Endpoints /\ Clients \subseteq Endpoints
      /\ Clients \cap Workers = {} /\ backlog \in Seq(Clients)
  BY SocketsAssumption DEF SocketsAssumption, Apart, Endpoints, Owned, Shape
<1>5. \A c \in Clients : HasItsResponse(c) => HasItsResponse(c)'
  BY <1>2 DEF HasItsResponse, Complete, Part
<1>6. ASSUME UNCHANGED backlog,
             \A c \in Clients : peer'[c] = "absent" <=> peer[c] = "absent"
      PROVE  OnePlace' /\ Unanswered' /\ Answered'
  <2>1. OnePlace' /\ Unanswered'
    BY <1>1, <1>2, <1>6 DEF OnePlace, Unanswered
  <2>2. \A c \in Clients : Served(c)' => Served(c)
    BY <1>2, <1>6 DEF Served, Range
  <2> QED BY <1>1, <1>5, <2>1, <2>2 DEF Answered
<1>7. ASSUME NEW c \in Clients, Connect(c) PROVE Serving'
  <2>1. /\ peer[c] = "absent" /\ peer' = [peer EXCEPT ![c] = "connected"]
        /\ backlog' = Append(backlog, c) /\ inbox' = inbox
    BY <1>7 DEF Connect
  <2>2. Behave'
    BY <1>1, <1>4, <2>1 DEF Behave, Request
  <2>3. /\ \A i \in DOMAIN backlog : backlog[i] # c
        /\ \A fd \in Fds : fdTable[fd] # c
    BY <2>1 DEF Apart
  <2>4. /\ \A i \in DOMAIN backlog' : \/ i = Len(backlog) + 1 /\ backlog'[i] = c
                                      \/ i \in DOMAIN backlog /\ backlog'[i] = backlog[i]
        /\ Len(backlog) + 1 \in DOMAIN backlog' /\ backlog'[Len(backlog) + 1] = c
        /\ \A i \in DOMAIN backlog : i \in DOMAIN backlog' /\ backlog'[i] = backlog[i]
    BY <1>4, <2>1, AppendProperties
  <2>5. OnePlace'
    BY <1>1, <1>2, <2>3, <2>4 DEF OnePlace
  <2>6. Unanswered'
    <3>1. \A d \in Clients : peer[d] = "absent" => outbox[d] = <<>>
      BY <1>1 DEF Unanswered
    <3>2. \A d \in Clients : peer'[d] = "absent" => peer[d] = "absent"
      BY <1>4, <2>1
    <3>3. outbox[c] = <<>>
      BY <2>1, <3>1
    <3>4. \A i \in DOMAIN backlog : outbox[backlog[i]] = <<>>
      BY <1>1 DEF Unanswered
    <3>5. \A i \in DOMAIN backlog' : outbox[backlog'[i]] = <<>>
      BY <2>4, <3>3, <3>4
    <3>6. \A i \in DOMAIN tasks : outbox[fdTable[tasks[i]]] = <<>>
      BY <1>1 DEF Unanswered
    <3> QED BY <1>2, <3>1, <3>2, <3>5, <3>6 DEF Unanswered
  <2>7. ASSUME NEW d \in Clients, Served(d)' PROVE Served(d)
    <3>1. d # c
      BY <2>4, <2>7 DEF Served, Range
    <3>2. peer[d] # "absent"
      BY <1>4, <2>1, <2>7, <3>1 DEF Served
    <3>3. d \notin Range(backlog) /\ d \notin Range(fdTable)
      BY <1>2, <2>4, <2>7 DEF Served, Range
    <3> QED BY <3>2, <3>3 DEF Served
  <2>8. Answered'
    BY <1>1, <1>5, <2>7 DEF Answered
  <2> QED BY <1>3, <2>2, <2>5, <2>6, <2>8 DEF Serving
<1>8. ASSUME NEW c \in Clients, SendRequest(c) PROVE Serving'
  <2>1. /\ peer[c] = "connected" /\ peer' = [peer EXCEPT ![c] = "sent"]
        /\ inbox' = [inbox EXCEPT ![c] = Append(inbox[c], Request(RequestOf[c]))]
        /\ backlog' = backlog
    BY <1>8 DEF SendRequest, Quiet
  <2>2. Append(inbox[c], Request(RequestOf[c])) \in Seq({Request(RequestOf[c])})
    BY <1>1, AppendProperties DEF Behave
  <2>3. Behave'
    <3>1. ASSUME NEW d \in Clients
          PROVE  /\ peer'[d] \in {"absent", "connected", "sent"}
                 /\ inbox'[d] \in Seq({Request(RequestOf[d])})
      <4>1. CASE d = c
        BY <1>4, <2>1, <2>2, <4>1
      <4>2. CASE d # c
        BY <1>1, <1>4, <2>1, <4>2 DEF Behave
      <4> QED BY <4>1, <4>2
    <3>2. \A w \in Workers : peer'[w] # "reset"
      BY <1>1, <1>4, <2>1 DEF Behave
    <3> QED BY <3>1, <3>2 DEF Behave, Request
  <2>4. OnePlace' /\ Unanswered' /\ Answered'
    BY <1>4, <1>6, <2>1
  <2> QED BY <1>3, <2>3, <2>4 DEF Serving
<1>9. ASSUME NEW w \in Workers, Answer(w) PROVE Serving'
  <2>1. PICK end \in {"closed", "reset"} :
          peer' = [peer EXCEPT ![w] = end] /\ (end = "closed" \/ "abort" \in env.faults)
    BY <1>9 DEF Answer
  <2>2. peer' = [peer EXCEPT ![w] = "closed"]
    BY <2>1 DEF Quiet
  <2>3. backlog' = backlog /\ \E sent : inbox' = [inbox EXCEPT ![w] = sent]
    BY <1>9 DEF Answer
  <2>4. \A c \in Clients : peer'[c] = peer[c] /\ inbox'[c] = inbox[c]
    BY <1>4, <2>2, <2>3
  <2>5. \A v \in Workers : peer'[v] # "reset"
    BY <1>1, <1>4, <2>2 DEF Behave
  <2>6. Behave'
    BY <1>1, <2>4, <2>5 DEF Behave, Request
  <2>7. OnePlace' /\ Unanswered' /\ Answered'
    BY <1>6, <2>3, <2>4
  <2> QED BY <1>3, <2>6, <2>7 DEF Serving
<1>10. ASSUME NEW c \in Clients PROVE ~HangUp(c)
  BY DEF HangUp, Quiet
<1>11. ASSUME NEW w \in Workers PROVE ~Leave(w)
  BY DEF Leave, Quiet
<1> QED
  BY <1>7, <1>8, <1>9, <1>10, <1>11 DEF Outside, OutsideStep, ClientStep

LEMMA ServingStep ==
  /\ Owned /\ Apart /\ ServerTypes /\ Caching /\ (Quiet => Serving)
  /\ Owned' /\ [Next]_vars
  => (Quiet => Serving)'
<1> SUFFICES ASSUME Owned, Apart, ServerTypes, Caching, Quiet => Serving, Owned',
                    [Next]_vars, Quiet'
             PROVE  Serving'
  OBVIOUS
<1>1. Quiet /\ Serving /\ HandlerTypes
  BY QuietStays DEF ServerTypes
<1>2. CASE AcceptFails \/ UNCHANGED vars
  <2>1. /\ UNCHANGED <<backlog, fdTable, peer, inbox, outbox>>
        /\ UNCHANGED <<cache_list, cache_map, frame, tasks>>
    BY <1>2 DEF AcceptFails, vars, handlerVars, socketVars, cacheVars
  <2>2. HasRoom' /\ Behave' /\ OnePlace' /\ Unanswered'
    BY <1>1, <2>1 DEF Serving, HasRoom, Behave, Request, OnePlace, Unanswered
  <2>3. Answered'
    <3>1. \A c \in Clients : Served(c)' => Served(c)
      BY <2>1 DEF Served, Range
    <3>2. \A c \in Clients : HasItsResponse(c) => HasItsResponse(c)'
      BY <2>1 DEF HasItsResponse, Complete, Part
    <3> QED BY <1>1, <3>1, <3>2 DEF Serving, Answered
  <2>4. \A v \in Workers : Serves(v)'
    BY <1>1, <2>1, AllServeOn DEF Serving
  <2> QED BY <2>2, <2>3, <2>4 DEF Serving
<1>3. CASE Next
  <2>1. exited = "no"
    BY <1>3 DEF Next, ProcessRuns
  <2>2. ASSUME NEW w \in Workers, HandleClient(w) PROVE Serving'
    BY <1>1, <2>1, <2>2, HandlerKeepsServing DEF HandleClient
  <2> QED
    BY <1>1, <1>2, <1>3, <2>2, AcceptKeepsServing, TurnKeepsServing, OutsideKeepsServing
    DEF Next, WorkerStep
<1> QED BY <1>2, <1>3

LEMMA ServingInit == Init => Serving
<1> SUFFICES ASSUME Init PROVE Serving
  OBVIOUS
<1> USE DEF Init, HandlerInit, SocketsInit
<1>1. /\ backlog = <<>> /\ tasks = <<>> /\ cache_list = <<>> /\ DOMAIN cache_map = {}
      /\ \A c \in Clients : peer[c] = "absent" /\ inbox[c] = <<>> /\ outbox[c] = <<>>
      /\ \A w \in Workers : peer[w] = "absent" /\ frame[w] = IdleFrame
      /\ \A fd \in Fds : fdTable[fd] \notin Clients
  BY SocketsAssumption DEF SocketsAssumption, Pool!Init, Cache!Init, Endpoints
<1>2. HasRoom
  BY <1>1, FS_EmptySet DEF HasRoom
<1>3. Behave
  <2>1. ASSUME NEW c \in Clients PROVE inbox[c] \in Seq({Request(RequestOf[c])})
    <3>1. <<>> \in Seq({Request(RequestOf[c])})
      OBVIOUS
    <3> QED BY <1>1, <3>1, Zenon
  <2> QED BY <1>1, <2>1 DEF Behave
<1>4. OnePlace /\ Unanswered /\ Answered
  BY <1>1 DEF OnePlace, Unanswered, Answered, Served
<1>5. \A w \in Workers : Serves(w)
  BY <1>1 DEF Serves, IdleFrame, AskingPcs, EarlyPcs
<1> QED BY <1>2, <1>3, <1>4, <1>5 DEF Serving

\* RightWhileNothingIsEvicted: with descriptors enough, and a cache with room for every
\* url, clients that get through get the whole response of a resource of their url,
\* whatever hits and misses of other workers fall between the steps of theirs
\* (ThreadPoolServer.cpp:37-132).
THEOREM RightWhileNothingIsEvictedHolds ==
  Spec => [](EnoughForAll => RightWhileNothingIsEvicted)
<1>1. (Quiet => Serving) => (EnoughForAll => RightWhileNothingIsEvicted)
  BY DEF Quiet, Serving, Answered, RightWhileNothingIsEvicted, ReturnsAResponseOfTheUrl,
         HasItsResponse
<1>2. Init => (Quiet => Serving)
  BY ServingInit
<1> QED
  BY <1>1, <1>2, IsOwned, ApartInit, ApartStep, TypesInit, TypesStep, CachingInit,
     CachingStep, ServingStep, PTL DEF Spec

-----------------------------------------------------------------------------
(* What the workers share.                                                 *)

\* LRUCache, as the workers together use it.  A crash is the end of the process, after
\* which nobody uses the cache, and not a state of it.
SharedCache == INSTANCE LRUCache WITH Values <- Responses, crashed <- FALSE

\* A handler uses the cache by its operations, or leaves it as it is.
LEMMA HandlerOperates ==
  ASSUME HandlerTypes, NEW w \in Workers, HandlerStep(w)
  PROVE  \/ Key(w) \in Urls /\ CacheOperation(Key(w))
         \/ UNCHANGED <<capacity, cache_list, cache_map, heap>>
<1>1. /\ frame[w].pc \in {"find", "add"} => Key(w) \in Urls
      /\ frame[w].response \in Responses
  BY HandlerAssumption
  DEF HandlerAssumption, HandlerTypes, HandlerTypeOK, Frames, HasWhatItUses, AskingPcs,
      Key
<1>2. CASE FindInCache(w)
  BY <1>1, <1>2 DEF FindInCache, CacheOperation
<1>3. CASE AddToCache(w)
  BY <1>1, <1>3 DEF AddToCache, Cache!Add, CacheOperation
<1>4. CASE ~FindInCache(w) /\ ~AddToCache(w)
  BY <1>4
  DEF HandlerStep, RecvRequest, RecvEnd, RecvError, ServeCached, ConnectToOrigin,
      ConnectFails, ForwardRequest, RelayPart, RelayEnd, RelayError, CloseServer,
      CloseClient, cacheVars
<1> QED BY <1>2, <1>3, <1>4

\* An operation of a worker is one on the shared cache.
LEMMA OperationsAreShared ==
  ASSUME NEW u \in Urls, CacheOperation(u)
  PROVE  [SharedCache!Next]_(SharedCache!lruVars)
<1>1. CASE Cache!FindHit(u) \/ Cache!AddPresent(u)
  <2>1. SharedCache!FindHit(u)
    BY <1>1 DEF Cache!FindHit, Cache!AddPresent, SharedCache!FindHit,
                Cache!MoveToFront, SharedCache!MoveToFront
  <2> QED BY <2>1 DEF SharedCache!Next, SharedCache!Find
<1>2. CASE Cache!FindMiss(u) \/ Cache!AddCrash(u)
  BY <1>2 DEF Cache!FindMiss, Cache!AddCrash, Cache!lruVars, SharedCache!lruVars
<1>3. ASSUME NEW v \in Responses, Cache!AddNew(u, v)
      PROVE  [SharedCache!Next]_(SharedCache!lruVars)
  <2>1. SharedCache!IsFull <=> Cache!IsFull
    BY DEF Cache!IsFull, SharedCache!IsFull
  <2>2. SharedCache!Evicted = Cache!Evicted
    BY DEF Cache!Evicted, SharedCache!Evicted, Cache!Restrict, SharedCache!Restrict
  <2>3. SharedCache!AddNew(u, v)
    BY <1>3, <2>1, <2>2 DEF Cache!AddNew, SharedCache!AddNew
  <2> QED BY <2>3 DEF SharedCache!Next, SharedCache!Add
<1> QED BY <1>1, <1>2, <1>3 DEF CacheOperation

\* Whatever the workers, the clients and the origins do, the server's cache is an
\* LRUCache: workers use it by find and add only, and so it stays what those keep it
\* (ThreadPoolServer.cpp:107, ProxyUtils.cpp:197).
THEOREM SharesLRUCache == Spec => SharedCache!Spec
<1>1. Init => SharedCache!Init
  BY DEF Init, HandlerInit, Cache!Init, SharedCache!Init
<1>2. ServerTypes /\ [Next]_vars => [SharedCache!Next]_(SharedCache!lruVars)
  <2> SUFFICES ASSUME ServerTypes, [Next]_vars
               PROVE  [SharedCache!Next]_(SharedCache!lruVars)
    OBVIOUS
  <2>1. ASSUME NEW w \in Workers, HandleClient(w)
        PROVE  [SharedCache!Next]_(SharedCache!lruVars)
    BY <2>1, HandlerOperates, OperationsAreShared
    DEF HandleClient, ServerTypes, SharedCache!lruVars
  <2>2. \/ UNCHANGED <<capacity, cache_list, cache_map, heap>>
        \/ \E w \in Workers : HandleClient(w)
    BY DEF Next, WorkerStep, Accept, AcceptFails, StartTask, FinishTask, Outside,
           OutsideStep, vars, handlerVars, cacheVars
  <2> QED BY <2>1, <2>2 DEF SharedCache!lruVars
<1> QED
  BY <1>1, <1>2, IsOwned, TypesInit, TypesStep, PTL DEF Spec, SharedCache!Spec

\* The server uses its pool as TaskQueue says, which ThreadPool implements: each
\* connection that is accepted goes to one worker, the oldest first
\* (ThreadPoolServer.cpp:25-34).
THEOREM ServesInTurn == Spec => Pool!Spec
<1>1. Init => Pool!Init
  BY DEF Init
<1>2. Owned /\ [Next]_vars => [Pool!Next]_(Pool!vars)
  <2> SUFFICES ASSUME Owned, [Next]_vars PROVE [Pool!Next]_(Pool!vars)
    OBVIOUS
  <2>1. CASE Accept
    <3>1. LowestFd \in Fds
      BY <2>1, LowestFdIsFree DEF Accept, Owned, Shape
    <3> QED BY <2>1, <3>1 DEF Accept, Pool!Next
  <2>2. ASSUME NEW w \in Workers, StartTask(w) \/ FinishTask(w)
        PROVE  [Pool!Next]_(Pool!vars)
    BY <2>2 DEF StartTask, FinishTask, Pool!Next
  <2>3. CASE UNCHANGED <<tasks, running>>
    BY <2>3 DEF Pool!vars
  <2>4. \/ Accept \/ \E w \in Workers : StartTask(w) \/ FinishTask(w)
        \/ UNCHANGED <<tasks, running>>
    BY DEF Next, WorkerStep, AcceptFails, HandleClient, Outside, vars
  <2> QED BY <2>1, <2>2, <2>3, <2>4
<1> QED BY <1>1, <1>2, IsOwned, PTL DEF Spec, Pool!Spec

=============================================================================
