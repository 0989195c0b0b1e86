---------------------------- MODULE StartupProofs ----------------------------
(***************************************************************************)
(* Proofs about the start and the end of the semaphore server and of       *)
(* v1/proxy3.cpp, and about the cache that their workers share, for any    *)
(* number of workers, clients and descriptors, any memory and any command  *)
(* line.                                                                   *)
(***************************************************************************)
EXTENDS Startup, ClientHandlerProofs

-----------------------------------------------------------------------------

\* The labels at which a worker has a permit.
Holding == {"check", "accept", "handle", "close", "post", "leave"}

\* A worker that is known to be somewhere is at a label; the permits that are not
\* in the semaphore are with the workers.
Permits ==
  /\ pc \in [Workers -> WorkerPcs]
  /\ thread_semaphore \in Nat
  /\ PermitsConserved

\* Where the workers are after one of them has moved.
LEMMA HoldersAfterMove ==
  ASSUME pc \in [Workers -> WorkerPcs], NEW w \in Workers,
         NEW label \in WorkerPcs, GoTo(w, label)
  PROVE  /\ pc' \in [Workers -> WorkerPcs]
         /\ label \in Holding => Holders' = Holders \cup {w}
         /\ label \notin Holding => Holders' = Holders \ {w}
BY DEF GoTo, Holders, Holding, WorkerPcs

\* Moving without a permit or with one leaves the holders as they are.
LEMMA MoveKeepsPermits ==
  ASSUME Permits, NEW w \in Workers, NEW label \in WorkerPcs, GoTo(w, label),
         label \in Holding <=> pc[w] \in Holding, UNCHANGED thread_semaphore
  PROVE  Permits'
<1>1. pc[w] \in Holding <=> w \in Holders
  BY DEF Holders, Holding
<1>2. Holders' = Holders
  BY <1>1, HoldersAfterMove DEF Permits
<1>3. pc' \in [Workers -> WorkerPcs]
  BY HoldersAfterMove DEF Permits
<1> QED BY <1>2, <1>3 DEF Permits, PermitsConserved

\* sem_wait takes a permit for one worker more.
LEMMA TakingKeepsPermits ==
  ASSUME Permits, NEW w \in Workers, SemWait(w)
  PROVE  Permits'
<1>1. w \notin Holders /\ IsFiniteSet(Holders)
  BY FS_Subset, SemaphoreAssumption DEF SemWait, Holders, SemaphoreAssumption
<1>2. Holders' = Holders \cup {w} /\ pc' \in [Workers -> WorkerPcs]
  BY HoldersAfterMove DEF Permits, SemWait, Holding, WorkerPcs
<1>3. Cardinality(Holders') = Cardinality(Holders) + 1
  BY <1>1, <1>2, FS_AddElement
<1>4. Cardinality(Holders) \in Nat
  BY <1>1, FS_CardinalityType
<1>5. NumThreads \in Nat
  BY FS_CardinalityType, SemaphoreAssumption DEF SemaphoreAssumption
<1>6. thread_semaphore' = thread_semaphore - 1 /\ thread_semaphore > 0
  BY DEF SemWait
<1> QED BY <1>2, <1>3, <1>4, <1>5, <1>6 DEF Permits, PermitsConserved

\* sem_post gives the permit of one worker back.
LEMMA GivingKeepsPermits ==
  ASSUME Permits, NEW w \in Workers, SemPost(w)
  PROVE  Permits'
<1>1. w \in Holders /\ IsFiniteSet(Holders)
  BY FS_Subset, SemaphoreAssumption DEF SemPost, Holders, SemaphoreAssumption
<1>2. Holders' = Holders \ {w} /\ pc' \in [Workers -> WorkerPcs]
  BY HoldersAfterMove DEF Permits, SemPost, Holding, WorkerPcs
<1>3. Cardinality(Holders') = Cardinality(Holders) - 1
  BY <1>1, <1>2, FS_RemoveElement
<1>4. Cardinality(Holders) \in Nat
  BY <1>1, FS_CardinalityType
<1>5. NumThreads \in Nat
  BY FS_CardinalityType, SemaphoreAssumption DEF SemaphoreAssumption
<1>6. thread_semaphore' = thread_semaphore + 1
  BY DEF SemPost
<1> QED BY <1>2, <1>3, <1>4, <1>5, <1>6 DEF Permits, PermitsConserved

\* A step that moves no worker.
LEMMA StayingKeepsPermits ==
  ASSUME Permits, UNCHANGED <<pc, thread_semaphore>> PROVE Permits'
BY DEF Permits, PermitsConserved, Holders

-----------------------------------------------------------------------------

\* At first nobody has a permit.
LEMMA PermitsInit == StartupInit => Permits
<1> SUFFICES ASSUME StartupInit PROVE Permits
  OBVIOUS
<1>1. Holders = {}
  BY DEF StartupInit, Init, Holders
<1>2. NumThreads \in Nat
  BY FS_CardinalityType, SemaphoreAssumption DEF SemaphoreAssumption
<1> QED
  BY <1>1, <1>2, FS_EmptySet
  DEF Permits, PermitsConserved, StartupInit, Init, WorkerPcs

\* Every step of a worker, of either program.
LEMMA WorkerKeepsPermits ==
  ASSUME Permits, NEW w \in Workers, EitherWorkerStep(w)
  PROVE  Permits'
<1> USE DEF Holding, WorkerPcs
<1>1. CASE Loop(w)
  BY <1>1, MoveKeepsPermits DEF Loop
<1>2. CASE SemWait(w)
  BY <1>2, TakingKeepsPermits
<1>3. CASE CheckRunning(w)
  BY <1>3, MoveKeepsPermits DEF CheckRunning
<1>4. CASE Accept(w)
  BY <1>4, MoveKeepsPermits DEF Accept
<1>5. CASE AcceptFails(w)
  BY <1>5, MoveKeepsPermits DEF AcceptFails
<1>6. CASE DataFromClient(w)
  BY <1>6, StayingKeepsPermits DEF DataFromClient
<1>7. CASE V1DataFromClient(w)
  BY <1>7, StayingKeepsPermits DEF V1DataFromClient
<1>8. CASE V1Socket(w)
  BY <1>8, StayingKeepsPermits DEF V1Socket
<1>9. CASE Return(w)
  BY <1>9, MoveKeepsPermits DEF Return
<1>10. CASE CloseAgain(w)
  BY <1>10, MoveKeepsPermits DEF CloseAgain
<1>11. CASE SemPost(w)
  BY <1>11, GivingKeepsPermits
<1> QED
  BY <1>1, <1>2, <1>3, <1>4, <1>5, <1>6, <1>7, <1>8, <1>9, <1>10, <1>11
  DEF EitherWorkerStep, WorkerStep, V1WorkerStep

\* Every step of start, of the factory, of the signal and of the clients.
LEMMA PermitsStep == Permits /\ [StartupNext]_startupVars => Permits'
<1> SUFFICES ASSUME Permits, [StartupNext]_startupVars PROVE Permits'
  OBVIOUS
<1>1. CASE MakeServer \/ MakeFails
  BY <1>1, StayingKeepsPermits DEF MakeServer, MakeFails
<1>2. ASSUME NEW w \in Workers, EitherWorkerStep(w) PROVE Permits'
  BY <1>2, WorkerKeepsPermits
<1>3. CASE Listen \/ ListenFails \/ JoinWorkers \/ Sigint \/ Outside
  BY <1>3, StayingKeepsPermits
  DEF Listen, ListenFails, JoinWorkers, Sigint, Outside
<1>4. CASE Spawn
  <2>1. PICK w \in Workers : pc[w] = "unborn" /\ GoTo(w, "loop")
    BY <1>4 DEF Spawn
  <2> QED BY <1>4, <2>1, MoveKeepsPermits DEF Spawn, Holding, WorkerPcs
<1>5. CASE UNCHANGED startupVars
  BY <1>5, StayingKeepsPermits DEF startupVars, vars
<1> QED
  BY <1>1, <1>2, <1>3, <1>4, <1>5
  DEF StartupNext, Serve, EitherNext, MainStep

\* PermitsConserved: every path out of the loop's body gives its permit back, once,
\* in the semaphore server and in v1/proxy3.cpp, with any number of workers
\* (SemaphoreServer.cpp:39-71, v1/proxy3.cpp:457-486).
THEOREM PermitsConservedHolds == StartupSpec => []PermitsConserved
<1>1. Permits => PermitsConserved
  BY DEF Permits
<1> QED BY <1>1, PermitsInit, PermitsStep, PTL DEF StartupSpec

-----------------------------------------------------------------------------
(* The end of start.                                                       *)

\* A worker is in a handler only where its loop calls it; a worker leaves its loop
\* only after SIGINT; start goes on from joining when all have ended, and there is one.
AtRest ==
  /\ frame = [w \in Workers |-> frame[w]]
  /\ \A w \in Workers : pc[w] # "handle" => frame[w].pc = "idle"
  /\ \A w \in Workers : pc[w] \in {"leave", "ended"} => ~running
  /\ mainPc \in {"join", "returned"} => Workers # {}
  /\ mainPc = "returned" => \A w \in Workers : pc[w] = "ended"

\* What a handler does, it does to the frame of its own worker.
LEMMA HandlersKeepApart ==
  ASSUME frame = [w \in Workers |-> frame[w]], NEW w \in Workers,
         HandlerStep(w) \/ V1Request(w) \/ V1Transfer(w)
  PROVE  /\ frame' = [v \in Workers |-> frame'[v]]
         /\ \A v \in Workers \ {w} : frame'[v] = frame[v]
<1> USE DEF Goto
<1>1. CASE RecvRequest(w)
  BY <1>1 DEF RecvRequest
<1>2. CASE RecvEnd(w) \/ RecvError(w)
  BY <1>2 DEF RecvEnd, RecvError
<1>3. CASE FindInCache(w)
  BY <1>3 DEF FindInCache
<1>4. CASE ServeCached(w)
  BY <1>4 DEF ServeCached
<1>5. CASE ConnectToOrigin(w) \/ ConnectFails(w) \/ ConnectFailsExits(w)
  BY <1>5 DEF ConnectToOrigin, ConnectFails, ConnectFailsExits
<1>6. CASE ForwardRequest(w)
  BY <1>6 DEF ForwardRequest
<1>7. CASE RelayPart(w)
  BY <1>7 DEF RelayPart
<1>8. CASE RelayEnd(w) \/ RelayError(w) \/ RelayErrorExits(w)
  BY <1>8 DEF RelayEnd, RelayError, RelayErrorExits
<1>9. CASE AddToCache(w)
  BY <1>9 DEF AddToCache
<1>10. CASE CloseServer(w) \/ CloseClient(w)
  BY <1>10 DEF CloseServer, CloseClient
<1>11. CASE WriteFails(w) \/ CopyRunsOff(w)
  BY <1>11 DEF WriteFails, CopyRunsOff
<1> QED
  BY <1>1, <1>2, <1>3, <1>4, <1>5, <1>6, <1>7, <1>8, <1>9, <1>10, <1>11
  DEF HandlerStep, V1Request, V1Transfer, Write

\* At first no worker is born, and nobody joins.
LEMMA AtRestInit == StartupInit => AtRest
BY DEF StartupInit, Init, HandlerInit, IdleFrame, AtRest

\* Every step of a worker, of either program.
LEMMA WorkerKeepsRest ==
  ASSUME Permits, AtRest, NEW w \in Workers, EitherWorkerStep(w)
  PROVE  AtRest'
<1> USE DEF AtRest, Permits, GoTo, WorkerPcs
<1>1. CASE Loop(w)
  BY <1>1 DEF Loop, handlerVars
<1>2. CASE SemWait(w)
  BY <1>2 DEF SemWait, handlerVars
<1>3. CASE CheckRunning(w)
  BY <1>3 DEF CheckRunning, handlerVars
<1>4. CASE Accept(w)
  BY <1>4 DEF Accept, Call
<1>5. CASE AcceptFails(w)
  BY <1>5 DEF AcceptFails, handlerVars
<1>6. CASE DataFromClient(w)
  BY <1>6, HandlersKeepApart DEF DataFromClient
<1>7. CASE V1DataFromClient(w)
  BY <1>7, HandlersKeepApart DEF V1DataFromClient
<1>8. CASE V1Socket(w)
  BY <1>8, HandlersKeepApart DEF V1Socket
<1>9. CASE Return(w)
  BY <1>9 DEF Return, IdleFrame
<1>10. CASE CloseAgain(w)
  BY <1>10 DEF CloseAgain
<1>11. CASE SemPost(w)
  BY <1>11 DEF SemPost, handlerVars
<1> QED
  BY <1>1, <1>2, <1>3, <1>4, <1>5, <1>6, <1>7, <1>8, <1>9, <1>10, <1>11
  DEF EitherWorkerStep, WorkerStep, V1WorkerStep

\* Every step of start, of the factory, of the signal and of the clients.
LEMMA AtRestStep == Permits /\ AtRest /\ [StartupNext]_startupVars => AtRest'
<1> SUFFICES ASSUME Permits, AtRest, [StartupNext]_startupVars PROVE AtRest'
  OBVIOUS
<1> USE DEF AtRest, Permits, handlerVars
<1>1. CASE MakeServer \/ MakeFails
  BY <1>1 DEF MakeServer, MakeFails
<1>2. ASSUME NEW w \in Workers, EitherWorkerStep(w) PROVE AtRest'
  BY <1>2, WorkerKeepsRest
<1>3. CASE Listen \/ ListenFails
  BY <1>3 DEF Listen, ListenFails
<1>4. CASE JoinWorkers
  BY <1>4 DEF JoinWorkers
<1>5. CASE Sigint
  BY <1>5 DEF Sigint
<1>6. CASE Outside
  BY <1>6 DEF Outside, OutsideStep
<1>7. CASE Spawn
  BY <1>7 DEF Spawn, GoTo, WorkerPcs
<1>8. CASE UNCHANGED startupVars
  BY <1>8 DEF startupVars, vars
<1> QED
  BY <1>1, <1>2, <1>3, <1>4, <1>5, <1>6, <1>7, <1>8
  DEF StartupNext, Serve, EitherNext, MainStep

\* EndsAtRest: when main returns 0, SIGINT has come, every permit is back, and no
\* worker is in a handler, for any number of workers (SemaphoreServer.cpp:117-123,
\* v1/proxy3.cpp:435-445).
THEOREM EndsAtRestHolds == StartupSpec => []EndsAtRest
<1>1. Permits /\ AtRest => EndsAtRest
  <2> SUFFICES ASSUME Permits, AtRest, mainPc = "returned" PROVE EndsAtRest
    BY DEF EndsAtRest
  <2>1. \A w \in Workers : pc[w] = "ended"
    BY DEF AtRest
  <2>2. Holders = {}
    BY <2>1 DEF Holders
  <2>3. thread_semaphore = NumThreads
    BY <2>2, FS_EmptySet DEF Permits, PermitsConserved
  <2> QED BY <2>1, <2>3 DEF AtRest, EndsAtRest
<1> QED BY <1>1, PermitsInit, PermitsStep, AtRestInit, AtRestStep, PTL DEF StartupSpec

-----------------------------------------------------------------------------
(* The command line.                                                       *)

\* main has made what its command line says, or nothing.
AsMade ==
  server # NotMade =>
    /\ GivesEnough
    /\ server = IF IsV1 THEN V1Made ELSE Made

\* Nobody changes the command line.
LEMMA EnvStays == [StartupNext]_startupVars => env' = env
<1> SUFFICES ASSUME [StartupNext]_startupVars PROVE env' = env
  OBVIOUS
<1>1. CASE MakeServer \/ MakeFails
  BY <1>1 DEF MakeServer, MakeFails, handlerVars, socketVars
<1>2. ASSUME NEW w \in Workers, HandlerStep(w) \/ V1Request(w) \/ V1Transfer(w)
      PROVE  env' = env
  BY <1>2
  DEF HandlerStep, V1Request, V1Transfer, Write, WriteFails, CopyRunsOff,
      RecvRequest, RecvEnd, RecvError, FindInCache, ServeCached, ConnectToOrigin,
      ConnectFails, ConnectFailsExits, ForwardRequest, RelayPart, RelayEnd, RelayError,
      RelayErrorExits, AddToCache, CloseServer, CloseClient, socketVars
<1>3. ASSUME NEW w \in Workers, EitherWorkerStep(w) PROVE env' = env
  BY <1>2, <1>3
  DEF EitherWorkerStep, WorkerStep, V1WorkerStep, Loop, SemWait, CheckRunning, Accept,
      AcceptFails, DataFromClient, V1DataFromClient, V1Socket, Return, CloseAgain,
      SemPost, handlerVars, socketVars
<1>4. CASE MainStep \/ Sigint
  BY <1>4
  DEF MainStep, Listen, ListenFails, Spawn, JoinWorkers, Sigint, handlerVars, socketVars
<1>5. CASE Outside
  BY <1>5
  DEF Outside, OutsideStep, ClientStep, Connect, SendRequest, HangUp, Leave, Answer
<1>6. CASE UNCHANGED startupVars
  BY <1>6 DEF startupVars, vars, handlerVars, socketVars
<1> QED
  BY <1>1, <1>3, <1>4, <1>5, <1>6 DEF StartupNext, Serve, EitherNext

LEMMA AsMadeStep == AsMade /\ [StartupNext]_startupVars => AsMade'
<1> SUFFICES ASSUME AsMade, [StartupNext]_startupVars PROVE AsMade'
  OBVIOUS
<1>1. env' = env
  BY EnvStays
<1>2. /\ GivesEnough' = GivesEnough
      /\ Made' = Made /\ V1Made' = V1Made /\ IsV1' = IsV1
  BY <1>1
  DEF GivesEnough, Made, V1Made, IsV1, ArgcIsRight, NumbersAreRight, NamesAreRight,
      PortOf, argv
<1>3. \/ server' = server
      \/ GivesEnough /\ server' = IF IsV1 THEN V1Made ELSE Made
  BY DEF StartupNext, MakeServer, MakeFails, Serve, startupVars
<1> QED BY <1>2, <1>3 DEF AsMade

\* A uint16_t is a port, and that of a port is the port.
LEMMA PortsArePorts == ASSUME NEW n \in Int PROVE n % 65536 \in Ports
BY DEF Ports

-----------------------------------------------------------------------------
(* The types.                                                              *)

LoopTypes ==
  /\ HandlerTypes
  /\ running \in BOOLEAN
  /\ clientSocket \in [Workers -> Fds \cup {NoFd}]
  /\ mainPc \in MainPcs

\* A step that changes nothing a handler uses.
LEMMA HandlersRest ==
  ASSUME HandlerTypes, UNCHANGED handlerVars PROVE HandlerTypes'
<1>1. UNCHANGED <<socketVars, cacheVars, frame, exited>>
  BY DEF handlerVars
<1>2. SocketsTypeOK'
  BY <1>1 DEF HandlerTypes, HandlerTypeOK, SocketsTypeOK, socketVars
<1> QED BY <1>1, <1>2, SocketsKeepTypes

\* What the handler of the first version does beside the steps of ClientHandler.
LEMMA V1KeepsTypes ==
  ASSUME HandlerTypes, NEW w \in Workers, V1Request(w) \/ V1Transfer(w)
  PROVE  HandlerTypes'
<1>1. CASE WriteFails(w)
  BY <1>1
  DEF WriteFails, socketVars, cacheVars, HandlerTypes, HandlerTypeOK, SocketsTypeOK,
      Cache!TypeOK, Cache!Element, HasWhatItUses
<1>2. CASE CopyRunsOff(w)
  BY <1>2
  DEF CopyRunsOff, socketVars, HandlerTypes, HandlerTypeOK, SocketsTypeOK,
      Cache!TypeOK, Cache!Element, HasWhatItUses
<1>3. CASE ~WriteFails(w) /\ ~CopyRunsOff(w)
  <2>1. HandlerStep(w) \/ ConnectFailsExits(w) \/ RelayErrorExits(w)
    BY <1>3 DEF V1Request, V1Transfer, Write, HandlerStep
  <2> QED BY <2>1, HandlerKeepsTypes
<1> QED BY <1>1, <1>2, <1>3

\* Every step of a worker, of either program.
LEMMA WorkerKeepsTypes ==
  ASSUME LoopTypes, NEW w \in Workers, EitherWorkerStep(w)
  PROVE  LoopTypes'
<1>1. /\ HandlerTypes
      /\ running \in BOOLEAN
      /\ clientSocket \in [Workers -> Fds \cup {NoFd}]
      /\ mainPc \in MainPcs
  BY DEF LoopTypes
<1>2. UNCHANGED <<running, mainPc>>
  BY DEF EitherWorkerStep, WorkerStep, V1WorkerStep, Loop, SemWait, CheckRunning,
         Accept, AcceptFails, DataFromClient, V1DataFromClient, V1Socket, Return,
         CloseAgain, SemPost
<1>3. ASSUME HandlerTypes', clientSocket' \in [Workers -> Fds \cup {NoFd}]
      PROVE  LoopTypes'
  BY <1>1, <1>2, <1>3 DEF LoopTypes
<1>4. CASE Loop(w) \/ SemWait(w) \/ CheckRunning(w) \/ AcceptFails(w) \/ SemPost(w)
  <2>1. UNCHANGED handlerVars /\ UNCHANGED clientSocket
    BY <1>4 DEF Loop, SemWait, CheckRunning, AcceptFails, SemPost
  <2> QED BY <1>1, <1>3, <2>1, HandlersRest
<1>5. CASE Accept(w)
  <2>1. /\ backlog \in Seq(Clients) /\ Clients \subseteq Endpoints
        /\ fdTable \in [Fds -> Endpoints \cup {Closed}]
        /\ env \in Environments
    BY <1>1 DEF HandlerTypes, HandlerTypeOK, SocketsTypeOK, Endpoints
  <2>2. env.fds \subseteq Fds
    BY <2>1, SocketsAssumption DEF SocketsAssumption
  <2>3. LowestFd \in Fds
    BY <1>5, <2>2, LowestFdIsFree DEF Accept
  <2>4. backlog' \in Seq(Clients) /\ Head(backlog) \in Clients
    BY <1>5, <2>1, HeadTailProperties DEF Accept
  <2>5. fdTable' \in [Fds -> Endpoints \cup {Closed}]
    BY <1>5, <2>1, <2>3, <2>4 DEF Accept
  <2>6. SocketsTypeOK' /\ UNCHANGED <<cacheVars, exited>>
    BY <1>1, <1>5, <2>4, <2>5
    DEF Accept, HandlerTypes, HandlerTypeOK, SocketsTypeOK
  <2>7. /\ frame' \in [Workers -> Frames]
        /\ \A v \in Workers : HasWhatItUses(frame'[v])
    BY <1>1, <1>5, <2>3, CallTypes DEF Accept
  <2>8. HandlerTypes'
    BY <1>1, <2>6, <2>7
    DEF HandlerTypes, HandlerTypeOK, cacheVars, Cache!TypeOK, Cache!Element,
        HasWhatItUses
  <2>9. clientSocket' \in [Workers -> Fds \cup {NoFd}]
    BY <1>1, <1>5, <2>3 DEF Accept
  <2> QED BY <1>3, <2>8, <2>9
<1>6. CASE DataFromClient(w) \/ V1DataFromClient(w) \/ V1Socket(w)
  <2>1. UNCHANGED clientSocket
    BY <1>6 DEF DataFromClient, V1DataFromClient, V1Socket
  <2>2. HandlerTypes'
    BY <1>1, <1>6, HandlerKeepsTypes, V1KeepsTypes
    DEF DataFromClient, V1DataFromClient, V1Socket
  <2> QED BY <1>1, <1>3, <2>1, <2>2
<1>7. CASE Return(w)
  <2>1. /\ frame' \in [Workers -> Frames]
        /\ \A v \in Workers : HasWhatItUses(frame'[v])
    BY <1>1, <1>7, CallTypes DEF Return
  <2>2. UNCHANGED <<socketVars, cacheVars, exited, clientSocket>>
    BY <1>7 DEF Return
  <2> QED BY <1>1, <1>3, <2>1, <2>2, FramesKeepTypes
<1>8. CASE CloseAgain(w)
  <2>1. UNCHANGED <<env, backlog, peer, inbox, outbox, cacheVars, frame, exited,
                    clientSocket>>
    BY <1>8 DEF CloseAgain
  <2>2. fdTable' \in [Fds -> Endpoints \cup {Closed}]
    BY <1>1, <1>8
    DEF CloseAgain, CloseFd, HandlerTypes, HandlerTypeOK, SocketsTypeOK
  <2>3. SocketsTypeOK'
    BY <1>1, <2>1, <2>2 DEF HandlerTypes, HandlerTypeOK, SocketsTypeOK
  <2> QED BY <1>1, <1>3, <2>1, <2>3, SocketsKeepTypes
<1> QED
  BY <1>4, <1>5, <1>6, <1>7, <1>8 DEF EitherWorkerStep, WorkerStep, V1WorkerStep

\* A server that is made has a size that a cache can have.
LEMMA MadeTypes ==
  ASSUME env \in Environments, GivesEnough
  PROVE  (IF IsV1 THEN V1Made ELSE Made) \in
           [type : {"Threadpool", "Semaphore"}, cache : {"LRUCache", "LFUCache"},
            port : Ports, numThreads : {25, 400}, capacity : Capacities]
<1>1. argv \in Seq(Arguments) /\ 100 \in Capacities /\ DefaultCacheSize \in Capacities
  BY StartupAssumption DEF StartupAssumption, argv, DefaultCacheSize
<1>2. ASSUME NEW i \in DOMAIN argv, argv[i].kind = "number"
      PROVE  PortOf(argv[i]) \in Ports
  <2>1. argv[i].value \in Int
    BY <1>1, <1>2 DEF Arguments, Named
  <2> QED BY <2>1, PortsArePorts DEF PortOf
<1>3. CASE IsV1
  <2>1. 1 \in DOMAIN argv /\ argv[1].kind = "number"
    BY <1>1, <1>3, StartupAssumption DEF StartupAssumption, GivesEnough, IsV1, argv
  <2>2. PortOf(argv[1]) \in Ports
    BY <1>2, <2>1
  <2> QED BY <1>1, <1>3, <2>2 DEF V1Made
<1>4. CASE ~IsV1
  <2>1. ArgcIsRight /\ NumbersAreRight /\ NamesAreRight
    BY <1>4 DEF GivesEnough
  <2>2. Len(argv) \in {3, 4, 5} /\ \A i \in 3..Len(argv) : argv[i].kind = "number"
    BY <2>1 DEF ArgcIsRight, NumbersAreRight
  <2>3. PortOf(argv[3]) \in Ports
    <3>1. 3 \in DOMAIN argv /\ argv[3].kind = "number"
      BY <1>1, <2>2
    <3> QED BY <1>2, <3>1
  <2>4. SizeT(DefaultCacheSize) = DefaultCacheSize
    BY DEF SizeT, DefaultCacheSize
  <2>5. Len(argv) = 5 => SizeT(argv[5].value) \in Capacities
    BY <2>2, StartupAssumption DEF StartupAssumption, argv
  <2>6. Made.capacity \in Capacities
    <3>1. CASE Len(argv) = 5
      BY <2>5, <3>1 DEF Made
    <3>2. CASE Len(argv) # 5
      <4>1. ~(Len(argv) > 4)
        BY <2>2, <3>2
      <4> QED BY <1>1, <2>4, <4>1 DEF Made
    <3> QED BY <3>1, <3>2
  <2>7. /\ argv[1].name \in {"Threadpool", "Semaphore"}
        /\ argv[2].name \in {"LRUCache", "LFUCache"}
    BY <2>1 DEF NamesAreRight, Named
  <2> QED BY <1>4, <2>3, <2>6, <2>7 DEF Made, DefaultNumThreads
<1> QED BY <1>3, <1>4

\* Every step of start, of the factory, of the signal and of the clients.
LEMMA LoopTypesStep ==
  LoopTypes /\ AsMade /\ [StartupNext]_startupVars => LoopTypes'
<1> SUFFICES ASSUME LoopTypes, AsMade, [StartupNext]_startupVars PROVE LoopTypes'
  OBVIOUS
<1>1. /\ HandlerTypes
      /\ running \in BOOLEAN
      /\ clientSocket \in [Workers -> Fds \cup {NoFd}]
      /\ mainPc \in MainPcs
  BY DEF LoopTypes
<1>2. CASE MakeServer
  <2>1. env \in Environments
    BY <1>1 DEF HandlerTypes, HandlerTypeOK, SocketsTypeOK
  <2>2. capacity' \in Capacities
    BY <1>2, <2>1, MadeTypes DEF MakeServer
  <2>3. UNCHANGED <<socketVars, cache_list, cache_map, heap, crashed, frame, exited,
                    running, clientSocket, mainPc>>
    BY <1>2 DEF MakeServer
  <2>4. HandlerTypes'
    BY <1>1, <2>2, <2>3
    DEF HandlerTypes, HandlerTypeOK, SocketsTypeOK, socketVars, Cache!TypeOK,
        Cache!Element, HasWhatItUses
  <2> QED BY <1>1, <2>3, <2>4 DEF LoopTypes
<1>3. ASSUME NEW w \in Workers, EitherWorkerStep(w) PROVE LoopTypes'
  BY <1>3, WorkerKeepsTypes
<1>4. CASE MakeFails \/ Listen \/ ListenFails \/ Spawn \/ JoinWorkers \/ Sigint
  <2>1. UNCHANGED handlerVars /\ UNCHANGED clientSocket
        /\ running' \in BOOLEAN /\ mainPc' \in MainPcs
    BY <1>1, <1>4
    DEF MakeFails, Listen, ListenFails, Spawn, JoinWorkers, Sigint, MainPcs
  <2> QED BY <1>1, <2>1, HandlersRest DEF LoopTypes
<1>5. CASE Outside
  <2>1. HandlerTypes'
    BY <1>1, <1>5, OutsideKeepsTypes DEF Outside
  <2> QED BY <1>1, <1>5, <2>1 DEF Outside, LoopTypes
<1>6. CASE UNCHANGED startupVars
  BY <1>1, <1>6, HandlersRest DEF startupVars, vars, LoopTypes
<1> QED
  BY <1>2, <1>3, <1>4, <1>5, <1>6 DEF StartupNext, Serve, EitherNext, MainStep

LEMMA LoopTypesInit == StartupInit => LoopTypes
<1> SUFFICES ASSUME StartupInit PROVE LoopTypes
  OBVIOUS
<1>1. HandlerTypes
  BY HandlerInitTypes DEF StartupInit, Init
<1> QED BY <1>1 DEF StartupInit, Init, LoopTypes, MainPcs

\* StartupTypeOK: every variable of the two programs keeps its type, whatever the
\* command line asks for; the permits stay within their number.
THEOREM StartupTypeCorrect == StartupSpec => []StartupTypeOK
<1>1. ASSUME LoopTypes, AsMade, Permits PROVE StartupTypeOK
  <2>1. thread_semaphore \in 0..NumThreads
    <3>1. IsFiniteSet(Holders)
      BY FS_Subset, SemaphoreAssumption DEF Holders, SemaphoreAssumption
    <3>2. Cardinality(Holders) \in Nat /\ NumThreads \in Nat
      BY <3>1, FS_CardinalityType, SemaphoreAssumption DEF SemaphoreAssumption
    <3> QED BY <1>1, <3>2 DEF Permits, PermitsConserved
  <2>2. TypeOK
    BY <1>1, <2>1 DEF LoopTypes, Permits, TypeOK, HandlerTypes
  <2>3. env \in Environments
    BY <1>1 DEF LoopTypes, HandlerTypes, HandlerTypeOK, SocketsTypeOK
  <2> QED BY <1>1, <2>2, <2>3, MadeTypes DEF AsMade, StartupTypeOK
<1>2. StartupInit => AsMade
  BY DEF StartupInit, AsMade
<1> QED
  BY <1>1, <1>2, AsMadeStep, PermitsInit, PermitsStep, LoopTypesInit, LoopTypesStep,
     PTL DEF StartupSpec

-----------------------------------------------------------------------------
(* Why the process ends.                                                   *)

\* Who is connected is not absent.
ClientsHaveCome ==
  /\ \A k \in DOMAIN backlog : peer[backlog[k]] # "absent"
  /\ \A fd \in Fds : fdTable[fd] \in Clients => peer[fdTable[fd]] # "absent"

\* Only a worker that fetches has an origin, behind the number it holds.
OriginsAreHeld ==
  \A fd \in Fds, w \in Workers :
    fdTable[fd] = w => frame[w].pc \in FetchingPcs /\ frame[w].iServerfd = fd

\* Worker v has the number of worker w's origin for its own.
Shares(v, w) ==
  \/ frame[v].pc \in ServingPcs /\ frame[v].newsockfd = frame[w].iServerfd
  \/ frame[v].pc \in FetchingPcs /\ frame[v].iServerfd = frame[w].iServerfd

IsUnasked(w) ==
  peer[w] \in {"connected", "closed", "reset"} /\ outbox[w] = <<>>

\* An origin has been sent nothing before its worker forwards the request, and so has
\* not answered, but may have left; unless another worker has written to it over the
\* same number.
OriginsAreFresh ==
  \A w \in Workers :
    frame[w].pc = "forward" /\ Behind(frame[w].iServerfd) = w =>
      \/ IsUnasked(w)
      \/ \E v \in Workers \ {w} : Shares(v, w)

Linked ==
  /\ ClientsHaveCome /\ OriginsAreHeld /\ OriginsAreFresh
  /\ IsV1 => \A w \in Workers : frame[w].pc \in FetchingPcs => frame[w].iServerfd # NoFd

\* What clients that behave have done.
Behave ==
  \A c \in Clients : /\ peer[c] \in {"absent", "connected", "sent"}
                     /\ \A i \in DOMAIN inbox[c] : inbox[c][i].type = "request"

-----------------------------------------------------------------------------

\* A step of worker w's handler that neither opens nor closes a descriptor, but may
\* write to one.
WritesBehind(w, fd) ==
  /\ fd \in Fds
  /\ \E items : outbox' = [outbox EXCEPT ![fdTable[fd]] = @ \o items]
  /\ frame'[w].pc # "forward"
  /\ \/ fd = frame[w].newsockfd
     \/ fd = frame[w].iServerfd /\ frame[w].pc = "forward"

Talks(w) ==
  /\ UNCHANGED <<env, backlog, fdTable, peer>>
  /\ frame[w].pc \in ServingPcs /\ frame'[w].pc \in ServingPcs
  /\ frame[w].pc \in FetchingPcs => frame'[w].pc \in FetchingPcs
  /\ frame'[w].pc = "forward" => frame[w].pc \in {"connect", "forward"}
  /\ IsV1 /\ frame'[w].pc \in FetchingPcs => frame[w].pc \in FetchingPcs
  /\ frame'[w].newsockfd = frame[w].newsockfd
  /\ frame'[w].iServerfd = frame[w].iServerfd
  /\ UNCHANGED outbox \/ \E fd : WritesBehind(w, fd)

\* The step of the handler of whichever program runs.
EitherHandlerStep(w) ==
  \/ ~IsV1 /\ HandlerStep(w)
  \/ IsV1 /\ (V1Request(w) \/ V1Transfer(w))

\* What is written goes to what is behind the number.
LEMMA SendWrites ==
  ASSUME NEW fd, NEW items, Send(fd, items), Closed \notin Endpoints
  PROVE  \/ UNCHANGED outbox
         \/ fd \in Fds /\ outbox' = [outbox EXCEPT ![fdTable[fd]] = @ \o items]
BY DEF Send, Behind

LEMMA HandlerTalks ==
  ASSUME HandlerTypes, NEW w \in Workers, EitherHandlerStep(w)
  PROVE  Talks(w) \/ ConnectToOrigin(w) \/ CloseServer(w) \/ CloseClient(w)
<1>1. /\ frame \in [Workers -> Frames] /\ Closed \notin Endpoints
      /\ frame[w] = [field \in DOMAIN frame[w] |-> frame[w][field]]
      /\ DOMAIN frame[w] = {"pc", "newsockfd", "req", "cached_response", "iServerfd",
                            "response"}
  BY SocketsAssumption
  DEF SocketsAssumption, Endpoints, HandlerTypes, HandlerTypeOK, Frames
<1> USE <1>1 DEF HandlerPcs, ServingPcs, FetchingPcs, Goto, IsV1
<1>2. CASE RecvRequest(w)
  BY <1>2 DEF RecvRequest, Talks
<1>3. CASE RecvEnd(w) \/ RecvError(w)
  BY <1>3 DEF RecvEnd, RecvError, Talks, socketVars
<1>4. CASE FindInCache(w)
  BY <1>4 DEF FindInCache, Talks, socketVars
<1>5. CASE ServeCached(w)
  <2>1. /\ UNCHANGED <<env, backlog, fdTable, peer>>
        /\ frame[w].pc = "serve" /\ frame' = [frame EXCEPT ![w].pc = "closeClient"]
        /\ UNCHANGED outbox \/ \E items : Send(frame[w].newsockfd, items)
    BY <1>5 DEF ServeCached
  <2>2. UNCHANGED outbox \/ WritesBehind(w, frame[w].newsockfd)
    BY <2>1, SendWrites DEF WritesBehind
  <2> QED BY <2>1, <2>2 DEF Talks
<1>6. CASE ConnectFails(w) /\ ~IsV1
  BY <1>6 DEF ConnectFails, Talks, socketVars
<1>7. CASE ForwardRequest(w)
  <2>1. /\ UNCHANGED <<env, backlog, fdTable, peer>>
        /\ frame[w].pc = "forward" /\ frame' = [frame EXCEPT ![w].pc = "relay"]
        /\ \E items : Send(frame[w].iServerfd, items)
    BY <1>7 DEF ForwardRequest
  <2>2. UNCHANGED outbox \/ WritesBehind(w, frame[w].iServerfd)
    BY <2>1, SendWrites DEF WritesBehind
  <2> QED BY <2>1, <2>2 DEF Talks
<1>8. CASE RelayPart(w)
  <2>1. /\ UNCHANGED <<env, backlog, fdTable, peer>>
        /\ frame[w].pc = "relay"
        /\ \E r : frame' = [frame EXCEPT ![w].response = r]
        /\ \E items : Send(frame[w].newsockfd, items)
    BY <1>8 DEF RelayPart
  <2>2. UNCHANGED outbox \/ WritesBehind(w, frame[w].newsockfd)
    BY <2>1, SendWrites DEF WritesBehind
  <2> QED BY <2>1, <2>2 DEF Talks
<1>9. CASE RelayEnd(w) \/ RelayError(w) \/ AddToCache(w)
  BY <1>9 DEF RelayEnd, RelayError, AddToCache, Talks, socketVars
<1>10. CASE ConnectFailsExits(w) \/ RelayErrorExits(w) \/ CopyRunsOff(w)
  BY <1>10 DEF ConnectFailsExits, RelayErrorExits, CopyRunsOff, Talks, socketVars
<1>11. CASE WriteFails(w)
  BY <1>11 DEF WriteFails, IsWriting, Talks, socketVars
<1> QED
  BY <1>2, <1>3, <1>4, <1>5, <1>6, <1>7, <1>8, <1>9, <1>10, <1>11
  DEF EitherHandlerStep, HandlerStep, V1Request, V1Transfer, Write

\* Every handler keeps to its own frame.
LEMMA HandlersStay ==
  ASSUME HandlerTypes, NEW w \in Workers, EitherHandlerStep(w)
  PROVE  \A v \in Workers \ {w} : frame'[v] = frame[v]
BY HandlersKeepApart DEF EitherHandlerStep, HandlerTypes, HandlerTypeOK

\* What talking changes leaves everyone connected, and who shares a number with the
\* worker of an origin goes on sharing it.
LEMMA TalkKeepsLinked ==
  ASSUME HandlerTypes, Linked, NEW w \in Workers, Talks(w),
         \A v \in Workers \ {w} : frame'[v] = frame[v]
  PROVE  Linked'
<1>1. /\ UNCHANGED <<env, backlog, fdTable, peer>>
      /\ frame[w].pc \in ServingPcs /\ frame'[w].pc \in ServingPcs
      /\ frame[w].pc \in FetchingPcs => frame'[w].pc \in FetchingPcs
      /\ frame'[w].pc = "forward" => frame[w].pc \in {"connect", "forward"}
      /\ IsV1 /\ frame'[w].pc \in FetchingPcs => frame[w].pc \in FetchingPcs
      /\ frame'[w].newsockfd = frame[w].newsockfd
      /\ frame'[w].iServerfd = frame[w].iServerfd
      /\ UNCHANGED outbox \/ \E fd : WritesBehind(w, fd)
  BY DEF Talks
<1>2. ClientsHaveCome /\ OriginsAreHeld /\ OriginsAreFresh
  BY DEF Linked
<1>3. ClientsHaveCome'
  BY <1>1, <1>2 DEF ClientsHaveCome
<1>4. OriginsAreHeld'
  BY <1>1, <1>2 DEF OriginsAreHeld
<1>5. ASSUME NEW u \in Workers, NEW v \in Workers, frame'[v].pc = "forward",
             Shares(u, v)
      PROVE  Shares(u, v)'
  BY <1>1, <1>5 DEF Shares
<1>6. OriginsAreFresh'
  <2> SUFFICES ASSUME NEW v \in Workers, frame'[v].pc = "forward",
                      Behind(frame[v].iServerfd) = v
               PROVE  \/ IsUnasked(v)'
                      \/ \E u \in Workers \ {v} : Shares(u, v)'
    BY <1>1 DEF OriginsAreFresh, Behind
  <2>1. frame[v].iServerfd \in Fds /\ fdTable[frame[v].iServerfd] = v
    BY SocketsAssumption DEF SocketsAssumption, Behind
  <2>2. frame[v].pc = "forward"
    <3>1. frame[v].pc \in FetchingPcs
      BY <1>2, <2>1 DEF OriginsAreHeld
    <3> QED BY <1>1, <3>1 DEF FetchingPcs
  <2>3. \/ IsUnasked(v)
        \/ \E u \in Workers \ {v} : Shares(u, v)
    BY <1>2, <2>2 DEF OriginsAreFresh
  <2>4. CASE \E u \in Workers \ {v} : Shares(u, v)
    BY <1>5, <2>4
  <2>5. CASE IsUnasked(v) /\ outbox'[v] = outbox[v]
    BY <1>1, <2>5 DEF IsUnasked
  <2>6. CASE outbox'[v] # outbox[v]
    <3>1. PICK fd : WritesBehind(w, fd)
      BY <1>1, <2>6
    <3>2. fd \in Fds /\ fdTable[fd] = v
      BY <2>6, <3>1 DEF WritesBehind, HandlerTypes, HandlerTypeOK, SocketsTypeOK
    <3>3. fd = frame[v].iServerfd
      BY <1>2, <3>2 DEF OriginsAreHeld
    <3>4. w # v
      BY <3>1 DEF WritesBehind
    <3>5. Shares(w, v)
      BY <1>1, <3>1, <3>3 DEF WritesBehind, Shares, FetchingPcs
    <3> QED BY <1>5, <3>4, <3>5
  <2> QED BY <2>3, <2>4, <2>5, <2>6
<1>7. IsV1' => \A v \in Workers :
                 frame'[v].pc \in FetchingPcs => frame'[v].iServerfd # NoFd
  BY <1>1 DEF Linked, IsV1
<1> QED BY <1>3, <1>4, <1>6, <1>7 DEF Linked

\* A worker closes one of its numbers, or, after its handler has returned, any.
Closes(w, fd) ==
  /\ UNCHANGED <<env, backlog, peer, inbox, outbox>>
  /\ fdTable' = CloseFd(fd)
  /\ frame'[w].newsockfd = frame[w].newsockfd /\ frame'[w].iServerfd = frame[w].iServerfd
  /\ \A v \in Workers \ {w} : frame'[v] = frame[v]
  /\ \/ frame'[w] = frame[w]
     \/ /\ frame[w].pc = "closeServer" /\ frame'[w].pc = "closeClient"
        /\ fd = frame[w].iServerfd
     \/ /\ frame[w].pc = "closeClient" /\ frame'[w].pc = "return"
        /\ fd = frame[w].newsockfd

LEMMA ClosesInHandler ==
  ASSUME HandlerTypes, NEW w \in Workers
  PROVE  /\ CloseServer(w) => Closes(w, frame[w].iServerfd)
         /\ CloseClient(w) => Closes(w, frame[w].newsockfd)
<1>1. /\ frame \in [Workers -> Frames]
      /\ frame[w] = [field \in DOMAIN frame[w] |-> frame[w][field]]
      /\ DOMAIN frame[w] = {"pc", "newsockfd", "req", "cached_response", "iServerfd",
                            "response"}
  BY DEF HandlerTypes, HandlerTypeOK, Frames
<1> QED BY <1>1 DEF CloseServer, CloseClient, Closes, Goto

LEMMA CloseKeepsLinked ==
  ASSUME HandlerTypes, Linked, NEW w \in Workers, NEW fd, Closes(w, fd)
  PROVE  Linked'
<1>1. ClientsHaveCome /\ OriginsAreHeld /\ OriginsAreFresh
  BY DEF Linked
<1>2. /\ fdTable \in [Fds -> Endpoints \cup {Closed}]
      /\ Closed \notin Endpoints /\ NoFd \notin Fds
  BY SocketsAssumption
  DEF SocketsAssumption, Endpoints, HandlerTypes, HandlerTypeOK, SocketsTypeOK
<1>3. \A x \in Fds : \/ x = fd /\ fdTable'[x] = Closed
                     \/ x # fd /\ fdTable'[x] = fdTable[x]
  BY <1>2 DEF Closes, CloseFd
<1>4. ClientsHaveCome'
  BY <1>1, <1>2, <1>3 DEF Closes, ClientsHaveCome, Endpoints
<1>5. OriginsAreHeld'
  <2> SUFFICES ASSUME NEW x \in Fds, NEW v \in Workers, fdTable'[x] = v
               PROVE  frame'[v].pc \in FetchingPcs /\ frame'[v].iServerfd = x
    BY DEF OriginsAreHeld
  <2>1. x # fd /\ fdTable[x] = v
    BY <1>2, <1>3 DEF Endpoints
  <2>2. frame[v].pc \in FetchingPcs /\ frame[v].iServerfd = x
    BY <1>1, <2>1 DEF OriginsAreHeld
  <2> QED BY <2>1, <2>2 DEF Closes, FetchingPcs
<1>6. OriginsAreFresh'
  <2> SUFFICES ASSUME NEW v \in Workers, frame'[v].pc = "forward",
                      Behind(frame[v].iServerfd)' = v
               PROVE  \/ IsUnasked(v)
                      \/ \E u \in Workers \ {v} : Shares(u, v)'
    BY DEF OriginsAreFresh, Closes, IsUnasked
  <2>1. frame'[v] = frame[v]
    BY DEF Closes
  <2>2. frame[v].iServerfd \in Fds /\ fdTable'[frame[v].iServerfd] = v
    BY <1>2, <2>1 DEF Behind, Endpoints
  <2>3. frame[v].iServerfd # fd /\ Behind(frame[v].iServerfd) = v
    BY <1>2, <1>3, <2>2 DEF Behind, Endpoints
  <2>4. ASSUME NEW u \in Workers, Shares(u, v) PROVE Shares(u, v)'
    BY <2>1, <2>3, <2>4 DEF Shares, Closes, FetchingPcs, ServingPcs, HandlerPcs
  <2> QED BY <1>1, <2>1, <2>3, <2>4 DEF OriginsAreFresh
<1>7. IsV1' => \A v \in Workers :
                 frame'[v].pc \in FetchingPcs => frame'[v].iServerfd # NoFd
  <2>1. \A v \in Workers : frame'[v].pc \in FetchingPcs => frame[v].pc \in FetchingPcs
    BY DEF Closes, FetchingPcs
  <2>2. \A v \in Workers : frame'[v].iServerfd = frame[v].iServerfd
    BY DEF Closes
  <2> QED BY <2>1, <2>2 DEF Linked, Closes, IsV1
<1> QED BY <1>4, <1>5, <1>6, <1>7 DEF Linked

\* A worker gets a connection to its origin, to which nothing has been written.
LEMMA ConnectKeepsLinked ==
  ASSUME HandlerTypes, Linked, NEW w \in Workers, ConnectToOrigin(w)
  PROVE  Linked'
<1>1. ClientsHaveCome /\ OriginsAreHeld /\ OriginsAreFresh
  BY DEF Linked
<1>2. /\ fdTable \in [Fds -> Endpoints \cup {Closed}] /\ env \in Environments
      /\ peer \in [Endpoints -> PeerStates] /\ frame \in [Workers -> Frames]
      /\ outbox \in [Endpoints -> Seq(Items)]
      /\ Closed \notin Endpoints /\ NoFd \notin Fds /\ Clients \cap Workers = {}
      /\ Workers \subseteq Endpoints /\ Clients \subseteq Endpoints
      /\ backlog \in Seq(Clients)
  BY SocketsAssumption
  DEF SocketsAssumption, Endpoints, HandlerTypes, HandlerTypeOK, SocketsTypeOK
<1>3. LowestFd \in Fds /\ fdTable[LowestFd] = Closed
  BY <1>2, LowestFdIsFree, SocketsAssumption DEF SocketsAssumption, ConnectToOrigin
<1>4. /\ fdTable' = [fdTable EXCEPT ![LowestFd] = w]
      /\ peer' = [peer EXCEPT ![w] = "connected"]
      /\ outbox' = [outbox EXCEPT ![w] = <<>>]
      /\ frame[w].pc = "connect"
      /\ UNCHANGED <<env, backlog>>
  BY DEF ConnectToOrigin
<1>5. /\ frame'[w].pc = "forward" /\ frame'[w].iServerfd = LowestFd
      /\ frame'[w].newsockfd = frame[w].newsockfd
      /\ \A v \in Workers \ {w} : frame'[v] = frame[v]
  BY <1>2 DEF ConnectToOrigin, Frames
<1>6. ClientsHaveCome'
  BY <1>1, <1>2, <1>3, <1>4 DEF ClientsHaveCome
<1>7. OriginsAreHeld'
  <2> SUFFICES ASSUME NEW x \in Fds, NEW v \in Workers, fdTable'[x] = v
               PROVE  frame'[v].pc \in FetchingPcs /\ frame'[v].iServerfd = x
    BY DEF OriginsAreHeld
  <2>1. \/ x = LowestFd /\ v = w
        \/ fdTable[x] = v
    BY <1>2, <1>3, <1>4
  <2>2. CASE x = LowestFd /\ v = w
    BY <1>5, <2>2 DEF FetchingPcs
  <2>3. CASE fdTable[x] = v
    <3>1. frame[v].pc \in FetchingPcs /\ frame[v].iServerfd = x
      BY <1>1, <2>3 DEF OriginsAreHeld
    <3>2. v # w
      BY <1>4, <3>1 DEF FetchingPcs
    <3> QED BY <1>5, <3>1, <3>2
  <2> QED BY <2>1, <2>2, <2>3
<1>8. OriginsAreFresh'
  <2> SUFFICES ASSUME NEW v \in Workers, frame'[v].pc = "forward",
                      Behind(frame[v].iServerfd)' = v
               PROVE  \/ IsUnasked(v)'
                      \/ \E u \in Workers \ {v} : Shares(u, v)'
    BY DEF OriginsAreFresh
  <2>1. CASE v = w
    BY <1>2, <1>4, <2>1 DEF IsUnasked
  <2>2. CASE v # w
    <3>1. frame'[v] = frame[v] /\ peer'[v] = peer[v] /\ outbox'[v] = outbox[v]
      BY <1>2, <1>4, <1>5, <2>2
    <3>2. frame[v].iServerfd \in Fds /\ fdTable'[frame[v].iServerfd] = v
      BY <1>2, <3>1 DEF Behind
    <3>3. Behind(frame[v].iServerfd) = v
      BY <1>2, <1>3, <1>4, <2>2, <3>2 DEF Behind
    <3>4. ASSUME NEW u \in Workers, Shares(u, v) PROVE Shares(u, v)'
      BY <1>4, <1>5, <3>1, <3>4 DEF Shares, FetchingPcs, ServingPcs, HandlerPcs
    <3> QED BY <1>1, <3>1, <3>3, <3>4 DEF OriginsAreFresh, IsUnasked
  <2> QED BY <2>1, <2>2
<1>9. IsV1' => \A v \in Workers :
                 frame'[v].pc \in FetchingPcs => frame'[v].iServerfd # NoFd
  BY <1>2, <1>3, <1>4, <1>5 DEF Linked, IsV1
<1> QED BY <1>6, <1>7, <1>8, <1>9 DEF Linked

\* A worker whose handler is idle or has returned gets another frame.
LEMMA CallKeepsLinked ==
  ASSUME HandlerTypes, Linked, NEW w \in Workers, frame[w].pc \in {"idle", "return"},
         UNCHANGED <<env, peer, outbox>>, ClientsHaveCome',
         frame'[w].pc \in {"idle", "recv"}, \A v \in Workers \ {w} : frame'[v] = frame[v],
         \A fd \in Fds : fdTable'[fd] \in Clients \/ fdTable'[fd] = fdTable[fd]
  PROVE  Linked'
<1>1. /\ OriginsAreHeld /\ OriginsAreFresh
      /\ Closed \notin Endpoints /\ NoFd \notin Fds /\ Clients \cap Workers = {}
      /\ Workers \subseteq Endpoints
  BY SocketsAssumption DEF SocketsAssumption, Endpoints, Linked
<1>2. OriginsAreHeld'
  BY <1>1 DEF OriginsAreHeld, FetchingPcs
<1>3. OriginsAreFresh'
  <2> SUFFICES ASSUME NEW v \in Workers, frame'[v].pc = "forward",
                      Behind(frame[v].iServerfd)' = v
               PROVE  \/ IsUnasked(v)
                      \/ \E u \in Workers \ {v} : Shares(u, v)'
    BY DEF OriginsAreFresh, IsUnasked
  <2>1. frame'[v] = frame[v]
    OBVIOUS
  <2>2. frame[v].iServerfd \in Fds /\ fdTable'[frame[v].iServerfd] = v
    BY <1>1, <2>1 DEF Behind
  <2>3. Behind(frame[v].iServerfd) = v
    BY <1>1, <2>2 DEF Behind
  <2>4. ASSUME NEW u \in Workers, Shares(u, v) PROVE Shares(u, v)'
    BY <2>1, <2>4 DEF Shares, FetchingPcs, ServingPcs, HandlerPcs
  <2> QED BY <1>1, <2>1, <2>3, <2>4 DEF OriginsAreFresh
<1>4. IsV1' => \A v \in Workers :
                 frame'[v].pc \in FetchingPcs => frame'[v].iServerfd # NoFd
  BY DEF Linked, IsV1, FetchingPcs
<1> QED BY <1>2, <1>3, <1>4 DEF Linked

\* A worker accepts a client, or its handler has returned.
LEMMA LoopKeepsLinked ==
  ASSUME LoopTypes, AtRest, Linked, NEW w \in Workers, Accept(w) \/ Return(w)
  PROVE  Linked'
<1>1. /\ HandlerTypes /\ ClientsHaveCome
      /\ fdTable \in [Fds -> Endpoints \cup {Closed}] /\ env \in Environments
      /\ frame \in [Workers -> Frames] /\ backlog \in Seq(Clients)
      /\ Closed \notin Endpoints /\ Clients \subseteq Endpoints
  BY SocketsAssumption
  DEF SocketsAssumption, Endpoints, LoopTypes, HandlerTypes, HandlerTypeOK,
      SocketsTypeOK, Linked
<1>2. CASE Accept(w)
  <2>1. LowestFd \in Fds
    BY <1>1, <1>2, LowestFdIsFree, SocketsAssumption DEF SocketsAssumption, Accept
  <2>2. /\ backlog # <<>> /\ backlog' = Tail(backlog)
        /\ fdTable' = [fdTable EXCEPT ![LowestFd] = Head(backlog)]
        /\ UNCHANGED <<env, peer, outbox>>
        /\ frame[w].pc = "idle"
    BY <1>2 DEF Accept, AtRest
  <2>3. /\ frame'[w].pc = "recv"
        /\ \A v \in Workers \ {w} : frame'[v] = frame[v]
    BY <1>1, <1>2 DEF Accept, Call, IdleFrame
  <2>4. /\ Head(backlog) = backlog[1] /\ 1 \in DOMAIN backlog /\ backlog[1] \in Clients
        /\ \A k \in DOMAIN backlog' : k + 1 \in DOMAIN backlog
                                      /\ backlog'[k] = backlog[k + 1]
    BY <1>1, <2>2, HeadTailProperties
  <2>5. \A fd \in Fds : fdTable'[fd] = backlog[1] \/ fdTable'[fd] = fdTable[fd]
    BY <1>1, <2>2, <2>4
  <2>6. ClientsHaveCome'
    BY <1>1, <2>2, <2>4, <2>5 DEF ClientsHaveCome
  <2> QED BY <1>1, <2>2, <2>3, <2>4, <2>5, <2>6, CallKeepsLinked
<1>3. CASE Return(w)
  <2>1. /\ frame[w].pc = "return" /\ frame' = [frame EXCEPT ![w] = IdleFrame]
        /\ UNCHANGED socketVars
    BY <1>3 DEF Return
  <2>2. UNCHANGED <<env, backlog, fdTable, peer, outbox>>
    BY <2>1 DEF socketVars
  <2>3. frame'[w].pc = "idle" /\ \A v \in Workers \ {w} : frame'[v] = frame[v]
    BY <1>1, <2>1 DEF IdleFrame
  <2>4. ClientsHaveCome'
    BY <1>1, <2>2 DEF ClientsHaveCome
  <2> QED BY <1>1, <2>1, <2>2, <2>3, <2>4, CallKeepsLinked
<1> QED BY <1>2, <1>3

\* A client or an origin does something.
LEMMA OutsideKeepsLinked ==
  ASSUME HandlerTypes, Linked, OutsideStep
  PROVE  Linked'
<1>1. /\ UNCHANGED <<env, fdTable, outbox, frame>>
      /\ ClientsHaveCome /\ OriginsAreHeld /\ OriginsAreFresh
  BY DEF OutsideStep, ClientStep, Connect, SendRequest, HangUp, Leave, Answer, Linked
<1>2. /\ peer \in [Endpoints -> PeerStates] /\ backlog \in Seq(Clients)
      /\ Clients \cap Workers = {}
      /\ Workers \subseteq Endpoints /\ Clients \subseteq Endpoints
  BY SocketsAssumption
  DEF SocketsAssumption, Endpoints, HandlerTypes, HandlerTypeOK, SocketsTypeOK
<1>3. OriginsAreHeld'
  BY <1>1 DEF OriginsAreHeld
<1>4. \A u, v \in Workers : Shares(u, v) => Shares(u, v)'
  BY <1>1 DEF Shares
<1>5. IsV1' => \A v \in Workers :
                 frame'[v].pc \in FetchingPcs => frame'[v].iServerfd # NoFd
  BY <1>1 DEF Linked, IsV1
<1>6. ASSUME NEW c \in Clients, ClientStep(c) PROVE Linked'
  <2>1. PICK state \in PeerStates \ {"absent"} :
          peer' = [peer EXCEPT ![c] = state]
    BY <1>6 DEF ClientStep, Connect, SendRequest, HangUp, PeerStates
  <2>2. backlog' = backlog \/ backlog' = Append(backlog, c)
    BY <1>6 DEF ClientStep, Connect, SendRequest, HangUp
  <2>3. \A k \in DOMAIN backlog' : \/ backlog'[k] = c
                                   \/ k \in DOMAIN backlog /\ backlog'[k] = backlog[k]
    BY <1>2, <2>2, AppendProperties
  <2>4. \A d \in Clients : peer[d] # "absent" => peer'[d] # "absent"
    BY <1>2, <2>1
  <2>5. \A k \in DOMAIN backlog : backlog[k] \in Clients
    BY <1>2
  <2>6. peer'[c] # "absent"
    BY <1>2, <2>1
  <2>7. ClientsHaveCome'
    BY <1>1, <2>3, <2>4, <2>5, <2>6 DEF ClientsHaveCome
  <2>8. \A v \in Workers : peer'[v] = peer[v]
    BY <1>2, <2>1
  <2>9. OriginsAreFresh'
    BY <1>1, <1>4, <2>8 DEF OriginsAreFresh, IsUnasked, Behind
  <2> QED BY <1>1, <1>3, <1>5, <2>7, <2>8, <2>9 DEF Linked
<1>7. ASSUME NEW w \in Workers, Leave(w) \/ Answer(w) PROVE Linked'
  <2>1. /\ \A e \in Endpoints \ {w} : peer'[e] = peer[e]
        /\ peer'[w] \in {"closed", "reset"}
        /\ backlog' = backlog
    BY <1>2, <1>7 DEF Leave, Answer
  <2>2. \A d \in Clients : peer'[d] = peer[d]
    BY <1>2, <2>1
  <2>3. ClientsHaveCome'
    BY <1>1, <1>2, <2>1, <2>2 DEF ClientsHaveCome
  <2>4. \A v \in Workers : IsUnasked(v) => IsUnasked(v)'
    BY <1>1, <1>2, <2>1 DEF IsUnasked
  <2>5. OriginsAreFresh'
    BY <1>1, <1>4, <2>4 DEF OriginsAreFresh, Behind
  <2> QED BY <1>3, <1>5, <2>3, <2>5 DEF Linked
<1> QED BY <1>6, <1>7 DEF OutsideStep

\* What leaves the sockets and the frames alone.
LEMMA RestKeepsLinked ==
  ASSUME Linked, UNCHANGED <<socketVars, frame>> PROVE Linked'
<1>1. UNCHANGED <<env, backlog, fdTable, peer, outbox, frame>>
  BY DEF socketVars
<1>2. \A u, v \in Workers : Shares(u, v)' <=> Shares(u, v)
  BY <1>1 DEF Shares
<1>3. OriginsAreFresh'
  BY <1>1, <1>2 DEF Linked, OriginsAreFresh, IsUnasked, Behind
<1> QED BY <1>1, <1>3 DEF Linked, ClientsHaveCome, OriginsAreHeld, IsV1

\* A step of a worker of either program is one of its handler or of its loop.
LEMMA WorkerSteps ==
  ASSUME NEW w \in Workers, EitherWorkerStep(w)
  PROVE  \/ EitherHandlerStep(w)
         \/ Accept(w) \/ Return(w) \/ CloseAgain(w)
         \/ UNCHANGED handlerVars
BY DEF EitherWorkerStep, WorkerStep, V1WorkerStep, Loop, SemWait, CheckRunning,
       AcceptFails, DataFromClient, V1DataFromClient, V1Socket, SemPost,
       EitherHandlerStep

LEMMA LinkedStep ==
  LoopTypes /\ AtRest /\ Linked /\ [StartupNext]_startupVars => Linked'
<1> SUFFICES ASSUME LoopTypes, AtRest, Linked, [StartupNext]_startupVars PROVE Linked'
  OBVIOUS
<1>1. HandlerTypes
  BY DEF LoopTypes
<1>2. ASSUME NEW w \in Workers, EitherWorkerStep(w) PROVE Linked'
  <2>1. CASE EitherHandlerStep(w)
    <3>1. \A v \in Workers \ {w} : frame'[v] = frame[v]
      BY <1>1, <2>1, HandlersStay
    <3>2. Talks(w) \/ ConnectToOrigin(w) \/ CloseServer(w) \/ CloseClient(w)
      BY <1>1, <2>1, HandlerTalks
    <3>3. CASE Talks(w)
      BY <1>1, <3>1, <3>3, TalkKeepsLinked
    <3>4. CASE ConnectToOrigin(w)
      BY <1>1, <3>4, ConnectKeepsLinked
    <3>5. CASE CloseServer(w) \/ CloseClient(w)
      BY <1>1, <3>5, ClosesInHandler, CloseKeepsLinked
    <3> QED BY <3>2, <3>3, <3>4, <3>5
  <2>2. CASE Accept(w) \/ Return(w)
    BY <2>2, LoopKeepsLinked
  <2>3. CASE CloseAgain(w)
    <3>1. Closes(w, clientSocket[w])
      BY <2>3 DEF CloseAgain, Closes
    <3> QED BY <1>1, <3>1, CloseKeepsLinked
  <2>4. CASE UNCHANGED handlerVars
    BY <2>4, RestKeepsLinked DEF handlerVars
  <2> QED BY <1>2, <2>1, <2>2, <2>3, <2>4, WorkerSteps
<1>3. CASE Outside
  BY <1>1, <1>3, OutsideKeepsLinked DEF Outside
<1>4. CASE MakeServer \/ MakeFails \/ MainStep \/ Sigint \/ UNCHANGED startupVars
  <2>1. UNCHANGED <<socketVars, frame>>
    BY <1>4
    DEF MakeServer, MakeFails, MainStep, Listen, ListenFails, Spawn, JoinWorkers,
        Sigint, startupVars, vars, handlerVars
  <2> QED BY <2>1, RestKeepsLinked
<1> QED BY <1>2, <1>3, <1>4 DEF StartupNext, Serve, EitherNext

LEMMA LinkedInit == StartupInit => Linked
<1> SUFFICES ASSUME StartupInit PROVE Linked
  OBVIOUS
<1>1. /\ backlog = <<>> /\ \A fd \in Fds : fdTable[fd] = Closed
      /\ \A w \in Workers : peer[w] = "absent" /\ frame[w].pc = "idle"
  BY DEF StartupInit, Init, HandlerInit, SocketsInit, Endpoints, IdleFrame
<1>2. Closed \notin Clients \cup Workers
  BY SocketsAssumption DEF SocketsAssumption
<1> QED
  BY <1>1, <1>2
  DEF Linked, ClientsHaveCome, OriginsAreHeld, OriginsAreFresh, FetchingPcs

\* A handler connects no client and takes what it receives from the front.
LEMMA HandlersReceive ==
  ASSUME HandlerTypes, NEW w \in Workers, EitherHandlerStep(w), NEW c \in Clients
  PROVE  /\ peer'[c] = peer[c]
         /\ \/ inbox'[c] = inbox[c]
            \/ inbox[c] # <<>> /\ inbox'[c] = Tail(inbox[c])
<1>1. /\ peer \in [Endpoints -> PeerStates] /\ inbox \in [Endpoints -> Seq(Items)]
      /\ c \in Endpoints /\ w \in Endpoints /\ c # w
  BY SocketsAssumption
  DEF SocketsAssumption, Endpoints, HandlerTypes, HandlerTypeOK, SocketsTypeOK
<1>2. CASE RecvRequest(w)
  BY <1>1, <1>2 DEF RecvRequest, HasData
<1>3. CASE RelayPart(w)
  BY <1>1, <1>3 DEF RelayPart, HasData
<1>4. CASE ConnectToOrigin(w)
  BY <1>1, <1>4 DEF ConnectToOrigin
<1>5. CASE UNCHANGED <<peer, inbox>>
  BY <1>5
<1> QED
  BY <1>2, <1>3, <1>4, <1>5
  DEF EitherHandlerStep, HandlerStep, V1Request, V1Transfer, Write, RecvEnd, RecvError,
      FindInCache, ServeCached, ConnectFails, ConnectFailsExits, ForwardRequest,
      RelayEnd, RelayError, RelayErrorExits, AddToCache, CloseServer, CloseClient,
      WriteFails, CopyRunsOff, socketVars

LEMMA BehaveStep ==
  LoopTypes /\ ClientsBehave /\ Behave /\ [StartupNext]_startupVars => Behave'
<1> SUFFICES ASSUME LoopTypes, ClientsBehave, Behave, [StartupNext]_startupVars
             PROVE  Behave'
  OBVIOUS
<1>1. /\ HandlerTypes
      /\ peer \in [Endpoints -> PeerStates] /\ inbox \in [Endpoints -> Seq(Items)]
      /\ Clients \cap Workers = {} /\ Workers \subseteq Endpoints
      /\ Clients \subseteq Endpoints
  BY SocketsAssumption
  DEF SocketsAssumption, Endpoints, LoopTypes, HandlerTypes, HandlerTypeOK,
      SocketsTypeOK
<1>2. CASE UNCHANGED <<peer, inbox>>
  BY <1>2 DEF Behave
<1>3. ASSUME NEW w \in Workers, EitherHandlerStep(w) PROVE Behave'
  <2> SUFFICES ASSUME NEW c \in Clients
               PROVE  /\ peer'[c] \in {"absent", "connected", "sent"}
                      /\ \A i \in DOMAIN inbox'[c] : inbox'[c][i].type = "request"
    BY DEF Behave
  <2>1. /\ peer'[c] = peer[c]
        /\ \/ inbox'[c] = inbox[c]
           \/ inbox[c] # <<>> /\ inbox'[c] = Tail(inbox[c])
    BY <1>1, <1>3, HandlersReceive
  <2>2. inbox[c] \in Seq(Items)
    BY <1>1
  <2>3. CASE inbox'[c] = inbox[c]
    BY <2>1, <2>3 DEF Behave
  <2>4. CASE inbox[c] # <<>> /\ inbox'[c] = Tail(inbox[c])
    <3>1. \A i \in DOMAIN inbox'[c] : i + 1 \in DOMAIN inbox[c]
                                     /\ inbox'[c][i] = inbox[c][i + 1]
      BY <2>2, <2>4, HeadTailProperties
    <3> QED BY <2>1, <3>1 DEF Behave
  <2> QED BY <2>1, <2>3, <2>4
<1>4. ASSUME NEW c \in Clients, ClientStep(c) PROVE Behave'
  <2>1. Connect(c) \/ SendRequest(c)
    BY <1>4 DEF ClientStep, HangUp, ClientsBehave
  <2>2. PICK state \in {"connected", "sent"} : peer' = [peer EXCEPT ![c] = state]
    BY <2>1 DEF Connect, SendRequest
  <2>3. \/ inbox' = inbox
        \/ inbox' = [inbox EXCEPT ![c] = Append(inbox[c], Request(RequestOf[c]))]
    BY <2>1 DEF Connect, SendRequest, ClientsBehave
  <2>4. \A i \in DOMAIN Append(inbox[c], Request(RequestOf[c])) :
          Append(inbox[c], Request(RequestOf[c]))[i].type = "request"
    <3>1. inbox[c] \in Seq(Items) /\ Request(RequestOf[c]) \in Items
      BY <1>1, ItemTypes, SocketsAssumption DEF SocketsAssumption
    <3>2. Request(RequestOf[c]).type = "request"
      BY DEF Request
    <3> QED BY <3>1, <3>2, AppendProperties DEF Behave
  <2>5. ASSUME NEW d \in Clients
        PROVE  /\ peer'[d] \in {"absent", "connected", "sent"}
               /\ \A i \in DOMAIN inbox'[d] : inbox'[d][i].type = "request"
    <3>1. CASE d = c
      BY <1>1, <2>2, <2>3, <2>4, <3>1 DEF Behave
    <3>2. CASE d # c
      <4>1. peer'[d] = peer[d] /\ inbox'[d] = inbox[d]
        BY <1>1, <2>2, <2>3, <3>2
      <4> QED BY <4>1 DEF Behave
    <3> QED BY <3>1, <3>2
  <2> QED BY <2>5 DEF Behave
<1>5. ASSUME NEW w \in Workers, Leave(w) \/ Answer(w) PROVE Behave'
  <2>1. \A c \in Clients : peer'[c] = peer[c] /\ inbox'[c] = inbox[c]
    BY <1>1, <1>5 DEF Leave, Answer
  <2> QED BY <2>1 DEF Behave
<1>6. ASSUME NEW w \in Workers, EitherWorkerStep(w) PROVE Behave'
  <2>1. CASE Accept(w) \/ Return(w) \/ CloseAgain(w) \/ UNCHANGED handlerVars
    BY <1>2, <2>1 DEF Accept, Return, CloseAgain, handlerVars, socketVars
  <2> QED BY <1>3, <1>6, <2>1, WorkerSteps
<1>7. CASE MakeServer \/ MakeFails \/ MainStep \/ Sigint \/ UNCHANGED startupVars
  BY <1>2, <1>7
  DEF MakeServer, MakeFails, MainStep, Listen, ListenFails, Spawn, JoinWorkers,
      Sigint, startupVars, vars, handlerVars, socketVars
<1> QED
  BY <1>4, <1>5, <1>6, <1>7 DEF StartupNext, Serve, EitherNext, Outside, OutsideStep

-----------------------------------------------------------------------------

\* What may end the process while the clients behave.
Cause ==
  \/ \E w \in Workers : HasLost(w) \/ OriginLeft(w)
  \/ IsV1 /\ CannotConnect
  \/ IsV1 /\ \E w \in Workers : frame[w].pc = "relay" /\ peer[w] = "reset"

\* A worker whose client's number leads to a client that behaves can write to it,
\* and receives a request or waits.
LEMMA ClientIsUp ==
  ASSUME HandlerTypes, Linked, Behave, NEW w \in Workers, frame[w].pc \in ServingPcs,
         ~HasLost(w)
  PROVE  /\ Behind(frame[w].newsockfd) \in Clients
         /\ IsUp(Behind(frame[w].newsockfd))
<1>1. Behind(frame[w].newsockfd) \in Clients
  BY DEF HasLost, ServingPcs
<1>2. frame[w].newsockfd \in Fds /\ fdTable[frame[w].newsockfd] \in Clients
  BY <1>1, SocketsAssumption DEF SocketsAssumption, Behind
<1>3. peer[fdTable[frame[w].newsockfd]] \in {"connected", "sent"}
  BY <1>2 DEF Linked, ClientsHaveCome, Behave
<1> QED BY <1>1, <1>2, <1>3 DEF IsUp, Behind

\* A worker that forwards its request over the number of its origin reaches it, unless
\* the origin has left or another worker uses that number.
LEMMA OriginIsUp ==
  ASSUME HandlerTypes, Linked, NEW w \in Workers, frame[w].pc = "forward",
         frame[w].iServerfd # NoFd, \A v \in Workers : ~HasLost(v), ~OriginLeft(w)
  PROVE  Behind(frame[w].iServerfd) = w /\ IsUp(w)
<1>1. Behind(frame[w].iServerfd) = w
  BY DEF HasLost
<1>2. ASSUME NEW v \in Workers \ {w}, Shares(v, w) PROVE FALSE
  <2>1. w \notin Clients
    BY SocketsAssumption DEF SocketsAssumption
  <2> QED
    BY <1>1, <1>2, <2>1 DEF Shares, HasLost, ServingPcs, FetchingPcs
<1>3. IsUnasked(w)
  BY <1>1, <1>2 DEF Linked, OriginsAreFresh
<1>4. peer[w] = "connected"
  BY <1>1, <1>3 DEF IsUnasked, OriginLeft
<1> QED BY <1>1, <1>4 DEF IsUp

\* SIGPIPE is raised for a connection that was torn down.
LEMMA SendEnds ==
  ASSUME NEW fd, NEW items, Send(fd, items), exited' # exited
  PROVE  Behind(fd) # Closed /\ ~IsUp(Behind(fd))
BY DEF Send

\* Whatever ends the process in a handler has a cause.
LEMMA ExitHasCause ==
  ASSUME HandlerTypes, Linked, Behave, NEW w \in Workers, EitherHandlerStep(w),
         exited' # exited
  PROVE  Cause
<1> SUFFICES ASSUME \A v \in Workers : ~HasLost(v) /\ ~OriginLeft(v),
                    IsV1 => ~CannotConnect,
                    IsV1 => \A v \in Workers : ~(frame[v].pc = "relay" /\ peer[v] = "reset")
             PROVE  FALSE
  BY DEF Cause
<1>1. /\ frame[w].pc \in ServingPcs =>
           /\ Behind(frame[w].newsockfd) \in Clients
           /\ IsUp(Behind(frame[w].newsockfd))
      /\ frame[w].pc = "forward" /\ frame[w].iServerfd # NoFd =>
           Behind(frame[w].iServerfd) = w /\ IsUp(w)
  BY ClientIsUp, OriginIsUp
<1>2. /\ inbox \in [Endpoints -> Seq(Items)] /\ Clients \subseteq Endpoints
      /\ Workers \subseteq Endpoints
      /\ Closed \notin Endpoints /\ NoFd \notin Fds
  BY SocketsAssumption
  DEF SocketsAssumption, Endpoints, HandlerTypes, HandlerTypeOK, SocketsTypeOK
<1> USE DEF ServingPcs, HandlerPcs
<1>3. CASE RecvRequest(w)
  <2> DEFINE c == Behind(frame[w].newsockfd)
  <2>1. c \in Clients /\ inbox[c] # <<>> /\ Head(inbox[c]).type # "request"
    BY <1>1, <1>3 DEF RecvRequest, HasData
  <2>2. Head(inbox[c]) = inbox[c][1] /\ 1 \in DOMAIN inbox[c]
    BY <1>2, <2>1, HeadTailProperties
  <2> QED BY <2>1, <2>2 DEF Behave
<1>4. CASE RecvEnd(w) \/ RecvError(w)
  BY <1>1, <1>2, <1>4 DEF RecvEnd, RecvError, HasEnded, IsBroken, IsUp
<1>5. CASE ServeCached(w)
  <2>1. frame[w].pc = "serve" /\ \E items : Send(frame[w].newsockfd, items)
    BY <1>5 DEF ServeCached
  <2> QED BY <1>1, <2>1, SendEnds
<1>6. CASE ForwardRequest(w)
  <2>1. frame[w].pc = "forward" /\ \E items : Send(frame[w].iServerfd, items)
    BY <1>6 DEF ForwardRequest
  <2>2. frame[w].iServerfd # NoFd
    BY <1>2, <2>1, SendEnds DEF Behind
  <2> QED BY <1>1, <2>1, <2>2, SendEnds
<1>7. CASE RelayPart(w)
  <2>1. frame[w].pc = "relay" /\ \E items : Send(frame[w].newsockfd, items)
    BY <1>7 DEF RelayPart
  <2> QED BY <1>1, <2>1, SendEnds
<1>8. ASSUME WriteFails(w), IsV1 PROVE FALSE
  <2>1. Behind(WritesTo(w)) \notin {e \in Endpoints : IsUp(e)}
    BY <1>8 DEF WriteFails
  <2>2. frame[w].pc \in {"serve", "forward", "relay"}
    BY <1>8 DEF WriteFails, IsWriting
  <2>3. CASE frame[w].pc = "forward"
    <3>1. frame[w].iServerfd # NoFd
      BY <1>8, <2>3 DEF Linked, FetchingPcs
    <3> QED BY <1>1, <1>2, <2>1, <2>3, <3>1 DEF WritesTo
  <2>4. CASE frame[w].pc # "forward"
    BY <1>1, <1>2, <2>1, <2>2, <2>4 DEF WritesTo
  <2> QED BY <2>3, <2>4
<1>9. ASSUME RelayErrorExits(w), IsV1 PROVE FALSE
  <2>1. /\ frame[w].pc = "relay" /\ frame[w].iServerfd # NoFd
        /\ Behind(frame[w].iServerfd) \notin {e \in Endpoints : peer[e] # "reset"}
    BY <1>9 DEF RelayErrorExits, IsBroken, Linked, FetchingPcs
  <2>2. Behind(frame[w].iServerfd) = w
    BY <2>1 DEF HasLost
  <2>3. peer[w] = "reset"
    BY <1>2, <2>1, <2>2
  <2> QED BY <1>9, <2>1, <2>3
<1>10. ASSUME ConnectFailsExits(w), IsV1 PROVE FALSE
  BY <1>10 DEF ConnectFailsExits
<1> QED
  BY <1>3, <1>4, <1>5, <1>6, <1>7, <1>8, <1>9, <1>10
  DEF EitherHandlerStep, HandlerStep, V1Request, V1Transfer, Write, FindInCache,
      ConnectToOrigin, ConnectFails, RelayEnd, RelayError, AddToCache, CloseServer,
      CloseClient, CopyRunsOff

\* A step that ends the process writes nothing, and is one of a call that goes on where
\* it is or that its handler goes on from.
LEMMA ExitsWhereItIs ==
  ASSUME HandlerTypes, NEW w \in Workers, EitherHandlerStep(w), exited' # exited
  PROVE  /\ outbox' = outbox
         /\ frame[w].pc = "forward" => frame'[w].pc \in {"forward", "relay"}
         /\ frame[w].pc = "relay" => frame'[w].pc = "relay"
<1>1. /\ frame \in [Workers -> Frames]
      /\ frame[w] = [field \in DOMAIN frame[w] |-> frame[w][field]]
      /\ DOMAIN frame[w] = {"pc", "newsockfd", "req", "cached_response", "iServerfd",
                            "response"}
  BY DEF HandlerTypes, HandlerTypeOK, Frames
<1> USE <1>1 DEF Goto
<1>2. CASE RecvRequest(w)
  BY <1>2 DEF RecvRequest
<1>3. CASE RecvEnd(w) \/ RecvError(w) \/ WriteFails(w) \/ ConnectFailsExits(w)
           \/ RelayErrorExits(w)
  BY <1>3 DEF RecvEnd, RecvError, WriteFails, ConnectFailsExits, RelayErrorExits,
              socketVars
<1>4. CASE ServeCached(w)
  BY <1>4 DEF ServeCached, Send
<1>5. CASE ForwardRequest(w)
  BY <1>5 DEF ForwardRequest, Send
<1>6. CASE RelayPart(w)
  BY <1>6 DEF RelayPart, Send
<1> QED
  BY <1>2, <1>3, <1>4, <1>5, <1>6
  DEF EitherHandlerStep, HandlerStep, V1Request, V1Transfer, Write, FindInCache,
      ConnectToOrigin, ConnectFails, RelayEnd, RelayError, AddToCache, CloseServer,
      CloseClient, CopyRunsOff

\* What a worker has lost stays lost as long as nobody opens or closes anything, and an
\* origin that has left stays away.
LEMMA CauseStays ==
  ASSUME Cause, NEW w \in Workers, Talks(w), outbox' = outbox,
         frame[w].pc = "forward" => frame'[w].pc \in {"forward", "relay"},
         frame[w].pc = "relay" => frame'[w].pc = "relay",
         \A v \in Workers \ {w} : frame'[v] = frame[v]
  PROVE  Cause'
<1>1. /\ UNCHANGED <<env, fdTable, peer>>
      /\ frame[w].pc \in ServingPcs /\ frame'[w].pc \in ServingPcs
      /\ frame[w].pc \in FetchingPcs => frame'[w].pc \in FetchingPcs
      /\ frame'[w].newsockfd = frame[w].newsockfd
      /\ frame'[w].iServerfd = frame[w].iServerfd
  BY DEF Talks
<1>2. ASSUME NEW v \in Workers, HasLost(v) PROVE HasLost(v)'
  BY <1>1, <1>2 DEF HasLost, Behind, ServingPcs, FetchingPcs
<1>3. ASSUME NEW v \in Workers, OriginLeft(v) PROVE OriginLeft(v)'
  BY <1>1, <1>3 DEF OriginLeft, Behind
<1>4. ASSUME NEW v \in Workers, frame[v].pc = "relay" PROVE frame'[v].pc = "relay"
  BY <1>4
<1> QED BY <1>1, <1>2, <1>3, <1>4 DEF Cause, IsV1, CannotConnect, FreeFds

\* What ends the process while the clients behave has its cause.
Ended == exited # "no" /\ ClientsBehave => Cause

LEMMA EndedStep ==
  /\ LoopTypes /\ Linked /\ (ClientsBehave => Behave) /\ Ended
  /\ [StartupNext]_startupVars
  => Ended'
<1> SUFFICES ASSUME LoopTypes, Linked, ClientsBehave => Behave, Ended,
                    [StartupNext]_startupVars, exited' # "no", ClientsBehave'
             PROVE  Cause'
  BY DEF Ended
<1>1. HandlerTypes /\ ClientsBehave
  BY EnvStays DEF LoopTypes, ClientsBehave
<1>2. CASE MakeServer \/ MakeFails \/ UNCHANGED startupVars
  <2>1. UNCHANGED <<env, fdTable, peer, outbox, frame, exited>>
    BY <1>2 DEF MakeServer, MakeFails, startupVars, vars, handlerVars, socketVars
  <2>2. Cause
    BY <1>1, <2>1 DEF Ended
  <2> QED
    BY <2>1, <2>2 DEF Cause, HasLost, OriginLeft, Behind, IsV1, CannotConnect, FreeFds
<1>3. CASE Serve(EitherNext)
  <2>1. exited' # exited
    BY <1>3 DEF Serve, EitherNext, ProcessRuns
  <2>2. PICK w \in Workers : EitherWorkerStep(w)
    BY <1>3, <2>1
    DEF Serve, EitherNext, MainStep, Listen, ListenFails, Spawn, JoinWorkers, Sigint,
        Outside, OutsideStep, handlerVars
  <2>3. EitherHandlerStep(w)
    BY <2>1, <2>2, WorkerSteps DEF Accept, Return, CloseAgain, handlerVars
  <2>4. Cause
    BY <1>1, <2>1, <2>3, ExitHasCause
  <2>5. Talks(w)
    BY <1>1, <2>1, <2>3, HandlerTalks DEF ConnectToOrigin, CloseServer, CloseClient
  <2> QED BY <1>1, <2>1, <2>3, <2>4, <2>5, HandlersStay, ExitsWhereItIs, CauseStays
<1> QED BY <1>2, <1>3 DEF StartupNext

-----------------------------------------------------------------------------

\* The labels at which a worker copies a response.
CopyingPcs == {"serve", "relay"}

\* The cache is empty until main makes it; as long as no url has to be evicted it has
\* room, and only a copy in the first version crashes.
Cached ==
  /\ Filed
  /\ server = NotMade =>
       /\ HasRoom /\ ~crashed
       /\ \A w \in Workers : frame[w].pc # "serve"
  /\ RoomForAll => /\ HasRoom /\ ServesWhatIsThere
                   /\ crashed => IsV1 /\ \E w \in Workers : frame[w].pc \in CopyingPcs

\* What a call in the first version does that ends the process.
EndsInCall(w) ==
  /\ UNCHANGED <<capacity, cache_list, cache_map, heap, frame>>
  /\ UNCHANGED crashed \/ frame[w].pc \in CopyingPcs

LEMMA EitherHandlerSteps ==
  ASSUME NEW w \in Workers, EitherHandlerStep(w)
  PROVE  HandlerStep(w) \/ (IsV1 /\ EndsInCall(w))
<1>1. ASSUME WriteFails(w) \/ ConnectFailsExits(w) \/ RelayErrorExits(w) \/ CopyRunsOff(w)
      PROVE  EndsInCall(w)
  BY <1>1
  DEF WriteFails, ConnectFailsExits, RelayErrorExits, CopyRunsOff, cacheVars, EndsInCall,
      CopyingPcs
<1> QED
  BY <1>1 DEF EitherHandlerStep, HandlerStep, V1Request, V1Transfer, Write

LEMMA EitherUsesCache ==
  ASSUME HandlerTypes, NEW w \in Workers, EitherHandlerStep(w)
  PROVE  UsesCache(w) \/ UNCHANGED <<capacity, cache_list, cache_map, heap>>
BY EitherHandlerSteps, HandlerUsesCache DEF LeavesCache, EndsInCall

\* While the process runs, a handler of either program keeps what is served where it is.
LEMMA EitherKeepsServed ==
  ASSUME HandlerTypes, Filed, RoomForAll, HasRoom, ServesWhatIsThere, ~crashed,
         NEW w \in Workers, EitherHandlerStep(w)
  PROVE  /\ HasRoom' /\ ServesWhatIsThere'
         /\ crashed' => IsV1 /\ frame'[w].pc \in CopyingPcs
<1>1. CASE HandlerStep(w)
  BY <1>1, HandlersStay, HandlerKeepsServed
<1>2. CASE IsV1 /\ EndsInCall(w)
  BY <1>2 DEF EndsInCall, HasRoom, ServesWhatIsThere
<1> QED BY <1>1, <1>2, EitherHandlerSteps

\* What neither uses the cache nor starts to serve from it.
LEMMA RestKeepsCached ==
  ASSUME Cached, UNCHANGED <<env, cache_list, cache_map, heap, crashed>>,
         server = NotMade \/ UNCHANGED capacity, server' = NotMade => server = NotMade,
         \A w \in Workers :
           \/ frame'[w] = frame[w]
           \/ frame[w].pc \notin CopyingPcs /\ frame'[w].pc \notin CopyingPcs
  PROVE  Cached'
<1>1. Filed' /\ (HasRoom => HasRoom')
  BY DEF Cached, Filed, HasRoom
<1>2. CASE server = NotMade
  <2>1. /\ HasRoom /\ ~crashed'
        /\ \A w \in Workers : frame'[w].pc # "serve"
    BY <1>2 DEF Cached, CopyingPcs
  <2> QED BY <1>1, <2>1 DEF Cached, ServesWhatIsThere
<1>3. CASE server # NotMade
  <2>1. UNCHANGED capacity
    BY <1>3
  <2>2. RoomForAll' = RoomForAll
    BY <2>1 DEF RoomForAll
  <2>3. ServesWhatIsThere => ServesWhatIsThere'
    BY DEF ServesWhatIsThere, CopyingPcs
  <2>4. \A w \in Workers : frame[w].pc \in CopyingPcs => frame'[w].pc \in CopyingPcs
    OBVIOUS
  <2>5. ASSUME RoomForAll
        PROVE  /\ HasRoom' /\ ServesWhatIsThere'
               /\ crashed' => IsV1' /\ \E w \in Workers : frame'[w].pc \in CopyingPcs
    BY <1>1, <2>3, <2>4, <2>5 DEF Cached, IsV1
  <2> QED BY <1>1, <1>3, <2>2, <2>5 DEF Cached
<1> QED BY <1>2, <1>3

LEMMA CachedStep ==
  LoopTypes /\ AtRest /\ Cached /\ [StartupNext]_startupVars => Cached'
<1> SUFFICES ASSUME LoopTypes, AtRest, Cached, [StartupNext]_startupVars
             PROVE  Cached'
  OBVIOUS
<1>1. /\ HandlerTypes /\ Cache!TypeOK /\ frame \in [Workers -> Frames]
  BY DEF LoopTypes, HandlerTypes, HandlerTypeOK
<1>2. CASE MakeServer
  BY <1>2, RestKeepsCached DEF MakeServer, socketVars
<1>3. CASE Serve(EitherNext)
  <2>1. server # NotMade /\ server' = server /\ ~crashed
    BY <1>3 DEF Serve, EitherNext, ProcessRuns
  <2>2. ASSUME NEW w \in Workers, EitherHandlerStep(w) PROVE Cached'
    <3>1. UsesCache(w) \/ UNCHANGED <<capacity, cache_list, cache_map, heap>>
      BY <1>1, <2>2, EitherUsesCache
    <3>2. Filed'
      BY <1>1, <3>1, CacheKeepsTypes DEF UsesCache, Cached, Filed
    <3>3. RoomForAll' = RoomForAll /\ env' = env
      BY <3>1, EnvStays DEF UsesCache, RoomForAll
    <3>4. ASSUME RoomForAll
          PROVE  /\ HasRoom' /\ ServesWhatIsThere'
                 /\ crashed' => IsV1 /\ frame'[w].pc \in CopyingPcs
      BY <1>1, <2>1, <2>2, <3>4, EitherKeepsServed DEF Cached
    <3> QED BY <2>1, <3>2, <3>3, <3>4 DEF Cached, IsV1
  <2>3. ASSUME NEW w \in Workers, Accept(w) \/ Return(w) PROVE Cached'
    <3>1. /\ UNCHANGED <<capacity, cache_list, cache_map, heap, crashed>>
          /\ frame[w].pc \notin CopyingPcs /\ frame'[w].pc \notin CopyingPcs
          /\ \A v \in Workers \ {w} : frame'[v] = frame[v]
      <4>1. CASE Accept(w)
        BY <1>1, <4>1 DEF Accept, Call, IdleFrame, AtRest, cacheVars, CopyingPcs
      <4>2. CASE Return(w)
        BY <1>1, <4>2 DEF Return, IdleFrame, cacheVars, CopyingPcs
      <4> QED BY <2>3, <4>1, <4>2
    <3>2. \A v \in Workers :
            \/ frame'[v] = frame[v]
            \/ frame[v].pc \notin CopyingPcs /\ frame'[v].pc \notin CopyingPcs
      BY <3>1
    <3> QED BY <2>1, <3>1, <3>2, EnvStays, RestKeepsCached
  <2>4. CASE UNCHANGED <<cacheVars, frame>>
    BY <2>1, <2>4, EnvStays, RestKeepsCached DEF cacheVars
  <2>5. ASSUME NEW w \in Workers, EitherWorkerStep(w) PROVE Cached'
    <3>1. CASE CloseAgain(w) \/ UNCHANGED handlerVars
      BY <2>4, <3>1 DEF CloseAgain, handlerVars
    <3> QED BY <2>2, <2>3, <2>5, <3>1, WorkerSteps
  <2>6. CASE MainStep \/ Sigint \/ Outside
    BY <2>4, <2>6
    DEF MainStep, Listen, ListenFails, Spawn, JoinWorkers, Sigint, Outside, OutsideStep,
        handlerVars
  <2> QED BY <1>3, <2>5, <2>6 DEF Serve, EitherNext
<1>4. CASE MakeFails \/ UNCHANGED startupVars
  <2>1. UNCHANGED <<env, cacheVars, frame, server>>
    BY <1>4 DEF MakeFails, startupVars, vars, handlerVars, socketVars
  <2> QED BY <2>1, RestKeepsCached DEF cacheVars
<1> QED BY <1>2, <1>3, <1>4 DEF StartupNext

LEMMA CachedInit == StartupInit => Cached
<1> SUFFICES ASSUME StartupInit PROVE Cached
  OBVIOUS
<1>1. /\ cache_list = <<>> /\ cache_map = [u \in {} |-> Free] /\ crashed = FALSE
      /\ \A w \in Workers : frame[w].pc = "idle"
  BY DEF StartupInit, Init, HandlerInit, Cache!Init, IdleFrame
<1>2. HasRoom
  <2>1. DOMAIN cache_map = {} /\ Len(cache_list) = 0
    BY <1>1
  <2> QED BY <2>1, FS_EmptySet DEF HasRoom
<1> QED BY <1>1, <1>2 DEF Cached, Filed, ServesWhatIsThere

\* EndsForAReason: main returns at rest; while the clients behave the process ends only
\* after a worker has lost a descriptor, over an origin that has left before it had its
\* request, or, in the first version, over one that cannot be reached or breaks; and as
\* long as the cache has room for every url only a copy in the first version crashes
\* (SemaphoreServer.cpp:70, ProxyUtils.cpp:119, v1/proxy3.cpp:196-291, 483).
THEOREM EndsForAReasonHolds == StartupSpec => []EndsForAReason
<1>1. /\ StartupInit => AsMade
      /\ StartupInit => (ClientsBehave => Behave)
      /\ StartupInit => Ended
  <2>1. ASSUME StartupInit PROVE AsMade /\ Behave /\ Ended
    <3>1. \A e \in Endpoints : peer[e] = "absent" /\ inbox[e] = <<>>
      BY <2>1 DEF StartupInit, Init, HandlerInit, SocketsInit
    <3>2. Behave
      BY <3>1 DEF Behave, Endpoints
    <3> QED BY <2>1, <3>2 DEF StartupInit, Init, HandlerInit, AsMade, Ended
  <2> QED BY <2>1
<1>2. LoopTypes /\ (ClientsBehave => Behave) /\ [StartupNext]_startupVars
      => (ClientsBehave => Behave)'
  BY EnvStays, BehaveStep DEF ClientsBehave
<1>3. Ended /\ Cached /\ EndsAtRest => EndsForAReason
  BY DEF Ended, Cached, CopyingPcs, Cause, EndsForAReason
<1> QED
  BY <1>1, <1>2, <1>3, EndsAtRestHolds, PermitsInit, PermitsStep, AtRestInit, AtRestStep,
     AsMadeStep, LoopTypesInit, LoopTypesStep, LinkedInit, LinkedStep, EndedStep,
     CachedInit, CachedStep, PTL
  DEF StartupSpec

-----------------------------------------------------------------------------
(* The cache that the workers share.                                       *)

\* LRUCache, of the capacity that the command line asks for.  A crash is the end of the process, after which nobody
\* uses the cache, and not a state of it.
SharedCache == INSTANCE LRUCache
  WITH Values <- Responses, capacity <- AskedCapacity, crashed <- FALSE

\* The cache that is used is of the size that was asked for.
IsOfAskedSize == server # NotMade => capacity = AskedCapacity

LEMMA AskedSizeStays == [StartupNext]_startupVars => AskedCapacity' = AskedCapacity
BY EnvStays DEF AskedCapacity, IsV1, argv

\* main makes a cache of that capacity.
LEMMA MadeHasAskedSize ==
  ASSUME GivesEnough
  PROVE  (IF IsV1 THEN V1Made ELSE Made).capacity = AskedCapacity
<1>1. CASE IsV1
  BY <1>1 DEF V1Made, AskedCapacity
<1>2. CASE ~IsV1
  <2>1. Len(argv) \in {3, 4, 5}
    BY <1>2 DEF GivesEnough, ArgcIsRight
  <2>2. CASE Len(argv) = 5
    <3>1. argv[5].kind = "number"
      BY <1>2, <2>2 DEF GivesEnough, NumbersAreRight
    <3> QED BY <1>2, <2>2, <3>1 DEF Made, AskedCapacity
  <2>3. CASE Len(argv) \in {3, 4}
    <3>1. \A n \in {3, 4} : ~(n > 4) /\ n # 5
      OBVIOUS
    <3>2. ~(Len(argv) > 4) /\ Len(argv) # 5
      BY <2>3, <3>1, Zenon
    <3> QED BY <1>2, <3>2 DEF Made, AskedCapacity, SizeT, DefaultCacheSize
  <2> QED BY <2>1, <2>2, <2>3
<1> QED BY <1>1, <1>2

\* The worker of a step that is one of a handler, and what else leaves the cache alone.
LEMMA WhoUsesCache ==
  ASSUME [StartupNext]_startupVars
  PROVE  \/ server # NotMade /\ server' = server
            /\ \E w \in Workers : EitherHandlerStep(w)
         \/ UNCHANGED <<cache_list, cache_map, heap>>
            /\ \/ UNCHANGED <<server, capacity>>
               \/ MakeServer
<1>1. CASE MakeServer
  BY <1>1 DEF MakeServer
<1>2. CASE MakeFails \/ UNCHANGED startupVars
  BY <1>2 DEF MakeFails, startupVars, vars, handlerVars, cacheVars
<1>3. ASSUME Serve(EitherNext), NEW w \in Workers, EitherWorkerStep(w),
             ~EitherHandlerStep(w)
      PROVE  UNCHANGED <<server, capacity, cache_list, cache_map, heap>>
  BY <1>3, WorkerSteps
  DEF Serve, Accept, Return, CloseAgain, handlerVars, cacheVars
<1>4. ASSUME Serve(EitherNext), MainStep \/ Sigint \/ Outside
      PROVE  UNCHANGED <<server, capacity, cache_list, cache_map, heap>>
  BY <1>4
  DEF Serve, MainStep, Listen, ListenFails, Spawn, JoinWorkers, Sigint, Outside,
      OutsideStep, handlerVars, cacheVars
<1>5. CASE Serve(EitherNext)
  BY <1>3, <1>4, <1>5 DEF Serve, EitherNext
<1> QED BY <1>1, <1>2, <1>5 DEF StartupNext

LEMMA AskedSizeStep ==
  LoopTypes /\ AsMade /\ IsOfAskedSize /\ [StartupNext]_startupVars => IsOfAskedSize'
<1> SUFFICES ASSUME LoopTypes, AsMade, IsOfAskedSize, [StartupNext]_startupVars
             PROVE  IsOfAskedSize'
  OBVIOUS
<1>1. CASE MakeServer
  <2>1. capacity' = AskedCapacity
    BY <1>1, MadeHasAskedSize DEF MakeServer
  <2> QED BY <2>1, AskedSizeStays DEF IsOfAskedSize
<1>2. CASE UNCHANGED <<server, capacity>>
  BY <1>2, AskedSizeStays DEF IsOfAskedSize
<1>3. ASSUME NEW w \in Workers, EitherHandlerStep(w), server' = server
      PROVE  UNCHANGED <<server, capacity>>
  BY <1>3, EitherUsesCache DEF LoopTypes, UsesCache
<1> QED BY <1>1, <1>2, <1>3, WhoUsesCache

\* An operation on the cache of the program is one on the cache that was asked for.
LEMMA OperationsAreShared ==
  ASSUME capacity = AskedCapacity, UNCHANGED AskedCapacity, NEW u \in Urls,
         CacheOperation(u)
  PROVE  [SharedCache!Next]_(SharedCache!lruVars)
<1>1. CASE Cache!FindHit(u)
  <2>1. SharedCache!FindHit(u)
    BY <1>1 DEF Cache!FindHit, SharedCache!FindHit, Cache!MoveToFront,
                SharedCache!MoveToFront
  <2> QED BY <2>1 DEF SharedCache!Next, SharedCache!Find
<1>2. CASE Cache!AddPresent(u)
  <2>1. SharedCache!FindHit(u)
    BY <1>2 DEF Cache!AddPresent, SharedCache!FindHit, Cache!MoveToFront,
                SharedCache!MoveToFront
  <2> QED BY <2>1 DEF SharedCache!Next, SharedCache!Find
<1>3. CASE Cache!FindMiss(u) \/ Cache!AddCrash(u)
  BY <1>3 DEF Cache!FindMiss, Cache!AddCrash, Cache!lruVars, SharedCache!lruVars
<1>4. ASSUME NEW v \in Responses, Cache!AddNew(u, v)
      PROVE  [SharedCache!Next]_(SharedCache!lruVars)
  <2>1. SharedCache!IsFull <=> Cache!IsFull
    BY DEF Cache!IsFull, SharedCache!IsFull
  <2>2. SharedCache!Evicted = Cache!Evicted
    BY DEF Cache!Evicted, SharedCache!Evicted, Cache!Restrict, SharedCache!Restrict
  <2>3. SharedCache!AddNew(u, v)
    BY <1>4, <2>1, <2>2 DEF Cache!AddNew, SharedCache!AddNew
  <2> QED BY <2>3 DEF SharedCache!Next, SharedCache!Add
<1> QED BY <1>1, <1>2, <1>3, <1>4 DEF CacheOperation

\* The cache of a semaphore server and of v1/proxy3.cpp is an LRUCache of the size the
\* command line asks for, whatever the workers, the clients and the origins do: each
\* worker uses it by find and add only, and so it stays what those keep it
\* (SemaphoreServer.cpp:192, ProxyUtils.cpp:197, v1/proxy3.cpp:289, 363).
THEOREM SharesLRUCache == StartupSpec => SharedCache!Spec
<1>1. StartupInit => SharedCache!Init /\ IsOfAskedSize /\ AsMade
  <2> SUFFICES ASSUME StartupInit PROVE SharedCache!Init /\ IsOfAskedSize /\ AsMade
    OBVIOUS
  <2>1. env \in Environments /\ server = NotMade
    BY DEF StartupInit, Init, HandlerInit, SocketsInit
  <2>2. AskedCapacity \in Capacities
    BY <2>1, StartupAssumption
    DEF StartupAssumption, AskedCapacity, DefaultCacheSize, argv
  <2>3. /\ cache_list = <<>> /\ cache_map = [u \in {} |-> Free]
        /\ heap = [c \in Cells |-> Free]
    BY DEF StartupInit, Init, HandlerInit, Cache!Init
  <2> QED BY <2>1, <2>2, <2>3 DEF SharedCache!Init, IsOfAskedSize, AsMade
<1>2. LoopTypes /\ IsOfAskedSize /\ [StartupNext]_startupVars
      => [SharedCache!Next]_(SharedCache!lruVars)
  <2> SUFFICES ASSUME LoopTypes, IsOfAskedSize, [StartupNext]_startupVars
               PROVE  [SharedCache!Next]_(SharedCache!lruVars)
    OBVIOUS
  <2>1. UNCHANGED AskedCapacity
    BY AskedSizeStays
  <2>2. CASE UNCHANGED <<cache_list, cache_map, heap>>
    BY <2>1, <2>2 DEF SharedCache!lruVars
  <2>3. ASSUME server # NotMade, NEW w \in Workers, EitherHandlerStep(w)
        PROVE  [SharedCache!Next]_(SharedCache!lruVars)
    <3>1. CASE UsesCache(w)
      BY <2>1, <2>3, <3>1, OperationsAreShared DEF UsesCache, IsOfAskedSize
    <3>2. CASE UNCHANGED <<cache_list, cache_map, heap>>
      BY <2>2, <3>2
    <3> QED BY <2>3, <3>1, <3>2, EitherUsesCache DEF LoopTypes
  <2> QED BY <2>2, <2>3, WhoUsesCache
<1> QED
  BY <1>1, <1>2, AsMadeStep, LoopTypesInit, LoopTypesStep, AskedSizeStep, PTL
  DEF StartupSpec, SharedCache!Spec

=============================================================================
