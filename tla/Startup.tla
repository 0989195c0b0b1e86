------------------------------- MODULE Startup -------------------------------
(***************************************************************************)
(* main.cpp and ServerFactory.cpp: main reads its arguments, has the       *)
(* factory make a server with its cache, and starts it.  Here the server   *)
(* goes on when it is a SemaphoreServer.  v1/proxy3.cpp, the other program *)
(* here, is started with a port only, and makes no choice.                 *)
(*                                                                         *)
(* An argument that should be a number is one, or "word", which std::stoi  *)
(* takes for invalid, or "huge", which it takes for out of range.          *)
(***************************************************************************)
EXTENDS V1SemaphoreProxy, Integers

CONSTANTS NotMade,  \* main has no server yet
          Huge      \* what a negative number is as a size_t

DefaultNumThreads == 25
DefaultCacheSize == 100

\* The int becomes a size_t.
SizeT(n) == IF n < 0 THEN Huge ELSE n

Named(names) == [kind : {"name"}, name : names]
Arguments ==
  Named(STRING) \cup [kind : {"word", "huge"}] \cup [kind : {"number"}, value : Int]

\* Capacities has every size that a server can be made with.  The first version is
\* given numbers only.
ASSUME StartupAssumption ==
  /\ Huge \in Nat
  /\ DefaultCacheSize \in Capacities
  /\ \A e \in Environments :
       /\ e.argv \in Seq(Arguments)
       /\ Len(e.argv) = 5 /\ e.argv[5].kind = "number" =>
            SizeT(e.argv[5].value) \in Capacities
       /\ e.program = "proxy3" => \A i \in DOMAIN e.argv : e.argv[i].kind = "number"

VARIABLE server  \* what main has made

startupVars == <<vars, server>>

argv == env.argv  \* without the name of the program

\* 4 <= argc <= 6, the name of the program included.
ArgcIsRight == Len(argv) \in 3..5

\* std::stoi throws for no argument.
NumbersAreRight == \A i \in 3..Len(argv) : argv[i].kind = "number"

NamesAreRight ==
  /\ argv[1] \in Named({"Threadpool", "Semaphore"})
  /\ argv[2] \in Named({"LRUCache", "LFUCache"})

Ports == 0..65535

\* The port becomes a uint16_t.
PortOf(argument) == argument.value % 65536

\* Mutant: the size is taken from the argument before.
MadeWithWrongSize ==
  [type |-> argv[1].name, cache |-> argv[2].name, port |-> PortOf(argv[3]),
   numThreads |-> DefaultNumThreads,
   capacity |-> SizeT(IF Len(argv) > 3 THEN argv[4].value
                                       ELSE DefaultCacheSize)]

\* createHTTPServer.  numThreads, argv[4], is read and goes no further.
Made ==
  [type |-> argv[1].name, cache |-> argv[2].name, port |-> PortOf(argv[3]),
   numThreads |-> DefaultNumThreads,
   capacity |-> SizeT(IF Len(argv) > 4 THEN argv[5].value
                                       ELSE DefaultCacheSize)]

\* The main of proxy3.cpp: MAX_THREADS, and the capacity of the static cache.
V1Made ==
  [type |-> "Semaphore", cache |-> "LRUCache", port |-> PortOf(argv[1]),
   numThreads |-> 400, capacity |-> 100]

GivesEnough ==
  IF IsV1 THEN argv # <<>> ELSE ArgcIsRight /\ NumbersAreRight /\ NamesAreRight

\* A usage message, or an exception that main catches: main returns 1.
MakeFails ==
  /\ mainPc = "listen"
  /\ server = NotMade
  /\ ~GivesEnough
  /\ mainPc' = "failed"
  /\ UNCHANGED <<handlerVars, running, thread_semaphore, pc, clientSocket, server>>

MakeServer ==
  /\ mainPc = "listen"
  /\ server = NotMade
  /\ GivesEnough
  /\ server' = IF IsV1 THEN V1Made ELSE Made
  /\ capacity' = server'.capacity
  /\ UNCHANGED <<socketVars, cache_list, cache_map, heap, crashed, frame, exited,
                 running, thread_semaphore, pc, clientSocket, mainPc>>

StartupTypeOK ==
  /\ TypeOK
  /\ server \in {NotMade} \cup
       [type : {"Threadpool", "Semaphore"}, cache : {"LRUCache", "LFUCache"},
        port : Ports, numThreads : {25, 400}, capacity : Capacities]

StartupInit == Init /\ server = NotMade /\ capacity = DefaultCacheSize

\* start, when main has a SemaphoreServer.
Serve(Step) ==
  /\ server # NotMade
  /\ server.type = "Semaphore"
  /\ Step
  /\ UNCHANGED server

StartupNext == MakeServer \/ MakeFails \/ Serve(EitherNext)

\* Threads that can run do run, and origins answer or fail.  Nobody has to connect,
\* to send anything, or to press ^C.
StartupSpec ==
  /\ StartupInit /\ [][StartupNext]_startupVars
  /\ \A w \in Workers :
       /\ WF_startupVars(Serve(ProcessRuns /\ EitherWorkerStep(w)))
       /\ WF_startupVars(Serve(ProcessRuns /\ Answer(w) /\ Outside))
  /\ WF_startupVars(MakeServer \/ MakeFails \/ Serve(ProcessRuns /\ MainStep))

-----------------------------------------------------------------------------

\* The capacity that README.md:55-65 gives a command line: its fifth argument, or 100.
AskedCapacity ==
  IF ~IsV1 /\ Len(argv) = 5 /\ argv[5].kind = "number" THEN SizeT(argv[5].value)
                                                       ELSE 100

\* The cached urls, most recently used first, and their responses.
Recent == [i \in DOMAIN cache_list |-> heap[cache_list[i]].url]
Stored == [u \in DOMAIN cache_map |-> heap[cache_map[u]].data]

\* What an LRU cache of that capacity holds when u has been used.
AfterUseOf(u) ==
  LET urls == <<u>> \o SelectSeq(Recent, LAMBDA x : x # u)
  IN SubSeq(urls, 1, Min({Len(urls), AskedCapacity}))

\* Worker w finds the url of its request, or adds the response to it.
Uses(w) ==
  \/ frame[w].pc = "add"
  \/ frame[w].pc = "find" /\ Key(w) \in DOMAIN Stored

\* The workers share one LRU cache (README.md:102) of the capacity the command line
\* asks for (README.md:65): it changes when a worker finds or adds a url, and only
\* then.  That url becomes the most recent one, others go only from the far end, when
\* there are more than were asked for, and no response changes under its url
\* (main.cpp:10-46, ServerFactory.cpp:7-32, SemaphoreServer.cpp:192,
\* ProxyUtils.cpp:197, LRUCache.cpp:28-84, v1/proxy3.cpp:289, 363).
SharesOneLRUCache ==
  [][\/ /\ UNCHANGED <<Recent, Stored>>
        /\ \A w \in Workers : Uses(w) => UNCHANGED frame[w]
     \/ \E w \in Workers :
          /\ Uses(w)
          /\ Recent' = AfterUseOf(Key(w))
          /\ \A i \in DOMAIN Recent' :
               Stored'[Recent'[i]] = IF Recent'[i] \in DOMAIN Stored
                                       THEN Stored[Recent'[i]] ELSE frame[w].response
    ]_startupVars

\* A descriptor of worker w no longer leads to what w opened it for.
HasLost(w) ==
  \/ /\ frame[w].pc \notin {"idle", "return"}
     /\ Behind(frame[w].newsockfd) \notin Clients
  \/ /\ frame[w].pc \in {"forward", "relay", "add", "closeServer"}
     /\ frame[w].iServerfd # NoFd
     /\ Behind(frame[w].iServerfd) # w

\* main returns 0 only after SIGINT, when all permits are back and no worker is in
\* a handler: nobody uses the semaphore that is destroyed, or the server
\* (SemaphoreServer.cpp:117-123, v1/proxy3.cpp:435-445).
EndsAtRest ==
  mainPc = "returned" => /\ ~running
                         /\ thread_semaphore = NumThreads
                         /\ \A w \in Workers : frame[w].pc = "idle"

\* The process ends for these reasons only: main has failed to start, or returns at
\* rest; while the clients behave, a second close (SemaphoreServer.cpp:70,
\* v1/proxy3.cpp:483) has taken a descriptor from a worker, or an origin has left
\* before it had its request (ProxyUtils.cpp:119, v1/proxy3.cpp:241), and, in the
\* first version only, the connection to an origin cannot be made or breaks
\* (v1/proxy3.cpp:196-291); and as long as nothing has to be evicted only the first
\* version crashes, when it copies what it serves (line 253) or relays (line 279).
EndsForAReason ==
  /\ EndsAtRest
  /\ exited # "no" /\ ClientsBehave =>
       \/ \E w \in Workers : HasLost(w) \/ OriginLeft(w)
       \/ IsV1 /\ CannotConnect
       \/ IsV1 /\ \E w \in Workers : frame[w].pc = "relay" /\ peer[w] = "reset"
  /\ crashed /\ RoomForAll =>
       IsV1 /\ \E w \in Workers : frame[w].pc \in {"serve", "relay"}

=============================================================================
