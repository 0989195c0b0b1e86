------------------------- MODULE ClientHandlerProofs -------------------------
(***************************************************************************)
(* Proofs about one step of a handler, whichever server runs it: the       *)
(* types of what it changes, and what the cache keeps.                     *)
(***************************************************************************)
EXTENDS ClientHandler, SequenceTheorems, FiniteSetTheorems, WellFoundedInduction, TLAPS

-----------------------------------------------------------------------------
(* The cache.                                                              *)

\* Moving a node to the front leaves a list of cells.
LEMMA MovedType ==
  ASSUME NEW list \in Seq(Cells), NEW c \in Cells
  PROVE  Cache!MoveToFront(list, c) \in Seq(Cells)
<1> DEFINE p == CHOOSE i \in DOMAIN list : list[i] = c
           moved == [i \in 1..Len(list) |->
                       IF i = 1 THEN c ELSE IF i <= p THEN list[i - 1] ELSE list[i]]
<1>1. Len(list) \in Nat
  OBVIOUS
<1>2. ASSUME NEW i \in 1..Len(list) PROVE moved[i] \in Cells
  <2> HIDE DEF p
  <2>1. CASE i = 1
    BY <2>1
  <2>2. CASE i # 1
    <3>1. i - 1 \in 1..Len(list)
      BY <1>1, <2>2
    <3> QED
      BY <2>2, <3>1
  <2> QED
    BY <2>1, <2>2
<1>3. moved \in Seq(Cells)
  <2>1. DOMAIN moved = 1..Len(list) /\ moved = [i \in 1..Len(list) |-> moved[i]]
    OBVIOUS
  <2> HIDE DEF moved
  <2> QED
    BY <1>1, <1>2, <2>1
<1> QED
  BY <1>3 DEF Cache!MoveToFront

\* What an element the map leads to is filed under.
Filed ==
  \A u \in DOMAIN cache_map :
    /\ heap[cache_map[u]] # Free
    /\ heap[cache_map[u]].url = u

\* What is kept of the cache when room has been made.
Kept ==
  IF Cache!IsFull THEN Cache!Evicted
  ELSE [list |-> cache_list, map |-> cache_map, heap |-> heap]

\* Making room takes entries away and changes no element that stays mapped.
LEMMA KeptIsFiled ==
  ASSUME Cache!TypeOK, Cache!IsFull => cache_list # <<>>
  PROVE  /\ Kept.list \in Seq(Cells)
         /\ DOMAIN Kept.map \subseteq DOMAIN cache_map
         /\ Kept.heap \in [Cells -> Cache!Element \cup {Free}]
         /\ \A u \in DOMAIN Kept.map :
              /\ Kept.map[u] = cache_map[u]
              /\ Filed => Kept.heap[cache_map[u]] = heap[cache_map[u]]
<1> USE DEF Cache!TypeOK
<1>1. CASE ~Cache!IsFull
  BY <1>1 DEF Kept
<1>2. CASE Cache!IsFull
  <2> DEFINE n == Len(cache_list)
             elem == cache_list[n]
             list == SubSeq(cache_list, 1, n - 1)
             map == Cache!Restrict(cache_map, DOMAIN cache_map \ {heap[elem].url})
             mem == [heap EXCEPT ![elem] = Free]
  <2>1. Kept = [list |-> list, map |-> map, heap |-> mem]
    BY <1>2 DEF Kept, Cache!Evicted
  <2>2. n \in Nat \ {0} /\ elem \in Cells
    BY <1>2
  <2>3. list \in Seq(Cells)
    BY <2>2
  <2>4. /\ DOMAIN map = DOMAIN cache_map \ {heap[elem].url}
        /\ \A u \in DOMAIN map : map[u] = cache_map[u]
    BY DEF Cache!Restrict
  <2>5. mem \in [Cells -> Cache!Element \cup {Free}]
    OBVIOUS
  <2>6. ASSUME Filed, NEW u \in DOMAIN map PROVE mem[cache_map[u]] = heap[cache_map[u]]
    <3>1. u \in DOMAIN cache_map /\ u # heap[elem].url
      BY <2>4
    <3>2. heap[cache_map[u]].url = u /\ cache_map[u] \in Cells
      BY <2>6, <3>1 DEF Filed
    <3>3. cache_map[u] # elem
      BY <3>1, <3>2
    <3> QED
      BY <3>2, <3>3
  <2> HIDE DEF list, map, mem
  <2> QED
    BY <2>1, <2>3, <2>4, <2>5, <2>6
<1> QED
  BY <1>1, <1>2

\* add of a new url: the types, and what is filed where.
LEMMA AddNewFiles ==
  ASSUME Cache!TypeOK, NEW u \in Urls, NEW v \in Responses, Cache!AddNew(u, v)
  PROVE  /\ Cache!TypeOK'
         /\ Filed => Filed'
         /\ Filed => \A x \in DOMAIN cache_map' :
              \/ x = u /\ heap'[cache_map'[x]].data = v
              \/ /\ x \in DOMAIN cache_map
                 /\ heap'[cache_map'[x]].data = heap[cache_map[x]].data
<1>1. Cache!IsFull => cache_list # <<>>
  BY DEF Cache!AddNew
<1>2. /\ Kept.list \in Seq(Cells)
      /\ DOMAIN Kept.map \subseteq DOMAIN cache_map
      /\ Kept.heap \in [Cells -> Cache!Element \cup {Free}]
      /\ \A x \in DOMAIN Kept.map :
           /\ Kept.map[x] = cache_map[x]
           /\ Filed => Kept.heap[cache_map[x]] = heap[cache_map[x]]
  BY <1>1, KeptIsFiled
<1>3. PICK c \in Cells :
        /\ Kept.heap[c] = Free
        /\ cache_list' = <<c>> \o Kept.list
        /\ cache_map' = [x \in DOMAIN Kept.map \cup {u} |->
                           IF x = u THEN c ELSE Kept.map[x]]
        /\ heap' = [Kept.heap EXCEPT ![c] = [url |-> u, data |-> v]]
  BY DEF Cache!AddNew, Kept
<1>4. [url |-> u, data |-> v] \in Cache!Element /\ [url |-> u, data |-> v] # Free
  BY HandlerAssumption DEF HandlerAssumption, Cache!Element, Responses
<1>5. /\ DOMAIN cache_map \subseteq Urls
      /\ \A x \in DOMAIN cache_map : cache_map[x] \in Cells
      /\ UNCHANGED <<capacity, crashed>>
      /\ u \notin DOMAIN cache_map
  BY DEF Cache!TypeOK, Cache!AddNew
<1>6. Cache!TypeOK'
  <2>1. cache_list' \in Seq(Cells)
    BY <1>2, <1>3
  <2>2. /\ DOMAIN cache_map' \subseteq Urls
        /\ \A x \in DOMAIN cache_map' : cache_map'[x] \in Cells
    BY <1>2, <1>3, <1>5
  <2>3. heap' \in [Cells -> Cache!Element \cup {Free}]
    BY <1>2, <1>3, <1>4
  <2>4. capacity' \in Capacities /\ crashed' \in BOOLEAN
    BY <1>5 DEF Cache!TypeOK
  <2> QED
    BY <2>1, <2>2, <2>3, <2>4 DEF Cache!TypeOK, Cache!Element
<1>7. ASSUME Filed, NEW x \in DOMAIN cache_map'
      PROVE  \/ /\ x = u
                /\ heap'[cache_map'[x]] = [url |-> u, data |-> v]
             \/ /\ x \in DOMAIN cache_map
                /\ heap'[cache_map'[x]] = heap[cache_map[x]]
  <2>1. CASE x = u
    BY <1>2, <1>3, <2>1
  <2>2. CASE x # u
    <3>1. x \in DOMAIN Kept.map /\ cache_map'[x] = cache_map[x]
      BY <1>2, <1>3, <2>2
    <3>2. Kept.heap[cache_map[x]] = heap[cache_map[x]] /\ cache_map[x] \in Cells
      BY <1>2, <1>5, <1>7, <3>1
    <3>3. heap[cache_map[x]] # Free
      BY <1>2, <1>7, <3>1 DEF Filed
    <3>4. cache_map[x] # c
      BY <1>3, <3>2, <3>3
    <3>5. heap'[cache_map[x]] = heap[cache_map[x]]
      BY <1>2, <1>3, <3>2, <3>4
    <3> QED
      BY <1>2, <3>1, <3>5
  <2> QED
    BY <2>1, <2>2
<1>8. Filed => Filed'
  BY <1>4, <1>7 DEF Filed
<1> QED
  BY <1>6, <1>7, <1>8

\* What find and add of a url do to the cache.
CacheOperation(u) ==
  \/ Cache!FindHit(u) \/ Cache!FindMiss(u) \/ Cache!AddPresent(u)
  \/ \E v \in Responses : Cache!AddNew(u, v)
  \/ Cache!AddCrash(u)

\* Every operation of the handlers keeps the types of the cache, and every element
\* under its url.
LEMMA CacheKeepsTypes ==
  ASSUME Cache!TypeOK, NEW u \in Urls, CacheOperation(u)
  PROVE  Cache!TypeOK' /\ (Filed => Filed')
<1>1. CASE Cache!FindHit(u) \/ Cache!AddPresent(u)
  <2>1. /\ cache_list' = Cache!MoveToFront(cache_list, cache_map[u])
        /\ u \in DOMAIN cache_map
        /\ UNCHANGED <<capacity, cache_map, heap, crashed>>
    BY <1>1 DEF Cache!FindHit, Cache!AddPresent
  <2>2. cache_list' \in Seq(Cells)
    BY <2>1, MovedType DEF Cache!TypeOK
  <2> QED
    BY <2>1, <2>2 DEF Cache!TypeOK, Filed
<1>2. CASE Cache!FindMiss(u)
  BY <1>2 DEF Cache!FindMiss, Cache!lruVars, Cache!TypeOK, Filed
<1>3. CASE Cache!AddCrash(u)
  BY <1>3 DEF Cache!AddCrash, Cache!TypeOK, Filed
<1> QED
  BY <1>1, <1>2, <1>3, AddNewFiles DEF CacheOperation

\* The list is as long as the map is large, so a new url finds room.
HasRoom == Len(cache_list) = Cardinality(DOMAIN cache_map)

\* A new url finds room, so nothing that is cached goes.
LEMMA NothingIsEvicted ==
  ASSUME Cache!TypeOK, HasRoom, RoomForAll, NEW u \in Urls, CacheOperation(u)
  PROVE  /\ HasRoom' /\ UNCHANGED crashed
         /\ \A x \in DOMAIN cache_map :
              x \in DOMAIN cache_map' /\ cache_map'[x] = cache_map[x]
         /\ \A c \in Cells : heap[c] # Free => heap'[c] # Free
<1>1. /\ cache_list \in Seq(Cells) /\ DOMAIN cache_map \subseteq Urls
      /\ capacity \in Nat
  BY HandlerAssumption DEF Cache!TypeOK, HandlerAssumption
<1>2. /\ IsFiniteSet(Urls) /\ IsFiniteSet(DOMAIN cache_map)
      /\ Cardinality(Urls) \in Nat /\ Cardinality(DOMAIN cache_map) \in Nat
  BY <1>1, FS_Subset, FS_CardinalityType DEF RoomForAll
<1>3. CASE Cache!FindHit(u) \/ Cache!AddPresent(u)
  <2>1. /\ cache_list' = Cache!MoveToFront(cache_list, cache_map[u])
        /\ UNCHANGED <<cache_map, heap, crashed>>
    BY <1>3 DEF Cache!FindHit, Cache!AddPresent
  <2>2. Len(cache_list') = Len(cache_list)
    BY <1>1, <2>1 DEF Cache!MoveToFront
  <2> QED BY <2>1, <2>2 DEF HasRoom
<1>4. CASE Cache!FindMiss(u)
  BY <1>4 DEF Cache!FindMiss, Cache!lruVars, HasRoom
<1>5. ASSUME NEW v \in Responses, Cache!AddNew(u, v)
      PROVE  /\ HasRoom' /\ UNCHANGED crashed
             /\ \A x \in DOMAIN cache_map :
                  x \in DOMAIN cache_map' /\ cache_map'[x] = cache_map[x]
             /\ \A c \in Cells : heap[c] # Free => heap'[c] # Free
  <2>1. u \notin DOMAIN cache_map
    BY <1>5 DEF Cache!AddNew
  <2> DEFINE more == DOMAIN cache_map \cup {u}
  <2>2. Cardinality(more) = Cardinality(DOMAIN cache_map) + 1
    BY <1>2, <2>1, FS_AddElement
  <2>3. Cardinality(more) <= Cardinality(Urls)
    BY <1>1, <1>2, FS_Subset
  <2>4. ~Cache!IsFull
    <3> HIDE DEF more
    <3>1. Len(cache_list) < capacity
      BY <1>1, <1>2, <2>2, <2>3 DEF HasRoom, RoomForAll
    <3> QED BY <1>1, <3>1 DEF Cache!IsFull
  <2>5. PICK c \in Cells :
          /\ cache_list' = <<c>> \o cache_list
          /\ cache_map' = [x \in more |-> IF x = u THEN c ELSE cache_map[x]]
          /\ heap' = [heap EXCEPT ![c] = [url |-> u, data |-> v]]
    BY <1>5, <2>4 DEF Cache!AddNew
  <2>6. Len(cache_list') = Len(cache_list) + 1
    BY <1>1, <2>5
  <2>7. DOMAIN cache_map' = more
    BY <2>5
  <2>8. HasRoom'
    BY <2>2, <2>6, <2>7 DEF HasRoom
  <2>9. \A cell \in Cells : heap[cell] # Free => heap'[cell] # Free
    <3>1. [url |-> u, data |-> v] # Free
      BY HandlerAssumption DEF HandlerAssumption, Responses
    <3>2. heap = [cell \in Cells |-> heap[cell]]
      BY DEF Cache!TypeOK
    <3> QED BY <2>5, <3>1, <3>2
  <2>10. UNCHANGED crashed
    BY <1>5 DEF Cache!AddNew
  <2> QED BY <2>1, <2>5, <2>8, <2>9, <2>10
<1>6. ~Cache!AddCrash(u)
  <2> SUFFICES ASSUME Cache!AddCrash(u) PROVE FALSE
    OBVIOUS
  <2>1. capacity = 0
    BY <1>1 DEF Cache!AddCrash, Cache!IsFull
  <2>2. Cardinality(Urls) = 0
    BY <1>2, <2>1 DEF RoomForAll
  <2> QED BY <1>2, <2>2, FS_EmptySet
<1> QED BY <1>3, <1>4, <1>5, <1>6 DEF CacheOperation

-----------------------------------------------------------------------------
(* The types.                                                              *)

\* Where a handler has its client's descriptor, where it has its origin's, and
\* where it has not asked for that yet.
ServingPcs == HandlerPcs \ {"idle", "return"}
FetchingPcs == {"forward", "relay", "add", "closeServer"}
EarlyPcs == {"recv", "find", "serve", "connect"}
AskingPcs == {"find", "serve", "connect", "forward", "relay", "add"}

\* A handler has its request as soon as it is parsed, and an element of the cache
\* when it serves one.
HasWhatItUses(f) ==
  /\ f.pc \in AskingPcs => f.req \in Resources
  /\ f.pc = "serve" => f.cached_response \in Cells

HandlerTypes == HandlerTypeOK /\ \A w \in Workers : HasWhatItUses(frame[w])

Ends == {"no", "exit(0)", "exit(1)", "SIGPIPE"}

\* The kernel finds the lowest free number when there is a free one.
LEMMA LowestFdIsFree ==
  ASSUME FreeFds # {}, env.fds \subseteq Fds
  PROVE  /\ LowestFd \in Fds
         /\ fdTable[LowestFd] = Closed
<1>1. FreeFds \subseteq Nat
  BY SocketsAssumption DEF SocketsAssumption, FreeFds
<1> DEFINE Less == {pair \in Nat \X Nat : pair[1] < pair[2]}
<1>2. IsWellFoundedOn(Less, Nat)
  BY NatLessThanWellFounded DEF OpToRel
<1>3. PICK fd \in FreeFds : \A other \in FreeFds : <<other, fd>> \notin Less
  <2> HIDE DEF Less
  <2> QED BY <1>1, <1>2, WFMin
<1>4. \A other \in FreeFds : fd <= other
  <2> SUFFICES ASSUME NEW other \in FreeFds PROVE fd <= other
    OBVIOUS
  <2>1. <<other, fd>> \in Nat \X Nat /\ ~(other < fd)
    BY <1>1, <1>3
  <2> QED BY <1>1, <2>1
<1>5. LowestFd \in FreeFds
  BY <1>4 DEF LowestFd
<1> QED BY <1>5 DEF FreeFds

\* What is written has the type of what was to be written.
LEMMA SendTypes ==
  ASSUME outbox \in [Endpoints -> Seq(Items)], exited \in Ends,
         NEW fd, NEW items \in Seq(Items), Send(fd, items)
  PROVE  outbox' \in [Endpoints -> Seq(Items)] /\ exited' \in Ends
<1> DEFINE e == Behind(fd)
<1>1. \/ outbox' = [outbox EXCEPT ![e] = outbox[e] \o items] /\ exited' = exited
      \/ outbox' = outbox /\ exited' \in {exited, "SIGPIPE"}
  BY DEF Send
<1>2. e \in Endpoints => outbox[e] \o items \in Seq(Items)
  BY ConcatProperties
<1> HIDE DEF e
<1> QED BY <1>1, <1>2 DEF Ends

\* The resource of a request is one, and a response is made of items.
LEMMA ItemTypes ==
  /\ \A item \in Items : item.type = "request" => item.of \in Resources
  /\ \A r \in Resources : Request(r) \in Items
  /\ \A r \in Resources, n \in 1..ResponseParts : Part(r, n) \in Items
  /\ Garbage \in Items
<1>1. ASSUME NEW item \in Items, item.type = "request" PROVE item.of \in Resources
  <2>1. item \in {Request(r) : r \in Resources}
    BY <1>1 DEF Items, Request, Part, Garbage
  <2> QED BY <2>1 DEF Request
<1>2. \A r \in Resources : Request(r) \in Items
  BY DEF Items
<1>3. ASSUME NEW r \in Resources, NEW n \in 1..ResponseParts PROVE Part(r, n) \in Items
  <2>1. Part(r, n) \in {Part(s, m) : s \in Resources, m \in 1..ResponseParts}
    OBVIOUS
  <2> QED BY <2>1 DEF Items
<1>4. Garbage \in Items
  BY DEF Items
<1> QED BY <1>1, <1>2, <1>3, <1>4

\* Worker w's frame is what it is changed to.
LEMMA FrameTypes ==
  ASSUME HandlerTypes, NEW w \in Workers, NEW f \in Frames, HasWhatItUses(f),
         frame' = [frame EXCEPT ![w] = f]
  PROVE  /\ frame' \in [Workers -> Frames]
         /\ \A v \in Workers : HasWhatItUses(frame'[v])
<1>1. frame \in [Workers -> Frames]
  BY DEF HandlerTypes, HandlerTypeOK
<1> QED
  BY <1>1 DEF HandlerTypes

\* A step that only moves worker w to another label.
LEMMA GotoTypes ==
  ASSUME HandlerTypes, NEW w \in Workers, NEW label \in HandlerPcs, Goto(w, label),
         label \in AskingPcs => frame[w].pc \in AskingPcs, label # "serve"
  PROVE  /\ frame' \in [Workers -> Frames]
         /\ \A v \in Workers : HasWhatItUses(frame'[v])
<1> DEFINE f == [frame[w] EXCEPT !.pc = label]
<1>1. frame[w] \in Frames /\ frame \in [Workers -> Frames]
  BY DEF HandlerTypes, HandlerTypeOK
<1>2. f \in Frames /\ f.pc = label /\ f.req = frame[w].req
  BY <1>1 DEF Frames
<1>3. HasWhatItUses(f)
  BY <1>2 DEF HandlerTypes, HasWhatItUses
<1>4. frame' = [frame EXCEPT ![w] = f]
  BY <1>1 DEF Goto
<1> QED BY <1>2, <1>3, <1>4, FrameTypes

\* Every step of a handler, of either generation of servers, keeps the types.
LEMMA HandlerKeepsTypes ==
  ASSUME HandlerTypes, NEW w \in Workers,
         HandlerStep(w) \/ ConnectFailsExits(w) \/ RelayErrorExits(w)
  PROVE  HandlerTypes'
<1>1. /\ env \in Environments
      /\ backlog \in Seq(Clients)
      /\ fdTable \in [Fds -> Endpoints \cup {Closed}]
      /\ peer \in [Endpoints -> PeerStates]
      /\ inbox \in [Endpoints -> Seq(Items)]
      /\ outbox \in [Endpoints -> Seq(Items)]
      /\ Cache!TypeOK
      /\ frame \in [Workers -> Frames]
      /\ exited \in Ends
      /\ \A v \in Workers : HasWhatItUses(frame[v])
  BY DEF HandlerTypes, HandlerTypeOK, SocketsTypeOK, Ends
<1>2. env.fds \subseteq Fds /\ w \in Endpoints /\ frame[w] \in Frames
      /\ HasWhatItUses(frame[w])
  BY <1>1, SocketsAssumption DEF SocketsAssumption, Endpoints
<1>3. ASSUME env' = env, backlog' = backlog,
             fdTable' \in [Fds -> Endpoints \cup {Closed}],
             peer' \in [Endpoints -> PeerStates],
             inbox' \in [Endpoints -> Seq(Items)],
             outbox' \in [Endpoints -> Seq(Items)],
             Cache!TypeOK',
             frame' \in [Workers -> Frames],
             exited' \in Ends,
             \A v \in Workers : HasWhatItUses(frame'[v])
      PROVE  HandlerTypes'
  BY <1>1, <1>3 DEF HandlerTypes, HandlerTypeOK, SocketsTypeOK, Ends, HasWhatItUses
<1>4. UNCHANGED cacheVars => Cache!TypeOK'
  BY <1>1 DEF cacheVars, Cache!TypeOK, Cache!Element
<1>5. frame' = frame => /\ frame' \in [Workers -> Frames]
                        /\ \A v \in Workers : HasWhatItUses(frame'[v])
  BY <1>1
<1>6. \A label \in HandlerPcs :
        /\ Goto(w, label)
        /\ label \in AskingPcs => frame[w].pc \in AskingPcs
        /\ label # "serve"
        => /\ frame' \in [Workers -> Frames]
           /\ \A v \in Workers : HasWhatItUses(frame'[v])
  BY GotoTypes
<1>7. \A fd : CloseFd(fd) \in [Fds -> Endpoints \cup {Closed}]
  BY <1>1 DEF CloseFd
<1>8. CASE RecvRequest(w)
  <2> DEFINE e == Behind(frame[w].newsockfd)
             item == Head(inbox[e])
  <2>1. e \in Endpoints /\ inbox[e] # <<>> /\ inbox[e] \in Seq(Items)
    BY <1>1, <1>8 DEF RecvRequest, HasData
  <2>2. item \in Items /\ Tail(inbox[e]) \in Seq(Items)
    BY <2>1, HeadTailProperties
  <2>3. inbox' \in [Endpoints -> Seq(Items)]
    BY <1>1, <1>8, <2>1, <2>2 DEF RecvRequest
  <2>4. /\ UNCHANGED <<env, backlog, fdTable, peer, outbox, cacheVars>>
        /\ \/ /\ item.type = "request"
              /\ frame' = [frame EXCEPT ![w].pc = "find", ![w].req = item.of]
              /\ exited' = exited
           \/ frame' = frame /\ exited' = "exit(0)"
    BY <1>8 DEF RecvRequest
  <2>5. CASE item.type = "request"
             /\ frame' = [frame EXCEPT ![w].pc = "find", ![w].req = item.of]
    <3>1. item.of \in Resources
      BY <2>2, <2>5, ItemTypes
    <3> HIDE DEF item
    <3> DEFINE f == [frame[w] EXCEPT !.pc = "find", !.req = item.of]
    <3>2. f \in Frames /\ f.pc = "find" /\ f.req \in Resources
      BY <1>2, <3>1 DEF Frames, HandlerPcs
    <3>3. frame' = [frame EXCEPT ![w] = f]
      BY <1>1, <2>5
    <3> HIDE DEF f
    <3>4. HasWhatItUses(f)
      BY <3>2 DEF HasWhatItUses
    <3>5. /\ frame' \in [Workers -> Frames]
          /\ \A v \in Workers : HasWhatItUses(frame'[v])
      BY <3>2, <3>3, <3>4, FrameTypes
    <3>6. exited' \in Ends
      BY <1>1, <2>4 DEF Ends
    <3> QED BY <1>1, <1>3, <1>4, <2>3, <2>4, <3>5, <3>6
  <2> HIDE DEF item
  <2> QED
    BY <1>1, <1>3, <1>4, <1>5, <2>3, <2>4, <2>5 DEF Ends
<1>9. CASE RecvEnd(w) \/ RecvError(w) \/ ConnectFailsExits(w) \/ RelayErrorExits(w)
  BY <1>1, <1>3, <1>4, <1>5, <1>9
  DEF RecvEnd, RecvError, ConnectFailsExits, RelayErrorExits, socketVars, Ends
<1>10. CASE FindInCache(w)
  <2>1. frame[w].pc = "find" /\ Key(w) \in Urls
    BY <1>2, <1>10, HandlerAssumption
    DEF FindInCache, HasWhatItUses, AskingPcs, HandlerAssumption, Key
  <2>2. Cache!TypeOK' /\ UNCHANGED <<socketVars, exited>>
    BY <1>1, <1>10, <2>1, CacheKeepsTypes DEF FindInCache, CacheOperation
  <2>3. CASE Cache!FindMiss(Key(w)) /\ Goto(w, "connect")
    BY <1>1, <1>3, <1>6, <2>1, <2>2, <2>3 DEF socketVars, HandlerPcs, AskingPcs
  <2>4. CASE Cache!FindHit(Key(w))
             /\ frame' = [frame EXCEPT ![w].pc = "serve",
                                       ![w].cached_response = cache_map[Key(w)]]
    <3>1. cache_map[Key(w)] \in Cells
      BY <1>1, <2>4 DEF Cache!FindHit, Cache!TypeOK
    <3>2. frame[w].req \in Resources
      BY <1>2, <2>1 DEF HasWhatItUses, AskingPcs
    <3> DEFINE f == [frame[w] EXCEPT !.pc = "serve",
                                     !.cached_response = cache_map[Key(w)]]
    <3>3. /\ f \in Frames
          /\ f.req \in Resources /\ f.cached_response \in Cells
      BY <1>2, <3>1, <3>2 DEF Frames, HandlerPcs
    <3>4. frame' = [frame EXCEPT ![w] = f]
      BY <1>1, <2>4
    <3> HIDE DEF f
    <3>5. HasWhatItUses(f)
      BY <3>3 DEF HasWhatItUses
    <3> QED BY <3>3, <3>4, <3>5, FrameTypes, <1>1, <1>3, <2>2 DEF socketVars
  <2> QED BY <1>10, <2>3, <2>4 DEF FindInCache
<1>11. CASE ServeCached(w)
  <2> DEFINE element == heap[frame[w].cached_response]
  <2>1. frame[w].pc = "serve" /\ frame[w].cached_response \in Cells
    BY <1>2, <1>11 DEF ServeCached, HasWhatItUses
  <2>2. element = Free \/ element.data \in Seq(Items)
    BY <1>1, <2>1 DEF Cache!TypeOK, Cache!Element, Responses
  <2>3. Garbage \in Items
    BY ItemTypes
  <2>4. /\ UNCHANGED <<env, backlog, fdTable, peer, inbox, capacity, cache_list,
                        cache_map, heap>>
        /\ crashed' \in {crashed, TRUE}
        /\ Goto(w, "closeClient")
    BY <1>11 DEF ServeCached
  <2>5. \/ UNCHANGED <<outbox, exited>>
        \/ \E items \in Seq(Items) : Send(frame[w].newsockfd, items)
    <3>1. <<Garbage>> \in Seq(Items)
      BY <2>3
    <3> HIDE DEF element
    <3> QED BY <1>11, <2>2, <3>1 DEF ServeCached, element
  <2>6. outbox' \in [Endpoints -> Seq(Items)] /\ exited' \in Ends
    BY <1>1, <2>5, SendTypes
  <2>7. Cache!TypeOK'
    BY <1>1, <2>4 DEF Cache!TypeOK, Cache!Element
  <2> QED BY <1>1, <1>3, <1>6, <2>4, <2>6, <2>7 DEF HandlerPcs, AskingPcs
<1>12. CASE ConnectToOrigin(w)
  <2>1. LowestFd \in Fds
    BY <1>2, <1>12, LowestFdIsFree DEF ConnectToOrigin
  <2>2. /\ frame[w].pc = "connect"
        /\ fdTable' = [fdTable EXCEPT ![LowestFd] = w]
        /\ peer' = [peer EXCEPT ![w] = "connected"]
        /\ inbox' = [inbox EXCEPT ![w] = <<>>]
        /\ outbox' = [outbox EXCEPT ![w] = <<>>]
        /\ frame' = [frame EXCEPT ![w].pc = "forward", ![w].iServerfd = LowestFd]
        /\ UNCHANGED <<env, backlog, cacheVars, exited>>
    BY <1>12 DEF ConnectToOrigin
  <2> DEFINE f == [frame[w] EXCEPT !.pc = "forward", !.iServerfd = LowestFd]
  <2>3. frame[w].req \in Resources
    BY <1>2, <2>2 DEF HasWhatItUses, AskingPcs
  <2>4. f \in Frames /\ f.pc = "forward" /\ f.req = frame[w].req
    BY <1>2, <2>1 DEF Frames, HandlerPcs
  <2>5. frame' = [frame EXCEPT ![w] = f]
    BY <1>1, <2>2
  <2> HIDE DEF f
  <2>6. HasWhatItUses(f)
    BY <2>3, <2>4 DEF HasWhatItUses
  <2>7. /\ frame' \in [Workers -> Frames]
        /\ \A v \in Workers : HasWhatItUses(frame'[v])
    BY <2>4, <2>5, <2>6, FrameTypes
  <2>8. /\ fdTable' \in [Fds -> Endpoints \cup {Closed}]
        /\ peer' \in [Endpoints -> PeerStates]
        /\ inbox' \in [Endpoints -> Seq(Items)]
        /\ outbox' \in [Endpoints -> Seq(Items)]
    <3>1. fdTable' \in [Fds -> Endpoints \cup {Closed}]
      BY <1>1, <1>2, <2>2
    <3>2. peer' \in [Endpoints -> PeerStates]
      BY <1>1, <1>2, <2>2 DEF PeerStates
    <3>3. <<>> \in Seq(Items)
      OBVIOUS
    <3> QED BY <1>1, <1>2, <2>2, <3>1, <3>2, <3>3
  <2> QED BY <1>1, <1>3, <1>4, <2>2, <2>7, <2>8
<1>13. CASE ConnectFails(w) \/ RelayEnd(w) \/ RelayError(w)
  <2>1. /\ UNCHANGED <<socketVars, cacheVars, exited>>
        /\ frame[w].pc \in AskingPcs
        /\ Goto(w, "forward") \/ Goto(w, "add") \/ Goto(w, "closeServer")
    BY <1>13 DEF ConnectFails, RelayEnd, RelayError, AskingPcs
  <2>2. /\ frame' \in [Workers -> Frames]
        /\ \A v \in Workers : HasWhatItUses(frame'[v])
    BY <1>6, <2>1 DEF HandlerPcs
  <2> QED BY <1>1, <1>3, <1>4, <2>1, <2>2 DEF socketVars
<1>14. CASE ForwardRequest(w)
  <2>1. frame[w].pc = "forward" /\ frame[w].req \in Resources
    BY <1>2, <1>14 DEF ForwardRequest, HasWhatItUses, AskingPcs
  <2>2. <<Request(frame[w].req)>> \in Seq(Items)
    BY <2>1, ItemTypes
  <2>3. outbox' \in [Endpoints -> Seq(Items)] /\ exited' \in Ends
    BY <1>1, <1>14, <2>2, SendTypes DEF ForwardRequest
  <2>4. /\ UNCHANGED <<env, backlog, fdTable, peer, inbox, cacheVars>>
        /\ Goto(w, "relay")
    BY <1>14 DEF ForwardRequest
  <2> QED BY <1>1, <1>3, <1>4, <1>6, <2>1, <2>3, <2>4 DEF HandlerPcs, AskingPcs
<1>15. CASE RelayPart(w)
  <2> DEFINE e == Behind(frame[w].iServerfd)
             item == Head(inbox[e])
             f == [frame[w] EXCEPT !.response = Append(frame[w].response, item)]
  <2>1. e \in Endpoints /\ inbox[e] # <<>> /\ inbox[e] \in Seq(Items)
    BY <1>1, <1>15 DEF RelayPart, HasData
  <2>2. item \in Items /\ Tail(inbox[e]) \in Seq(Items)
    BY <2>1, HeadTailProperties
  <2>3. inbox' \in [Endpoints -> Seq(Items)]
    BY <1>1, <1>15, <2>1, <2>2 DEF RelayPart
  <2>4. /\ frame' = [frame EXCEPT ![w] = f]
        /\ Send(frame[w].newsockfd, <<item>>)
        /\ UNCHANGED <<env, backlog, fdTable, peer, cacheVars>>
    BY <1>1, <1>15 DEF RelayPart
  <2> HIDE DEF item
  <2>5. Append(frame[w].response, item) \in Seq(Items) /\ <<item>> \in Seq(Items)
    BY <1>2, <2>2, AppendProperties DEF Frames, Responses
  <2>6. /\ f \in Frames /\ f.pc = frame[w].pc /\ f.req = frame[w].req
        /\ f.cached_response = frame[w].cached_response
    BY <1>2, <2>5 DEF Frames, Responses
  <2> HIDE DEF f
  <2>7. HasWhatItUses(f)
    BY <1>2, <2>6 DEF HasWhatItUses
  <2>8. /\ frame' \in [Workers -> Frames]
        /\ \A v \in Workers : HasWhatItUses(frame'[v])
    BY <2>4, <2>6, <2>7, FrameTypes
  <2>9. outbox' \in [Endpoints -> Seq(Items)] /\ exited' \in Ends
    BY <1>1, <2>4, <2>5, SendTypes
  <2> QED BY <1>1, <1>3, <1>4, <2>3, <2>4, <2>8, <2>9
<1>16. CASE AddToCache(w)
  <2>1. frame[w].pc = "add" /\ Key(w) \in Urls /\ frame[w].response \in Responses
    BY <1>2, <1>16, HandlerAssumption
    DEF AddToCache, HasWhatItUses, AskingPcs, HandlerAssumption, Key, Frames
  <2>2. Cache!TypeOK' /\ UNCHANGED <<socketVars, exited>> /\ Goto(w, "closeServer")
    BY <1>1, <1>16, <2>1, CacheKeepsTypes DEF AddToCache, Cache!Add, CacheOperation
  <2> QED BY <1>1, <1>3, <1>6, <2>2 DEF socketVars, HandlerPcs, AskingPcs
<1>17. CASE CloseServer(w) \/ CloseClient(w)
  <2>1. /\ UNCHANGED <<env, backlog, peer, inbox, outbox, cacheVars, exited>>
        /\ \E fd : fdTable' = CloseFd(fd)
        /\ Goto(w, "closeClient") \/ Goto(w, "return")
    BY <1>17 DEF CloseServer, CloseClient
  <2>2. /\ frame' \in [Workers -> Frames]
        /\ \A v \in Workers : HasWhatItUses(frame'[v])
    BY <1>6, <2>1 DEF HandlerPcs, AskingPcs
  <2> QED BY <1>1, <1>3, <1>4, <1>7, <2>1, <2>2
<1> QED
  BY <1>8, <1>9, <1>10, <1>11, <1>12, <1>13, <1>14, <1>15, <1>16, <1>17
  DEF HandlerStep

\* What does not touch the cache, the frames and the end of the process.
LEMMA SocketsKeepTypes ==
  ASSUME HandlerTypes, SocketsTypeOK', UNCHANGED <<cacheVars, frame, exited>>
  PROVE  HandlerTypes'
BY DEF HandlerTypes, HandlerTypeOK, cacheVars, Cache!TypeOK, Cache!Element,
       HasWhatItUses

\* What touches the frames only.
LEMMA FramesKeepTypes ==
  ASSUME HandlerTypes, UNCHANGED <<socketVars, cacheVars, exited>>,
         frame' \in [Workers -> Frames],
         \A v \in Workers : HasWhatItUses(frame'[v])
  PROVE  HandlerTypes'
BY DEF HandlerTypes, HandlerTypeOK, SocketsTypeOK, socketVars, cacheVars,
       Cache!TypeOK, Cache!Element, HasWhatItUses

\* What an origin answers is made of items.
LEMMA ReplyTypes ==
  ASSUME NEW item \in Items, NEW n \in 0..ResponseParts
  PROVE  Reply(item, n) \in Seq(Items)
<1>1. ResponseParts \in Nat
  BY SocketsAssumption DEF SocketsAssumption
<1>2. CASE item.type = "request"
  <2>1. item.of \in Resources
    BY <1>2, ItemTypes
  <2>2. \A i \in 1..n : i \in 1..ResponseParts
    BY <1>1
  <2>3. \A i \in 1..n : Part(item.of, i) \in Items
    BY <2>1, <2>2, ItemTypes
  <2>4. [i \in 1..n |-> Part(item.of, i)] \in Seq(Items)
    <3>1. n \in Nat
      BY <1>1
    <3> QED BY <2>3, <3>1
  <2> QED BY <1>2, <2>4 DEF Reply
<1>3. CASE item.type # "request"
  <2>1. <<>> \in Seq(Items)
    OBVIOUS
  <2> QED BY <1>3, <2>1 DEF Reply
<1> QED BY <1>2, <1>3

\* Every step of a client or an origin keeps the types.
LEMMA OutsideKeepsTypes ==
  ASSUME HandlerTypes, OutsideStep
  PROVE  HandlerTypes'
<1>1. UNCHANGED <<cacheVars, frame, exited, env, fdTable, outbox>>
  BY DEF OutsideStep, ClientStep, Connect, SendRequest, HangUp, Leave, Answer
<1>2. /\ env \in Environments
      /\ backlog \in Seq(Clients)
      /\ fdTable \in [Fds -> Endpoints \cup {Closed}]
      /\ peer \in [Endpoints -> PeerStates]
      /\ inbox \in [Endpoints -> Seq(Items)]
      /\ outbox \in [Endpoints -> Seq(Items)]
      /\ Clients \subseteq Endpoints /\ Workers \subseteq Endpoints
  BY DEF HandlerTypes, HandlerTypeOK, SocketsTypeOK, Endpoints
<1>3. backlog' \in Seq(Clients)
  <2>1. backlog' = backlog \/ \E c \in Clients : backlog' = Append(backlog, c)
    BY DEF OutsideStep, ClientStep, Connect, SendRequest, HangUp, Leave, Answer
  <2>2. \A c \in Clients : Append(backlog, c) \in Seq(Clients)
    BY <1>2, AppendProperties
  <2> QED BY <1>2, <2>1, <2>2
<1>4. peer' \in [Endpoints -> PeerStates]
  <2>1. \E e \in Endpoints : \E state \in PeerStates : peer' = [peer EXCEPT ![e] = state]
    BY <1>2
    DEF OutsideStep, ClientStep, Connect, SendRequest, HangUp, Leave, Answer, PeerStates
  <2> QED BY <1>2, <2>1
<1>5. inbox' \in [Endpoints -> Seq(Items)]
  <2>1. ASSUME NEW c \in Clients, ClientStep(c) PROVE inbox' \in [Endpoints -> Seq(Items)]
    <3>1. \A r \in Resources : Request(r) \in Items /\ Garbage \in Items
      BY ItemTypes
    <3>2. RequestOf[c] \in Resources
      BY SocketsAssumption DEF SocketsAssumption
    <3>3. \/ inbox' = inbox
          \/ \E item \in Items : inbox' = [inbox EXCEPT ![c] = Append(inbox[c], item)]
      BY <2>1, <3>1, <3>2 DEF ClientStep, Connect, SendRequest, HangUp
    <3>4. \A item \in Items : Append(inbox[c], item) \in Seq(Items)
      BY <1>2, AppendProperties
    <3> QED BY <1>2, <3>3, <3>4
  <2>2. ASSUME NEW w \in Workers, Answer(w) PROVE inbox' \in [Endpoints -> Seq(Items)]
    <3>1. Head(outbox[w]) \in Items
      BY <1>2, <2>2, HeadTailProperties DEF Answer
    <3>2. PICK n \in 0..ResponseParts :
            inbox' = [inbox EXCEPT ![w] = inbox[w] \o Reply(Head(outbox[w]), n)]
      BY <2>2 DEF Answer
    <3>3. inbox[w] \o Reply(Head(outbox[w]), n) \in Seq(Items)
      BY <1>2, <3>1, ReplyTypes, ConcatProperties
    <3> QED BY <1>2, <3>2, <3>3
  <2>3. ASSUME NEW w \in Workers, Leave(w) PROVE inbox' \in [Endpoints -> Seq(Items)]
    BY <1>2, <2>3 DEF Leave
  <2> QED BY <2>1, <2>2, <2>3 DEF OutsideStep
<1>6. SocketsTypeOK'
  BY <1>1, <1>2, <1>3, <1>4, <1>5 DEF SocketsTypeOK
<1> QED BY <1>1, <1>6, SocketsKeepTypes

\* A handler that is called, or has returned, has a frame.
LEMMA CallTypes ==
  ASSUME HandlerTypes, NEW w \in Workers, NEW fd \in Fds \cup {NoFd},
         Call(w, fd) \/ frame' = [frame EXCEPT ![w] = IdleFrame]
  PROVE  /\ frame' \in [Workers -> Frames]
         /\ \A v \in Workers : HasWhatItUses(frame'[v])
<1> DEFINE called == [IdleFrame EXCEPT !.pc = "recv", !.newsockfd = fd]
<1>1. <<>> \in Responses
  BY DEF Responses
<1>2. IdleFrame \in Frames /\ IdleFrame.pc = "idle"
  BY <1>1 DEF IdleFrame, Frames, HandlerPcs
<1>3. called \in Frames /\ called.pc = "recv"
  BY <1>2 DEF IdleFrame, Frames, HandlerPcs
<1>4. HasWhatItUses(IdleFrame) /\ HasWhatItUses(called)
  BY <1>2, <1>3 DEF HasWhatItUses, AskingPcs
<1>5. frame' = [frame EXCEPT ![w] = called] \/ frame' = [frame EXCEPT ![w] = IdleFrame]
  BY DEF Call
<1> HIDE DEF called
<1> QED BY <1>2, <1>3, <1>4, <1>5, FrameTypes

\* At first nothing runs, and nothing is cached.
LEMMA HandlerInitTypes == HandlerInit => HandlerTypes /\ Filed
<1> SUFFICES ASSUME HandlerInit PROVE HandlerTypes /\ Filed
  OBVIOUS
<1> USE DEF HandlerInit
<1>1. SocketsTypeOK
  <2>1. backlog \in Seq(Clients) /\ <<>> \in Seq(Items)
    BY DEF SocketsInit
  <2> QED BY <2>1 DEF SocketsInit, SocketsTypeOK, PeerStates
<1>2. Cache!TypeOK /\ Filed
  <2>1. cache_map = [u \in {} |-> Free] /\ DOMAIN cache_map = {}
    BY DEF Cache!Init
  <2>2. cache_list \in Seq(Cells) /\ capacity \in Capacities /\ crashed \in BOOLEAN
    <3>1. cache_list \in Seq(Cells)
      BY DEF Cache!Init
    <3>2. capacity \in Capacities /\ crashed \in BOOLEAN
      BY Zenon DEF Cache!Init
    <3> QED BY <3>1, <3>2
  <2>3. heap \in [Cells -> Cache!Element \cup {Free}]
    BY DEF Cache!Init
  <2> QED BY <2>1, <2>2, <2>3 DEF Cache!TypeOK, Filed
<1>3. /\ frame \in [Workers -> Frames]
      /\ \A w \in Workers : HasWhatItUses(frame[w])
  <2>1. <<>> \in Responses
    BY DEF Responses
  <2>2. IdleFrame \in Frames /\ IdleFrame.pc = "idle"
    BY <2>1 DEF IdleFrame, Frames, HandlerPcs
  <2>3. HasWhatItUses(IdleFrame)
    BY <2>2 DEF HasWhatItUses, AskingPcs
  <2> QED BY <2>2, <2>3
<1> QED BY <1>1, <1>2, <1>3 DEF HandlerTypes, HandlerTypeOK

-----------------------------------------------------------------------------
(* What is served from the cache.                                          *)

\* Whoever serves an element of the cache reads one that is there.
ServesWhatIsThere ==
  \A w \in Workers :
    frame[w].pc = "serve" => heap[frame[w].cached_response] # Free

\* A handler uses the cache by its operations, or leaves it as it is.
UsesCache(w) ==
  /\ frame[w].pc \in {"find", "add"} /\ Key(w) \in Urls
  /\ CacheOperation(Key(w)) /\ UNCHANGED capacity
  /\ \/ /\ Cache!FindHit(Key(w))
        /\ frame'[w].cached_response = cache_map[Key(w)]
     \/ frame'[w].pc # "serve"

LeavesCache(w) ==
  /\ UNCHANGED <<capacity, cache_list, cache_map, heap>>
  /\ frame'[w] = frame[w] \/ frame'[w].pc # "serve"
  /\ UNCHANGED crashed \/ ServeCached(w)

LEMMA HandlerUsesCache ==
  ASSUME HandlerTypes, NEW w \in Workers, HandlerStep(w)
  PROVE  UsesCache(w) \/ LeavesCache(w)
<1>1. /\ frame \in [Workers -> Frames]
      /\ frame[w] = [field \in DOMAIN frame[w] |-> frame[w][field]]
      /\ DOMAIN frame[w] = {"pc", "newsockfd", "req", "cached_response", "iServerfd",
                            "response"}
      /\ frame[w].response \in Responses
  BY DEF HandlerTypes, HandlerTypeOK, Frames
<1>2. frame[w].pc \in {"find", "add"} => Key(w) \in Urls
  BY HandlerAssumption
  DEF HandlerAssumption, HandlerTypes, HasWhatItUses, AskingPcs, Key
<1> USE <1>1 DEF Goto
<1>3. CASE FindInCache(w)
  <2>1. CASE /\ Cache!FindHit(Key(w))
             /\ frame' = [frame EXCEPT ![w].pc = "serve",
                                       ![w].cached_response = cache_map[Key(w)]]
    <3>1. frame'[w].cached_response = cache_map[Key(w)]
      BY <2>1
    <3>2. capacity' = capacity
      BY <2>1 DEF Cache!FindHit
    <3> QED BY <1>2, <1>3, <2>1, <3>1, <3>2 DEF FindInCache, CacheOperation, UsesCache
  <2>2. CASE Cache!FindMiss(Key(w)) /\ Goto(w, "connect")
    <3>1. frame'[w].pc # "serve"
      BY <2>2
    <3>2. capacity' = capacity
      BY <2>2 DEF Cache!FindMiss, Cache!lruVars
    <3> QED BY <1>2, <1>3, <2>2, <3>1, <3>2 DEF FindInCache, CacheOperation, UsesCache
  <2> QED BY <1>3, <2>1, <2>2 DEF FindInCache
<1>4. CASE AddToCache(w)
  <2>1. frame[w].pc = "add" /\ Cache!Add(Key(w), frame[w].response)
        /\ frame'[w].pc # "serve"
    BY <1>4 DEF AddToCache
  <2>2. capacity' = capacity
    BY <2>1 DEF Cache!Add, Cache!AddPresent, Cache!AddNew, Cache!AddCrash
  <2> QED BY <1>2, <2>1, <2>2 DEF Cache!Add, CacheOperation, UsesCache
<1>5. CASE ServeCached(w)
  BY <1>5 DEF ServeCached, LeavesCache
<1>6. CASE RecvRequest(w)
  BY <1>6 DEF RecvRequest, cacheVars, LeavesCache
<1>7. CASE RecvEnd(w) \/ RecvError(w)
  BY <1>7 DEF RecvEnd, RecvError, cacheVars, LeavesCache
<1>8. CASE ConnectToOrigin(w)
  BY <1>8 DEF ConnectToOrigin, cacheVars, LeavesCache
<1>9. CASE RelayPart(w)
  BY <1>9 DEF RelayPart, cacheVars, LeavesCache
<1>10. CASE ConnectFails(w) \/ ForwardRequest(w) \/ RelayEnd(w) \/ RelayError(w)
            \/ CloseServer(w) \/ CloseClient(w)
  BY <1>10
  DEF ConnectFails, ForwardRequest, RelayEnd, RelayError, CloseServer, CloseClient,
      cacheVars, LeavesCache
<1> QED
  BY <1>3, <1>4, <1>5, <1>6, <1>7, <1>8, <1>9, <1>10
  DEF HandlerStep

\* While no url has to be evicted, a handler keeps what is served where it is.
LEMMA HandlerKeepsServed ==
  ASSUME HandlerTypes, Filed, RoomForAll, HasRoom, ServesWhatIsThere, ~crashed,
         NEW w \in Workers, HandlerStep(w),
         \A v \in Workers \ {w} : frame'[v] = frame[v]
  PROVE  HasRoom' /\ ServesWhatIsThere' /\ ~crashed'
<1>1. /\ Cache!TypeOK /\ frame \in [Workers -> Frames]
      /\ \A v \in Workers :
           frame[v].pc = "serve" => frame[v].cached_response \in Cells
  BY DEF HandlerTypes, HandlerTypeOK, HasWhatItUses
<1>2. CASE UsesCache(w)
  <2>1. /\ HasRoom' /\ UNCHANGED crashed
        /\ \A c \in Cells : heap[c] # Free => heap'[c] # Free
    BY <1>1, <1>2, NothingIsEvicted DEF UsesCache
  <2>2. frame'[w].pc = "serve" => heap'[frame'[w].cached_response] # Free
    BY <1>2 DEF UsesCache, Cache!FindHit, Filed
  <2>3. ServesWhatIsThere'
    BY <1>1, <2>1, <2>2 DEF ServesWhatIsThere
  <2> QED BY <2>1, <2>3
<1>3. CASE LeavesCache(w)
  <2>1. HasRoom' /\ ServesWhatIsThere'
    BY <1>1, <1>3 DEF LeavesCache, HasRoom, ServesWhatIsThere
  <2>2. CASE ServeCached(w)
    BY <2>1, <2>2 DEF ServeCached, ServesWhatIsThere
  <2>3. CASE UNCHANGED crashed
    BY <2>1, <2>3
  <2> QED BY <1>3, <2>2, <2>3 DEF LeavesCache
<1> QED BY <1>2, <1>3, HandlerUsesCache

=============================================================================
