--------------------------- MODULE LRUCacheProofs ---------------------------
(***************************************************************************)
(* Proofs about LRUCache and LRUCacheHistory, for any urls, responses,     *)
(* memory and capacities.                                                  *)
(***************************************************************************)
EXTENDS LRUCacheHistory, FiniteSetTheorems, TLAPS

-----------------------------------------------------------------------------
(* The list operations.                                                    *)

Distinct(list) == \A i, j \in DOMAIN list : list[i] = list[j] => i = j

\* Moving a node to the front keeps the nodes.
LEMMA MoveToFrontLemma ==
  ASSUME NEW list \in Seq(Cells), Distinct(list), NEW c \in Range(list)
  PROVE  /\ MoveToFront(list, c) \in Seq(Cells)
         /\ Len(MoveToFront(list, c)) = Len(list)
         /\ Distinct(MoveToFront(list, c))
         /\ Range(MoveToFront(list, c)) = Range(list)
<1> DEFINE p == CHOOSE i \in DOMAIN list : list[i] = c
           moved == MoveToFront(list, c)
<1>1. p \in 1..Len(list) /\ list[p] = c
  BY DEF Range
<1>2. /\ moved = [i \in 1..Len(list) |->
                    IF i = 1 THEN c ELSE IF i <= p THEN list[i - 1] ELSE list[i]]
      /\ c \in Cells
  BY <1>1 DEF MoveToFront
<1>3. moved \in Seq(Cells) /\ Len(moved) = Len(list)
  BY <1>1, <1>2
<1> HIDE DEF p, moved
<1>4. Distinct(moved)
  BY <1>1, <1>2 DEF Distinct
<1>5. Range(moved) \subseteq Range(list)
  BY <1>1, <1>2 DEF Range
<1>6. ASSUME NEW i \in 1..Len(list) PROVE list[i] \in Range(moved)
  <2>1. CASE i = p
    BY <1>1, <1>2, <2>1 DEF Range
  <2>2. CASE i < p
    <3>1. i + 1 \in DOMAIN moved /\ moved[i + 1] = list[i]
      BY <1>1, <1>2, <2>2
    <3> QED
      BY <3>1 DEF Range
  <2>3. CASE i > p
    <3>1. i \in DOMAIN moved /\ moved[i] = list[i]
      BY <1>1, <1>2, <2>3
    <3> QED
      BY <3>1 DEF Range
  <2> QED
    BY <1>1, <2>1, <2>2, <2>3
<1>7. Range(list) \subseteq Range(moved)
  BY <1>6 DEF Range
<1> QED
  BY <1>3, <1>4, <1>5, <1>7 DEF moved

\* Erasing a node keeps the others.
LEMMA EraseLemma ==
  ASSUME NEW list \in Seq(Cells), Distinct(list), NEW c \in Range(list)
  PROVE  /\ Erase(list, c) \in Seq(Cells)
         /\ Len(Erase(list, c)) = Len(list) - 1
         /\ Distinct(Erase(list, c))
         /\ Range(Erase(list, c)) = Range(list) \ {c}
<1> DEFINE p == CHOOSE i \in DOMAIN list : list[i] = c
           rest == Erase(list, c)
<1>1. p \in 1..Len(list) /\ list[p] = c
  BY DEF Range
<1>2. rest = [i \in 1..(Len(list) - 1) |->
                IF i < p THEN list[i] ELSE list[i + 1]]
  BY DEF Erase
<1>3. rest \in Seq(Cells) /\ Len(rest) = Len(list) - 1
  BY <1>1, <1>2
<1> HIDE DEF p, rest
<1>4. Distinct(rest)
  BY <1>1, <1>2 DEF Distinct
<1>5. Range(rest) \subseteq Range(list) \ {c}
  BY <1>1, <1>2 DEF Range, Distinct
<1>6. ASSUME NEW i \in 1..Len(list), i # p PROVE list[i] \in Range(rest)
  <2>1. CASE i < p
    <3>1. i \in DOMAIN rest /\ rest[i] = list[i]
      BY <1>1, <1>2, <2>1
    <3> QED
      BY <3>1 DEF Range
  <2>2. CASE i > p
    <3>1. i - 1 \in DOMAIN rest /\ rest[i - 1] = list[i]
      BY <1>1, <1>2, <2>2
    <3> QED
      BY <3>1 DEF Range
  <2> QED
    BY <1>1, <1>6, <2>1, <2>2
<1>7. Range(list) \ {c} \subseteq Range(rest)
  BY <1>1, <1>6 DEF Range
<1> QED
  BY <1>3, <1>4, <1>5, <1>7 DEF rest

\* pop_back takes the last node off.
LEMMA PopBackLemma ==
  ASSUME NEW list \in Seq(Cells), Distinct(list), list # <<>>
  PROVE  LET rest == SubSeq(list, 1, Len(list) - 1) IN
         /\ rest \in Seq(Cells)
         /\ Len(rest) = Len(list) - 1
         /\ Distinct(rest)
         /\ Range(rest) = Range(list) \ {list[Len(list)]}
<1> DEFINE n == Len(list)
           rest == SubSeq(list, 1, n - 1)
<1>1. n \in Nat \ {0} /\ DOMAIN list = 1..n
  OBVIOUS
<1>2. /\ rest \in Seq(Cells) /\ Len(rest) = n - 1
      /\ DOMAIN rest = 1..(n - 1)
      /\ \A i \in 1..(n - 1) : rest[i] = list[i]
  BY <1>1
<1> HIDE DEF n, rest
<1>3. Distinct(rest)
  BY <1>1, <1>2 DEF Distinct
<1>4. Range(rest) = Range(list) \ {list[n]}
  BY <1>1, <1>2 DEF Range, Distinct
<1> QED
  BY <1>2, <1>3, <1>4 DEF n, rest

\* push_front puts a new node before the others.
LEMMA PushFrontLemma ==
  ASSUME NEW list \in Seq(Cells), Distinct(list), NEW c \in Cells \ Range(list)
  PROVE  LET longer == <<c>> \o list IN
         /\ longer \in Seq(Cells)
         /\ Len(longer) = Len(list) + 1
         /\ Distinct(longer)
         /\ Range(longer) = Range(list) \cup {c}
<1> DEFINE n == Len(list)
           longer == <<c>> \o list
<1>1. n \in Nat /\ DOMAIN list = 1..n
  OBVIOUS
<1>2. /\ longer \in Seq(Cells) /\ Len(longer) = n + 1
      /\ DOMAIN longer = 1..(n + 1)
      /\ longer[1] = c
      /\ \A i \in 1..n : longer[i + 1] = list[i]
  BY <1>1
<1> HIDE DEF n, longer
<1>3. \A i \in 2..(n + 1) : i - 1 \in 1..n /\ longer[i] = list[i - 1]
  <2>1. ASSUME NEW i \in 2..(n + 1) PROVE i - 1 \in 1..n /\ longer[i] = list[i - 1]
    <3>1. i - 1 \in 1..n /\ (i - 1) + 1 = i
      BY <1>1, <2>1
    <3> QED
      BY <1>2, <3>1
  <2> QED
    BY <2>1
<1>4. \A i \in 1..n : list[i] \in Range(list)
  BY <1>1 DEF Range
<1>5. ASSUME NEW i \in 1..(n + 1), NEW j \in 1..(n + 1), longer[i] = longer[j]
      PROVE  i = j
  <2>1. CASE i = 1 /\ j # 1
    BY <1>1, <1>2, <1>3, <1>4, <1>5, <2>1
  <2>2. CASE i # 1 /\ j = 1
    BY <1>1, <1>2, <1>3, <1>4, <1>5, <2>2
  <2>3. CASE i # 1 /\ j # 1
    <3>1. i - 1 \in 1..n /\ j - 1 \in 1..n /\ list[i - 1] = list[j - 1]
      BY <1>1, <1>3, <1>5, <2>3
    <3>2. i - 1 = j - 1
      BY <1>1, <3>1 DEF Distinct
    <3> QED
      BY <1>1, <3>2
  <2> QED
    BY <2>1, <2>2, <2>3
<1>6. Range(longer) \subseteq Range(list) \cup {c}
  <2>1. \A i \in 1..(n + 1) : longer[i] \in Range(list) \cup {c}
    BY <1>1, <1>2, <1>3, <1>4
  <2> QED
    BY <1>2, <2>1 DEF Range
<1>7. Range(list) \cup {c} \subseteq Range(longer)
  <2>1. \A i \in 1..n : i + 1 \in DOMAIN longer
    BY <1>1, <1>2
  <2>2. 1 \in DOMAIN longer
    BY <1>1, <1>2
  <2> QED
    BY <1>1, <1>2, <2>1, <2>2 DEF Range
<1>8. Distinct(longer)
  BY <1>2, <1>5 DEF Distinct
<1> QED
  BY <1>2, <1>6, <1>7, <1>8 DEF n, longer

-----------------------------------------------------------------------------
(* List, map and memory.                                                   *)

\* Consistent, and the types it needs, of any list, map and memory.
Coherent(list, map, mem) ==
  /\ list \in Seq(Cells) /\ Distinct(list)
  /\ DOMAIN map \subseteq Urls
  /\ mem \in [Cells -> Element \cup {Free}]
  /\ \A c \in Range(list) : /\ mem[c] # Free
                            /\ mem[c].url \in DOMAIN map
                           /\ map[mem[c].url] = c
  /\ \A u \in DOMAIN map : map[u] \in Range(list) /\ mem[map[u]].url = u
  /\ \A c \in Cells : mem[c] # Free => c \in Range(list)

\* The list holds cells.
LEMMA RangeInCells ==
  ASSUME NEW list \in Seq(Cells)
  PROVE  Range(list) \subseteq Cells
  BY DEF Range

\* What the steps establish is what Consistent says.
LEMMA CoherentIsConsistent ==
  TypeOK /\ Consistent <=>
    /\ capacity \in Capacities /\ crashed \in BOOLEAN
    /\ Coherent(cache_list, cache_map, heap)
<1>1. cache_list \in Seq(Cells) => Range(cache_list) \subseteq Cells
  BY RangeInCells
<1> QED
  BY <1>1 DEF TypeOK, Consistent, Coherent, Distinct, ListIsMapped, MapIsListed,
              NoDuplicates, NoLeak

\* The same of the next state, which is all a step has to establish.
LEMMA CoherentNext ==
  ASSUME Coherent(cache_list', cache_map', heap'),
         capacity' \in Capacities, crashed' \in BOOLEAN
  PROVE  (TypeOK /\ Consistent)'
<1>1. Range(cache_list') \subseteq Cells
  BY RangeInCells DEF Coherent
<1> QED
  BY <1>1 DEF TypeOK, Consistent, Coherent, Distinct, ListIsMapped, MapIsListed,
              NoDuplicates, NoLeak

\* Taking the element of a url out of all three leaves them coherent.
LEMMA RemovedCoherent ==
  ASSUME NEW list, NEW map, NEW mem, Coherent(list, map, mem),
         NEW c \in Range(list), NEW rest \in Seq(Cells), Distinct(rest),
         Range(rest) = Range(list) \ {c}
  PROVE  /\ Coherent(rest, Restrict(map, DOMAIN map \ {mem[c].url}),
                     [mem EXCEPT ![c] = Free])
         /\ [mem EXCEPT ![c] = Free][c] = Free
<1> DEFINE less == Restrict(map, DOMAIN map \ {mem[c].url})
           freed == [mem EXCEPT ![c] = Free]
<1>1. c \in Cells /\ mem[c] # Free /\ map[mem[c].url] = c
  BY RangeInCells DEF Coherent
<1>2. /\ DOMAIN less = DOMAIN map \ {mem[c].url}
      /\ \A u \in DOMAIN less : less[u] = map[u]
  BY DEF Restrict
<1>3. /\ freed \in [Cells -> Element \cup {Free}] /\ freed[c] = Free
      /\ \A d \in Cells : d # c => freed[d] = mem[d]
  BY <1>1 DEF Coherent
<1> HIDE DEF less, freed
<1>4. ASSUME NEW d \in Range(rest)
      PROVE  /\ freed[d] # Free
             /\ freed[d].url \in DOMAIN less
             /\ less[freed[d].url] = d
  <2>1. d \in Range(list) /\ d # c /\ d \in Cells
    BY RangeInCells
  <2>2. freed[d] = mem[d] /\ mem[d].url \in DOMAIN map /\ map[mem[d].url] = d
    BY <1>3, <2>1 DEF Coherent
  <2>3. mem[d].url # mem[c].url
    BY <1>1, <2>1, <2>2
  <2> QED
    BY <1>2, <2>1, <2>2, <2>3 DEF Coherent
<1>5. ASSUME NEW u \in DOMAIN less
      PROVE  less[u] \in Range(rest) /\ freed[less[u]].url = u
  <2>1. u \in DOMAIN map /\ u # mem[c].url /\ less[u] = map[u]
    BY <1>2
  <2>2. map[u] \in Range(list) /\ mem[map[u]].url = u /\ map[u] \in Cells
    BY <2>1, RangeInCells DEF Coherent
  <2>3. map[u] # c
    BY <2>1, <2>2
  <2> QED
    BY <1>3, <2>1, <2>2, <2>3
<1>6. \A d \in Cells : freed[d] # Free => d \in Range(rest)
  BY <1>3 DEF Coherent
<1>7. DOMAIN less \subseteq Urls
  BY <1>2 DEF Coherent
<1>8. Coherent(rest, less, freed)
  BY <1>3, <1>4, <1>5, <1>6, <1>7 DEF Coherent
<1> QED
  BY <1>3, <1>8 DEF less, freed

\* So does putting a new element into all three.
LEMMA AddedCoherent ==
  ASSUME NEW list, NEW map, NEW mem, Coherent(list, map, mem),
         NEW u \in Urls \ DOMAIN map, NEW v \in Values,
         NEW c \in Cells, mem[c] = Free
  PROVE  Coherent(<<c>> \o list,
                  [x \in DOMAIN map \cup {u} |-> IF x = u THEN c ELSE map[x]],
                  [mem EXCEPT ![c] = [url |-> u, data |-> v]])
<1> DEFINE longer == <<c>> \o list
           more == [x \in DOMAIN map \cup {u} |-> IF x = u THEN c ELSE map[x]]
           filled == [mem EXCEPT ![c] = [url |-> u, data |-> v]]
<1>1. list \in Seq(Cells) /\ Distinct(list) /\ c \notin Range(list)
  BY DEF Coherent
<1>2. /\ longer \in Seq(Cells) /\ Distinct(longer)
      /\ Range(longer) = Range(list) \cup {c}
  BY <1>1, PushFrontLemma
<1>3. /\ DOMAIN more = DOMAIN map \cup {u} /\ more[u] = c
      /\ \A x \in DOMAIN map : x # u /\ more[x] = map[x]
  OBVIOUS
<1>4. /\ filled \in [Cells -> Element \cup {Free}]
      /\ filled[c] = [url |-> u, data |-> v]
      /\ \A d \in Cells : d # c => filled[d] = mem[d]
  BY DEF Coherent, Element
<1>5. filled[c] # Free /\ filled[c].url = u
  BY <1>4, LRUAssumption DEF LRUAssumption
<1> HIDE DEF longer, more, filled
<1>6. ASSUME NEW d \in Range(longer)
      PROVE  /\ filled[d] # Free
             /\ filled[d].url \in DOMAIN more
             /\ more[filled[d].url] = d
  <2>1. CASE d = c
    BY <1>3, <1>5, <2>1
  <2>2. CASE d \in Range(list)
    <3>1. d \in Cells /\ d # c
      BY <1>1, <2>2, RangeInCells
    <3>2. /\ filled[d] = mem[d] /\ mem[d] # Free
          /\ mem[d].url \in DOMAIN map /\ map[mem[d].url] = d
      BY <1>4, <2>2, <3>1 DEF Coherent
    <3> QED
      BY <1>3, <3>2
  <2> QED
    BY <1>2, <2>1, <2>2
<1>7. ASSUME NEW x \in DOMAIN more
      PROVE  more[x] \in Range(longer) /\ filled[more[x]].url = x
  <2>1. CASE x = u
    BY <1>2, <1>3, <1>5, <2>1
  <2>2. CASE x \in DOMAIN map
    <3>1. map[x] \in Range(list) /\ mem[map[x]].url = x
      BY <2>2 DEF Coherent
    <3>2. map[x] \in Cells /\ map[x] # c
      BY <1>1, <3>1, RangeInCells
    <3> QED
      BY <1>2, <1>3, <1>4, <2>2, <3>1, <3>2
  <2> QED
    BY <1>3, <2>1, <2>2
<1>8. \A d \in Cells : filled[d] # Free => d \in Range(longer)
  BY <1>2, <1>4 DEF Coherent
<1>9. DOMAIN more \subseteq Urls
  BY <1>3 DEF Coherent
<1>10. Coherent(longer, more, filled)
  BY <1>2, <1>4, <1>6, <1>7, <1>8, <1>9 DEF Coherent
<1> QED
  BY <1>10 DEF longer, more, filled

-----------------------------------------------------------------------------
(* The invariant.                                                          *)

Inv == TypeOK /\ Consistent /\ CapacityRespected /\ CrashOnlyWithoutRoom

\* A new cache is empty.
LEMMA InvInit == Init => Inv
<1> SUFFICES ASSUME Init PROVE Inv
  OBVIOUS
<1> USE LRUAssumption DEF LRUAssumption, Init
<1>1. cache_list \in Seq(Cells) /\ Range(cache_list) = {}
  BY DEF Range
<1>2. Distinct(cache_list) /\ DOMAIN cache_map = {}
  BY DEF Distinct
<1>3. Coherent(cache_list, cache_map, heap)
  BY <1>1, <1>2 DEF Coherent
<1>4. TypeOK /\ Consistent
  BY <1>3, CoherentIsConsistent
<1>5. CapacityRespected /\ CrashOnlyWithoutRoom
  BY DEF CapacityRespected, CrashOnlyWithoutRoom
<1> QED
  BY <1>4, <1>5 DEF Inv

\* Both a find that hits and an add of a cached url move the element to the front.
LEMMA MoveStep ==
  ASSUME Inv, NEW u \in DOMAIN cache_map,
         cache_list' = MoveToFront(cache_list, cache_map[u]),
         UNCHANGED <<capacity, cache_map, heap, crashed>>
  PROVE  Inv'
<1>1. Coherent(cache_list, cache_map, heap)
  BY CoherentIsConsistent DEF Inv
<1>2. /\ cache_list \in Seq(Cells) /\ Distinct(cache_list)
      /\ cache_map[u] \in Range(cache_list)
  BY <1>1 DEF Coherent
<1>3. /\ cache_list' \in Seq(Cells) /\ Distinct(cache_list')
      /\ Len(cache_list') = Len(cache_list)
      /\ Range(cache_list') = Range(cache_list)
  BY <1>2, MoveToFrontLemma
<1>4. Coherent(cache_list', cache_map', heap')
  BY <1>1, <1>3 DEF Coherent
<1>5. (TypeOK /\ Consistent)'
  BY <1>4, CoherentNext DEF Inv, TypeOK
<1>6. CapacityRespected' /\ CrashOnlyWithoutRoom'
  BY <1>3 DEF Inv, CapacityRespected, CrashOnlyWithoutRoom
<1> QED
  BY <1>5, <1>6 DEF Inv

\* An add of a new url keeps the invariant, with and without an eviction before.
LEMMA AddNewStep ==
  ASSUME Inv, NEW u \in Urls, NEW v \in Values, AddNew(u, v)
  PROVE  Inv'
<1> DEFINE kept == IF IsFull THEN Evicted
                   ELSE [list |-> cache_list, map |-> cache_map, heap |-> heap]
<1>1. Coherent(cache_list, cache_map, heap) /\ capacity \in Nat
  BY CoherentIsConsistent, LRUAssumption DEF Inv, TypeOK, LRUAssumption
<1>2. /\ Coherent(kept.list, kept.map, kept.heap)
      /\ Len(kept.list) + 1 <= capacity
      /\ DOMAIN kept.map \subseteq DOMAIN cache_map
  <2>1. CASE IsFull
    <3> DEFINE last == cache_list[Len(cache_list)]
    <3>1. /\ cache_list \in Seq(Cells) /\ Distinct(cache_list)
          /\ cache_list # <<>>
      BY <1>1, <2>1 DEF AddNew, Coherent
    <3>2. last \in Range(cache_list)
      BY <3>1 DEF Range
    <3>3. /\ kept.list = SubSeq(cache_list, 1, Len(cache_list) - 1)
          /\ kept.map = Restrict(cache_map, DOMAIN cache_map \ {heap[last].url})
          /\ kept.heap = [heap EXCEPT ![last] = Free]
      BY <2>1 DEF Evicted
    <3>4. /\ kept.list \in Seq(Cells) /\ Distinct(kept.list)
          /\ Len(kept.list) = Len(cache_list) - 1
          /\ Range(kept.list) = Range(cache_list) \ {last}
      BY <3>1, <3>3, PopBackLemma
    <3> HIDE DEF kept, last
    <3>5. Coherent(kept.list, kept.map, kept.heap)
      <4>1. Coherent(kept.list, Restrict(cache_map, DOMAIN cache_map \ {heap[last].url}),
                     [heap EXCEPT ![last] = Free])
        BY <1>1, <3>2, <3>4, RemovedCoherent
      <4> QED
        BY <3>3, <4>1
    <3>6. DOMAIN kept.map \subseteq DOMAIN cache_map
      BY <3>3 DEF Restrict
    <3>7. Len(kept.list) + 1 <= capacity
      BY <1>1, <3>1, <3>4 DEF Inv, CapacityRespected
    <3> QED
      BY <3>5, <3>6, <3>7
  <2>2. CASE ~IsFull
    <3>1. Len(cache_list) + 1 <= capacity
      BY <1>1, <2>2 DEF IsFull, Coherent
    <3> QED
      BY <1>1, <2>2, <3>1
  <2> QED
    BY <2>1, <2>2
<1>3. PICK c \in Cells :
        /\ kept.heap[c] = Free
        /\ cache_list' = <<c>> \o kept.list
        /\ cache_map' = [x \in DOMAIN kept.map \cup {u} |->
                           IF x = u THEN c ELSE kept.map[x]]
        /\ heap' = [kept.heap EXCEPT ![c] = [url |-> u, data |-> v]]
  BY DEF AddNew
<1> HIDE DEF kept
<1>4. u \in Urls \ DOMAIN kept.map
  BY <1>2 DEF AddNew
<1>5. Coherent(cache_list', cache_map', heap')
  BY <1>2, <1>3, <1>4, AddedCoherent
<1>6. Len(cache_list') = Len(kept.list) + 1
  BY <1>2, <1>3 DEF Coherent
<1>7. UNCHANGED <<capacity, crashed>>
  BY DEF AddNew
<1>8. (TypeOK /\ Consistent)'
  BY <1>5, <1>7, CoherentNext DEF Inv, TypeOK
<1>9. CapacityRespected' /\ CrashOnlyWithoutRoom'
  BY <1>2, <1>6, <1>7 DEF Inv, CapacityRespected, CrashOnlyWithoutRoom
<1> QED
  BY <1>8, <1>9 DEF Inv

\* A remove keeps the invariant.
LEMMA RemoveStep ==
  ASSUME Inv, NEW u \in Urls, RemoveUrl(u)
  PROVE  Inv'
<1> DEFINE elem == cache_map[u]
<1>1. Coherent(cache_list, cache_map, heap) /\ capacity \in Nat
  BY CoherentIsConsistent, LRUAssumption DEF Inv, TypeOK, LRUAssumption
<1>2. /\ u \in DOMAIN cache_map
      /\ cache_list' = Erase(cache_list, elem)
      /\ cache_map' = Restrict(cache_map, DOMAIN cache_map \ {u})
      /\ heap' = [heap EXCEPT ![elem] = Free]
      /\ UNCHANGED <<capacity, crashed>>
  BY DEF RemoveUrl
<1>3. /\ cache_list \in Seq(Cells) /\ Distinct(cache_list)
      /\ elem \in Range(cache_list) /\ heap[elem].url = u
  BY <1>1, <1>2 DEF Coherent
<1> HIDE DEF elem
<1>4. /\ cache_list' \in Seq(Cells) /\ Distinct(cache_list')
      /\ Len(cache_list') = Len(cache_list) - 1
      /\ Range(cache_list') = Range(cache_list) \ {elem}
  BY <1>2, <1>3, EraseLemma
<1>5. Coherent(cache_list', cache_map', heap')
  BY <1>1, <1>2, <1>3, <1>4, RemovedCoherent
<1>6. (TypeOK /\ Consistent)'
  BY <1>2, <1>5, CoherentNext DEF Inv, TypeOK
<1>7. CapacityRespected' /\ CrashOnlyWithoutRoom'
  BY <1>1, <1>2, <1>3, <1>4 DEF Inv, CapacityRespected, CrashOnlyWithoutRoom
<1> QED
  BY <1>6, <1>7 DEF Inv

\* evict finds no victim only in an empty list, which is full only if it is made
\* for none.
LEMMA CrashStep ==
  ASSUME Inv, NEW u \in Urls, AddCrash(u)
  PROVE  Inv'
<1>1. capacity = 0
  BY LRUAssumption
     DEF AddCrash, IsFull, Inv, TypeOK, CapacityRespected, LRUAssumption
<1> QED
  BY <1>1
     DEF AddCrash, Inv, TypeOK, Consistent, ListIsMapped, MapIsListed,
         NoDuplicates, NoLeak, CapacityRespected, CrashOnlyWithoutRoom

\* Every operation keeps the invariant.
LEMMA InvStep == Inv /\ [Next]_lruVars => Inv'
<1> SUFFICES ASSUME Inv, [Next]_lruVars PROVE Inv'
  OBVIOUS
<1>1. CASE UNCHANGED lruVars
  BY <1>1 DEF lruVars, Inv, TypeOK, Consistent, ListIsMapped, MapIsListed,
              NoDuplicates, NoLeak, CapacityRespected, CrashOnlyWithoutRoom
<1>2. ASSUME NEW u \in Urls, FindHit(u) \/ AddPresent(u) PROVE Inv'
  BY <1>2, MoveStep DEF FindHit, AddPresent
<1>3. ASSUME NEW u \in Urls, FindMiss(u) PROVE Inv'
  BY <1>1, <1>3 DEF FindMiss
<1>4. ASSUME NEW u \in Urls, NEW v \in Values, AddNew(u, v) PROVE Inv'
  BY <1>4, AddNewStep
<1>5. ASSUME NEW u \in Urls, AddCrash(u) PROVE Inv'
  BY <1>5, CrashStep
<1>6. ASSUME NEW u \in Urls, RemoveUrl(u) PROVE Inv'
  BY <1>6, RemoveStep
<1> QED
  BY <1>1, <1>2, <1>3, <1>4, <1>5, <1>6 DEF Next, Find, Add

\* The invariant holds after every sequence of operations (LRUCache.cpp:16-84).
THEOREM InvHolds == Spec => []Inv
  BY InvInit, InvStep, PTL DEF Spec

\* Every variable keeps its type in every behaviour of the cache.
THEOREM TypeCorrect == Spec => []TypeOK
<1>1. Inv => TypeOK
  BY DEF Inv
<1> QED
  BY <1>1, InvHolds, PTL

\* List, map and memory describe one cache: no dangling iterator, no double free,
\* no leak, after any sequence of operations on a cache of any capacity.
THEOREM ConsistentHolds == Spec => []Consistent
<1>1. Inv => Consistent
  BY DEF Inv
<1> QED
  BY <1>1, InvHolds, PTL

\* The cache never holds more elements than it was made for.
THEOREM CapacityRespectedHolds == Spec => []CapacityRespected
<1>1. Inv => CapacityRespected
  BY DEF Inv
<1> QED
  BY <1>1, InvHolds, PTL

\* evict finds no victim only in a cache made for none.
THEOREM CrashOnlyWithoutRoomHolds == Spec => []CrashOnlyWithoutRoom
<1>1. Inv => CrashOnlyWithoutRoom
  BY DEF Inv
<1> QED
  BY <1>1, InvHolds, PTL

-----------------------------------------------------------------------------
(* The order of the list, for the choice of the victim.                    *)

\* Two nodes of `short' that come one after the other do so in `long'.
KeepsOrder(short, long) ==
  \A i, j \in DOMAIN short : i < j =>
    \E a, b \in DOMAIN long :
      a < b /\ short[i] = long[a] /\ short[j] = long[b]

\* Moving a node to the front leaves the others in their order.
LEMMA MoveKeepsOrder ==
  ASSUME NEW list \in Seq(Cells), Distinct(list), NEW c \in Range(list),
         NEW i \in DOMAIN list, NEW j \in DOMAIN list, i < j
  PROVE  LET moved == MoveToFront(list, c) IN
         /\ moved[j] \in Range(list) \ {c}
         /\ \/ moved[i] = c
            \/ /\ moved[i] # c
               /\ \E a, b \in DOMAIN list :
                    a < b /\ moved[i] = list[a] /\ moved[j] = list[b]
<1> DEFINE p == CHOOSE k \in DOMAIN list : list[k] = c
           moved == MoveToFront(list, c)
<1>1. p \in 1..Len(list) /\ list[p] = c
  BY DEF Range
<1>2. moved = [k \in 1..Len(list) |->
                 IF k = 1 THEN c ELSE IF k <= p THEN list[k - 1] ELSE list[k]]
  BY DEF MoveToFront
<1>3. Len(list) \in Nat /\ DOMAIN list = 1..Len(list)
  OBVIOUS
<1> HIDE DEF p, moved
<1> DEFINE before(k) == IF k <= p THEN k - 1 ELSE k
<1>4. ASSUME NEW k \in DOMAIN list, k # 1
      PROVE  /\ before(k) \in DOMAIN list /\ before(k) # p
             /\ moved[k] = list[before(k)]
  BY <1>1, <1>2, <1>3, <1>4
<1>5. moved[j] \in Range(list) \ {c}
  BY <1>1, <1>3, <1>4 DEF Range, Distinct
<1>6. CASE i = 1
  BY <1>2, <1>3, <1>5, <1>6 DEF moved
<1>7. CASE i # 1
  <2>1. before(i) < before(j) /\ moved[i] = list[before(i)]
        /\ moved[j] = list[before(j)] /\ moved[i] # c
    BY <1>1, <1>3, <1>4, <1>7 DEF Distinct
  <2> QED
    BY <1>3, <1>4, <1>5, <1>7, <2>1 DEF moved
<1> QED
  BY <1>6, <1>7

\* So does erasing one.
LEMMA EraseKeepsOrder ==
  ASSUME NEW list \in Seq(Cells), NEW c \in Range(list)
  PROVE  KeepsOrder(Erase(list, c), list)
<1> DEFINE p == CHOOSE i \in DOMAIN list : list[i] = c
           rest == Erase(list, c)
           before(k) == IF k < p THEN k ELSE k + 1
<1>1. p \in 1..Len(list)
  BY DEF Range
<1>2. rest = [i \in 1..(Len(list) - 1) |->
                IF i < p THEN list[i] ELSE list[i + 1]]
  BY DEF Erase
<1> HIDE DEF p, rest
<1>3. \A k \in DOMAIN rest : before(k) \in DOMAIN list /\ rest[k] = list[before(k)]
  BY <1>1, <1>2
<1>4. \A i, j \in DOMAIN rest : i < j => before(i) < before(j)
  BY <1>1, <1>2
<1> QED
  BY <1>3, <1>4 DEF KeepsOrder, rest

\* So does taking off the last, which comes after all that stay.
LEMMA PopBackKeepsOrder ==
  ASSUME NEW list \in Seq(Cells), list # <<>>
  PROVE  LET rest == SubSeq(list, 1, Len(list) - 1) IN
         /\ KeepsOrder(rest, list)
         /\ \A i \in DOMAIN rest : i < Len(list) /\ rest[i] = list[i]
<1> DEFINE n == Len(list)
           rest == SubSeq(list, 1, n - 1)
<1>1. n \in Nat \ {0} /\ DOMAIN list = 1..n
  OBVIOUS
<1>2. DOMAIN rest = 1..(n - 1) /\ \A i \in 1..(n - 1) : rest[i] = list[i]
  BY <1>1
<1> HIDE DEF n, rest
<1>3. KeepsOrder(rest, list)
  BY <1>1, <1>2 DEF KeepsOrder
<1> QED
  BY <1>1, <1>2, <1>3 DEF n, rest

\* There are as many nodes as cached urls.
LEMMA ListCountsMap ==
  ASSUME NEW list, NEW map, NEW mem, Coherent(list, map, mem)
  PROVE  IsFiniteSet(DOMAIN map) /\ Cardinality(DOMAIN map) = Len(list)
<1> DEFINE n == Len(list)
           urlAt == [i \in 1..n |-> mem[list[i]].url]
<1>1. n \in Nat /\ DOMAIN list = 1..n /\ \A i \in 1..n : list[i] \in Range(list)
  BY DEF Coherent, Range
<1>2. urlAt \in [1..n -> DOMAIN map]
  BY <1>1 DEF Coherent
<1>3. ASSUME NEW i \in 1..n, NEW j \in 1..n, urlAt[i] = urlAt[j] PROVE i = j
  BY <1>1, <1>3 DEF Coherent, Distinct
<1>4. ASSUME NEW u \in DOMAIN map PROVE \E i \in 1..n : urlAt[i] = u
  <2>1. map[u] \in Range(list) /\ mem[map[u]].url = u
    BY DEF Coherent
  <2>2. PICK i \in 1..n : list[i] = map[u]
    BY <1>1, <2>1 DEF Range
  <2> QED
    BY <2>1, <2>2
<1> HIDE DEF n
<1>5. urlAt \in Bijection(1..n, DOMAIN map)
  <2>1. urlAt \in Injection(1..n, DOMAIN map)
    BY <1>2, <1>3 DEF Injection, IsInjective
  <2>2. urlAt \in Surjection(1..n, DOMAIN map)
    BY <1>2, <1>4 DEF Surjection
  <2> QED
    BY <2>1, <2>2 DEF Bijection
<1>6. ExistsBijection(1..n, DOMAIN map)
  BY <1>5 DEF ExistsBijection
<1>7. IsFiniteSet(1..n) /\ Cardinality(1..n) = n
  BY <1>1, FS_Interval
<1> QED
  BY <1>6, <1>7, FS_Bijection DEF n

-----------------------------------------------------------------------------
(* The list is ordered by the last use of its elements, so what evict takes *)
(* off the end is what CachePolicy lets a full LRU cache discard.           *)

\* Each element of the list was used later than those behind it.
MostRecentFirst ==
  \A i, j \in DOMAIN cache_list : i < j =>
    lastUse[heap[cache_list[j]].url] < lastUse[heap[cache_list[i]].url]

HistoryTypeOK ==
  /\ clock \in Nat
  /\ lastUse \in [Urls -> 0..clock]
  /\ uses \in [Urls -> Nat]

HistoryInv == Inv /\ HistoryTypeOK /\ MostRecentFirst

\* A use of one url leaves the other urls as old as they were.
LEMMA UseRecords ==
  ASSUME HistoryTypeOK, NEW u \in Urls, NEW n \in Nat, Policy!Use(u, n)
  PROVE  /\ HistoryTypeOK'
         /\ lastUse'[u] = clock + 1
         /\ \A x \in Urls : lastUse[x] \in 0..clock
         /\ \A x \in Urls \ {u} : lastUse'[x] = lastUse[x]
<1>1. clock' \in Nat /\ 0..clock \subseteq 0..clock' /\ clock' \in 0..clock'
  BY DEF Policy!Use, HistoryTypeOK
<1>2. lastUse' \in [Urls -> 0..clock'] /\ uses' \in [Urls -> Nat]
  BY <1>1 DEF Policy!Use, HistoryTypeOK
<1> QED
  BY <1>1, <1>2 DEF Policy!Use, HistoryTypeOK

\* The order after an element was found or added again.
LEMMA MoveRecent ==
  ASSUME HistoryInv, NEW u \in DOMAIN cache_map, Policy!Use(u, uses[u] + 1),
         cache_list' = MoveToFront(cache_list, cache_map[u]), heap' = heap
  PROVE  HistoryTypeOK' /\ MostRecentFirst'
<1> DEFINE c == cache_map[u]
<1>1. Coherent(cache_list, cache_map, heap) /\ HistoryTypeOK /\ MostRecentFirst
  BY CoherentIsConsistent DEF HistoryInv, Inv
<1>2. /\ cache_list \in Seq(Cells) /\ Distinct(cache_list)
      /\ c \in Range(cache_list) /\ heap[c].url = u /\ u \in Urls
  BY <1>1 DEF Coherent
<1>3. uses[u] + 1 \in Nat
  BY <1>1, <1>2 DEF HistoryTypeOK
<1>4. /\ HistoryTypeOK' /\ clock \in Nat /\ lastUse'[u] = clock + 1
      /\ \A x \in Urls : lastUse[x] \in 0..clock
      /\ \A x \in Urls \ {u} : lastUse'[x] = lastUse[x]
  BY <1>1, <1>2, <1>3, UseRecords DEF HistoryTypeOK
<1>5. \A d : d \in Range(cache_list) /\ d # c => heap[d].url \in Urls \ {u}
  BY <1>1, <1>2 DEF Coherent
<1>6. DOMAIN cache_list' = DOMAIN cache_list
  BY <1>2, MoveToFrontLemma
<1> HIDE DEF c
<1>7. ASSUME NEW i \in DOMAIN cache_list, NEW j \in DOMAIN cache_list, i < j
      PROVE  lastUse'[heap[cache_list'[j]].url] < lastUse'[heap[cache_list'[i]].url]
  <2>1. /\ cache_list'[j] \in Range(cache_list) \ {c}
        /\ \/ cache_list'[i] = c
           \/ /\ cache_list'[i] # c
              /\ \E a, b \in DOMAIN cache_list :
                   /\ a < b /\ cache_list'[i] = cache_list[a]
                   /\ cache_list'[j] = cache_list[b]
    BY <1>2, <1>7, MoveKeepsOrder DEF c
  <2>2. CASE cache_list'[i] = c
    <3>1. heap[cache_list'[j]].url \in Urls \ {u}
      <4>1. cache_list'[j] \in Range(cache_list) /\ cache_list'[j] # c
        BY <2>1
      <4> QED
        BY <1>5, <4>1
    <3>2. lastUse'[heap[cache_list'[j]].url] \in 0..clock
      BY <1>4, <3>1
    <3>3. lastUse'[heap[cache_list'[i]].url] = clock + 1
      BY <1>2, <1>4, <2>2
    <3> QED
      BY <1>4, <3>2, <3>3
  <2>3. CASE cache_list'[i] # c
    <3>1. PICK a, b \in DOMAIN cache_list :
            /\ a < b /\ cache_list'[i] = cache_list[a]
            /\ cache_list'[j] = cache_list[b]
      BY <2>1, <2>3
    <3>2. cache_list[a] \in Range(cache_list) /\ cache_list[b] \in Range(cache_list)
      BY DEF Range
    <3>3. lastUse[heap[cache_list[b]].url] < lastUse[heap[cache_list[a]].url]
      BY <1>1, <3>1 DEF MostRecentFirst
    <3>4. /\ heap[cache_list[a]].url \in Urls \ {u}
          /\ heap[cache_list[b]].url \in Urls \ {u}
      <4>1. cache_list[a] # c /\ cache_list[b] # c
        BY <2>1, <2>3, <3>1
      <4> QED
        BY <1>5, <3>2, <4>1
    <3>5. /\ lastUse'[heap[cache_list[a]].url] = lastUse[heap[cache_list[a]].url]
          /\ lastUse'[heap[cache_list[b]].url] = lastUse[heap[cache_list[b]].url]
      BY <1>4, <3>4
    <3> QED
      BY <3>1, <3>3, <3>5
  <2> QED
    BY <2>2, <2>3
<1> QED
  BY <1>4, <1>6, <1>7 DEF MostRecentFirst

\* A part of the list in which the order is kept is still ordered, for as long as
\* the urls in it are not used.
LEMMA PartRecent ==
  ASSUME HistoryInv, NEW list \in Seq(Cells), KeepsOrder(list, cache_list),
         NEW i \in DOMAIN list, NEW j \in DOMAIN list, i < j
  PROVE  lastUse[heap[list[j]].url] < lastUse[heap[list[i]].url]
<1>1. PICK a, b \in DOMAIN cache_list :
        a < b /\ list[i] = cache_list[a] /\ list[j] = cache_list[b]
  BY DEF KeepsOrder
<1> QED
  BY <1>1 DEF HistoryInv, MostRecentFirst

\* The number of elements means the same in CachePolicy as here.
LEMMA SameCardinality == \A S : Policy!Cardinality(S) = Cardinality(S)
  BY DEF Policy!Cardinality, Cardinality

\* What an add of a new url keeps of the cache.
Kept == IF IsFull THEN Evicted
        ELSE [list |-> cache_list, map |-> cache_map, heap |-> heap]

\* It takes out at most one element, that of a least recently used url, and only
\* if the cache is full.
LEMMA EvictedIsLeastRecent ==
  ASSUME HistoryInv, IsFull => cache_list # <<>>
  PROVE  \E gone \in SUBSET Policy!LeastRecentlyUsed :
           /\ Cardinality(gone) =
                IF Cardinality(Policy!Cached) < capacity THEN 0 ELSE 1
           /\ Coherent(Kept.list, Kept.map, Kept.heap)
           /\ KeepsOrder(Kept.list, cache_list)
           /\ DOMAIN Kept.map = Policy!Cached \ gone
           /\ \A x \in DOMAIN Kept.map : Kept.map[x] = cache_map[x]
           /\ \A d \in Range(Kept.list) : Kept.heap[d] = heap[d]
<1>1. /\ Coherent(cache_list, cache_map, heap) /\ capacity \in Nat
      /\ cache_list \in Seq(Cells) /\ Distinct(cache_list)
      /\ Len(cache_list) \in Nat
  BY CoherentIsConsistent, LRUAssumption
     DEF HistoryInv, Inv, TypeOK, Coherent, LRUAssumption
<1>2. Policy!Cached = DOMAIN cache_map
  BY DEF Policy!Cached, Responses
<1>3. Cardinality(Policy!Cached) = Len(cache_list)
  BY <1>1, <1>2, ListCountsMap
<1>4. CASE ~IsFull
  <2>1. /\ Kept.list = cache_list /\ Kept.map = cache_map /\ Kept.heap = heap
        /\ Cardinality(Policy!Cached) < capacity
    BY <1>1, <1>3, <1>4 DEF IsFull, Kept
  <2>2. KeepsOrder(cache_list, cache_list)
    BY DEF KeepsOrder
  <2>3. Cardinality({}) = 0
    BY FS_EmptySet
  <2> WITNESS {} \in SUBSET Policy!LeastRecentlyUsed
  <2> QED
    BY <1>1, <1>2, <2>1, <2>2, <2>3
<1>5. CASE IsFull
  <2> DEFINE n == Len(cache_list)
             last == cache_list[n]
             old == heap[last].url
  <2>1. cache_list # <<>> /\ n \in 1..n /\ last \in Range(cache_list)
    BY <1>1, <1>5 DEF Range
  <2>2. /\ Kept.list = SubSeq(cache_list, 1, n - 1)
        /\ Kept.map = Restrict(cache_map, DOMAIN cache_map \ {old})
        /\ Kept.heap = [heap EXCEPT ![last] = Free]
    BY <1>5 DEF Evicted, Kept
  <2>3. /\ Kept.list \in Seq(Cells) /\ Distinct(Kept.list)
        /\ Range(Kept.list) = Range(cache_list) \ {last}
        /\ KeepsOrder(Kept.list, cache_list)
    BY <1>1, <2>1, <2>2, PopBackLemma, PopBackKeepsOrder
  <2>4. old \in Policy!LeastRecentlyUsed
    <3>1. old \in DOMAIN cache_map /\ old \in Urls
      BY <1>1, <2>1 DEF Coherent
    <3>2. ASSUME NEW x \in DOMAIN cache_map PROVE lastUse[old] <= lastUse[x]
      <4>1. cache_map[x] \in Range(cache_list) /\ heap[cache_map[x]].url = x /\ x \in Urls
        BY <1>1 DEF Coherent
      <4>2. PICK i \in 1..n : cache_list[i] = cache_map[x]
        BY <1>1, <4>1 DEF Range
      <4>3. /\ clock \in Nat /\ lastUse[x] \in 0..clock
            /\ lastUse[old] \in 0..clock
        BY <3>1, <4>1 DEF HistoryInv, HistoryTypeOK
      <4>4. i < n => lastUse[old] < lastUse[x]
        BY <1>1, <2>1, <4>1, <4>2 DEF HistoryInv, MostRecentFirst
      <4>5. i = n => lastUse[old] = lastUse[x]
        BY <4>1, <4>2
      <4> QED
        BY <1>1, <2>1, <4>2, <4>3, <4>4, <4>5
    <3> QED
      BY <1>2, <3>1, <3>2 DEF Policy!LeastRecentlyUsed
  <2>5. ~(Cardinality(Policy!Cached) < capacity)
    BY <1>1, <1>3, <1>5 DEF IsFull
  <2>6. Cardinality({old}) = 1
    BY FS_Singleton
  <2> HIDE DEF n, last, old
  <2>7. Coherent(Kept.list, Kept.map, Kept.heap)
    <3>1. Coherent(Kept.list, Restrict(cache_map, DOMAIN cache_map \ {heap[last].url}),
                   [heap EXCEPT ![last] = Free])
      BY <1>1, <2>1, <2>3, RemovedCoherent
    <3> QED
      BY <2>2, <3>1 DEF old
  <2>8. /\ DOMAIN Kept.map = DOMAIN cache_map \ {old}
        /\ \A x \in DOMAIN Kept.map : Kept.map[x] = cache_map[x]
    BY <2>2 DEF Restrict
  <2>9. ASSUME NEW d \in Range(Kept.list) PROVE Kept.heap[d] = heap[d]
    <3>1. d \in Cells /\ d # last
      BY <1>1, <2>3, <2>9, RangeInCells
    <3>2. DOMAIN heap = Cells
      BY <1>1 DEF Coherent
    <3> QED
      BY <2>2, <3>1, <3>2
  <2>10. {old} \in SUBSET Policy!LeastRecentlyUsed
    BY <2>4
  <2> QED
    BY <1>2, <2>3, <2>5, <2>6, <2>7, <2>8, <2>9, <2>10
<1> QED
  BY <1>4, <1>5

\* The order after an element was added.
LEMMA AddRecent ==
  ASSUME HistoryInv, NEW u \in Urls, NEW v \in Values, AddNew(u, v),
         Policy!Use(u, 1)
  PROVE  /\ HistoryTypeOK' /\ MostRecentFirst'
         /\ Policy!Store(u, v, Policy!LeastRecentlyUsed)
<1>1. PICK c \in Cells :
        /\ Kept.heap[c] = Free
        /\ cache_list' = <<c>> \o Kept.list
        /\ cache_map' = [x \in DOMAIN Kept.map \cup {u} |->
                           IF x = u THEN c ELSE Kept.map[x]]
        /\ heap' = [Kept.heap EXCEPT ![c] = [url |-> u, data |-> v]]
  BY DEF AddNew, Kept
<1>2. PICK gone \in SUBSET Policy!LeastRecentlyUsed :
        /\ Cardinality(gone) =
             IF Cardinality(Policy!Cached) < capacity THEN 0 ELSE 1
        /\ Coherent(Kept.list, Kept.map, Kept.heap)
        /\ KeepsOrder(Kept.list, cache_list)
        /\ DOMAIN Kept.map = Policy!Cached \ gone
        /\ \A x \in DOMAIN Kept.map : Kept.map[x] = cache_map[x]
        /\ \A d \in Range(Kept.list) : Kept.heap[d] = heap[d]
  BY EvictedIsLeastRecent DEF AddNew
<1>3. Policy!Cached = DOMAIN cache_map /\ u \notin DOMAIN cache_map
  BY DEF Policy!Cached, Responses, AddNew
<1>4. /\ HistoryTypeOK' /\ clock \in Nat /\ lastUse'[u] = clock + 1
      /\ \A x \in Urls : lastUse[x] \in 0..clock
      /\ \A x \in Urls \ {u} : lastUse'[x] = lastUse[x]
  BY UseRecords DEF HistoryInv, HistoryTypeOK
<1> DEFINE list == Kept.list
<1>5. /\ list \in Seq(Cells) /\ Len(list) \in Nat /\ DOMAIN list = 1..Len(list)
      /\ Range(list) \subseteq Cells
      /\ DOMAIN Kept.heap = Cells
      /\ \A d \in Range(list) : /\ Kept.heap[d] # Free
                                /\ Kept.heap[d].url \in DOMAIN Kept.map
      /\ DOMAIN Kept.map \subseteq Urls
      /\ \A x \in DOMAIN Kept.map : Kept.map[x] \in Range(list)
  BY <1>2, RangeInCells DEF Coherent
<1>6. c \notin Range(list)
  BY <1>1, <1>5
<1>7. \A d : d \in Range(list) =>
        /\ heap'[d] = heap[d]
        /\ heap[d].url \in Urls \ {u}
  <2>1. ASSUME NEW d, d \in Range(list)
        PROVE  heap'[d] = heap[d] /\ heap[d].url \in Urls \ {u}
    <3>1. d \in Cells /\ d # c
      BY <1>5, <1>6, <2>1
    <3>2. heap'[d] = Kept.heap[d]
      BY <1>1, <1>5, <3>1
    <3>3. Kept.heap[d] = heap[d]
      BY <1>2, <2>1
    <3>4. heap[d].url \in DOMAIN Kept.map
      BY <1>5, <2>1, <3>3
    <3> QED
      BY <1>2, <1>3, <1>5, <3>2, <3>3, <3>4
  <2> QED
    BY <2>1
<1>8. heap'[c].url = u /\ heap'[c].data = v
  BY <1>1, <1>5
<1> HIDE DEF list
<1>9. MostRecentFirst'
  <2>1. /\ cache_list' \in Seq(Cells) /\ Len(cache_list') = Len(list) + 1
        /\ cache_list'[1] = c
        /\ \A i \in 1..Len(list) : cache_list'[i + 1] = list[i]
    BY <1>1, <1>5 DEF list
  <2>2. ASSUME NEW i \in DOMAIN cache_list', NEW j \in DOMAIN cache_list', i < j
        PROVE  lastUse'[heap'[cache_list'[j]].url]
                 < lastUse'[heap'[cache_list'[i]].url]
    <3>1. i \in 1..(Len(list) + 1) /\ j \in 1..(Len(list) + 1)
      BY <2>1
    <3>2. j - 1 \in DOMAIN list /\ cache_list'[(j - 1) + 1] = list[j - 1]
      BY <1>5, <2>1, <2>2, <3>1
    <3>3. cache_list'[j] = list[j - 1] /\ list[j - 1] \in Range(list)
      BY <3>1, <3>2 DEF Range
    <3>4. /\ heap'[cache_list'[j]].url = heap[list[j - 1]].url
          /\ lastUse'[heap'[cache_list'[j]].url] = lastUse[heap[list[j - 1]].url]
          /\ lastUse[heap[list[j - 1]].url] \in 0..clock
      BY <1>4, <1>7, <3>3
    <3>5. CASE i = 1
      <4>1. lastUse'[heap'[cache_list'[i]].url] = clock + 1
        BY <1>4, <1>8, <2>1, <3>5
      <4> QED
        BY <1>4, <3>4, <4>1
    <3>6. CASE i # 1
      <4>1. i - 1 \in DOMAIN list /\ cache_list'[(i - 1) + 1] = list[i - 1]
        BY <1>5, <2>1, <2>2, <3>1, <3>6
      <4>2. cache_list'[i] = list[i - 1] /\ list[i - 1] \in Range(list)
        BY <3>1, <4>1 DEF Range
      <4>3. lastUse'[heap'[cache_list'[i]].url] = lastUse[heap[list[i - 1]].url]
        BY <1>4, <1>7, <4>2
      <4>4. i - 1 < j - 1
        BY <2>2, <3>1
      <4>5. lastUse[heap[list[j - 1]].url] < lastUse[heap[list[i - 1]].url]
        BY <1>2, <1>5, <3>2, <4>1, <4>4, PartRecent DEF list
      <4> QED
        BY <3>4, <4>3, <4>5
    <3> QED
      BY <3>5, <3>6
  <2> QED
    BY <2>2 DEF MostRecentFirst
<1>10. Responses' = [x \in (Policy!Cached \ gone) \cup {u} |->
                       IF x = u THEN v ELSE Responses[x]]
  <2>1. DOMAIN cache_map' = (Policy!Cached \ gone) \cup {u}
    BY <1>1, <1>2
  <2>2. ASSUME NEW x \in (Policy!Cached \ gone) \cup {u}
        PROVE  heap'[cache_map'[x]].data = IF x = u THEN v ELSE Responses[x]
    <3>1. CASE x = u
      BY <1>1, <1>8, <3>1
    <3>2. CASE x # u
      <4>1. x \in DOMAIN Kept.map /\ x \in DOMAIN cache_map
        BY <1>2, <1>3, <3>2
      <4>2. cache_map'[x] = Kept.map[x] /\ Kept.map[x] = cache_map[x]
        BY <1>1, <1>2, <3>2, <4>1
      <4>3. cache_map[x] \in Range(list)
        BY <1>5, <4>1, <4>2
      <4>4. heap'[cache_map'[x]] = heap[cache_map[x]]
        BY <1>7, <4>2, <4>3
      <4> QED
        BY <3>2, <4>1, <4>4 DEF Responses
    <3> QED
      BY <3>1, <3>2
  <2> QED
    BY <2>1, <2>2 DEF Responses
<1>11. Policy!Store(u, v, Policy!LeastRecentlyUsed)
  <2>1. u \notin Policy!Cached
    BY <1>3
  <2>2. \E g \in SUBSET Policy!LeastRecentlyUsed :
          /\ Cardinality(g) =
               IF Cardinality(Policy!Cached) < capacity THEN 0 ELSE 1
          /\ Responses' = [x \in (Policy!Cached \ g) \cup {u} |->
                             IF x = u THEN v ELSE Responses[x]]
    BY <1>2, <1>10
  <2>3. capacity' = capacity
    BY DEF AddNew
  <2> QED
    BY <2>1, <2>2, <2>3, SameCardinality DEF Policy!Store
<1> QED
  BY <1>4, <1>9, <1>11

\* The order after an element was removed.
LEMMA RemoveRecent ==
  ASSUME HistoryInv, NEW u \in Urls, RemoveUrl(u), UNCHANGED history
  PROVE  HistoryTypeOK' /\ MostRecentFirst' /\ Policy!Drop(u)
<1> DEFINE elem == cache_map[u]
<1>1. Coherent(cache_list, cache_map, heap) /\ u \in DOMAIN cache_map
  BY CoherentIsConsistent DEF HistoryInv, Inv, RemoveUrl
<1>2. /\ cache_list \in Seq(Cells) /\ Distinct(cache_list)
      /\ elem \in Range(cache_list) /\ heap[elem].url = u
      /\ DOMAIN heap = Cells /\ Range(cache_list) \subseteq Cells
  BY <1>1, RangeInCells DEF Coherent
<1>3. /\ cache_list' = Erase(cache_list, elem)
      /\ cache_map' = Restrict(cache_map, DOMAIN cache_map \ {u})
      /\ heap' = [heap EXCEPT ![elem] = Free]
      /\ UNCHANGED <<capacity, clock, lastUse, uses>>
  BY DEF RemoveUrl, history
<1> HIDE DEF elem
<1>4. /\ cache_list' \in Seq(Cells) /\ KeepsOrder(cache_list', cache_list)
      /\ Range(cache_list') = Range(cache_list) \ {elem}
  BY <1>2, <1>3, EraseLemma, EraseKeepsOrder
<1>5. \A d : d \in Range(cache_list) /\ d # elem => heap'[d] = heap[d]
  BY <1>2, <1>3
<1>6. MostRecentFirst'
  <2>1. ASSUME NEW i \in DOMAIN cache_list', NEW j \in DOMAIN cache_list', i < j
        PROVE  lastUse'[heap'[cache_list'[j]].url]
                 < lastUse'[heap'[cache_list'[i]].url]
    <3>1. lastUse[heap[cache_list'[j]].url] < lastUse[heap[cache_list'[i]].url]
      BY <1>4, <2>1, PartRecent
    <3>2. cache_list'[i] \in Range(cache_list') /\ cache_list'[j] \in Range(cache_list')
      BY DEF Range
    <3>3. heap'[cache_list'[i]] = heap[cache_list'[i]]
      BY <1>4, <1>5, <3>2
    <3>4. heap'[cache_list'[j]] = heap[cache_list'[j]]
      BY <1>4, <1>5, <3>2
    <3> QED
      BY <1>3, <3>1, <3>3, <3>4
  <2> QED
    BY <2>1 DEF MostRecentFirst
<1>7. HistoryTypeOK'
  BY <1>3 DEF HistoryInv, HistoryTypeOK
<1>8. Policy!Cached = DOMAIN cache_map
  BY DEF Policy!Cached, Responses
<1>9. Responses' = [x \in Policy!Cached \ {u} |-> Responses[x]]
  <2>1. /\ DOMAIN cache_map' = DOMAIN cache_map \ {u}
        /\ \A x \in DOMAIN cache_map \ {u} : cache_map'[x] = cache_map[x]
    BY <1>3 DEF Restrict
  <2>2. ASSUME NEW x \in DOMAIN cache_map \ {u}
        PROVE  heap'[cache_map'[x]].data = Responses[x]
    <3>1. cache_map[x] \in Range(cache_list) /\ heap[cache_map[x]].url = x
      BY <1>1 DEF Coherent
    <3>2. cache_map[x] # elem
      BY <1>2, <3>1
    <3> QED
      BY <1>5, <2>1, <3>1, <3>2 DEF Responses
  <2> QED
    BY <1>8, <2>1, <2>2 DEF Responses
<1> QED
  BY <1>1, <1>3, <1>6, <1>7, <1>8, <1>9 DEF Policy!Drop

\* An operation of HistoryNext is one of Next, but for a crash if there are no
\* responses to add.
LEMMA HistoryInvStep == Inv /\ [HistoryNext]_historyVars => Inv'
<1> SUFFICES ASSUME Inv, HistoryNext PROVE Inv'
  BY InvStep DEF historyVars
<1>1. PICK u \in Urls :
        \/ FindHit(u) \/ FindMiss(u) \/ AddPresent(u)
        \/ (\E v \in Values : AddNew(u, v))
        \/ AddCrash(u) \/ RemoveUrl(u)
  BY DEF HistoryNext
<1>2. CASE ~AddCrash(u)
  <2>1. Next
    BY <1>1, <1>2 DEF HistoryNext, Next, Find, Add, AddPresent, FindHit
  <2> QED
    BY <2>1, InvStep
<1> QED
  BY <1>2, CrashStep

\* Every operation keeps the order, and is one of CachePolicy's or changes nothing
\* that CachePolicy sees.
LEMMA HistoryStep ==
  ASSUME HistoryInv, [HistoryNext]_historyVars
  PROVE  /\ HistoryInv'
         /\ [Policy!NextWith(Policy!LeastRecentlyUsed)]_(Policy!vars)
<1>1. Inv'
  BY HistoryInvStep DEF HistoryInv
<1>2. Policy!Cached = DOMAIN cache_map
  BY DEF Policy!Cached, Responses
<1> DEFINE Good == /\ HistoryTypeOK' /\ MostRecentFirst'
                   /\ [Policy!NextWith(Policy!LeastRecentlyUsed)]_(Policy!vars)
<1>3. ASSUME UNCHANGED <<capacity, cache_list, cache_map, heap, history>>
      PROVE  Good
  <2>1. HistoryTypeOK' /\ MostRecentFirst'
    BY <1>3 DEF HistoryInv, HistoryTypeOK, MostRecentFirst, history
  <2>2. UNCHANGED Policy!vars
    BY <1>3 DEF Policy!vars, Responses, history
  <2> QED
    BY <2>1, <2>2
<1>4. ASSUME NEW u \in Urls, FindHit(u) \/ AddPresent(u),
             Policy!Use(u, uses[u] + 1)
      PROVE  Good
  <2>1. /\ u \in DOMAIN cache_map
        /\ cache_list' = MoveToFront(cache_list, cache_map[u])
        /\ UNCHANGED <<capacity, cache_map, heap>>
    BY <1>4 DEF FindHit, AddPresent
  <2>2. HistoryTypeOK' /\ MostRecentFirst'
    BY <1>4, <2>1, MoveRecent
  <2>3. Policy!Hit(u)
    BY <1>2, <1>4, <2>1 DEF Policy!Hit, Responses
  <2> QED
    BY <2>2, <2>3 DEF Policy!NextWith
<1>5. ASSUME NEW u \in Urls, NEW v \in Values, AddNew(u, v), Policy!Use(u, 1)
      PROVE  Good
  BY <1>5, AddRecent DEF Policy!NextWith
<1>6. ASSUME NEW u \in Urls, RemoveUrl(u), UNCHANGED history PROVE Good
  BY <1>6, RemoveRecent DEF Policy!NextWith
<1>7. ASSUME UNCHANGED historyVars PROVE Good
  BY <1>3, <1>7 DEF historyVars, lruVars
<1>8. ASSUME NEW u \in Urls, FindMiss(u) \/ AddCrash(u), UNCHANGED history
      PROVE  Good
  BY <1>3, <1>8 DEF FindMiss, AddCrash, lruVars
<1> HIDE DEF Good
<1>9. Good
  BY <1>3, <1>4, <1>5, <1>6, <1>7, <1>8 DEF HistoryNext
<1> QED
  BY <1>1, <1>9 DEF HistoryInv, Good

\* A cache that has not been used is empty, for CachePolicy too.
LEMMA HistoryInitially == HistoryInit => HistoryInv /\ Policy!Init
<1> SUFFICES ASSUME HistoryInit PROVE HistoryInv /\ Policy!Init
  OBVIOUS
<1>1. Inv
  BY InvInit DEF HistoryInit
<1>2. HistoryTypeOK /\ MostRecentFirst
  BY DEF HistoryInit, Init, HistoryTypeOK, MostRecentFirst
<1>3. Policy!Init
  BY LRUAssumption
     DEF HistoryInit, Init, Policy!Init, Responses, LRUAssumption
<1> QED
  BY <1>1, <1>2, <1>3 DEF HistoryInv

\* The nodes of the list are in the order of their last use, at all times.
THEOREM MostRecentFirstHolds == HistorySpec => []MostRecentFirst
<1>1. HistoryInv => MostRecentFirst
  BY DEF HistoryInv
<1> QED
  BY <1>1, HistoryInitially, HistoryStep, PTL DEF HistorySpec

\* LRUCache.cpp:16-84 implements the cache that README.md:102 promises: a full one
\* discards a least recently used response and nothing else, at most capacity are
\* kept, and a response stays as it was stored; for any capacity, keys, responses
\* and memory.
THEOREM LRUImplementsPolicy == HistorySpec => EvictsLeastRecentlyUsed
<1>1. HistorySpec => Policy!LRUSpec
  BY HistoryInitially, HistoryStep, PTL DEF HistorySpec, Policy!LRUSpec
<1> QED
  BY <1>1 DEF EvictsLeastRecentlyUsed

=============================================================================
