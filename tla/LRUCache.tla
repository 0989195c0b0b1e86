------------------------------ MODULE LRUCache ------------------------------
(***************************************************************************)
(* LRUCache.cpp.  Each operation holds cache_mutex from its first to its   *)
(* last statement (lock_guard), so it is one action.                       *)
(*                                                                         *)
(* A cache_element is a cell of the heap.  The allocator may give any free *)
(* cell to the next element, the one just freed included.  A list iterator *)
(* stays valid until its node is erased and every node holds another       *)
(* element, so an iterator is represented by the cell it leads to.  The    *)
(* field lru_time_track is only printed and is left out.                   *)
(***************************************************************************)
EXTENDS Naturals, Sequences, Functions

CONSTANTS Urls, Values,  \* keys and responses
          Cells,         \* memory for cache elements
          Free,          \* content of a cell that is not allocated
          Capacities     \* the arguments the constructor is called with

ASSUME LRUAssumption ==
  /\ Capacities \subseteq Nat
  /\ Free \notin [url : Urls, data : Values]

VARIABLES
  capacity,    \* maximum number of elements
  cache_list,  \* the cells, most recently used first
  cache_map,   \* from the cached urls to their cells
  heap,        \* content of every cell
  crashed      \* an undefined access has stopped the process

lruVars == <<capacity, cache_list, cache_map, heap, crashed>>

Element == [url : Urls, data : Values]

TypeOK ==
  /\ capacity \in Capacities
  /\ cache_list \in Seq(Cells)
  /\ DOMAIN cache_map \subseteq Urls
  /\ \A u \in DOMAIN cache_map : cache_map[u] \in Cells
  /\ heap \in [Cells -> Element \cup {Free}]
  /\ crashed \in BOOLEAN

Init ==
  /\ capacity \in Capacities
  /\ cache_list = <<>>
  /\ cache_map = [u \in {} |-> Free]
  /\ heap = [c \in Cells |-> Free]
  /\ crashed = FALSE

-----------------------------------------------------------------------------

\* splice: the node of cell c becomes the first, the nodes before it move back.
MoveToFront(list, c) ==
  LET p == CHOOSE i \in DOMAIN list : list[i] = c IN
  [i \in 1..Len(list) |->
     IF i = 1 THEN c ELSE IF i <= p THEN list[i - 1] ELSE list[i]]

\* erase: the node of cell c is taken out of the list.
Erase(list, c) ==
  LET p == CHOOSE i \in DOMAIN list : list[i] = c IN
  [i \in 1..(Len(list) - 1) |-> IF i < p THEN list[i] ELSE list[i + 1]]

\* Mutant: find does not touch the list.
FindHitInPlace(u) ==
  /\ u \in DOMAIN cache_map
  /\ UNCHANGED lruVars

\* A find that returns a pointer; the caller uses it after the mutex is gone.
FindHit(u) ==
  /\ u \in DOMAIN cache_map
  /\ cache_list' = MoveToFront(cache_list, cache_map[u])
  /\ UNCHANGED <<capacity, cache_map, heap, crashed>>

\* A find that returns nullptr.
FindMiss(u) ==
  /\ u \notin DOMAIN cache_map
  /\ UNCHANGED lruVars

\* add of a url that is cached: the new response is dropped, the old one kept.
AddPresent(u) ==
  /\ u \in DOMAIN cache_map
  /\ cache_list' = MoveToFront(cache_list, cache_map[u])
  /\ UNCHANGED <<capacity, cache_map, heap, crashed>>

\* Mutant: the comparison is the wrong way round.
IsNotFull == Len(cache_list) <= capacity

IsFull == Len(cache_list) >= capacity

\* Mutant: evict leaves the victim's entry in the map.
EvictedButMapped ==
  LET elem == cache_list[Len(cache_list)] IN
  [list |-> SubSeq(cache_list, 1, Len(cache_list) - 1),
   map  |-> cache_map,
   heap |-> [heap EXCEPT ![elem] = Free]]

\* evict: the state of the three structures after the last element is gone.
Evicted ==
  LET elem == cache_list[Len(cache_list)] IN
  [list |-> SubSeq(cache_list, 1, Len(cache_list) - 1),
   map  |-> Restrict(cache_map, DOMAIN cache_map \ {heap[elem].url}),
   heap |-> [heap EXCEPT ![elem] = Free]]

\* add of a url that is not cached, in a cache that has room or can make some.
AddNew(u, v) ==
  /\ u \notin DOMAIN cache_map
  /\ IsFull => cache_list # <<>>
  /\ LET kept == IF IsFull THEN Evicted
                 ELSE [list |-> cache_list, map |-> cache_map, heap |-> heap]
     IN \E c \in Cells :
          /\ kept.heap[c] = Free
          /\ cache_list' = <<c>> \o kept.list
          /\ cache_map' = [x \in DOMAIN kept.map \cup {u} |->
                             IF x = u THEN c ELSE kept.map[x]]
          /\ heap' = [kept.heap EXCEPT ![c] = [url |-> u, data |-> v]]
  /\ UNCHANGED <<capacity, crashed>>

\* With capacity 0 evict calls back() on an empty list.
AddCrash(u) ==
  /\ u \notin DOMAIN cache_map
  /\ IsFull
  /\ cache_list = <<>>
  /\ crashed' = TRUE
  /\ UNCHANGED <<capacity, cache_list, cache_map, heap>>

\* Mutant: the map entry is cleared instead of erased.
RemoveUrlByClearing(u) ==
  /\ u \in DOMAIN cache_map
  /\ LET elem == cache_map[u] IN
       /\ cache_list' = Erase(cache_list, elem)
       /\ cache_map' = [cache_map EXCEPT ![u] = Free]
       /\ heap' = [heap EXCEPT ![elem] = Free]
  /\ UNCHANGED <<capacity, crashed>>

RemoveUrl(u) ==
  /\ u \in DOMAIN cache_map
  /\ LET elem == cache_map[u] IN
       /\ cache_list' = Erase(cache_list, elem)
       /\ cache_map' = Restrict(cache_map, DOMAIN cache_map \ {u})
       /\ heap' = [heap EXCEPT ![elem] = Free]
  /\ UNCHANGED <<capacity, crashed>>

Find(u) == FindHit(u) \/ FindMiss(u)

Add(u, v) == AddPresent(u) \/ AddNew(u, v) \/ AddCrash(u)

Next ==
  /\ ~crashed
  /\ \E u \in Urls :
       \/ Find(u)
       \/ \E v \in Values : Add(u, v)
       \/ RemoveUrl(u)

Spec == Init /\ [][Next]_lruVars

-----------------------------------------------------------------------------
(* What keeps the three structures together.                               *)

\* Every list node holds a live element that the map finds under its url.
ListIsMapped ==
  \A c \in Range(cache_list) :
    /\ heap[c] # Free
    /\ heap[c].url \in DOMAIN cache_map
    /\ cache_map[heap[c].url] = c

\* Every map entry leads to a list node with an element of that url.
MapIsListed ==
  \A u \in DOMAIN cache_map :
    /\ cache_map[u] \in Range(cache_list)
    /\ heap[cache_map[u]] # Free
    /\ heap[cache_map[u]].url = u

\* No element is in the list twice, which would free it twice.
NoDuplicates ==
  \A i, j \in DOMAIN cache_list : cache_list[i] = cache_list[j] => i = j

\* Every allocated element can still be reached.
NoLeak == \A c \in Cells : heap[c] # Free => c \in Range(cache_list)

\* The list, the map and the memory describe the same cache after any sequence
\* of find, add, remove and evict (LRUCache.cpp:16-84): no dangling iterator, no
\* element freed twice or leaked, no url under two elements.
Consistent == ListIsMapped /\ MapIsListed /\ NoDuplicates /\ NoLeak

\* An add to a full cache makes room before it stores (LRUCache.cpp:38-41), so
\* the cache never holds more elements than it was made for.
CapacityRespected == Len(cache_list) <= capacity

\* evict finds a victim (LRUCache.cpp:77) unless the cache was made for none.
CrashOnlyWithoutRoom == crashed => capacity = 0

=============================================================================
