------------------------------ MODULE LFUCache ------------------------------
(***************************************************************************)
(* LFUCache.cpp: a list of frequency nodes, each with the elements that    *)
(* the code files under that frequency, and a map from urls to node and    *)
(* element.  Each operation holds cache_mutex throughout (lock_guard), so  *)
(* it is one action.                                                       *)
(*                                                                         *)
(* Elements are cells of the heap, as in LRUCache.  A node is known by its *)
(* address: the map keeps a pointer to it.  Addresses are compared for     *)
(* equality only, so which free one a new node gets makes no difference;   *)
(* the lowest is taken, that of a node just erased included.               *)
(***************************************************************************)
EXTENDS Naturals, SequencesExt

CONSTANTS Urls, Values,  \* keys and responses
          Cells,         \* memory for cache elements
          Free,          \* content of a cell that is not allocated
          Capacities     \* the arguments the constructor is called with

ASSUME LFUAssumption ==
  /\ Capacities \subseteq Nat
  /\ Free \notin [url : Urls, data : Values]

VARIABLES
  capacity,        \* maximum number of elements
  frequency_list,  \* the nodes, in list order
  cache_map,       \* from the cached urls to their node and element
  heap,            \* content of every cell
  crashed          \* an undefined access has stopped the process

lfuVars == <<capacity, frequency_list, cache_map, heap, crashed>>

Element == [url : Urls, data : Values]
FrequencyNode == [id : Nat, frequency : Nat, elements : Seq(Cells)]

TypeOK ==
  /\ capacity \in Capacities
  /\ frequency_list \in Seq(FrequencyNode)
  /\ frequency_list # <<>>
  /\ DOMAIN cache_map \subseteq Urls
  /\ \A u \in DOMAIN cache_map :
       cache_map[u] \in [node : Nat, element : Cells]
  /\ heap \in [Cells -> Element \cup {Free}]
  /\ crashed \in BOOLEAN

Init ==
  /\ capacity \in Capacities
  /\ frequency_list = <<[id |-> 0, frequency |-> 0, elements |-> <<>>]>>
  /\ cache_map = [u \in {} |-> Free]
  /\ heap = [c \in Cells |-> Free]
  /\ crashed = FALSE

-----------------------------------------------------------------------------

\* Position of the node a pointer leads to.
PositionOf(list, id) == CHOOSE i \in DOMAIN list : list[i].id = id

NewId(list) == Min({n \in 0..Len(list) : \A i \in DOMAIN list : list[i].id # n})

\* Mutant: past the end means at the end.
NextPositionAtEnd(list, f) ==
  IF \E i \in DOMAIN list : list[i].frequency >= f
    THEN SelectInSeq(list, LAMBDA node : node.frequency >= f) + 1
    ELSE Len(list) + 1

\* std::next(std::find_if(...)): the position after the first node whose
\* frequency is at least f.  When there is none, find_if returns end(), and the
\* successor of end() in libstdc++'s circular list is the first node.
NextPosition(list, f) ==
  SelectInSeq(list, LAMBDA node : node.frequency >= f) + 1

\* The list with a node of frequency f at position p, a new one unless the node
\* that is there has that frequency.
WithNodeAt(list, p, f) ==
  IF p <= Len(list) /\ list[p].frequency = f
    THEN list
    ELSE InsertAt(list, p, [id |-> NewId(list), frequency |-> f,
                            elements |-> <<>>])

\* The list with other elements in the node at position p.
WithElements(list, p, elements) == [list EXCEPT ![p].elements = elements]

\* erase, of element c, in the node at position p.
Erased(list, p, c) == WithElements(list, p, RemoveFirst(list[p].elements, c))

\* push_front, of element c, in the node at position p.
Pushed(list, p, c) == WithElements(list, p, <<c>> \o list[p].elements)

\* splice: element c goes from the node at position `from' to the front of the
\* node at position `to'.
Splice(list, from, to, c) == Pushed(Erased(list, from, c), to, c)

\* Mutant: the node is erased with what is in it.
DropAlways(list, p) == IF p # 1 THEN RemoveAt(list, p) ELSE list

\* A node that has become empty is erased, unless it is the first.
DropIfEmpty(list, p) ==
  IF list[p].elements = <<>> /\ p # 1 THEN RemoveAt(list, p) ELSE list

incrementFrequency(u) ==
  LET entry == cache_map[u]
      current == entry.node
      f == frequency_list[PositionOf(frequency_list, current)].frequency + 1
      next_it == NextPosition(frequency_list, f)
      grown == WithNodeAt(frequency_list, next_it, f)
      moved == Splice(grown, PositionOf(grown, current), next_it, entry.element)
  IN /\ cache_map' = [cache_map EXCEPT ![u].node = grown[next_it].id]
     /\ frequency_list' = DropIfEmpty(moved, PositionOf(moved, current))

\* A find that returns a pointer, or an add of a url that is cached: the new
\* response is dropped, the old one kept.
FindHit(u) ==
  /\ u \in DOMAIN cache_map
  /\ incrementFrequency(u)
  /\ UNCHANGED <<capacity, heap, crashed>>

AddPresent(u) == FindHit(u)

\* A find that returns nullptr.
FindMiss(u) ==
  /\ u \notin DOMAIN cache_map
  /\ UNCHANGED lfuVars

\* Mutants: the comparison off by one, and the wrong way round.
IsAlmostFull == Cardinality(DOMAIN cache_map) + 1 >= capacity
IsNotFull == Cardinality(DOMAIN cache_map) <= capacity

IsFull == Cardinality(DOMAIN cache_map) >= capacity

\* evict's loop: the first node that has elements, 0 when it runs off the list.
VictimPosition ==
  SelectInSeq(frequency_list, LAMBDA node : node.elements # <<>>)

\* evict: the three structures after the last element of that node is gone.
Evicted ==
  LET p == VictimPosition
      victim == Last(frequency_list[p].elements)
      popped == WithElements(frequency_list, p, Front(frequency_list[p].elements))
  IN [list |-> DropIfEmpty(popped, p),
      map  |-> Restrict(cache_map, DOMAIN cache_map \ {heap[victim].url}),
      heap |-> [heap EXCEPT ![victim] = Free]]

\* add of a url that is not cached: the element goes to the front of the first
\* node, which the code calls least_frequent.
AddNew(u, v) ==
  /\ u \notin DOMAIN cache_map
  /\ IsFull => VictimPosition # 0
  /\ LET kept == IF IsFull THEN Evicted
                 ELSE [list |-> frequency_list, map |-> cache_map, heap |-> heap]
     IN \E c \in Cells :
          /\ kept.heap[c] = Free
          /\ frequency_list' = Pushed(kept.list, 1, c)
          /\ cache_map' = [x \in DOMAIN kept.map \cup {u} |->
               IF x = u THEN [node |-> kept.list[1].id, element |-> c]
                        ELSE kept.map[x]]
          /\ heap' = [kept.heap EXCEPT ![c] = [url |-> u, data |-> v]]
  /\ UNCHANGED <<capacity, crashed>>

\* With capacity 0 evict runs off the end of the list.
AddCrash(u) ==
  /\ u \notin DOMAIN cache_map
  /\ IsFull
  /\ VictimPosition = 0
  /\ crashed' = TRUE
  /\ UNCHANGED <<capacity, frequency_list, cache_map, heap>>

\* Mutant: the map entry is cleared instead of erased.
RemoveUrlByClearing(u) ==
  /\ u \in DOMAIN cache_map
  /\ LET entry == cache_map[u]
         p == PositionOf(frequency_list, entry.node)
     IN /\ frequency_list' = Erased(frequency_list, p, entry.element)
        /\ cache_map' = [cache_map EXCEPT ![u].element = Free]
        /\ heap' = [heap EXCEPT ![entry.element] = Free]
  /\ UNCHANGED <<capacity, crashed>>

\* remove leaves its node in the list, empty or not.
RemoveUrl(u) ==
  /\ u \in DOMAIN cache_map
  /\ LET entry == cache_map[u]
         p == PositionOf(frequency_list, entry.node)
     IN /\ frequency_list' = Erased(frequency_list, p, entry.element)
        /\ cache_map' = Restrict(cache_map, DOMAIN cache_map \ {u})
        /\ heap' = [heap EXCEPT ![entry.element] = Free]
  /\ UNCHANGED <<capacity, crashed>>

-----------------------------------------------------------------------------
(* What keeps the structures together.                                     *)

\* A pointer to a node leads to one node.
NodesAreDistinct ==
  \A i, j \in DOMAIN frequency_list :
    frequency_list[i].id = frequency_list[j].id => i = j

\* Every element of a node is live, and the map leads to it there, and so to no
\* other node.
ElementsAreMapped ==
  \A node \in Range(frequency_list) : \A c \in Range(node.elements) :
    /\ heap[c] # Free
    /\ heap[c].url \in DOMAIN cache_map
    /\ cache_map[heap[c].url] = [node |-> node.id, element |-> c]

\* Every map entry leads to a node of the list and an element of that url in it.
MapIsFiled ==
  \A u \in DOMAIN cache_map :
    /\ heap[cache_map[u].element] # Free
    /\ heap[cache_map[u].element].url = u
    /\ \E node \in Range(frequency_list) :
         /\ node.id = cache_map[u].node
         /\ cache_map[u].element \in Range(node.elements)

\* No element is twice in a node, which would free it twice.
NoDuplicates ==
  \A node \in Range(frequency_list) : IsInjective(node.elements)

\* Every allocated element can still be reached.
NoLeak ==
  \A c \in Cells : heap[c] # Free =>
    \E node \in Range(frequency_list) : c \in Range(node.elements)

\* After any sequence of find, add, remove and evict (LFUCache.cpp:23-127) every
\* live element is in exactly one node, and the map leads to that node and that
\* element and to nothing else: no pointer to an erased node, no element freed
\* twice, lost, or under two urls, although incrementFrequency erases the node
\* it has just taken an element from, and two nodes may have one frequency.
Consistent ==
  /\ NodesAreDistinct /\ ElementsAreMapped /\ MapIsFiled
  /\ NoDuplicates /\ NoLeak

\* evict's loop stops at a node with elements (LFUCache.cpp:110-113) unless the
\* cache was made for none.
CrashOnlyWithoutRoom == crashed => capacity = 0

\* find_if stops at the first node with a frequency at least that of the moved
\* element, and the new node goes after it (LFUCache.cpp:87-94): the list does not
\* ascend, and its first node has the highest frequency of all.
FirstNodeIsTheHighest ==
  \A i \in DOMAIN frequency_list :
    frequency_list[i].frequency <= frequency_list[1].frequency

=============================================================================
