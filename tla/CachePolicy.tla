---------------------------- MODULE CachePolicy ----------------------------
(***************************************************************************)
(* What README.md promises of a cache (lines 14-16, 65 and 100-103), with   *)
(* no list, map or memory in it: `store' holds at most capacity responses, *)
(* a response stays as it was stored until it is discarded, and one is     *)
(* discarded only when the cache is full.  The three specifications differ *)
(* in which one that may be: any, the least recently used, or the least    *)
(* frequently used.                                                        *)
(***************************************************************************)
EXTENDS Naturals, FiniteSets

CONSTANTS Urls, Values

VARIABLES
  capacity, \* maximum number of responses, fixed when the cache is made
  store,    \* the cached responses, a function on the cached urls
  clock,    \* number of uses so far
  lastUse,  \* lastUse[u]: when u was last found or added
  uses      \* uses[u]: how often u was found or added since it was stored

vars == <<capacity, store, clock, lastUse, uses>>

Cached == DOMAIN store

Init ==
  /\ capacity \in Nat
  /\ store = [u \in {} |-> CHOOSE v \in Values : TRUE]
  /\ clock = 0
  /\ lastUse = [u \in Urls |-> 0]
  /\ uses = [u \in Urls |-> 0]

\* A use of u at the next tick; `count' is its number of uses from then on.
Use(u, count) ==
  /\ clock' = clock + 1
  /\ lastUse' = [lastUse EXCEPT ![u] = clock + 1]
  /\ uses' = [uses EXCEPT ![u] = count]

\* A find that hits, or an add of a url that is cached already.
Hit(u) ==
  /\ u \in Cached
  /\ Use(u, uses[u] + 1)
  /\ UNCHANGED <<capacity, store>>

\* An add that stores a response; a full cache discards one of `victims' first.
Store(u, v, victims) ==
  /\ u \notin Cached
  /\ \E gone \in SUBSET victims :
       /\ Cardinality(gone) = IF Cardinality(Cached) < capacity THEN 0 ELSE 1
       /\ store' = [x \in (Cached \ gone) \cup {u} |->
                      IF x = u THEN v ELSE store[x]]
  /\ Use(u, 1)
  /\ UNCHANGED capacity

\* A response is removed on request.
Drop(u) ==
  /\ u \in Cached
  /\ store' = [x \in Cached \ {u} |-> store[x]]
  /\ UNCHANGED <<capacity, clock, lastUse, uses>>

LeastRecentlyUsed == {w \in Cached : \A x \in Cached : lastUse[w] <= lastUse[x]}

LeastFrequentlyUsed == {w \in Cached : \A x \in Cached : uses[w] <= uses[x]}

NextWith(victims) ==
  \E u \in Urls : Hit(u) \/ Drop(u) \/ \E v \in Values : Store(u, v, victims)

\* Any cached response may be the one discarded.
BoundedSpec == Init /\ [][NextWith(Cached)]_vars

\* "LRU (Least Recently Used): Discards the least recently used items first
\* when the cache is full."
LRUSpec == Init /\ [][NextWith(LeastRecentlyUsed)]_vars

\* "LFU (Least Frequently Used): Discards the least frequently used items first
\* when the cache is full."
LFUSpec == Init /\ [][NextWith(LeastFrequentlyUsed)]_vars

=============================================================================
