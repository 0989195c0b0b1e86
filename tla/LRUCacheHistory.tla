-------------------------- MODULE LRUCacheHistory --------------------------
(***************************************************************************)
(* LRUCache with history variables that record when and how often each url *)
(* was found or added, and the claim that the list-and-map implementation  *)
(* discards what README.md says an LRU cache discards.                     *)
(***************************************************************************)
EXTENDS LRUCache

CONSTANT MaxClock  \* bound: uses that are recorded

VARIABLES clock, lastUse, uses

history == <<clock, lastUse, uses>>

\* The responses a caller can see, as CachePolicy keeps them.
Responses == [u \in DOMAIN cache_map |-> heap[cache_map[u]].data]

Policy == INSTANCE CachePolicy WITH store <- Responses

HistoryInit ==
  /\ Init
  /\ clock = 0
  /\ lastUse = [u \in Urls |-> 0]
  /\ uses = [u \in Urls |-> 0]

HistoryNext ==
  /\ ~crashed
  /\ clock < MaxClock
  /\ \E u \in Urls :
       \/ FindHit(u) /\ Policy!Use(u, uses[u] + 1)
       \/ FindMiss(u) /\ UNCHANGED history
       \/ AddPresent(u) /\ Policy!Use(u, uses[u] + 1)
       \/ (\E v \in Values : AddNew(u, v)) /\ Policy!Use(u, 1)
       \/ AddCrash(u) /\ UNCHANGED history
       \/ RemoveUrl(u) /\ UNCHANGED history

historyVars == <<lruVars, history>>

HistorySpec == HistoryInit /\ [][HistoryNext]_historyVars

-----------------------------------------------------------------------------

\* README.md:102, "LRU (Least Recently Used): Discards the least recently used
\* items first when the cache is full": LRUCache.cpp:28-84 implements CachePolicy
\* with that choice of victim, and keeps a stored response unchanged.
EvictsLeastRecentlyUsed == Policy!LRUSpec

=============================================================================
