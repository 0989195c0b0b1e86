-------------------------- MODULE LFUCacheHistory --------------------------
(***************************************************************************)
(* LFUCache with history variables that record when and how often each url *)
(* was found or added, so that what it discards can be compared with what  *)
(* README.md says.                                                         *)
(***************************************************************************)
EXTENDS LFUCache

CONSTANT MaxClock  \* bound: uses that are recorded

VARIABLES clock, lastUse, uses

history == <<clock, lastUse, uses>>

\* The responses a caller can see, as CachePolicy keeps them.
Responses == [u \in DOMAIN cache_map |-> heap[cache_map[u].element].data]

Policy == INSTANCE CachePolicy WITH store <- Responses

HistoryInit ==
  /\ Init
  /\ clock = 0
  /\ lastUse = [u \in Urls |-> 0]
  /\ uses = [u \in Urls |-> 0]

HistoryNext ==
  /\ ~crashed
  /\ clock < MaxClock
  /\ \E u \in Urls :
       \/ FindHit(u) /\ Policy!Use(u, uses[u] + 1)
       \/ FindMiss(u) /\ UNCHANGED history
       \/ AddPresent(u) /\ Policy!Use(u, uses[u] + 1)
       \/ (\E v \in Values : AddNew(u, v)) /\ Policy!Use(u, 1)
       \/ AddCrash(u) /\ UNCHANGED history
       \/ RemoveUrl(u) /\ UNCHANGED history

historyVars == <<lfuVars, history>>

HistorySpec == HistoryInit /\ [][HistoryNext]_historyVars

-----------------------------------------------------------------------------

\* LFUCache.cpp:23-127 keeps at most capacity responses, discards one only to
\* make room, and keeps a stored response unchanged, whichever it discards.
EvictsOnlyToMakeRoom == Policy!BoundedSpec

\* README.md:103, "LFU (Least Frequently Used): Discards the least frequently
\* used items first when the cache is full."
EvictsLeastFrequentlyUsed == Policy!LFUSpec

=============================================================================
