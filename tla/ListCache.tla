------------------------------ MODULE ListCache ------------------------------
(***************************************************************************)
(* The cache of the earlier C servers, here as                             *)
(* v1/proxy_server_with_threadpool_and_cache.c has it: a list of elements, *)
(* the newest first, under one mutex, `lock'.  handle_client looks its     *)
(* request up and, when there is no response, fetches one and adds it.     *)
(*                                                                         *)
(* find, and an add that has room, hold the lock from beginning to end and *)
(* are one action each.  An add that has no room calls                     *)
(* remove_cache_element with the lock held, and that begins by locking the *)
(* same mutex, which is not recursive.  It is called from nowhere else, so *)
(* no element is ever removed, and lru_time_track, which only              *)
(* remove_cache_element reads, is left out.  Sizes are in units.           *)
(***************************************************************************)
EXTENDS Naturals, FiniteSets, Sequences, Functions

CONSTANTS Threads,
          NoThread,
          Urls,            \* requests, which the cache calls urls
          NoUrl,
          ElementSize,     \* of the element for each url, the struct included
          MaxSize,         \* MAX_SIZE
          MaxElementSize   \* MAX_ELEMENT_SIZE

VARIABLES
  lock,        \* the thread that keeps the lock across steps
  elements,    \* the urls of the list's elements, from the head on
  cache_size,
  step,        \* where in handle_client each thread is
  url          \* what each thread has been asked for

cacheVars == <<lock, elements, cache_size, step, url>>

CacheTypeOK ==
  /\ lock \in Threads \cup {NoThread}
  /\ elements \in Seq(Urls)
  /\ cache_size \in Nat
  /\ step \in [Threads -> {"idle", "find", "fetch", "add", "remove", "answered"}]
  /\ url \in [Threads -> Urls \cup {NoUrl}]

CacheInit ==
  /\ lock = NoThread
  /\ elements = <<>>
  /\ cache_size = 0
  /\ step = [t \in Threads |-> "idle"]
  /\ url = [t \in Threads |-> NoUrl]

-----------------------------------------------------------------------------

Goto(t, label) == step' = [step EXCEPT ![t] = label]

\* handle_client has read what the client sends.
Receive(t) ==
  /\ step[t] = "idle"
  /\ \E u \in Urls : url' = [url EXCEPT ![t] = u]
  /\ Goto(t, "find")
  /\ UNCHANGED <<lock, elements, cache_size>>

\* find with a key that goes on behind the request, as in ThreadPerClient; and so a
\* mutant.
FindGarbled(t) ==
  /\ step[t] = "find"
  /\ lock = NoThread
  /\ Goto(t, "fetch")
  /\ UNCHANGED <<lock, elements, cache_size, url>>

\* find: on a hit the response is sent, on a miss it has to be fetched.
Find(t) ==
  /\ step[t] = "find"
  /\ lock = NoThread
  /\ Goto(t, IF url[t] \in Range(elements) THEN "answered" ELSE "fetch")
  /\ UNCHANGED <<lock, elements, cache_size, url>>

\* The client has left or sent no request, no GET, or one whose origin cannot be
\* reached.
NoResponse(t) ==
  /\ step[t] = "fetch"
  /\ Goto(t, "answered")
  /\ UNCHANGED <<lock, elements, cache_size, url>>

\* handle_request has relayed the response.
Relay(t) ==
  /\ step[t] = "fetch"
  /\ Goto(t, "add")
  /\ UNCHANGED <<lock, elements, cache_size, url>>

\* add_cache_element of an element that is too large to cache.
AddTooLarge(t) ==
  /\ step[t] = "add"
  /\ lock = NoThread
  /\ ElementSize[url[t]] > MaxElementSize
  /\ Goto(t, "answered")
  /\ UNCHANGED <<lock, elements, cache_size, url>>

\* Mutant: the size of the cache is compared without the new element's.
HasRoomNow(size) == cache_size <= MaxSize

HasRoom(size) == cache_size + size <= MaxSize

\* add_cache_element with room for the element.
Add(t) ==
  /\ step[t] = "add"
  /\ lock = NoThread
  /\ ElementSize[url[t]] <= MaxElementSize
  /\ HasRoom(ElementSize[url[t]])
  /\ elements' = <<url[t]>> \o elements
  /\ cache_size' = cache_size + ElementSize[url[t]]
  /\ Goto(t, "answered")
  /\ UNCHANGED <<lock, url>>

\* add_cache_element without: the thread is in remove_cache_element, waiting for
\* the lock it has.
AddToFull(t) ==
  /\ step[t] = "add"
  /\ lock = NoThread
  /\ ElementSize[url[t]] <= MaxElementSize
  /\ ~HasRoom(ElementSize[url[t]])
  /\ lock' = t
  /\ Goto(t, "remove")
  /\ UNCHANGED <<elements, cache_size, url>>

\* The end of handle_client: the request is freed.
Return(t) ==
  /\ step[t] = "answered"
  /\ url' = [url EXCEPT ![t] = NoUrl]
  /\ Goto(t, "idle")
  /\ UNCHANGED <<lock, elements, cache_size>>

\* The steps of handle_client between its first and its last.
CacheStep(t) ==
  Find(t) \/ NoResponse(t) \/ Relay(t) \/ AddTooLarge(t) \/ Add(t)
    \/ AddToFull(t)

-----------------------------------------------------------------------------

\* The units of memory the elements take: each goes by its element's position.
Used == UNION {{n} \X (1..ElementSize[elements[n]]) : n \in DOMAIN elements}

\* cache_size is what the elements take, and within the limit
\* (v1/proxy_server_with_threadpool_and_cache.c:551-579).
SizeIsAccounted ==
  /\ cache_size = Cardinality(Used)
  /\ cache_size <= MaxSize

CopiesOf(u) == Cardinality({n \in DOMAIN elements : elements[n] = u})

=============================================================================
