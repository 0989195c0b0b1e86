----------------------------- MODULE ClientQueue -----------------------------
(***************************************************************************)
(* The queue of accepted clients in the earlier C server,                  *)
(* v1/proxy_server_with_threadpool_and_cache.c: a linked list with head    *)
(* and tail, one main thread that accepts and enqueues, worker threads     *)
(* that dequeue and handle.  Whoever reads or writes the list holds        *)
(* queue_lock from the first access to the last, and pthread_cond_wait     *)
(* gives it up atomically, so a critical section is one action.            *)
(***************************************************************************)
EXTENDS Naturals, FiniteSets, Sequences, Functions

CONSTANTS Workers,     \* THREAD_POOL_SIZE threads
          Cells,       \* memory for nodes
          NULL, Free,  \* no node, and the content of a cell not allocated
          NoClient,    \* a worker that handles nobody
          MaxClients,  \* bound: connections that are accepted
          MaxSpurious  \* bound: wakeups without a signal

ASSUME ClientQueueAssumption ==
  /\ IsFiniteSet(Cells) /\ NULL \notin Cells
  /\ NoClient \notin Nat
  /\ MaxClients \in Nat /\ MaxSpurious \in Nat
  /\ Free \notin [client_socket : Nat, next : Cells \cup {NULL}]

VARIABLES
  queue_head, queue_tail,
  heap,      \* content of every cell
  new_node,  \* the node main is about to link, or NULL
  pc,        \* where each worker is
  handled,   \* the client each worker handles
  accepted,  \* clients accepted so far, numbered 1, 2, ...
  done,      \* history: the clients whose handler has returned
  spurious   \* spurious wakeups so far

vars == <<queue_head, queue_tail, heap, new_node, pc, handled, accepted, done,
          spurious>>

Nodes == [client_socket : Nat, next : Cells \cup {NULL}]
At(label) == {w \in Workers : pc[w] = label}

TypeOK ==
  /\ queue_head \in Cells \cup {NULL}
  /\ queue_tail \in Cells \cup {NULL}
  /\ heap \in [Cells -> Nodes \cup {Free}]
  /\ new_node \in Cells \cup {NULL}
  /\ pc \in [Workers -> {"lock", "waiting", "handle"}]
  /\ handled \in [Workers -> Nat \cup {NoClient}]
  /\ accepted \in 0..MaxClients
  /\ done \subseteq 1..MaxClients
  /\ spurious \in 0..MaxSpurious

Init ==
  /\ queue_head = NULL
  /\ queue_tail = NULL
  /\ heap = [c \in Cells |-> Free]
  /\ new_node = NULL
  /\ pc = [w \in Workers |-> "lock"]
  /\ handled = [w \in Workers |-> NoClient]
  /\ accepted = 0
  /\ done = {}
  /\ spurious = 0

-----------------------------------------------------------------------------

\* accept, and the node that enqueue makes before it takes the lock.
Accept ==
  /\ new_node = NULL
  /\ accepted < MaxClients
  /\ accepted' = accepted + 1
  /\ \E c \in Cells :
       /\ heap[c] = Free
       /\ new_node' = c
       /\ heap' = [heap EXCEPT ![c] = [client_socket |-> accepted', next |-> NULL]]
  /\ UNCHANGED <<queue_head, queue_tail, pc, handled, done, spurious>>

\* Mutant: nobody is signalled.
SignalNobody == UNCHANGED pc

\* pthread_cond_signal: one waiting worker, if any, goes back for the lock.
Signal ==
  \/ At("waiting") = {} /\ UNCHANGED pc
  \/ \E w \in At("waiting") : pc' = [pc EXCEPT ![w] = "lock"]

\* The rest of enqueue, with the lock.
Enqueue ==
  /\ new_node # NULL
  /\ \/ /\ queue_tail = NULL
        /\ queue_head' = new_node
        /\ UNCHANGED heap
     \/ /\ queue_tail # NULL
        /\ heap' = [heap EXCEPT ![queue_tail].next = new_node]
        /\ UNCHANGED queue_head
  /\ queue_tail' = new_node
  /\ new_node' = NULL
  /\ Signal
  /\ UNCHANGED <<handled, accepted, done, spurious>>

\* dequeue finds the list empty.
Wait(w) ==
  /\ pc[w] = "lock"
  /\ queue_head = NULL
  /\ pc' = [pc EXCEPT ![w] = "waiting"]
  /\ UNCHANGED <<queue_head, queue_tail, heap, new_node, handled, accepted, done,
                 spurious>>

\* Mutants: the tail is not reset; the client is read from the last node.
DequeueKeepsTail(w) ==
  /\ pc[w] = "lock"
  /\ queue_head # NULL
  /\ handled' = [handled EXCEPT ![w] = heap[queue_head].client_socket]
  /\ queue_head' = heap[queue_head].next
  /\ heap' = [heap EXCEPT ![queue_head] = Free]
  /\ pc' = [pc EXCEPT ![w] = "handle"]
  /\ UNCHANGED <<queue_tail, new_node, accepted, done, spurious>>
DequeueLast(w) ==
  /\ pc[w] = "lock"
  /\ queue_head # NULL
  /\ handled' = [handled EXCEPT ![w] = heap[queue_tail].client_socket]
  /\ queue_head' = heap[queue_head].next
  /\ queue_tail' = IF queue_head' = NULL THEN NULL ELSE queue_tail
  /\ heap' = [heap EXCEPT ![queue_head] = Free]
  /\ pc' = [pc EXCEPT ![w] = "handle"]
  /\ UNCHANGED <<new_node, accepted, done, spurious>>

\* dequeue unlinks the first node and frees it.
Dequeue(w) ==
  /\ pc[w] = "lock"
  /\ queue_head # NULL
  /\ handled' = [handled EXCEPT ![w] = heap[queue_head].client_socket]
  /\ queue_head' = heap[queue_head].next
  /\ queue_tail' = IF queue_head' = NULL THEN NULL ELSE queue_tail
  /\ heap' = [heap EXCEPT ![queue_head] = Free]
  /\ pc' = [pc EXCEPT ![w] = "handle"]
  /\ UNCHANGED <<new_node, accepted, done, spurious>>

\* Mutant: the client is forgotten before it is handled.
HandleNobody(w) ==
  /\ pc[w] = "handle"
  /\ handled' = [handled EXCEPT ![w] = NoClient]
  /\ done' = done \cup {handled'[w]}
  /\ pc' = [pc EXCEPT ![w] = "lock"]
  /\ UNCHANGED <<queue_head, queue_tail, heap, new_node, accepted, spurious>>

\* handle_client returns, and the worker comes round.
HandleClient(w) ==
  /\ pc[w] = "handle"
  /\ done' = done \cup {handled[w]}
  /\ handled' = [handled EXCEPT ![w] = NoClient]
  /\ pc' = [pc EXCEPT ![w] = "lock"]
  /\ UNCHANGED <<queue_head, queue_tail, heap, new_node, accepted, spurious>>

SpuriousWakeup ==
  /\ spurious < MaxSpurious
  /\ spurious' = spurious + 1
  /\ \E w \in At("waiting") : pc' = [pc EXCEPT ![w] = "lock"]
  /\ UNCHANGED <<queue_head, queue_tail, heap, new_node, handled, accepted, done>>

-----------------------------------------------------------------------------

\* Sequences of different nodes.
Chains ==
  UNION {{s \in [1..n -> Cells] : IsInjective(s)} : n \in 0..Cardinality(Cells)}

\* The nodes that next leads to from the head on; a freed node leads nowhere.
IsChain(s) ==
  LET path == Append(s, NULL) IN
  /\ path[1] = queue_head
  /\ \A n \in DOMAIN s : heap[s[n]] # Free /\ heap[s[n]].next = path[n + 1]

\* The list that starts at the head ends at the tail, and the tail is reset when
\* the last node goes: enqueue links to no freed node, and every allocated node is
\* in the list once or about to be linked (lines 255-264, 276-283).
ListIsWhole ==
  \E s \in Chains :
    /\ IsChain(s)
    /\ queue_tail = IF s = <<>> THEN NULL ELSE s[Len(s)]
    /\ {c \in Cells : heap[c] # Free} = Range(s) \cup ({new_node} \ {NULL})

Chain == CHOOSE s \in Chains : IsChain(s)

Clients == [n \in DOMAIN Chain |-> heap[Chain[n]].client_socket]

Queue == INSTANCE TaskQueue
           WITH Tasks <- 1..MaxClients, tasks <- Clients, running <- handled,
                NoTask <- NoClient

\* The list, the lock and the condition make a queue that hands each client to
\* one worker, oldest first (lines 249-286, 382-390).
ImplementsTaskQueue == Queue!Spec

=============================================================================
