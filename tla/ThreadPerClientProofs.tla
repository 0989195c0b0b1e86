----------------------- MODULE ThreadPerClientProofs -----------------------
(***************************************************************************)
(* Proofs about the three C programs of the first version, for any number  *)
(* of slots, workers, clients and descriptors, any memory and any cache.   *)
(* The linked queue comes first: it stays one whole list, and what its     *)
(* steps do to the clients in it is what TaskQueue allows. The threads and *)
(* the cache follow, then the theorems about the programs.                 *)
(***************************************************************************)
EXTENDS ThreadPerClient, FiniteSetTheorems, SequenceTheorems,
        WellFoundedInduction, TLAPS

-----------------------------------------------------------------------------
(* Chains, as a matter of their head and the memory.                       *)

\* IsChain for any head and memory.
Leads(s, head, mem) ==
  LET path == Append(s, NULL) IN
  /\ path[1] = head
  /\ \A n \in DOMAIN s : mem[s[n]] # Free /\ mem[s[n]].next = path[n + 1]

\* The clients of its nodes.
Content(s, mem) == [n \in DOMAIN s |-> mem[s[n]].client_socket]

\* A chain is a sequence of different cells, of any length: memory bounds it.
LEMMA ChainIsInjective ==
  \A s : s \in Chains <=> s \in Seq(Cells) /\ IsInjective(s)
<1>1. ASSUME NEW s \in Chains PROVE s \in Seq(Cells) /\ IsInjective(s)
  <2>1. PICK n \in 0..Cardinality(Cells) : s \in [1..n -> Cells] /\ IsInjective(s)
    BY DEF Chains
  <2>2. n \in Nat
    BY FS_CardinalityType, ClientQueueAssumption DEF ClientQueueAssumption
  <2> QED
    BY <2>1, <2>2
<1>2. ASSUME NEW s \in Seq(Cells), IsInjective(s) PROVE s \in Chains
  <2>1. Len(s) \in Nat /\ s \in [1..Len(s) -> Cells]
    BY LenProperties
  <2>2. s \in Injection(1..Len(s), Cells)
    BY <1>2, <2>1 DEF Injection, IsInjective
  <2>3. Cardinality(1..Len(s)) <= Cardinality(Cells)
    BY <2>2, FS_Injection, ClientQueueAssumption DEF ClientQueueAssumption
  <2>4. Cardinality(1..Len(s)) = Len(s)
    BY <2>1, FS_Interval
  <2>5. Cardinality(Cells) \in Nat
    BY FS_CardinalityType, ClientQueueAssumption DEF ClientQueueAssumption
  <2> HIDE DEF Chains
  <2>6. Len(s) \in 0..Cardinality(Cells)
    BY <2>1, <2>3, <2>4, <2>5
  <2> QED
    BY <1>2, <2>1, <2>6 DEF Chains
<1> QED
  BY <1>1, <1>2

\* What Append does.
LEMMA AppendAt ==
  ASSUME NEW S, NEW s \in Seq(S), NEW x
  PROVE  /\ Len(s) \in Nat /\ DOMAIN s = 1..Len(s)
         /\ \A n \in 1..Len(s) : s[n] \in S /\ Append(s, x)[n] = s[n]
         /\ Append(s, x)[Len(s) + 1] = x
         /\ Len(Append(s, x)) = Len(s) + 1
         /\ DOMAIN Append(s, x) = 1..(Len(s) + 1)
         /\ x \in S => Append(s, x) \in Seq(S)
  OBVIOUS

\* A function on an initial segment is a sequence.
LEMMA IsSequence ==
  ASSUME NEW S, NEW n \in Nat, NEW f \in [1..n -> S]
  PROVE  f \in Seq(S) /\ Len(f) = n
  OBVIOUS

\* Leads without path.
LeadsAt(s, head, mem) ==
  /\ head = IF s = <<>> THEN NULL ELSE s[1]
  /\ \A n \in 1..Len(s) :
       /\ mem[s[n]] # Free
       /\ mem[s[n]].next = IF n = Len(s) THEN NULL ELSE s[n + 1]

LEMMA LeadsPointwise ==
  ASSUME NEW s \in Seq(Cells), NEW head, NEW mem
  PROVE  Leads(s, head, mem) <=> LeadsAt(s, head, mem)
<1> DEFINE path == Append(s, NULL)
<1>1. /\ Len(s) \in Nat /\ DOMAIN s = 1..Len(s) /\ path[Len(s) + 1] = NULL
      /\ \A n \in 1..Len(s) : path[n] = s[n]
  BY AppendAt
<1>2. s = <<>> <=> Len(s) = 0
  OBVIOUS
<1> HIDE DEF path
<1>3. path[1] = IF s = <<>> THEN NULL ELSE s[1]
  BY <1>1, <1>2
<1>4. \A n \in 1..Len(s) : path[n + 1] = IF n = Len(s) THEN NULL ELSE s[n + 1]
  <2> SUFFICES ASSUME NEW n \in 1..Len(s)
               PROVE  path[n + 1] = IF n = Len(s) THEN NULL ELSE s[n + 1]
    OBVIOUS
  <2>1. ASSUME NEW k \in Nat, NEW j \in 1..k, j # k PROVE j + 1 \in 1..k
    BY <2>1
  <2>2. n # Len(s) => n + 1 \in 1..Len(s)
    BY <1>1, <2>1
  <2> QED
    BY <1>1, <2>2
<1> QED
  BY <1>1, <1>3, <1>4 DEF Leads, LeadsAt, path

\* Following next from a head, there is one way only.
LEMMA OneChain ==
  ASSUME NEW head, NEW mem, NEW s \in Seq(Cells), NEW t \in Seq(Cells),
         Leads(s, head, mem), Leads(t, head, mem)
  PROVE  s = t
<1> DEFINE P == Append(s, NULL)
           Q == Append(t, NULL)
           Wrong == {n \in Nat : n \in 1..(Len(s) + 1)
                                   /\ ~(n \in 1..(Len(t) + 1) /\ P[n] = Q[n])}
<1>1. /\ Len(s) \in Nat /\ P[Len(s) + 1] = NULL
      /\ \A n \in 1..Len(s) : P[n] = s[n] /\ s[n] \in Cells
      /\ Len(t) \in Nat /\ Q[Len(t) + 1] = NULL
      /\ \A n \in 1..Len(t) : Q[n] = t[n] /\ t[n] \in Cells
  BY AppendAt
<1>2. /\ P[1] = Q[1]
      /\ \A n \in 1..Len(s) : mem[s[n]].next = P[n + 1]
      /\ \A n \in 1..Len(t) : mem[t[n]].next = Q[n + 1]
  BY AppendAt DEF Leads
<1>3. NULL \notin Cells
  BY ClientQueueAssumption DEF ClientQueueAssumption
<1> HIDE DEF P, Q
<1>4. Wrong = {}
  <2> SUFFICES ASSUME Wrong # {} PROVE FALSE
    OBVIOUS
  <2> DEFINE Less == {pair \in Nat \X Nat : pair[1] < pair[2]}
  <2>1. IsWellFoundedOn(Less, Nat)
    BY NatLessThanWellFounded DEF OpToRel
  <2>2. PICK m \in Wrong : \A n \in Wrong : <<n, m>> \notin Less
    <3> HIDE DEF Less
    <3>1. Wrong \subseteq Nat
      OBVIOUS
    <3> HIDE DEF Wrong
    <3> QED
      BY <2>1, <3>1, WFMin
  <2>3. m # 1 /\ m - 1 \in Nat /\ m - 1 \in 1..Len(s) /\ m \in 1..(Len(s) + 1)
    BY <1>1, <1>2
  <2>4. <<m - 1, m>> \in Less
    BY <2>3
  <2>5. m - 1 \notin Wrong
    BY <2>2, <2>4
  <2>6. m - 1 \in 1..(Len(t) + 1) /\ P[m - 1] = Q[m - 1]
    BY <1>1, <2>3, <2>5
  <2>7. m - 1 \in 1..Len(t) /\ s[m - 1] = t[m - 1]
    BY <1>1, <1>3, <2>3, <2>6
  <2>8. P[m] = Q[m] /\ m \in 1..(Len(t) + 1)
    BY <1>1, <1>2, <2>3, <2>7
  <2> QED
    BY <2>8
<1>5. \A n \in 1..(Len(s) + 1) : n \in 1..(Len(t) + 1) /\ P[n] = Q[n]
  BY <1>1, <1>4
<1> HIDE DEF Wrong
<1>6. Len(s) = Len(t)
  <2>1. Len(s) + 1 \in 1..(Len(t) + 1) /\ Q[Len(s) + 1] = NULL
    BY <1>1, <1>5
  <2> QED
    BY <1>1, <1>3, <2>1
<1>7. \A n \in 1..Len(s) : s[n] = t[n]
  BY <1>1, <1>5, <1>6
<1> QED
  BY <1>6, <1>7, SeqEqual

\* So Chain is the one there is, and Clients what it holds.
LEMMA ChainIsTheOne ==
  ASSUME NEW head, NEW mem, NEW s \in Chains, Leads(s, head, mem)
  PROVE  (CHOOSE t \in Chains : Leads(t, head, mem)) = s
<1>1. \A t \in Chains : Leads(t, head, mem) => t = s
  BY OneChain, ChainIsInjective
<1> QED
  BY <1>1

-----------------------------------------------------------------------------
(* The invariant.                                                          *)

\* The list is s: it ends at the tail, has every allocated node but new, and not new.
Holds(s, head, tail, mem, new) ==
  /\ s \in Seq(Cells) /\ IsInjective(s)
  /\ Leads(s, head, mem)
  /\ tail = IF s = <<>> THEN NULL ELSE s[Len(s)]
  /\ {c \in Cells : mem[c] # Free} = Range(s) \cup ({new} \ {NULL})
  /\ new \notin Range(s)

\* Nodes, new_node among them, hold accepted clients; so do workers, while they handle.
NodesHold ==
  /\ heap \in [Cells -> Nodes \cup {Free}]
  /\ \A c \in Cells : heap[c] # Free => heap[c].client_socket \in 1..MaxClients
  /\ new_node \in Cells \cup {NULL}
  /\ new_node # NULL => heap[new_node] # Free /\ heap[new_node].next = NULL

WorkersHandle ==
  /\ pc \in [Workers -> {"lock", "waiting", "handle"}]
  /\ handled = [w \in Workers |-> handled[w]]
  /\ \A w \in Workers : IF pc[w] = "handle" THEN handled[w] \in 1..MaxClients
                        ELSE handled[w] = NoClient

Counters ==
  accepted \in 0..MaxClients /\ done \subseteq 1..MaxClients /\ spurious \in 0..MaxSpurious

QueueInv ==
  /\ NodesHold /\ WorkersHandle /\ Counters
  /\ \E s : Holds(s, queue_head, queue_tail, heap, new_node)

\* What TaskQueue sees changes as it allows.
QueueMoves == Queue!Next \/ UNCHANGED Queue!vars

\* Clients, for the list there is.
LEMMA ClientsInList ==
  ASSUME NEW s, Holds(s, queue_head, queue_tail, heap, new_node)
  PROVE  Clients = Content(s, heap)
<1>1. s \in Chains
  BY ChainIsInjective DEF Holds
<1>2. Chain = CHOOSE t \in Chains : Leads(t, queue_head, heap)
  BY DEF Chain, IsChain, Leads
<1>3. Chain = s
  BY <1>1, <1>2, ChainIsTheOne DEF Holds
<1> QED
  BY <1>3 DEF Clients, Content

\* The same after a step.
LEMMA ClientsInNewList ==
  ASSUME NEW s, Holds(s, queue_head', queue_tail', heap', new_node')
  PROVE  Clients' = Content(s, heap')
<1>1. s \in Chains
  BY ChainIsInjective DEF Holds
<1>2. Chain' = CHOOSE t \in Chains : Leads(t, queue_head', heap')
  BY DEF Chain, IsChain, Leads
<1>3. Chain' = s
  BY <1>1, <1>2, ChainIsTheOne DEF Holds
<1> QED
  BY <1>3 DEF Clients, Content

\* Together: a step that leaves the nodes of the list alone leaves the clients alone.
LEMMA SameList ==
  ASSUME NEW s, Holds(s, queue_head, queue_tail, heap, new_node),
         Holds(s, queue_head', queue_tail', heap', new_node'),
         \A n \in DOMAIN s : heap'[s[n]].client_socket = heap[s[n]].client_socket
  PROVE  Clients' = Clients
<1>1. Clients' = Content(s, heap') /\ Clients = Content(s, heap)
  BY ClientsInList, ClientsInNewList
<1> QED
  BY <1>1 DEF Content

\* Whoever the invariant holds for has the types of TypeOK and a whole list.
LEMMA QueueInvLemma == QueueInv => TypeOK /\ ListIsWhole
<1> SUFFICES ASSUME QueueInv PROVE TypeOK /\ ListIsWhole
  OBVIOUS
<1>1. PICK s : Holds(s, queue_head, queue_tail, heap, new_node)
  BY DEF QueueInv
<1>2. s \in Seq(Cells) /\ s \in Chains
  BY <1>1, ChainIsInjective DEF Holds
<1>3. ListIsWhole
  BY <1>1, <1>2 DEF Holds, ListIsWhole, IsChain, Leads
<1>4. queue_head \in Cells \cup {NULL} /\ queue_tail \in Cells \cup {NULL}
  <2>1. queue_head = IF s = <<>> THEN NULL ELSE s[1]
    BY <1>1, <1>2, LeadsPointwise DEF Holds, LeadsAt
  <2>2. queue_tail = IF s = <<>> THEN NULL ELSE s[Len(s)]
    BY <1>1 DEF Holds
  <2>3. s # <<>> => 1 \in 1..Len(s) /\ Len(s) \in 1..Len(s)
    BY <1>2
  <2>4. \A n \in 1..Len(s) : s[n] \in Cells
    BY <1>2
  <2> QED
    BY <2>1, <2>2, <2>3, <2>4
<1>5. handled \in [Workers -> Nat \cup {NoClient}]
  <2>1. MaxClients \in Nat
    BY ClientQueueAssumption DEF ClientQueueAssumption
  <2>2. \A w \in Workers : handled[w] \in Nat \cup {NoClient}
    BY <2>1 DEF QueueInv, WorkersHandle
  <2> QED
    BY <2>2 DEF QueueInv, WorkersHandle
<1> QED
  BY <1>3, <1>4, <1>5 DEF QueueInv, NodesHold, WorkersHandle, Counters, TypeOK

LEMMA QueueInitially == Init => QueueInv /\ Queue!Init
<1> SUFFICES ASSUME Init PROVE QueueInv /\ Queue!Init
  OBVIOUS
<1>1. MaxClients \in Nat /\ MaxSpurious \in Nat
  BY ClientQueueAssumption DEF ClientQueueAssumption
<1>2. Holds(<<>>, queue_head, queue_tail, heap, new_node)
  <2>1. <<>> \in Seq(Cells) /\ Range(<<>>) = {}
    BY DEF Range
  <2>2. IsInjective(<<>>)
    BY DEF IsInjective
  <2>3. Leads(<<>>, queue_head, heap)
    <3>1. Len(<<>>) = 0 /\ queue_head = NULL /\ \A n \in 1..0 : FALSE
      BY DEF Init
    <3> QED
      BY <2>1, <3>1, LeadsPointwise DEF LeadsAt
  <2> QED
    BY <2>1, <2>2, <2>3 DEF Init, Holds
<1>3. NodesHold /\ WorkersHandle /\ Counters
  BY <1>1 DEF Init, NodesHold, WorkersHandle, Counters
<1>4. Clients = <<>>
  <2>1. Clients = Content(<<>>, heap)
    BY <1>2, ClientsInList
  <2> QED
    BY <2>1 DEF Content
<1> QED
  BY <1>2, <1>3, <1>4 DEF QueueInv, Queue!Init, Init

-----------------------------------------------------------------------------
(* The steps.                                                              *)

\* What happens to other nodes does not matter to a chain.
LEMMA LeadsElsewhere ==
  ASSUME NEW s \in Seq(Cells), NEW head, NEW mem, NEW mem2, Leads(s, head, mem),
         \A c \in Range(s) : mem2[c] = mem[c]
  PROVE  Leads(s, head, mem2)
<1>1. \A n \in DOMAIN s : s[n] \in Range(s)
  BY DEF Range
<1> QED
  BY <1>1 DEF Leads

\* Main makes a node from a free cell.
LEMMA AcceptStep == QueueInv /\ Accept => QueueInv' /\ QueueMoves
<1> SUFFICES ASSUME QueueInv, Accept PROVE QueueInv' /\ QueueMoves
  OBVIOUS
<1>1. PICK s : Holds(s, queue_head, queue_tail, heap, new_node)
  BY DEF QueueInv
<1>2. PICK c \in Cells :
        /\ heap[c] = Free /\ new_node' = c
        /\ heap' = [heap EXCEPT ![c] = [client_socket |-> accepted', next |-> NULL]]
  BY DEF Accept
<1>3. /\ new_node = NULL /\ accepted < MaxClients /\ accepted' = accepted + 1
      /\ UNCHANGED <<queue_head, queue_tail, pc, handled, done, spurious>>
  BY DEF Accept
<1>4. /\ accepted' \in 0..MaxClients /\ accepted' \in 1..MaxClients /\ accepted' \in Nat
      /\ MaxClients \in Nat
  BY <1>3, ClientQueueAssumption DEF ClientQueueAssumption, QueueInv, Counters
<1> DEFINE node == [client_socket |-> accepted', next |-> NULL]
<1>5. node \in Nodes /\ node # Free /\ node.client_socket = accepted' /\ node.next = NULL
  BY <1>4, ClientQueueAssumption DEF ClientQueueAssumption, Nodes
<1>6. /\ heap' \in [Cells -> Nodes \cup {Free}]
      /\ heap'[c] = node
      /\ \A d \in Cells : d # c => heap'[d] = heap[d]
  BY <1>2, <1>5 DEF QueueInv, NodesHold
<1> HIDE DEF node
<1>7. NodesHold'
  BY <1>2, <1>4, <1>5, <1>6 DEF QueueInv, NodesHold
<1>8. WorkersHandle' /\ Counters'
  BY <1>3, <1>4 DEF QueueInv, WorkersHandle, Counters
<1>9. s \in Seq(Cells) /\ Range(s) \subseteq {d \in Cells : heap[d] # Free} /\ c \notin Range(s)
  BY <1>1, <1>2 DEF Holds
<1>10. \A d \in Range(s) : heap'[d] = heap[d]
  BY <1>6, <1>9
<1>11. Leads(s, queue_head', heap')
  BY <1>1, <1>3, <1>9, <1>10, LeadsElsewhere DEF Holds
<1>12. {d \in Cells : heap'[d] # Free} = Range(s) \cup ({c} \ {NULL})
  <2>1. {d \in Cells : heap[d] # Free} = Range(s)
    BY <1>1, <1>3 DEF Holds
  <2>2. c # NULL
    BY ClientQueueAssumption DEF ClientQueueAssumption
  <2>3. {d \in Cells : heap'[d] # Free} = {d \in Cells : heap[d] # Free} \cup {c}
    BY <1>5, <1>6
  <2> QED
    BY <2>1, <2>2, <2>3
<1>13. Holds(s, queue_head', queue_tail', heap', new_node')
  BY <1>1, <1>2, <1>3, <1>9, <1>11, <1>12 DEF Holds
<1>14. Clients' = Clients
  <2>1. \A n \in DOMAIN s : heap'[s[n]].client_socket = heap[s[n]].client_socket
    BY <1>10 DEF Range
  <2> QED
    BY <1>1, <1>13, <2>1, SameList
<1> QED
  BY <1>3, <1>7, <1>8, <1>13, <1>14 DEF QueueInv, QueueMoves, Queue!vars

\* Workers change places between the lock and the wait set; nothing else changes.
LEMMA WaitStep ==
  ASSUME QueueInv, pc' \in [Workers -> {"lock", "waiting", "handle"}],
         \A w \in Workers : pc'[w] = "handle" <=> pc[w] = "handle",
         spurious' \in 0..MaxSpurious,
         UNCHANGED <<queue_head, queue_tail, heap, new_node, handled, accepted, done>>
  PROVE  QueueInv' /\ QueueMoves
<1>1. PICK s : Holds(s, queue_head, queue_tail, heap, new_node)
  BY DEF QueueInv
<1>2. NodesHold' /\ WorkersHandle' /\ Counters'
  BY DEF QueueInv, NodesHold, WorkersHandle, Counters
<1>3. Holds(s, queue_head', queue_tail', heap', new_node')
  BY <1>1
<1>4. Clients' = Clients
  BY <1>1, <1>3, SameList
<1> QED
  BY <1>2, <1>3, <1>4 DEF QueueInv, QueueMoves, Queue!vars

\* A worker's client is done with.
LEMMA HandleStep ==
  ASSUME QueueInv, NEW w \in Workers, HandleClient(w)
  PROVE  QueueInv' /\ QueueMoves
<1>1. PICK s : Holds(s, queue_head, queue_tail, heap, new_node)
  BY DEF QueueInv
<1>2. UNCHANGED <<queue_head, queue_tail, heap, new_node, accepted, spurious>>
  BY DEF HandleClient
<1>3. pc[w] = "handle" /\ handled[w] \in 1..MaxClients /\ MaxClients \in Nat
  BY ClientQueueAssumption
     DEF ClientQueueAssumption, HandleClient, QueueInv, WorkersHandle
<1>4. NodesHold' /\ WorkersHandle' /\ Counters'
  BY <1>2, <1>3 DEF HandleClient, QueueInv, NodesHold, WorkersHandle, Counters
<1>5. Holds(s, queue_head', queue_tail', heap', new_node')
  BY <1>1, <1>2
<1>6. Clients' = Clients
  BY <1>1, <1>2, <1>5, SameList
<1>7. handled[w] # NoClient /\ handled' = [handled EXCEPT ![w] = NoClient]
  BY <1>3, ClientQueueAssumption DEF ClientQueueAssumption, HandleClient
<1> QED
  BY <1>4, <1>5, <1>6, <1>7 DEF QueueInv, QueueMoves, Queue!Next, Queue!Finish

\* A chain by positions.
LEMMA HoldsAt ==
  ASSUME NEW s, NEW head, NEW tail, NEW mem, NEW new, Holds(s, head, tail, mem, new)
  PROVE  /\ s \in Seq(Cells) /\ Len(s) \in Nat /\ DOMAIN s = 1..Len(s)
         /\ s = <<>> <=> Len(s) = 0
         /\ \A n \in 1..Len(s) :
              /\ s[n] \in Cells /\ s[n] \in Range(s) /\ mem[s[n]] # Free
              /\ mem[s[n]].next = IF n = Len(s) THEN NULL ELSE s[n + 1]
         /\ \A m, n \in 1..Len(s) : s[m] = s[n] => m = n
         /\ head = IF Len(s) = 0 THEN NULL ELSE s[1]
         /\ tail = IF Len(s) = 0 THEN NULL ELSE s[Len(s)]
<1>1. s \in Seq(Cells) /\ Len(s) \in Nat /\ DOMAIN s = 1..Len(s)
  BY DEF Holds
<1>2. s = <<>> <=> Len(s) = 0
  BY <1>1
<1>3. \A n \in 1..Len(s) : s[n] \in Cells /\ s[n] \in Range(s)
  BY <1>1 DEF Range
<1>4. /\ head = IF s = <<>> THEN NULL ELSE s[1]
      /\ \A n \in 1..Len(s) :
           /\ mem[s[n]] # Free
           /\ mem[s[n]].next = IF n = Len(s) THEN NULL ELSE s[n + 1]
  <2>1. Leads(s, head, mem)
    BY DEF Holds
  <2>2. LeadsAt(s, head, mem)
    BY <1>1, <2>1, LeadsPointwise
  <2> QED
    BY <2>2 DEF LeadsAt
<1> QED
  BY <1>1, <1>2, <1>3, <1>4 DEF Holds, IsInjective

\* new_node becomes the last of the list.
LEMMA EnqueueStep == QueueInv /\ Enqueue => QueueInv' /\ QueueMoves
<1> SUFFICES ASSUME QueueInv, Enqueue PROVE QueueInv' /\ QueueMoves
  OBVIOUS
<1>1. PICK s : Holds(s, queue_head, queue_tail, heap, new_node)
  BY DEF QueueInv
<1> DEFINE x == new_node
           n == Len(s)
           t == Append(s, x)
<1>2. /\ s \in Seq(Cells) /\ n \in Nat /\ DOMAIN s = 1..n
      /\ \A k \in 1..n : /\ s[k] \in Cells /\ s[k] \in Range(s) /\ heap[s[k]] # Free
                         /\ heap[s[k]].next = IF k = n THEN NULL ELSE s[k + 1]
      /\ \A j, k \in 1..n : s[j] = s[k] => j = k
      /\ queue_head = IF n = 0 THEN NULL ELSE s[1]
      /\ queue_tail = IF n = 0 THEN NULL ELSE s[n]
  BY <1>1, HoldsAt
<1>3. /\ x \in Cells /\ x # NULL /\ heap[x] # Free /\ heap[x].next = NULL
      /\ x \notin Range(s)
      /\ NULL \notin Cells
  BY <1>1, ClientQueueAssumption
     DEF ClientQueueAssumption, Enqueue, QueueInv, NodesHold, Holds
<1>4. /\ queue_tail' = x /\ new_node' = NULL
      /\ UNCHANGED <<handled, accepted, done, spurious>>
  BY DEF Enqueue
<1>5. /\ t \in Seq(Cells) /\ Len(t) = n + 1 /\ DOMAIN t = 1..(n + 1)
      /\ t[n + 1] = x
      /\ \A k \in 1..n : t[k] = s[k]
  <2> HIDE DEF x
  <2>1. s \in Seq(Cells) /\ x \in Cells
    BY <1>2, <1>3
  <2>2. /\ \A k \in 1..Len(s) : Append(s, x)[k] = s[k]
        /\ Append(s, x)[Len(s) + 1] = x
        /\ Len(Append(s, x)) = Len(s) + 1
        /\ DOMAIN Append(s, x) = 1..(Len(s) + 1)
        /\ Append(s, x) \in Seq(Cells)
    BY ONLY <2>1, AppendAt
  <2> QED
    BY <2>2
<1> HIDE DEF x, n, t
<1>6. /\ heap' \in [Cells -> Nodes \cup {Free}]
      /\ \A c \in Cells : /\ heap'[c] # Free <=> heap[c] # Free
                          /\ heap[c] # Free =>
                               heap'[c].client_socket = heap[c].client_socket
      /\ heap'[x] = heap[x]
      /\ \A k \in 1..n : heap'[s[k]].next = IF k = n THEN x ELSE s[k + 1]
      /\ queue_head' = IF n = 0 THEN x ELSE s[1]
  <2>1. CASE n = 0
    <3>1. queue_head' = x /\ UNCHANGED heap
      BY <1>2, <1>3, <2>1 DEF Enqueue, x
    <3> QED
      BY <1>2, <2>1, <3>1 DEF QueueInv, NodesHold
  <2>2. CASE n # 0
    <3>1. n \in 1..n
      BY <1>2, <2>2
    <3>2. /\ queue_tail = s[n] /\ s[n] \in Cells /\ heap[s[n]] # Free
          /\ s[n] # x /\ s[n] # NULL
      BY <1>2, <1>3, <2>2, <3>1
    <3>3. heap' = [heap EXCEPT ![s[n]].next = x] /\ queue_head' = s[1]
      BY <1>2, <2>2, <3>2 DEF Enqueue, x
    <3>4. heap \in [Cells -> Nodes \cup {Free}] /\ heap[s[n]] \in Nodes
      BY <3>2 DEF QueueInv, NodesHold
    <3> DEFINE linked == [heap[s[n]] EXCEPT !.next = x]
    <3>5. /\ linked \in Nodes
          /\ linked.client_socket = heap[s[n]].client_socket /\ linked.next = x
      BY <1>3, <3>4 DEF Nodes
    <3>6. linked # Free
      BY <3>5, ClientQueueAssumption DEF ClientQueueAssumption, Nodes
    <3>7. heap' = [heap EXCEPT ![s[n]] = linked]
      BY <3>3
    <3> HIDE DEF linked
    <3>8. /\ heap' \in [Cells -> Nodes \cup {Free}]
          /\ heap'[s[n]] = linked
          /\ \A c \in Cells : c # s[n] => heap'[c] = heap[c]
      BY <3>2, <3>4, <3>5, <3>7
    <3>9. \A k \in 1..n : k # n => heap'[s[k]].next = s[k + 1]
      BY <1>2, <3>1, <3>8
    <3> QED
      BY <1>3, <2>2, <3>2, <3>3, <3>5, <3>6, <3>8, <3>9
  <2> QED
    BY <2>1, <2>2
<1>7. NodesHold'
  BY <1>4, <1>6 DEF QueueInv, NodesHold
<1>8. WorkersHandle' /\ Counters'
  <2>1. pc' \in [Workers -> {"lock", "waiting", "handle"}]
    BY DEF Enqueue, Signal, QueueInv, WorkersHandle
  <2>2. \A w \in Workers : pc'[w] = "handle" <=> pc[w] = "handle"
    BY DEF Enqueue, Signal, At, QueueInv, WorkersHandle
  <2> QED
    BY <1>4, <2>1, <2>2 DEF QueueInv, WorkersHandle, Counters
<1>9. \A k \in 1..(n + 1) : k = n + 1 \/ k \in 1..n
  BY <1>2
<1>10. Leads(t, queue_head', heap')
  <2>1. t # <<>> /\ t[1] = IF n = 0 THEN x ELSE s[1]
    BY <1>2, <1>5
  <2>2. ASSUME NEW k \in 1..(n + 1)
        PROVE  /\ heap'[t[k]] # Free
               /\ heap'[t[k]].next = IF k = n + 1 THEN NULL ELSE t[k + 1]
    <3>1. CASE k = n + 1
      BY <1>3, <1>5, <1>6, <3>1
    <3>2. CASE k \in 1..n
      <4>1. k # n + 1 /\ t[k] = s[k] /\ heap'[t[k]] # Free
        BY <1>2, <1>5, <1>6, <3>2
      <4>2. CASE k = n
        BY <1>5, <1>6, <3>2, <4>1, <4>2
      <4>3. CASE k # n
        <5>1. k + 1 \in 1..n
          BY <1>2, <3>2, <4>3
        <5> QED
          BY <1>5, <1>6, <3>2, <4>1, <4>3, <5>1
      <4> QED
        BY <4>2, <4>3
    <3> QED
      BY <1>9, <3>1, <3>2
  <2> QED
    BY <1>5, <1>6, <2>1, <2>2, LeadsPointwise DEF LeadsAt
<1>11. Range(t) = Range(s) \cup {x}
  <2>1. Range(t) = {t[k] : k \in 1..(n + 1)} /\ Range(s) = {s[k] : k \in 1..n}
    BY <1>2, <1>5 DEF Range
  <2>2. n + 1 \in 1..(n + 1) /\ \A k \in 1..n : k \in 1..(n + 1)
    BY <1>2
  <2> QED
    BY <1>5, <1>9, <2>1, <2>2
<1>12. IsInjective(t)
  <2>1. ASSUME NEW j \in 1..(n + 1), NEW k \in 1..(n + 1), t[j] = t[k] PROVE j = k
    BY <1>2, <1>3, <1>5, <1>9, <2>1
  <2> QED
    BY <1>5, <2>1 DEF IsInjective
<1>13. Holds(t, queue_head', queue_tail', heap', new_node')
  <2>1. {c \in Cells : heap'[c] # Free} = Range(s) \cup {x}
    BY <1>1, <1>3, <1>6 DEF Holds, x
  <2>2. Range(t) \subseteq Cells
    BY <1>3, <1>11, <2>1
  <2>3. NULL \notin Range(t) /\ t # <<>> /\ t[Len(t)] = x
    BY <1>2, <1>3, <1>5, <2>2
  <2> QED
    BY <1>4, <1>5, <1>10, <1>11, <1>12, <2>1, <2>3 DEF Holds
<1>14. Clients' = Append(Clients, heap[x].client_socket)
  <2>1. Clients = Content(s, heap) /\ Clients' = Content(t, heap')
    BY <1>1, <1>13, ClientsInList, ClientsInNewList
  <2>2. /\ Clients = [k \in 1..n |-> heap[s[k]].client_socket]
        /\ Clients' = [k \in 1..(n + 1) |-> heap'[t[k]].client_socket]
    BY <1>2, <1>5, <2>1 DEF Content
  <2>3. Clients \in Seq(1..MaxClients) /\ Len(Clients) = n
    BY <1>2, <2>2 DEF QueueInv, NodesHold
  <2>4. heap[x].client_socket \in 1..MaxClients
    BY <1>3 DEF QueueInv, NodesHold
  <2>5. Clients' \in Seq(1..MaxClients) /\ Len(Clients') = n + 1
    <3>1. \A k \in 1..(n + 1) : heap'[t[k]].client_socket \in 1..MaxClients
      BY <1>2, <1>3, <1>5, <1>6, <1>9 DEF QueueInv, NodesHold
    <3>2. n + 1 \in Nat
      BY <1>2
    <3>3. Clients' \in [1..(n + 1) -> 1..MaxClients]
      BY <2>2, <3>1
    <3> QED
      BY ONLY <3>2, <3>3, IsSequence
  <2>6. \A k \in 1..(n + 1) :
          Clients'[k] = Append(Clients, heap[x].client_socket)[k]
    <3>1. ASSUME NEW k \in 1..n
          PROVE  Clients'[k] = heap[s[k]].client_socket
      BY <1>2, <1>5, <1>6, <2>2
    <3>2. Clients'[n + 1] = heap[x].client_socket
      BY <1>2, <1>5, <1>6, <2>2
    <3>3. /\ \A k \in 1..n : Append(Clients, heap[x].client_socket)[k] = Clients[k]
          /\ Append(Clients, heap[x].client_socket)[n + 1] = heap[x].client_socket
      BY <2>3, AppendAt
    <3> QED
      BY <1>9, <2>2, <3>1, <3>2, <3>3
  <2>7. /\ Append(Clients, heap[x].client_socket) \in Seq(1..MaxClients)
        /\ Len(Append(Clients, heap[x].client_socket)) = n + 1
    BY <2>3, <2>4
  <2> QED
    BY <2>5, <2>6, <2>7, SeqEqual
<1>15. heap[x].client_socket \in 1..MaxClients
  BY <1>3 DEF QueueInv, NodesHold
<1> QED
  BY <1>4, <1>7, <1>8, <1>13, <1>14, <1>15
     DEF QueueInv, QueueMoves, Queue!Next, Queue!Submit

\* A worker takes the first of the list.
LEMMA DequeueStep ==
  ASSUME QueueInv, NEW w \in Workers, Dequeue(w)
  PROVE  QueueInv' /\ QueueMoves
<1>1. PICK s : Holds(s, queue_head, queue_tail, heap, new_node)
  BY DEF QueueInv
<1> DEFINE n == Len(s)
           t == Tail(s)
<1>2. /\ s \in Seq(Cells) /\ n \in Nat /\ DOMAIN s = 1..n
      /\ \A k \in 1..n : /\ s[k] \in Cells /\ s[k] \in Range(s) /\ heap[s[k]] # Free
                         /\ heap[s[k]].next = IF k = n THEN NULL ELSE s[k + 1]
      /\ \A j, k \in 1..n : s[j] = s[k] => j = k
      /\ queue_head = IF n = 0 THEN NULL ELSE s[1]
      /\ queue_tail = IF n = 0 THEN NULL ELSE s[n]
      /\ s = <<>> <=> n = 0
  BY <1>1, HoldsAt
<1>3. /\ pc[w] = "lock" /\ queue_head # NULL
      /\ UNCHANGED <<new_node, accepted, done, spurious>>
  BY DEF Dequeue
<1>4. n # 0 /\ 1 \in 1..n /\ n - 1 \in Nat
  <2> HIDE DEF n
  <2> QED
    BY <1>2, <1>3
<1>5. /\ t \in Seq(Cells) /\ Len(t) = n - 1 /\ DOMAIN t = 1..(n - 1)
      /\ \A k \in 1..(n - 1) : t[k] = s[k + 1]
  <2>1. /\ t \in Seq(Cells) /\ Len(t) = n - 1
        /\ \A k \in 1..Len(t) : t[k] = s[k + 1]
    BY <1>2, <1>4, HeadTailProperties
  <2> QED
    BY <2>1
<1> HIDE DEF n, t
<1> DEFINE x == s[1]
<1>6. x \in Cells /\ heap[x] # Free /\ queue_head = x
  BY <1>2, <1>4
<1>7. /\ handled' = [handled EXCEPT ![w] = heap[x].client_socket]
      /\ queue_head' = heap[x].next
      /\ queue_tail' = IF queue_head' = NULL THEN NULL ELSE queue_tail
      /\ heap' = [heap EXCEPT ![x] = Free]
      /\ pc' = [pc EXCEPT ![w] = "handle"]
  BY <1>6 DEF Dequeue
<1>8. heap[x].client_socket \in 1..MaxClients
  BY <1>6 DEF QueueInv, NodesHold
<1> HIDE DEF x
<1>9. /\ heap' \in [Cells -> Nodes \cup {Free}]
      /\ heap'[x] = Free
      /\ \A c \in Cells : c # x => heap'[c] = heap[c]
  BY <1>6, <1>7 DEF QueueInv, NodesHold
<1>10. new_node # x
  BY <1>1, <1>2, <1>4 DEF Holds, x
<1>11. NodesHold'
  BY <1>3, <1>9, <1>10 DEF QueueInv, NodesHold
<1>12. WorkersHandle' /\ Counters'
  BY <1>3, <1>7, <1>8 DEF QueueInv, WorkersHandle, Counters
<1>13. \A k \in 1..(n - 1) :
         /\ k \in 1..n /\ k + 1 \in 1..n /\ k + 1 # 1
         /\ t[k] = s[k + 1] /\ t[k] # x /\ t[k] \in Cells
         /\ heap'[t[k]] = heap[s[k + 1]]
  <2> SUFFICES ASSUME NEW k \in 1..(n - 1)
               PROVE  /\ k \in 1..n /\ k + 1 \in 1..n /\ k + 1 # 1
                      /\ t[k] = s[k + 1] /\ t[k] # x /\ t[k] \in Cells
                      /\ heap'[t[k]] = heap[s[k + 1]]
    OBVIOUS
  <2>1. k \in 1..n /\ k + 1 \in 1..n /\ k + 1 # 1
    BY <1>2
  <2>2. t[k] = s[k + 1]
    BY <1>5
  <2>3. s[k + 1] # x /\ s[k + 1] \in Cells
    BY <1>2, <1>4, <2>1 DEF x
  <2> QED
    BY <1>9, <2>1, <2>2, <2>3
<1>14. queue_head' = IF n = 1 THEN NULL ELSE s[2]
  BY <1>2, <1>4, <1>7 DEF x
<1>15. t = <<>> <=> n = 1
  BY <1>2, <1>4, <1>5
<1>16. Leads(t, queue_head', heap')
  <2>1. queue_head' = IF t = <<>> THEN NULL ELSE t[1]
    <3>1. n # 1 => 1 \in 1..(n - 1)
      BY <1>2, <1>4
    <3> QED
      BY <1>5, <1>14, <1>15, <3>1
  <2>2. ASSUME NEW k \in 1..(n - 1)
        PROVE  /\ heap'[t[k]] # Free
               /\ heap'[t[k]].next = IF k = n - 1 THEN NULL ELSE t[k + 1]
    <3>1. heap'[t[k]] = heap[s[k + 1]] /\ k + 1 \in 1..n
      BY <1>13
    <3>2. /\ heap[s[k + 1]] # Free
          /\ heap[s[k + 1]].next = IF k + 1 = n THEN NULL ELSE s[(k + 1) + 1]
      BY <1>2, <3>1
    <3>3. k # n - 1 => k + 1 \in 1..(n - 1)
      BY <1>2, <1>4
    <3>4. k # n - 1 => t[k + 1] = s[(k + 1) + 1]
      BY <1>5, <3>3
    <3>5. k = n - 1 <=> k + 1 = n
      BY <1>2
    <3> QED
      BY <3>1, <3>2, <3>4, <3>5
  <2>3. LeadsAt(t, queue_head', heap')
    BY <1>5, <2>1, <2>2 DEF LeadsAt
  <2> QED
    BY <1>5, <2>3, LeadsPointwise
<1>17. Range(t) = Range(s) \ {x} /\ x \in Range(s)
  <2>1. Range(t) = {t[k] : k \in 1..(n - 1)} /\ Range(s) = {s[k] : k \in 1..n}
    BY <1>2, <1>5 DEF Range
  <2>2. \A k \in 1..n : k = 1 \/ (k - 1 \in 1..(n - 1) /\ (k - 1) + 1 = k)
    BY <1>2
  <2>3. \A k \in 1..n : k # 1 => s[k] \in Range(t)
    BY <1>5, <2>1, <2>2
  <2>4. Range(s) \ {x} \subseteq Range(t)
    BY <2>1, <2>3 DEF x
  <2>5. Range(t) \subseteq Range(s) \ {x}
    BY <1>2, <1>13, <2>1
  <2> QED
    BY <1>2, <1>4, <2>4, <2>5 DEF x
<1>18. IsInjective(t)
  <2>1. ASSUME NEW j \in 1..(n - 1), NEW k \in 1..(n - 1), t[j] = t[k] PROVE j = k
    <3>1. s[j + 1] = s[k + 1] /\ j + 1 \in 1..n /\ k + 1 \in 1..n
      BY <1>13, <2>1
    <3>2. j + 1 = k + 1
      BY <1>2, <3>1
    <3> QED
      BY <3>2
  <2> QED
    BY <1>5, <2>1 DEF IsInjective
<1>19. Holds(t, queue_head', queue_tail', heap', new_node')
  <2>1. queue_tail' = IF t = <<>> THEN NULL ELSE t[Len(t)]
    <3>1. CASE n = 1
      BY <1>7, <1>14, <1>15, <3>1
    <3>2. CASE n # 1
      <4>1. n - 1 \in 1..(n - 1) /\ 2 \in 1..n /\ (n - 1) + 1 = n
        BY <1>2, <1>4, <3>2
      <4>2. t[Len(t)] = s[n]
        BY <1>5, <4>1
      <4>3. queue_head' # NULL
        BY <1>2, <1>14, <3>2, <4>1, ClientQueueAssumption DEF ClientQueueAssumption
      <4> QED
        BY <1>2, <1>4, <1>7, <1>15, <3>2, <4>2, <4>3
    <3> QED
      BY <3>1, <3>2
  <2>2. {c \in Cells : heap'[c] # Free} = {c \in Cells : heap[c] # Free} \ {x}
    BY <1>9
  <2> QED
    BY <1>1, <1>3, <1>5, <1>10, <1>16, <1>17, <1>18, <2>1, <2>2 DEF Holds
<1>20. Clients # <<>> /\ Head(Clients) = heap[x].client_socket /\ Clients' = Tail(Clients)
  <2>1. Clients = Content(s, heap) /\ Clients' = Content(t, heap')
    BY <1>1, <1>19, ClientsInList, ClientsInNewList
  <2>2. /\ Clients = [k \in 1..n |-> heap[s[k]].client_socket]
        /\ Clients' = [k \in 1..(n - 1) |-> heap'[t[k]].client_socket]
    BY <1>2, <1>5, <2>1 DEF Content
  <2>3. Clients \in Seq(1..MaxClients) /\ Len(Clients) = n
    <3>1. \A k \in 1..n : heap[s[k]].client_socket \in 1..MaxClients
      BY <1>2 DEF QueueInv, NodesHold
    <3>2. Clients \in [1..n -> 1..MaxClients]
      BY <2>2, <3>1
    <3> QED
      BY <1>2, <3>2, IsSequence
  <2>4. Clients' \in Seq(1..MaxClients) /\ Len(Clients') = n - 1
    <3>1. \A k \in 1..(n - 1) : heap'[t[k]].client_socket \in 1..MaxClients
      BY <1>2, <1>13 DEF QueueInv, NodesHold
    <3>2. Clients' \in [1..(n - 1) -> 1..MaxClients]
      BY <2>2, <3>1
    <3> QED
      BY <1>4, <3>2, IsSequence
  <2>5. Clients # <<>>
    BY <1>4, <2>3
  <2>6. /\ Tail(Clients) \in Seq(1..MaxClients) /\ Len(Tail(Clients)) = n - 1
        /\ \A k \in 1..(n - 1) : Tail(Clients)[k] = Clients[k + 1]
    BY <2>3, <2>5, HeadTailProperties
  <2>7. \A k \in 1..(n - 1) : Clients'[k] = Clients[k + 1]
    BY <1>13, <2>2
  <2>8. Clients' = Tail(Clients)
    BY <2>4, <2>6, <2>7, SeqEqual
  <2>9. Head(Clients) = Clients[1] /\ Clients[1] = heap[x].client_socket
    BY <1>4, <2>2, <2>3, <2>5 DEF x
  <2> QED
    BY <2>5, <2>8, <2>9
<1>21. handled[w] = NoClient
  BY <1>3 DEF QueueInv, WorkersHandle
<1> QED
  BY <1>7, <1>11, <1>12, <1>19, <1>20, <1>21
     DEF QueueInv, QueueMoves, Queue!Next, Queue!Start

\* Nothing happens to the queue.
LEMMA QueueRests == QueueInv /\ UNCHANGED vars => QueueInv' /\ QueueMoves
<1> SUFFICES ASSUME QueueInv, UNCHANGED vars PROVE QueueInv' /\ QueueMoves
  OBVIOUS
<1>1. pc' \in [Workers -> {"lock", "waiting", "handle"}] /\ spurious' \in 0..MaxSpurious
  BY DEF vars, QueueInv, WorkersHandle, Counters
<1> QED
  BY <1>1, WaitStep DEF vars

\* Every step of the queue keeps the list whole and is one of TaskQueue, or none.
LEMMA QueueStepLemma ==
  ASSUME QueueInv,
         \/ Accept \/ Enqueue \/ SpuriousWakeup \/ UNCHANGED vars
         \/ \E w \in Workers : Wait(w) \/ Dequeue(w) \/ HandleClient(w)
  PROVE  QueueInv' /\ QueueMoves
<1>1. CASE SpuriousWakeup
  <2>1. /\ pc' \in [Workers -> {"lock", "waiting", "handle"}]
        /\ \A w \in Workers : pc'[w] = "handle" <=> pc[w] = "handle"
    BY <1>1 DEF SpuriousWakeup, At, QueueInv, WorkersHandle
  <2>2. spurious' \in 0..MaxSpurious
    BY <1>1, ClientQueueAssumption
       DEF ClientQueueAssumption, SpuriousWakeup, QueueInv, Counters
  <2> QED
    BY <1>1, <2>1, <2>2, WaitStep DEF SpuriousWakeup
<1>2. ASSUME NEW w \in Workers, Wait(w) PROVE QueueInv' /\ QueueMoves
  <2>1. /\ pc' \in [Workers -> {"lock", "waiting", "handle"}]
        /\ \A v \in Workers : pc'[v] = "handle" <=> pc[v] = "handle"
        /\ spurious' \in 0..MaxSpurious
    BY <1>2 DEF Wait, QueueInv, WorkersHandle, Counters
  <2> QED
    BY <1>2, <2>1, WaitStep DEF Wait
<1> QED
  BY <1>1, <1>2, AcceptStep, EnqueueStep, DequeueStep, HandleStep, QueueRests

-----------------------------------------------------------------------------
(* The threads, one for each slot of main's arrays.                        *)

Places == {"none", "wait", "handle", "post", "ended"}

\* The threads that have a permit, and those whose origin's socket is open and will
\* be closed.
Permitted == {t \in Threads : place[t] \in {"handle", "post"}}
Adding == {t \in Threads : step[t] \in {"add", "remove"}}

\* Slots are filled from the first on, each with the client accepted then; a slot
\* that is not filled has no thread.
Slots ==
  /\ i \in 0..MAX_CLIENTS
  /\ place \in [Threads -> Places]
  /\ \A t \in Threads : place[t] # "none" => t <= i
  /\ Connected_socketId = [t \in Threads |-> Connected_socketId[t]]
  /\ \A t \in Threads : Connected_socketId[t] = IF t <= i THEN t ELSE 0
  /\ socket = [t \in Threads |-> socket[t]]
  /\ \A t \in Threads : socket[t] \in {NoSocket, t}

\* The permits that are not in the semaphore are with the threads.
Permits == seamaphore \in Nat /\ seamaphore + Cardinality(Permitted) = MAX_CLIENTS

\* A thread is in handle_client only where thread_fn calls it.
Calls ==
  /\ step = [t \in Threads |-> step[t]]
  /\ program # "threadpool" =>
       \A t \in Threads : step[t] # "idle" => place[t] = "handle"

\* Every descriptor in use is known of.
Descriptors ==
  /\ open \in Int /\ failed \in Nat
  /\ program = "with_cache" =>
       open = Cardinality(Unfinished) + failed + Cardinality(Adding)

Keeping == Slots /\ Permits /\ Calls /\ Descriptors

-----------------------------------------------------------------------------

LEMMA FiniteThreads ==
  /\ MAX_CLIENTS \in Nat
  /\ Threads = 1..MAX_CLIENTS
  /\ IsFiniteSet(Threads)
  /\ \A S \in SUBSET Threads : IsFiniteSet(S) /\ Cardinality(S) \in Nat
BY FS_CardinalityType, FS_Subset, V1Assumption, PerClientAssumption
DEF V1Assumption, PerClientAssumption, MAX_CLIENTS

\* A program without a thread for each client stays without.
LEMMA KeepingInit == AllInit => Keeping
<1> SUFFICES ASSUME AllInit PROVE Keeping
  OBVIOUS
<1> USE DEF AllInit, V1Init, Cache!CacheInit
<1>1. Permitted = {} /\ Adding = {} /\ Unfinished = {}
  BY DEF Permitted, Adding, Unfinished
<1>2. Slots
  BY FiniteThreads DEF Slots, Places
<1>3. Permits /\ Calls /\ Descriptors
  BY <1>1, FiniteThreads, FS_EmptySet DEF Permits, Calls, Descriptors
<1> QED BY <1>2, <1>3 DEF Keeping

\* The thread pool's program leaves the variables of the other two alone.
LEMMA PoolKeeps ==
  ASSUME Keeping, program = "threadpool", V1Next, UNCHANGED <<program, threadVars>>
  PROVE  Keeping'
<1>1. step' = [t \in Threads |-> step'[t]]
  BY DEF V1Next, QueueStep, MainStep, Stop, V1Worker, BeginHandling, KeepHandling,
         EndHandling, cacheVars, Cache!Receive, Cache!CacheStep, Cache!Find,
         Cache!NoResponse, Cache!Relay, Cache!AddTooLarge, Cache!Add,
         Cache!AddToFull, Cache!Return, Cache!Goto, Keeping, Calls
<1> QED
  BY <1>1
  DEF Keeping, Slots, Permits, Calls, Descriptors, threadVars, Permitted, Places

-----------------------------------------------------------------------------
(* What the steps do to the sets that are counted.                         *)

\* A thread of the cache's module is at another step.
LEMMA AddingAfterStep ==
  ASSUME Keeping, NEW t \in Threads, NEW label, Cache!Goto(t, label)
  PROVE  /\ step' = [v \in Threads |-> step'[v]]
         /\ \A v \in Threads \ {t} : step'[v] = step[v]
         /\ step'[t] = label
         /\ label \in {"add", "remove"} => Adding' = Adding \cup {t}
         /\ label \notin {"add", "remove"} => Adding' = Adding \ {t}
BY DEF Keeping, Calls, Cache!Goto, Adding

\* The sockets of origins, to be closed, that a thread at a step has.
OriginSockets(label) == IF label \in {"add", "remove"} THEN 1 ELSE 0

\* A step of the handler that leaves the thread where it is in thread_fn.
LEMMA HandlingKeeps ==
  ASSUME Keeping, NEW t \in Threads, NEW label, Cache!Goto(t, label),
         step[t] # "idle" \/ place[t] = "handle",
         UNCHANGED <<program, i, Connected_socketId, socket, seamaphore, place>>,
         open' \in Int, failed' \in Nat,
         program = "with_cache" =>
           open' - open = (failed' - failed)
                            + (OriginSockets(label) - OriginSockets(step[t]))
  PROVE  Keeping'
<1>1. Slots /\ Permits /\ Calls /\ Descriptors
  BY DEF Keeping
<1>2. Slots' /\ Permits'
  BY <1>1 DEF Slots, Permits, Permitted, Places
<1>3. Calls'
  BY <1>1, AddingAfterStep DEF Calls
<1>4. /\ Cardinality(Adding) \in Nat
      /\ Cardinality(Adding') - Cardinality(Adding) =
           OriginSockets(label) - OriginSockets(step[t])
  <2>1. IsFiniteSet(Adding) /\ Cardinality(Adding) \in Nat
    BY FiniteThreads DEF Adding
  <2>2. /\ Cardinality(Adding \cup {t}) =
             IF t \in Adding THEN Cardinality(Adding) ELSE Cardinality(Adding) + 1
        /\ Cardinality(Adding \ {t}) =
             IF t \in Adding THEN Cardinality(Adding) - 1 ELSE Cardinality(Adding)
    BY <2>1, FS_AddElement, FS_RemoveElement
  <2>3. OriginSockets(step[t]) = IF t \in Adding THEN 1 ELSE 0
    BY DEF OriginSockets, Adding
  <2>4. Adding' = IF OriginSockets(label) = 1 THEN Adding \cup {t} ELSE Adding \ {t}
    BY AddingAfterStep DEF OriginSockets
  <2>5. OriginSockets(label) \in {0, 1}
    BY DEF OriginSockets
  <2> QED BY <2>1, <2>2, <2>3, <2>4, <2>5
<1>5. Unfinished' = Unfinished /\ Cardinality(Unfinished) \in Nat
  BY <1>1, FiniteThreads DEF Unfinished, Slots
<1>6. Descriptors'
  <2>1. /\ Cardinality(Adding') \in Nat
        /\ OriginSockets(label) \in Nat /\ OriginSockets(step[t]) \in Nat
    BY <1>3, FiniteThreads DEF Adding, OriginSockets
  <2>2. CASE program = "with_cache"
    <3>1. open = Cardinality(Unfinished) + failed + Cardinality(Adding)
      BY <1>1, <2>2 DEF Descriptors
    <3>2. open' = Cardinality(Unfinished) + failed' + Cardinality(Adding')
      BY <1>1, <1>4, <1>5, <2>1, <2>2, <3>1 DEF Descriptors
    <3> QED BY <1>5, <3>2 DEF Descriptors
  <2>3. CASE program # "with_cache"
    BY <2>3 DEF Descriptors
  <2> QED BY <2>2, <2>3
<1> QED BY <1>2, <1>3, <1>6 DEF Keeping

\* A step that changes nothing of what is counted.
LEMMA StayingKeeps ==
  ASSUME Keeping, UNCHANGED <<step, program, threadVars>>
  PROVE  Keeping'
BY DEF Keeping, Slots, Permits, Calls, Descriptors, threadVars, Permitted, Adding,
       Unfinished, Places

\* The next slot is filled, and its thread is created or not.
LEMMA AcceptKeeps ==
  ASSUME Keeping, program # "threadpool", AcceptClient
  PROVE  Keeping'
<1>1. Slots /\ Permits /\ Calls /\ Descriptors
  BY DEF Keeping
<1>2. /\ i \in Nat /\ i + 1 \in Threads /\ i' = i + 1 /\ open' = open + 1
      /\ UNCHANGED <<program, socket, seamaphore, failed, step>>
  BY <1>1, FiniteThreads DEF AcceptClient, Slots, v1Vars, cacheVars
<1>3. place[i + 1] = "none"
  BY <1>1, <1>2 DEF Slots
<1>4. /\ place' \in [Threads -> Places]
      /\ \A v \in Threads \ {i + 1} : place'[v] = place[v]
      /\ place'[i + 1] \in {"none", "wait"}
  BY <1>1, <1>2, <1>3 DEF Slots, AcceptClient, MoveTo, Places
<1>5. Connected_socketId' = [t \in Threads |-> Connected_socketId'[t]]
      /\ \A t \in Threads : Connected_socketId'[t] = IF t <= i + 1 THEN t ELSE 0
  <2>1. Connected_socketId' = [Connected_socketId EXCEPT ![i + 1] = i + 1]
    BY DEF AcceptClient
  <2>2. Connected_socketId' = [t \in Threads |-> Connected_socketId'[t]]
    BY <1>1, <2>1 DEF Slots
  <2>3. \A t \in Threads : t <= i + 1 <=> t = i + 1 \/ t <= i
    BY <1>2, FiniteThreads
  <2> QED BY <1>1, <1>2, <2>1, <2>2, <2>3 DEF Slots
<1>6. Slots'
  <2>1. i' \in 0..MAX_CLIENTS'
    BY <1>2, FiniteThreads DEF MAX_CLIENTS
  <2>2. \A t \in Threads : place'[t] # "none" => t <= i + 1
    BY <1>1, <1>2, <1>4, FiniteThreads DEF Slots
  <2> QED BY <1>1, <1>2, <1>4, <1>5, <2>1, <2>2 DEF Slots
<1>7. Permitted' = Permitted /\ Adding' = Adding
  BY <1>2, <1>3, <1>4 DEF Permitted, Adding
<1>8. Permits' /\ Calls'
  BY <1>1, <1>2, <1>3, <1>4, <1>7 DEF Permits, Calls, MAX_CLIENTS
<1>9. Unfinished' = Unfinished \cup {i + 1} /\ i + 1 \notin Unfinished
  BY <1>1, <1>2, <1>4, FiniteThreads DEF Unfinished, Slots
<1>10. Cardinality(Unfinished') = Cardinality(Unfinished) + 1
  <2>1. IsFiniteSet(Unfinished)
    BY <1>1, FiniteThreads DEF Unfinished, Slots
  <2> QED BY <1>9, <2>1, FS_AddElement
<1>11. Descriptors'
  <2>1. Cardinality(Unfinished) \in Nat /\ Cardinality(Adding) \in Nat
    BY <1>1, FiniteThreads DEF Unfinished, Adding, Slots
  <2> QED BY <1>1, <1>2, <1>7, <1>10, <2>1 DEF Descriptors
<1> QED BY <1>6, <1>8, <1>11 DEF Keeping

\* The thread reads its own slot.
LEMMA WaitKeeps ==
  ASSUME Keeping, NEW t \in Threads, SemWait(t)
  PROVE  Keeping'
<1>1. Slots /\ Permits /\ Calls /\ Descriptors
  BY DEF Keeping
<1>2. UNCHANGED <<program, i, Connected_socketId, open, failed, step>>
  BY DEF SemWait, v1Vars, cacheVars
<1>3. /\ place[t] = "wait" /\ place'[t] = "handle"
      /\ place' \in [Threads -> Places]
      /\ \A v \in Threads \ {t} : place'[v] = place[v]
  BY <1>1 DEF Slots, SemWait, MoveTo, Places
<1>4. Slots'
  BY <1>1, <1>2, <1>3 DEF Slots, SemWait, MAX_CLIENTS
<1>5. Permitted' = Permitted \cup {t} /\ t \notin Permitted
  BY <1>3 DEF Permitted
<1>6. /\ Cardinality(Permitted') = Cardinality(Permitted) + 1
      /\ Cardinality(Permitted) \in Nat
  BY <1>5, FiniteThreads, FS_AddElement DEF Permitted
<1>7. Permits'
  BY <1>1, <1>6, FiniteThreads DEF Permits, SemWait, MAX_CLIENTS
<1>8. Unfinished' = Unfinished /\ Adding' = Adding
  BY <1>1, <1>2, <1>3, FiniteThreads DEF Unfinished, Adding, Slots
<1>9. Calls' /\ Descriptors'
  BY <1>1, <1>2, <1>3, <1>8 DEF Calls, Descriptors
<1> QED BY <1>4, <1>7, <1>9 DEF Keeping

LEMMA PostKeeps ==
  ASSUME Keeping, NEW t \in Threads, SemPost(t)
  PROVE  Keeping'
<1>1. Slots /\ Permits /\ Calls /\ Descriptors
  BY DEF Keeping
<1>2. UNCHANGED <<program, i, Connected_socketId, socket, open, failed, step>>
  BY DEF SemPost, v1Vars, cacheVars
<1>3. /\ place[t] = "post" /\ place'[t] = "ended"
      /\ place' \in [Threads -> Places]
      /\ \A v \in Threads \ {t} : place'[v] = place[v]
  BY <1>1 DEF Slots, SemPost, MoveTo, Places
<1>4. Slots'
  BY <1>1, <1>2, <1>3 DEF Slots, MAX_CLIENTS
<1>5. Permitted' = Permitted \ {t} /\ t \in Permitted
  BY <1>3 DEF Permitted
<1>6. /\ Cardinality(Permitted') = Cardinality(Permitted) - 1
      /\ Cardinality(Permitted) \in Nat
  BY <1>5, FiniteThreads, FS_RemoveElement DEF Permitted
<1>7. Permits'
  BY <1>1, <1>6, FiniteThreads DEF Permits, SemPost, MAX_CLIENTS
<1>8. Unfinished' = Unfinished /\ Adding' = Adding
  BY <1>1, <1>2, <1>3, FiniteThreads DEF Unfinished, Adding, Slots
<1>9. Calls' /\ Descriptors'
  BY <1>1, <1>2, <1>3, <1>8 DEF Calls, Descriptors
<1> QED BY <1>4, <1>7, <1>9 DEF Keeping

\* The client's socket is closed when the handler is through.
LEMMA CloseKeeps ==
  ASSUME Keeping, program # "threadpool", NEW t \in Threads, CloseSocket(t)
  PROVE  Keeping'
<1>1. Slots /\ Permits /\ Calls /\ Descriptors
  BY DEF Keeping
<1>2. /\ UNCHANGED <<program, i, Connected_socketId, socket, seamaphore, failed>>
      /\ open' = open - 1
  BY DEF CloseSocket
<1>3. step[t] = "answered" /\ Cache!Goto(t, "idle")
  BY DEF CloseSocket, Cache!Return
<1>4. place[t] = "handle"
  BY <1>1, <1>3 DEF Calls
<1>5. /\ place'[t] = "post"
      /\ place' \in [Threads -> Places]
      /\ \A v \in Threads \ {t} : place'[v] = place[v]
  BY <1>1 DEF Slots, CloseSocket, MoveTo, Places
<1>6. Slots'
  BY <1>1, <1>2, <1>4, <1>5 DEF Slots, MAX_CLIENTS
<1>7. Permitted' = Permitted
  BY <1>4, <1>5 DEF Permitted
<1>8. Permits' /\ Calls'
  BY <1>1, <1>2, <1>3, <1>5, <1>7, AddingAfterStep DEF Permits, Calls, MAX_CLIENTS
<1>9. Adding' = Adding
  BY <1>3, AddingAfterStep DEF Adding
<1>10. Unfinished' = Unfinished \ {t} /\ t \in Unfinished
  BY <1>1, <1>2, <1>4, <1>5, FiniteThreads DEF Unfinished, Slots
<1>11. Cardinality(Unfinished') = Cardinality(Unfinished) - 1
  <2>1. IsFiniteSet(Unfinished)
    BY <1>1, FiniteThreads DEF Unfinished, Slots
  <2> QED BY <1>10, <2>1, FS_RemoveElement
<1>12. Descriptors'
  <2>1. Cardinality(Unfinished) \in Nat /\ Cardinality(Adding) \in Nat
    BY <1>1, FiniteThreads DEF Unfinished, Adding, Slots
  <2> QED BY <1>1, <1>2, <1>9, <1>11, <2>1 DEF Descriptors
<1> QED BY <1>6, <1>8, <1>12 DEF Keeping

\* A step of the handler over the cache.
LEMMA HandlerKeeps ==
  ASSUME Keeping, program # "threadpool", NEW t \in Threads,
         \/ ReceiveRequest(t) \/ LookUp(t) \/ Refuse(t) \/ ConnectFails(t)
         \/ RelayResponse(t) \/ AddAndClose(t) \/ AddForEver(t)
  PROVE  Keeping'
<1>1. /\ UNCHANGED <<program, i, Connected_socketId, socket, seamaphore, place>>
      /\ open \in Int /\ failed \in Nat
  BY DEF ReceiveRequest, LookUp, Refuse, ConnectFails, RelayResponse, AddAndClose,
         AddForEver, Handling, Keeping, Descriptors
<1> USE DEF Handling
<1>2. CASE ReceiveRequest(t)
  <2>1. /\ step[t] = "idle" /\ place[t] = "handle" /\ Cache!Goto(t, "find")
        /\ open' = open /\ failed' = failed
    BY <1>1, <1>2 DEF ReceiveRequest, Cache!Receive
  <2> QED BY <1>1, <2>1, HandlingKeeps DEF OriginSockets
<1>3. CASE LookUp(t) \/ Refuse(t)
  <2>1. PICK label \in {"answered", "fetch"} :
          /\ step[t] \in {"find", "fetch"} /\ Cache!Goto(t, label)
          /\ open' = open /\ failed' = failed
    BY <1>1, <1>3
    DEF LookUp, Refuse, Cache!Find, Cache!FindGarbled, Cache!NoResponse
  <2> QED BY <1>1, <2>1, HandlingKeeps DEF OriginSockets
<1>4. CASE ConnectFails(t)
  <2>1. /\ step[t] = "fetch" /\ Cache!Goto(t, "answered")
        /\ open' = open + 1 /\ failed' = failed + 1
    BY <1>4 DEF ConnectFails, Cache!NoResponse
  <2> QED BY <1>1, <2>1, HandlingKeeps DEF OriginSockets
<1>5. CASE RelayResponse(t)
  <2>1. PICK label : /\ step[t] = "fetch" /\ Cache!Goto(t, label)
                     /\ program = "with_cache" => label = "add"
                     /\ open' = open + 1 /\ failed' = failed
    BY <1>5 DEF RelayResponse, Cache!Relay, Cache!NoResponse
  <2>2. CASE program = "with_cache"
    BY <1>1, <2>1, <2>2, HandlingKeeps DEF OriginSockets
  <2>3. CASE program # "with_cache"
    BY <1>1, <2>1, <2>3, HandlingKeeps
  <2> QED BY <2>2, <2>3
<1>6. CASE AddAndClose(t)
  <2>1. /\ step[t] = "add" /\ Cache!Goto(t, "answered")
        /\ open' = open - 1 /\ failed' = failed
    BY <1>1, <1>6 DEF AddAndClose, Cache!Add, Cache!AddTooLarge
  <2> QED BY <1>1, <2>1, HandlingKeeps DEF OriginSockets
<1>7. CASE AddForEver(t)
  <2>1. /\ step[t] = "add" /\ Cache!Goto(t, "remove")
        /\ open' = open /\ failed' = failed
    BY <1>1, <1>7 DEF AddForEver, Cache!AddToFull
  <2> QED BY <1>1, <2>1, HandlingKeeps DEF OriginSockets
<1> QED BY <1>2, <1>3, <1>4, <1>5, <1>6, <1>7

LEMMA KeepingStep == Keeping /\ [AllNext]_allVars => Keeping'
<1> SUFFICES ASSUME Keeping, [AllNext]_allVars PROVE Keeping'
  OBVIOUS
<1>1. CASE UNCHANGED allVars
  BY <1>1, StayingKeeps DEF allVars, v1Vars, cacheVars
<1>2. CASE program = "threadpool" /\ V1Next /\ UNCHANGED <<program, threadVars>>
  BY <1>2, PoolKeeps
<1>3. CASE program # "threadpool" /\ (MainStops \/ ThreadStops)
  BY <1>3, StayingKeeps DEF MainStops, ThreadStops, cacheVars
<1>4. CASE program # "threadpool" /\ AcceptClient
  BY <1>4, AcceptKeeps
<1>5. ASSUME NEW t \in Threads, program # "threadpool", ThreadStep(t)
      PROVE  Keeping'
  BY <1>5, WaitKeeps, HandlerKeeps, CloseKeeps, PostKeeps DEF ThreadStep
<1> QED
  BY <1>1, <1>2, <1>3, <1>4, <1>5 DEF AllNext, PerClientNext

-----------------------------------------------------------------------------
(* The cache: an element more at the head of the list, counted.            *)

\* Counting means the same in ListCache as here.
LEMMA CacheCounts == \A S : Cache!Cardinality(S) = Cardinality(S)
  BY DEF Cache!Cardinality, Cardinality

\* Sets of positions, one further on.
Shifted(S) == {n + 1 : n \in S}

LEMMA ShiftedCount ==
  ASSUME NEW S \in SUBSET Nat, IsFiniteSet(S)
  PROVE  /\ IsFiniteSet(Shifted(S)) /\ Cardinality(Shifted(S)) = Cardinality(S)
<1> DEFINE f == [n \in S |-> n + 1]
<1>1. f \in Injection(S, Shifted(S))
  <2>1. f \in [S -> Shifted(S)]
    BY DEF Shifted
  <2>2. \A m, n \in S : f[m] = f[n] => m = n
    OBVIOUS
  <2> QED
    BY <2>1, <2>2 DEF Injection, IsInjective
<1>2. f \in Surjection(S, Shifted(S))
  <2>1. \A k \in Shifted(S) : \E n \in S : f[n] = k
    BY DEF Shifted
  <2> QED
    BY <1>1, <2>1 DEF Injection, Surjection
<1>3. ExistsBijection(S, Shifted(S))
  BY <1>1, <1>2 DEF ExistsBijection, Bijection
<1> QED
  BY <1>3, FS_Bijection

\* The same for the units of memory that elements take.
ShiftedUnits(S) == {<<p[1] + 1, p[2]>> : p \in S}

LEMMA ShiftedUnitsCount ==
  ASSUME NEW S \in SUBSET (Nat \X Nat), IsFiniteSet(S)
  PROVE  /\ IsFiniteSet(ShiftedUnits(S))
         /\ Cardinality(ShiftedUnits(S)) = Cardinality(S)
<1> DEFINE f == [p \in S |-> <<p[1] + 1, p[2]>>]
<1>1. f \in Injection(S, ShiftedUnits(S))
  <2>1. f \in [S -> ShiftedUnits(S)]
    BY DEF ShiftedUnits
  <2>2. ASSUME NEW p \in S, NEW q \in S, f[p] = f[q] PROVE p = q
    <3>1. p = <<p[1], p[2]>> /\ q = <<q[1], q[2]>> /\ p[1] \in Nat /\ q[1] \in Nat
      OBVIOUS
    <3>2. p[1] + 1 = q[1] + 1 /\ p[2] = q[2]
      BY <2>2
    <3>3. p[1] = q[1]
      BY <3>1, <3>2
    <3> QED
      BY <3>1, <3>2, <3>3
  <2> HIDE DEF f
  <2> QED
    BY <2>1, <2>2 DEF Injection, IsInjective
<1>2. f \in Surjection(S, ShiftedUnits(S))
  <2>1. \A k \in ShiftedUnits(S) : \E p \in S : f[p] = k
    BY DEF ShiftedUnits
  <2> QED
    BY <1>1, <2>1 DEF Injection, Surjection
<1>3. ExistsBijection(S, ShiftedUnits(S))
  BY <1>1, <1>2 DEF ExistsBijection, Bijection
<1> QED
  BY <1>3, FS_Bijection

\* One element's units, at the first position.
LEMMA FirstUnitsCount ==
  ASSUME NEW k \in Nat
  PROVE  IsFiniteSet({1} \X (1..k)) /\ Cardinality({1} \X (1..k)) = k
<1> DEFINE T == {1} \X (1..k)
           f == [n \in 1..k |-> <<1, n>>]
<1>1. f \in Injection(1..k, T)
  <2>1. f \in [1..k -> T] /\ \A m, n \in 1..k : f[m] = f[n] => m = n
    OBVIOUS
  <2> QED
    BY <2>1 DEF Injection, IsInjective
<1>2. f \in Surjection(1..k, T)
  <2>1. \A p \in T : \E n \in 1..k : f[n] = p
    <3> SUFFICES ASSUME NEW p \in T PROVE \E n \in 1..k : f[n] = p
      OBVIOUS
    <3>1. p = <<1, p[2]>> /\ p[2] \in 1..k
      OBVIOUS
    <3>2. f[p[2]] = p
      BY <3>1
    <3> QED
      BY <3>1, <3>2
  <2> QED
    BY <1>1, <2>1 DEF Injection, Surjection
<1>3. ExistsBijection(1..k, T)
  BY <1>1, <1>2 DEF ExistsBijection, Bijection
<1>4. IsFiniteSet(1..k) /\ Cardinality(1..k) = k
  BY FS_Interval
<1> QED
  BY <1>3, <1>4, FS_Bijection

\* The positions of the list after an add.
LEMMA Pushed ==
  ASSUME NEW S, NEW list \in Seq(S), NEW u \in S
  PROVE  /\ <<u>> \o list \in Seq(S)
         /\ DOMAIN list \subseteq Nat /\ IsFiniteSet(DOMAIN list)
         /\ DOMAIN (<<u>> \o list) = {1} \cup Shifted(DOMAIN list)
         /\ (<<u>> \o list)[1] = u
         /\ \A n \in DOMAIN list : (<<u>> \o list)[n + 1] = list[n]
<1>1. <<u>> \in Seq(S) /\ Len(<<u>>) = 1 /\ <<u>>[1] = u
  OBVIOUS
<1>2. /\ <<u>> \o list \in Seq(S) /\ Len(<<u>> \o list) = 1 + Len(list)
      /\ \A n \in 1..(1 + Len(list)) :
           (<<u>> \o list)[n] = IF n <= 1 THEN <<u>>[n] ELSE list[n - 1]
  BY <1>1, ConcatProperties
<1>3. Len(list) \in Nat /\ DOMAIN list = 1..Len(list)
  OBVIOUS
<1>4. IsFiniteSet(DOMAIN list)
  BY <1>3, FS_Interval
<1> DEFINE k == Len(list)
           new == <<u>> \o list
<1>5. DOMAIN new = 1..(k + 1)
  BY <1>2, <1>3
<1> HIDE DEF k, new
<1>6. DOMAIN new = {1} \cup Shifted(DOMAIN list)
  <2>1. \A n \in 1..(k + 1) : n = 1 \/ (n - 1 \in 1..k /\ n = (n - 1) + 1)
    BY <1>3 DEF k
  <2>2. \A n \in 1..k : n + 1 \in 1..(k + 1)
    BY <1>3 DEF k
  <2>3. 1 \in 1..(k + 1)
    BY <1>3 DEF k
  <2> QED
    BY <1>3, <1>5, <2>1, <2>2, <2>3 DEF Shifted, k
<1>7. \A n \in DOMAIN list : new[n + 1] = list[n]
  <2> SUFFICES ASSUME NEW n \in 1..k PROVE new[n + 1] = list[n]
    BY <1>3 DEF k
  <2>1. n \in Nat /\ n + 1 \in 1..(1 + k) /\ ~(n + 1 <= 1) /\ (n + 1) - 1 = n
    BY <1>3 DEF k
  <2> QED
    BY <1>2, <2>1 DEF k, new
<1>8. new[1] = u
  BY <1>1, <1>2, <1>3 DEF new
<1> QED
  BY <1>2, <1>3, <1>4, <1>6, <1>7, <1>8 DEF new

-----------------------------------------------------------------------------
(* The cache: its types, and what it counts.                               *)

\* A thread in handle_client has a url.
CacheTypes ==
  /\ lock \in Threads \cup {NoThread}
  /\ elements \in Seq(Urls)
  /\ step \in [Threads -> {"idle", "find", "fetch", "add", "remove", "answered"}]
  /\ url \in [Threads -> Urls \cup {NoUrl}]
  /\ \A t \in Threads : step[t] # "idle" => url[t] \in Urls

Sized ==
  /\ IsFiniteSet(Cache!Used) /\ cache_size = Cardinality(Cache!Used)
  /\ cache_size <= MaxSize

\* Whoever is about to add a url missed it when there was no copy of it, or none
\* more than others have added since.
Racing(u) == {w \in Workers : url[w] = u /\ step[w] \in {"fetch", "add"}}
Copies(u) == {n \in DOMAIN elements : elements[n] = u}

Raced ==
  /\ program = "without_cache" =>
       elements = <<>> /\ \A t \in Threads : step[t] \notin {"add", "remove"}
  /\ program = "threadpool" =>
       \A u \in Urls :
         Cardinality(Copies(u)) + Cardinality(Racing(u)) <= Cardinality(Workers)

\* A step over the cache by thread t.
CacheAction(t) ==
  \/ Cache!Receive(t) \/ Cache!Find(t) \/ Cache!FindGarbled(t)
  \/ Cache!NoResponse(t) \/ Cache!Relay(t) \/ Cache!AddTooLarge(t)
  \/ Cache!Add(t) \/ Cache!AddToFull(t) \/ Cache!Return(t)

\* What an add does to the list, as sets of positions and units.
LEMMA AddPushes ==
  ASSUME CacheTypes, Sized, NEW t \in Threads, Cache!Add(t)
  PROVE  /\ elements' \in Seq(Urls)
         /\ Sized'
         /\ \A u \in Urls : Copies(u)' = IF u = url[t] THEN {1} \cup Shifted(Copies(u))
                                          ELSE Shifted(Copies(u))
<1>1. /\ url[t] \in Urls /\ ElementSize[url[t]] \in Nat
      /\ elements' = <<url[t]>> \o elements
      /\ cache_size' = cache_size + ElementSize[url[t]]
      /\ cache_size + ElementSize[url[t]] <= MaxSize
  BY V1Assumption DEF V1Assumption, CacheTypes, Cache!Add, Cache!HasRoom
<1> DEFINE u == url[t]
           k == ElementSize[u]
<1>2. /\ elements' \in Seq(Urls)
      /\ DOMAIN elements \subseteq Nat
      /\ DOMAIN elements' = {1} \cup Shifted(DOMAIN elements)
      /\ elements'[1] = u
      /\ \A n \in DOMAIN elements : elements'[n + 1] = elements[n]
  BY <1>1, Pushed DEF CacheTypes
<1> HIDE DEF u, k
<1>3. \A n \in DOMAIN elements : ElementSize[elements[n]] \in Nat
  <2>1. \A n \in DOMAIN elements : elements[n] \in Urls
    BY DEF CacheTypes
  <2> QED
    BY <2>1, V1Assumption DEF V1Assumption
<1>4. Cache!Used \subseteq Nat \X Nat
  <2> SUFFICES ASSUME NEW n \in DOMAIN elements
               PROVE  {n} \X (1..ElementSize[elements[n]]) \subseteq Nat \X Nat
    BY DEF Cache!Used
  <2> QED
    BY <1>2, <1>3
<1>5. Cache!Used' = ({1} \X (1..k)) \cup ShiftedUnits(Cache!Used)
  <2>1. Cache!Used' = UNION {{n} \X (1..ElementSize[elements'[n]]) : n \in DOMAIN elements'}
    BY DEF Cache!Used
  <2>2. ASSUME NEW p
        PROVE  p \in Cache!Used' <=> \/ p \in {1} \X (1..k)
                                     \/ \E n \in DOMAIN elements :
                                          p \in {n + 1} \X (1..ElementSize[elements[n]])
    BY <1>2, <2>1 DEF Shifted, k
  <2>3. ASSUME NEW p
        PROVE  p \in ShiftedUnits(Cache!Used) <=>
                 \E n \in DOMAIN elements : p \in {n + 1} \X (1..ElementSize[elements[n]])
    <3>1. p \in ShiftedUnits(Cache!Used) <=>
            \E n \in DOMAIN elements : \E m \in 1..ElementSize[elements[n]] :
              p = <<n + 1, m>>
      <4>1. ASSUME NEW q
            PROVE  q \in Cache!Used <=>
                     \E n \in DOMAIN elements : \E m \in 1..ElementSize[elements[n]] :
                       q = <<n, m>>
        BY DEF Cache!Used
      <4>2. p \in ShiftedUnits(Cache!Used) <=>
              \E q \in Cache!Used : p = <<q[1] + 1, q[2]>>
        BY DEF ShiftedUnits
      <4>3. ASSUME NEW n \in DOMAIN elements, NEW m \in 1..ElementSize[elements[n]]
            PROVE  /\ <<n, m>> \in Cache!Used
                   /\ <<n, m>>[1] = n /\ <<n, m>>[2] = m
        BY <4>1
      <4>4. ASSUME p \in ShiftedUnits(Cache!Used)
            PROVE  \E n \in DOMAIN elements : \E m \in 1..ElementSize[elements[n]] :
                     p = <<n + 1, m>>
        <5>1. PICK q \in Cache!Used : p = <<q[1] + 1, q[2]>>
          BY <4>2, <4>4
        <5>2. PICK n \in DOMAIN elements : \E m \in 1..ElementSize[elements[n]] :
                q = <<n, m>>
          BY <4>1
        <5>3. PICK m \in 1..ElementSize[elements[n]] : q = <<n, m>>
          BY <5>2
        <5> QED
          BY <5>1, <5>3
      <4>5. ASSUME NEW n \in DOMAIN elements, NEW m \in 1..ElementSize[elements[n]],
                   p = <<n + 1, m>>
            PROVE  p \in ShiftedUnits(Cache!Used)
        <5>1. p = <<(<<n, m>>)[1] + 1, (<<n, m>>)[2]>>
          BY <4>5
        <5> QED
          BY <4>2, <4>3, <5>1
      <4> QED
        BY <4>4, <4>5
    <3> QED
      BY <3>1
  <2> QED
    BY <2>2, <2>3
<1>6. Sized'
  <2>1. /\ IsFiniteSet(ShiftedUnits(Cache!Used))
        /\ Cardinality(ShiftedUnits(Cache!Used)) = Cardinality(Cache!Used)
    BY <1>4, ShiftedUnitsCount DEF Sized
  <2>2. IsFiniteSet({1} \X (1..k)) /\ Cardinality({1} \X (1..k)) = k /\ k \in Nat
    BY <1>1, FirstUnitsCount DEF u, k
  <2>3. ({1} \X (1..k)) \cap ShiftedUnits(Cache!Used) = {}
    <3>1. \A p \in ShiftedUnits(Cache!Used) : p[1] # 1
      <4>1. \A q \in Cache!Used : q[1] \in Nat /\ q[1] # 0
        <5>1. DOMAIN elements = 1..Len(elements)
          BY DEF CacheTypes
        <5> QED
          BY <1>2, <5>1 DEF Cache!Used
      <4> QED
        BY <4>1 DEF ShiftedUnits
    <3> QED
      BY <3>1
  <2>4. /\ IsFiniteSet(Cache!Used')
        /\ Cardinality(Cache!Used') = k + Cardinality(Cache!Used)
    <3> DEFINE A == {1} \X (1..k)
               B == ShiftedUnits(Cache!Used)
    <3>1. IsFiniteSet(A) /\ IsFiniteSet(B) /\ A \cap B = {} /\ Cache!Used' = A \cup B
      BY <1>5, <2>1, <2>2, <2>3
    <3> HIDE DEF A, B
    <3>2. /\ IsFiniteSet(A \cup B)
          /\ Cardinality(A \cup B) = Cardinality(A) + Cardinality(B) - 0
      BY <3>1, FS_Union, FS_EmptySet
    <3>3. /\ Cardinality(A) = k /\ Cardinality(B) = Cardinality(Cache!Used)
          /\ Cardinality(B) \in Nat
      BY <2>1, <2>2, <3>1, FS_CardinalityType DEF A, B
    <3> QED
      BY <2>2, <3>1, <3>2, <3>3
  <2>5. Cardinality(Cache!Used) \in Nat
    BY FS_CardinalityType DEF Sized
  <2> QED
    BY <1>1, <2>2, <2>4, <2>5 DEF Sized, u, k
<1>7. ASSUME NEW v \in Urls
      PROVE  Copies(v)' = IF v = u THEN {1} \cup Shifted(Copies(v))
                          ELSE Shifted(Copies(v))
  <2>1. Copies(v)' = {n \in DOMAIN elements' : elements'[n] = v}
    BY DEF Copies
  <2> QED
    BY <1>2, <2>1 DEF Copies, Shifted
<1> QED
  BY <1>2, <1>6, <1>7 DEF u

\* Types, and the size.
LEMMA CacheActionKeeps ==
  ASSUME CacheTypes, Sized, NEW t \in Threads, CacheAction(t)
  PROVE  CacheTypes' /\ Sized'
<1>1. CASE Cache!Add(t)
  <2>1. elements' \in Seq(Urls) /\ Sized'
    BY <1>1, AddPushes
  <2> QED
    BY <1>1, <2>1 DEF CacheTypes, Cache!Add, Cache!Goto
<1>2. CASE ~Cache!Add(t)
  <2> USE DEF Cache!Receive, Cache!Find, Cache!FindGarbled, Cache!NoResponse,
              Cache!Relay, Cache!AddTooLarge, Cache!AddToFull, Cache!Return, Cache!Goto
  <2>1. UNCHANGED <<elements, cache_size>>
    BY <1>2 DEF CacheAction
  <2>2. Sized'
    BY <2>1 DEF Sized, Cache!Used
  <2>3. CacheTypes'
    BY <1>2, <2>1 DEF CacheTypes, CacheAction
  <2> QED
    BY <2>2, <2>3
<1> QED
  BY <1>1, <1>2

\* Workers are finitely many, and so are those that race, and the copies.
LEMMA RacersCount ==
  ASSUME CacheTypes, NEW u \in Urls
  PROVE  /\ IsFiniteSet(Workers) /\ Cardinality(Workers) \in Nat
         /\ IsFiniteSet(Racing(u)) /\ Cardinality(Racing(u)) \in Nat
         /\ Cardinality(Racing(u)) <= Cardinality(Workers)
         /\ Copies(u) \subseteq Nat
         /\ IsFiniteSet(Copies(u)) /\ Cardinality(Copies(u)) \in Nat
<1>1. IsFiniteSet(Workers) /\ Cardinality(Workers) \in Nat
  BY V1Assumption, FS_Subset, FS_CardinalityType DEF V1Assumption
<1>2. /\ IsFiniteSet(Racing(u)) /\ Cardinality(Racing(u)) \in Nat
      /\ Cardinality(Racing(u)) <= Cardinality(Workers)
  BY <1>1, FS_Subset, FS_CardinalityType DEF Racing
<1>3. DOMAIN elements = 1..Len(elements) /\ Len(elements) \in Nat
  BY DEF CacheTypes
<1>4. IsFiniteSet(DOMAIN elements)
  BY <1>3, FS_Interval
<1>5. IsFiniteSet(Copies(u)) /\ Cardinality(Copies(u)) \in Nat
  BY <1>4, FS_Subset, FS_CardinalityType DEF Copies
<1> QED
  BY <1>1, <1>2, <1>3, <1>5 DEF Copies

\* Among the workers of the pool, an add takes the place of a racer.
LEMMA RacedInPool ==
  ASSUME CacheTypes, Sized, Raced, program = "threadpool", program' = program,
         NEW w \in Workers,
         Cache!Receive(w) \/ Cache!CacheStep(w) \/ Cache!Return(w)
  PROVE  Raced'
<1>1. w \in Threads /\ step = [v \in Threads |-> step[v]]
  BY V1Assumption DEF V1Assumption, CacheTypes
<1>2. ASSUME NEW u \in Urls
      PROVE  Cardinality(Copies(u)') + Cardinality(Racing(u)') <= Cardinality(Workers)
  <2>1. Cardinality(Copies(u)) + Cardinality(Racing(u)) <= Cardinality(Workers)
    BY DEF Raced
  <2>2. /\ IsFiniteSet(Workers) /\ Cardinality(Workers) \in Nat
        /\ IsFiniteSet(Racing(u)) /\ Cardinality(Racing(u)) \in Nat
        /\ Copies(u) \subseteq Nat
        /\ IsFiniteSet(Copies(u)) /\ Cardinality(Copies(u)) \in Nat
    BY RacersCount
  <2>3. Racing(u)' = {v \in Workers : url'[v] = u /\ step'[v] \in {"fetch", "add"}}
    BY DEF Racing
  <2>4. CASE Cache!Add(w)
    <3>1. /\ step[w] = "add" /\ url' = url /\ step' = [step EXCEPT ![w] = "answered"]
      BY <2>4 DEF Cache!Add, Cache!Goto
    <3>2. Racing(u)' = Racing(u) \ {w}
      BY <1>1, <2>3, <3>1 DEF Racing
    <3>3. CASE url[w] = u
      <4>1. Copies(u)' = {1} \cup Shifted(Copies(u))
        BY <1>1, <2>4, <3>3, AddPushes
      <4>2. /\ IsFiniteSet(Shifted(Copies(u)))
            /\ Cardinality(Shifted(Copies(u))) = Cardinality(Copies(u))
        BY <2>2, ShiftedCount
      <4>3. Cardinality(Copies(u)') <= Cardinality(Copies(u)) + 1
            /\ Cardinality(Copies(u)') \in Nat
        <5>1. Shifted(Copies(u)) \cup {1} = Copies(u)'
          BY <4>1
        <5>2. /\ IsFiniteSet(Copies(u)')
              /\ Cardinality(Copies(u)') = IF 1 \in Shifted(Copies(u))
                                           THEN Cardinality(Shifted(Copies(u)))
                                           ELSE Cardinality(Shifted(Copies(u))) + 1
          BY <4>2, <5>1, FS_AddElement
        <5> QED
          BY <2>2, <4>2, <5>2
      <4>4. w \in Racing(u)
        BY <3>1, <3>3 DEF Racing
      <4>5. Cardinality(Racing(u)') = Cardinality(Racing(u)) - 1
        BY <2>2, <3>2, <4>4, FS_RemoveElement
      <4> QED
        BY <2>1, <2>2, <4>3, <4>5
    <3>4. CASE url[w] # u
      <4>1. Copies(u)' = Shifted(Copies(u))
        BY <1>1, <2>4, <3>4, AddPushes
      <4>2. Cardinality(Copies(u)') = Cardinality(Copies(u))
        BY <2>2, <4>1, ShiftedCount
      <4>3. Racing(u)' = Racing(u)
        BY <3>2, <3>4 DEF Racing
      <4> QED
        BY <2>1, <4>2, <4>3
    <3> QED
      BY <3>3, <3>4
  <2>5. CASE Cache!Find(w) /\ url[w] = u /\ u \notin Range(elements)
    <3>1. Copies(u)' = {}
      BY <2>5 DEF Cache!Find, Copies, Range
    <3>2. Cardinality(Racing(u)') <= Cardinality(Workers) /\ Cardinality(Racing(u)') \in Nat
      BY <2>2, <2>3, FS_Subset, FS_CardinalityType
    <3> QED
      BY <2>2, <3>1, <3>2, FS_EmptySet
  <2>6. CASE ~Cache!Add(w) /\ ~(Cache!Find(w) /\ url[w] = u /\ u \notin Range(elements))
    <3>1. elements' = elements
      BY <2>6 DEF Cache!CacheStep, Cache!Receive, Cache!Find, Cache!NoResponse,
                  Cache!Relay, Cache!AddTooLarge, Cache!AddToFull, Cache!Return
    <3>2. \A v \in Workers \ {w} : step'[v] = step[v] /\ url'[v] = url[v]
      BY <1>1, <2>6, V1Assumption
         DEF V1Assumption, CacheTypes, Cache!CacheStep, Cache!Receive, Cache!Find,
             Cache!NoResponse, Cache!Relay, Cache!AddTooLarge, Cache!AddToFull,
             Cache!Return, Cache!Goto
    <3>3. w \in Racing(u)' => w \in Racing(u)
      <4>1. Cache!Range(elements) = Range(elements)
        BY DEF Cache!Range, Range
      <4> QED
        BY <1>1, <2>3, <2>6, <4>1
           DEF CacheTypes, Cache!CacheStep, Cache!Receive, Cache!Find, Cache!NoResponse,
               Cache!Relay, Cache!AddTooLarge, Cache!AddToFull, Cache!Return, Cache!Goto,
               Racing
    <3>4. Racing(u)' \subseteq Racing(u)
      BY <2>3, <3>2, <3>3 DEF Racing
    <3>5. Cardinality(Racing(u)') <= Cardinality(Racing(u)) /\ Cardinality(Racing(u)') \in Nat
      BY <2>2, <3>4, FS_Subset, FS_CardinalityType
    <3>6. Copies(u)' = Copies(u)
      BY <3>1 DEF Copies
    <3> QED
      BY <2>1, <2>2, <3>5, <3>6
  <2> QED
    BY <2>4, <2>5, <2>6
<1> QED
  BY <1>2 DEF Raced

\* Without the cache nothing is added.
LEMMA RacedWithoutCache ==
  ASSUME CacheTypes, Raced, program = "without_cache", program' = program,
         NEW t \in Threads,
         \/ Cache!Receive(t) \/ Cache!Find(t) \/ Cache!FindGarbled(t)
         \/ Cache!NoResponse(t) \/ Cache!Return(t)
  PROVE  Raced'
BY DEF CacheTypes, Raced, Cache!Receive, Cache!Find, Cache!FindGarbled,
       Cache!NoResponse, Cache!Return, Cache!Goto

\* In the third program nothing is said of them.
LEMMA RacedWithCache == program = "with_cache" /\ program' = program => Raced'
  BY DEF Raced

-----------------------------------------------------------------------------
(* Descriptors and failed connections are within their bounds.             *)

\* The threads that have answered their client: no others can have failed to connect.
Settled == {t \in Threads : place[t] \in {"post", "ended"} \/ step[t] = "answered"}

Bounded ==
  /\ open <= MaxFds
  /\ program = "without_cache" => Cardinality(Unfinished) <= open
  /\ IF program = "threadpool" THEN open = 0 /\ failed = 0
     ELSE failed <= Cardinality(Settled)

PerClientInv ==
  /\ Keeping /\ QueueInv
  /\ CacheTypes /\ Sized /\ Raced /\ Bounded
  /\ stopped \in BOOLEAN
  /\ program \in {"threadpool", "with_cache", "without_cache"}

LEMMA FiniteUnfinished ==
  ASSUME Slots
  PROVE  /\ IsFiniteSet(Unfinished) /\ Cardinality(Unfinished) \in Nat
         /\ IsFiniteSet(Settled) /\ Cardinality(Settled) \in Nat
         /\ \A t \in Threads : t \in Unfinished <=>
              t <= i /\ place[t] \in {"none", "wait", "handle"}
BY FiniteThreads DEF Slots, Unfinished, Settled

\* Another client.
LEMMA BoundedAccept ==
  ASSUME Keeping, Bounded, program # "threadpool", AcceptClient
  PROVE  Bounded'
<1>1. /\ i \in Nat /\ i + 1 \in Threads /\ i' = i + 1 /\ open' = open + 1
      /\ open < MaxFds /\ open \in Int /\ MaxFds \in Nat
      /\ UNCHANGED <<program, failed, step>>
      /\ Slots
  BY FiniteThreads, PerClientAssumption
     DEF PerClientAssumption, AcceptClient, Keeping, Slots, Descriptors, v1Vars, cacheVars
<1>2. place[i + 1] = "none" /\ place \in [Threads -> Places]
  BY <1>1 DEF Slots
<1>3. /\ \A v \in Threads \ {i + 1} : place'[v] = place[v]
      /\ place'[i + 1] \in {"none", "wait"}
  BY <1>1, <1>2 DEF AcceptClient, MoveTo
<1>4. Settled' = Settled
  BY <1>1, <1>2, <1>3 DEF Settled
<1>5. Unfinished' = Unfinished \cup {i + 1}
  BY <1>1, <1>3, FiniteThreads DEF Unfinished, Slots
<1>6. Cardinality(Unfinished') <= Cardinality(Unfinished) + 1
      /\ Cardinality(Unfinished') \in Nat /\ Cardinality(Unfinished) \in Nat
  <2>1. IsFiniteSet(Unfinished) /\ Cardinality(Unfinished) \in Nat
    BY <1>1, FiniteUnfinished
  <2>2. Cardinality(Unfinished \cup {i + 1}) =
          IF i + 1 \in Unfinished THEN Cardinality(Unfinished)
                                  ELSE Cardinality(Unfinished) + 1
    BY <2>1, FS_AddElement
  <2> QED
    BY <1>5, <2>1, <2>2
<1>7. open' <= MaxFds
  BY <1>1
<1>8. program = "without_cache" => Cardinality(Unfinished') <= open'
  BY <1>1, <1>6 DEF Bounded
<1> QED
  BY <1>1, <1>4, <1>7, <1>8 DEF Bounded

\* A permit is taken or given back.
LEMMA BoundedPermit ==
  ASSUME Keeping, Bounded, NEW t \in Threads, SemWait(t) \/ SemPost(t)
  PROVE  Bounded'
<1>1. /\ UNCHANGED <<program, i, open, failed, step>>
      /\ Slots /\ place \in [Threads -> Places]
  BY DEF SemWait, SemPost, v1Vars, cacheVars, Keeping, Slots
<1>2. \/ place[t] = "wait" /\ place'[t] = "handle"
      \/ place[t] = "post" /\ place'[t] = "ended"
  BY <1>1 DEF SemWait, SemPost, MoveTo
<1>3. \A v \in Threads \ {t} : place'[v] = place[v]
  BY <1>1 DEF SemWait, SemPost, MoveTo
<1>4. Unfinished' = Unfinished /\ Settled' = Settled
  BY <1>1, <1>2, <1>3, FiniteThreads DEF Unfinished, Settled, Slots
<1> QED
  BY <1>1, <1>4 DEF Bounded

\* The client's socket is closed.
LEMMA BoundedClose ==
  ASSUME Keeping, Bounded, program # "threadpool", NEW t \in Threads, CloseSocket(t)
  PROVE  Bounded'
<1>1. /\ UNCHANGED <<program, i, failed>> /\ open' = open - 1
      /\ Slots /\ place \in [Threads -> Places] /\ step = [v \in Threads |-> step[v]]
      /\ open \in Int /\ MaxFds \in Nat
  BY PerClientAssumption
     DEF PerClientAssumption, CloseSocket, Keeping, Slots, Calls, Descriptors
<1>2. step[t] = "answered" /\ step' = [step EXCEPT ![t] = "idle"]
  BY DEF CloseSocket, Cache!Return, Cache!Goto
<1>3. place[t] = "handle"
  BY <1>2 DEF Keeping, Calls
<1>4. place' = [place EXCEPT ![t] = "post"]
  BY DEF CloseSocket, MoveTo
<1>5. Settled' = Settled
  BY <1>1, <1>2, <1>4 DEF Settled
<1>6. Unfinished' = Unfinished \ {t} /\ t \in Unfinished
  BY <1>1, <1>3, <1>4, FiniteThreads DEF Unfinished, Slots
<1>7. /\ Cardinality(Unfinished') = Cardinality(Unfinished) - 1
      /\ Cardinality(Unfinished) \in Nat
  BY <1>1, <1>6, FiniteUnfinished, FS_RemoveElement
<1>8. program = "without_cache" => Cardinality(Unfinished') <= open'
  BY <1>1, <1>7 DEF Bounded
<1>9. open' <= MaxFds
  BY <1>1 DEF Bounded
<1> QED
  BY <1>1, <1>5, <1>8, <1>9 DEF Bounded

\* A step of the handler.
LEMMA BoundedHandler ==
  ASSUME Keeping, Bounded, Raced, program # "threadpool", NEW t \in Threads,
         \/ ReceiveRequest(t) \/ LookUp(t) \/ Refuse(t) \/ ConnectFails(t)
         \/ RelayResponse(t) \/ AddAndClose(t) \/ AddForEver(t)
  PROVE  Bounded'
<1>1. /\ UNCHANGED <<program, i, place>> /\ open' <= MaxFds
      /\ Slots /\ step = [v \in Threads |-> step[v]]
      /\ open \in Int /\ failed \in Nat
  BY DEF ReceiveRequest, LookUp, Refuse, ConnectFails, RelayResponse, AddAndClose,
         AddForEver, Handling, Keeping, Calls, Slots, Descriptors
<1>2. step[t] # "answered" /\ \A v \in Threads \ {t} : step'[v] = step[v]
  BY <1>1
     DEF ReceiveRequest, LookUp, Refuse, ConnectFails, RelayResponse, AddAndClose,
         AddForEver, Handling, Cache!Receive, Cache!Find, Cache!FindGarbled,
         Cache!NoResponse, Cache!Relay, Cache!Add, Cache!AddTooLarge, Cache!AddToFull,
         Cache!Goto
<1>3. Settled \subseteq Settled' /\ IsFiniteSet(Settled') /\ Cardinality(Settled') \in Nat
  <2>1. Settled \subseteq Settled'
    BY <1>1, <1>2 DEF Settled
  <2> QED
    BY <2>1, FiniteThreads DEF Settled
<1>4. Cardinality(Settled) <= Cardinality(Settled') /\ Cardinality(Settled) \in Nat
  BY <1>1, <1>3, FiniteUnfinished, FS_Subset
<1>5. failed' <= Cardinality(Settled')
  <2>1. CASE ConnectFails(t)
    <3>1. /\ step[t] = "fetch" /\ step' = [step EXCEPT ![t] = "answered"]
          /\ failed' = failed + 1
      BY <2>1 DEF ConnectFails, Handling, Cache!NoResponse, Cache!Goto
    <3>2. t \notin Settled /\ t \in Settled'
      BY <1>1, <3>1 DEF Settled, Keeping, Calls
    <3>3. Settled \cup {t} \subseteq Settled'
      BY <1>3, <3>2
    <3>4. Cardinality(Settled \cup {t}) = Cardinality(Settled) + 1
      BY <1>1, <3>2, FiniteUnfinished, FS_AddElement
    <3>5. Cardinality(Settled) + 1 <= Cardinality(Settled')
      BY <1>3, <3>3, <3>4, FS_Subset
    <3> QED
      BY <1>1, <1>3, <1>4, <3>1, <3>5 DEF Bounded
  <2>2. CASE ~ConnectFails(t)
    <3>1. failed' = failed
      BY <2>2 DEF ReceiveRequest, LookUp, Refuse, RelayResponse, AddAndClose, AddForEver
    <3> QED
      BY <1>1, <1>3, <1>4, <3>1 DEF Bounded
  <2> QED
    BY <2>1, <2>2
<1>6. program = "without_cache" => Cardinality(Unfinished') <= open'
  <2> SUFFICES ASSUME program = "without_cache" PROVE Cardinality(Unfinished') <= open'
    OBVIOUS
  <2>1. ~AddAndClose(t)
    BY DEF AddAndClose, Handling, Cache!Add, Cache!AddTooLarge, Raced
  <2>2. open' = open \/ open' = open + 1
    BY <1>1, <2>1
       DEF ReceiveRequest, LookUp, Refuse, ConnectFails, RelayResponse, AddForEver, Handling
  <2>3. Unfinished' = Unfinished /\ Cardinality(Unfinished) \in Nat
    BY <1>1, FiniteUnfinished DEF Unfinished
  <2> QED
    BY <1>1, <2>2, <2>3 DEF Bounded
<1> QED
  BY <1>1, <1>5, <1>6 DEF Bounded

-----------------------------------------------------------------------------
(* All of it.                                                              *)

LEMMA PerClientInvInit == AllInit => PerClientInv /\ Queue!Init
<1> SUFFICES ASSUME AllInit PROVE PerClientInv /\ Queue!Init
  OBVIOUS
<1>1. Keeping /\ QueueInv /\ Queue!Init
  BY KeepingInit, QueueInitially DEF AllInit, V1Init
<1> USE DEF AllInit, V1Init, Cache!CacheInit
<1>2. CacheTypes /\ DOMAIN elements = {}
  BY DEF CacheTypes
<1>3. Sized
  <2>1. Cache!Used = {}
    BY <1>2 DEF Cache!Used
  <2> QED
    BY <2>1, FS_EmptySet, V1Assumption DEF V1Assumption, Sized
<1>4. Raced
  <2>1. ASSUME NEW u \in Urls
        PROVE  Cardinality(Copies(u)) + Cardinality(Racing(u)) <= Cardinality(Workers)
    <3>1. Copies(u) = {} /\ Cardinality({}) = 0
      BY <1>2, FS_EmptySet DEF Copies
    <3> QED
      BY <1>2, <3>1, RacersCount
  <2> QED
    BY <2>1 DEF Raced
<1>5. Bounded
  <2>1. Unfinished = {} /\ Cardinality({}) = 0 /\ MaxFds \in Nat
    BY FS_EmptySet, PerClientAssumption DEF PerClientAssumption, Unfinished
  <2>2. Cardinality(Settled) \in Nat
    BY <1>1, FiniteUnfinished DEF Keeping
  <2> QED
    BY <2>1, <2>2 DEF Bounded
<1> QED
  BY <1>1, <1>2, <1>3, <1>4, <1>5 DEF PerClientInv

\* A step of the pool's program.
LEMMA PoolStep ==
  ASSUME PerClientInv, program = "threadpool", V1Next,
         UNCHANGED <<program, threadVars>>
  PROVE  PerClientInv' /\ QueueMoves
<1>1. Keeping'
  BY PoolKeeps DEF PerClientInv
<1>2. QueueInv' /\ QueueMoves
  <2>1. \/ Accept \/ Enqueue \/ SpuriousWakeup \/ UNCHANGED vars
        \/ \E w \in Workers : Wait(w) \/ Dequeue(w) \/ HandleClient(w)
    BY DEF V1Next, QueueStep, MainStep, V1Worker, BeginHandling, KeepHandling,
           EndHandling, Stop
  <2> QED
    BY <2>1, QueueStepLemma DEF PerClientInv
<1>3. stopped' \in BOOLEAN
  BY DEF PerClientInv, V1Next, QueueStep, MainStep, V1Worker, BeginHandling,
         KeepHandling, EndHandling, Stop
<1>4. \/ UNCHANGED cacheVars
      \/ \E w \in Workers : Cache!Receive(w) \/ Cache!CacheStep(w) \/ Cache!Return(w)
  BY DEF V1Next, QueueStep, MainStep, V1Worker, BeginHandling, KeepHandling,
         EndHandling, Stop
<1>5. CacheTypes' /\ Sized' /\ Raced'
  <2>1. CASE UNCHANGED cacheVars
    BY <2>1 DEF cacheVars, PerClientInv, CacheTypes, Sized, Cache!Used, Raced,
                Copies, Racing, threadVars
  <2>2. ASSUME NEW w \in Workers,
               Cache!Receive(w) \/ Cache!CacheStep(w) \/ Cache!Return(w)
        PROVE  CacheTypes' /\ Sized' /\ Raced'
    <3>1. w \in Threads /\ CacheAction(w)
      BY <2>2, V1Assumption DEF V1Assumption, CacheAction, Cache!CacheStep
    <3>2. CacheTypes' /\ Sized'
      BY <3>1, CacheActionKeeps DEF PerClientInv
    <3>3. Raced'
      BY <2>2, RacedInPool DEF PerClientInv
    <3> QED
      BY <3>2, <3>3
  <2> QED
    BY <1>4, <2>1, <2>2
<1>6. Bounded'
  BY DEF PerClientInv, Bounded, threadVars
<1> QED
  BY <1>1, <1>2, <1>3, <1>5, <1>6 DEF PerClientInv

\* A step of one of the other two.
LEMMA ClientStep ==
  ASSUME PerClientInv, program # "threadpool", PerClientNext
  PROVE  PerClientInv' /\ QueueMoves
<1>1. Keeping' /\ program' = program
  <2>1. [AllNext]_allVars
    BY DEF AllNext
  <2>2. program' = program
    BY DEF PerClientNext, AcceptClient, MainStops, ThreadStops, ThreadStep,
           SemWait, ReceiveRequest, LookUp, Refuse, ConnectFails, RelayResponse,
           AddAndClose, AddForEver, CloseSocket, SemPost, Handling
  <2> QED
    BY <2>1, <2>2, KeepingStep DEF PerClientInv
<1>2. UNCHANGED vars /\ stopped' \in BOOLEAN
  BY DEF PerClientInv, PerClientNext, AcceptClient, MainStops, ThreadStops, ThreadStep,
         SemWait, ReceiveRequest, LookUp, Refuse, ConnectFails, RelayResponse,
         AddAndClose, AddForEver, CloseSocket, SemPost, Handling, v1Vars
<1>3. QueueInv' /\ QueueMoves
  BY <1>2, QueueRests DEF PerClientInv
<1>4. CASE AcceptClient \/ MainStops \/ ThreadStops \/ \E t \in Threads : SemWait(t) \/ SemPost(t)
  <2>1. UNCHANGED cacheVars
    BY <1>4 DEF AcceptClient, MainStops, ThreadStops, SemWait, SemPost, v1Vars
  <2>2. CacheTypes' /\ Sized' /\ Raced'
    BY <1>1, <2>1 DEF cacheVars, PerClientInv, CacheTypes, Sized, Cache!Used, Raced,
                      Copies, Racing
  <2>3. Bounded'
    <3>1. CASE MainStops \/ ThreadStops
      BY <1>1, <2>1, <3>1 DEF MainStops, ThreadStops, threadVars, cacheVars, PerClientInv,
                              Bounded, Unfinished, Settled
    <3> QED
      BY <1>4, <3>1, BoundedAccept, BoundedPermit DEF PerClientInv
  <2> QED
    BY <1>1, <1>2, <1>3, <2>2, <2>3 DEF PerClientInv
<1>5. ASSUME NEW t \in Threads,
             \/ ReceiveRequest(t) \/ LookUp(t) \/ Refuse(t) \/ ConnectFails(t)
             \/ RelayResponse(t) \/ AddAndClose(t) \/ AddForEver(t) \/ CloseSocket(t)
      PROVE  PerClientInv'
  <2>1. CacheAction(t)
    BY <1>5 DEF ReceiveRequest, LookUp, Refuse, ConnectFails, RelayResponse,
                AddAndClose, AddForEver, CloseSocket, Handling, CacheAction
  <2>2. CacheTypes' /\ Sized'
    BY <2>1, CacheActionKeeps DEF PerClientInv
  <2>3. Raced'
    <3>1. CASE program = "with_cache"
      BY <1>1, <3>1, RacedWithCache
    <3>2. CASE program = "without_cache"
      <4>1. step[t] # "add"
        BY <3>2 DEF PerClientInv, Raced
      <4>2. \/ Cache!Receive(t) \/ Cache!Find(t) \/ Cache!FindGarbled(t)
            \/ Cache!NoResponse(t) \/ Cache!Return(t)
        BY <1>5, <3>2, <4>1
           DEF ReceiveRequest, LookUp, Refuse, ConnectFails, RelayResponse, AddAndClose,
               AddForEver, CloseSocket, Handling, Cache!Add, Cache!AddTooLarge,
               Cache!AddToFull
      <4> QED
        BY <1>1, <3>2, <4>2, RacedWithoutCache DEF PerClientInv
    <3> QED
      BY <3>1, <3>2 DEF PerClientInv
  <2>4. Bounded'
    BY <1>5, BoundedHandler, BoundedClose DEF PerClientInv
  <2> QED
    BY <1>1, <1>2, <1>3, <2>2, <2>3, <2>4 DEF PerClientInv
<1> QED
  BY <1>3, <1>4, <1>5 DEF PerClientNext, ThreadStep

LEMMA PerClientInvStep ==
  PerClientInv /\ [AllNext]_allVars => PerClientInv' /\ QueueMoves
<1> SUFFICES ASSUME PerClientInv, [AllNext]_allVars PROVE PerClientInv' /\ QueueMoves
  OBVIOUS
<1>1. CASE UNCHANGED allVars
  <2>1. UNCHANGED vars /\ UNCHANGED cacheVars /\ UNCHANGED threadVars
        /\ UNCHANGED <<program, stopped, step>>
    BY <1>1 DEF allVars, v1Vars, cacheVars
  <2>2. QueueInv' /\ QueueMoves
    BY <2>1, QueueRests DEF PerClientInv
  <2>3. Keeping'
    BY <2>1, StayingKeeps DEF PerClientInv
  <2> QED
    BY <2>1, <2>2, <2>3
       DEF PerClientInv, cacheVars, threadVars, CacheTypes, Sized, Cache!Used, Raced,
           Copies, Racing, Bounded, Unfinished, Settled
<1> QED
  BY <1>1, PoolStep, ClientStep DEF AllNext

\* PerClientInv holds of the three programs, for arrays, memory and cache of any size.
THEOREM PerClientInvHolds == AllSpec => []PerClientInv
  BY PerClientInvInit, PerClientInvStep, PTL DEF AllSpec

\* Every variable of the three C programs keeps its type: in particular no more
\* descriptors are open than there are, and no node of the queue is read after it was
\* freed (v1/proxy_server_with_threadpool_and_cache.c:249-286,
\* v1/proxy_server_with_cache.c:441-451).
THEOREM PerClientTypeCorrect == AllSpec => []PerClientTypeOK
<1>1. PerClientInv => PerClientTypeOK
  <2> SUFFICES ASSUME PerClientInv PROVE PerClientTypeOK
    OBVIOUS
  <2>1. TypeOK
    BY QueueInvLemma DEF PerClientInv
  <2>2. Cache!CacheTypeOK
    BY FS_CardinalityType DEF PerClientInv, CacheTypes, Sized, Cache!CacheTypeOK
  <2>3. /\ i \in 0..MAX_CLIENTS
        /\ place \in [Threads -> {"none", "wait", "handle", "post", "ended"}]
        /\ MAX_CLIENTS \in Nat /\ Threads = 1..MAX_CLIENTS
        /\ open \in Int /\ failed \in Nat
    BY FiniteThreads DEF PerClientInv, Keeping, Slots, Places, Descriptors
  <2>4. seamaphore \in 0..MAX_CLIENTS
    <3>1. Cardinality(Permitted) \in Nat
      BY FiniteThreads DEF Permitted
    <3> QED
      BY <2>3, <3>1 DEF PerClientInv, Keeping, Permits
  <2>5. socket \in [Threads -> (1..MAX_CLIENTS) \cup {NoSocket}]
    <3>1. \A t \in Threads : socket[t] \in (1..MAX_CLIENTS) \cup {NoSocket}
      BY <2>3 DEF PerClientInv, Keeping, Slots
    <3> QED
      BY <3>1 DEF PerClientInv, Keeping, Slots
  <2>6. open \in 0..MaxFds
    <3>1. /\ Cardinality(Unfinished) \in Nat
          /\ Cardinality(Adding) \in Nat
          /\ MaxFds \in Nat
      BY FiniteUnfinished, FiniteThreads, PerClientAssumption
         DEF PerClientAssumption, PerClientInv, Keeping, Adding
    <3>2. open >= 0
      BY <2>3, <3>1 DEF PerClientInv, Keeping, Descriptors, Bounded
    <3> QED
      BY <2>3, <3>1, <3>2 DEF PerClientInv, Bounded
  <2>7. failed \in 0..MAX_CLIENTS
    <3>1. Cardinality(Settled) <= MAX_CLIENTS /\ Cardinality(Settled) \in Nat
      BY FiniteThreads, FS_Subset DEF Settled, MAX_CLIENTS
    <3> QED
      BY <2>3, <3>1 DEF PerClientInv, Bounded
  <2>8. Connected_socketId \in [Threads -> 0..MAX_CLIENTS]
    <3>1. \A t \in Threads : Connected_socketId[t] \in 0..MAX_CLIENTS
      BY <2>3 DEF PerClientInv, Keeping, Slots
    <3> QED
      BY <3>1 DEF PerClientInv, Keeping, Slots
  <2> QED
    BY <2>1, <2>2, <2>3, <2>4, <2>5, <2>6, <2>7, <2>8
       DEF PerClientInv, PerClientTypeOK, V1TypeOK
<1> QED
  BY <1>1, PerClientInvHolds, PTL

\* ListIsWhole: enqueue and dequeue, in whatever order main and the workers get the
\* lock, keep head, tail and nodes one list without a leak, for any memory and number
\* of workers (v1/proxy_server_with_threadpool_and_cache.c:255-264, 276-283).
THEOREM ListIsWholeHolds == AllSpec => []ListIsWhole
<1>1. PerClientInv => ListIsWhole
  BY QueueInvLemma DEF PerClientInv
<1> QED
  BY <1>1, PerClientInvHolds, PTL

\* ImplementsTaskQueue: list, lock and condition are a queue that hands each client to
\* one worker, oldest first (v1/proxy_server_with_threadpool_and_cache.c:249-286,
\* 382-390); the other two programs leave it alone.
THEOREM ClientQueueImplementsQueue == AllSpec => ImplementsTaskQueue
<1>1. AllInit => Queue!Init
  BY PerClientInvInit
<1>2. PerClientInv /\ [AllNext]_allVars => [Queue!Next]_(Queue!vars)
  BY PerClientInvStep DEF QueueMoves
<1> QED
  BY <1>1, <1>2, PerClientInvHolds, PTL DEF AllSpec, ImplementsTaskQueue, Queue!Spec

\* SizeIsAccounted: cache_size is what the elements take, and within MAX_SIZE,
\* whatever the threads that share it do and whatever the sizes are
\* (v1/proxy_server_with_threadpool_and_cache.c:551-579).
THEOREM SizeIsAccountedHolds == AllSpec => []SizeIsAccounted
<1>1. PerClientInv => SizeIsAccounted
  BY CacheCounts DEF PerClientInv, Sized, SizeIsAccounted, Cache!SizeIsAccounted
<1> QED
  BY <1>1, PerClientInvHolds, PTL

\* CopiesAreFromRaces: a url is in the list of the pool's program at most as often as
\* there are workers, because whoever asks after an add finds it; in the version
\* without the cache it is never there
\* (v1/proxy_server_with_threadpool_and_cache.c:310-327, 471-504, 570-579).
THEOREM CopiesAreFromRacesHolds == AllSpec => []CopiesAreFromRaces
<1>1. PerClientInv => CopiesAreFromRaces
  <2> SUFFICES ASSUME PerClientInv, program # "with_cache", NEW u \in Urls
               PROVE  Cardinality(Copies(u)) <= Cardinality(Workers)
    BY CacheCounts DEF CopiesAreFromRaces, DuplicatesOnlyFromRaces, Cache!CopiesOf, Copies
  <2>1. /\ Cardinality(Copies(u)) \in Nat /\ Cardinality(Racing(u)) \in Nat
        /\ Cardinality(Workers) \in Nat
    BY RacersCount DEF PerClientInv
  <2>2. CASE program = "threadpool"
    BY <2>1, <2>2 DEF PerClientInv, Raced
  <2>3. CASE program = "without_cache"
    <3>1. Copies(u) = {}
      BY <2>3 DEF PerClientInv, Raced, Copies
    <3> QED
      BY <2>1, <3>1, FS_EmptySet
  <2> QED
    BY <2>2, <2>3 DEF PerClientInv
<1> QED
  BY <1>1, PerClientInvHolds, PTL

-----------------------------------------------------------------------------

\* ThreadsKeepToTheirClients: for arrays of any length, each thread handles the
\* client it was created for and never waits for a permit, and in the version with
\* the cache every descriptor in use is accounted for
\* (v1/proxy_server_with_cache.c:118-139, 220, 248-249, 356, 441, 451).
THEOREM ThreadsKeepToTheirClientsHolds == AllSpec => []ThreadsKeepToTheirClients
<1>1. Keeping => ThreadsKeepToTheirClients
  <2> SUFFICES ASSUME Keeping PROVE ThreadsKeepToTheirClients
    OBVIOUS
  <2>1. Slots /\ Permits /\ Descriptors
    BY DEF Keeping
  <2>2. ASSUME NEW t \in Threads, place[t] = "wait" PROVE seamaphore > 0
    <3>1. t \notin Permitted /\ Permitted \cup {t} \subseteq Threads
      BY <2>2 DEF Permitted
    <3>2. IsFiniteSet(Permitted) /\ Cardinality(Permitted) \in Nat
      BY <3>1, FiniteThreads
    <3>3. Cardinality(Permitted \cup {t}) = Cardinality(Permitted) + 1
      BY <3>1, <3>2, FS_AddElement
    <3>4. Cardinality(Permitted \cup {t}) <= MAX_CLIENTS
      BY <3>1, FiniteThreads, FS_Subset DEF MAX_CLIENTS
    <3> QED BY <2>1, <3>2, <3>3, <3>4, FiniteThreads DEF Permits
  <2> QED
    BY <2>1, <2>2 DEF Slots, Descriptors, Adding, ThreadsKeepToTheirClients
<1> QED BY <1>1, KeepingInit, KeepingStep, PTL DEF AllSpec

=============================================================================
