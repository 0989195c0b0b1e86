--------------------------- MODULE LFUCacheProofs ---------------------------
(***************************************************************************)
(* Proofs about LFUCache and LFUCacheHistory, for any urls, responses,     *)
(* memory and capacities.                                                  *)
(***************************************************************************)
EXTENDS LFUCacheHistory, FiniteSetTheorems, SequenceTheorems,
        WellFoundedInduction, TLAPS

-----------------------------------------------------------------------------
(* Positions in lists.                                                     *)

\* Min finds the least element of any set of natural numbers that has one.
LEMMA MinIsLeast ==
  ASSUME NEW S \in SUBSET Nat, S # {}
  PROVE  Min(S) \in S /\ \A n \in S : Min(S) <= n
<1> DEFINE Less == {pair \in Nat \X Nat : pair[1] < pair[2]}
<1>1. IsWellFoundedOn(Less, Nat)
  BY NatLessThanWellFounded DEF OpToRel
<1>2. PICK m \in S : \A n \in S : <<n, m>> \notin Less
  <2> HIDE DEF Less
  <2> QED BY <1>1, WFMin
<1>3. \A n \in S : m <= n
  <2> SUFFICES ASSUME NEW n \in S PROVE m <= n
    OBVIOUS
  <2>1. <<n, m>> \in Nat \X Nat /\ ~(n < m)
    BY <1>2
  <2> QED BY <2>1
<1> QED
  BY <1>3 DEF Min

\* The fields of a node.
LEMMA NodeType ==
  ASSUME NEW list \in Seq(FrequencyNode), NEW i \in DOMAIN list
  PROVE  /\ list[i] \in FrequencyNode
         /\ list[i].id \in Nat
         /\ list[i].frequency \in Nat
         /\ list[i].elements \in Seq(Cells)
<1>1. list[i] \in FrequencyNode
  OBVIOUS
<1> QED
  BY <1>1 DEF FrequencyNode

\* SelectInSeq of a list finds the first that passes the test, or gives 0.
\* (Stated for the tests the cache makes.)
LEMMA NextPositionLemma ==
  ASSUME NEW list \in Seq(FrequencyNode), NEW f \in Nat
  PROVE  \/ /\ NextPosition(list, f) = 1
            /\ \A i \in DOMAIN list : list[i].frequency < f
         \/ /\ NextPosition(list, f) - 1 \in DOMAIN list
            /\ list[NextPosition(list, f) - 1].frequency >= f
<1> DEFINE I == {i \in 1..Len(list) : list[i].frequency >= f}
<1>1. \A i \in DOMAIN list : list[i].frequency \in Nat
  BY NodeType
<1>2. NextPosition(list, f) = (IF I # {} THEN Min(I) ELSE 0) + 1
  BY DEF NextPosition, SelectInSeq
<1>3. CASE I = {}
  BY <1>1, <1>2, <1>3
<1>4. CASE I # {}
  <2>1. I \in SUBSET Nat
    OBVIOUS
  <2> HIDE DEF I
  <2>2. Min(I) \in I
    BY <1>4, <2>1, MinIsLeast
  <2> QED
    BY <1>2, <1>4, <2>2 DEF I
<1> QED
  BY <1>3, <1>4

\* evict's loop finds a node with elements if there is one.
LEMMA VictimLemma ==
  ASSUME frequency_list \in Seq(FrequencyNode)
  PROVE  \/ /\ VictimPosition = 0
            /\ \A i \in DOMAIN frequency_list : frequency_list[i].elements = <<>>
         \/ /\ VictimPosition \in DOMAIN frequency_list
            /\ VictimPosition # 0
            /\ frequency_list[VictimPosition].elements # <<>>
<1> DEFINE I == {i \in 1..Len(frequency_list) : frequency_list[i].elements # <<>>}
<1>1. VictimPosition = IF I # {} THEN Min(I) ELSE 0
  BY DEF VictimPosition, SelectInSeq
<1>2. CASE I = {}
  BY <1>1, <1>2
<1>3. CASE I # {}
  <2>1. I \in SUBSET Nat
    OBVIOUS
  <2> HIDE DEF I
  <2>2. Min(I) \in I
    BY <1>3, <2>1, MinIsLeast
  <2> QED
    BY <1>1, <1>3, <2>2 DEF I
<1> QED
  BY <1>2, <1>3

-----------------------------------------------------------------------------
(* Inserting, erasing and replacing in lists.                              *)

\* What is where after an erase.
LEMMA RemoveAtLemma ==
  ASSUME NEW S, NEW list \in Seq(S), NEW p \in DOMAIN list
  PROVE  /\ RemoveAt(list, p) \in Seq(S)
         /\ Len(RemoveAt(list, p)) = Len(list) - 1
         /\ \A i \in 1..(Len(list) - 1) :
              RemoveAt(list, p)[i] = IF i < p THEN list[i] ELSE list[i + 1]
<1> DEFINE n == Len(list)
           before == SubSeq(list, 1, p - 1)
           after == SubSeq(list, p + 1, n)
<1>1. n \in Nat /\ p \in 1..n
  OBVIOUS
<1>2. /\ before \in Seq(S) /\ Len(before) = p - 1
      /\ \A i \in 1..(p - 1) : before[i] = list[i]
  BY <1>1
<1>3. /\ after \in Seq(S) /\ Len(after) = n - p
      /\ \A i \in 1..(n - p) : after[i] = list[p + i]
  BY <1>1
<1>4. RemoveAt(list, p) = before \o after
  BY DEF RemoveAt
<1> HIDE DEF n, before, after
<1>5. /\ before \o after \in Seq(S)
      /\ Len(before \o after) = n - 1
  <2>1. before \o after \in Seq(S)
    BY <1>2, <1>3
  <2>2. Len(before \o after) = Len(before) + Len(after)
    BY <1>2, <1>3, ConcatProperties
  <2> QED
    BY <1>1, <1>2, <1>3, <2>1, <2>2
<1>6. ASSUME NEW i \in 1..(n - 1)
      PROVE  (before \o after)[i] = IF i < p THEN list[i] ELSE list[i + 1]
  <2>1. CASE i < p
    BY <1>1, <1>2, <1>3, <2>1
  <2>2. CASE ~(i < p)
    <3>1. (before \o after)[i] = after[i - (p - 1)] /\ i - (p - 1) \in 1..(n - p)
      BY <1>1, <1>2, <1>3, <2>2
    <3>2. p + (i - (p - 1)) = i + 1
      BY <1>1
    <3> QED
      BY <1>3, <2>2, <3>1, <3>2
  <2> QED
    BY <2>1, <2>2
<1> QED
  BY <1>4, <1>5, <1>6 DEF n

\* What is where after an insert.
LEMMA InsertAtLemma ==
  ASSUME NEW S, NEW list \in Seq(S), NEW p \in 1..(Len(list) + 1), NEW x \in S
  PROVE  /\ InsertAt(list, p, x) \in Seq(S)
         /\ Len(InsertAt(list, p, x)) = Len(list) + 1
         /\ \A i \in 1..(Len(list) + 1) :
              InsertAt(list, p, x)[i] =
                IF i < p THEN list[i] ELSE IF i = p THEN x ELSE list[i - 1]
<1> DEFINE n == Len(list)
           before == SubSeq(list, 1, p - 1)
           after == SubSeq(list, p, n)
           front == before \o <<x>>
<1>1. n \in Nat /\ p \in 1..(n + 1)
  OBVIOUS
<1>2. /\ before \in Seq(S) /\ Len(before) = p - 1
      /\ \A i \in 1..(p - 1) : before[i] = list[i]
  BY <1>1
<1>3. /\ after \in Seq(S) /\ Len(after) = n + 1 - p
      /\ \A i \in 1..(n + 1 - p) : after[i] = list[p + i - 1]
  BY <1>1
<1>4. InsertAt(list, p, x) = front \o after
  BY DEF InsertAt
<1> HIDE DEF n, before, after
<1>5. /\ front \in Seq(S) /\ Len(front) = p /\ front[p] = x
      /\ \A i \in 1..(p - 1) : front[i] = list[i]
  BY <1>1, <1>2
<1> HIDE DEF front
<1>6. /\ front \o after \in Seq(S)
      /\ Len(front \o after) = n + 1
  <2>1. front \o after \in Seq(S)
    BY <1>3, <1>5
  <2>2. Len(front \o after) = Len(front) + Len(after)
    BY <1>3, <1>5, ConcatProperties
  <2> QED
    BY <1>1, <1>3, <1>5, <2>1, <2>2
<1>7. ASSUME NEW i \in 1..(n + 1)
      PROVE  (front \o after)[i] =
               IF i < p THEN list[i] ELSE IF i = p THEN x ELSE list[i - 1]
  <2>1. CASE i <= p
    BY <1>1, <1>3, <1>5, <2>1
  <2>2. CASE i > p
    <3>1. (front \o after)[i] = after[i - p] /\ i - p \in 1..(n + 1 - p)
      BY <1>1, <1>3, <1>5, <2>2
    <3>2. p + (i - p) - 1 = i - 1
      BY <1>1
    <3> QED
      BY <1>1, <1>3, <2>2, <3>1, <3>2
  <2>3. i <= p \/ i > p
    BY <1>1
  <2> QED
    BY <2>1, <2>2, <2>3, Zenon
<1> QED
  BY <1>4, <1>6, <1>7 DEF n

\* erase and remove of an element that is once in a list.
LEMMA RemoveFirstLemma ==
  ASSUME NEW list \in Seq(Cells), IsInjective(list), NEW c \in Range(list)
  PROVE  /\ RemoveFirst(list, c) \in Seq(Cells)
         /\ IsInjective(RemoveFirst(list, c))
         /\ Range(RemoveFirst(list, c)) = Range(list) \ {c}
<1> DEFINE I == {i \in 1..Len(list) : list[i] = c}
           rest == RemoveFirst(list, c)
<1>1. PICK p \in 1..Len(list) : list[p] = c
  BY DEF Range
<1>2. I = {p}
  BY <1>1 DEF IsInjective
<1>3. SelectInSeq(list, LAMBDA v : v = c) = Min({p})
  BY <1>2 DEF SelectInSeq
<1>4. Min({p}) = p
  BY <1>1 DEF Min
<1>5. rest = RemoveAt(list, p)
  BY <1>1, <1>3, <1>4 DEF RemoveFirst
<1>6. /\ rest \in Seq(Cells) /\ Len(rest) = Len(list) - 1
      /\ \A i \in 1..(Len(list) - 1) :
           rest[i] = IF i < p THEN list[i] ELSE list[i + 1]
  BY <1>1, <1>5, RemoveAtLemma
<1>11. DOMAIN rest = 1..(Len(list) - 1) /\ Len(list) \in Nat
       /\ DOMAIN list = 1..Len(list)
  BY <1>6
<1> HIDE DEF rest
<1>7. IsInjective(rest)
  BY <1>1, <1>6, <1>11 DEF IsInjective
<1>8. Range(rest) \subseteq Range(list) \ {c}
  BY <1>1, <1>6, <1>11 DEF Range, IsInjective
<1>9. ASSUME NEW i \in 1..Len(list), i # p PROVE list[i] \in Range(rest)
  <2>1. CASE i < p
    <3>1. i \in DOMAIN rest /\ rest[i] = list[i]
      BY <1>1, <1>6, <2>1
    <3> QED
      BY <3>1 DEF Range
  <2>2. CASE i > p
    <3>1. i - 1 \in DOMAIN rest /\ rest[i - 1] = list[i]
      BY <1>1, <1>6, <2>2
    <3> QED
      BY <3>1 DEF Range
  <2> QED
    BY <1>1, <1>9, <2>1, <2>2
<1>10. Range(list) \ {c} \subseteq Range(rest)
  BY <1>1, <1>9 DEF Range
<1> QED
  BY <1>6, <1>7, <1>8, <1>10 DEF rest

\* pop_back of a list without duplicates.
LEMMA FrontLemma ==
  ASSUME NEW list \in Seq(Cells), IsInjective(list), list # <<>>
  PROVE  /\ Front(list) \in Seq(Cells)
         /\ IsInjective(Front(list))
         /\ Last(list) \in Range(list)
         /\ Range(Front(list)) = Range(list) \ {Last(list)}
<1> DEFINE n == Len(list)
           rest == Front(list)
<1>1. n \in Nat \ {0} /\ DOMAIN list = 1..n /\ Last(list) = list[n]
  BY DEF Last
<1>2. /\ rest \in Seq(Cells) /\ DOMAIN rest = 1..(n - 1)
      /\ \A i \in 1..(n - 1) : rest[i] = list[i]
  BY <1>1 DEF Front
<1> HIDE DEF n, rest
<1>3. IsInjective(rest)
  BY <1>1, <1>2 DEF IsInjective
<1>4. Range(rest) = Range(list) \ {list[n]} /\ list[n] \in Range(list)
  BY <1>1, <1>2 DEF Range, IsInjective
<1> QED
  BY <1>1, <1>2, <1>3, <1>4 DEF rest

\* push_front of a new element.
LEMMA PushFrontLemma ==
  ASSUME NEW list \in Seq(Cells), IsInjective(list), NEW c \in Cells \ Range(list)
  PROVE  /\ <<c>> \o list \in Seq(Cells)
         /\ IsInjective(<<c>> \o list)
         /\ Range(<<c>> \o list) = Range(list) \cup {c}
<1> DEFINE n == Len(list)
           longer == <<c>> \o list
<1>1. n \in Nat /\ DOMAIN list = 1..n
  OBVIOUS
<1>2. /\ longer \in Seq(Cells) /\ DOMAIN longer = 1..(n + 1)
      /\ longer[1] = c
      /\ \A i \in 1..n : i + 1 \in 1..(n + 1) /\ longer[i + 1] = list[i]
      /\ \A i \in 2..(n + 1) : i - 1 \in 1..n /\ longer[i] = list[i - 1]
  BY <1>1
<1>3. \A i \in 1..n : list[i] \in Range(list)
  BY <1>1 DEF Range
<1> HIDE DEF n, longer
<1>4. \A i \in 1..(n + 1) : i = 1 \/ i \in 2..(n + 1)
  BY <1>1
<1>5. ASSUME NEW i \in 1..(n + 1), NEW j \in 1..(n + 1), longer[i] = longer[j]
      PROVE  i = j
  <2>1. CASE i \in 2..(n + 1) /\ j \in 2..(n + 1)
    <3>1. /\ i - 1 \in 1..n /\ j - 1 \in 1..n
          /\ list[i - 1] = list[j - 1]
      BY <1>2, <1>5, <2>1
    <3>2. i - 1 = j - 1
      BY <1>1, <3>1 DEF IsInjective
    <3> QED
      BY <1>1, <3>2
  <2>2. CASE i = 1
    BY <1>2, <1>3, <1>4, <1>5, <2>2
  <2>3. CASE j = 1
    BY <1>2, <1>3, <1>4, <1>5, <2>3
  <2> QED
    BY <1>4, <2>1, <2>2, <2>3
<1>6. IsInjective(longer)
  BY <1>2, <1>5 DEF IsInjective
<1>7. Range(longer) \subseteq Range(list) \cup {c}
  <2>1. \A i \in 1..(n + 1) : longer[i] \in Range(list) \cup {c}
    BY <1>2, <1>3, <1>4
  <2> QED
    BY <1>2, <2>1 DEF Range
<1>8. Range(list) \cup {c} \subseteq Range(longer)
  <2>1. 1 \in 1..(n + 1)
    BY <1>1
  <2>2. c \in Range(longer)
    BY <1>2, <2>1 DEF Range
  <2>3. \A i \in 1..n : list[i] \in Range(longer)
    BY <1>2 DEF Range
  <2> QED
    BY <1>1, <2>2, <2>3 DEF Range
<1> QED
  BY <1>2, <1>6, <1>7, <1>8 DEF longer

-----------------------------------------------------------------------------
(* The list of nodes.  Pointers tell its nodes apart, so most of what there *)
(* is to say of it can be said of the set of its nodes, Range(list).       *)

Shaped(list) ==
  /\ list \in Seq(FrequencyNode) /\ list # <<>>
  /\ \A i, j \in DOMAIN list : list[i].id = list[j].id => i = j

\* The node with other elements.
Refill(node, elements) == [node EXCEPT !.elements = elements]

\* It is a node like the other.
LEMMA RefillLemma ==
  ASSUME NEW node \in FrequencyNode, NEW elements \in Seq(Cells)
  PROVE  /\ Refill(node, elements) = [id |-> node.id, frequency |-> node.frequency,
                                      elements |-> elements]
         /\ Refill(node, elements) \in FrequencyNode
         /\ Refill(node, elements).id = node.id
         /\ Refill(node, elements).frequency = node.frequency
         /\ Refill(node, elements).elements = elements
<1>1. Refill(node, elements) = [id |-> node.id, frequency |-> node.frequency,
                                elements |-> elements]
  BY DEF Refill, FrequencyNode
<1> QED
  BY <1>1 DEF FrequencyNode

\* What Shaped says of the nodes and their positions.
LEMMA ShapedLemma ==
  ASSUME NEW list, Shaped(list)
  PROVE  /\ Len(list) \in Nat \ {0} /\ DOMAIN list = 1..Len(list)
         /\ 1 \in DOMAIN list
         /\ \A i \in DOMAIN list : list[i] \in Range(list)
         /\ Range(list) \subseteq FrequencyNode
         /\ \A x, y \in Range(list) : x.id = y.id => x = y
<1>1. list \in Seq(FrequencyNode) /\ list # <<>>
  BY DEF Shaped
<1>2. Len(list) \in Nat \ {0} /\ DOMAIN list = 1..Len(list)
  BY <1>1
<1>3. \A i \in DOMAIN list : list[i] \in Range(list) /\ list[i] \in FrequencyNode
  BY <1>1 DEF Range
<1>4. Range(list) \subseteq FrequencyNode
  BY <1>3 DEF Range
<1>5. \A x, y \in Range(list) : x.id = y.id => x = y
  BY DEF Range, Shaped
<1> QED
  BY <1>2, <1>3, <1>4, <1>5

\* Some number below the number of nodes and one is no node's.
LEMMA NewIdLemma ==
  ASSUME NEW list, Shaped(list)
  PROVE  NewId(list) \in Nat /\ \A x \in Range(list) : x.id # NewId(list)
<1> DEFINE n == Len(list)
           unused == {k \in 0..n : \A i \in DOMAIN list : list[i].id # k}
<1>1. n \in Nat /\ DOMAIN list = 1..n
  BY ShapedLemma
<1>2. ASSUME unused = {} PROVE FALSE
  <2> DEFINE at == [k \in 0..n |-> CHOOSE i \in 1..n : list[i].id = k]
  <2>1. \A k \in 0..n : at[k] \in 1..n /\ list[at[k]].id = k
    BY <1>1, <1>2
  <2>2. at \in [0..n -> 1..n]
    BY <2>1
  <2> HIDE DEF n, at
  <2>3. /\ IsFiniteSet(1..n) /\ Cardinality(1..n) = n
        /\ IsFiniteSet(0..n) /\ Cardinality(0..n) = n + 1
    BY <1>1, FS_Interval
  <2>4. Cardinality(1..n) < Cardinality(0..n)
    BY <1>1, <2>3
  <2>5. \E k, l \in 0..n : k # l /\ at[k] = at[l]
    BY <2>2, <2>3, <2>4, FS_PigeonHole
  <2> QED
    BY <2>1, <2>5
<1>3. unused \in SUBSET Nat
  BY <1>1
<1>4. NewId(list) = Min(unused)
  BY DEF NewId
<1> HIDE DEF unused
<1>5. NewId(list) \in unused
  BY <1>2, <1>3, <1>4, MinIsLeast
<1> QED
  BY <1>1, <1>5 DEF unused, Range

\* A pointer to a node of the list leads to it.
LEMMA PositionLemma ==
  ASSUME NEW list, Shaped(list), NEW x \in Range(list)
  PROVE  /\ PositionOf(list, x.id) \in DOMAIN list
         /\ list[PositionOf(list, x.id)] = x
<1>1. \E i \in DOMAIN list : list[i].id = x.id
  BY DEF Range
<1>2. /\ PositionOf(list, x.id) \in DOMAIN list
      /\ list[PositionOf(list, x.id)].id = x.id
  BY <1>1 DEF PositionOf
<1> QED
  BY <1>2, ShapedLemma

\* Changing the elements of one node.
LEMMA WithElementsLemma ==
  ASSUME NEW list, Shaped(list), NEW p \in DOMAIN list, NEW e \in Seq(Cells)
  PROVE  LET new == WithElements(list, p, e) IN
         /\ Shaped(new) /\ DOMAIN new = DOMAIN list
         /\ new[p] = Refill(list[p], e)
         /\ \A i \in DOMAIN list : i # p => new[i] = list[i]
         /\ Range(new) = (Range(list) \ {list[p]}) \cup {Refill(list[p], e)}
<1> DEFINE n == Len(list)
           x == Refill(list[p], e)
           new == WithElements(list, p, e)
<1>1. /\ list \in Seq(FrequencyNode) /\ n \in Nat \ {0} /\ DOMAIN list = 1..n
      /\ list[p] \in FrequencyNode
      /\ \A i, j \in 1..n : list[i].id = list[j].id => i = j
  BY ShapedLemma DEF Shaped
<1>2. /\ x = [id |-> list[p].id, frequency |-> list[p].frequency, elements |-> e]
      /\ x \in FrequencyNode /\ x.id = list[p].id
  BY <1>1, RefillLemma
<1>3. new = [list EXCEPT ![p] = x]
  BY DEF WithElements, Refill
<1> HIDE DEF n, x, new
<1>4. /\ new \in Seq(FrequencyNode) /\ DOMAIN new = 1..n
      /\ new[p] = x
      /\ \A i \in 1..n : i # p => new[i] = list[i]
  BY <1>1, <1>2, <1>3
<1>5. new # <<>>
  BY <1>1, <1>4
<1>6. \A i, j \in 1..n : new[i].id = new[j].id => i = j
  <2>1. \A i \in 1..n : new[i].id = list[i].id
    BY <1>1, <1>2, <1>4
  <2> QED
    BY <1>1, <2>1
<1>7. Shaped(new)
  BY <1>4, <1>5, <1>6 DEF Shaped
<1>8. Range(new) = (Range(list) \ {list[p]}) \cup {x}
  <2>1. \A i \in 1..n : i # p => list[i] # list[p]
    BY <1>1
  <2>2. Range(list) = {list[i] : i \in 1..n} /\ Range(new) = {new[i] : i \in 1..n}
    BY <1>1, <1>4 DEF Range
  <2> QED
    BY <1>1, <1>4, <2>1, <2>2
<1> QED
  BY <1>1, <1>2, <1>4, <1>7, <1>8 DEF n, x, new

\* Inserting a node.
LEMMA InsertNodeLemma ==
  ASSUME NEW list, Shaped(list), NEW p \in 1..(Len(list) + 1),
         NEW x \in FrequencyNode, \A y \in Range(list) : y.id # x.id
  PROVE  LET new == InsertAt(list, p, x) IN
         /\ Shaped(new) /\ p \in DOMAIN new
         /\ new[p] = x
         /\ new[1] = IF p = 1 THEN x ELSE list[1]
         /\ Range(new) = Range(list) \cup {x}
<1> DEFINE n == Len(list)
           new == InsertAt(list, p, x)
           before(i) == IF i < p THEN i ELSE i - 1
           behind(i) == IF i < p THEN i ELSE i + 1
<1>1. /\ list \in Seq(FrequencyNode) /\ n \in Nat \ {0} /\ DOMAIN list = 1..n
      /\ \A i, j \in 1..n : list[i].id = list[j].id => i = j
      /\ \A i \in 1..n : list[i] \in Range(list)
      /\ p \in 1..(n + 1)
  BY ShapedLemma DEF Shaped
<1>2. /\ new \in Seq(FrequencyNode) /\ Len(new) = n + 1
      /\ \A i \in 1..(n + 1) :
           new[i] = IF i < p THEN list[i] ELSE IF i = p THEN x ELSE list[i - 1]
  <2> HIDE DEF before, behind
  <2>1. list \in Seq(FrequencyNode)
    BY DEF Shaped
  <2> QED
    BY ONLY <2>1, p \in 1..(Len(list) + 1), x \in FrequencyNode, InsertAtLemma
       DEF n, new
<1>3. DOMAIN new = 1..(n + 1)
  BY <1>2
<1> HIDE DEF n, new
<1>4. new[p] = x
  BY <1>1, <1>2
<1>5. \A i \in 1..(n + 1) : i # p => before(i) \in 1..n /\ new[i] = list[before(i)]
  BY <1>1, <1>2
<1>6. \A i, j \in 1..(n + 1) : i # p /\ j # p /\ before(i) = before(j) => i = j
  BY <1>1
<1>7. \A i \in 1..n : behind(i) \in 1..(n + 1) /\ new[behind(i)] = list[i]
  <2>1. ASSUME NEW i \in 1..n
        PROVE  behind(i) \in 1..(n + 1) /\ new[behind(i)] = list[i]
    <3>1. behind(i) \in 1..(n + 1) /\ behind(i) # p /\ before(behind(i)) = i
      BY <1>1
    <3> HIDE DEF before, behind
    <3> QED
      BY <1>5, <3>1
  <2> QED
    BY <2>1
<1>8. new[1] = IF p = 1 THEN x ELSE list[1]
  BY <1>1, <1>2
<1> HIDE DEF before, behind
<1>9. \A i, j \in 1..(n + 1) : new[i].id = new[j].id => i = j
  <2>1. ASSUME NEW i \in 1..(n + 1), NEW j \in 1..(n + 1), new[i].id = new[j].id
        PROVE  i = j
    <3>1. CASE i # p /\ j # p
      BY <1>1, <1>5, <1>6, <2>1, <3>1
    <3>2. CASE i = p /\ j # p
      BY <1>1, <1>4, <1>5, <2>1, <3>2
    <3>3. CASE i # p /\ j = p
      BY <1>1, <1>4, <1>5, <2>1, <3>3
    <3> QED
      BY <3>1, <3>2, <3>3
  <2> QED
    BY <2>1
<1>10. Shaped(new)
  <2>1. new # <<>>
    BY <1>1, <1>2
  <2> QED
    BY <1>2, <1>3, <1>9, <2>1 DEF Shaped
<1>11. Range(new) = Range(list) \cup {x}
  <2>1. Range(list) = {list[i] : i \in 1..n} /\ Range(new) = {new[i] : i \in 1..(n + 1)}
    BY <1>1, <1>3 DEF Range
  <2>2. Range(new) \subseteq Range(list) \cup {x}
    <3>1. \A i \in 1..(n + 1) : new[i] \in Range(list) \cup {x}
      BY <1>1, <1>4, <1>5
    <3> QED
      BY <1>3, <3>1 DEF Range
  <2>3. Range(list) \cup {x} \subseteq Range(new)
    <3>1. x \in Range(new)
      BY <1>1, <1>4, <2>1
    <3>2. \A i \in 1..n : list[i] \in Range(new)
      BY <1>3, <1>7 DEF Range
    <3> QED
      BY <2>1, <3>1, <3>2
  <2> QED
    BY <2>2, <2>3
<1> QED
  BY <1>1, <1>3, <1>4, <1>8, <1>10, <1>11 DEF new

\* Erasing a node other than the first.
LEMMA RemoveNodeLemma ==
  ASSUME NEW list, Shaped(list), NEW p \in DOMAIN list, p # 1
  PROVE  LET new == RemoveAt(list, p) IN
         /\ Shaped(new)
         /\ new[1] = list[1]
         /\ Range(new) = Range(list) \ {list[p]}
<1> DEFINE n == Len(list)
           new == RemoveAt(list, p)
           before(i) == IF i < p THEN i ELSE i + 1
           behind(i) == IF i < p THEN i ELSE i - 1
<1>1. /\ list \in Seq(FrequencyNode) /\ n \in Nat \ {0} /\ DOMAIN list = 1..n
      /\ \A i, j \in 1..n : list[i].id = list[j].id => i = j
      /\ p \in 2..n
  BY ShapedLemma DEF Shaped
<1>2. /\ new \in Seq(FrequencyNode) /\ Len(new) = n - 1
      /\ \A i \in 1..(n - 1) : new[i] = IF i < p THEN list[i] ELSE list[i + 1]
  BY <1>1, RemoveAtLemma
<1>3. DOMAIN new = 1..(n - 1) /\ n - 1 \in Nat \ {0}
  BY <1>1, <1>2
<1> HIDE DEF n, new
<1>4. \A i \in 1..(n - 1) : /\ before(i) \in 1..n /\ before(i) # p
                            /\ new[i] = list[before(i)]
  BY <1>1, <1>2
<1>5. \A i, j \in 1..(n - 1) : before(i) = before(j) => i = j
  BY <1>1
<1>6. \A i \in 1..n : i # p => behind(i) \in 1..(n - 1) /\ new[behind(i)] = list[i]
  <2>1. ASSUME NEW i \in 1..n, i # p
        PROVE  behind(i) \in 1..(n - 1) /\ new[behind(i)] = list[i]
    <3>1. behind(i) \in 1..(n - 1) /\ before(behind(i)) = i
      BY <1>1, <2>1
    <3> HIDE DEF before, behind
    <3> QED
      BY <1>4, <3>1
  <2> QED
    BY <2>1
<1>7. new[1] = list[1]
  BY <1>1, <1>2, <1>3
<1> HIDE DEF before, behind
<1>8. \A i, j \in 1..(n - 1) : new[i].id = new[j].id => i = j
  BY <1>1, <1>4, <1>5
<1>9. Shaped(new)
  <2>1. new # <<>>
    BY <1>2, <1>3
  <2> QED
    BY <1>2, <1>3, <1>8, <2>1 DEF Shaped
<1>10. Range(new) = Range(list) \ {list[p]}
  <2>1. Range(list) = {list[i] : i \in 1..n} /\ Range(new) = {new[i] : i \in 1..(n - 1)}
    BY <1>1, <1>3 DEF Range
  <2>2. \A i \in 1..n : i # p => list[i] # list[p]
    BY <1>1
  <2>3. Range(new) \subseteq Range(list) \ {list[p]}
    BY <1>4, <2>1, <2>2
  <2>4. Range(list) \ {list[p]} \subseteq Range(new)
    BY <1>6, <2>1
  <2> QED
    BY <2>3, <2>4
<1> QED
  BY <1>7, <1>9, <1>10 DEF new

-----------------------------------------------------------------------------
(* Nodes, map and memory.                                                  *)

\* Consistent, and the types it needs, of any set of nodes, map and memory.
Coherent(nodes, map, mem) ==
  /\ nodes \subseteq FrequencyNode
  /\ \A x, y \in nodes : x.id = y.id => x = y
  /\ \A x \in nodes : IsInjective(x.elements)
  /\ DOMAIN map \subseteq Urls
  /\ mem \in [Cells -> Element \cup {Free}]
  /\ \A x \in nodes : \A c \in Range(x.elements) :
       /\ mem[c] # Free
       /\ mem[c].url \in DOMAIN map
       /\ map[mem[c].url] = [node |-> x.id, element |-> c]
  /\ \A u \in DOMAIN map : \E x \in nodes : \E c \in Range(x.elements) :
       map[u] = [node |-> x.id, element |-> c] /\ mem[c].url = u
  /\ \A c \in Cells : mem[c] # Free => \E x \in nodes : c \in Range(x.elements)

\* Types of what a node holds.
LEMMA NodeFields ==
  ASSUME NEW x \in FrequencyNode
  PROVE  /\ x.id \in Nat /\ x.frequency \in Nat
         /\ x.elements \in Seq(Cells) /\ Range(x.elements) \subseteq Cells
<1>1. x.id \in Nat /\ x.frequency \in Nat /\ x.elements \in Seq(Cells)
  BY DEF FrequencyNode
<1> QED
  BY <1>1 DEF Range

\* An element is in one node only.
LEMMA OneNode ==
  ASSUME NEW nodes, NEW map, NEW mem, Coherent(nodes, map, mem),
         NEW x \in nodes, NEW y \in nodes, NEW c \in Range(x.elements),
         c \in Range(y.elements)
  PROVE  x = y
<1>1. [node |-> x.id, element |-> c] = [node |-> y.id, element |-> c]
  BY DEF Coherent
<1>2. x.id = y.id
  BY <1>1
<1> QED
  BY <1>2 DEF Coherent

\* Taking an element out of its node, the map and the memory.
LEMMA TakenCoherent ==
  ASSUME NEW nodes, NEW map, NEW mem, Coherent(nodes, map, mem),
         NEW x \in nodes, NEW c \in Range(x.elements),
         NEW e \in Seq(Cells), IsInjective(e), Range(e) = Range(x.elements) \ {c}
  PROVE  Coherent((nodes \ {x}) \cup {Refill(x, e)},
                  Restrict(map, DOMAIN map \ {mem[c].url}),
                  [mem EXCEPT ![c] = Free])
<1> DEFINE rest == (nodes \ {x}) \cup {Refill(x, e)}
           less == Restrict(map, DOMAIN map \ {mem[c].url})
           freed == [mem EXCEPT ![c] = Free]
<1>1. /\ x \in FrequencyNode /\ nodes \subseteq FrequencyNode
      /\ DOMAIN mem = Cells /\ mem \in [Cells -> Element \cup {Free}]
  BY DEF Coherent
<1>2. /\ c \in Cells /\ mem[c].url \in DOMAIN map
      /\ map[mem[c].url] = [node |-> x.id, element |-> c]
  BY <1>1, NodeFields DEF Coherent
<1>3. /\ Refill(x, e) \in FrequencyNode /\ Refill(x, e).id = x.id
      /\ Refill(x, e).elements = e
  BY <1>1, RefillLemma
<1>4. /\ DOMAIN less = DOMAIN map \ {mem[c].url}
      /\ \A u \in DOMAIN less : less[u] = map[u]
  BY DEF Restrict
<1>5. /\ freed \in [Cells -> Element \cup {Free}] /\ freed[c] = Free
      /\ \A d \in Cells : d # c => freed[d] = mem[d]
  BY <1>1, <1>2
\* What was in a node of the list and is still in one.
<1>6. ASSUME NEW y \in rest, NEW d \in Range(y.elements)
      PROVE  \E z \in nodes : z.id = y.id /\ d \in Range(z.elements) /\ d # c
  <2>1. CASE y = Refill(x, e)
    BY <1>3, <2>1
  <2>2. CASE y \in nodes \ {x}
    BY <2>2, OneNode
  <2> QED
    BY <2>1, <2>2
<1>7. ASSUME NEW z \in nodes, NEW d \in Range(z.elements), d # c
      PROVE  \E y \in rest : y.id = z.id /\ d \in Range(y.elements)
  <2>1. CASE z = x
    BY <1>3, <1>7, <2>1
  <2>2. CASE z # x
    BY <2>2
  <2> QED
    BY <2>1, <2>2
<1>8. /\ rest \subseteq FrequencyNode
      /\ \A y, z \in rest : y.id = z.id => y = z
      /\ \A y \in rest : IsInjective(y.elements)
  BY <1>1, <1>3 DEF Coherent
<1> HIDE DEF rest, less, freed
<1>9. ASSUME NEW y \in rest, NEW d \in Range(y.elements)
      PROVE  /\ freed[d] # Free
             /\ freed[d].url \in DOMAIN less
             /\ less[freed[d].url] = [node |-> y.id, element |-> d]
  <2>1. PICK z \in nodes : z.id = y.id /\ d \in Range(z.elements) /\ d # c
    BY <1>6
  <2>2. /\ d \in Cells /\ mem[d] # Free /\ mem[d].url \in DOMAIN map
        /\ map[mem[d].url] = [node |-> y.id, element |-> d]
    BY <1>1, <2>1, NodeFields DEF Coherent
  <2>3. map[mem[d].url] # map[mem[c].url]
    BY <1>2, <2>1, <2>2
  <2> QED
    BY <1>4, <1>5, <2>1, <2>2, <2>3
<1>10. ASSUME NEW u \in DOMAIN less
       PROVE  \E y \in rest : \E d \in Range(y.elements) :
                less[u] = [node |-> y.id, element |-> d] /\ freed[d].url = u
  <2>1. u \in DOMAIN map /\ u # mem[c].url /\ less[u] = map[u]
    BY <1>4
  <2>2. PICK z \in nodes : \E d \in Range(z.elements) :
          map[u] = [node |-> z.id, element |-> d] /\ mem[d].url = u
    BY <2>1 DEF Coherent
  <2>3. PICK d \in Range(z.elements) :
          map[u] = [node |-> z.id, element |-> d] /\ mem[d].url = u
    BY <2>2
  <2>4. d # c /\ d \in Cells
    BY <1>1, <2>1, <2>3, NodeFields
  <2>5. PICK y \in rest : y.id = z.id /\ d \in Range(y.elements)
    BY <1>7, <2>4
  <2> QED
    BY <1>5, <2>1, <2>3, <2>4, <2>5
<1>11. ASSUME NEW d \in Cells, freed[d] # Free
       PROVE  \E y \in rest : d \in Range(y.elements)
  <2>1. d # c /\ mem[d] # Free
    BY <1>5, <1>11
  <2>2. PICK z \in nodes : d \in Range(z.elements)
    BY <2>1 DEF Coherent
  <2> QED
    BY <1>7, <2>1, <2>2
<1>12. DOMAIN less \subseteq Urls
  BY <1>4 DEF Coherent
<1>13. Coherent(rest, less, freed)
  BY <1>5, <1>8, <1>9, <1>10, <1>11, <1>12 DEF Coherent
<1> QED
  BY <1>13 DEF rest, less, freed

\* What push_front and the map entry of a new element make of map and memory.
Files(x, c, element, map, mem, more, filled) ==
  /\ c \in Cells /\ mem[c] = Free
  /\ element \in Element /\ element.url \notin DOMAIN map
  /\ DOMAIN more = DOMAIN map \cup {element.url}
  /\ more[element.url] = [node |-> x.id, element |-> c]
  /\ \A z \in DOMAIN map : more[z] = map[z]
  /\ filled \in [Cells -> Element \cup {Free}]
  /\ filled[c] = element
  /\ \A d \in Cells : d # c => filled[d] = mem[d]

\* Filing a new element at the front of a node, in the map and in the memory.
LEMMA FiledCoherent ==
  ASSUME NEW nodes, NEW map, NEW mem, Coherent(nodes, map, mem),
         NEW x \in nodes, NEW c, NEW element, NEW more, NEW filled,
         Files(x, c, element, map, mem, more, filled)
  PROVE  /\ <<c>> \o x.elements \in Seq(Cells)
         /\ Coherent((nodes \ {x}) \cup {Refill(x, <<c>> \o x.elements)}, more, filled)
<1> DEFINE e == <<c>> \o x.elements
           rest == (nodes \ {x}) \cup {Refill(x, e)}
           u == element.url
<1>1. /\ x \in FrequencyNode /\ nodes \subseteq FrequencyNode
      /\ DOMAIN mem = Cells /\ mem \in [Cells -> Element \cup {Free}]
      /\ IsInjective(x.elements)
  BY DEF Coherent
<1>2. /\ c \in Cells /\ mem[c] = Free
      /\ \A y \in nodes : c \notin Range(y.elements)
  BY DEF Coherent, Files
<1>3. e \in Seq(Cells) /\ IsInjective(e) /\ Range(e) = Range(x.elements) \cup {c}
  BY <1>1, <1>2, NodeFields, PushFrontLemma
<1>4. /\ Refill(x, e) \in FrequencyNode /\ Refill(x, e).id = x.id
      /\ Refill(x, e).elements = e
  BY <1>1, <1>3, RefillLemma
<1>5. /\ DOMAIN more = DOMAIN map \cup {u}
      /\ more[u] = [node |-> x.id, element |-> c]
      /\ \A y \in DOMAIN map : y # u /\ more[y] = map[y]
  BY DEF Files
<1>6. /\ filled \in [Cells -> Element \cup {Free}]
      /\ filled[c] = element /\ element \in Element
      /\ \A d \in Cells : d # c => filled[d] = mem[d]
  BY DEF Files
<1>7. filled[c] # Free /\ filled[c].url = u /\ u \in Urls
  BY <1>6, LFUAssumption DEF LFUAssumption, Element
<1> HIDE DEF e, u
<1>8. ASSUME NEW y \in rest, NEW d \in Range(y.elements)
      PROVE  \/ d = c /\ y.id = x.id
             \/ \E z \in nodes : z.id = y.id /\ d \in Range(z.elements)
  BY <1>3, <1>4
<1>9. ASSUME NEW z \in nodes, NEW d \in Range(z.elements)
      PROVE  \E y \in rest : y.id = z.id /\ d \in Range(y.elements)
  <2>1. CASE z = x
    BY <1>3, <1>4, <2>1
  <2>2. CASE z # x
    BY <2>2
  <2> QED
    BY <2>1, <2>2
<1>10. Refill(x, e) \in rest /\ c \in Range(Refill(x, e).elements)
  BY <1>3, <1>4
<1>11. /\ rest \subseteq FrequencyNode
       /\ \A y, z \in rest : y.id = z.id => y = z
       /\ \A y \in rest : IsInjective(y.elements)
  BY <1>1, <1>3, <1>4 DEF Coherent
<1> HIDE DEF rest
<1>12. ASSUME NEW y \in rest, NEW d \in Range(y.elements)
       PROVE  /\ filled[d] # Free
              /\ filled[d].url \in DOMAIN more
              /\ more[filled[d].url] = [node |-> y.id, element |-> d]
  <2>1. CASE d = c /\ y.id = x.id
    BY <1>5, <1>7, <2>1
  <2>2. CASE \E z \in nodes : z.id = y.id /\ d \in Range(z.elements)
    <3>1. PICK z \in nodes : z.id = y.id /\ d \in Range(z.elements)
      BY <2>2
    <3>2. /\ d \in Cells /\ d # c /\ mem[d] # Free /\ mem[d].url \in DOMAIN map
          /\ map[mem[d].url] = [node |-> y.id, element |-> d]
      BY <1>1, <1>2, <3>1, NodeFields DEF Coherent
    <3> QED
      BY <1>5, <1>6, <3>2
  <2> QED
    BY <1>8, <2>1, <2>2
<1>13. ASSUME NEW w \in DOMAIN more
       PROVE  \E y \in rest : \E d \in Range(y.elements) :
                more[w] = [node |-> y.id, element |-> d] /\ filled[d].url = w
  <2>1. CASE w = u
    BY <1>4, <1>5, <1>7, <1>10, <2>1
  <2>2. CASE w \in DOMAIN map
    <3>1. PICK z \in nodes : \E d \in Range(z.elements) :
            map[w] = [node |-> z.id, element |-> d] /\ mem[d].url = w
      BY <2>2 DEF Coherent
    <3>2. PICK d \in Range(z.elements) :
            map[w] = [node |-> z.id, element |-> d] /\ mem[d].url = w
      BY <3>1
    <3>3. d # c /\ d \in Cells
      BY <1>1, <1>2, NodeFields
    <3>4. PICK y \in rest : y.id = z.id /\ d \in Range(y.elements)
      BY <1>9
    <3> QED
      BY <1>5, <1>6, <2>2, <3>2, <3>3, <3>4
  <2> QED
    BY <1>5, <2>1, <2>2
<1>14. ASSUME NEW d \in Cells, filled[d] # Free
       PROVE  \E y \in rest : d \in Range(y.elements)
  <2>1. CASE d = c
    BY <1>10, <2>1
  <2>2. CASE d # c
    <3>1. PICK z \in nodes : d \in Range(z.elements)
      BY <1>6, <1>14, <2>2 DEF Coherent
    <3> QED
      BY <1>9, <3>1
  <2> QED
    BY <2>1, <2>2
<1>15. DOMAIN more \subseteq Urls
  BY <1>5, <1>7 DEF Coherent
<1>16. Coherent(rest, more, filled)
  BY <1>6, <1>11, <1>12, <1>13, <1>14, <1>15 DEF Coherent
<1> QED
  BY <1>3, <1>16 DEF e, rest

\* A node without elements makes no difference.
LEMMA EmptyNodeCoherent ==
  ASSUME NEW nodes, NEW map, NEW mem, NEW x \in FrequencyNode,
         x.elements = <<>>, \A y \in nodes \ {x} : y.id # x.id
  PROVE  Coherent(nodes \cup {x}, map, mem) <=> Coherent(nodes \ {x}, map, mem)
<1>1. Range(x.elements) = {} /\ IsInjective(x.elements)
  BY DEF Range, IsInjective
<1> QED
  BY <1>1 DEF Coherent

\* What the steps establish is what Consistent says.
LEMMA CoherentIsConsistent ==
  ASSUME TypeOK, Consistent
  PROVE  /\ Shaped(frequency_list)
         /\ Coherent(Range(frequency_list), cache_map, heap)
<1>1. Shaped(frequency_list)
  BY DEF TypeOK, Consistent, NodesAreDistinct, Shaped
<1>2. Range(frequency_list) \subseteq FrequencyNode
      /\ \A x, y \in Range(frequency_list) : x.id = y.id => x = y
  BY <1>1, ShapedLemma
<1>3. ASSUME NEW u \in DOMAIN cache_map
      PROVE  \E x \in Range(frequency_list) : \E c \in Range(x.elements) :
               /\ cache_map[u] = [node |-> x.id, element |-> c]
               /\ heap[c].url = u
  <2>1. PICK x \in Range(frequency_list) :
          /\ x.id = cache_map[u].node
          /\ cache_map[u].element \in Range(x.elements)
    BY DEF Consistent, MapIsFiled
  <2>2. cache_map[u] = [node |-> cache_map[u].node,
                        element |-> cache_map[u].element]
    BY DEF TypeOK
  <2>3. heap[cache_map[u].element].url = u
    BY DEF Consistent, MapIsFiled
  <2> QED
    BY <2>1, <2>2, <2>3
<1> QED
  BY <1>1, <1>2, <1>3
     DEF TypeOK, Consistent, ElementsAreMapped, NoDuplicates, NoLeak, Coherent

\* And so in the next state, which is all a step has to establish.
LEMMA CoherentNext ==
  ASSUME Shaped(frequency_list'),
         Coherent(Range(frequency_list'), cache_map', heap'),
         capacity' \in Capacities, crashed' \in BOOLEAN
  PROVE  (TypeOK /\ Consistent)'
<1>1. /\ Range(frequency_list') \subseteq FrequencyNode
      /\ frequency_list' \in Seq(FrequencyNode) /\ frequency_list' # <<>>
  BY ShapedLemma DEF Shaped
<1>2. ASSUME NEW u \in DOMAIN cache_map'
      PROVE  /\ cache_map'[u] \in [node : Nat, element : Cells]
             /\ heap'[cache_map'[u].element] # Free
             /\ heap'[cache_map'[u].element].url = u
             /\ \E node \in Range(frequency_list') :
                  /\ node.id = cache_map'[u].node
                  /\ cache_map'[u].element \in Range(node.elements)
  <2>1. PICK x \in Range(frequency_list') : \E c \in Range(x.elements) :
          cache_map'[u] = [node |-> x.id, element |-> c] /\ heap'[c].url = u
    BY DEF Coherent
  <2>2. PICK c \in Range(x.elements) :
          cache_map'[u] = [node |-> x.id, element |-> c] /\ heap'[c].url = u
    BY <2>1
  <2>3. x.id \in Nat /\ c \in Cells
    BY <1>1, NodeFields
  <2>4. heap'[c] # Free
    BY DEF Coherent
  <2> QED
    BY <2>2, <2>3, <2>4
<1>3. TypeOK'
  BY <1>1, <1>2 DEF Coherent, TypeOK
<1>4. NodesAreDistinct'
  BY DEF Shaped, NodesAreDistinct
<1> QED
  BY <1>2, <1>3, <1>4
     DEF Coherent, Consistent, ElementsAreMapped, MapIsFiled, NoDuplicates, NoLeak

-----------------------------------------------------------------------------
(* What the operations do to nodes, map and memory.                        *)

\* The first node has the highest frequency.
FirstIsHighest(list) ==
  \A x \in Range(list) : x.frequency <= list[1].frequency

\* Changing the elements of a node leaves it where it is.
LEMMA RefilledLemma ==
  ASSUME NEW list, Shaped(list), FirstIsHighest(list), NEW p \in DOMAIN list,
         NEW e \in Seq(Cells)
  PROVE  LET new == WithElements(list, p, e) IN
         /\ Shaped(new) /\ FirstIsHighest(new)
         /\ Range(new) = (Range(list) \ {list[p]}) \cup {Refill(list[p], e)}
         /\ DOMAIN new = DOMAIN list
         /\ new[p] = Refill(list[p], e)
         /\ \A i \in DOMAIN list : i # p => new[i] = list[i]
<1> DEFINE new == WithElements(list, p, e)
<1>1. list[p] \in FrequencyNode /\ list[p] \in Range(list) /\ 1 \in DOMAIN list
  BY ShapedLemma
<1>2. /\ Shaped(new) /\ DOMAIN new = DOMAIN list
      /\ new[p] = Refill(list[p], e)
      /\ \A i \in DOMAIN list : i # p => new[i] = list[i]
      /\ Range(new) = (Range(list) \ {list[p]}) \cup {Refill(list[p], e)}
  BY <1>1, WithElementsLemma
<1>3. Refill(list[p], e).frequency = list[p].frequency
  BY <1>1, RefillLemma
<1> HIDE DEF new
<1>4. new[1].frequency = list[1].frequency
  BY <1>1, <1>2, <1>3
<1>5. FirstIsHighest(new)
  BY <1>1, <1>2, <1>3, <1>4 DEF FirstIsHighest
<1> QED
  BY <1>2, <1>5 DEF new

\* Erasing an empty node makes no difference to the rest.
LEMMA DropIfEmptyLemma ==
  ASSUME NEW list, Shaped(list), FirstIsHighest(list), NEW p \in DOMAIN list,
         NEW map, NEW mem, Coherent(Range(list), map, mem)
  PROVE  LET new == DropIfEmpty(list, p) IN
         /\ Shaped(new) /\ FirstIsHighest(new)
         /\ Coherent(Range(new), map, mem)
<1> DEFINE new == DropIfEmpty(list, p)
<1>1. CASE ~(list[p].elements = <<>> /\ p # 1)
  BY <1>1 DEF DropIfEmpty
<1>2. CASE list[p].elements = <<>> /\ p # 1
  <2>1. new = RemoveAt(list, p)
    BY <1>2 DEF DropIfEmpty
  <2>2. /\ Shaped(new) /\ new[1] = list[1]
        /\ Range(new) = Range(list) \ {list[p]}
    BY <1>2, <2>1, RemoveNodeLemma
  <2> HIDE DEF new
  <2>3. /\ list[p] \in Range(list) /\ list[p] \in FrequencyNode
        /\ Range(list) = Range(list) \cup {list[p]}
        /\ \A y \in Range(list) \ {list[p]} : y.id # list[p].id
    BY ShapedLemma
  <2>4. Coherent(Range(list) \ {list[p]}, map, mem)
    BY <1>2, <2>3, EmptyNodeCoherent
  <2> QED
    BY <2>2, <2>4 DEF FirstIsHighest, new
<1> QED
  BY <1>1, <1>2

\* The list with a node for the frequency f, where incrementFrequency looks for
\* it.
LEMMA GrownLemma ==
  ASSUME NEW list, Shaped(list), FirstIsHighest(list), NEW f \in Nat,
         NEW map, NEW mem, Coherent(Range(list), map, mem)
  PROVE  LET next == NextPosition(list, f)
             grown == WithNodeAt(list, next, f)
         IN  /\ Shaped(grown) /\ FirstIsHighest(grown)
             /\ Coherent(Range(grown), map, mem)
             /\ Range(list) \subseteq Range(grown)
             /\ next \in DOMAIN grown /\ grown[next].frequency = f
<1> DEFINE next == NextPosition(list, f)
           grown == WithNodeAt(list, next, f)
           node == [id |-> NewId(list), frequency |-> f, elements |-> <<>>]
<1>1. /\ list \in Seq(FrequencyNode) /\ Len(list) \in Nat \ {0}
      /\ DOMAIN list = 1..Len(list) /\ Range(list) \subseteq FrequencyNode
      /\ \A i \in DOMAIN list : list[i] \in Range(list)
      /\ 1 \in DOMAIN list
  BY ShapedLemma DEF Shaped
<1>2. \/ next = 1 /\ \A i \in DOMAIN list : list[i].frequency < f
      \/ next - 1 \in DOMAIN list /\ list[next - 1].frequency >= f
  BY <1>1, NextPositionLemma
<1>3. next \in 1..(Len(list) + 1)
  <2>1. next \in Nat
    <3>1. SelectInSeq(list, LAMBDA n : n.frequency >= f) \in Nat
      <4> DEFINE I == {i \in 1..Len(list) : list[i].frequency >= f}
      <4>1. I \in SUBSET Nat
        OBVIOUS
      <4>2. I # {} => Min(I) \in Nat
        <5> HIDE DEF I
        <5> QED
          BY <4>1, MinIsLeast
      <4> QED
        BY <4>2 DEF SelectInSeq
    <3> QED
      BY <3>1 DEF NextPosition
  <2> HIDE DEF next
  <2> QED
    BY <1>1, <1>2, <2>1
<1> HIDE DEF next
<1>4. CASE next <= Len(list) /\ list[next].frequency = f
  <2>1. grown = list
    BY <1>4 DEF WithNodeAt
  <2> QED
    BY <1>1, <1>3, <1>4, <2>1 DEF next
<1>5. CASE ~(next <= Len(list) /\ list[next].frequency = f)
  <2>1. grown = InsertAt(list, next, node)
    BY <1>5 DEF WithNodeAt
  <2>2. /\ node.id = NewId(list) /\ node.frequency = f /\ node.elements = <<>>
        /\ \A y \in Range(list) : y.id # node.id
    BY NewIdLemma
  <2>3. node \in FrequencyNode
    <3>1. NewId(list) \in Nat /\ <<>> \in Seq(Cells)
      BY NewIdLemma
    <3> QED
      BY <3>1 DEF FrequencyNode
  <2> HIDE DEF node
  <2>4. /\ Shaped(grown) /\ next \in DOMAIN grown /\ grown[next] = node
        /\ grown[1] = IF next = 1 THEN node ELSE list[1]
        /\ Range(grown) = Range(list) \cup {node}
    BY <1>3, <2>1, <2>2, <2>3, InsertNodeLemma
  <2> HIDE DEF grown
  <2>5. FirstIsHighest(grown)
    <3>1. \A x \in Range(list) : x.frequency \in Nat
      BY <1>1, NodeFields
    <3>2. CASE next = 1
      <4>1. \A i \in DOMAIN list : list[i].frequency < f
        BY <1>1, <1>2, <3>2
      <4>2. \A x \in Range(list) : x.frequency <= f
        BY <1>1, <3>1, <4>1 DEF Range
      <4> QED
        BY <2>2, <2>4, <3>2, <4>2 DEF FirstIsHighest
    <3>3. CASE next # 1
      <4>1. list[next - 1] \in Range(list) /\ list[next - 1].frequency >= f
        BY <1>1, <1>2, <3>3
      <4>2. /\ list[next - 1].frequency <= list[1].frequency
            /\ list[next - 1].frequency \in Nat /\ list[1].frequency \in Nat
        BY <1>1, <3>1, <4>1 DEF FirstIsHighest
      <4>3. f <= list[1].frequency
        BY <4>1, <4>2
      <4> QED
        BY <2>2, <2>4, <3>3, <4>3 DEF FirstIsHighest
    <3> QED
      BY <3>2, <3>3
  <2>6. Coherent(Range(grown), map, mem)
    <3>1. Range(list) = Range(list) \ {node}
      BY <2>2
    <3>2. Coherent(Range(list) \cup {node}, map, mem)
      BY <2>2, <2>3, <3>1, EmptyNodeCoherent
    <3> QED
      BY <2>4, <3>2
  <2> QED
    BY <2>2, <2>4, <2>5, <2>6 DEF next, grown
<1> QED
  BY <1>4, <1>5

\* splice takes an element from a node that has it to another.
LEMMA SpliceLemma ==
  ASSUME NEW list, Shaped(list), FirstIsHighest(list),
         NEW map, NEW mem, Coherent(Range(list), map, mem),
         NEW from \in DOMAIN list, NEW to \in DOMAIN list, from # to,
         NEW c \in Range(list[from].elements), NEW u, mem[c].url = u
  PROVE  LET moved == Splice(list, from, to, c) IN
         /\ Shaped(moved) /\ FirstIsHighest(moved)
         /\ DOMAIN moved = DOMAIN list /\ moved[from].id = list[from].id
         /\ Coherent(Range(moved), [map EXCEPT ![u].node = list[to].id], mem)
<1> DEFINE x == list[from]
           y == list[to]
           e == RemoveFirst(x.elements, c)
           taken == Erased(list, from, c)
           moved == Pushed(taken, to, c)
           less == Restrict(map, DOMAIN map \ {u})
           freed == [mem EXCEPT ![c] = Free]
<1>1. /\ x \in Range(list) /\ y \in Range(list) /\ x # y
      /\ x \in FrequencyNode /\ y \in FrequencyNode
  BY ShapedLemma DEF Shaped
<1>2. /\ IsInjective(x.elements) /\ x.elements \in Seq(Cells)
      /\ c \in Cells /\ mem[c] # Free /\ u \in DOMAIN map
      /\ map[u] = [node |-> x.id, element |-> c]
  BY <1>1, NodeFields DEF Coherent
<1>3. /\ e \in Seq(Cells) /\ IsInjective(e)
      /\ Range(e) = Range(x.elements) \ {c}
  BY <1>2, RemoveFirstLemma
<1>4. taken = WithElements(list, from, e)
  BY DEF Erased
<1> HIDE DEF e, taken
<1>5. /\ Shaped(taken) /\ FirstIsHighest(taken) /\ DOMAIN taken = DOMAIN list
      /\ Range(taken) = (Range(list) \ {x}) \cup {Refill(x, e)}
      /\ taken[to] = y /\ taken[from] = Refill(x, e)
  BY <1>3, <1>4, RefilledLemma
<1>6. Coherent(Range(taken), less, freed)
  <2>1. Coherent((Range(list) \ {x}) \cup {Refill(x, e)},
                 Restrict(map, DOMAIN map \ {mem[c].url}), [mem EXCEPT ![c] = Free])
    <3> HIDE DEF x
    <3> QED
      BY <1>1, <1>3, TakenCoherent DEF x
  <2> QED
    BY <1>5, <2>1
<1>7. /\ mem \in [Cells -> Element \cup {Free}] /\ DOMAIN map \subseteq Urls
      /\ mem[c] \in Element
  <2>1. mem \in [Cells -> Element \cup {Free}] /\ DOMAIN map \subseteq Urls
    BY DEF Coherent
  <2>2. mem[c] \in Element
    BY <1>2, <2>1
  <2> QED
    BY <2>1, <2>2
<1>8. /\ DOMAIN less = DOMAIN map \ {u} /\ freed[c] = Free
      /\ \A z \in DOMAIN map \ {u} : less[z] = map[z]
  BY <1>2, <1>7 DEF Restrict
<1>9. y \in Range(taken)
  BY <1>5, ShapedLemma
<1>10. u \in Urls \ DOMAIN less
  BY <1>2, <1>7, <1>8
<1> DEFINE longer == <<c>> \o y.elements
           more == [z \in DOMAIN less \cup {u} |->
                      IF z = u THEN [node |-> y.id, element |-> c] ELSE less[z]]
           filled == [freed EXCEPT ![c] = mem[c]]
<1>11. /\ longer \in Seq(Cells)
       /\ Coherent((Range(taken) \ {y}) \cup {Refill(y, longer)}, more, filled)
  <2>1. Files(y, c, mem[c], less, freed, more, filled)
    <3>1. /\ DOMAIN more = DOMAIN less \cup {u}
          /\ more[u] = [node |-> y.id, element |-> c]
          /\ \A z \in DOMAIN less : more[z] = less[z]
      BY <1>10
    <3>2. /\ filled \in [Cells -> Element \cup {Free}]
          /\ filled[c] = mem[c]
          /\ \A d \in Cells : d # c => filled[d] = freed[d]
      BY <1>2, <1>7
    <3> HIDE DEF less, freed, y, more, filled
    <3> QED
      BY <1>2, <1>7, <1>8, <1>10, <3>1, <3>2 DEF Files
  <2> HIDE DEF less, freed, y, more, filled
  <2> QED
    BY <1>6, <1>9, <2>1, FiledCoherent
<1>12. more = [map EXCEPT ![u].node = y.id]
  <2>1. [map[u] EXCEPT !.node = y.id] = [node |-> y.id, element |-> c]
    BY <1>2
  <2>2. [map EXCEPT ![u].node = y.id]
          = [z \in DOMAIN map |-> IF z = u THEN [node |-> y.id, element |-> c]
                                  ELSE map[z]]
    BY <1>2, <2>1
  <2>3. DOMAIN less \cup {u} = DOMAIN map
    BY <1>2, <1>8
  <2> HIDE DEF less, y
  <2> QED
    BY <1>8, <2>2, <2>3
<1>13. filled = mem
  BY <1>2, <1>7
<1>14. moved = WithElements(taken, to, longer)
  BY <1>5 DEF Pushed
<1> HIDE DEF more, filled, longer, moved
<1>15. /\ Shaped(moved) /\ FirstIsHighest(moved) /\ DOMAIN moved = DOMAIN list
       /\ Range(moved) = (Range(taken) \ {y}) \cup {Refill(y, longer)}
       /\ moved[from] = taken[from]
  BY <1>5, <1>11, <1>14, RefilledLemma
<1>16. moved[from].id = x.id
  BY <1>1, <1>3, <1>5, <1>15, RefillLemma
<1>17. Coherent(Range(moved), [map EXCEPT ![u].node = y.id], mem)
  BY <1>11, <1>12, <1>13, <1>15
<1> QED
  BY <1>15, <1>16, <1>17 DEF Splice, moved, taken

\* Both a find that hits and an add of a cached url leave the structures coherent,
\* with the same urls and responses in them.
LEMMA IncrementLemma ==
  ASSUME Shaped(frequency_list), FirstIsHighest(frequency_list),
         Coherent(Range(frequency_list), cache_map, heap),
         NEW u \in DOMAIN cache_map, incrementFrequency(u)
  PROVE  /\ Shaped(frequency_list') /\ FirstIsHighest(frequency_list')
         /\ Coherent(Range(frequency_list'), cache_map', heap)
         /\ DOMAIN cache_map' = DOMAIN cache_map
         /\ \A w \in DOMAIN cache_map : cache_map'[w].element = cache_map[w].element
<1> DEFINE list == frequency_list
<1>1. PICK x \in Range(list) : \E c \in Range(x.elements) :
        cache_map[u] = [node |-> x.id, element |-> c] /\ heap[c].url = u
  BY DEF Coherent
<1>2. PICK c \in Range(x.elements) :
        cache_map[u] = [node |-> x.id, element |-> c] /\ heap[c].url = u
  BY <1>1
<1> DEFINE f == x.frequency + 1
           next == NextPosition(list, f)
           grown == WithNodeAt(list, next, f)
           from == PositionOf(grown, x.id)
           moved == Splice(grown, from, next, c)
<1>3. x \in FrequencyNode /\ x.frequency \in Nat /\ f \in Nat
  BY ShapedLemma, NodeFields
<1>4. list[PositionOf(list, x.id)].frequency = x.frequency
  BY PositionLemma
<1>5. /\ cache_map' = [cache_map EXCEPT ![u].node = grown[next].id]
      /\ frequency_list' = DropIfEmpty(moved, PositionOf(moved, x.id))
  <2>1. cache_map[u].node = x.id /\ cache_map[u].element = c
    BY <1>2
  <2>2. frequency_list[PositionOf(frequency_list, cache_map[u].node)].frequency + 1 = f
    BY <1>4, <2>1
  <2> HIDE DEF f
  <2> QED
    BY <2>1, <2>2 DEF incrementFrequency
<1> HIDE DEF f
<1>6. /\ Shaped(grown) /\ FirstIsHighest(grown)
      /\ Coherent(Range(grown), cache_map, heap)
      /\ x \in Range(grown)
      /\ next \in DOMAIN grown /\ grown[next].frequency = f
  BY <1>3, GrownLemma
<1> HIDE DEF next, grown
<1>7. from \in DOMAIN grown /\ grown[from] = x
  BY <1>6, PositionLemma
<1>8. from # next
  BY <1>3, <1>6, <1>7 DEF f
<1> HIDE DEF from
<1>9. /\ Shaped(moved) /\ FirstIsHighest(moved)
      /\ from \in DOMAIN moved /\ moved[from].id = x.id
      /\ Coherent(Range(moved), cache_map', heap)
  <2>1. c \in Range(grown[from].elements) /\ heap[c].url = u
    BY <1>2, <1>7
  <2>2. /\ Shaped(moved) /\ FirstIsHighest(moved)
        /\ DOMAIN moved = DOMAIN grown /\ moved[from].id = grown[from].id
        /\ Coherent(Range(moved), [cache_map EXCEPT ![u].node = grown[next].id], heap)
    BY <1>6, <1>7, <1>8, <2>1, SpliceLemma
  <2> QED
    BY <1>5, <1>7, <2>2
<1> HIDE DEF moved
<1>10. PositionOf(moved, x.id) \in DOMAIN moved
  BY <1>9, ShapedLemma, PositionLemma
<1>11. /\ Shaped(frequency_list') /\ FirstIsHighest(frequency_list')
       /\ Coherent(Range(frequency_list'), cache_map', heap)
  BY <1>5, <1>9, <1>10, DropIfEmptyLemma
<1>12. /\ DOMAIN cache_map' = DOMAIN cache_map
       /\ \A w \in DOMAIN cache_map : cache_map'[w].element = cache_map[w].element
  BY <1>2, <1>5
<1> QED
  BY <1>11, <1>12

-----------------------------------------------------------------------------
(* The invariant.                                                          *)

\* An add to a full cache makes room before it stores (LFUCache.cpp:47-50), so the
\* cache never holds more elements than it was made for.
CapacityRespected ==
  /\ IsFiniteSet(DOMAIN cache_map)
  /\ Cardinality(DOMAIN cache_map) <= capacity

Inv ==
  /\ TypeOK /\ Consistent /\ FirstNodeIsTheHighest
  /\ CapacityRespected /\ CrashOnlyWithoutRoom

\* What the invariant says of the structures.
LEMMA InvLemma ==
  ASSUME Inv
  PROVE  /\ Shaped(frequency_list) /\ FirstIsHighest(frequency_list)
         /\ Coherent(Range(frequency_list), cache_map, heap)
         /\ capacity \in Capacities /\ capacity \in Nat /\ crashed \in BOOLEAN
         /\ IsFiniteSet(DOMAIN cache_map)
         /\ Cardinality(DOMAIN cache_map) \in 0..capacity
<1>1. /\ Shaped(frequency_list)
      /\ Coherent(Range(frequency_list), cache_map, heap)
  BY CoherentIsConsistent DEF Inv
<1>2. FirstIsHighest(frequency_list)
  BY DEF Inv, FirstNodeIsTheHighest, FirstIsHighest, Range
<1>3. capacity \in Capacities /\ capacity \in Nat /\ crashed \in BOOLEAN
  BY LFUAssumption DEF Inv, TypeOK, LFUAssumption
<1>4. /\ IsFiniteSet(DOMAIN cache_map)
      /\ Cardinality(DOMAIN cache_map) \in 0..capacity
  <2>1. /\ IsFiniteSet(DOMAIN cache_map)
        /\ Cardinality(DOMAIN cache_map) <= capacity
    BY DEF Inv, CapacityRespected
  <2>2. Cardinality(DOMAIN cache_map) \in Nat
    BY <2>1, FS_CardinalityType
  <2> QED
    BY <1>3, <2>1, <2>2
<1> QED
  BY <1>1, <1>2, <1>3, <1>4

\* What a step has to establish.
LEMMA InvNext ==
  ASSUME Inv, Shaped(frequency_list'), FirstIsHighest(frequency_list'),
         Coherent(Range(frequency_list'), cache_map', heap'),
         UNCHANGED <<capacity, crashed>>,
         IsFiniteSet(DOMAIN cache_map'),
         Cardinality(DOMAIN cache_map') <= capacity
  PROVE  Inv'
<1>1. (TypeOK /\ Consistent)'
  BY CoherentNext, InvLemma
<1>2. FirstNodeIsTheHighest'
  BY ShapedLemma DEF FirstIsHighest, FirstNodeIsTheHighest
<1>3. CapacityRespected' /\ CrashOnlyWithoutRoom'
  BY DEF Inv, CapacityRespected, CrashOnlyWithoutRoom
<1> QED
  BY <1>1, <1>2, <1>3 DEF Inv

\* A new cache is empty: it has one node, without elements.
LEMMA InvInit == Init => Inv
<1> SUFFICES ASSUME Init PROVE Inv
  OBVIOUS
<1> USE LFUAssumption DEF LFUAssumption, Init
<1>1. <<>> \in Seq(Cells) /\ Range(<<>>) = {} /\ IsInjective(<<>>)
  BY DEF Range, IsInjective
<1> DEFINE first == [id |-> 0, frequency |-> 0, elements |-> <<>>]
<1>2. first \in FrequencyNode /\ first.elements = <<>> /\ first.frequency = 0
  BY <1>1 DEF FrequencyNode
<1>3. /\ frequency_list \in Seq(FrequencyNode) /\ frequency_list # <<>>
      /\ DOMAIN frequency_list = {1} /\ frequency_list[1] = first
      /\ Range(frequency_list) = {first}
  BY <1>2 DEF Range
<1> HIDE DEF first
<1>4. TypeOK
  BY <1>3 DEF TypeOK
<1>5. Consistent
  BY <1>1, <1>2, <1>3
     DEF Consistent, NodesAreDistinct, ElementsAreMapped, MapIsFiled,
         NoDuplicates, NoLeak
<1>6. FirstNodeIsTheHighest /\ CrashOnlyWithoutRoom
  BY <1>2, <1>3 DEF FirstNodeIsTheHighest, CrashOnlyWithoutRoom
<1>7. CapacityRespected
  <2>1. DOMAIN cache_map = {} /\ capacity \in Nat
    OBVIOUS
  <2>2. IsFiniteSet(DOMAIN cache_map) /\ Cardinality(DOMAIN cache_map) = 0
    BY <2>1, FS_EmptySet
  <2> QED
    BY <2>1, <2>2 DEF CapacityRespected
<1> QED
  BY <1>4, <1>5, <1>6, <1>7 DEF Inv

\* A find that hits and an add of a cached url keep the invariant.
LEMMA HitStep ==
  ASSUME Inv, NEW u \in Urls, FindHit(u)
  PROVE  Inv'
<1>1. /\ u \in DOMAIN cache_map /\ incrementFrequency(u)
      /\ UNCHANGED <<capacity, heap, crashed>>
  BY DEF FindHit
<1>2. /\ Shaped(frequency_list') /\ FirstIsHighest(frequency_list')
      /\ Coherent(Range(frequency_list'), cache_map', heap)
      /\ DOMAIN cache_map' = DOMAIN cache_map
  BY <1>1, InvLemma, IncrementLemma
<1> QED
  BY <1>1, <1>2, InvNext DEF Inv, CapacityRespected

\* An empty node: a cache in which evict finds nothing is empty.
LEMMA NoVictimLemma ==
  ASSUME Inv, VictimPosition = 0
  PROVE  DOMAIN cache_map = {}
<1>1. /\ Shaped(frequency_list)
      /\ Coherent(Range(frequency_list), cache_map, heap)
  BY InvLemma
<1>2. \A i \in DOMAIN frequency_list : frequency_list[i].elements = <<>>
  BY <1>1, VictimLemma DEF Shaped
<1>3. \A x \in Range(frequency_list) : Range(x.elements) = {}
  BY <1>2 DEF Range
<1> QED
  BY <1>1, <1>3 DEF Coherent

\* What an add of a new url keeps of the cache.
Kept == IF IsFull THEN Evicted
        ELSE [list |-> frequency_list, map |-> cache_map, heap |-> heap]

\* It takes out at most one element, and only if the cache is full.
LEMMA KeptLemma ==
  ASSUME Inv, IsFull => VictimPosition # 0
  PROVE  /\ Shaped(Kept.list) /\ FirstIsHighest(Kept.list)
         /\ Coherent(Range(Kept.list), Kept.map, Kept.heap)
         /\ \E gone \in SUBSET DOMAIN cache_map :
              /\ Cardinality(gone) =
                   IF Cardinality(DOMAIN cache_map) < capacity THEN 0 ELSE 1
              /\ IsFiniteSet(DOMAIN cache_map \ gone)
              /\ Cardinality(DOMAIN cache_map \ gone) + 1 <= capacity
              /\ DOMAIN Kept.map = DOMAIN cache_map \ gone
         /\ \A w \in DOMAIN Kept.map :
              /\ Kept.map[w] = cache_map[w]
              /\ Kept.heap[cache_map[w].element] = heap[cache_map[w].element]
<1> DEFINE list == frequency_list
           n == Cardinality(DOMAIN cache_map)
<1>1. /\ Shaped(list) /\ FirstIsHighest(list)
      /\ Coherent(Range(list), cache_map, heap)
      /\ capacity \in Nat /\ IsFiniteSet(DOMAIN cache_map) /\ n \in 0..capacity
  BY InvLemma
<1>2. Cardinality({}) = 0
  BY FS_EmptySet
<1>3. CASE ~IsFull
  <2>1. /\ Kept.list = list /\ Kept.map = cache_map /\ Kept.heap = heap
        /\ n < capacity /\ n + 1 <= capacity
    BY <1>1, <1>3 DEF IsFull, Kept
  <2>2. {} \in SUBSET DOMAIN cache_map /\ DOMAIN cache_map \ {} = DOMAIN cache_map
    OBVIOUS
  <2> QED
    BY <1>1, <1>2, <2>1, <2>2
<1>4. CASE IsFull
  <2> DEFINE p == VictimPosition
             x == list[p]
             victim == Last(x.elements)
             old == heap[victim].url
             popped == WithElements(list, p, Front(x.elements))
  <2>1. /\ p \in DOMAIN list /\ x.elements # <<>>
        /\ x \in Range(list) /\ x \in FrequencyNode
    BY <1>1, <1>4, VictimLemma, ShapedLemma DEF Shaped
  <2>2. /\ Kept.list = DropIfEmpty(popped, p)
        /\ Kept.map = Restrict(cache_map, DOMAIN cache_map \ {old})
        /\ Kept.heap = [heap EXCEPT ![victim] = Free]
    BY <1>4 DEF Evicted, Kept
  <2> HIDE DEF p
  <2>3. x.elements \in Seq(Cells) /\ IsInjective(x.elements)
    BY <1>1, <2>1, NodeFields DEF Coherent
  <2>4. /\ Front(x.elements) \in Seq(Cells) /\ IsInjective(Front(x.elements))
        /\ victim \in Range(x.elements)
        /\ Range(Front(x.elements)) = Range(x.elements) \ {victim}
    BY <2>1, <2>3, FrontLemma
  <2> HIDE DEF victim
  <2>5. /\ Shaped(popped) /\ FirstIsHighest(popped) /\ p \in DOMAIN popped
        /\ Range(popped) = (Range(list) \ {x}) \cup {Refill(x, Front(x.elements))}
    BY <1>1, <2>1, <2>4, RefilledLemma
  <2> HIDE DEF popped
  <2>6. Coherent(Range(popped), Kept.map, Kept.heap)
    <3>1. Coherent((Range(list) \ {x}) \cup {Refill(x, Front(x.elements))},
                   Restrict(cache_map, DOMAIN cache_map \ {heap[victim].url}),
                   [heap EXCEPT ![victim] = Free])
      <4> HIDE DEF x
      <4> QED
        BY <1>1, <2>1, <2>4, TakenCoherent
    <3> QED
      BY <2>2, <2>5, <3>1
  <2>7. /\ Shaped(Kept.list) /\ FirstIsHighest(Kept.list)
        /\ Coherent(Range(Kept.list), Kept.map, Kept.heap)
    BY <2>2, <2>5, <2>6, DropIfEmptyLemma
  <2>8. old \in DOMAIN cache_map /\ victim \in Cells /\ DOMAIN heap = Cells
    BY <1>1, <2>1, <2>4, NodeFields DEF Coherent
  <2> HIDE DEF x
  <2>9. /\ DOMAIN Kept.map = DOMAIN cache_map \ {old}
        /\ \A w \in DOMAIN cache_map \ {old} : Kept.map[w] = cache_map[w]
    BY <2>2 DEF Restrict
  <2>10. ASSUME NEW w \in DOMAIN Kept.map
         PROVE  /\ Kept.map[w] = cache_map[w]
                /\ Kept.heap[cache_map[w].element] = heap[cache_map[w].element]
    <3>1. Kept.map[w] = cache_map[w] /\ w \in DOMAIN cache_map /\ w # old
      BY <2>9
    <3>2. PICK y \in Range(list) : \E c \in Range(y.elements) :
            cache_map[w] = [node |-> y.id, element |-> c] /\ heap[c].url = w
      BY <1>1, <3>1 DEF Coherent
    <3>3. PICK c \in Range(y.elements) :
            cache_map[w] = [node |-> y.id, element |-> c] /\ heap[c].url = w
      BY <3>2
    <3>4. c \in Cells /\ c # victim /\ cache_map[w].element = c
      BY <1>1, <3>1, <3>3, NodeFields, ShapedLemma
    <3>5. [heap EXCEPT ![victim] = Free][c] = heap[c]
      BY <2>8, <3>4
    <3> QED
      BY <2>2, <3>1, <3>4, <3>5
  <2>11. n = capacity /\ n # 0 /\ ~(n < capacity)
    <3>1. n = capacity
      BY <1>1, <1>4 DEF IsFull
    <3>2. n # 0
      BY <1>1, <2>8, FS_EmptySet
    <3> QED
      BY <1>1, <3>1, <3>2
  <2> HIDE DEF old
  <2>12. /\ IsFiniteSet(DOMAIN cache_map \ {old})
         /\ Cardinality(DOMAIN cache_map \ {old}) = n - 1
    BY <1>1, <2>8, FS_RemoveElement
  <2>13. Cardinality({old}) = 1
    BY FS_Singleton
  <2>14. Cardinality(DOMAIN cache_map \ {old}) + 1 <= capacity
    BY <1>1, <2>11, <2>12
  <2>15. {old} \in SUBSET DOMAIN cache_map
    BY <2>8
  <2> QED
    BY <2>7, <2>9, <2>10, <2>11, <2>12, <2>13, <2>14, <2>15
<1> QED
  BY <1>3, <1>4

\* An add of a new url keeps the invariant.
LEMMA AddNewStep ==
  ASSUME Inv, NEW u \in Urls, NEW v \in Values, AddNew(u, v)
  PROVE  Inv'
<1>1. PICK c \in Cells :
        /\ Kept.heap[c] = Free
        /\ frequency_list' = Pushed(Kept.list, 1, c)
        /\ cache_map' = [x \in DOMAIN Kept.map \cup {u} |->
             IF x = u THEN [node |-> Kept.list[1].id, element |-> c]
                      ELSE Kept.map[x]]
        /\ heap' = [Kept.heap EXCEPT ![c] = [url |-> u, data |-> v]]
  BY DEF AddNew, Kept
<1>2. /\ Shaped(Kept.list) /\ FirstIsHighest(Kept.list)
      /\ Coherent(Range(Kept.list), Kept.map, Kept.heap)
      /\ \E gone \in SUBSET DOMAIN cache_map :
           /\ IsFiniteSet(DOMAIN cache_map \ gone)
           /\ Cardinality(DOMAIN cache_map \ gone) + 1 <= capacity
           /\ DOMAIN Kept.map = DOMAIN cache_map \ gone
  BY KeptLemma DEF AddNew
<1>3. /\ UNCHANGED <<capacity, crashed>> /\ u \notin DOMAIN cache_map
      /\ capacity \in Nat
  BY InvLemma DEF AddNew
<1> DEFINE list == Kept.list
           x == list[1]
           longer == <<c>> \o x.elements
<1>4. x \in Range(list) /\ 1 \in DOMAIN list
  BY <1>2, ShapedLemma
<1>5. u \notin DOMAIN Kept.map
  BY <1>2, <1>3
<1>6. Files(x, c, [url |-> u, data |-> v], Kept.map, Kept.heap, cache_map', heap')
  <2>1. [url |-> u, data |-> v] \in Element
    BY DEF Element
  <2>2. /\ DOMAIN cache_map' = DOMAIN Kept.map \cup {u}
        /\ cache_map'[u] = [node |-> x.id, element |-> c]
        /\ \A z \in DOMAIN Kept.map : cache_map'[z] = Kept.map[z]
    BY <1>1, <1>5
  <2>3. Kept.heap \in [Cells -> Element \cup {Free}]
    BY <1>2 DEF Coherent
  <2>4. /\ heap' \in [Cells -> Element \cup {Free}]
        /\ heap'[c] = [url |-> u, data |-> v]
        /\ \A d \in Cells : d # c => heap'[d] = Kept.heap[d]
    BY <1>1, <2>1, <2>3
  <2> HIDE DEF x
  <2> QED
    BY <1>1, <1>5, <2>1, <2>2, <2>4 DEF Files
<1>7. /\ longer \in Seq(Cells)
      /\ Coherent((Range(list) \ {x}) \cup {Refill(x, longer)}, cache_map', heap')
  <2> HIDE DEF x
  <2> QED
    BY <1>2, <1>4, <1>6, FiledCoherent
<1>8. frequency_list' = WithElements(list, 1, longer)
  BY <1>1 DEF Pushed
<1>9. /\ Shaped(frequency_list') /\ FirstIsHighest(frequency_list')
      /\ Coherent(Range(frequency_list'), cache_map', heap')
  <2>1. /\ Shaped(WithElements(list, 1, longer))
        /\ FirstIsHighest(WithElements(list, 1, longer))
        /\ Range(WithElements(list, 1, longer))
             = (Range(list) \ {list[1]}) \cup {Refill(list[1], longer)}
    <3> HIDE DEF longer, list
    <3>1. Shaped(list) /\ FirstIsHighest(list)
      BY <1>2 DEF list
    <3> QED
      BY <1>4, <1>7, <3>1, RefilledLemma
  <2> QED
    BY <1>7, <1>8, <2>1
<1>10. /\ IsFiniteSet(DOMAIN cache_map')
       /\ Cardinality(DOMAIN cache_map') <= capacity
  <2>1. DOMAIN cache_map' = DOMAIN Kept.map \cup {u}
    BY <1>1
  <2>2. IsFiniteSet(DOMAIN Kept.map) /\ Cardinality(DOMAIN Kept.map) + 1 <= capacity
    BY <1>2
  <2>3. /\ IsFiniteSet(DOMAIN cache_map')
        /\ Cardinality(DOMAIN cache_map') = Cardinality(DOMAIN Kept.map) + 1
    BY <1>5, <2>1, <2>2, FS_AddElement
  <2> QED
    BY <2>2, <2>3
<1> QED
  BY <1>3, <1>9, <1>10, InvNext

\* A remove keeps the invariant, and the other urls their elements.
LEMMA RemoveStep ==
  ASSUME Inv, NEW u \in Urls, RemoveUrl(u)
  PROVE  /\ Inv'
         /\ DOMAIN cache_map' = DOMAIN cache_map \ {u}
         /\ \A w \in DOMAIN cache_map' :
              /\ cache_map'[w] = cache_map[w]
              /\ heap'[cache_map[w].element] = heap[cache_map[w].element]
<1> DEFINE list == frequency_list
           entry == cache_map[u]
           p == PositionOf(list, entry.node)
<1>1. /\ Shaped(list) /\ FirstIsHighest(list)
      /\ Coherent(Range(list), cache_map, heap)
      /\ capacity \in Nat /\ IsFiniteSet(DOMAIN cache_map)
      /\ Cardinality(DOMAIN cache_map) \in 0..capacity
  BY InvLemma
<1>2. /\ u \in DOMAIN cache_map
      /\ frequency_list' = Erased(list, p, entry.element)
      /\ cache_map' = Restrict(cache_map, DOMAIN cache_map \ {u})
      /\ heap' = [heap EXCEPT ![entry.element] = Free]
      /\ UNCHANGED <<capacity, crashed>>
  BY DEF RemoveUrl
<1>3. PICK x \in Range(list) : \E c \in Range(x.elements) :
        entry = [node |-> x.id, element |-> c] /\ heap[c].url = u
  BY <1>1, <1>2 DEF Coherent
<1>4. PICK c \in Range(x.elements) :
        entry = [node |-> x.id, element |-> c] /\ heap[c].url = u
  BY <1>3
<1>5. entry.node = x.id /\ entry.element = c
  BY <1>4
<1>6. p \in DOMAIN list /\ list[p] = x
  BY <1>1, <1>5, PositionLemma
<1> DEFINE e == RemoveFirst(x.elements, c)
<1>7. frequency_list' = WithElements(list, p, e)
  BY <1>2, <1>5, <1>6 DEF Erased
<1>8. /\ x \in FrequencyNode /\ x.elements \in Seq(Cells) /\ IsInjective(x.elements)
      /\ c \in Cells /\ DOMAIN heap = Cells
  BY <1>1, ShapedLemma, NodeFields DEF Coherent
<1>9. /\ e \in Seq(Cells) /\ IsInjective(e)
      /\ Range(e) = Range(x.elements) \ {c}
  BY <1>8, RemoveFirstLemma
<1> HIDE DEF p, e
<1>10. /\ Shaped(frequency_list') /\ FirstIsHighest(frequency_list')
       /\ Range(frequency_list') = (Range(list) \ {x}) \cup {Refill(x, e)}
  BY <1>1, <1>6, <1>7, <1>9, RefilledLemma
<1>11. Coherent(Range(frequency_list'), cache_map', heap')
  <2>1. Coherent((Range(list) \ {x}) \cup {Refill(x, e)},
                 Restrict(cache_map, DOMAIN cache_map \ {heap[c].url}),
                 [heap EXCEPT ![c] = Free])
    BY <1>1, <1>9, TakenCoherent
  <2> QED
    BY <1>2, <1>4, <1>5, <1>10, <2>1
<1>12. /\ DOMAIN cache_map' = DOMAIN cache_map \ {u}
       /\ \A w \in DOMAIN cache_map' : cache_map'[w] = cache_map[w]
  BY <1>2 DEF Restrict
<1>13. ASSUME NEW w \in DOMAIN cache_map'
       PROVE  heap'[cache_map[w].element] = heap[cache_map[w].element]
  <2>1. w \in DOMAIN cache_map /\ w # u
    BY <1>12
  <2>2. PICK y \in Range(list) : \E d \in Range(y.elements) :
          cache_map[w] = [node |-> y.id, element |-> d] /\ heap[d].url = w
    BY <1>1, <2>1 DEF Coherent
  <2>3. PICK d \in Range(y.elements) :
          cache_map[w] = [node |-> y.id, element |-> d] /\ heap[d].url = w
    BY <2>2
  <2>4. d \in Cells /\ d # c /\ cache_map[w].element = d
    BY <1>1, <1>4, <2>1, <2>3, NodeFields, ShapedLemma
  <2>5. [heap EXCEPT ![c] = Free][d] = heap[d]
    BY <1>8, <2>4
  <2> QED
    BY <1>2, <1>5, <2>4, <2>5
<1>14. /\ IsFiniteSet(DOMAIN cache_map')
       /\ Cardinality(DOMAIN cache_map') <= capacity
  <2>1. /\ IsFiniteSet(DOMAIN cache_map \ {u})
        /\ Cardinality(DOMAIN cache_map \ {u}) = Cardinality(DOMAIN cache_map) - 1
    BY <1>1, <1>2, FS_RemoveElement
  <2> QED
    BY <1>1, <1>12, <2>1
<1>15. Inv'
  BY <1>2, <1>10, <1>11, <1>14, InvNext
<1> QED
  BY <1>12, <1>13, <1>15

\* evict runs off the list only if there is nothing in it, which is full only in a
\* cache made for none.
LEMMA CrashStep ==
  ASSUME Inv, NEW u \in Urls, AddCrash(u)
  PROVE  Inv'
<1>1. capacity = 0
  <2>1. Cardinality(DOMAIN cache_map) = 0
    BY NoVictimLemma, FS_EmptySet DEF AddCrash
  <2> QED
    BY <2>1, InvLemma DEF AddCrash, IsFull
<1> QED
  BY <1>1
     DEF AddCrash, Inv, TypeOK, Consistent, NodesAreDistinct, ElementsAreMapped,
         MapIsFiled, NoDuplicates, NoLeak, FirstNodeIsTheHighest,
         CapacityRespected, CrashOnlyWithoutRoom

\* Nothing happens to the cache.
LEMMA IdleStep == Inv /\ UNCHANGED lfuVars => Inv'
  BY DEF lfuVars, Inv, TypeOK, Consistent, NodesAreDistinct, ElementsAreMapped,
         MapIsFiled, NoDuplicates, NoLeak, FirstNodeIsTheHighest,
         CapacityRespected, CrashOnlyWithoutRoom

-----------------------------------------------------------------------------
(* What CachePolicy sees of the cache.                                     *)

\* The number of elements means the same in CachePolicy as here.
LEMMA SameCardinality == \A S : Policy!Cardinality(S) = Cardinality(S)
  BY DEF Policy!Cardinality, Cardinality

\* An add of a new url stores it, and discards another one only to make room.
LEMMA AddStores ==
  ASSUME Inv, NEW u \in Urls, NEW v \in Values, AddNew(u, v), Policy!Use(u, 1)
  PROVE  Policy!Store(u, v, Policy!Cached)
<1>1. PICK c \in Cells :
        /\ Kept.heap[c] = Free
        /\ cache_map' = [x \in DOMAIN Kept.map \cup {u} |->
             IF x = u THEN [node |-> Kept.list[1].id, element |-> c]
                      ELSE Kept.map[x]]
        /\ heap' = [Kept.heap EXCEPT ![c] = [url |-> u, data |-> v]]
  BY DEF AddNew, Kept
<1>2. /\ Shaped(Kept.list) /\ Coherent(Range(Kept.list), Kept.map, Kept.heap)
      /\ \A w \in DOMAIN Kept.map :
           /\ Kept.map[w] = cache_map[w]
           /\ Kept.heap[cache_map[w].element] = heap[cache_map[w].element]
  BY KeptLemma DEF AddNew
<1>3. PICK gone \in SUBSET DOMAIN cache_map :
        /\ Cardinality(gone) =
             IF Cardinality(DOMAIN cache_map) < capacity THEN 0 ELSE 1
        /\ DOMAIN Kept.map = DOMAIN cache_map \ gone
  BY KeptLemma DEF AddNew
<1>4. u \notin DOMAIN cache_map /\ capacity' = capacity
  BY DEF AddNew
<1>5. Policy!Cached = DOMAIN cache_map
  BY DEF Policy!Cached, Responses
<1>6. DOMAIN Kept.heap = Cells
  BY <1>2 DEF Coherent
<1>7. ASSUME NEW w \in DOMAIN Kept.map
      PROVE  heap'[cache_map'[w].element] = heap[cache_map[w].element]
  <2>1. cache_map'[w] = cache_map[w]
    BY <1>1, <1>2, <1>3, <1>4
  <2>2. \E y \in Range(Kept.list) : \E d \in Range(y.elements) :
          Kept.map[w] = [node |-> y.id, element |-> d] /\ Kept.heap[d].url = w
    BY <1>2 DEF Coherent
  <2>3. PICK y \in Range(Kept.list), d \in Cells :
          d \in Range(y.elements) /\ Kept.map[w] = [node |-> y.id, element |-> d]
    <3>1. \A y \in Range(Kept.list) : Range(y.elements) \subseteq Cells
      BY <1>2, NodeFields DEF Coherent
    <3> QED
      BY <2>2, <3>1
  <2>4. d \in Cells /\ Kept.heap[d] # Free
    BY <1>2, <2>3 DEF Coherent
  <2>5. cache_map[w].element = d /\ d # c
    BY <1>1, <1>2, <2>3, <2>4
  <2>6. [Kept.heap EXCEPT ![c] = [url |-> u, data |-> v]][d] = Kept.heap[d]
    BY <1>6, <2>4, <2>5
  <2> QED
    BY <1>1, <1>2, <2>1, <2>5, <2>6
<1>8. heap'[cache_map'[u].element].data = v
  BY <1>1, <1>6
<1>9. Responses' = [x \in (Policy!Cached \ gone) \cup {u} |->
                      IF x = u THEN v ELSE Responses[x]]
  <2>1. DOMAIN cache_map' = (Policy!Cached \ gone) \cup {u}
    BY <1>1, <1>3, <1>5
  <2>2. ASSUME NEW x \in (Policy!Cached \ gone) \cup {u}
        PROVE  heap'[cache_map'[x].element].data = IF x = u THEN v ELSE Responses[x]
    <3>1. CASE x = u
      BY <1>8, <3>1
    <3>2. CASE x # u
      <4>1. x \in DOMAIN Kept.map /\ x \in DOMAIN cache_map
        BY <1>3, <1>5, <3>2
      <4> QED
        BY <1>7, <3>2, <4>1 DEF Responses
    <3> QED
      BY <3>1, <3>2
  <2> QED
    BY <2>1, <2>2 DEF Responses
<1>10. \E g \in SUBSET Policy!Cached :
         /\ Cardinality(g) =
              IF Cardinality(Policy!Cached) < capacity THEN 0 ELSE 1
         /\ Responses' = [x \in (Policy!Cached \ g) \cup {u} |->
                            IF x = u THEN v ELSE Responses[x]]
  BY <1>3, <1>5, <1>9
<1> QED
  BY <1>4, <1>5, <1>10, SameCardinality DEF Policy!Store

\* Every operation keeps the invariant, and is one of CachePolicy's or changes
\* nothing that CachePolicy sees.
LEMMA HistoryStep ==
  ASSUME Inv, [HistoryNext]_historyVars
  PROVE  Inv' /\ [Policy!NextWith(Policy!Cached)]_(Policy!vars)
<1> DEFINE Good == Inv' /\ [Policy!NextWith(Policy!Cached)]_(Policy!vars)
<1>1. Policy!Cached = DOMAIN cache_map
  BY DEF Policy!Cached, Responses
<1>2. ASSUME UNCHANGED <<capacity, frequency_list, cache_map, heap, crashed, history>>
      PROVE  Good
  <2>1. Inv'
    BY <1>2, IdleStep DEF lfuVars
  <2>2. UNCHANGED Policy!vars
    BY <1>2 DEF Policy!vars, Responses, history
  <2> QED
    BY <2>1, <2>2
<1>3. ASSUME NEW u \in Urls, FindHit(u), Policy!Use(u, uses[u] + 1)
      PROVE  Good
  <2>1. Inv'
    BY <1>3, HitStep
  <2>2. /\ u \in DOMAIN cache_map /\ DOMAIN cache_map' = DOMAIN cache_map
        /\ \A w \in DOMAIN cache_map : cache_map'[w].element = cache_map[w].element
        /\ heap' = heap /\ capacity' = capacity
    BY <1>3, InvLemma, IncrementLemma DEF FindHit
  <2>3. Responses' = Responses
    BY <2>2 DEF Responses
  <2>4. Policy!Hit(u)
    BY <1>1, <1>3, <2>2, <2>3 DEF Policy!Hit
  <2> QED
    BY <2>1, <2>4 DEF Policy!NextWith
<1>4. ASSUME NEW u \in Urls, NEW v \in Values, AddNew(u, v), Policy!Use(u, 1)
      PROVE  Good
  BY <1>4, AddNewStep, AddStores DEF Policy!NextWith
<1>5. ASSUME NEW u \in Urls, RemoveUrl(u), UNCHANGED history PROVE Good
  <2>1. /\ Inv' /\ DOMAIN cache_map' = DOMAIN cache_map \ {u}
        /\ \A w \in DOMAIN cache_map' :
             /\ cache_map'[w] = cache_map[w]
             /\ heap'[cache_map[w].element] = heap[cache_map[w].element]
    BY <1>5, RemoveStep
  <2>2. u \in DOMAIN cache_map /\ capacity' = capacity
    BY <1>5 DEF RemoveUrl
  <2>3. Responses' = [x \in Policy!Cached \ {u} |-> Responses[x]]
    BY <1>1, <2>1 DEF Responses
  <2>4. Policy!Drop(u)
    BY <1>1, <1>5, <2>2, <2>3 DEF Policy!Drop, history
  <2> QED
    BY <2>1, <2>4 DEF Policy!NextWith
<1>6. ASSUME NEW u \in Urls, AddCrash(u), UNCHANGED history PROVE Good
  <2>1. Inv'
    BY <1>6, CrashStep
  <2>2. UNCHANGED Policy!vars
    BY <1>6 DEF AddCrash, Policy!vars, Responses, history
  <2> QED
    BY <2>1, <2>2
<1>7. ASSUME UNCHANGED historyVars PROVE Good
  BY <1>2, <1>7 DEF historyVars, lfuVars
<1>8. ASSUME NEW u \in Urls, FindMiss(u), UNCHANGED history PROVE Good
  BY <1>2, <1>8 DEF FindMiss, lfuVars
<1>9. ASSUME NEW u \in Urls, AddPresent(u), Policy!Use(u, uses[u] + 1)
      PROVE  Good
  BY <1>3, <1>9 DEF AddPresent
<1> HIDE DEF Good
<1>10. Good
  BY <1>2, <1>3, <1>4, <1>5, <1>6, <1>7, <1>8, <1>9 DEF HistoryNext
<1> QED
  BY <1>10 DEF Good

\* A cache that has not been used is empty, for CachePolicy too.
LEMMA HistoryInitially == HistoryInit => Inv /\ Policy!Init
<1> SUFFICES ASSUME HistoryInit PROVE Inv /\ Policy!Init
  OBVIOUS
<1>1. Inv
  BY InvInit DEF HistoryInit
<1>2. Policy!Init
  BY LFUAssumption
     DEF HistoryInit, Init, Policy!Init, Responses, LFUAssumption
<1> QED
  BY <1>1, <1>2

\* The invariant holds after every sequence of operations (LFUCache.cpp:23-127).
THEOREM InvHolds == HistorySpec => []Inv
  BY HistoryInitially, HistoryStep, PTL DEF HistorySpec

\* Every variable keeps its type in every behaviour of the cache.
THEOREM TypeCorrect == HistorySpec => []TypeOK
<1>1. Inv => TypeOK
  BY DEF Inv
<1> QED
  BY <1>1, InvHolds, PTL

\* Nodes, map and memory describe one cache: no pointer to a node that was erased,
\* no element freed twice or lost, none in two nodes, for any capacity.
THEOREM ConsistentHolds == HistorySpec => []Consistent
<1>1. Inv => Consistent
  BY DEF Inv
<1> QED
  BY <1>1, InvHolds, PTL

\* The first node, from which evict takes its victim and to which add gives new
\* elements, is that of the highest frequency.
THEOREM FirstNodeIsTheHighestHolds == HistorySpec => []FirstNodeIsTheHighest
<1>1. Inv => FirstNodeIsTheHighest
  BY DEF Inv
<1> QED
  BY <1>1, InvHolds, PTL

\* The cache never holds more elements than it was made for.
THEOREM CapacityRespectedHolds == HistorySpec => []CapacityRespected
<1>1. Inv => CapacityRespected
  BY DEF Inv
<1> QED
  BY <1>1, InvHolds, PTL

\* evict finds no victim only in a cache made for none.
THEOREM CrashOnlyWithoutRoomHolds == HistorySpec => []CrashOnlyWithoutRoom
<1>1. Inv => CrashOnlyWithoutRoom
  BY DEF Inv
<1> QED
  BY <1>1, InvHolds, PTL

\* LFUCache.cpp:23-127 keeps at most capacity responses, discards one only to make
\* room for another, one at a time, and keeps a stored response unchanged, for any
\* capacity, keys, responses and memory.
THEOREM LFUImplementsPolicy == HistorySpec => EvictsOnlyToMakeRoom
<1>1. HistorySpec => Policy!BoundedSpec
  BY HistoryInitially, HistoryStep, PTL DEF HistorySpec, Policy!BoundedSpec
<1> QED
  BY <1>1 DEF EvictsOnlyToMakeRoom

=============================================================================
