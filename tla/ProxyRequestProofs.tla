------------------------- MODULE ProxyRequestProofs -------------------------
(***************************************************************************)
(* Proofs about ProxyRequest, for every request, however long it is and    *)
(* whatever it contains.  The header table: ParsedHeader_set writes to a   *)
(* slot that is allocated, no two live slots have one key, and what is     *)
(* printed for the origin are the headers that it should get.  The request *)
(* line: an address is taken apart into its parts, and the address that is *)
(* printed for a request parses to the same parts again.                   *)
(***************************************************************************)
EXTENDS ProxyRequest, SequenceTheorems, WellFoundedInduction, TLAPS

Slots == Headers \cup {Removed}

\* What the proofs need of the types; the table and its request.
TableTypeOK ==
  /\ received \in Seq(Lines)
  /\ next \in Nat \ {0}
  /\ headers \in Seq(Slots)
  /\ headerslen \in Nat

Inv == TableTypeOK /\ SlotIsAllocated /\ MemoryIsBounded /\ KeysAreUnique

-----------------------------------------------------------------------------

\* ParsedHeader_remove keeps every slot in its place and leaves no slot with the
\* key, because the first one it finds is the only one.
LEMMA AfterRemoveHasNoKey ==
  ASSUME TableTypeOK, KeysAreUnique, NEW key \in Seq(Keys)
  PROVE  /\ AfterRemove(key) \in Seq(Slots)
         /\ Len(AfterRemove(key)) = Len(headers)
         /\ \A i \in 1..Len(headers) :
              \/ AfterRemove(key)[i] = Removed
              \/ /\ AfterRemove(key)[i] = headers[i]
                 /\ headers[i].key # key
<1>1. DOMAIN headers = 1..Len(headers) /\ Len(headers) \in Nat
  BY DEF TableTypeOK
<1>2. \A i \in 1..Len(headers) : headers[i] \in Slots
  BY DEF TableTypeOK
<1>3. \A i \in 1..Len(headers) : AfterRemove(key)[i] \in {headers[i], Removed}
  BY <1>1 DEF AfterRemove
<1>4. AfterRemove(key) \in [1..Len(headers) -> Slots]
  BY <1>1, <1>2 DEF AfterRemove, Slots
<1>5. AfterRemove(key) \in Seq(Slots) /\ Len(AfterRemove(key)) = Len(headers)
  BY <1>1, <1>4
<1>6. ASSUME NEW i \in 1..Len(headers), AfterRemove(key)[i] # Removed
      PROVE  /\ AfterRemove(key)[i] = headers[i]
             /\ headers[i].key # key
  <2>1. AfterRemove(key)[i] = headers[i] /\ headers[i] # Removed
    BY <1>3, <1>6
  <2>2. SUFFICES ASSUME headers[i].key = key
                 PROVE  FALSE
    BY <2>1
  <2>3. i \in SlotsOf(key)
    BY <1>1, <2>1, <2>2 DEF SlotsOf
  <2>4. \A j \in SlotsOf(key) : j = i
    BY <1>1, <2>3 DEF SlotsOf, KeysAreUnique
  <2>5. \A j \in SlotsOf(key) : i <= j
    BY <2>4
  <2>6. AfterRemove(key)[i] = Removed
    BY <1>1, <2>3, <2>5 DEF AfterRemove
  <2> QED
    BY <1>6, <2>6
<1> QED
  BY <1>5, <1>6

\* ParsedHeader_set keeps the invariant, whatever it sets.
LEMMA SetKeepsInv ==
  ASSUME Inv, phase # "destroyed",
         NEW key \in Seq(Keys), NEW value \in Values, Set(key, value)
  PROVE  /\ headers' \in Seq(Slots)
         /\ headerslen' \in Nat
         /\ SlotIsAllocated' /\ MemoryIsBounded' /\ KeysAreUnique'
<1> DEFINE kept  == AfterRemove(key)
           entry == [key |-> key, value |-> value]
<1>1. /\ kept \in Seq(Slots)
      /\ Len(kept) = Len(headers)
      /\ \A i \in 1..Len(headers) :
           kept[i] = Removed \/ (kept[i] = headers[i] /\ headers[i].key # key)
  BY AfterRemoveHasNoKey DEF Inv
<1>2. entry \in Slots
  BY DEF Slots, Headers
<1>3. headers' = Append(kept, entry) /\ headerslen' = Grown
  BY DEF Set
<1> HIDE DEF kept, entry
<1>4. /\ headers' \in Seq(Slots)
      /\ Len(headers') = Len(headers) + 1
      /\ headers'[Len(headers) + 1] = entry
      /\ \A i \in 1..Len(headers) : headers'[i] = kept[i]
  BY <1>1, <1>2, <1>3
<1>5. Len(headers) \in Nat /\ headerslen \in Nat
  BY DEF Inv, TableTypeOK
<1>6. headerslen' \in Nat /\ SlotIsAllocated' /\ MemoryIsBounded'
  BY <1>3, <1>4, <1>5, HeaderAssumption
  DEF Inv, SlotIsAllocated, MemoryIsBounded, Grown, HeaderAssumption
<1>7. KeysAreUnique'
  <2>1. SUFFICES ASSUME NEW i \in 1..(Len(headers) + 1),
                        NEW j \in 1..(Len(headers) + 1),
                        headers'[i] # Removed, headers'[j] # Removed,
                        headers'[i].key = headers'[j].key
                 PROVE  i = j
    BY <1>4 DEF KeysAreUnique
  <2>2. entry.key = key
    BY DEF entry
  <2>3. CASE i \in 1..Len(headers) /\ j \in 1..Len(headers)
    <3>1. /\ headers'[i] = headers[i] /\ headers[i] # Removed
          /\ headers'[j] = headers[j] /\ headers[j] # Removed
      BY <1>1, <1>4, <2>1, <2>3
    <3>2. DOMAIN headers = 1..Len(headers)
      BY DEF Inv, TableTypeOK
    <3> QED
      BY <2>1, <2>3, <3>1, <3>2 DEF Inv, KeysAreUnique
  <2>4. CASE i \in 1..Len(headers) /\ j = Len(headers) + 1
    BY <1>1, <1>4, <2>1, <2>2, <2>4
  <2>5. CASE j \in 1..Len(headers) /\ i = Len(headers) + 1
    BY <1>1, <1>4, <2>1, <2>2, <2>5
  <2> QED
    BY <1>5, <2>1, <2>3, <2>4, <2>5
<1> QED
  BY <1>4, <1>6, <1>7

-----------------------------------------------------------------------------

\* The values the parser cuts out of a line are values.
LEMMA ValueAtType ==
  ASSUME received \in Seq(Lines), NEW n \in 1..Len(received)
  PROVE  ValueAt(n) \in Values
<1> DEFINE TextOf(line) == IF line.text = NoColon THEN <<>> ELSE line.text
<1>1. \A line \in Lines : TextOf(line) \in Seq(Pieces \cup Keys)
  <2>1. \A t \in Texts : t \in Seq(Pieces \cup Keys)
    BY HeaderAssumption DEF HeaderAssumption
  <2> QED
    BY <2>1 DEF Lines
<1>2. received[n] \in Lines
  OBVIOUS
<1>3. CASE TextOf(received[n]) # <<>>
  <2>1. Tail(TextOf(received[n])) \in Seq(Pieces \cup Keys)
    BY <1>1, <1>2, <1>3
  <2> QED
    BY <1>3, <2>1 DEF ValueAt, Values
<1>4. CASE TextOf(received[n]) = <<>> /\ n = Len(received)
  <2>1. <<LineFeed>> \in Seq(Pieces \cup Keys)
    BY HeaderAssumption DEF HeaderAssumption
  <2> QED
    BY <1>4, <2>1 DEF ValueAt, Values
<1>5. CASE TextOf(received[n]) = <<>> /\ n # Len(received)
  <2>1. received[n + 1] \in Lines
    BY <1>5
  <2>2. received[n + 1].key \in Keys
    BY <2>1 DEF Lines
  <2>3. <<LineFeed, received[n + 1].key>> \in Seq(Pieces \cup Keys)
    BY <2>2, HeaderAssumption DEF HeaderAssumption
  <2>4. TextOf(received[n + 1]) \in Seq(Pieces \cup Keys)
    BY <1>1, <2>1
  <2>5. <<LineFeed, received[n + 1].key>> \o TextOf(received[n + 1])
          \in Seq(Pieces \cup Keys)
    BY <2>3, <2>4
  <2> QED
    BY <1>5, <2>5 DEF ValueAt, Values
<1> QED
  BY <1>3, <1>4, <1>5

\* A key that the parser cuts out begins at a line and ends at a colon.
LEMMA KeyAtType ==
  ASSUME received \in Seq(Lines), NEW n \in Nat \ {0}, Colons(n) # {}
  PROVE  ColonAt(n) \in n..Len(received) /\ KeyAt(n) \in Seq(Keys)
<1>1. Colons(n) \subseteq n..Len(received)
  BY DEF Colons
<1>2. \E m \in Colons(n) : \A other \in Colons(n) : m <= other
  <2>1. Colons(n) \subseteq Nat
    BY <1>1
  <2>2. PICK m \in Colons(n) :
          \A other \in Colons(n) : ~ (<<other, m>> \in OpToRel(<, Nat))
    BY <2>1, NatLessThanWellFounded, WFMin
  <2>3. \A other \in Colons(n) : ~ (other < m)
    BY <2>1, <2>2 DEF OpToRel
  <2> QED
    BY <2>1, <2>3
<1>3. ColonAt(n) \in Colons(n)
  BY <1>2 DEF ColonAt
<1>4. ColonAt(n) \in n..Len(received)
  BY <1>1, <1>3
<1>5. Len(received) \in Nat /\ ColonAt(n) \in Nat /\ ColonAt(n) >= n
  BY <1>4
<1> DEFINE length == ColonAt(n) - n + 1
<1>6. length \in Nat
  BY <1>5
<1>7. \A i \in 1..length : n + i - 1 \in 1..Len(received)
  BY <1>4, <1>5
<1>8. \A i \in 1..length : received[n + i - 1].key \in Keys
  <2>1. \A m \in 1..Len(received) : received[m].key \in Keys
    <3>1. \A line \in Lines : line.key \in Keys
      BY DEF Lines
    <3>2. \A m \in 1..Len(received) : received[m] \in Lines
      OBVIOUS
    <3> QED
      BY <3>1, <3>2
  <2> QED
    BY <1>7, <2>1
<1>9. KeyAt(n) \in [1..length -> Keys]
  BY <1>8 DEF KeyAt
<1>10. KeyAt(n) \in Seq(Keys)
  <2> HIDE DEF length
  <2> QED
    BY <1>6, <1>9
<1> QED
  BY <1>4, <1>10

\* A new table is empty and has a slot at least.
LEMMA InitInv == Init => Inv
<1> SUFFICES ASSUME Init PROVE Inv
  OBVIOUS
<1>1. received \in Seq(Lines)
  BY HeaderAssumption DEF Init, HeaderAssumption
<1>2. headers = <<>> /\ headers \in Seq(Slots) /\ next \in Nat \ {0}
  BY DEF Init
<1>3. headerslen \in Nat \ {0} /\ headerslen = DefaultNhdrs
  BY HeaderAssumption DEF Init, HeaderAssumption
<1> QED
  BY <1>1, <1>2, <1>3
  DEF Inv, TableTypeOK, SlotIsAllocated, MemoryIsBounded, KeysAreUnique

\* Every step of the request keeps the invariant.
LEMMA NextInv == Inv /\ [Next]_vars => Inv'
<1> SUFFICES ASSUME Inv, [Next]_vars PROVE Inv'
  OBVIOUS
<1>0. Len(received) \in Nat /\ next \in Nat \ {0} /\ received \in Seq(Lines)
  BY DEF Inv, TableTypeOK
<1>1. CASE ParseHeader
  <2>1. Colons(next) # {}
    BY <1>1 DEF ParseHeader
  <2>2. KeyAt(next) \in Seq(Keys) /\ ColonAt(next) \in 1..Len(received)
    BY <1>0, <2>1, KeyAtType
  <2>3. ValueAt(ColonAt(next)) \in Values
    BY <1>0, <2>2, ValueAtType
  <2>4. Set(KeyAt(next), ValueAt(ColonAt(next))) /\ phase = "parse"
    BY <1>1 DEF ParseHeader
  <2>5. /\ headers' \in Seq(Slots)
        /\ headerslen' \in Nat
        /\ SlotIsAllocated' /\ MemoryIsBounded' /\ KeysAreUnique'
    BY <2>2, <2>3, <2>4, SetKeepsInv
  <2>6. received' = received /\ next' \in Nat \ {0}
    BY <1>0, <1>1 DEF ParseHeader
  <2> QED
    BY <1>0, <2>5, <2>6 DEF Inv, TableTypeOK
<1>2. CASE SetHost \/ SetConnection
  <2>1. <<"Host">> \in Seq(Keys) /\ <<"Connection">> \in Seq(Keys)
    BY HeaderAssumption DEF HeaderAssumption
  <2>2. HostText \in Values /\ CloseText \in Values
    <3>1. HostText \in Seq(Pieces) /\ CloseText \in Seq(Pieces)
      BY HeaderAssumption DEF HeaderAssumption
    <3> QED
      BY <3>1 DEF Values
  <2>3. /\ Set(<<"Host">>, HostText) \/ Set(<<"Connection">>, CloseText)
        /\ phase # "destroyed"
    BY <1>2 DEF SetHost, SetConnection
  <2>4. /\ headers' \in Seq(Slots)
        /\ headerslen' \in Nat
        /\ SlotIsAllocated' /\ MemoryIsBounded' /\ KeysAreUnique'
    BY <2>1, <2>2, <2>3, SetKeepsInv
  <2>5. received' = received /\ next' = next
    BY <1>2 DEF SetHost, SetConnection
  <2> QED
    BY <1>0, <2>4, <2>5 DEF Inv, TableTypeOK
<1>3. CASE ParseFails \/ ParseEnds \/ PrintHeaders \/ UNCHANGED vars
  <2>1. /\ UNCHANGED <<received, next, headers, headerslen>>
        /\ phase = "destroyed" => phase' = "destroyed"
    BY <1>3 DEF ParseFails, ParseEnds, PrintHeaders, vars
  <2> QED
    BY <2>1
    DEF Inv, TableTypeOK, SlotIsAllocated, MemoryIsBounded, KeysAreUnique
<1>4. CASE Destroy
  <2>1. /\ UNCHANGED <<received, next>>
        /\ headers' = <<>> /\ headerslen' = 0
        /\ phase' = "destroyed"
    BY <1>4 DEF Destroy
  <2>2. DefaultNhdrs \in Nat
    BY HeaderAssumption DEF HeaderAssumption
  <2> QED
    BY <2>1, <2>2
    DEF Inv, TableTypeOK, SlotIsAllocated, MemoryIsBounded, KeysAreUnique
<1> QED
  BY <1>1, <1>2, <1>3, <1>4 DEF Next

\* The invariant holds in every reachable state.
LEMMA AlwaysInv == Spec => []Inv
  BY InitInv, NextInv, PTL DEF Spec

-----------------------------------------------------------------------------

\* ParsedHeader_set always writes to a slot that has been allocated
\* (proxy_parse.c:47-57).
THEOREM SlotIsAllocatedHolds == Spec => []SlotIsAllocated
<1>1. Inv => SlotIsAllocated
  BY DEF Inv
<1> QED
  BY <1>1, AlwaysInv, PTL

\* The allocation is at most twice what has been used (proxy_parse.c:47-48).
THEOREM MemoryIsBoundedHolds == Spec => []MemoryIsBounded
<1>1. Inv => MemoryIsBounded
  BY DEF Inv
<1> QED
  BY <1>1, AlwaysInv, PTL

\* A key has one live slot at most, so that get and remove, which stop at the
\* first, see all there is (proxy_parse.c:74-103).
THEOREM KeysAreUniqueHolds == Spec => []KeysAreUnique
<1>1. Inv => KeysAreUnique
  BY DEF Inv
<1> QED
  BY <1>1, AlwaysInv, PTL

-----------------------------------------------------------------------------
(* What is printed.                                                        *)

\* Every line that is parsed takes a slot, and so do the two headers that the proxy
\* sets: what slot i is for.
SlotHeader(i) ==
  IF i <= Len(received) THEN [key |-> KeyAt(i), value |-> ValueAt(ColonAt(i))]
  ELSE IF i = Len(received) + 1 THEN [key |-> <<"Host">>, value |-> HostText]
  ELSE [key |-> <<"Connection">>, value |-> CloseText]

\* The slots that are in use in each phase.
InUse ==
  CASE phase = "parse" -> next - 1
    [] phase = "host" -> Len(received)
    [] phase = "connection" -> Len(received) + 1
    [] phase = "print" -> Len(received) + 2

\* Each of the first n slots has its header until a later one takes the key.
Holds(slots, n) ==
  \A i \in 1..n :
    slots[i] = IF \E j \in (i + 1)..n : SlotHeader(j).key = SlotHeader(i).key
                 THEN Removed ELSE SlotHeader(i)

Slotted ==
  phase \in {"parse", "host", "connection", "print"} =>
    /\ next - 1 <= Len(received)
    /\ Len(headers) = InUse
    /\ \A i \in 1..Len(headers) : i <= Len(received) => Colons(i) # {}
    /\ Holds(headers, InUse)

\* ColonAt, of any lines.
ColonIn(lines, n) ==
  CHOOSE m \in {k \in n..Len(lines) : lines[k].text # NoColon} :
    \A other \in {k \in n..Len(lines) : lines[k].text # NoColon} : m <= other

\* What the slots are for is settled with the request.
LEMMA SlotHeaderStays ==
  ASSUME received' = received
  PROVE  \A i : SlotHeader(i)' = SlotHeader(i) /\ Colons(i)' = Colons(i)
<1>1. \A n : ColonAt(n)' = ColonAt(n)
  <2>1. \A n : ColonAt(n) = ColonIn(received, n)
    BY DEF ColonAt, ColonIn, Colons
  <2>2. \A n : ColonAt(n)' = ColonIn(received', n)
    BY DEF ColonAt, ColonIn, Colons
  <2> QED BY <2>1, <2>2
<1>2. \A n : KeyAt(n)' = KeyAt(n)
  BY <1>1 DEF KeyAt
<1>3. \A n : ValueAt(n)' = ValueAt(n)
  BY DEF ValueAt
<1>4. \A n : ValueAt(ColonAt(n))' = ValueAt(ColonAt(n))
  BY <1>1 DEF ValueAt
<1> QED BY <1>2, <1>4 DEF SlotHeader, Colons

\* A slot is for a header, which is none that was given up.
LEMMA SlotHeaderType ==
  ASSUME received \in Seq(Lines), NEW i \in Nat \ {0},
         i <= Len(received) => Colons(i) # {}
  PROVE  /\ SlotHeader(i) \in Headers
         /\ SlotHeader(i) # Removed
         /\ SlotHeader(i).key \in Seq(Keys) /\ SlotHeader(i).value \in Values
<1>1. SlotHeader(i) \in Headers
  <2>1. CASE i <= Len(received)
    <3>1. KeyAt(i) \in Seq(Keys) /\ ColonAt(i) \in i..Len(received)
      BY <2>1, KeyAtType
    <3>2. ColonAt(i) \in 1..Len(received)
      BY <3>1
    <3>3. ValueAt(ColonAt(i)) \in Values
      BY <3>2, ValueAtType
    <3> QED BY <2>1, <3>1, <3>3 DEF SlotHeader, Headers
  <2>2. CASE ~(i <= Len(received))
    <3>1. <<"Host">> \in Seq(Keys) /\ <<"Connection">> \in Seq(Keys)
      BY HeaderAssumption DEF HeaderAssumption
    <3>2. HostText \in Values /\ CloseText \in Values
      <4>1. HostText \in Seq(Pieces) /\ CloseText \in Seq(Pieces)
        BY HeaderAssumption DEF HeaderAssumption
      <4> QED BY <4>1 DEF Values
    <3> QED BY <2>2, <3>1, <3>2 DEF SlotHeader, Headers
  <2> QED BY <2>1, <2>2
<1>2. Removed \notin Headers
  BY HeaderAssumption DEF HeaderAssumption, Headers, Values
<1> QED BY <1>1, <1>2 DEF Headers

\* Setting the next header fills the next slot and takes its key from the others.
LEMMA SetFillsSlot ==
  ASSUME Inv, NEW n \in Nat, Len(headers) = n, Holds(headers, n),
         \A i \in 1..(n + 1) : i <= Len(received) => Colons(i) # {},
         Set(SlotHeader(n + 1).key, SlotHeader(n + 1).value)
  PROVE  Len(headers') = n + 1 /\ Holds(headers', n + 1)
<1> DEFINE key == SlotHeader(n + 1).key
           kept == AfterRemove(key)
<1>1. received \in Seq(Lines) /\ TableTypeOK /\ KeysAreUnique
  BY DEF Inv, TableTypeOK
<1>2. \A i \in 1..(n + 1) : /\ SlotHeader(i) \in Headers
                            /\ SlotHeader(i) # Removed
  BY <1>1, SlotHeaderType
<1>3. key \in Seq(Keys)
  BY <1>1, SlotHeaderType
<1>4. /\ kept \in Seq(Slots) /\ Len(kept) = n
      /\ \A i \in 1..n :
           kept[i] = Removed \/ (kept[i] = headers[i] /\ headers[i].key # key)
  BY <1>1, <1>3, AfterRemoveHasNoKey
<1>5. \A i \in 1..n : headers[i] # Removed /\ headers[i].key # key => kept[i] = headers[i]
  <2>1. DOMAIN headers = 1..n
    BY <1>1 DEF TableTypeOK
  <2> QED BY <2>1 DEF AfterRemove, SlotsOf
<1>6. SlotHeader(n + 1) = [key |-> key, value |-> SlotHeader(n + 1).value]
  BY <1>2 DEF Headers
<1>7. headers' = Append(kept, SlotHeader(n + 1))
  BY <1>6 DEF Set
<1>8. SlotHeader(n + 1) \in Slots
  BY <1>2 DEF Slots
<1> HIDE DEF kept, key
<1>9. /\ Len(headers') = n + 1
      /\ headers'[n + 1] = SlotHeader(n + 1)
      /\ \A i \in 1..n : headers'[i] = kept[i]
  BY <1>4, <1>7, <1>8
<1>10. ASSUME NEW i \in 1..n
       PROVE  headers'[i] =
                IF \E j \in (i + 1)..(n + 1) : SlotHeader(j).key = SlotHeader(i).key
                  THEN Removed ELSE SlotHeader(i)
  <2>1. i \in 1..(n + 1) /\ SlotHeader(i) # Removed
    BY <1>2
  <2>2. headers'[i] = kept[i]
    BY <1>9
  <2>3. headers[i] = IF \E j \in (i + 1)..n : SlotHeader(j).key = SlotHeader(i).key
                       THEN Removed ELSE SlotHeader(i)
    BY DEF Holds
  <2>4. CASE \E j \in (i + 1)..n : SlotHeader(j).key = SlotHeader(i).key
    <3>1. headers[i] = Removed
      BY <2>3, <2>4
    <3>2. kept[i] = Removed
      BY <1>4, <3>1
    <3>3. \E j \in (i + 1)..(n + 1) : SlotHeader(j).key = SlotHeader(i).key
      BY <2>4
    <3> QED BY <2>2, <3>2, <3>3
  <2>5. CASE ~ \E j \in (i + 1)..n : SlotHeader(j).key = SlotHeader(i).key
    <3>1. headers[i] = SlotHeader(i)
      BY <2>3, <2>5
    <3>2. CASE SlotHeader(i).key = key
      <4>1. kept[i] = Removed
        BY <1>4, <3>1, <3>2
      <4>2. n + 1 \in (i + 1)..(n + 1) /\ SlotHeader(n + 1).key = SlotHeader(i).key
        BY <3>2 DEF key
      <4> QED BY <2>2, <4>1, <4>2
    <3>3. CASE SlotHeader(i).key # key
      <4>1. kept[i] = SlotHeader(i)
        BY <1>5, <2>1, <3>1, <3>3
      <4>2. \A j \in (i + 1)..(n + 1) : j \in (i + 1)..n \/ j = n + 1
        OBVIOUS
      <4>3. ~ \E j \in (i + 1)..(n + 1) : SlotHeader(j).key = SlotHeader(i).key
        BY <2>5, <3>3, <4>2 DEF key
      <4> QED BY <2>2, <4>1, <4>3
    <3> QED BY <3>2, <3>3
  <2> QED BY <2>4, <2>5
<1>11. ~ \E j \in (n + 1 + 1)..(n + 1) : SlotHeader(j).key = SlotHeader(n + 1).key
  OBVIOUS
<1>12. \A i \in 1..(n + 1) : i \in 1..n \/ i = n + 1
  OBVIOUS
<1> QED BY <1>9, <1>10, <1>11, <1>12 DEF Holds

\* A new table has no slots in use.
LEMMA SlottedInit == Init => Slotted
<1> SUFFICES ASSUME Init PROVE Slotted
  OBVIOUS
<1>1. received \in Seq(Lines)
  BY InitInv DEF Inv, TableTypeOK
<1>2. Len(received) \in Nat
  BY <1>1
<1>3. headers = <<>> /\ next = 1 /\ phase = "parse" /\ Len(headers) = 0
  BY DEF Init
<1> QED BY <1>2, <1>3 DEF Slotted, InUse, Holds

\* Every step of the request fills the next slot, or none.
LEMMA SlottedStep == Inv /\ Slotted /\ [Next]_vars => Slotted'
<1> SUFFICES ASSUME Inv, Slotted, [Next]_vars PROVE Slotted'
  OBVIOUS
<1>1. received \in Seq(Lines) /\ Len(received) \in Nat /\ next \in Nat \ {0}
  BY DEF Inv, TableTypeOK
<1>2. received' = received
  BY DEF Next, ParseHeader, ParseFails, ParseEnds, SetHost, SetConnection,
         PrintHeaders, Destroy, vars
<1>3. /\ \A i : Colons(i)' = Colons(i)
      /\ \A n \in Nat : Holds(headers', n) => Holds(headers, n)'
  BY <1>2, SlotHeaderStays DEF Holds
<1>4. ASSUME NEW n \in Nat, phase \in {"parse", "host", "connection"}, InUse = n,
             n + 1 <= Len(received) => Colons(n + 1) # {},
             Set(SlotHeader(n + 1).key, SlotHeader(n + 1).value),
             InUse' = n + 1, next' - 1 <= Len(received)
      PROVE  Slotted'
  <2>1. /\ Len(headers) = n /\ Holds(headers, n)
        /\ \A i \in 1..n : i <= Len(received) => Colons(i) # {}
    BY <1>4 DEF Slotted
  <2>2. \A i \in 1..(n + 1) : i <= Len(received) => Colons(i) # {}
    <3>1. \A i \in 1..(n + 1) : i \in 1..n \/ i = n + 1
      OBVIOUS
    <3> QED BY <1>4, <2>1, <3>1
  <2>3. Len(headers') = n + 1 /\ Holds(headers', n + 1)
    BY <1>4, <2>1, <2>2, SetFillsSlot
  <2>4. Holds(headers, InUse)'
    BY <1>3, <1>4, <2>3
  <2> QED BY <1>2, <1>3, <1>4, <2>2, <2>3, <2>4 DEF Slotted
<1>5. CASE ParseHeader
  <2>1. /\ phase = "parse" /\ phase' = "parse"
        /\ Colons(next) # {} /\ next' = next + 1
        /\ Set(KeyAt(next), ValueAt(ColonAt(next)))
    BY <1>5 DEF ParseHeader
  <2>2. next <= Len(received)
    BY <1>1, <2>1 DEF Colons
  <2>3. /\ SlotHeader(next).key = KeyAt(next)
        /\ SlotHeader(next).value = ValueAt(ColonAt(next))
    BY <2>2 DEF SlotHeader
  <2>4. next - 1 \in Nat /\ (next - 1) + 1 = next
    BY <1>1
  <2>5. InUse = next - 1 /\ InUse' = next
    BY <1>1, <2>1 DEF InUse
  <2> QED BY <1>1, <1>4, <2>1, <2>2, <2>3, <2>4, <2>5
<1>6. CASE SetHost \/ SetConnection
  <2> DEFINE n == IF phase = "host" THEN Len(received) ELSE Len(received) + 1
  <2>1. /\ next' = next
        /\ \/ /\ phase = "host" /\ phase' = "connection"
              /\ Set(<<"Host">>, HostText)
           \/ /\ phase = "connection" /\ phase' = "print"
              /\ Set(<<"Connection">>, CloseText)
    BY <1>6 DEF SetHost, SetConnection
  <2>2. n \in Nat /\ InUse = n /\ InUse' = n + 1 /\ ~(n + 1 <= Len(received))
    BY <1>1, <1>2, <2>1 DEF InUse
  <2>3. Set(SlotHeader(n + 1).key, SlotHeader(n + 1).value)
    BY <1>1, <2>1 DEF SlotHeader
  <2>4. next - 1 <= Len(received)
    BY <2>1 DEF Slotted
  <2> HIDE DEF n
  <2> QED BY <1>4, <2>1, <2>2, <2>3, <2>4
<1>7. CASE ParseEnds \/ UNCHANGED vars
  <2>1. UNCHANGED <<received, next, headers>>
    BY <1>7 DEF ParseEnds, vars
  <2>2. CASE phase' \in {"parse", "host", "connection", "print"}
    <3>1. /\ phase \in {"parse", "host", "connection", "print"}
          /\ InUse \in Nat /\ InUse' = InUse
      <4>1. CASE UNCHANGED vars
        BY <1>1, <2>2, <4>1 DEF vars, InUse
      <4>2. CASE ParseEnds
        <5>1. phase = "parse" /\ phase' = "host" /\ next > Len(received)
          BY <4>2 DEF ParseEnds
        <5>2. next - 1 <= Len(received)
          BY <5>1 DEF Slotted
        <5>3. next - 1 = Len(received)
          BY <1>1, <5>1, <5>2
        <5> QED BY <1>1, <1>2, <5>1, <5>3 DEF InUse
      <4> QED BY <1>7, <4>1, <4>2
    <3>2. Holds(headers, InUse)'
      BY <1>3, <2>1, <3>1 DEF Slotted
    <3> QED BY <1>3, <2>1, <3>1, <3>2 DEF Slotted
  <2> QED BY <2>2 DEF Slotted
<1>8. CASE ParseFails \/ PrintHeaders \/ Destroy
  BY <1>8 DEF ParseFails, PrintHeaders, Destroy, Slotted
<1> QED BY <1>5, <1>6, <1>7, <1>8 DEF Next

\* f is what Printed is for the first n slots.
IsPrinting(f, n) ==
  f = [m \in 0..n |->
         IF m = 0 THEN <<>>
         ELSE IF headers[m] = Removed THEN f[m - 1]
         ELSE Append(f[m - 1], headers[m])]

\* There is such a function, for any number of slots.
LEMMA PrintingExists == \A n \in Nat : \E f : IsPrinting(f, n)
<1> DEFINE Bad == {n \in Nat : ~ \E f : IsPrinting(f, n)}
<1>1. SUFFICES ASSUME Bad # {} PROVE FALSE
  OBVIOUS
<1>2. PICK n \in Bad : \A m \in Bad : <<m, n>> \notin OpToRel(<, Nat)
  <2> HIDE DEF Bad
  <2>1. Bad \subseteq Nat
    BY DEF Bad
  <2> QED BY <1>1, <2>1, NatLessThanWellFounded, WFMin
<1>3. n \in Nat /\ ~ \E f : IsPrinting(f, n)
  OBVIOUS
<1>4. CASE n = 0
  <2> DEFINE f == [m \in 0..0 |-> <<>>]
  <2>1. \A m \in 0..0 : m = 0
    OBVIOUS
  <2>2. IsPrinting(f, 0)
    BY <2>1 DEF IsPrinting
  <2> QED BY <1>3, <1>4, <2>2
<1>5. CASE n # 0
  <2>1. n - 1 \in Nat /\ n - 1 < n
    BY <1>3, <1>5
  <2>2. <<n - 1, n>> \in OpToRel(<, Nat)
    BY <1>3, <2>1 DEF OpToRel
  <2>3. n - 1 \notin Bad
    BY <1>2, <2>2
  <2>4. PICK f : IsPrinting(f, n - 1)
    BY <2>1, <2>3
  <2> DEFINE last == IF headers[n] = Removed THEN f[n - 1]
                     ELSE Append(f[n - 1], headers[n])
             g == [m \in 0..n |-> IF m = n THEN last ELSE f[m]]
  <2>5. IsPrinting(g, n)
    <3>1. ASSUME NEW m \in 0..n
          PROVE  g[m] = IF m = 0 THEN <<>>
                        ELSE IF headers[m] = Removed THEN g[m - 1]
                        ELSE Append(g[m - 1], headers[m])
      <4>1. m # 0 => m - 1 \in 0..n /\ m - 1 # n
        BY <1>3
      <4>2. CASE m = n
        <5>1. g[n] = last /\ g[n - 1] = f[n - 1]
          BY <1>3, <1>5, <2>1
        <5> QED BY <1>5, <4>2, <5>1
      <4>3. CASE m # n
        <5>1. m \in 0..(n - 1) /\ g[m] = f[m] /\ (m # 0 => g[m - 1] = f[m - 1])
          BY <1>3, <4>1, <4>3
        <5> HIDE DEF g
        <5> QED BY <2>4, <5>1 DEF IsPrinting
      <4> QED BY <4>2, <4>3
    <3>2. g = [m \in 0..n |-> g[m]]
      OBVIOUS
    <3> HIDE DEF g
    <3> QED BY <3>1, <3>2 DEF IsPrinting
  <2> QED BY <1>3, <2>5
<1> QED BY <1>4, <1>5

\* What Printed computes, slot by slot.
LEMMA PrintedUnfolds ==
  ASSUME headers \in Seq(Slots)
  PROVE  /\ Printed[0] = <<>>
         /\ \A n \in 1..Len(headers) :
              Printed[n] = IF headers[n] = Removed THEN Printed[n - 1]
                           ELSE Append(Printed[n - 1], headers[n])
<1>1. Len(headers) \in Nat
  OBVIOUS
<1>2. IsPrinting(Printed, Len(headers))
  <2>1. \E f : IsPrinting(f, Len(headers))
    BY <1>1, PrintingExists
  <2> QED BY <2>1 DEF IsPrinting, Printed
<1>3. 0 \in 0..Len(headers) /\ \A n \in 1..Len(headers) : n \in 0..Len(headers) /\ n # 0
  BY <1>1
<1> QED BY <1>2, <1>3 DEF IsPrinting

\* A slot with a header, and p is the headers of the first n slots, in their order.
IsLive(m) == headers[m] # Removed

ArePrinted(p, n) ==
  /\ p \in Seq(Headers)
  /\ \A m \in 1..n : IsLive(m) => \E k \in 1..Len(p) : p[k] = headers[m]
  /\ \A k \in 1..Len(p) : \E m \in 1..n : IsLive(m) /\ p[k] = headers[m]
  /\ \A k, l \in 1..Len(p) :
       k < l => \E i, j \in 1..n : /\ i < j /\ IsLive(i) /\ IsLive(j)
                                  /\ p[k] = headers[i] /\ p[l] = headers[j]

\* One slot more.
LEMMA OneMoreIsPrinted ==
  ASSUME headers \in Seq(Slots), NEW n \in 1..Len(headers),
         NEW p, ArePrinted(p, n - 1)
  PROVE  ArePrinted(IF headers[n] = Removed THEN p ELSE Append(p, headers[n]), n)
<1>1. n \in Nat /\ p \in Seq(Headers) /\ headers[n] \in Slots
  BY DEF ArePrinted
<1>2. /\ \A m \in 1..(n - 1) : m \in 1..n /\ m < n
      /\ \A m \in 1..n : m \in 1..(n - 1) \/ m = n
  BY <1>1
<1>3. CASE headers[n] = Removed
  <2>1. \A m \in 1..n : IsLive(m) => m \in 1..(n - 1)
    BY <1>2, <1>3 DEF IsLive
  <2>2. /\ \A m \in 1..n : IsLive(m) => \E k \in 1..Len(p) : p[k] = headers[m]
        /\ \A k \in 1..Len(p) : \E m \in 1..n : IsLive(m) /\ p[k] = headers[m]
    BY <1>2, <2>1 DEF ArePrinted
  <2>3. ASSUME NEW k \in 1..Len(p), NEW l \in 1..Len(p), k < l
        PROVE  \E i, j \in 1..n : /\ i < j /\ IsLive(i) /\ IsLive(j)
                                  /\ p[k] = headers[i] /\ p[l] = headers[j]
    <3>1. PICK i \in 1..(n - 1), j \in 1..(n - 1) :
            /\ i < j /\ IsLive(i) /\ IsLive(j)
            /\ p[k] = headers[i] /\ p[l] = headers[j]
      BY <2>3 DEF ArePrinted
    <3> QED BY <1>2, <3>1
  <2>4. ArePrinted(p, n)
    BY <1>1, <2>2, <2>3 DEF ArePrinted
  <2> QED BY <1>3, <2>4
<1>4. CASE headers[n] # Removed
  <2> DEFINE q == Append(p, headers[n])
  <2>1. headers[n] \in Headers /\ IsLive(n)
    BY <1>1, <1>4 DEF Slots, IsLive
  <2>2. /\ q \in Seq(Headers) /\ Len(q) = Len(p) + 1 /\ Len(p) \in Nat
        /\ q[Len(p) + 1] = headers[n]
        /\ \A k \in 1..Len(p) : q[k] = p[k]
    BY <1>1, <2>1
  <2> HIDE DEF q
  <2>3. /\ \A k \in 1..Len(p) : k \in 1..Len(q)
        /\ \A k \in 1..Len(q) : k \in 1..Len(p) \/ k = Len(p) + 1
        /\ Len(p) + 1 \in 1..Len(q)
    BY <2>2
  <2>4. ASSUME NEW m \in 1..n, IsLive(m) PROVE \E k \in 1..Len(q) : q[k] = headers[m]
    <3>1. CASE m = n
      BY <2>2, <2>3, <3>1
    <3>2. CASE m \in 1..(n - 1)
      <4>1. PICK k \in 1..Len(p) : p[k] = headers[m]
        BY <2>4, <3>2 DEF ArePrinted
      <4> QED BY <2>2, <2>3, <4>1
    <3> QED BY <1>2, <3>1, <3>2
  <2>5. ASSUME NEW k \in 1..Len(q)
        PROVE  \E m \in 1..n : IsLive(m) /\ q[k] = headers[m]
    <3>1. CASE k = Len(p) + 1
      BY <1>1, <2>1, <2>2, <3>1
    <3>2. CASE k \in 1..Len(p)
      <4>1. PICK m \in 1..(n - 1) : IsLive(m) /\ p[k] = headers[m]
        BY <3>2 DEF ArePrinted
      <4> QED BY <1>2, <2>2, <3>2, <4>1
    <3> QED BY <2>3, <3>1, <3>2
  <2>6. ASSUME NEW k \in 1..Len(q), NEW l \in 1..Len(q), k < l
        PROVE  \E i, j \in 1..n : /\ i < j /\ IsLive(i) /\ IsLive(j)
                                  /\ q[k] = headers[i] /\ q[l] = headers[j]
    <3>1. k \in 1..Len(p)
      BY <2>2, <2>6
    <3>2. CASE l \in 1..Len(p)
      <4>1. PICK i \in 1..(n - 1), j \in 1..(n - 1) :
              /\ i < j /\ IsLive(i) /\ IsLive(j)
              /\ p[k] = headers[i] /\ p[l] = headers[j]
        BY <2>6, <3>1, <3>2 DEF ArePrinted
      <4>2. i \in 1..n /\ j \in 1..n /\ q[k] = headers[i] /\ q[l] = headers[j]
        BY <1>2, <2>2, <3>1, <3>2, <4>1
      <4> QED BY <4>1, <4>2
    <3>3. CASE l = Len(p) + 1
      <4>1. PICK i \in 1..(n - 1) : IsLive(i) /\ p[k] = headers[i]
        BY <3>1 DEF ArePrinted
      <4>2. i \in 1..n /\ i < n /\ n \in 1..n /\ q[k] = headers[i] /\ q[l] = headers[n]
        BY <1>1, <1>2, <2>2, <3>1, <3>3, <4>1
      <4> QED BY <2>1, <4>1, <4>2
    <3> QED BY <2>3, <3>2, <3>3
  <2>7. ArePrinted(q, n)
    BY <2>2, <2>4, <2>5, <2>6 DEF ArePrinted
  <2> QED BY <1>4, <2>7 DEF q
<1> QED BY <1>3, <1>4

\* Printing passes over the slots that were given up, and keeps the others in order.
LEMMA PrintedAre ==
  ASSUME headers \in Seq(Slots)
  PROVE  \A n \in 0..Len(headers) : ArePrinted(Printed[n], n)
<1> DEFINE Bad == {n \in 0..Len(headers) : ~ArePrinted(Printed[n], n)}
<1>1. SUFFICES ASSUME Bad # {} PROVE FALSE
  OBVIOUS
<1>2. PICK n \in Bad : \A m \in Bad : <<m, n>> \notin OpToRel(<, Nat)
  <2>1. Len(headers) \in Nat /\ Bad \subseteq Nat
    OBVIOUS
  <2> HIDE DEF Bad
  <2> QED BY <1>1, <2>1, NatLessThanWellFounded, WFMin
<1>3. n \in 0..Len(headers) /\ n \in Nat /\ ~ArePrinted(Printed[n], n)
  OBVIOUS
<1>4. CASE n = 0
  <2>1. Printed[0] = <<>> /\ <<>> \in Seq(Headers) /\ Len(<<>>) = 0
    BY PrintedUnfolds
  <2>2. ArePrinted(<<>>, 0)
    BY <2>1 DEF ArePrinted
  <2> QED BY <1>3, <1>4, <2>1, <2>2
<1>5. CASE n # 0
  <2>1. n \in 1..Len(headers) /\ n - 1 \in 0..Len(headers) /\ n - 1 \in Nat /\ n - 1 < n
    BY <1>3, <1>5
  <2>2. <<n - 1, n>> \in OpToRel(<, Nat)
    BY <1>3, <2>1 DEF OpToRel
  <2>3. ArePrinted(Printed[n - 1], n - 1)
    BY <1>2, <2>1, <2>2
  <2> HIDE DEF Bad
  <2>4. ArePrinted(IF headers[n] = Removed THEN Printed[n - 1]
                   ELSE Append(Printed[n - 1], headers[n]), n)
    BY <2>1, <2>3, OneMoreIsPrinted
  <2> QED BY <1>3, <2>1, <2>4, PrintedUnfolds
<1> QED BY <1>4, <1>5

\* The slot behind the first m.
LEMMA NextIsPrinted ==
  ASSUME headers \in Seq(Slots), NEW m \in Nat, NEW n \in 1..Len(headers), n = m + 1
  PROVE  Printed[n] = IF headers[n] = Removed THEN Printed[m]
                      ELSE Append(Printed[m], headers[n])
<1>1. n - 1 = m
  OBVIOUS
<1>2. Printed[n] = IF headers[n] = Removed THEN Printed[n - 1]
                   ELSE Append(Printed[n - 1], headers[n])
  BY PrintedUnfolds
<1> QED BY <1>1, <1>2

\* LastLine finds a line that has no later one with its key.
LEMMA LastLineIs ==
  ASSUME received \in Seq(Lines), NEW n \in 1..Len(received),
         \A m \in (n + 1)..Len(received) : KeyAt(m) # KeyAt(n)
  PROVE  LastLine(KeyAt(n)) = n
<1> DEFINE IsLast(i) == /\ KeyAt(i) = KeyAt(n)
                        /\ \A m \in DOMAIN received : m > i => KeyAt(m) # KeyAt(n)
<1>1. Len(received) \in Nat /\ DOMAIN received = 1..Len(received)
  OBVIOUS
<1>2. IsLast(n)
  <2>1. \A m \in 1..Len(received) : m > n => m \in (n + 1)..Len(received)
    BY <1>1
  <2> QED BY <1>1, <2>1
<1>3. \A i \in 1..Len(received) : IsLast(i) => i = n
  <2> SUFFICES ASSUME NEW i \in 1..Len(received), IsLast(i), i # n PROVE FALSE
    OBVIOUS
  <2>1. i > n \/ n > i
    BY <1>1
  <2> QED BY <1>1, <1>2, <2>1
<1>4. LastLine(KeyAt(n)) = CHOOSE i \in 1..Len(received) : IsLast(i)
  BY <1>1 DEF LastLine
<1> HIDE DEF IsLast
<1> QED BY <1>2, <1>3, <1>4

\* The last line with the key of line n.
LEMMA LastLineExists ==
  ASSUME received \in Seq(Lines), NEW n \in 1..Len(received)
  PROVE  \E m \in 1..Len(received) :
           /\ KeyAt(m) = KeyAt(n)
           /\ \A k \in (m + 1)..Len(received) : KeyAt(k) # KeyAt(m)
<1> DEFINE after == {d \in 0..Len(received) :
                       /\ Len(received) - d \in 1..Len(received)
                       /\ KeyAt(Len(received) - d) = KeyAt(n)}
<1>1. Len(received) \in Nat /\ after \subseteq Nat
  OBVIOUS
<1>2. Len(received) - n \in after
  <2>1. Len(received) - n \in 0..Len(received) /\ Len(received) - (Len(received) - n) = n
    BY <1>1
  <2> QED BY <2>1
<1>3. PICK d \in after : \A other \in after : <<other, d>> \notin OpToRel(<, Nat)
  <2> HIDE DEF after
  <2> QED BY <1>1, <1>2, NatLessThanWellFounded, WFMin
<1> DEFINE m == Len(received) - d
<1>4. d \in Nat /\ m \in 1..Len(received) /\ KeyAt(m) = KeyAt(n)
  BY <1>1
<1>5. ASSUME NEW k \in (m + 1)..Len(received) PROVE KeyAt(k) # KeyAt(m)
  <2>1. SUFFICES ASSUME KeyAt(k) = KeyAt(m) PROVE FALSE
    OBVIOUS
  <2>2. /\ Len(received) - k \in 0..Len(received) /\ Len(received) - k < d
        /\ Len(received) - (Len(received) - k) = k /\ k \in 1..Len(received)
    BY <1>1, <1>4
  <2>3. Len(received) - k \in after
    BY <1>4, <2>1, <2>2
  <2>4. <<Len(received) - k, d>> \in OpToRel(<, Nat)
    BY <1>1, <1>4, <2>2 DEF OpToRel
  <2> QED BY <1>3, <2>3, <2>4
<1> QED BY <1>4, <1>5

\* KeyAt and LastLine, of any lines.
KeyIn(lines, n) == [i \in 1..(ColonIn(lines, n) - n + 1) |-> lines[n + i - 1].key]
LastIn(lines, key) ==
  CHOOSE n \in DOMAIN lines :
    /\ KeyIn(lines, n) = key
    /\ \A m \in DOMAIN lines : m > n => KeyIn(lines, m) # key

\* What is asked of the lines is settled with the request.
LEMMA LastLineStays ==
  ASSUME received' = received
  PROVE  /\ \A key : LastLine(key)' = LastLine(key)
         /\ \A n : KeyAt(n)' = KeyAt(n) /\ ColonAt(n)' = ColonAt(n)
                   /\ RunsOn(n)' = RunsOn(n)
<1>1. \A n : ColonAt(n) = ColonIn(received, n) /\ ColonAt(n)' = ColonIn(received', n)
  BY DEF ColonAt, ColonIn, Colons
<1>2. \A n : KeyAt(n) = KeyIn(received, n) /\ KeyAt(n)' = KeyIn(received', n)
  BY <1>1 DEF KeyAt, KeyIn
<1>3. \A key : LastLine(key) = LastIn(received, key)
  BY <1>2 DEF LastLine, LastIn
<1>4. \A key : LastLine(key)' = LastIn(received', key)
  BY <1>2 DEF LastLine, LastIn
<1> QED BY <1>1, <1>2, <1>3, <1>4 DEF RunsOn

\* A live slot of a line holds what the line is parsed to, under a key that no later
\* line has, and that is none of the proxy's.
LEMMA LiveLines ==
  ASSUME received \in Seq(Lines), Holds(headers, Len(received) + 2),
         NEW m \in 1..Len(received), IsLive(m)
  PROVE  /\ headers[m] = [key |-> KeyAt(m), value |-> ValueAt(ColonAt(m))]
         /\ \A name \in Rewritten : KeyAt(m) # <<name>>
         /\ LastLine(KeyAt(m)) = m
<1>1. /\ Len(received) \in Nat /\ m \in 1..(Len(received) + 2)
      /\ \A j \in (m + 1)..Len(received) :
           j \in (m + 1)..(Len(received) + 2) /\ j <= Len(received)
      /\ Len(received) + 1 \in (m + 1)..(Len(received) + 2)
      /\ Len(received) + 2 \in (m + 1)..(Len(received) + 2)
  OBVIOUS
<1>2. /\ headers[m] = SlotHeader(m)
      /\ \A j \in (m + 1)..(Len(received) + 2) : SlotHeader(j).key # SlotHeader(m).key
  BY <1>1 DEF Holds, IsLive
<1>3. /\ SlotHeader(Len(received) + 1).key = <<"Host">>
      /\ SlotHeader(Len(received) + 2).key = <<"Connection">>
      /\ SlotHeader(m) = [key |-> KeyAt(m), value |-> ValueAt(ColonAt(m))]
      /\ \A j \in (m + 1)..Len(received) : SlotHeader(j).key = KeyAt(j)
  BY <1>1 DEF SlotHeader
<1>4. SlotHeader(m).key = KeyAt(m)
  BY <1>3
<1>5. \A name \in Rewritten : KeyAt(m) # <<name>>
  BY <1>1, <1>2, <1>3, <1>4 DEF Rewritten
<1>6. \A j \in (m + 1)..Len(received) : KeyAt(j) # KeyAt(m)
  BY <1>1, <1>2, <1>3, <1>4
<1> QED BY <1>2, <1>3, <1>5, <1>6, LastLineIs

\* The line that is the last of its key has its slot, unless the key is one of the
\* proxy's.
LEMMA LastLinesAreLive ==
  ASSUME received \in Seq(Lines), Holds(headers, Len(received) + 2),
         NEW m \in 1..Len(received), \A name \in Rewritten : KeyAt(m) # <<name>>,
         \A k \in (m + 1)..Len(received) : KeyAt(k) # KeyAt(m)
  PROVE  headers[m] = SlotHeader(m)
<1>1. Len(received) \in Nat /\ m \in 1..(Len(received) + 2)
  OBVIOUS
<1>2. \A j \in (m + 1)..(Len(received) + 2) :
        \/ j \in (m + 1)..Len(received) /\ j \in 1..Len(received)
        \/ j \in {Len(received) + 1, Len(received) + 2}
  BY <1>1
<1>3. \A j \in 1..Len(received) : SlotHeader(j).key = KeyAt(j)
  BY <1>1 DEF SlotHeader
<1>4. /\ SlotHeader(Len(received) + 1).key = <<"Host">>
      /\ SlotHeader(Len(received) + 2).key = <<"Connection">>
  BY <1>1 DEF SlotHeader
<1>5. \A j \in (m + 1)..(Len(received) + 2) : SlotHeader(j).key # SlotHeader(m).key
  <2> SUFFICES ASSUME NEW j \in (m + 1)..(Len(received) + 2)
               PROVE  SlotHeader(j).key # SlotHeader(m).key
    OBVIOUS
  <2>1. SlotHeader(m).key = KeyAt(m)
    BY <1>3
  <2>2. CASE j \in (m + 1)..Len(received) /\ j \in 1..Len(received)
    BY <1>3, <2>1, <2>2
  <2>3. CASE j \in {Len(received) + 1, Len(received) + 2}
    BY <1>4, <2>1, <2>3 DEF Rewritten
  <2> QED BY <1>2, <2>2, <2>3
<1> QED BY <1>1, <1>5 DEF Holds

\* Where the colon of a line is.
LEMMA ColonIs ==
  ASSUME received \in Seq(Lines), NEW m \in 1..Len(received), Colons(m) # {}
  PROVE  /\ ColonAt(m) \in m..Len(received) /\ ColonAt(m) \in 1..Len(received)
         /\ received[ColonAt(m)].text \in Texts
         /\ received[ColonAt(m)].text # NoColon
         /\ \A n \in m..(ColonAt(m) - 1) : received[n].text = NoColon
<1>1. ColonAt(m) \in m..Len(received)
  BY KeyAtType
<1>2. ColonAt(m) \in Colons(m) /\ \A other \in Colons(m) : ColonAt(m) <= other
  <2>1. Colons(m) \subseteq Nat
    BY DEF Colons
  <2>2. \E n \in Colons(m) : \A other \in Colons(m) : n <= other
    <3>1. PICK n \in Colons(m) :
            \A other \in Colons(m) : <<other, n>> \notin OpToRel(<, Nat)
      BY <2>1, NatLessThanWellFounded, WFMin
    <3>2. ASSUME NEW other \in Colons(m) PROVE n <= other
      <4>1. n \in Nat /\ other \in Nat /\ ~(other < n)
        BY <2>1, <3>1 DEF OpToRel
      <4> QED BY <4>1
    <3> QED BY <3>2
  <2> QED BY <2>2 DEF ColonAt
<1>3. received[ColonAt(m)] \in Lines /\ received[ColonAt(m)].text # NoColon
  BY <1>2 DEF Colons
<1>4. ASSUME NEW n \in m..(ColonAt(m) - 1) PROVE received[n].text = NoColon
  <2>1. n \in m..Len(received) /\ ~(ColonAt(m) <= n)
    BY <1>1
  <2> QED BY <1>2, <2>1 DEF Colons
<1> QED BY <1>1, <1>3, <1>4 DEF Lines

\* A text loses its first character.
LEMMA ValueBehindColon ==
  ASSUME received \in Seq(Lines), NEW m \in 1..Len(received), Colons(m) # {},
         received[ColonAt(m)].text # <<>>
  PROVE  ValueAt(ColonAt(m)) = Tail(received[ColonAt(m)].text)
BY ColonIs DEF ValueAt

\* What a sequence of two and another one joined hold.
LEMMA BehindTwo ==
  ASSUME NEW S, NEW a \in Seq(S), NEW b \in Seq(S), Len(a) = 2
  PROVE  /\ DOMAIN (a \o b) = 1..(2 + Len(b))
         /\ \A n \in 1..(2 + Len(b)) :
              (a \o b)[n] = IF n <= 2 THEN a[n] ELSE b[n - 2]
<1> DEFINE u == a \o b
<1>1. /\ Len(b) \in Nat /\ u \in Seq(S) /\ Len(u) = 2 + Len(b)
      /\ \A k \in 1..2 : u[k] = a[k]
      /\ \A k \in 1..Len(b) : u[2 + k] = b[k]
  <2>1. ASSUME NEW T, NEW c \in Seq(T), NEW d \in Seq(T)
        PROVE  /\ Len(c) \in Nat /\ Len(d) \in Nat /\ c \o d \in Seq(T)
               /\ Len(c \o d) = Len(c) + Len(d)
               /\ \A k \in 1..Len(c) : (c \o d)[k] = c[k]
               /\ \A k \in 1..Len(d) : (c \o d)[Len(c) + k] = d[k]
    OBVIOUS
  <2> QED BY <2>1
<1> HIDE DEF u
<1>2. DOMAIN u = 1..(2 + Len(b))
  BY <1>1
<1>3. ASSUME NEW n \in 1..(2 + Len(b)), ~(n <= 2) PROVE u[n] = b[n - 2]
  <2>1. n - 2 \in 1..Len(b) /\ 2 + (n - 2) = n
    BY <1>1, <1>3
  <2> QED BY <1>1, <2>1
<1>4. ASSUME NEW n \in 1..(2 + Len(b)), n <= 2 PROVE u[n] = a[n]
  <2>1. n \in 1..2
    BY <1>1, <1>4
  <2> QED BY <1>1, <2>1
<1> QED BY <1>2, <1>3, <1>4 DEF u

\* A name that begins a line in what a line is parsed to, and is not all of its key,
\* is that of a line behind one that runs on.
LEMMA NamesRunOn ==
  ASSUME received \in Seq(Lines), NEW m \in 1..Len(received), Colons(m) # {},
         NEW name \in Keys, KeyAt(m) # <<name>>,
         NEW header, header = [key |-> KeyAt(m), value |-> ValueAt(ColonAt(m))],
         name \in NamesIn(header)
  PROVE  \E n \in 1..(Len(received) - 1) :
           RunsOn(n) /\ received[n + 1].key = name
<1> DEFINE c == ColonAt(m)
<1>1. /\ c \in m..Len(received) /\ c \in 1..Len(received) /\ Len(received) \in Nat
      /\ received[c].text \in Texts /\ received[c].text # NoColon
      /\ \A n \in m..(c - 1) : received[n].text = NoColon
  BY ColonIs
<1>2. /\ KeyAt(m) = [i \in 1..(c - m + 1) |-> received[m + i - 1].key]
      /\ header.key = KeyAt(m) /\ header.value = ValueAt(c)
  BY DEF KeyAt
<1> HIDE DEF c
<1>3. header.key[Len(header.key)] = received[c].key
  <2>1. c - m + 1 \in Nat /\ c - m + 1 \in 1..(c - m + 1) /\ m + (c - m + 1) - 1 = c
    BY <1>1
  <2>2. Len(KeyAt(m)) = c - m + 1
    BY <1>2, <2>1
  <2> QED BY <1>2, <2>1, <2>2
<1>4. CASE name = received[c].key
  <2>1. c # m
    <3>1. SUFFICES ASSUME c = m PROVE FALSE
      OBVIOUS
    <3>2. c - m + 1 = 1 /\ m + 1 - 1 = c
      BY <1>1, <3>1
    <3>3. KeyAt(m) = [i \in 1..1 |-> received[m + i - 1].key]
      BY <1>2, <3>2
    <3>4. \A i \in 1..1 : m + i - 1 = c
      BY <3>2
    <3>5. KeyAt(m) = [i \in 1..1 |-> name]
      BY <1>4, <3>3, <3>4
    <3> QED BY <3>5
  <2>2. c - 1 \in m..(c - 1) /\ c - 1 \in 1..(Len(received) - 1) /\ c - 1 + 1 = c
    BY <1>1, <2>1
  <2>3. RunsOn(c - 1)
    BY <1>1, <2>2 DEF RunsOn
  <2> QED BY <1>4, <2>2, <2>3
<1>5. CASE name \in Range(ValueAt(c))
  <2>1. name \notin Pieces /\ LineFeed \in Pieces
    BY HeaderAssumption DEF HeaderAssumption
  <2>2. /\ received[c].text \in Seq(Pieces)
        /\ \A n \in 1..Len(received) :
             received[n].text # NoColon => received[n].text \in Seq(Pieces)
    <3>1. Texts \subseteq Seq(Pieces)
      BY HeaderAssumption DEF HeaderAssumption
    <3>2. \A n \in 1..Len(received) : received[n] \in Lines
      OBVIOUS
    <3> QED BY <1>1, <3>1, <3>2 DEF Lines
  <2>3. received[c].text = <<>>
    <3>1. SUFFICES ASSUME received[c].text # <<>> PROVE FALSE
      OBVIOUS
    <3>2. ValueAt(c) = Tail(received[c].text)
      BY <1>1, <3>1 DEF ValueAt
    <3>3. ValueAt(c) \in Seq(Pieces)
      BY <2>2, <3>1, <3>2
    <3>4. PICK i \in DOMAIN ValueAt(c) : ValueAt(c)[i] = name
      BY <1>5 DEF Range
    <3> QED BY <2>1, <3>3, <3>4
  <2>4. c # Len(received)
    <3>1. SUFFICES ASSUME c = Len(received) PROVE FALSE
      OBVIOUS
    <3>2. ValueAt(c) = <<LineFeed>>
      BY <1>1, <2>3, <3>1 DEF ValueAt
    <3>3. PICK i \in DOMAIN ValueAt(c) : ValueAt(c)[i] = name
      BY <1>5 DEF Range
    <3>4. i = 1
      BY <3>2, <3>3
    <3> QED BY <2>1, <3>2, <3>3, <3>4
  <2>5. c \in 1..(Len(received) - 1) /\ c + 1 \in 1..Len(received)
    BY <1>1, <2>4
  <2> DEFINE rest == IF received[c + 1].text = NoColon THEN <<>> ELSE received[c + 1].text
             front == <<LineFeed, received[c + 1].key>>
  <2>6. ValueAt(c) = front \o rest
    BY <1>1, <2>3, <2>4 DEF ValueAt
  <2>7. rest \in Seq(Pieces) /\ received[c + 1].key \in Keys
    <3>1. received[c + 1] \in Lines
      BY <2>5
    <3> QED BY <2>2, <2>5, <3>1 DEF Lines
  <2> HIDE DEF rest
  <2>8. name = received[c + 1].key
    <3>1. PICK i \in DOMAIN ValueAt(c) : ValueAt(c)[i] = name
      BY <1>5 DEF Range
    <3>2. /\ front \in Seq(Pieces \cup Keys) /\ Len(front) = 2
          /\ front[1] = LineFeed /\ front[2] = received[c + 1].key
      BY <2>1, <2>7
    <3>3. rest \in Seq(Pieces \cup Keys) /\ Len(rest) \in Nat
          /\ \A j \in 1..Len(rest) : rest[j] \in Pieces
      BY <2>7
    <3> HIDE DEF front
    <3>4. /\ DOMAIN ValueAt(c) = 1..(2 + Len(rest))
          /\ \A j \in 1..(2 + Len(rest)) :
               ValueAt(c)[j] = IF j <= 2 THEN front[j] ELSE rest[j - 2]
      <4>1. DOMAIN (front \o rest) = 1..(2 + Len(rest))
        BY <3>2, <3>3, BehindTwo
      <4>2. \A n \in 1..(2 + Len(rest)) :
              (front \o rest)[n] = IF n <= 2 THEN front[n] ELSE rest[n - 2]
        BY <3>2, <3>3, BehindTwo
      <4> QED BY <2>6, <4>1, <4>2
    <3>5. CASE i <= 2
      <4>1. i = 1 \/ i = 2
        BY <3>1, <3>4, <3>5
      <4> QED BY <2>1, <3>1, <3>2, <3>4, <3>5, <4>1
    <3>6. CASE ~(i <= 2)
      <4>1. i - 2 \in 1..Len(rest)
        BY <3>1, <3>3, <3>4, <3>6
      <4> QED BY <2>1, <3>1, <3>3, <3>4, <3>6, <4>1
    <3> QED BY <3>5, <3>6
  <2> QED BY <2>3, <2>5, <2>8 DEF RunsOn
<1> QED BY <1>2, <1>3, <1>4, <1>5 DEF NamesIn

\* Printing a table in which all is set.
LEMMA PrintsRewritten ==
  ASSUME Inv, Slotted, PrintHeaders
  PROVE  HasRewritten' /\ HasTheOthers'
<1> DEFINE N == Len(received)
           q == Printed[N]
           H == [key |-> <<"Host">>, value |-> HostText]
           C == [key |-> <<"Connection">>, value |-> CloseText]
           own == [i \in 1..Len(q) |-> q[i].key]
<1>1. /\ received \in Seq(Lines) /\ N \in Nat /\ headers \in Seq(Slots)
      /\ received' = received
  BY DEF Inv, TableTypeOK, PrintHeaders
<1>2. /\ Len(headers) = N + 2 /\ Holds(headers, N + 2)
      /\ \A m \in 1..N : Colons(m) # {}
  BY <1>1 DEF PrintHeaders, Slotted, InUse
<1>3. SlotHeader(N + 1) = H /\ SlotHeader(N + 2) = C
  BY <1>1 DEF SlotHeader
<1>4. headers[N + 1] = H /\ headers[N + 2] = C
  <2>1. /\ N + 1 \in 1..(N + 2) /\ N + 2 \in 1..(N + 2)
        /\ \A j \in (N + 1 + 1)..(N + 2) : j = N + 2
        /\ \A j \in (N + 2 + 1)..(N + 2) : FALSE
    BY <1>1
  <2>2. SlotHeader(N + 2).key # SlotHeader(N + 1).key
    BY <1>3
  <2> HIDE DEF N, H, C
  <2> QED BY <1>2, <1>3, <2>1, <2>2 DEF Holds
<1>5. H # Removed /\ C # Removed /\ H \in Headers /\ C \in Headers
  <2>1. /\ N + 1 \in Nat \ {0} /\ ~(N + 1 <= Len(received))
        /\ N + 2 \in Nat \ {0} /\ ~(N + 2 <= Len(received))
    BY <1>1
  <2> HIDE DEF N, H, C
  <2> QED BY <1>1, <1>3, <2>1, SlotHeaderType
<1>6. ArePrinted(q, N) /\ q \in Seq(Headers) /\ Len(q) \in Nat
  <2>1. ArePrinted(q, N)
    BY <1>1, <1>2, PrintedAre
  <2>2. q \in Seq(Headers)
    BY <2>1 DEF ArePrinted
  <2> HIDE DEF q
  <2> QED BY <2>1, <2>2
<1>7. sent' = Append(Append(q, H), C)
  <2>1. sent' = Printed[N + 2]
    BY <1>2 DEF PrintHeaders
  <2>2. N + 1 \in 1..Len(headers) /\ N + 2 \in 1..Len(headers)
        /\ N + 1 - 1 = N /\ N + 2 - 1 = N + 1
    BY <1>1, <1>2
  <2>3. /\ Printed[N + 1] = IF headers[N + 1] = Removed THEN Printed[N]
                            ELSE Append(Printed[N], headers[N + 1])
        /\ Printed[N + 2] = IF headers[N + 2] = Removed THEN Printed[N + 1]
                            ELSE Append(Printed[N + 1], headers[N + 2])
    <3>1. /\ N + 1 \in Nat /\ N + 1 + 1 = N + 2
      BY <1>1
    <3> HIDE DEF N, q, H, C
    <3> QED BY <1>1, <2>2, <3>1, NextIsPrinted
  <2>4. Printed[N] = q
    OBVIOUS
  <2> HIDE DEF N, q, H, C
  <2>5. Printed[N + 1] = Append(q, H)
    BY <1>4, <1>5, <2>3, <2>4
  <2> QED BY <1>4, <1>5, <2>1, <2>3, <2>5
<1> HIDE DEF N, q, H, C
<1>8. /\ Len(sent') = Len(q) + 2
      /\ sent'[Len(q) + 1] = H /\ sent'[Len(q) + 2] = C
      /\ \A i \in 1..Len(q) : sent'[i] = q[i]
  <2>1. /\ Append(q, H) \in Seq(Headers) /\ Len(Append(q, H)) = Len(q) + 1
        /\ Append(q, H)[Len(q) + 1] = H
        /\ \A i \in 1..Len(q) : Append(q, H)[i] = q[i]
    BY <1>5, <1>6
  <2> DEFINE r == Append(q, H)
  <2> HIDE DEF r
  <2>2. /\ r \in Seq(Headers) /\ Len(r) = Len(q) + 1
        /\ r[Len(q) + 1] = H
        /\ \A i \in 1..Len(q) : r[i] = q[i]
    BY <2>1 DEF r
  <2>3. sent' = Append(r, C)
    BY <1>7 DEF r
  <2>4. /\ Len(sent') = Len(r) + 1 /\ sent'[Len(r) + 1] = C
        /\ \A i \in 1..Len(r) : sent'[i] = r[i]
    BY <1>5, <2>2, <2>3
  <2>5. Len(q) + 1 \in 1..Len(r) /\ \A i \in 1..Len(q) : i \in 1..Len(r)
    BY <1>6, <2>2
  <2> QED BY <1>6, <2>2, <2>4, <2>5
<1>9. OwnKeys' = own
  <2>1. Len(sent') - 2 = Len(q)
    BY <1>6, <1>8
  <2>2. OwnKeys' = [i \in 1..Len(q) |-> sent'[i].key]
    BY <2>1 DEF OwnKeys
  <2> QED BY <1>8, <2>2
<1>10. ASSUME NEW m \in 1..N, IsLive(m)
       PROVE  /\ headers[m] = [key |-> KeyAt(m), value |-> ValueAt(ColonAt(m))]
              /\ headers[m].key = KeyAt(m) /\ headers[m].value = ValueAt(ColonAt(m))
              /\ \A name \in Rewritten : KeyAt(m) # <<name>>
              /\ LastLine(KeyAt(m)) = m
  <2>1. /\ headers[m] = [key |-> KeyAt(m), value |-> ValueAt(ColonAt(m))]
        /\ \A name \in Rewritten : KeyAt(m) # <<name>>
        /\ LastLine(KeyAt(m)) = m
    BY <1>1, <1>2, <1>10, LiveLines DEF N
  <2> QED BY <2>1
<1>11. \A k \in 1..Len(q) :
         \E m \in 1..N : /\ IsLive(m) /\ q[k] = headers[m]
                         /\ own[k] = KeyAt(m) /\ LastLine(own[k]) = m
  <2>1. \A k \in 1..Len(q) : \E m \in 1..N : IsLive(m) /\ q[k] = headers[m]
    BY <1>6 DEF ArePrinted
  <2>2. \A k \in 1..Len(q) : own[k] = q[k].key
    OBVIOUS
  <2> HIDE DEF own
  <2> SUFFICES ASSUME NEW k \in 1..Len(q)
               PROVE  \E m \in 1..N : /\ IsLive(m) /\ q[k] = headers[m]
                                      /\ own[k] = KeyAt(m) /\ LastLine(own[k]) = m
    OBVIOUS
  <2>3. PICK m \in 1..N : IsLive(m) /\ q[k] = headers[m]
    BY <2>1
  <2>4. headers[m].key = KeyAt(m) /\ LastLine(KeyAt(m)) = m
    BY <1>10, <2>3
  <2> QED BY <2>2, <2>3, <2>4
<1>12. /\ DOMAIN OwnKeys' = 1..Len(q) /\ DOMAIN received' = 1..N /\ Len(received') = N
       /\ \A key : LastLine(key)' = LastLine(key)
       /\ \A n : /\ KeyAt(n)' = KeyAt(n) /\ ColonAt(n)' = ColonAt(n)
                 /\ RunsOn(n)' = RunsOn(n)
  BY <1>1, <1>9, LastLineStays DEF own, N
<1>13. HasRewritten'
  <2>1. ASSUME NEW name \in Rewritten, NEW k \in 1..Len(q)
        PROVE  /\ own[k] # <<name>>
               /\ name \in NamesIn(q[k]) =>
                    \E n \in 1..(N - 1) : RunsOn(n) /\ received[n + 1].key = name
    <3>1. PICK m \in 1..N : IsLive(m) /\ q[k] = headers[m] /\ own[k] = KeyAt(m)
      BY <1>11
    <3>2. /\ q[k] = [key |-> KeyAt(m), value |-> ValueAt(ColonAt(m))]
          /\ KeyAt(m) # <<name>>
      BY <1>10, <3>1
    <3>3. name \in Keys
      BY HeaderAssumption DEF HeaderAssumption, Rewritten
    <3>4. Colons(m) # {} /\ m \in 1..Len(received)
      BY <1>2 DEF N
    <3> HIDE DEF own
    <3> QED BY <1>1, <3>1, <3>2, <3>3, <3>4, NamesRunOn DEF N
  <2>2. Len(sent') >= 2 /\ Len(sent') - 1 = Len(q) + 1
    BY <1>6, <1>8
  <2>3. \A k \in 1..Len(q) : NamesIn(sent'[k]) = NamesIn(q[k])
    BY <1>8
  <2> HIDE DEF own
  <2> QED
    BY <1>1, <1>8, <1>9, <1>12, <2>1, <2>2, <2>3
    DEF HasRewritten, H, C, NamesIn
<1>14. HasTheOthers'
  <2>1. Range(own) = {KeyAt(m) : m \in 1..N} \ {<<name>> : name \in Rewritten}
    <3>1. Range(own) = {own[k] : k \in 1..Len(q)}
      BY DEF Range, own
    <3> HIDE DEF own
    <3>2. ASSUME NEW k \in 1..Len(q)
          PROVE  /\ own[k] \in {KeyAt(m) : m \in 1..N}
                 /\ own[k] \notin {<<name>> : name \in Rewritten}
      BY <1>10, <1>11
    <3>3. ASSUME NEW m \in 1..N, \A name \in Rewritten : KeyAt(m) # <<name>>
          PROVE  \E k \in 1..Len(q) : own[k] = KeyAt(m)
      <4>1. PICK l \in 1..N :
              /\ KeyAt(l) = KeyAt(m)
              /\ \A k \in (l + 1)..N : KeyAt(k) # KeyAt(l)
        BY <1>1, LastLineExists DEF N
      <4>2. headers[l] = SlotHeader(l)
        BY <1>1, <1>2, <3>3, <4>1, LastLinesAreLive DEF N
      <4>3. SlotHeader(l) # Removed
        <5>1. l \in Nat \ {0} /\ Colons(l) # {}
          BY <1>1, <1>2
        <5> QED BY <1>1, <5>1, SlotHeaderType
      <4>4. IsLive(l)
        BY <4>2, <4>3 DEF IsLive
      <4>5. PICK k \in 1..Len(q) : q[k] = headers[l]
        BY <1>6, <4>4 DEF ArePrinted
      <4>6. own[k] = headers[l].key
        BY <4>5 DEF own
      <4> QED BY <1>10, <4>1, <4>4, <4>6
    <3> QED BY <3>1, <3>2, <3>3
  <2>2. ASSUME NEW k \in 1..Len(q), NEW l \in 1..Len(q), k < l
        PROVE  LastLine(own[k]) < LastLine(own[l])
    <3>1. PICK i \in 1..N, j \in 1..N :
            i < j /\ IsLive(i) /\ IsLive(j) /\ q[k] = headers[i] /\ q[l] = headers[j]
      BY <1>6, <2>2 DEF ArePrinted
    <3>2. own[k] = KeyAt(i) /\ own[l] = KeyAt(j)
      BY <1>10, <3>1 DEF own
    <3> QED BY <1>10, <3>1, <3>2
  <2>3. ASSUME NEW k \in 1..Len(q), received[ColonAt(LastLine(own[k]))].text # <<>>
        PROVE  q[k].value = Tail(received[ColonAt(LastLine(own[k]))].text)
    <3>1. PICK m \in 1..N : IsLive(m) /\ q[k] = headers[m] /\ LastLine(own[k]) = m
      BY <1>11
    <3>2. q[k].value = ValueAt(ColonAt(m)) /\ Colons(m) # {}
      BY <1>2, <1>10, <3>1
    <3> HIDE DEF own
    <3> QED BY <1>1, <2>3, <3>1, <3>2, ValueBehindColon DEF N
  <2> HIDE DEF own
  <2>4. /\ {KeyAt(m) : m \in 1..N} = {KeyAt(m)' : m \in DOMAIN received'}
        /\ \A k \in 1..Len(q) : sent'[k].value = q[k].value
    BY <1>8, <1>12
  <2> QED BY <1>1, <1>9, <1>12, <2>1, <2>2, <2>3, <2>4 DEF HasTheOthers
<1> QED BY <1>13, <1>14

\* Every step keeps what the slots are for, and what was sent is right.
LEMMA SendsStep ==
  Inv /\ Slotted /\ SendsRewrittenHeaders /\ [Next]_vars => SendsRewrittenHeaders'
<1> SUFFICES ASSUME Inv, Slotted, SendsRewrittenHeaders, [Next]_vars
             PROVE  SendsRewrittenHeaders'
  OBVIOUS
<1>1. CASE PrintHeaders
  BY <1>1, PrintsRewritten DEF SendsRewrittenHeaders
<1>2. CASE UNCHANGED vars
  <2>1. received' = received /\ sent' = sent /\ phase' = phase
    BY <1>2 DEF vars
  <2>2. /\ OwnKeys' = OwnKeys
        /\ \A key : LastLine(key)' = LastLine(key)
        /\ \A n : /\ KeyAt(n)' = KeyAt(n) /\ ColonAt(n)' = ColonAt(n)
                  /\ RunsOn(n)' = RunsOn(n)
    BY <2>1, LastLineStays DEF OwnKeys
  <2>3. HasRewritten' = HasRewritten
    BY <2>1, <2>2 DEF HasRewritten, NamesIn
  <2>4. HasTheOthers' = HasTheOthers
    BY <2>1, <2>2 DEF HasTheOthers
  <2> QED BY <2>1, <2>2, <2>3, <2>4 DEF SendsRewrittenHeaders
<1>3. CASE \/ ParseHeader \/ ParseFails \/ ParseEnds
           \/ SetHost \/ SetConnection \/ Destroy
  <2>1. phase' # "sent"
    BY <1>3 DEF ParseHeader, ParseFails, ParseEnds, SetHost, SetConnection, Destroy
  <2> QED BY <2>1 DEF SendsRewrittenHeaders
<1> QED BY <1>1, <1>2, <1>3 DEF Next

\* SendsRewrittenHeaders: of any request that parses the origin gets the proxy's Host
\* and Connection last, each other key once, in the order of the last lines and with
\* the last value, and a Host or Connection line of the client only inside the header
\* of a line that has no colon or nothing behind it (ProxyUtils.cpp:52-63 over
\* proxy_parse.c:41-103, 180-193, 227-254).
THEOREM SendsRewrittenHeadersHolds == Spec => []SendsRewrittenHeaders
<1>1. Init => SendsRewrittenHeaders
  BY DEF Init, SendsRewrittenHeaders
<1> QED
  BY <1>1, InitInv, SlottedInit, NextInv, SlottedStep, SendsStep, PTL DEF Spec

\* A new request has its types.
LEMMA TypesInit == Init => TypeOK
<1> SUFFICES ASSUME Init PROVE TypeOK
  OBVIOUS
<1>1. Inv
  BY InitInv
<1>2. received \in Seq(Lines) /\ Len(received) \in Nat
  BY <1>1 DEF Inv, TableTypeOK
<1> QED
  BY <1>1, <1>2 DEF Init, Inv, TableTypeOK, TypeOK, Slots

\* Every step of the table keeps the types.
LEMMA TypesStep == Inv /\ TypeOK /\ [Next]_vars => TypeOK'
<1> SUFFICES ASSUME Inv, TypeOK, [Next]_vars PROVE TypeOK'
  OBVIOUS
<1>1. Inv'
  BY NextInv
<1>2. received' \in Seq(Lines) /\ headers' \in Seq(Slots) /\ headerslen' \in Nat
  BY <1>1 DEF Inv, TableTypeOK
<1>3. Len(received) \in Nat /\ received' = received
  BY DEF TypeOK, Next, vars, ParseHeader, ParseFails, ParseEnds, SetHost, SetConnection,
         PrintHeaders, Destroy
<1>4. next' \in 1..(Len(received) + 1)
  <2>1. CASE ParseHeader
    <3>1. next \in 1..(Len(received) + 1) /\ next' = next + 1 /\ Colons(next) # {}
      BY <2>1 DEF ParseHeader, TypeOK
    <3>2. next <= Len(received)
      BY <1>3, <3>1 DEF Colons
    <3> QED BY <1>3, <3>1, <3>2
  <2>2. CASE next' = next
    BY <2>2 DEF TypeOK
  <2> QED
    BY <2>1, <2>2 DEF Next, vars, ParseFails, ParseEnds, SetHost, SetConnection,
                      PrintHeaders, Destroy
<1>5. phase' \in {"parse", "failed", "host", "connection", "print", "sent", "destroyed"}
  BY DEF TypeOK, Next, vars, ParseHeader, ParseFails, ParseEnds, SetHost, SetConnection,
         PrintHeaders, Destroy
<1>6. sent' \in Seq(Headers)
  <2>1. CASE PrintHeaders
    <3>1. headers \in Seq(Slots) /\ Len(headers) \in 0..Len(headers)
      BY DEF Inv, TableTypeOK
    <3>2. ArePrinted(Printed[Len(headers)], Len(headers))
      BY <3>1, PrintedAre
    <3> QED BY <2>1, <3>2 DEF PrintHeaders, ArePrinted
  <2>2. CASE sent' = sent
    BY <2>2 DEF TypeOK
  <2> QED
    BY <2>1, <2>2 DEF Next, vars, ParseHeader, ParseFails, ParseEnds, SetHost,
                      SetConnection, Destroy
<1> QED
  BY <1>2, <1>3, <1>4, <1>5, <1>6 DEF TypeOK, Slots

-----------------------------------------------------------------------------
(* The request line.                                                       *)

Chars == Line!Chars

\* What FirstIn looks for.
IsFirstIn(p, s, i, set) ==
  /\ p \in i..(Len(s) + 1)
  /\ p = Len(s) + 1 \/ s[p] \in set
  /\ \A q \in i..(p - 1) : s[q] \notin set

\* There is one first character of a set, or none up to the end.
LEMMA FirstInIs ==
  ASSUME NEW s \in Seq(Chars), NEW i \in 1..(Len(s) + 1), NEW set
  PROVE  /\ IsFirstIn(Line!FirstIn(s, i, set), s, i, set)
         /\ \A p : IsFirstIn(p, s, i, set) => Line!FirstIn(s, i, set) = p
<1>1. Len(s) \in Nat /\ i \in Nat
  OBVIOUS
<1>2. \E p : IsFirstIn(p, s, i, set)
  <2> DEFINE Found == {p \in i..(Len(s) + 1) : p = Len(s) + 1 \/ s[p] \in set}
  <2>1. Found \subseteq Nat /\ Len(s) + 1 \in Found
    BY <1>1
  <2>2. PICK p \in Found : \A q \in Found : <<q, p>> \notin OpToRel(<, Nat)
    <3> HIDE DEF Found
    <3> QED BY <2>1, NatLessThanWellFounded, WFMin
  <2>3. ASSUME NEW q \in i..(p - 1) PROVE s[q] \notin set
    <3>1. q \in i..(Len(s) + 1) /\ q \in Nat /\ p \in Nat /\ q < p
      BY <1>1
    <3>2. <<q, p>> \in OpToRel(<, Nat)
      BY <3>1 DEF OpToRel
    <3>3. q \notin Found
      BY <2>2, <3>2
    <3> QED BY <3>1, <3>3
  <2> QED BY <2>3 DEF IsFirstIn
<1>3. \A p, q : IsFirstIn(p, s, i, set) /\ IsFirstIn(q, s, i, set) => p = q
  <2> SUFFICES ASSUME NEW p, NEW q, IsFirstIn(p, s, i, set),
                      IsFirstIn(q, s, i, set), p # q
               PROVE  FALSE
    OBVIOUS
  <2>1. p \in Nat /\ q \in Nat
    BY <1>1 DEF IsFirstIn
  <2>2. CASE p < q
    <3>1. p \in i..(q - 1) /\ p # Len(s) + 1
      BY <1>1, <2>1, <2>2 DEF IsFirstIn
    <3> QED BY <3>1 DEF IsFirstIn
  <2>3. CASE q < p
    <3>1. q \in i..(p - 1) /\ q # Len(s) + 1
      BY <1>1, <2>1, <2>3 DEF IsFirstIn
    <3> QED BY <3>1 DEF IsFirstIn
  <2> QED BY <2>1, <2>2, <2>3
<1>4. Line!FirstIn(s, i, set) = CHOOSE p : IsFirstIn(p, s, i, set)
  BY DEF Line!FirstIn, IsFirstIn
<1> QED BY <1>2, <1>3, <1>4

\* The text stands in u behind position at.
Stands(text, u, at) ==
  \A k \in 1..Len(text) : at + k <= Len(u) /\ u[at + k] = text[k]

\* From position i on, a text stands behind delimiters and, up to position e, in
\* front of one or at the end.
IsTokenAt(text, u, i, d, at, e) ==
  /\ text # <<>>
  /\ i \in 1..(at + 1)
  /\ at \in Nat /\ e = at + Len(text)
  /\ \A k \in i..at : u[k] \in d
  /\ Stands(text, u, at)
  /\ \A k \in 1..Len(text) : text[k] \notin d
  /\ e = Len(u) \/ (e < Len(u) /\ u[e + 1] \in d)

\* strtok_r finds such a text.
LEMMA TokenIs ==
  ASSUME NEW u \in Seq(Chars), NEW text \in Seq(Chars),
         NEW i, NEW d, NEW at, NEW e, IsTokenAt(text, u, i, d, at, e)
  PROVE  /\ Line!NextToken(u, i, d).text = text
         /\ Line!NextToken(u, i, d).end = e + 1
         /\ Line!NextToken(u, i, d).next = IF e = Len(u) THEN e + 1 ELSE e + 2
<1>0. /\ text # <<>> /\ i \in 1..(at + 1) /\ at \in Nat /\ e = at + Len(text)
      /\ \A k \in i..at : u[k] \in d
      /\ Stands(text, u, at)
      /\ \A k \in 1..Len(text) : text[k] \notin d
      /\ e = Len(u) \/ (e < Len(u) /\ u[e + 1] \in d)
  BY DEF IsTokenAt
<1>1. /\ Len(u) \in Nat /\ Len(text) \in Nat /\ Len(text) # 0
      /\ i \in 1..(Len(u) + 1) /\ at + Len(text) <= Len(u)
  BY <1>0
<1> DEFINE b == at + Len(text) + 1
<1>2. Line!FirstIn(u, i, Chars \ d) = at + 1
  <2>1. at + 1 \in i..(Len(u) + 1)
    BY <1>0, <1>1
  <2>2. u[at + 1] \in Chars \ d
    <3>1. 1 \in 1..Len(text)
      BY <1>0, <1>1
    <3>2. u[at + 1] = text[1] /\ text[1] \in Chars /\ text[1] \notin d
      BY <1>0, <3>1 DEF Stands
    <3> QED BY <3>2
  <2> DEFINE p == at + 1
             Other == Chars \ d
  <2>3. \A q : u[q] \in d => u[q] \notin Other
    OBVIOUS
  <2>4. p - 1 = at /\ p \in i..(Len(u) + 1) /\ u[p] \in Other
    BY <1>0, <2>1, <2>2
  <2> HIDE DEF p, Other
  <2>5. \A q \in i..(p - 1) : u[q] \notin Other
    BY <1>0, <2>3, <2>4
  <2>6. IsFirstIn(p, u, i, Other)
    BY ONLY <2>4, <2>5 DEF IsFirstIn
  <2> QED BY <1>1, <2>6, FirstInIs DEF p, Other
<1>3. Line!FirstIn(u, at + 1, d) = b
  <2>1. b \in (at + 1)..(Len(u) + 1) /\ at + 1 \in 1..(Len(u) + 1)
    BY <1>0, <1>1
  <2>2. b = Len(u) + 1 \/ u[b] \in d
    BY <1>0, <1>1
  <2>3. \A q \in (at + 1)..(b - 1) : u[q] \notin d
    <3> SUFFICES ASSUME NEW q \in (at + 1)..(b - 1) PROVE u[q] \notin d
      OBVIOUS
    <3>1. q - at \in 1..Len(text) /\ at + (q - at) = q
      BY <1>0, <1>1
    <3>2. u[q] = text[q - at]
      BY <1>0, <3>1 DEF Stands
    <3> QED BY <1>0, <3>1, <3>2
  <2> QED BY <2>1, <2>2, <2>3, FirstInIs DEF IsFirstIn
<1>4. SubSeq(u, at + 1, b - 1) = text
  <2> DEFINE cut == SubSeq(u, at + 1, b - 1)
  <2>1. /\ at + 1 \in Nat /\ b - 1 \in Nat /\ at + 1 >= 1 /\ b - 1 <= Len(u)
        /\ b - 1 - (at + 1) + 1 = Len(text) /\ b - 1 >= at
    BY <1>0, <1>1
  <2>2. /\ cut \in Seq(Chars) /\ Len(cut) = Len(text)
        /\ \A k \in 1..Len(text) : cut[k] = u[at + k]
    BY <1>0, <1>1, <2>1
  <2> HIDE DEF cut
  <2>3. \A k \in 1..Len(text) : cut[k] = text[k]
    BY <1>0, <2>2 DEF Stands
  <2> QED BY <2>2, <2>3, SeqEqual DEF cut
<1>5. /\ Line!NextToken(u, i, d).text = SubSeq(u, at + 1, b - 1)
      /\ Line!NextToken(u, i, d).end = b
      /\ Line!NextToken(u, i, d).next = IF b > Len(u) THEN b ELSE b + 1
  <2> HIDE DEF b
  <2> QED BY <1>2, <1>3 DEF Line!NextToken, Chars
<1> QED BY <1>0, <1>1, <1>4, <1>5

\* Behind the end strtok_r finds nothing.
LEMMA NoToken ==
  ASSUME NEW u \in Seq(Chars), NEW d
  PROVE  Line!NextToken(u, Len(u) + 1, d).text = <<>>
<1>1. Len(u) \in Nat /\ Len(u) + 1 \in 1..(Len(u) + 1)
  OBVIOUS
<1>2. \A set : Line!FirstIn(u, Len(u) + 1, set) = Len(u) + 1
  <2>1. \A set : IsFirstIn(Len(u) + 1, u, Len(u) + 1, set)
    BY <1>1 DEF IsFirstIn
  <2> QED BY <1>1, <2>1, FirstInIs
<1>3. SubSeq(u, Len(u) + 1, Len(u) + 1 - 1) = <<>>
  BY <1>1
<1> QED BY <1>2, <1>3 DEF Line!NextToken, Chars

\* What strtok_r returns, whatever it finds.
LEMMA AnyToken ==
  ASSUME NEW u \in Seq(Chars), NEW i \in 1..(Len(u) + 1), NEW d
  PROVE  LET token == Line!NextToken(u, i, d) IN
         /\ token.text \in Seq(Chars)
         /\ \A k \in 1..Len(token.text) : token.text[k] \notin d
         /\ \A k \in 1..Len(token.text) : \E q \in 1..Len(u) : token.text[k] = u[q]
         /\ token.next \in 1..(Len(u) + 1)
<1> DEFINE first == Line!FirstIn(u, i, Chars \ d)
           end   == Line!FirstIn(u, first, d)
           text  == SubSeq(u, first, end - 1)
<1>1. Len(u) \in Nat /\ i \in Nat
  OBVIOUS
<1>2. first \in i..(Len(u) + 1)
  BY FirstInIs DEF IsFirstIn
<1>3. first \in 1..(Len(u) + 1)
  BY <1>1, <1>2
<1>4. IsFirstIn(end, u, first, d)
  <2> HIDE DEF first
  <2> QED BY <1>3, FirstInIs
<1> HIDE DEF first, end
<1>5. /\ end \in first..(Len(u) + 1) /\ end \in Nat /\ first \in Nat
      /\ \A q \in first..(end - 1) : u[q] \notin d
  BY <1>3, <1>4 DEF IsFirstIn
<1>6. /\ text \in Seq(Chars) /\ Len(text) = end - first
      /\ \A k \in 1..Len(text) : text[k] = u[first + k - 1]
  BY <1>1, <1>3, <1>5
<1>7. \A k \in 1..Len(text) : first + k - 1 \in first..(end - 1)
                              /\ first + k - 1 \in 1..Len(u)
  BY <1>1, <1>3, <1>5, <1>6
<1>8. /\ \A k \in 1..Len(text) : text[k] \notin d
      /\ \A k \in 1..Len(text) : \E q \in 1..Len(u) : text[k] = u[q]
  <2> HIDE DEF text
  <2> QED BY <1>5, <1>6, <1>7
<1>9. /\ Line!NextToken(u, i, d).text = text
      /\ Line!NextToken(u, i, d).next = IF end > Len(u) THEN end ELSE end + 1
  BY DEF Line!NextToken, Chars, first, end
<1>10. Line!NextToken(u, i, d).next \in 1..(Len(u) + 1)
  BY <1>1, <1>3, <1>5, <1>9
<1> HIDE DEF text
<1> QED BY <1>6, <1>8, <1>9, <1>10

Colon == <<":">>
Separator == <<":", "/", "/">>

\* host [":" port]
Authority(host, port) == host \o (IF port = <<>> THEN <<>> ELSE Colon \o port)

PortLength(port) == IF port = <<>> THEN 0 ELSE Len(port) + 1
WholePath(path) == IF path = <<>> THEN <<"/">> ELSE path

\* [slash] protocol "://" host [":" port]
Address(slash, protocol, host, port) ==
  slash \o protocol \o Separator \o Authority(host, port)

\* Both sequences stand where they do.
LEMMA Joined ==
  ASSUME NEW s \in Seq(Chars), NEW t \in Seq(Chars)
  PROVE  /\ s \o t \in Seq(Chars)
         /\ Len(s \o t) = Len(s) + Len(t)
         /\ \A k \in 1..Len(s) : (s \o t)[k] = s[k]
         /\ Stands(s, s \o t, 0) /\ Stands(t, s \o t, Len(s))
<1> DEFINE u == s \o t
<1>1. /\ Len(s) \in Nat /\ Len(t) \in Nat /\ u \in Seq(Chars)
      /\ Len(u) = Len(s) + Len(t)
      /\ \A k \in 1..Len(s) : u[k] = s[k]
      /\ \A k \in 1..Len(t) : u[Len(s) + k] = t[k]
  OBVIOUS
<1> HIDE DEF u
<1>2. Stands(s, u, 0) /\ Stands(t, u, Len(s))
  BY <1>1 DEF Stands
<1> QED BY <1>1, <1>2 DEF u

\* What stands in the first of two sequences stands in both joined.
LEMMA StandsBefore ==
  ASSUME NEW s \in Seq(Chars), NEW t \in Seq(Chars), NEW w \in Seq(Chars),
         NEW at \in Nat, Stands(w, s, at)
  PROVE  Stands(w, s \o t, at)
<1>1. /\ Len(s) \in Nat /\ Len(t) \in Nat /\ Len(s \o t) = Len(s) + Len(t)
      /\ \A k \in 1..Len(s) : (s \o t)[k] = s[k]
  BY Joined
<1>2. \A k \in 1..Len(w) : at + k <= Len(s) /\ s[at + k] = w[k] /\ at + k \in 1..Len(s)
  BY <1>1 DEF Stands
<1> DEFINE u == s \o t
<1> HIDE DEF u
<1>3. \A k \in 1..Len(w) : at + k <= Len(u) /\ u[at + k] = w[k]
  BY <1>1, <1>2 DEF u
<1> QED BY <1>3 DEF Stands, u

\* Where host and port stand in the authority.
LEMMA AuthorityAt ==
  ASSUME NEW host \in Seq(Chars), NEW port \in Seq(Chars)
  PROVE  LET text == Authority(host, port) IN
         /\ text \in Seq(Chars)
         /\ Stands(host, text, 0)
         /\ port = <<>> => Len(text) = Len(host)
         /\ port # <<>> => /\ Len(text) = Len(host) + 1 + Len(port)
                           /\ Len(port) # 0
                          /\ text[Len(host) + 1] = ":"
                          /\ Stands(port, text, Len(host) + 1)
<1>1. Len(host) \in Nat /\ Len(port) \in Nat
  OBVIOUS
<1>2. CASE port = <<>>
  <2>1. <<>> \in Seq(Chars) /\ Len(<<>>) = 0
    OBVIOUS
  <2>2. Authority(host, port) = host \o <<>>
    BY <1>2 DEF Authority
  <2>3. /\ host \o <<>> \in Seq(Chars) /\ Len(host \o <<>>) = Len(host) + 0
        /\ Stands(host, host \o <<>>, 0)
    BY <2>1, Joined
  <2> QED BY <1>1, <1>2, <2>2, <2>3
<1>3. CASE port # <<>>
  <2> DEFINE rest == Colon \o port
  <2>1. Colon \in Seq(Chars) /\ Len(Colon) = 1 /\ Colon[1] = ":"
    BY DEF Colon, Chars, Line!Chars
  <2>2. /\ rest \in Seq(Chars) /\ Len(rest) = 1 + Len(port)
        /\ rest[1] = ":" /\ Stands(port, rest, 1)
    <3>1. 1 \in 1..Len(Colon)
      BY <2>1
    <3> HIDE DEF Colon
    <3> QED BY <2>1, <3>1, Joined
  <2>3. Authority(host, port) = host \o rest
    BY <1>3 DEF Authority
  <2> HIDE DEF rest
  <2> DEFINE text == host \o rest
  <2>4. /\ text \in Seq(Chars) /\ Len(text) = Len(host) + Len(rest)
        /\ Stands(host, text, 0) /\ Stands(rest, text, Len(host))
    BY <2>2, Joined
  <2> HIDE DEF text
  <2>5. text[Len(host) + 1] = ":"
    <3>1. 1 \in 1..Len(rest)
      BY <1>1, <2>2
    <3> QED BY <2>2, <2>4, <3>1 DEF Stands
  <2>6. Stands(port, text, Len(host) + 1)
    <3> SUFFICES ASSUME NEW k \in 1..Len(port)
                 PROVE  /\ Len(host) + 1 + k <= Len(text)
                        /\ text[Len(host) + 1 + k] = port[k]
      BY DEF Stands
    <3>1. 1 + k \in 1..Len(rest) /\ rest[1 + k] = port[k]
      BY <1>1, <2>2 DEF Stands
    <3>2. Len(host) + (1 + k) <= Len(text) /\ text[Len(host) + (1 + k)] = rest[1 + k]
      BY <2>4, <3>1 DEF Stands
    <3>3. Len(host) + (1 + k) = Len(host) + 1 + k
      BY <1>1
    <3> QED BY <3>1, <3>2, <3>3
  <2>7. Len(port) # 0 /\ Len(text) = Len(host) + 1 + Len(port)
    BY <1>1, <1>3, <2>2, <2>4
  <2> QED BY <1>3, <2>3, <2>4, <2>5, <2>6, <2>7 DEF text
<1> QED BY <1>2, <1>3

\* Where the parts of an address stand in a URL.
LEMMA AddressAt ==
  ASSUME NEW slash \in Seq(Chars), NEW protocol \in Seq(Chars),
         NEW host \in Seq(Chars), NEW port \in Seq(Chars), NEW path \in Seq(Chars)
  PROVE  LET a    == Authority(host, port)
             url  == Address(slash, protocol, host, port) \o path
             from == Len(slash) + Len(protocol)
         IN /\ url \in Seq(Chars)
            /\ Len(url) = from + 3 + Len(a) + Len(path)
            /\ Stands(slash, url, 0)
            /\ Stands(protocol, url, Len(slash))
            /\ Stands(Separator, url, from)
            /\ Stands(a, url, from + 3)
            /\ Stands(path, url, from + 3 + Len(a))
<1> DEFINE a == Authority(host, port)
           u1 == slash \o protocol
           u2 == u1 \o Separator
           u3 == u2 \o a
           u4 == u3 \o path
<1>0. a \in Seq(Chars) /\ Separator \in Seq(Chars) /\ Len(Separator) = 3
  <2>1. Separator \in Seq(Chars) /\ Len(Separator) = 3
    BY DEF Separator, Chars, Line!Chars
  <2> QED BY <2>1, AuthorityAt
<1>1. /\ u1 \in Seq(Chars) /\ Len(u1) = Len(slash) + Len(protocol)
      /\ Stands(slash, u1, 0) /\ Stands(protocol, u1, Len(slash))
  BY Joined
<1>2. Address(slash, protocol, host, port) \o path = u4
  BY DEF Address
<1>3. /\ Len(slash) \in Nat /\ Len(protocol) \in Nat /\ Len(path) \in Nat
      /\ Len(a) \in Nat
  BY <1>0
<1> HIDE DEF a, u1, u2, u3, u4
<1>4. /\ u2 \in Seq(Chars) /\ Len(u2) = Len(u1) + 3
      /\ Stands(slash, u2, 0) /\ Stands(protocol, u2, Len(slash))
      /\ Stands(Separator, u2, Len(u1))
  <2>1. /\ u2 \in Seq(Chars) /\ Len(u2) = Len(u1) + Len(Separator)
        /\ Stands(Separator, u2, Len(u1))
    BY <1>0, <1>1, Joined DEF u2
  <2>2. Stands(slash, u2, 0) /\ Stands(protocol, u2, Len(slash))
    BY <1>0, <1>1, <1>3, StandsBefore DEF u2
  <2> QED BY <1>0, <2>1, <2>2
<1>5. /\ u3 \in Seq(Chars) /\ Len(u3) = Len(u2) + Len(a)
      /\ Stands(slash, u3, 0) /\ Stands(protocol, u3, Len(slash))
      /\ Stands(Separator, u3, Len(u1)) /\ Stands(a, u3, Len(u2))
  <2>1. Len(u1) \in Nat
    BY <1>1
  <2> QED BY <1>0, <1>3, <1>4, <2>1, Joined, StandsBefore DEF u3
<1>6. /\ u4 \in Seq(Chars) /\ Len(u4) = Len(u3) + Len(path)
      /\ Stands(slash, u4, 0) /\ Stands(protocol, u4, Len(slash))
      /\ Stands(Separator, u4, Len(u1)) /\ Stands(a, u4, Len(u2))
      /\ Stands(path, u4, Len(u3))
  <2>1. Len(u1) \in Nat /\ Len(u2) \in Nat
    BY <1>1, <1>4
  <2> QED BY <1>0, <1>3, <1>5, <2>1, Joined, StandsBefore DEF u4
<1> QED BY <1>1, <1>2, <1>3, <1>4, <1>5, <1>6 DEF a

\* The parts that an accepted request has.
IsProtocol(text) == text # <<>> /\ \A k \in 1..Len(text) : text[k] \notin {":", "/"}
IsHost(text) == text # <<>> /\ \A k \in 1..Len(text) : text[k] \notin {":", "/"}
IsPort(text) == \A k \in 1..Len(text) : text[k] # "/"

\* A sequence from position m on.
LEMMA RestFrom ==
  ASSUME NEW s \in Seq(Chars), NEW m \in 1..(Len(s) + 1)
  PROVE  /\ SubSeq(s, m, Len(s)) \in Seq(Chars)
         /\ Len(SubSeq(s, m, Len(s))) = Len(s) - m + 1
         /\ \A k \in 1..(Len(s) - m + 1) : SubSeq(s, m, Len(s))[k] = s[m + k - 1]
<1>1. Len(s) \in Nat /\ m \in Nat
  OBVIOUS
<1> QED BY <1>1

\* A character and what follows it.
LEMMA FirstAndTail ==
  ASSUME NEW s \in Seq(Chars), s # <<>>, NEW c, s[1] = c
  PROVE  <<c>> \o Tail(s) = s
<1>1. Len(s) \in Nat /\ Len(s) # 0 /\ c \in Chars
  <2>1. Len(s) \in Nat /\ Len(s) # 0
    OBVIOUS
  <2>2. 1 \in 1..Len(s)
    BY <2>1
  <2> QED BY <2>1, <2>2
<1>2. /\ Tail(s) \in Seq(Chars) /\ Len(Tail(s)) = Len(s) - 1
      /\ \A k \in 1..(Len(s) - 1) : Tail(s)[k] = s[k + 1]
  BY <1>1
<1>3. <<c>> \in Seq(Chars) /\ Len(<<c>>) = 1
  BY <1>1
<1> DEFINE joined == <<c>> \o Tail(s)
<1>4. /\ joined \in Seq(Chars) /\ Len(joined) = Len(s) /\ joined[1] = c
      /\ \A k \in 2..Len(s) : joined[k] = Tail(s)[k - 1]
  BY <1>1, <1>2, <1>3
<1> HIDE DEF joined
<1>5. ASSUME NEW k \in 1..Len(s) PROVE joined[k] = s[k]
  <2>1. CASE k = 1
    BY <1>4, <2>1
  <2>2. CASE k # 1
    <3>1. k \in 2..Len(s) /\ k - 1 \in 1..(Len(s) - 1) /\ k - 1 + 1 = k
      BY <1>1, <2>2
    <3> QED BY <1>2, <1>4, <3>1
  <2> QED BY <2>1, <2>2
<1> QED BY <1>4, <1>5, SeqEqual DEF joined

\* The authority is taken apart into host and port.
LEMMA AuthorityParses ==
  ASSUME NEW host \in Seq(Chars), IsHost(host), NEW port \in Seq(Chars), IsPort(port)
  PROVE  LET text  == Authority(host, port)
             found == Line!NextToken(text, 1, {":"})
         IN /\ text # <<>>
            /\ \A k \in 1..Len(text) : text[k] \notin {"/"}
            /\ found.text = host
            /\ Line!NextToken(text, found.next, {"/"}).text = port
<1> DEFINE text  == Authority(host, port)
           found == Line!NextToken(text, 1, {":"})
<1>1. /\ text \in Seq(Chars) /\ Stands(host, text, 0)
      /\ port = <<>> => Len(text) = Len(host)
      /\ port # <<>> => /\ Len(text) = Len(host) + 1 + Len(port)
                        /\ Len(port) # 0
                       /\ text[Len(host) + 1] = ":"
                       /\ Stands(port, text, Len(host) + 1)
  BY AuthorityAt
<1>2. Len(host) \in Nat /\ Len(host) # 0 /\ Len(port) \in Nat
  BY DEF IsHost
<1> HIDE DEF text
<1>3. text # <<>> /\ Len(text) \in Nat
  BY <1>1, <1>2
<1>4. \A k \in 1..Len(text) : text[k] \notin {"/"}
  <2> SUFFICES ASSUME NEW k \in 1..Len(text) PROVE text[k] # "/"
    OBVIOUS
  <2>1. CASE k \in 1..Len(host)
    <3>1. text[0 + k] = host[k]
      BY <1>1, <2>1 DEF Stands
    <3> QED BY <2>1, <3>1 DEF IsHost
  <2>2. CASE k = Len(host) + 1
    BY <1>1, <1>2, <2>2
  <2>3. CASE k > Len(host) + 1
    <3>1. port # <<>>
      BY <1>1, <1>2, <1>3, <2>3
    <3>2. k - (Len(host) + 1) \in 1..Len(port) /\ Len(host) + 1 + (k - (Len(host) + 1)) = k
      BY <1>1, <1>2, <1>3, <2>3, <3>1
    <3>3. text[k] = port[k - (Len(host) + 1)]
      BY <1>1, <3>1, <3>2 DEF Stands
    <3> QED BY <3>2, <3>3 DEF IsPort
  <2> QED BY <1>2, <1>3, <2>1, <2>2, <2>3
<1>5. /\ found.text = host
      /\ found.next = IF Len(host) = Len(text) THEN Len(host) + 1 ELSE Len(host) + 2
  <2>1. \A k \in 1..Len(host) : host[k] \notin {":"}
    BY DEF IsHost
  <2>2. \/ Len(host) = Len(text)
        \/ Len(host) < Len(text) /\ text[Len(host) + 1] \in {":"}
    BY <1>1, <1>2
  <2>3. /\ 0 + Len(host) = Len(host) /\ \A k \in 1..0 : text[k] \in {":"}
        /\ host # <<>> /\ 1 \in 1..(0 + 1) /\ 0 \in Nat
    BY <1>2 DEF IsHost
  <2>4. IsTokenAt(host, text, 1, {":"}, 0, Len(host))
    BY <1>1, <2>1, <2>2, <2>3 DEF IsTokenAt
  <2> QED BY <1>1, <2>4, TokenIs
<1> HIDE DEF found
<1>6. Line!NextToken(text, found.next, {"/"}).text = port
  <2>1. CASE port = <<>>
    <3>1. found.next = Len(text) + 1
      BY <1>1, <1>5, <2>1
    <3> QED BY <1>1, <2>1, <3>1, NoToken
  <2>2. CASE port # <<>>
    <3>1. found.next = Len(host) + 2 /\ Len(host) + 1 \in Nat
      BY <1>1, <1>2, <1>5, <2>2
    <3>2. /\ found.next \in 1..(Len(host) + 1 + 1)
          /\ \A k \in found.next..(Len(host) + 1) : text[k] \in {"/"}
          /\ Len(host) + 1 + Len(port) = Len(text)
      BY <1>1, <1>2, <2>2, <3>1
    <3>3. Stands(port, text, Len(host) + 1) /\ \A k \in 1..Len(port) : port[k] \notin {"/"}
      BY <1>1, <2>2 DEF IsPort
    <3>4. IsTokenAt(port, text, found.next, {"/"}, Len(host) + 1, Len(text))
      BY <1>1, <2>2, <3>1, <3>2, <3>3 DEF IsTokenAt
    <3> QED BY <1>1, <3>4, TokenIs
  <2> QED BY <2>1, <2>2
<1> QED BY <1>3, <1>4, <1>5, <1>6 DEF text, found

AreParts(slash, protocol, host, port, path) ==
  /\ slash \in {<<>>, <<"/">>}
  /\ protocol \in Seq(Chars) /\ IsProtocol(protocol)
  /\ host \in Seq(Chars) /\ IsHost(host)
  /\ port \in Seq(Chars) /\ IsPort(port)
  /\ path \in Seq(Chars) /\ Line!IsPath(path, slash)

\* The address of these parts is taken apart into them.
ParsesTo(slash, protocol, host, port, path) ==
  Line!ParseAddress(Address(slash, protocol, host, port) \o path) =
    [status |-> "accepted", protocol |-> protocol, host |-> host, port |-> port,
     path |-> WholePath(path)]

\* An absolute URL, and one behind a slash, is taken apart into its parts, the tokens
\* overlapping as they do (proxy_parse.c:438-491).
LEMMA AddressParses ==
  ASSUME NEW slash, NEW protocol, NEW host, NEW port, NEW path,
         AreParts(slash, protocol, host, port, path)
  PROVE  ParsesTo(slash, protocol, host, port, path)
<1>0. /\ slash \in {<<>>, <<"/">>}
      /\ protocol \in Seq(Chars) /\ IsProtocol(protocol)
      /\ host \in Seq(Chars) /\ IsHost(host)
      /\ port \in Seq(Chars) /\ IsPort(port)
      /\ path \in Seq(Chars) /\ Line!IsPath(path, slash)
  BY DEF AreParts
<1> DEFINE a     == Authority(host, port)
           url   == Address(slash, protocol, host, port) \o path
           from  == Len(slash) + Len(protocol)
           upTo  == from + 3 + Len(a)
           first == Line!NextToken(url, 1, {":", "/"})
           next_ == Line!NextToken(url, first.next, {"/"})
           rest  == SubSeq(url, next_.next, Len(url))
<1>1. slash \in Seq(Chars) /\ a \in Seq(Chars)
  <2>1. <<>> \in Seq(Chars) /\ <<"/">> \in Seq(Chars)
    BY DEF Chars, Line!Chars
  <2> QED BY <1>0, <2>1, AuthorityAt
<1>2. /\ Len(slash) \in 0..1 /\ (Len(slash) = 0 <=> slash = <<>>)
      /\ \A k \in 1..Len(slash) : slash[k] = "/"
      /\ Len(protocol) \in Nat /\ Len(protocol) # 0
      /\ Len(path) \in Nat /\ (Len(path) = 0 <=> path = <<>>)
  BY <1>0 DEF IsProtocol
<1>3. /\ a # <<>> /\ \A k \in 1..Len(a) : a[k] \notin {"/"}
      /\ Line!NextToken(a, 1, {":"}).text = host
      /\ Line!NextToken(a, Line!NextToken(a, 1, {":"}).next, {"/"}).text = port
  BY <1>0, AuthorityParses
<1>4. Len(a) \in Nat /\ Len(a) # 0
  <2> HIDE DEF a
  <2> QED BY <1>1, <1>3
<1>5. /\ url \in Seq(Chars)
      /\ Len(url) = upTo + Len(path)
      /\ Stands(slash, url, 0)
      /\ Stands(protocol, url, Len(slash))
      /\ Stands(Separator, url, from)
      /\ Stands(a, url, from + 3)
      /\ Stands(path, url, upTo)
  BY <1>0, <1>1, AddressAt
<1> HIDE DEF a, url
<1>6. url[from + 1] = ":" /\ url[from + 2] = "/" /\ url[from + 3] = "/"
  <2>1. /\ 1 \in 1..Len(Separator) /\ Separator[1] = ":"
        /\ 2 \in 1..Len(Separator) /\ Separator[2] = "/"
        /\ 3 \in 1..Len(Separator) /\ Separator[3] = "/"
    BY DEF Separator
  <2> HIDE DEF from
  <2> QED BY <1>5, <2>1 DEF Stands
<1>7. from \in Nat /\ upTo \in Nat
  BY <1>2, <1>4
<1>8. /\ first.text = protocol /\ first.end = from + 1 /\ first.next = from + 2
  <2>1. \A k \in 1..Len(slash) : url[k] \in {":", "/"}
    <3>1. \A k \in 1..Len(slash) : url[0 + k] = slash[k] /\ 0 + k = k
      BY <1>2, <1>5 DEF Stands
    <3> QED BY <1>2, <3>1
  <2>2. from < Len(url) /\ url[from + 1] \in {":", "/"}
    BY <1>2, <1>4, <1>5, <1>6
  <2>3. Len(slash) \in Nat /\ 1 \in 1..(Len(slash) + 1)
    BY <1>2
  <2>4. protocol # <<>> /\ \A k \in 1..Len(protocol) : protocol[k] \notin {":", "/"}
    BY <1>0 DEF IsProtocol
  <2>5. from = Len(slash) + Len(protocol)
    OBVIOUS
  <2> HIDE DEF from
  <2>6. IsTokenAt(protocol, url, 1, {":", "/"}, Len(slash), from)
    BY <1>5, <2>1, <2>2, <2>3, <2>4, <2>5 DEF IsTokenAt
  <2>7. from # Len(url) /\ from + 1 + 1 = from + 2
    BY <1>7, <2>2
  <2> QED BY <1>0, <1>5, <2>6, <2>7, TokenIs
<1> HIDE DEF first
<1>9. /\ next_.text = a
      /\ next_.next = IF path = <<>> THEN upTo + 1 ELSE upTo + 2
  <2>1. from + 3 \in Nat /\ from + 2 \in 1..(from + 3 + 1)
    BY <1>7
  <2>2. \A k \in (from + 2)..(from + 3) : url[k] \in {"/"}
    BY <1>6, <1>7
  <2>3. path # <<>> => upTo < Len(url) /\ url[upTo + 1] \in {"/"}
    <3> SUFFICES ASSUME path # <<>> PROVE upTo < Len(url) /\ url[upTo + 1] = "/"
      OBVIOUS
    <3>1. path[1] = "/" /\ 1 \in 1..Len(path)
      BY <1>0, <1>2 DEF Line!IsPath
    <3>2. url[upTo + 1] = path[1]
      BY <1>5, <3>1 DEF Stands
    <3> QED BY <1>2, <1>5, <1>7, <3>1, <3>2
  <2>4. path = <<>> <=> upTo = Len(url)
    <3> HIDE DEF upTo, from
    <3> QED BY <1>2, <1>5, <1>7
  <2> DEFINE at == from + 3
  <2>5. upTo = at + Len(a)
    OBVIOUS
  <2> HIDE DEF at, from, upTo
  <2>6. /\ at \in Nat /\ from + 2 \in 1..(at + 1) /\ Stands(a, url, at)
        /\ \A k \in (from + 2)..at : url[k] \in {"/"}
    BY <1>5, <2>1, <2>2 DEF at
  <2>7. IsTokenAt(a, url, from + 2, {"/"}, at, upTo)
    BY <1>3, <2>3, <2>4, <2>5, <2>6 DEF IsTokenAt
  <2> QED BY <1>1, <1>5, <1>8, <2>4, <2>7, TokenIs
<1> HIDE DEF next_
<1>10. Len(a) # Line!AbsUriLength(url, first)
  <2>1. /\ Len(first.text) = Len(protocol) /\ first.end = Len(slash) + Len(protocol) + 1
        /\ Len(url) = Len(slash) + Len(protocol) + 3 + Len(a) + Len(path)
    BY <1>5, <1>8
  <2>2. /\ ~(Len(protocol) + 4 <= Len(slash) + Len(protocol) + 1)
        /\ Len(protocol) + 4 <= Len(url) + 1
    <3>1. \A s \in 0..1 : \A p, l \in Nat :
            ~(p + 4 <= s + p + 1) /\ p + 4 <= s + p + 3 + Len(a) + l + 1
      BY <1>4
    <3> HIDE DEF from, upTo
    <3>2. Len(slash) \in 0..1 /\ Len(protocol) \in Nat /\ Len(path) \in Nat
      BY <1>2
    <3>3. /\ ~(Len(protocol) + 4 <= Len(slash) + Len(protocol) + 1)
          /\ Len(protocol) + 4 <= Len(slash) + Len(protocol) + 3 + Len(a) + Len(path) + 1
      BY <3>1, <3>2
    <3> QED BY <2>1, <3>3
  <2>3. Line!AbsUriLength(url, first) = Len(url) + 1 - (Len(protocol) + 4)
    BY <2>1, <2>2 DEF Line!AbsUriLength
  <2>4. path = <<>> => slash # <<>>
    BY <1>0 DEF Line!IsPath
  <2>5. Len(path) # 0 \/ Len(slash) # 0
    BY <1>2, <2>4
  <2> QED BY <1>2, <1>4, <2>1, <2>3, <2>5
<1>11. /\ path = <<>> => rest = <<>>
       /\ path # <<>> => rest = Tail(path)
  <2>1. ASSUME path = <<>> PROVE rest = <<>>
    <3>1. next_.next = Len(url) + 1 /\ Len(url) \in Nat
      BY <1>2, <1>5, <1>7, <1>9, <2>1
    <3> QED BY <1>5, <3>1
  <2>2. ASSUME path # <<>> PROVE rest = Tail(path)
    <3>1. /\ next_.next = upTo + 2 /\ Len(path) # 0
          /\ Len(url) = upTo + Len(path)
      BY <1>2, <1>5, <1>9, <2>2
    <3> HIDE DEF upTo, from
    <3>2. /\ rest \in Seq(Chars) /\ Len(rest) = Len(path) - 1
          /\ \A k \in 1..(Len(path) - 1) : rest[k] = url[upTo + 2 + k - 1]
      <4>1. /\ upTo + 2 \in 1..(Len(url) + 1)
            /\ Len(url) - (upTo + 2) + 1 = Len(path) - 1
        BY <1>2, <1>7, <3>1
      <4>2. rest = SubSeq(url, upTo + 2, Len(url))
        BY <3>1
      <4> HIDE DEF rest
      <4> QED BY <1>5, <4>1, <4>2, RestFrom
    <3>3. /\ Tail(path) \in Seq(Chars) /\ Len(Tail(path)) = Len(path) - 1
          /\ \A k \in 1..(Len(path) - 1) : Tail(path)[k] = path[k + 1]
      BY <1>0, <2>2
    <3>4. ASSUME NEW k \in 1..(Len(path) - 1) PROVE rest[k] = Tail(path)[k]
      <4>1. k + 1 \in 1..Len(path) /\ upTo + 2 + k - 1 = upTo + (k + 1)
        BY <1>2, <1>7
      <4>2. url[upTo + (k + 1)] = path[k + 1]
        BY <1>5, <4>1 DEF Stands
      <4> QED BY <3>2, <3>3, <4>1, <4>2
    <3> HIDE DEF rest
    <3> QED BY <3>2, <3>3, <3>4, SeqEqual
  <2> QED BY <2>1, <2>2
<1>12. ~Line!IsDoubleSlash(rest)
  <2> HIDE DEF rest
  <2>1. CASE path = <<>>
    BY <1>11, <2>1 DEF Line!IsDoubleSlash, Line!NULL
  <2>2. CASE path # <<>>
    <3>1. Tail(path) # <<>> => Len(path) > 1 /\ Tail(path)[1] = path[2]
      <4>1. Len(Tail(path)) = Len(path) - 1 /\ Tail(path) \in Seq(Chars)
            /\ \A k \in 1..(Len(path) - 1) : Tail(path)[k] = path[k + 1]
        BY <1>0, <2>2
      <4>2. ASSUME Tail(path) # <<>> PROVE Len(path) > 1
        BY <1>0, <1>2, <2>2, <4>1, <4>2
      <4> QED BY <1>2, <4>1, <4>2
    <3>2. ~(Len(path) > 1 /\ path[2] = "/")
      BY <1>0, <2>2 DEF Line!IsPath
    <3> QED BY <1>11, <2>2, <3>1, <3>2 DEF Line!IsDoubleSlash, Line!NULL
  <2> QED BY <2>1, <2>2
<1>13. Line!AbsolutePath(rest) = IF path = <<>> THEN <<"/">> ELSE path
  <2> HIDE DEF rest
  <2>1. <<"/">> \in Seq(Chars)
    BY DEF Chars, Line!Chars
  <2>2. CASE path = <<>>
    <3>1. <<"/">> \o <<>> = <<"/">>
      BY <2>1, ConcatEmptySeq
    <3> QED BY <1>11, <2>2, <3>1 DEF Line!AbsolutePath
  <2>3. CASE path # <<>>
    BY <1>0, <1>11, <2>3, FirstAndTail DEF Line!IsPath, Line!AbsolutePath
  <2> QED BY <2>2, <2>3
<1> HIDE DEF rest
<1> QED
  BY <1>0, <1>3, <1>8, <1>9, <1>10, <1>12, <1>13
  DEF Line!ParseAddress, Line!NULL, IsProtocol, IsHost, WholePath, ParsesTo,
      first, next_, rest, url

\* What the parser accepts has its parts, whatever the URL was.
LEMMA AcceptedParts ==
  ASSUME NEW url \in Seq(Chars), NEW pr, pr = Line!ParseAddress(url), pr # Line!Rejected
  PROVE  /\ pr = [status |-> "accepted", protocol |-> pr.protocol, host |-> pr.host,
                  port |-> pr.port, path |-> pr.path]
         /\ pr.protocol \in Seq(Chars) /\ IsProtocol(pr.protocol)
         /\ pr.host \in Seq(Chars) /\ IsHost(pr.host)
         /\ pr.port \in Seq(Chars) /\ IsPort(pr.port)
         /\ pr.path \in Seq(Chars) /\ pr.path # <<>> /\ Line!IsPath(pr.path, <<>>)
<1> DEFINE protocol  == Line!NextToken(url, 1, {":", "/"})
           authority == Line!NextToken(url, protocol.next, {"/"})
           path      == SubSeq(url, authority.next, Len(url))
           host      == Line!NextToken(authority.text, 1, {":"})
           port      == Line!NextToken(authority.text, host.next, {"/"})
<1>1. /\ protocol.text # <<>> /\ host.text # <<>> /\ ~Line!IsDoubleSlash(path)
      /\ pr = [status |-> "accepted", protocol |-> protocol.text, host |-> host.text,
               port |-> port.text, path |-> Line!AbsolutePath(path)]
  BY DEF Line!ParseAddress, Line!NULL
<1>2. /\ protocol.text \in Seq(Chars)
      /\ \A k \in 1..Len(protocol.text) : protocol.text[k] \notin {":", "/"}
      /\ protocol.next \in 1..(Len(url) + 1)
  <2>1. 1 \in 1..(Len(url) + 1)
    OBVIOUS
  <2> QED BY <2>1, AnyToken
<1> HIDE DEF protocol
<1>3. /\ authority.text \in Seq(Chars)
      /\ \A k \in 1..Len(authority.text) : authority.text[k] \notin {"/"}
      /\ authority.next \in 1..(Len(url) + 1)
  BY <1>2, AnyToken
<1> HIDE DEF authority
<1>4. /\ host.text \in Seq(Chars)
      /\ \A k \in 1..Len(host.text) : host.text[k] \notin {":"}
      /\ \A k \in 1..Len(host.text) :
           \E q \in 1..Len(authority.text) : host.text[k] = authority.text[q]
      /\ host.next \in 1..(Len(authority.text) + 1)
  <2>1. 1 \in 1..(Len(authority.text) + 1)
    BY <1>3
  <2> QED BY <1>3, <2>1, AnyToken
<1> HIDE DEF host
<1>5. /\ port.text \in Seq(Chars)
      /\ \A k \in 1..Len(port.text) : port.text[k] \notin {"/"}
  BY <1>3, <1>4, AnyToken
<1> HIDE DEF port
<1>6. IsProtocol(protocol.text) /\ IsHost(host.text) /\ IsPort(port.text)
  BY <1>1, <1>2, <1>3, <1>4, <1>5 DEF IsProtocol, IsHost, IsPort
<1>7. path \in Seq(Chars)
  BY <1>3, RestFrom
<1> HIDE DEF path
<1>8. LET whole == Line!AbsolutePath(path) IN
      whole \in Seq(Chars) /\ whole # <<>> /\ Line!IsPath(whole, <<>>)
  <2> DEFINE whole == <<"/">> \o path
  <2>1. <<"/">> \in Seq(Chars) /\ Len(<<"/">>) = 1 /\ <<"/">>[1] = "/"
    BY DEF Chars, Line!Chars
  <2>2. Len(path) \in Nat
    BY <1>7
  <2>3. /\ whole \in Seq(Chars) /\ Len(whole) = 1 + Len(path)
        /\ whole[1] = "/"
        /\ \A k \in 1..Len(path) : whole[1 + k] = path[k]
    BY <1>7, <2>1, <2>2
  <2> HIDE DEF whole
  <2>4. whole # <<>>
    BY <2>2, <2>3
  <2>5. ASSUME Len(whole) > 1, whole[2] = "/" PROVE FALSE
    <3>1. 1 \in 1..Len(path) /\ path # <<>>
      BY <1>7, <2>2, <2>3, <2>5
    <3>2. whole[1 + 1] = path[1] /\ 1 + 1 = 2
      BY <2>3, <3>1
    <3> QED BY <1>1, <2>5, <3>1, <3>2 DEF Line!IsDoubleSlash, Line!NULL
  <2> QED BY <2>3, <2>4, <2>5 DEF Line!IsPath, Line!AbsolutePath, whole
<1> QED BY <1>1, <1>2, <1>4, <1>5, <1>6, <1>8

\* Concatenation, of texts.
LEMMA Associative ==
  ASSUME NEW x \in Seq(Chars), NEW y \in Seq(Chars), NEW z \in Seq(Chars)
  PROVE  (x \o y) \o z = x \o (y \o z)
  BY ONLY ConcatAssociative, x \in Seq(Chars), y \in Seq(Chars), z \in Seq(Chars)

\* An address is a text.
LEMMA AddressType ==
  ASSUME NEW slash \in Seq(Chars), NEW protocol \in Seq(Chars),
         NEW host \in Seq(Chars), NEW port \in Seq(Chars)
  PROVE  Address(slash, protocol, host, port) \in Seq(Chars)
<1> DEFINE s == slash \o protocol
           t == s \o Separator
<1>1. s \in Seq(Chars)
  BY Joined
<1>2. Separator \in Seq(Chars)
  BY DEF Separator, Chars, Line!Chars
<1> HIDE DEF s
<1>3. t \in Seq(Chars)
  BY <1>1, <1>2, Joined
<1>4. Authority(host, port) \in Seq(Chars)
  BY AuthorityAt
<1> HIDE DEF t
<1>5. t \o Authority(host, port) \in Seq(Chars)
  BY <1>3, <1>4, Joined
<1> QED BY <1>5 DEF Address, s, t

\* The length of a URL is the sum of its parts'.
LEMMA AddressLength ==
  ASSUME NEW slash \in Seq(Chars), NEW protocol \in Seq(Chars),
         NEW host \in Seq(Chars), NEW port \in Seq(Chars), NEW path \in Seq(Chars)
  PROVE  Len(Address(slash, protocol, host, port) \o path) =
           Len(slash) + Len(protocol) + 3 + Len(Authority(host, port)) + Len(path)
  BY AddressAt

\* The address that is printed is the one of the parts.
LEMMA PrintedAddressIs ==
  ASSUME NEW protocol \in Seq(Chars), NEW host \in Seq(Chars),
         NEW port \in Seq(Chars), NEW path \in Seq(Chars),
         NEW pr, pr.protocol = protocol, pr.host = host, pr.port = port, pr.path = path
  PROVE  /\ Line!PrintedAddress(pr) = Address(<<>>, protocol, host, port) \o path
         /\ Len(Line!PrintedAddress(pr)) =
              Len(protocol) + 3 + Len(host) + PortLength(port) + Len(path)
<1> DEFINE tail  == IF port = <<>> THEN <<>> ELSE Colon \o port
           front == protocol \o Separator
           a     == Authority(host, port)
           more  == IF port = <<>> THEN 0 ELSE Len(port) + 1
<1>1. tail \in Seq(Chars)
  <2>1. Colon \in Seq(Chars)
    BY DEF Colon, Chars, Line!Chars
  <2>2. Colon \o port \in Seq(Chars)
    BY <2>1, Joined
  <2>3. <<>> \in Seq(Chars)
    OBVIOUS
  <2> QED BY <2>2, <2>3
<1>2. front \in Seq(Chars)
  <2>1. Separator \in Seq(Chars)
    BY DEF Separator, Chars, Line!Chars
  <2> QED BY <2>1, Joined
<1>3. Line!PrintedAddress(pr) = ((front \o host) \o tail) \o path
  BY DEF Line!PrintedAddress, Line!NULL, Colon, Separator
<1>4. <<>> \o protocol = protocol
  BY ConcatEmptySeq
<1>5. Address(<<>>, protocol, host, port) = front \o (host \o tail)
  BY <1>4 DEF Address, Authority
<1>6. /\ Len(protocol) \in Nat /\ Len(host) \in Nat /\ Len(path) \in Nat
      /\ more \in Nat
  OBVIOUS
<1>7. Len(a) = Len(host) + more
  <2>1. Len(host) \in Nat /\ Len(port) \in Nat
    OBVIOUS
  <2>2. /\ port = <<>> => Len(a) = Len(host)
        /\ port # <<>> => Len(a) = Len(host) + 1 + Len(port)
    BY AuthorityAt
  <2> HIDE DEF a
  <2>3. CASE port = <<>>
    BY <2>1, <2>2, <2>3
  <2>4. CASE port # <<>>
    <3>1. Len(a) = Len(host) + (Len(port) + 1)
      BY <2>1, <2>2, <2>4
    <3> QED BY <2>4, <3>1
  <2> QED BY <2>3, <2>4
<1>8. <<>> \in Seq(Chars) /\ Len(<<>>) = 0
  OBVIOUS
<1>9. Len(Address(<<>>, protocol, host, port) \o path) =
        0 + Len(protocol) + 3 + Len(a) + Len(path)
  <2>1. ASSUME NEW slash \in Seq(Chars)
        PROVE  Len(Address(slash, protocol, host, port) \o path) =
                 Len(slash) + Len(protocol) + 3 + Len(a) + Len(path)
    BY AddressLength
  <2> HIDE DEF a
  <2> QED BY <1>8, <2>1
<1> HIDE DEF tail, front, a, more
<1>10. (front \o host) \o tail = front \o (host \o tail)
  BY <1>1, <1>2, Associative
<1>11. Line!PrintedAddress(pr) = Address(<<>>, protocol, host, port) \o path
  BY <1>3, <1>5, <1>10
<1>12. Len(Line!PrintedAddress(pr)) = Len(protocol) + 3 + Len(host) + more + Len(path)
  BY <1>6, <1>7, <1>9, <1>11
<1> QED BY <1>11, <1>12 DEF more, PortLength

\* A text of letters.
LEMMA Words ==
  ASSUME NEW n \in Nat
  PROVE  /\ Line!Word(n) \in Seq(Chars) /\ Len(Line!Word(n)) = n
         /\ n = 0 <=> Line!Word(n) = <<>>
         /\ \A k \in 1..Len(Line!Word(n)) : Line!Word(n)[k] \notin {":", "/"}
<1>1. /\ Line!Word(n) \in [1..n -> Chars]
      /\ \A k \in 1..n : Line!Word(n)[k] = Letter
  BY DEF Line!Word, Chars, Line!Chars
<1>2. Line!Word(n) \in Seq(Chars) /\ Len(Line!Word(n)) = n
  BY <1>1
<1>3. n = 0 <=> Line!Word(n) = <<>>
  <2> DEFINE w == Line!Word(n)
  <2>1. w \in Seq(Chars) /\ Len(w) = n
    BY <1>2
  <2> HIDE DEF w
  <2>2. n = 0 <=> w = <<>>
    BY <2>1
  <2> QED BY <2>2 DEF w
<1> QED
  BY <1>1, <1>2, <1>3, RequestLineAssumption DEF RequestLineAssumption

\* The prefix that ParsesAddresses speaks of is an address.
LEMMA PrefixIsAddress ==
  ASSUME NEW slash \in {<<>>, <<"/">>},
         NEW scheme \in Nat, NEW host \in Nat, NEW port \in Nat
  PROVE  Line!Prefix(slash, scheme, host, port) =
           Address(slash, Line!Word(scheme), Line!Word(host), Line!Word(port))
<1> DEFINE front == slash \o Line!Word(scheme) \o Separator
           tail  == IF port = 0 THEN <<>> ELSE Colon \o Line!Word(port)
<1>1. front \in Seq(Chars)
  <2>1. slash \in Seq(Chars) /\ Separator \in Seq(Chars)
    <3>1. <<>> \in Seq(Chars) /\ <<"/">> \in Seq(Chars)
      BY DEF Chars, Line!Chars
    <3>2. Separator \in Seq(Chars)
      BY DEF Separator, Chars, Line!Chars
    <3> QED BY <3>1, <3>2
  <2>2. Line!Word(scheme) \in Seq(Chars)
    BY Words
  <2>3. slash \o Line!Word(scheme) \in Seq(Chars)
    BY <2>1, <2>2, Joined
  <2> DEFINE s == slash \o Line!Word(scheme)
  <2>4. s \in Seq(Chars)
    BY <2>3
  <2> HIDE DEF s
  <2>5. s \o Separator \in Seq(Chars)
    BY <2>1, <2>4, Joined
  <2> QED BY <2>5 DEF s
<1>2. tail \in Seq(Chars) /\ Line!Word(host) \in Seq(Chars)
  <2>1. Colon \in Seq(Chars)
    BY DEF Colon, Chars, Line!Chars
  <2>2. Line!Word(port) \in Seq(Chars) /\ Line!Word(host) \in Seq(Chars)
    BY Words
  <2>3. Colon \o Line!Word(port) \in Seq(Chars) /\ <<>> \in Seq(Chars)
    BY <2>1, <2>2, Joined
  <2> QED BY <2>2, <2>3
<1>3. Line!Prefix(slash, scheme, host, port) = (front \o Line!Word(host)) \o tail
  BY DEF Line!Prefix, Separator, Colon
<1>4. port = 0 <=> Line!Word(port) = <<>>
  BY Words
<1>5. Address(slash, Line!Word(scheme), Line!Word(host), Line!Word(port)) =
        front \o (Line!Word(host) \o tail)
  BY <1>4 DEF Address, Authority
<1> HIDE DEF front, tail
<1> QED BY <1>1, <1>2, <1>3, <1>5, Associative

\* A sequence is a prefix of it and what follows.
LEMMA PrefixAndRest ==
  ASSUME NEW s \in Seq(Chars), NEW u \in Seq(Chars), IsPrefix(s, u)
  PROVE  /\ SubSeq(u, Len(s) + 1, Len(u)) \in Seq(Chars)
         /\ u = s \o SubSeq(u, Len(s) + 1, Len(u))
<1> DEFINE rest == SubSeq(u, Len(s) + 1, Len(u))
<1>1. /\ Len(s) \in Nat /\ Len(u) \in Nat /\ Len(s) <= Len(u)
      /\ SubSeq(s, 1, Len(s)) = SubSeq(u, 1, Len(s))
  BY DEF IsPrefix
<1>2. /\ rest \in Seq(Chars) /\ Len(rest) = Len(u) - Len(s)
      /\ \A k \in 1..(Len(u) - Len(s)) : rest[k] = u[Len(s) + k]
  <2>1. Len(s) + 1 \in 1..(Len(u) + 1) /\ Len(u) - (Len(s) + 1) + 1 = Len(u) - Len(s)
        /\ \A k \in Nat : Len(s) + 1 + k - 1 = Len(s) + k
    BY <1>1
  <2> DEFINE m == Len(s) + 1
  <2>2. m \in 1..(Len(u) + 1)
    BY <2>1
  <2> HIDE DEF m
  <2>3. /\ SubSeq(u, m, Len(u)) \in Seq(Chars)
        /\ Len(SubSeq(u, m, Len(u))) = Len(u) - m + 1
        /\ \A k \in 1..(Len(u) - m + 1) : SubSeq(u, m, Len(u))[k] = u[m + k - 1]
    BY <2>2, RestFrom
  <2> QED BY <1>1, <2>1, <2>3 DEF m
<1>3. \A k \in 1..Len(s) : s[k] = u[k]
  <2>1. /\ \A k \in 1..Len(s) : SubSeq(s, 1, Len(s))[k] = s[k]
        /\ \A k \in 1..Len(s) : SubSeq(u, 1, Len(s))[k] = u[k]
    BY <1>1
  <2> QED BY <1>1, <2>1
<1> HIDE DEF rest
<1> DEFINE joined == s \o rest
<1>4. /\ joined \in Seq(Chars) /\ Len(joined) = Len(s) + Len(rest)
      /\ \A k \in 1..Len(s) : joined[k] = s[k]
      /\ \A k \in 1..Len(rest) : joined[Len(s) + k] = rest[k]
  BY <1>2
<1> HIDE DEF joined
<1>5. ASSUME NEW k \in 1..Len(u) PROVE joined[k] = u[k]
  <2>1. CASE k \in 1..Len(s)
    BY <1>3, <1>4, <2>1
  <2>2. CASE k \notin 1..Len(s)
    <3>1. k - Len(s) \in 1..(Len(u) - Len(s)) /\ Len(s) + (k - Len(s)) = k
      BY <1>1, <2>2
    <3> QED BY <1>2, <1>4, <3>1
  <2> QED BY <2>1, <2>2
<1>6. Len(joined) = Len(u)
  BY <1>1, <1>2, <1>4
<1>7. joined = u
  BY <1>4, <1>5, <1>6, SeqEqual
<1> QED BY <1>2, <1>7 DEF joined, rest

Requests ==
  [method : {"GET", "other"}, url : Seq(Chars), version : {"HTTP/", "other", "missing"}]

\* The request is parsed or refused, and refused for its line alone only when it is
\* none that the parser is for.
Parsing ==
  /\ request \in Requests
  /\ parsed # Line!Pending =>
       \/ parsed = Line!ParseAddress(request.url)
       \/ parsed = Line!Rejected /\ ~Line!IsGoodRequest

\* Nothing has been parsed yet.
LEMMA ParsingInit == RequestInit => Parsing
<1> SUFFICES ASSUME RequestInit PROVE Parsing
  OBVIOUS
<1>1. Line!LineInit
  BY DEF RequestInit
<1>2. \A n : \A url \in Line!UrlsUpTo(n) : url \in Seq(Chars)
  <2> SUFFICES ASSUME NEW n, NEW url \in Line!UrlsUpTo(n) PROVE url \in Seq(Chars)
    OBVIOUS
  <2>1. PICK m \in 0..n : url \in [1..m -> Chars]
    BY DEF Line!UrlsUpTo, Chars
  <2>2. m \in Nat
    BY <2>1
  <2> QED BY <2>1, <2>2
<1>3. request \in Requests
  BY <1>1, <1>2 DEF Line!LineInit, Requests
<1>4. parsed = Line!Pending
  BY <1>1 DEF Line!LineInit
<1> QED BY <1>3, <1>4 DEF Parsing

\* Parsing a request line, and all that is done behind it.
LEMMA ParsingStep == Parsing /\ [RequestNext]_requestVars => Parsing'
<1> SUFFICES ASSUME Parsing, [RequestNext]_requestVars PROVE Parsing'
  OBVIOUS
<1>1. CASE ParseLine
  <2>1. request' = request /\ request \in Requests
    BY <1>1 DEF ParseLine, Line!Parse, Parsing
  <2>2. CASE parsed' = Line!ParseAddress(request.url)
    BY <2>1, <2>2 DEF Parsing
  <2>3. CASE /\ request.method # "GET" \/ request.version \in {"other", "missing"}
             /\ parsed' = Line!Rejected
    <3>1. ~Line!IsGoodRequest
      BY <2>3 DEF Line!IsGoodRequest
    <3>2. Line!IsGoodRequest' = Line!IsGoodRequest
      BY <2>1 DEF Line!IsGoodRequest
    <3> QED BY <2>1, <2>3, <3>1, <3>2 DEF Parsing
  <2> QED BY <1>1, <2>2, <2>3 DEF ParseLine, Line!Parse
<1>2. CASE UNCHANGED <<request, parsed>>
  BY <1>2 DEF Parsing, Line!IsGoodRequest
<1> QED
  BY <1>1, <1>2 DEF RequestNext, ProcessHeaders, requestVars

\* Parsing holds in every reachable state.
LEMMA AlwaysParsing == RequestSpec => []Parsing
  BY ParsingInit, ParsingStep, PTL DEF RequestSpec

\* What is accepted was parsed.
LEMMA Accepted ==
  ASSUME Parsing, parsed # Line!Pending, parsed # Line!Rejected
  PROVE  /\ parsed = [status |-> "accepted", protocol |-> parsed.protocol,
                      host |-> parsed.host, port |-> parsed.port, path |-> parsed.path]
         /\ parsed.protocol \in Seq(Chars) /\ IsProtocol(parsed.protocol)
         /\ parsed.host \in Seq(Chars) /\ IsHost(parsed.host)
         /\ parsed.port \in Seq(Chars) /\ IsPort(parsed.port)
         /\ parsed.path \in Seq(Chars) /\ parsed.path # <<>>
         /\ Line!IsPath(parsed.path, <<>>)
<1>1. request.url \in Seq(Chars) /\ parsed = Line!ParseAddress(request.url)
  BY DEF Parsing, Requests
<1> QED BY <1>1, AcceptedParts

\* The types of a request line follow.
LEMMA ParsingMeansLineTypes == Parsing => Line!LineTypeOK
<1> SUFFICES ASSUME Parsing PROVE Line!LineTypeOK
  OBVIOUS
<1>1. CASE parsed \in {Line!Pending, Line!Rejected}
  BY <1>1 DEF Parsing, Requests, Line!LineTypeOK, Chars
<1>2. CASE parsed \notin {Line!Pending, Line!Rejected}
  <2>1. /\ parsed.status = "accepted" /\ parsed.protocol # <<>>
        /\ parsed.path # <<>> /\ parsed.host # <<>>
    BY <1>2, Accepted DEF IsProtocol, IsHost
  <2> QED BY <2>1 DEF Parsing, Requests, Line!LineTypeOK, Line!NULL, Chars
<1> QED BY <1>1, <1>2

\* What is printed for an accepted request is an address of its parts.
LEMMA ParsingMeansRoundTrip == Parsing => RoundTrip
<1> SUFFICES ASSUME Parsing, parsed.status = "accepted"
             PROVE  /\ Line!ParseAddress(Line!PrintedAddress(parsed)) = parsed
                    /\ Len(Line!PrintedAddress(parsed)) + Line!LineRest
                         = Line!requestLineLen(parsed)
  BY DEF RoundTrip, Line!RoundTrip
<1>1. parsed # Line!Pending /\ parsed # Line!Rejected
  BY DEF Line!Pending, Line!Rejected
<1> DEFINE protocol == parsed.protocol
           host     == parsed.host
           port     == parsed.port
           path     == parsed.path
<1>2. /\ parsed = [status |-> "accepted", protocol |-> protocol,
                   host |-> host, port |-> port, path |-> path]
      /\ protocol \in Seq(Chars) /\ IsProtocol(protocol)
      /\ host \in Seq(Chars) /\ IsHost(host)
      /\ port \in Seq(Chars) /\ IsPort(port)
      /\ path \in Seq(Chars) /\ path # <<>>
      /\ Line!IsPath(path, <<>>)
  BY <1>1, Accepted
<1>3. /\ parsed.protocol = protocol /\ parsed.host = host
      /\ parsed.port = port /\ parsed.path = path
  OBVIOUS
<1> HIDE DEF protocol, host, port, path
<1>4. /\ Line!PrintedAddress(parsed) = Address(<<>>, protocol, host, port) \o path
      /\ Len(Line!PrintedAddress(parsed)) =
           Len(protocol) + 3 + Len(host) + PortLength(port) + Len(path)
  <2>1. PICK p \in Seq(Chars), h \in Seq(Chars), q \in Seq(Chars), t \in Seq(Chars),
            pr \in {parsed} :
          p = protocol /\ h = host /\ q = port /\ t = path /\ pr = parsed
    BY <1>2
  <2>2. pr.protocol = p /\ pr.host = h /\ pr.port = q /\ pr.path = t
    BY <1>3, <2>1
  <2>3. /\ Line!PrintedAddress(pr) = Address(<<>>, p, h, q) \o t
        /\ Len(Line!PrintedAddress(pr)) =
             Len(p) + 3 + Len(h) + PortLength(q) + Len(t)
    BY <2>2, PrintedAddressIs
  <2> QED BY <2>1, <2>3
<1>5. Line!ParseAddress(Line!PrintedAddress(parsed)) = parsed
  <2>1. AreParts(<<>>, protocol, host, port, path)
    BY <1>2 DEF AreParts
  <2>2. ParsesTo(<<>>, protocol, host, port, path)
    BY <2>1, AddressParses
  <2> QED BY <1>2, <1>4, <2>2 DEF ParsesTo, WholePath
<1>6. Len(Line!PrintedAddress(parsed)) + Line!LineRest = Line!requestLineLen(parsed)
  <2> DEFINE more == IF port = <<>> THEN 0 ELSE Len(port) + 1
  <2>1. /\ Len(protocol) \in Nat /\ Len(host) \in Nat /\ Len(path) \in Nat
        /\ more \in Nat /\ VersionLength \in Nat
    BY <1>2, RequestLineAssumption DEF RequestLineAssumption
  <2>2. /\ Len(Line!PrintedAddress(parsed)) =
             Len(protocol) + 3 + Len(host) + more + Len(path)
        /\ Line!LineRest = 3 + VersionLength + 4
        /\ Line!requestLineLen(parsed) =
             3 + 1 + Len(protocol) + 3 + Len(host) + 1 + VersionLength + 2 + more + Len(path)
    BY <1>3, <1>4 DEF Line!LineRest, Line!requestLineLen, Line!NULL, PortLength
  <2> HIDE DEF more
  <2> QED BY <2>1, <2>2
<1> QED BY <1>5, <1>6

\* A URL with such a prefix is an address of these words.
LEMMA ParsingMeansParsesAddresses == Parsing => ParsesAddresses
<1> SUFFICES ASSUME Parsing PROVE Line!ParsesAddresses
  BY DEF ParsesAddresses
<1> DEFINE Prefix(slash, scheme, host, port) == Line!Prefix(slash, scheme, host, port)
           After(prefix) == SubSeq(request.url, Len(prefix) + 1, Len(request.url))
<1> SUFFICES ASSUME Line!IsGoodRequest, parsed # Line!Pending,
                    NEW slash \in {<<>>, <<"/">>},
                    NEW scheme \in 1..(MaxLen - 4), NEW host \in 1..(MaxLen - 4),
                    NEW port \in 0..(MaxLen - 4)
             PROVE  LET prefix == Line!Prefix(slash, scheme, host, port)
                        path   == SubSeq(request.url, Len(prefix) + 1, Len(request.url))
                    IN Line!IsPrefix(prefix, request.url) /\ Line!IsPath(path, slash) =>
                         parsed = [status |-> "accepted", protocol |-> Line!Word(scheme),
                                   host |-> Line!Word(host), port |-> Line!Word(port),
                                   path |-> IF path = <<>> THEN <<"/">> ELSE path]
  BY DEF Line!ParsesAddresses
<1> SUFFICES ASSUME Line!IsPrefix(Prefix(slash, scheme, host, port), request.url),
                    Line!IsPath(After(Prefix(slash, scheme, host, port)), slash)
             PROVE  parsed =
                      [status |-> "accepted", protocol |-> Line!Word(scheme),
                       host |-> Line!Word(host), port |-> Line!Word(port),
                       path |-> IF After(Prefix(slash, scheme, host, port)) = <<>> THEN <<"/">>
                                ELSE After(Prefix(slash, scheme, host, port))]
  OBVIOUS
<1> DEFINE prefix == Prefix(slash, scheme, host, port)
           url    == request.url
           path   == After(prefix)
<1>1. scheme \in Nat \ {0} /\ host \in Nat \ {0} /\ port \in Nat
  BY RequestLineAssumption DEF RequestLineAssumption
<1>2. prefix = Address(slash, Line!Word(scheme), Line!Word(host), Line!Word(port))
  BY <1>1, PrefixIsAddress
<1>3. url \in Seq(Chars) /\ parsed = Line!ParseAddress(url)
  BY DEF Parsing, Requests
<1>4. /\ Line!Word(scheme) \in Seq(Chars) /\ IsProtocol(Line!Word(scheme))
      /\ Line!Word(host) \in Seq(Chars) /\ IsHost(Line!Word(host))
      /\ Line!Word(port) \in Seq(Chars) /\ IsPort(Line!Word(port))
  BY <1>1, Words DEF IsProtocol, IsHost, IsPort
<1>5. prefix \in Seq(Chars)
  <2>1. slash \in Seq(Chars)
    <3>1. <<>> \in Seq(Chars) /\ <<"/">> \in Seq(Chars)
      BY DEF Chars, Line!Chars
    <3> QED BY <3>1
  <2> HIDE DEF prefix
  <2> QED BY <1>2, <1>4, <2>1, AddressType
<1> HIDE DEF prefix, url
<1>6. path \in Seq(Chars) /\ url = prefix \o path
  <2>1. IsPrefix(prefix, url)
    BY DEF prefix, url, Line!IsPrefix, IsPrefix
  <2>2. path = SubSeq(url, Len(prefix) + 1, Len(url))
    BY DEF url
  <2> HIDE DEF path
  <2> QED BY <1>3, <1>5, <2>1, <2>2, PrefixAndRest
<1>7. Line!IsPath(path, slash)
  BY DEF prefix, url
<1> HIDE DEF path
<1>8. ParsesTo(slash, Line!Word(scheme), Line!Word(host), Line!Word(port), path)
  <2>1. AreParts(slash, Line!Word(scheme), Line!Word(host), Line!Word(port), path)
    BY <1>4, <1>6, <1>7 DEF AreParts
  <2> QED BY <2>1, AddressParses
<1> QED BY <1>2, <1>3, <1>6, <1>8 DEF ParsesTo, WholePath, path, prefix, url

\* An absolute URL is taken apart into exactly its parts (proxy_parse.c:438-491).
THEOREM ParsesAddressesHolds == RequestSpec => []ParsesAddresses
  BY AlwaysParsing, ParsingMeansParsesAddresses, PTL

\* What is printed for an accepted request parses to the same parts again and takes
\* the length that was allocated (proxy_parse.c:438-514 against 544-603).
THEOREM RoundTripHolds == RequestSpec => []RoundTrip
  BY AlwaysParsing, ParsingMeansRoundTrip, PTL

\* Behind its line a request is a table and its headers.
THEOREM RequestImplementsTable == RequestSpec => Spec
<1>1. RequestInit => Init
  BY DEF RequestInit
<1>2. [RequestNext]_requestVars => [Next]_vars
  BY DEF RequestNext, ParseLine, ProcessHeaders, requestVars
<1> QED
  BY <1>1, <1>2, PTL DEF RequestSpec, Spec

\* The fields of a request and of its table are well-formed (proxy_parse.h:33-57).
THEOREM RequestTypeCorrect == RequestSpec => []RequestTypeOK
<1>1. Spec => []TypeOK
  BY InitInv, NextInv, TypesInit, TypesStep, PTL DEF Spec
<1>2. TypeOK /\ Parsing => RequestTypeOK
  BY ParsingMeansLineTypes DEF RequestTypeOK
<1> QED
  BY <1>1, <1>2, AlwaysParsing, RequestImplementsTable, PTL

=============================================================================
