----------------------------- MODULE HeaderTable -----------------------------
(***************************************************************************)
(* The header table of a ParsedRequest (proxy_parse.c) in the life the     *)
(* proxy gives it: ParsedRequest_parse fills it from the header lines of   *)
(* the request, convertRequestToString (ProxyUtils.cpp) sets Host and      *)
(* Connection and prints it for the origin, ParsedRequest_destroy frees it. *)
(*                                                                         *)
(* A removed header keeps its slot, so the table only grows.  What follows *)
(* the colon of a line is a sequence of pieces, because the parser skips   *)
(* exactly one character there: a space, or something that counts.  It     *)
(* looks for the colon in all that is left of the request, so the key of a *)
(* line without one runs on into the lines behind it: a key is a sequence  *)
(* of names.  Nothing follows the empty line, and allocation is assumed to *)
(* succeed.                                                                *)
(***************************************************************************)
EXTENDS Naturals, SequencesExt

CONSTANTS Keys,         \* header names, "Host" and "Connection" among them
          Pieces,       \* of a value, Space and LineFeed among them
          Texts,        \* what may follow a colon
          NoColon,      \* instead of a text: the line has no colon
          HostText,     \* the host of the request line
          CloseText,    \* "close"
          Space, LineFeed,
          Removed,      \* a slot whose key is NULL
          DefaultNhdrs, \* slots of a new table
          MaxLines      \* bound: header lines of a request

ASSUME HeaderAssumption ==
  /\ {"Host", "Connection"} \subseteq Keys
  /\ {Space, LineFeed} \subseteq Pieces
  /\ Keys \cap Pieces = {}
  /\ Texts \cup {HostText, CloseText} \subseteq Seq(Pieces)
  /\ NoColon \notin Texts
  /\ DefaultNhdrs \in Nat \ {0}
  /\ MaxLines \in Nat
  /\ Removed \notin [key : Seq(Keys), value : Seq(Pieces \cup Keys)]

VARIABLES
  received,    \* the header lines of the request
  next,        \* currentHeader: the line to be parsed next
  headers,     \* the used slots; headersused is their number
  headerslen,  \* the allocated slots
  phase,       \* where the request is
  sent         \* the headers that were printed for the origin

vars == <<received, next, headers, headerslen, phase, sent>>

Lines == [key : Keys, text : Texts \cup {NoColon}]

\* A value is pieces of text; the key of the next line may get into it.
Values == Seq(Pieces \cup Keys)
Headers == [key : Seq(Keys), value : Values]

TypeOK ==
  /\ received \in Seq(Lines)
  /\ next \in 1..(Len(received) + 1)
  /\ headers \in Seq(Headers \cup {Removed})
  /\ headerslen \in Nat
  /\ phase \in {"parse", "failed", "host", "connection", "print", "sent",
               "destroyed"}
  /\ sent \in Seq(Headers)

Init ==
  /\ received \in UNION {[1..n -> Lines] : n \in 0..MaxLines}
  /\ next = 1
  /\ headers = <<>>
  /\ headerslen = DefaultNhdrs
  /\ phase = "parse"
  /\ sent = <<>>

-----------------------------------------------------------------------------
(* The table.                                                              *)

\* The used slots with a key: what ParsedHeader_get looks for.
SlotsOf(key) ==
  {i \in DOMAIN headers : headers[i] # Removed /\ headers[i].key = key}

\* Mutant: remove gives nothing up.
KeptAfterRemove(key) == headers

\* ParsedHeader_remove: the first slot with the key is given up.
AfterRemove(key) ==
  [i \in DOMAIN headers |->
     IF i \in SlotsOf(key) /\ \A j \in SlotsOf(key) : i <= j
       THEN Removed ELSE headers[i]]

\* Mutant: one slot too late.
GrownTooLate ==
  IF headerslen < Len(headers) THEN 2 * headerslen ELSE headerslen

\* realloc to twice the size when the last slot is about to be used.
Grown ==
  IF headerslen <= Len(headers) + 1 THEN 2 * headerslen ELSE headerslen

\* ParsedHeader_set
Set(key, value) ==
  /\ headers' = Append(AfterRemove(key), [key |-> key, value |-> value])
  /\ headerslen' = Grown

-----------------------------------------------------------------------------
(* The request.                                                            *)

\* ParsedHeader_parse: the value begins two characters behind the colon and ends
\* with the line; when nothing follows the colon, it ends with the next line.
ValueAt(n) ==
  LET TextOf(line) == IF line.text = NoColon THEN <<>> ELSE line.text
      text == TextOf(received[n])
  IN IF text # <<>> THEN Tail(text)
     ELSE IF n = Len(received) THEN <<LineFeed>>
     ELSE <<LineFeed, received[n + 1].key>> \o TextOf(received[n + 1])

\* index(line, ':'), which does not stop at the end of the line: the lines with a
\* colon, and the first of them.
Colons(n) == {m \in n..Len(received) : received[m].text # NoColon}
ColonAt(n) == CHOOSE m \in Colons(n) : \A other \in Colons(n) : m <= other

\* What stands between the beginning of line n and that colon.
KeyAt(n) ==
  [i \in 1..(ColonAt(n) - n + 1) |-> received[n + i - 1].key]

ParseHeader ==
  /\ phase = "parse"
  /\ Colons(next) # {}
  /\ Set(KeyAt(next), ValueAt(ColonAt(next)))
  /\ next' = next + 1
  /\ UNCHANGED <<received, phase, sent>>

\* No colon in this line or behind it: ParsedRequest_parse fails.
ParseFails ==
  /\ phase = "parse"
  /\ next <= Len(received)
  /\ Colons(next) = {}
  /\ phase' = "failed"
  /\ UNCHANGED <<received, next, headers, headerslen, sent>>

\* The empty line.
ParseEnds ==
  /\ phase = "parse"
  /\ next > Len(received)
  /\ phase' = "host"
  /\ UNCHANGED <<received, next, headers, headerslen, sent>>

\* Mutant: Host is set only if the client sent none.
SetHostIfMissing ==
  /\ phase = "host"
  /\ IF SlotsOf(<<"Host">>) = {} THEN Set(<<"Host">>, HostText)
                             ELSE UNCHANGED <<headers, headerslen>>
  /\ phase' = "connection"
  /\ UNCHANGED <<received, next, sent>>

SetHost ==
  /\ phase = "host"
  /\ Set(<<"Host">>, HostText)
  /\ phase' = "connection"
  /\ UNCHANGED <<received, next, sent>>

SetConnection ==
  /\ phase = "connection"
  /\ Set(<<"Connection">>, CloseText)
  /\ phase' = "print"
  /\ UNCHANGED <<received, next, sent>>

\* Mutant: removed slots are printed as well.
PrintAllSlots ==
  /\ phase = "print"
  /\ sent' = headers
  /\ phase' = "sent"
  /\ UNCHANGED <<received, next, headers, headerslen>>

\* The headers that ParsedHeader_printHeaders has printed when it has passed n slots.
Printed[n \in 0..Len(headers)] ==
  IF n = 0 THEN <<>>
  ELSE IF headers[n] = Removed THEN Printed[n - 1]
  ELSE Append(Printed[n - 1], headers[n])

\* ParsedHeader_printHeaders into a buffer of ParsedHeader_headersLen bytes.
PrintHeaders ==
  /\ phase = "print"
  /\ sent' = Printed[Len(headers)]
  /\ phase' = "sent"
  /\ UNCHANGED <<received, next, headers, headerslen>>

\* ParsedRequest_destroy, after a request that has been answered.
Destroy ==
  /\ phase = "sent"
  /\ headers' = <<>>
  /\ headerslen' = 0
  /\ phase' = "destroyed"
  /\ UNCHANGED <<received, next, sent>>

Next ==
  ParseHeader \/ ParseFails \/ ParseEnds \/ SetHost \/ SetConnection
    \/ PrintHeaders \/ Destroy

Spec == Init /\ [][Next]_vars

-----------------------------------------------------------------------------

\* A table is never full, so the slot that ParsedHeader_set writes to is always
\* allocated, whatever the sequence of sets and removes (proxy_parse.c:47-57).
SlotIsAllocated == phase # "destroyed" => Len(headers) < headerslen

\* Doubling keeps pace with the slots and does not run away from them, although
\* removed slots are never used again (proxy_parse.c:47-48, 99-101).
MemoryIsBounded == headerslen <= DefaultNhdrs \/ headerslen <= 2 * Len(headers)

\* ParsedHeader_get and ParsedHeader_remove stop at the first header with a key;
\* there is no other (proxy_parse.c:45, 74-103).
KeysAreUnique ==
  \A i, j \in DOMAIN headers :
    /\ headers[i] # Removed
    /\ headers[j] # Removed
    /\ headers[i].key = headers[j].key
    => i = j

\* The last line that has a key.
LastLine(key) ==
  CHOOSE n \in DOMAIN received :
    /\ KeyAt(n) = key
    /\ \A m \in DOMAIN received : m > n => KeyAt(m) # key

Rewritten == {"Host", "Connection"}

\* The keys in front of the last two headers.
OwnKeys == [i \in 1..(Len(sent) - 2) |-> sent[i].key]

\* The names that begin a line in what is printed of a header: the last one of its key,
\* in front of the colon, and one that got into the value, behind a line feed.
NamesIn(header) ==
  {header.key[Len(header.key)]} \cup (Range(header.value) \cap Keys)

\* Line n does not end for the parser: it has no colon, or nothing behind the colon.
RunsOn(n) == received[n].text \in {NoColon, <<>>}

\* The host of the request line and "close", in this order and behind everything else.
\* The client's lines of these names get to the origin neither as headers of their own
\* nor inside another's, but for one that stands behind a line which runs on: it is
\* part of that line's header.
HasRewritten ==
  /\ Len(sent) >= 2
  /\ sent[Len(sent) - 1] = [key |-> <<"Host">>, value |-> HostText]
  /\ sent[Len(sent)] = [key |-> <<"Connection">>, value |-> CloseText]
  /\ \A name \in Rewritten, i \in DOMAIN OwnKeys :
       /\ OwnKeys[i] # <<name>>
       /\ name \in NamesIn(sent[i]) =>
            \E n \in 1..(Len(received) - 1) :
              RunsOn(n) /\ received[n + 1].key = name

\* Each other key of the client once and no other key, in the order of their last
\* lines, and with the last text but for its first character, which is dropped
\* whether it is a space or not (proxy_parse.c:244).
HasTheOthers ==
  /\ Range(OwnKeys) = {KeyAt(n) : n \in DOMAIN received}
                        \ {<<name>> : name \in Rewritten}
  /\ \A i, j \in DOMAIN OwnKeys :
       i < j => LastLine(OwnKeys[i]) < LastLine(OwnKeys[j])
  /\ \A i \in DOMAIN OwnKeys :
       LET text == received[ColonAt(LastLine(OwnKeys[i]))].text IN
       text # <<>> => sent[i].value = Tail(text)

\* Of a request that parses the origin gets the headers that the proxy sets and the
\* client's others, each once; what the client has said of the proxy's own gets
\* through only where the parser takes two lines for one (ProxyUtils.cpp:52-63 over
\* proxy_parse.c:41-103, 180-193, 227-254).
SendsRewrittenHeaders == phase = "sent" => HasRewritten /\ HasTheOthers

=============================================================================
