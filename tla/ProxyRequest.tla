----------------------------- MODULE ProxyRequest -----------------------------
(***************************************************************************)
(* A request from its text to what the origin gets: ParsedRequest_parse    *)
(* takes the request line apart (RequestLine) and, when it is good, puts   *)
(* the headers into the table; convertRequestToString rewrites and prints  *)
(* them (HeaderTable).                                                     *)
(***************************************************************************)
EXTENDS HeaderTable

CONSTANTS MaxLen, VersionLength, Letter

ASSUME RequestLineAssumption ==
  /\ MaxLen \in Nat
  /\ VersionLength \in Nat \ (0..4)
  /\ Letter \notin {":", "/"}

VARIABLES request, parsed

Line == INSTANCE RequestLine

requestVars == <<vars, request, parsed>>

RequestTypeOK == TypeOK /\ Line!LineTypeOK

\* "GET a://a/ HTTP/1.1"
PlainLine ==
  [method |-> "GET", version |-> "HTTP/",
   url |-> <<Letter, ":", "/", "/", Letter, "/">>]

\* Any request line without headers, or any headers behind a good line: the line
\* and the headers do not meet in the parser.
RequestInit ==
  \/ received = <<>> /\ Init /\ Line!LineInit
  \/ request = PlainLine /\ Line!LineInit /\ Init

ParseLine == Line!Parse /\ UNCHANGED vars

ProcessHeaders ==
  /\ parsed.status = "accepted"
  /\ Next
  /\ UNCHANGED <<request, parsed>>

RequestNext == ParseLine \/ ProcessHeaders

RequestSpec == RequestInit /\ [][RequestNext]_requestVars

-----------------------------------------------------------------------------

ParsesAddresses == Line!ParsesAddresses
RoundTrip == Line!RoundTrip

=============================================================================
