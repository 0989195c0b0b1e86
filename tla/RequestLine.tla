----------------------------- MODULE RequestLine -----------------------------
(***************************************************************************)
(* ParsedRequest_parse of proxy_parse.c up to the headers.  A character of *)
(* a URL is a separator, ":" or "/", or Letter, which stands for every     *)
(* character that strtok_r passes over.  The method and the version are    *)
(* known only by what is tested of them.                                   *)
(***************************************************************************)
EXTENDS Naturals, SequencesExt

CONSTANTS MaxLen,         \* bound: length of a URL
          VersionLength,  \* of the version's text, "HTTP/1.1"
          Letter          \* any character that is no separator

VARIABLES request,  \* the request line that has been received
          parsed    \* the fields of the ParsedRequest, or why there are none

lineVars == <<request, parsed>>

Chars == {Letter, ":", "/"}
UrlsUpTo(n) == UNION {[1..m -> Chars] : m \in 0..n}

Pending == [status |-> "pending"]
Rejected == [status |-> "rejected"]
NULL == <<>>  \* strtok_r returns no empty token

LineTypeOK ==
  /\ request \in [method : {"GET", "other"}, url : Seq(Chars),
                  version : {"HTTP/", "other", "missing"}]
  /\ \/ parsed \in {Pending, Rejected}
     \/ parsed.status = "accepted" /\ parsed.protocol # NULL
        /\ parsed.path # NULL /\ parsed.host # NULL

LineInit ==
  /\ request \in [method : {"GET"}, url : UrlsUpTo(MaxLen) \ {<<>>},
                  version : {"HTTP/"}]
                 \cup
                 [method : {"GET", "other"}, url : UrlsUpTo(2) \ {<<>>},
                  version : {"HTTP/", "other", "missing"}]
  /\ parsed = Pending

-----------------------------------------------------------------------------

\* The position of the first character of s from position i on that is in set,
\* or the position after the last character.
FirstIn(s, i, set) ==
  CHOOSE p \in i..(Len(s) + 1) :
    /\ p = Len(s) + 1 \/ s[p] \in set
    /\ \A q \in i..(p - 1) : s[q] \notin set

\* Mutant: strsep, which does not skip delimiters.
NextField(s, i, delimiters) ==
  LET end == FirstIn(s, i, delimiters) IN
  [text |-> SubSeq(s, i, end - 1),
   end  |-> end,
   next |-> IF end > Len(s) THEN end ELSE end + 1]

\* strtok_r from position i: the next token, the position behind it, where a NUL
\* is put, and where the search for another begins.
NextToken(s, i, delimiters) ==
  LET first == FirstIn(s, i, Chars \ delimiters)
      end   == FirstIn(s, first, delimiters)
  IN [text |-> SubSeq(s, first, end - 1),
      end  |-> end,
      next |-> IF end > Len(s) THEN end ELSE end + 1]

\* strlen(rem) for rem = full_addr + strlen(protocol) + strlen("://"), after the
\* NUL behind the protocol.  Separators before the protocol may leave rem within
\* it, and a short address puts rem into the version.
AbsUriLength(url, protocol) ==
  LET rem == Len(protocol.text) + 4 IN
  IF rem <= protocol.end THEN protocol.end - rem
  ELSE IF rem <= Len(url) + 1 THEN Len(url) + 1 - rem
  ELSE Len(url) + 2 + VersionLength - rem

\* An empty path becomes "/", another gets its slash back.
AbsolutePath(text) == <<"/">> \o text

\* The path may not begin with two slashes, of which strtok_r has eaten one.
IsDoubleSlash(text) == text # NULL /\ text[1] = "/"

\* The parts of an address; the tests in the order the code makes them, except
\* that all return the same -1.  A port that is no number is not found out:
\* strtol does not set EINVAL for it.
ParseAddress(url) ==
  LET protocol  == NextToken(url, 1, {":", "/"})
      authority == NextToken(url, protocol.next, {"/"})
      path      == SubSeq(url, authority.next, Len(url))
      host      == NextToken(authority.text, 1, {":"})
      port      == NextToken(authority.text, host.next, {"/"})
  IN IF \/ protocol.text = NULL
        \/ authority.text = NULL
        \/ Len(authority.text) = AbsUriLength(url, protocol)
        \/ IsDoubleSlash(path)
        \/ host.text = NULL
       THEN Rejected
       ELSE [status |-> "accepted", protocol |-> protocol.text,
             host |-> host.text, port |-> port.text, path |-> AbsolutePath(path)]

\* ParsedRequest_parse, the request line.  Without a version the code reads what
\* lies behind its buffer, which may be anything.
Parse ==
  /\ parsed = Pending
  /\ \/ /\ request.method = "GET"
        /\ request.version \in {"HTTP/", "missing"}
        /\ parsed' = ParseAddress(request.url)
     \/ /\ request.method # "GET" \/ request.version \in {"other", "missing"}
        /\ parsed' = Rejected
  /\ UNCHANGED request

-----------------------------------------------------------------------------
(* ParsedRequest_unparse, which the proxy leaves to other users of the     *)
(* parser: they allocate what ParsedRequest_totalLen says.                 *)

\* Mutant: the port's colon is left out.
PrintedWithoutColon(pr) ==
  pr.protocol \o <<":", "/", "/">> \o pr.host \o pr.port \o pr.path

\* ParsedRequest_printRequestLine: what stands between the method and the version.
PrintedAddress(pr) ==
  pr.protocol \o <<":", "/", "/">> \o pr.host
    \o (IF pr.port = NULL THEN <<>> ELSE <<":">> \o pr.port) \o pr.path

\* "GET", the version, two spaces and the end of the line.
LineRest == 3 + VersionLength + 4

requestLineLen(pr) ==
  3 + 1 + Len(pr.protocol) + 3 + Len(pr.host) + 1 + VersionLength + 2
    + (IF pr.port = NULL THEN 0 ELSE Len(pr.port) + 1) + Len(pr.path)

-----------------------------------------------------------------------------
(* What the parser is for.                                                 *)

Word(n) == [i \in 1..n |-> Letter]

\* [slash] scheme "://" host [":" port], the texts of the given lengths.
Prefix(slash, scheme, host, port) ==
  slash \o Word(scheme) \o <<":", "/", "/">> \o Word(host)
    \o (IF port = 0 THEN <<>> ELSE <<":">> \o Word(port))

\* One slash and not two, or, behind a slash, nothing.
IsPath(path, slash) ==
  \/ path = <<>> /\ slash # <<>>
  \/ path # <<>> /\ path[1] = "/" /\ ~(Len(path) > 1 /\ path[2] = "/")

IsGoodRequest == request.method = "GET" /\ request.version = "HTTP/"

\* An absolute URL with a path (proxy_parse.h:111), and one behind a slash with
\* or without a path (README.md:82), is taken apart into exactly its parts, the
\* tokens overlapping as they do (proxy_parse.c:438-491).
ParsesAddresses ==
  IsGoodRequest /\ parsed # Pending =>
    \A slash \in {<<>>, <<"/">>}, scheme, host \in 1..(MaxLen - 4),
       port \in 0..(MaxLen - 4) :
      LET prefix == Prefix(slash, scheme, host, port)
          path   == SubSeq(request.url, Len(prefix) + 1, Len(request.url))
      IN IsPrefix(prefix, request.url) /\ IsPath(path, slash) =>
           parsed = [status |-> "accepted", protocol |-> Word(scheme),
                     host |-> Word(host), port |-> Word(port),
                     path |-> IF path = <<>> THEN <<"/">> ELSE path]

\* Whatever the url was, the address that is printed for an accepted request parses
\* to the same parts again, although colons and slashes that were skipped are gone,
\* and the line takes exactly the length that was allocated for it (proxy_parse.c:
\* 438-514 against 544-603; proxy_parse.h:121-130).
RoundTrip ==
  parsed.status = "accepted" =>
    /\ ParseAddress(PrintedAddress(parsed)) = parsed
    /\ Len(PrintedAddress(parsed)) + LineRest = requestLineLen(parsed)

=============================================================================
