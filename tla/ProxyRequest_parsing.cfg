SPECIFICATION RequestSpec
CONSTANTS
  MaxLen = 8
  VersionLength = 8
  Letter = "a"
  Keys = {"Host", "Connection", "Accept", "Cookie"}
  Pieces = {" ", "LF", "v", "h", "c"}
  Texts <- MCTexts
  NoColon = NoColon
  HostText <- MCHostText
  CloseText <- MCCloseText
  Space = " "
  LineFeed = "LF"
  Removed = Removed
  DefaultNhdrs = 1
  MaxLines = 3
INVARIANTS
  RequestTypeOK
  ParsesAddresses
  RoundTrip
  SlotIsAllocated
  KeysAreUnique
  SendsRewrittenHeaders
\* A request is printed once, or does not parse.
CHECK_DEADLOCK FALSE
