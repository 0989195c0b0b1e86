--------------------------- MODULE MCProxyRequest ---------------------------
(* Header lines for checking ProxyRequest.                                 *)
EXTENDS ProxyRequest

\* A value behind a space, a value without one, and nothing at all.
MCTexts == {<<" ", "v">>, <<"v">>, <<>>}
MCHostText == <<"h">>
MCCloseText == <<"c">>

=============================================================================
