----------------------------- MODULE MCV1Server -----------------------------
(* Sizes for checking V1Server and ThreadPerClient.                        *)
EXTENDS ThreadPerClient, TLC

CONSTANTS u1, u2, u3

\* u3 is too large to be cached.
MCElementSize == u1 :> 2 @@ u2 :> 3 @@ u3 :> 8

=============================================================================
