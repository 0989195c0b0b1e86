------------------------- MODULE MCThreadPoolServer -------------------------
(* Instances of ThreadPoolServer and of v1/proxy2.cpp to check.            *)
EXTENDS V1PoolProxy, TLC

CONSTANTS k1, k2, k3, u1, u2, r1, r2, r3

\* r1 and r2 are the same host and path on two ports.
MCResources == {r1, r2, r3}
MCKeyOf == r1 :> u1 @@ r2 :> u1 @@ r3 :> u2

\* k1 and k3 compete for one url, k2 asks for another.
MCRequestOf ==
  [c \in Clients |-> IF c = k1 THEN r1 ELSE IF c = k2 THEN r3 ELSE r2]

Environment(clients, fds, faults) ==
  [program |-> "proxy_server", clients |-> clients, fds |-> fds,
   faults |-> faults]

\* Nothing goes wrong, and there are descriptors for all.
Calm == Environment(Clients, Fds, {})

\* Origins that close early, so that a hit may serve part of a response.
Truncating == Environment({k1, k3}, Fds, {"truncate"})

\* Everything else goes wrong, and three descriptors are one too few for two
\* clients and their origins.
Troubled ==
  Environment({k1, k2}, 4..6,
              {"hangup", "reset", "garbage", "abort", "unreachable"})

\* Another process has the port.
PortTaken == Environment({}, Fds, {"portTaken"})

MCEnvironments == {Calm, Truncating, Troubled, PortTaken}
CalmOnly == {Calm}

\* The same for the first version.
V1Environment(clients, fds, faults) ==
  [program |-> "proxy2", clients |-> clients, fds |-> fds, faults |-> faults]

Turns ==
  {Calm, V1Environment({k1, k2}, Fds, {}), V1Environment(Clients, 4..5, {}),
   V1Environment({k1}, Fds, {"abort"}), V1Environment({}, Fds, {"portTaken"})}

=============================================================================
