-------------------------- MODULE MCSemaphoreServer --------------------------
(* Instances of SemaphoreServer, as main.cpp makes it, and of              *)
(* v1/proxy3.cpp to check.                                                 *)
EXTENDS Startup, TLC

CONSTANTS k1, k2, k3, u1, u2, r1, r2

MCResources == {r1, r2}
MCKeyOf == r1 :> u1 @@ r2 :> u2
MCRequestOf == [c \in Clients |-> IF c = k2 THEN r2 ELSE r1]

Name(n) == [kind |-> "name", name |-> n]
Number(n) == [kind |-> "number", value |-> n]
Wrong(kind) == [kind |-> kind]

Usual == <<Name("Semaphore"), Name("LRUCache"), Number(8080)>>
ProxyServer(argv_, clients, fds, faults) ==
  [program |-> "proxy_server", argv |-> argv_, clients |-> clients, fds |-> fds,
   faults |-> faults]
Proxy3(argv_, clients, fds, faults) ==
  [program |-> "proxy3", argv |-> argv_, clients |-> clients, fds |-> fds,
   faults |-> faults]

Both == {k1, k2}

\* Descriptors for all, too few for two clients and their origins, or origins that
\* cannot be reached, close early or break off; clients of one resource, and caches
\* for one response and for none.
Roomy == ProxyServer(Usual, Both, {4, 5, 6, 7}, {})
Servers ==
  {Roomy,
   ProxyServer(Usual, Both, {4, 5}, {}),
   ProxyServer(Usual, {k1, k3}, {4, 5, 6}, {}),
   ProxyServer(Usual \o <<Number(2), Number(1)>>, Both, {4, 5, 6}, {}),
   ProxyServer(Usual \o <<Number(2), Number(0)>>, {k1}, {4, 5}, {}),
   ProxyServer(Usual, {k1}, {4, 5}, {"unreachable", "truncate", "abort"}),
   Proxy3(<<Number(8080)>>, Clients, {4, 5}, {}),
   Proxy3(<<Number(8080)>>, Both, {4, 5, 6}, {}),
   Proxy3(<<Number(8080)>>, {k1}, {4, 5}, {"unreachable", "truncate", "abort"})}

\* Every kind of command line, when another process has the port.
Names1 == {Name("Threadpool"), Name("Semaphore"), Name("threadpool")}
Names2 == {Name("LRUCache"), Name("LFUCache"), Name("LRU")}
Numbers == {Number(-1), Number(0), Number(2), Number(70000), Wrong("word"),
            Wrong("huge")}
CommandLines ==
  {<<>>} \cup (Names1 \X Names2)
    \cup (Names1 \X Names2 \X Numbers)
    \cup (Names1 \X Names2 \X Numbers \X Numbers)
    \cup (Names1 \X Names2 \X Numbers \X Numbers \X Numbers)
    \cup {<<Name("Semaphore"), Name("LRUCache"), Number(2), Number(2), Number(2),
            Number(2)>>}
Starts ==
  {ProxyServer(argv_, {}, {4}, {"portTaken"}) : argv_ \in CommandLines}
  \cup {Proxy3(argv_, {}, {4}, {"portTaken"}) : argv_ \in {<<>>, <<Number(70000)>>}}

MCEnvironments == Servers \cup Starts
RoomyOnly == {Roomy}

=============================================================================
