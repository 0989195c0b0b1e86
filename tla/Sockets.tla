------------------------------- MODULE Sockets -------------------------------
(***************************************************************************)
(* What the servers see of the outside: the kernel's table of file         *)
(* descriptors, the byte streams of the connections, the clients and the   *)
(* origin servers.  None of it is code of the repository; it is modelled   *)
(* from how the servers use it.                                            *)
(*                                                                         *)
(* An endpoint is the far side of a connection: a client, or the origin    *)
(* that a worker is connected to, which goes by the worker's name.  What a *)
(* peer sends is a sequence of items: a whole request, something that is   *)
(* not a request, or a part of a response.  A response is ResponseParts    *)
(* parts, and the origin then closes (the proxy always asks for            *)
(* "Connection: close").                                                   *)
(***************************************************************************)
EXTENDS Naturals, Sequences, FiniteSets, Functions

CONSTANTS Clients,        \* each connects once
          Workers,        \* the threads that handle connections
          Fds,            \* numbers a socket may have
          Closed,         \* a number that is not in use
          NoFd,           \* -1
          Resources,      \* what a request can name: host, port and path
          RequestOf,      \* the resource each client asks for
          ResponseParts,  \* parts of a complete response
          Environments    \* what the process may find itself in, see env

ASSUME SocketsAssumption ==
  /\ Clients \cap Workers = {}
  /\ Closed \notin Clients \cup Workers
  /\ IsFiniteSet(Fds) /\ Fds \subseteq Nat
  /\ NoFd \notin Fds
  /\ RequestOf \in [Clients -> Resources]
  /\ ResponseParts \in Nat \ {0}
  /\ \A e \in Environments : e.clients \subseteq Clients /\ e.fds \subseteq Fds

VARIABLES
  env,       \* fixed: the program that runs, the clients that may come, the
             \* numbers the process may use, and what clients, origins and the
             \* network may do wrong
  backlog,   \* clients that are connected and not yet accepted
  fdTable,   \* the endpoint behind each number
  peer,      \* what the far side has done
  inbox,     \* sent by the far side and not yet received
  outbox     \* sent to the far side

socketVars == <<env, backlog, fdTable, peer, inbox, outbox>>

Endpoints == Clients \cup Workers
Request(r) == [type |-> "request", of |-> r]
Part(r, n) == [type |-> "part", of |-> r, number |-> n]
Garbage == [type |-> "garbage"]

Items == {Request(r) : r \in Resources} \cup {Garbage}
         \cup {Part(r, n) : r \in Resources, n \in 1..ResponseParts}

\* "sent" is a client that has sent its request.
PeerStates == {"absent", "connected", "sent", "closed", "reset"}

SocketsTypeOK ==
  /\ env \in Environments
  /\ backlog \in Seq(Clients)
  /\ fdTable \in [Fds -> Endpoints \cup {Closed}]
  /\ peer \in [Endpoints -> PeerStates]
  /\ inbox \in [Endpoints -> Seq(Items)]
  /\ outbox \in [Endpoints -> Seq(Items)]

SocketsInit ==
  /\ env \in Environments
  /\ backlog = <<>>
  /\ fdTable = [fd \in Fds |-> Closed]
  /\ peer = [e \in Endpoints |-> "absent"]
  /\ inbox = [e \in Endpoints |-> <<>>]
  /\ outbox = [e \in Endpoints |-> <<>>]

-----------------------------------------------------------------------------
(* System calls, as the parts of an action they change.                    *)

FreeFds == {fd \in env.fds : fdTable[fd] = Closed}

\* POSIX hands out the lowest free number.
LowestFd == CHOOSE fd \in FreeFds : \A other \in FreeFds : fd <= other

\* The endpoint behind a number; Closed also for -1.
Behind(fd) == IF fd \in Fds THEN fdTable[fd] ELSE Closed

\* close(fd): whatever is behind the number goes; on a free one it only fails.
CloseFd(fd) ==
  IF fd \in Fds THEN [fdTable EXCEPT ![fd] = Closed] ELSE fdTable

\* recv has something to return, returns 0, or returns -1.  It may do the last
\* before what came first has been read.
HasData(fd) == Behind(fd) \in {e \in Endpoints : inbox[e] # <<>>}
HasEnded(fd) ==
  Behind(fd) \in {e \in Endpoints : inbox[e] = <<>> /\ peer[e] = "closed"}
IsBroken(fd) == Behind(fd) \notin {e \in Endpoints : peer[e] # "reset"}

\* A connection that the far side has not torn down.
IsUp(e) == peer[e] \in {"connected", "sent"}

-----------------------------------------------------------------------------
(* The clients.                                                            *)

Connect(c) ==
  /\ c \in env.clients
  /\ peer[c] = "absent"
  /\ peer' = [peer EXCEPT ![c] = "connected"]
  /\ backlog' = Append(backlog, c)
  /\ UNCHANGED <<env, fdTable, inbox, outbox>>

\* Under the fault "garbage" a client may send something else.
SendRequest(c) ==
  /\ peer[c] = "connected"
  /\ peer' = [peer EXCEPT ![c] = "sent"]
  /\ \/ inbox' = [inbox EXCEPT ![c] = Append(@, Request(RequestOf[c]))]
     \/ "garbage" \in env.faults
        /\ inbox' = [inbox EXCEPT ![c] = Append(@, Garbage)]
  /\ UNCHANGED <<env, backlog, fdTable, outbox>>

\* A client that goes away before it has its response.
HangUp(c) ==
  /\ IsUp(c)
  /\ \/ "hangup" \in env.faults /\ peer' = [peer EXCEPT ![c] = "closed"]
     \/ "reset" \in env.faults /\ peer' = [peer EXCEPT ![c] = "reset"]
  /\ UNCHANGED <<env, backlog, fdTable, inbox, outbox>>

ClientStep(c) == Connect(c) \/ SendRequest(c) \/ HangUp(c)

-----------------------------------------------------------------------------
(* The origins.                                                            *)

\* The first n parts of the response to an item; only a request has any.
Reply(item, n) ==
  IF item.type = "request" THEN [i \in 1..n |-> Part(item.of, i)] ELSE <<>>

\* The origin behind worker w goes away before it has been sent anything, or all of
\* it: under "truncate" it closes, under "abort" the connection breaks.  What is sent
\* to it from then on is lost.
Leave(w) ==
  /\ IsUp(w)
  /\ outbox[w] = <<>>
  /\ \/ "truncate" \in env.faults /\ peer' = [peer EXCEPT ![w] = "closed"]
     \/ "abort" \in env.faults /\ peer' = [peer EXCEPT ![w] = "reset"]
  /\ UNCHANGED <<env, backlog, fdTable, inbox, outbox>>

\* The origin behind worker w has read what it was sent, responds and closes.
\* Under "truncate" it closes early, under "abort" the connection breaks.
Answer(w) ==
  /\ IsUp(w)
  /\ outbox[w] # <<>>
  /\ \E n \in 0..ResponseParts, end \in {"closed", "reset"} :
       /\ \/ end = "closed" /\ n = ResponseParts
          \/ end = "closed" /\ "truncate" \in env.faults
          \/ end = "reset" /\ "abort" \in env.faults
       /\ peer' = [peer EXCEPT ![w] = end]
       /\ inbox' = [inbox EXCEPT ![w] = @ \o Reply(Head(outbox[w]), n)]
  /\ UNCHANGED <<env, backlog, fdTable, outbox>>

=============================================================================
