------------------------------ MODULE V1Handler ------------------------------
(***************************************************************************)
(* datafromclient in the C++ programs of the first version, v1/proxy2.cpp  *)
(* and v1/proxy3.cpp, which have it word for word alike.  It takes the     *)
(* steps of ClientHandler, over the same LRU cache, but whatever goes      *)
(* wrong in a call ends the whole process: a send that fails, an origin    *)
(* that cannot be reached, a connection to it that breaks.                 *)
(***************************************************************************)
EXTENDS ClientHandler

\* The descriptor the worker is about to write to.
WritesTo(w) ==
  IF frame[w].pc = "forward" THEN frame[w].iServerfd ELSE frame[w].newsockfd

\* writeToserverSocket, writeToclientSocket: the calls that send something.
IsWriting(w) ==
  \/ /\ frame[w].pc = "serve"
     /\ LET element == heap[frame[w].cached_response] IN
          element # Free => element.data # <<>>
  \/ frame[w].pc = "forward"
  \/ frame[w].pc = "relay" /\ HasData(frame[w].iServerfd)

\* send takes the bytes, or a signal ends the process.
Write(w) ==
  /\ IsWriting(w) => Behind(WritesTo(w)) # Closed
  /\ ServeCached(w) \/ ForwardRequest(w) \/ RelayPart(w)

\* send returns -1.
WriteFails(w) ==
  /\ IsWriting(w)
  /\ Behind(WritesTo(w)) \notin {e \in Endpoints : IsUp(e)}
  /\ exited' = "exit(1)"
  /\ UNCHANGED <<socketVars, cacheVars, frame>>

\* writeToclientSocket copies what it writes to a string first, as text.  Neither a
\* cached response nor the buffer that recv has filled has a terminator: the copy may
\* run off the end of the memory.
CopyRunsOff(w) ==
  /\ frame[w].pc = "serve" \/ (frame[w].pc = "relay" /\ HasData(frame[w].iServerfd))
  /\ crashed' = TRUE
  /\ UNCHANGED <<socketVars, capacity, cache_list, cache_map, heap, frame, exited>>

\* datafromclient itself, with the calls that do no more than in ClientHandler.
V1Request(w) ==
  \/ RecvRequest(w) \/ RecvEnd(w) \/ RecvError(w) \/ FindInCache(w)
  \/ CloseServer(w) \/ CloseClient(w)

\* The functions it calls.
V1Transfer(w) ==
  \/ Write(w) \/ WriteFails(w) \/ CopyRunsOff(w)
  \/ ConnectToOrigin(w) \/ ConnectFailsExits(w)
  \/ RelayEnd(w) \/ RelayErrorExits(w) \/ AddToCache(w)

V1HandlerStep(w) == V1Request(w) \/ V1Transfer(w)

=============================================================================
