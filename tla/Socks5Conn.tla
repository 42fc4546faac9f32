----------------------------- MODULE Socks5Conn ------------------------------
(***************************************************************************)
(* The state that the parts of one SOCKS5 client's handler share: the      *)
(* client's socket, the context of the server and the place where          *)
(* Server.handle is.                                                       *)
(***************************************************************************)
VARIABLES
  ctxDone,   \* the context of Serve is done
  client,    \* the client socket: "open", "swept" once Serve has closed it,
             \* "closed" once the handler has
  phase      \* where handle is

conn == <<ctxDone, client, phase>>

\* Where handle can be; "connect" and "associate" are inside relayTCP and
\* inside the loop of handleUDPAssociate.
Phases == {"greet", "auth", "request", "dial", "reply", "listen",
           "connect", "associate", "ended"}

ConnTypeOK == ctxDone \in BOOLEAN /\ client \in {"open", "swept", "closed"} /\ phase \in Phases

\* Serve has accepted the connection and started handle.
ConnInit == ctxDone = FALSE /\ client = "open" /\ phase = "greet"

\* The handler closes the client socket.
CloseClient == client' = IF client = "open" THEN "closed" ELSE client

\* Service.Stop cancels the context; Serve then closes every client socket.
CancelServer == ~ctxDone /\ ctxDone' = TRUE /\ UNCHANGED <<client, phase>>
SweepClient == client = "open" /\ client' = "swept" /\ UNCHANGED <<ctxDone, phase>>
=============================================================================
