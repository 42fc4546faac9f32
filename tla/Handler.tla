------------------------------ MODULE Handler -------------------------------
(***************************************************************************)
(* What the goroutine that handles one accepted SOCKS5 connection promises *)
(* to Server.Serve, which waits for it: while it serves the client it may  *)
(* hold sockets and goroutines of its own; once it has returned it holds   *)
(* nothing and never will again; and after the server has cancelled its    *)
(* context and closed its client socket it does return, whatever the       *)
(* client, the destination and the DNS server do.  Socks5Client implements *)
(* this specification and Socks5Server relies on it.                       *)
(***************************************************************************)
CONSTANT Resources   \* sockets and goroutines a handler can own

VARIABLES
  state,      \* "serving" until the handler has returned
  socket,     \* the client socket, "open" or "closed"
  canceled,   \* the context of the server is done
  held        \* the resources the handler owns

vars == <<state, socket, canceled, held>>

Init == state = "serving" /\ socket = "open" /\ canceled = FALSE /\ held = {}

Cancel == canceled' = TRUE /\ UNCHANGED <<state, socket, held>>

\* Serve closes the client sockets it knows of.
Sweep == socket' = "closed" /\ UNCHANGED <<state, canceled, held>>

Work ==
  /\ state = "serving"
  /\ held' \in SUBSET Resources
  /\ socket' \in {socket, "closed"}
  /\ UNCHANGED <<state, canceled>>

Return ==
  /\ state = "serving"
  /\ state' = "returned" /\ socket' = "closed" /\ held' = {}
  /\ UNCHANGED canceled

Abort == canceled /\ socket = "closed" /\ Return

Next == Cancel \/ Sweep \/ Work \/ Return

Spec == Init /\ [][Next]_vars /\ WF_vars(Abort)
=============================================================================
