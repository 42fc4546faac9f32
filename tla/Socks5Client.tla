---------------------------- MODULE Socks5Client -----------------------------
(***************************************************************************)
(* Server.handle (internal/socks5/server.go) for one accepted connection:  *)
(* the handshake, then handleConnect with its relay or handleUDPAssociate, *)
(* and the end.  The settings are read once, when handle starts.  Serve    *)
(* cancels the context and closes the socket at any time.                  *)
(***************************************************************************)
EXTENDS TcpRelay, UdpAssociate

VARIABLES
  authed,      \* the settings ask for no password, or the client has given it
  commanded,   \* history: a whole request was read
  expired,     \* the socket's deadline passed during the dial, which has the
               \* same length and starts later
  replies      \* replies written to the client

shake == <<authed, commanded, expired, replies>>
vars == <<conn, relayVars, udpVars, shake>>

Init ==
  /\ ConnInit /\ RelayInit /\ UdpInit
  /\ authed \in BOOLEAN /\ commanded = FALSE /\ expired = FALSE
  /\ replies = <<>>
-----------------------------------------------------------------------------
Enter(p) == phase' = p /\ UNCHANGED <<ctxDone, client>>

\* handle returns: the deferred calls close the client socket.
End == phase' = "ended" /\ CloseClient /\ UNCHANGED ctxDone

\* writeReply: nothing reaches the client when the socket is closed or its
\* deadline has passed.
Reply(status, late) ==
  replies' = IF client = "open" /\ ~late THEN Append(replies, status) ELSE replies

Negotiate ==
  /\ phase = "greet" /\ client = "open"
  /\ \E methods \in SUBSET {"none", "password"} :
       IF (IF authed THEN "none" ELSE "password") \notin methods THEN End
       ELSE Enter(IF authed THEN "request" ELSE "auth")
  /\ UNCHANGED <<relayVars, udpVars, shake>>

Authenticate ==
  /\ phase = "auth" /\ client = "open"
  /\ \/ authed' = TRUE /\ Enter("request")
     \/ UNCHANGED authed /\ End
  /\ UNCHANGED <<relayVars, udpVars, commanded, expired, replies>>

\* A read fails: the client has gone, 15 seconds have passed, or Serve has
\* closed the socket; the bytes may also be no greeting.
HandshakeFails ==
  /\ phase \in {"greet", "auth"} /\ End
  /\ UNCHANGED <<relayVars, udpVars, shake>>

ReadRequest ==
  /\ phase = "request"
  /\ \/ /\ client = "open" /\ Enter("dial") /\ commanded' = TRUE /\ UNCHANGED replies
     \/ /\ client = "open" /\ Enter("listen") /\ commanded' = TRUE /\ UNCHANGED replies
     \/ /\ client = "open" /\ Reply("command", FALSE) /\ commanded' = TRUE /\ End
     \/ Reply("address", FALSE) /\ UNCHANGED commanded /\ End
  /\ UNCHANGED <<relayVars, udpVars, authed, expired>>

\* Mutant: the client is told that the connection is up before it is.
DialReplyFirst ==
  /\ phase = "dial"
  /\ Reply("ok", FALSE)
  /\ expired' \in BOOLEAN
  /\ \/ upstream' = "open" /\ Enter("reply")
     \/ UNCHANGED upstream /\ End
  /\ UNCHANGED <<relay, outcome, stream, copier, results, completed, timers, udpVars,
                 authed, commanded>>

\* The dial succeeds, or fails and is answered; at its timeout the deadline of
\* the client socket, set just before, has passed too.
Dial ==
  /\ phase = "dial"
  /\ expired' \in BOOLEAN
  /\ \/ upstream' = "open" /\ Enter("reply") /\ UNCHANGED replies
     \/ UNCHANGED upstream /\ Reply("general", expired') /\ End
  /\ UNCHANGED <<relay, outcome, stream, copier, results, completed, timers, udpVars,
                 authed, commanded>>

\* The success is written and the relay starts, or the write fails.
Connected ==
  /\ phase = "reply"
  /\ Reply("ok", expired)
  /\ IF replies' # replies
     THEN StartRelay /\ Enter("connect") /\ UNCHANGED upstream
     ELSE /\ upstream' = "closed" /\ End
          /\ UNCHANGED <<relay, outcome, stream, copier, results, completed, timers>>
  /\ UNCHANGED <<udpVars, authed, commanded, expired>>

\* Without a local socket or an IPv4 upstream socket the request is refused; a
\* missing IPv6 socket is not an error.
Listen ==
  /\ phase = "listen"
  /\ \/ Reply("general", FALSE) /\ End /\ UNCHANGED udpVars
     \/ \E nets \in SUBSET Networks :
          /\ "udp4" \in nets
          /\ Reply("ok", FALSE)
          /\ IF replies' # replies THEN StartAssociation(nets) /\ Enter("associate")
                                   ELSE End /\ UNCHANGED udpVars
  /\ UNCHANGED <<relayVars, authed, commanded, expired>>

\* relayTCP or handleUDPAssociate has returned.
Finish ==
  /\ \/ phase = "connect" /\ relay = "returned"
     \/ phase = "associate" /\ assoc = "returned"
  /\ End
  /\ UNCHANGED <<relayVars, udpVars, shake>>

Handshake ==
  \/ Negotiate \/ Authenticate \/ HandshakeFails \/ ReadRequest \/ Dial \/ Connected
  \/ Listen \/ Finish
Server ==
  /\ phase # "ended" /\ (CancelServer \/ SweepClient)
  /\ UNCHANGED <<relayVars, udpVars, shake>>
Relaying == phase = "connect" /\ RelayNext /\ UNCHANGED <<udpVars, shake>>
Associating == phase = "associate" /\ UdpNext /\ UNCHANGED <<relayVars, shake>>

Next == Handshake \/ Server \/ Relaying \/ Associating

\* A read of the handshake may wait for the client for ever, as far as this
\* specification goes; a dial ends, at the latest with its timeout.
Fairness ==
  /\ WF_vars(client # "open" /\ (HandshakeFails \/ ReadRequest))
  /\ WF_vars(Dial \/ Connected \/ Listen \/ Finish)
  /\ RelayFairness /\ UdpFairness

Spec == Init /\ [][Next]_vars
FairSpec == Spec /\ Fairness
-----------------------------------------------------------------------------
TypeOK ==
  /\ ConnTypeOK /\ RelayTypeOK /\ UdpTypeOK
  /\ authed \in BOOLEAN /\ commanded \in BOOLEAN
  /\ expired \in BOOLEAN
  /\ replies \in Seq({"ok", "general", "command", "address"})

\* negotiate, handle, handleConnect, handleUDPAssociate: traffic is relayed
\* exactly for the clients that were told so, and a request that was read gets
\* one reply, unless Serve closed the socket or the deadline passed during the
\* dial; all of it only for clients that have given the password when there is
\* one, whatever methods they offer.
RepliedOnce ==
  /\ Len(replies) <= 1 /\ (commanded => authed)
  /\ (relay # "off" \/ assoc # "off") <=> replies = <<"ok">>
  /\ phase = "ended" /\ commanded => Len(replies) = 1 \/ expired \/ client = "swept"

\* relayTCP: the relay never outlives the idle timeout, counted from the last
\* recorded activity, nor the half-close timeout once one side has finished:
\* re-arming a timer with what is left of it never adds to it.
LingersNoLonger ==
  relay = "loop" =>
    /\ idleIn + quiet <= IdleTimeout
    /\ halfIn # Off => halfIn + quiet <= HalfCloseTimeout

\* relayTCP: a timeout never cuts a relay that delivered a chunk, in either
\* direction, within the timeout ("without truncating an active download"),
\* except a chunk whose time is being recorded at that moment.
NotCutShort ==
  [][ (\A d \in Directions : copier[d] # "record") =>
        /\ outcome' = "idle" /\ outcome = "none" => silent >= IdleTimeout
        /\ outcome' = "half" /\ outcome = "none" => silent >= HalfCloseTimeout ]_vars

\* relayTCP: a relay that ends without an error has delivered everything that
\* either side sent and both ends of stream, and an end of stream never
\* overtakes data.
DeliveredWhole ==
  /\ outcome = "done" =>
       \A d \in Directions : got[d] = sent[d] /\ fin[d] /\ (d \in HalfClosers => finGot[d])
  /\ \A d \in Directions : finGot[d] => got[d] = sent[d]

\* forwardUDPRequest: a write to an upstream socket runs under the deadline of
\* its own request, because the lock covers setting it and writing.
OwnDeadline ==
  \A w \in Workers : worker[w].place = "write" => deadline[worker[w].net] = w

\* A response that a reader has taken from an upstream socket.
ResponseHeld(n) ==
  \/ reader[n] = "response"
  \/ \E i \in 1..Len(packets) : packets[i] = [source |-> n, body |-> "response"]

\* handleUDPAssociate: return traffic is passed on while every worker is blocked
\* in a lookup or a write and the queue of requests is full.
ReturnTrafficFlows ==
  \A n \in Networks : ResponseHeld(n) ~> (~ResponseHeld(n) \/ assoc # "loop")

\* relayTCP: the timers end every relay once both sides are silent.
RelayEnds == relay = "loop" ~> relay = "returned"

\* The resources of the handler that exist at the moment.
Held ==
  {r \in {"upstream", "copiers", "sockets", "readers", "workers", "control"} :
     CASE r = "upstream" -> upstream = "open"
       [] r = "copiers" -> \E d \in Directions : copier[d] \notin {"none", "done"}
       [] r = "sockets" -> sockets = "open"
       [] r = "readers" -> \E s \in Sources : reader[s] \notin {"none", "done"}
       [] r = "workers" -> \E w \in Workers : worker[w].place \notin {"none", "done"}
       [] r = "control" -> control = "copy"}

Promise == INSTANCE Handler WITH
  Resources <- {"upstream", "copiers", "sockets", "readers", "workers", "control"},
  state <- IF phase = "ended" THEN "returned" ELSE "serving",
  socket <- IF client = "open" THEN "open" ELSE "closed",
  canceled <- ctxDone,
  held <- Held

\* handle implements Handler: when it returns, no goroutine of it runs and no
\* socket of it is open, now or later; and cancelling the context and closing
\* the client socket is enough to make it return.
KeepsPromise == Promise!Spec
=============================================================================
