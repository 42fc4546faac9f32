------------------------------ MODULE TcpRelay -------------------------------
(***************************************************************************)
(* relayTCP (internal/socks5/relay.go): two goroutines that copy between   *)
(* the client and the upstream socket, and a loop that waits for their     *)
(* results, the context and two timers.                                    *)
(*                                                                         *)
(* Time is relative: quiet is the time since the activity the goroutines   *)
(* recorded, idleIn and halfIn are the times until the timers fire.  A     *)
(* timer that has fired is handled, and a write recorded, before the next  *)
(* tick of the clock.                                                      *)
(***************************************************************************)
EXTENDS Naturals, Sequences, Socks5Conn

CONSTANTS
  IdleTimeout, HalfCloseTimeout,
  MaxChunks,     \* bound: the data each side sends, per direction
  HalfClosers    \* directions whose destination implements CloseWrite

\* "up" copies from the client to the destination, "down" the other way.
Directions == {"up", "down"}
Off == IdleTimeout + HalfCloseTimeout + 1   \* a timer that was never created

ASSUME RelayAssumption ==
  /\ IdleTimeout \in Nat \ {0} /\ HalfCloseTimeout \in Nat \ {0}
  /\ MaxChunks \in [Directions -> Nat] /\ HalfClosers \subseteq Directions

VARIABLES
  relay,       \* "off", "loop", "drain" (the deferred function) or "returned"
  outcome,     \* why the loop was left
  upstream,    \* the socket of the dialer: "none", "open" or "closed"
  sent,        \* chunks the source of a direction has sent
  fin,         \* whether it has closed its side after them
  got,         \* chunks its destination has received
  finGot,      \* whether the destination has been sent the end of the stream
  copier,      \* where the goroutine of a direction is
  results,     \* the channel of results
  completed, idleIn, halfIn, quiet,
  silent       \* history: time since a chunk was really delivered

stream == <<sent, fin, got, finGot>>
timers == <<idleIn, halfIn, quiet, silent>>
relayVars == <<relay, outcome, upstream, stream, copier, results, completed, timers>>

RelayInit ==
  /\ relay = "off" /\ outcome = "none" /\ upstream = "none"
  /\ sent = [d \in Directions |-> 0] /\ got = [d \in Directions |-> 0]
  /\ fin = [d \in Directions |-> FALSE] /\ finGot = [d \in Directions |-> FALSE]
  /\ copier = [d \in Directions |-> "none"] /\ results = <<>> /\ completed = 0
  /\ idleIn = IdleTimeout /\ halfIn = Off /\ quiet = 0 /\ silent = 0

RelayTypeOK ==
  /\ relay \in {"off", "loop", "drain", "returned"}
  /\ outcome \in {"none", "done", "canceled", "error", "idle", "half"}
  /\ upstream \in {"none", "open", "closed"}
  /\ sent \in [Directions -> Nat] /\ got \in [Directions -> Nat]
  /\ fin \in [Directions -> BOOLEAN] /\ finGot \in [Directions -> BOOLEAN]
  /\ copier \in [Directions -> {"none", "read", "write", "record", "shut", "done"}]
  /\ results \in Seq({"eof", "error"}) /\ Len(results) <= 2 /\ completed \in 0..2
  /\ idleIn \in 0..IdleTimeout /\ halfIn \in 0..HalfCloseTimeout \cup {Off}
  /\ quiet \in 0..IdleTimeout /\ silent \in 0..IdleTimeout

\* The call: both goroutines and the idle timer start.
StartRelay ==
  /\ relay' = "loop" /\ copier' = [d \in Directions |-> "read"]
  /\ UNCHANGED <<outcome, stream, results, completed, timers>>
-----------------------------------------------------------------------------
(* The two ends.                                                            *)

\* The socket the data of a direction comes from and the one it goes to.
Source(d) == IF d = "up" THEN client ELSE upstream
Destination(d) == IF d = "up" THEN upstream ELSE client

Send(d) ==
  /\ relay = "loop" /\ ~fin[d] /\ sent[d] < MaxChunks[d]
  /\ sent' = [sent EXCEPT ![d] = @ + 1]
  /\ UNCHANGED <<conn, relay, outcome, upstream, fin, got, finGot, copier, results,
                 completed, timers>>

CloseSide(d) ==
  /\ relay = "loop" /\ ~fin[d]
  /\ fin' = [fin EXCEPT ![d] = TRUE]
  /\ UNCHANGED <<conn, relay, outcome, upstream, sent, got, finGot, copier, results,
                 completed, timers>>
-----------------------------------------------------------------------------
(* copyStream.                                                              *)

copierOnly == <<conn, relay, outcome, upstream, completed, idleIn, halfIn>>
Goto(d, place) == copier' = [copier EXCEPT ![d] = place]

\* io.Copy reads a chunk, or the end of the stream after the last one.
Read(d) ==
  /\ copier[d] = "read" /\ Source(d) = "open"
  /\ \/ sent[d] > got[d] /\ Goto(d, "write")
     \/ sent[d] = got[d] /\ fin[d] /\ Goto(d, "shut")
  /\ UNCHANGED <<copierOnly, stream, results, quiet, silent>>

\* The destination takes the chunk, which it may put off for any time.
Write(d) ==
  /\ copier[d] = "write" /\ Destination(d) = "open"
  /\ got' = [got EXCEPT ![d] = @ + 1] /\ silent' = 0
  /\ Goto(d, "record")
  /\ UNCHANGED <<copierOnly, sent, fin, finGot, results, quiet>>

\* Mutant: only writes to the destination count as activity.
RecordUp(d) ==
  /\ copier[d] = "record"
  /\ quiet' = IF d = "up" THEN 0 ELSE quiet
  /\ Goto(d, "read")
  /\ UNCHANGED <<copierOnly, stream, results, silent>>

\* activityWriter stores the time of the write.
Record(d) ==
  /\ copier[d] = "record"
  /\ quiet' = 0 /\ Goto(d, "read")
  /\ UNCHANGED <<copierOnly, stream, results, silent>>

\* CloseWrite forwards the end of the stream, if the destination has it.
CloseWrite(d) ==
  /\ copier[d] = "shut"
  /\ IF d \in HalfClosers /\ Destination(d) # "open"
     THEN results' = Append(results, "error") /\ UNCHANGED finGot
     ELSE /\ results' = Append(results, "eof")
          /\ finGot' = [finGot EXCEPT ![d] = d \in HalfClosers]
  /\ Goto(d, "done")
  /\ UNCHANGED <<copierOnly, sent, fin, got, quiet, silent>>

\* A read or a write fails: the peer reset the connection or we closed it.
CopyFails(d) ==
  /\ copier[d] \in {"read", "write"}
  /\ results' = Append(results, "error") /\ Goto(d, "done")
  /\ UNCHANGED <<copierOnly, stream, quiet, silent>>

\* A goroutine blocked on a socket we have closed.
Unblocked(d) ==
  \/ copier[d] = "read" /\ Source(d) # "open"
  \/ copier[d] = "write" /\ Destination(d) # "open"
-----------------------------------------------------------------------------
(* The loop.                                                                *)

\* Mutant: the deferred function closes the client's socket only.
LeaveClientOnly(why) ==
  /\ relay' = "drain" /\ outcome' = why /\ CloseClient
  /\ UNCHANGED <<upstream, ctxDone, phase>>

\* The loop is left and the deferred function closes both sockets.
Leave(why) ==
  /\ relay' = "drain" /\ outcome' = why
  /\ CloseClient /\ upstream' = "closed"
  /\ UNCHANGED <<ctxDone, phase>>

LoopCanceled ==
  /\ relay = "loop" /\ ctxDone
  /\ Leave("canceled")
  /\ UNCHANGED <<stream, copier, results, completed, timers>>

\* Mutant: the first end of stream ends the relay.
FirstResultEnds ==
  /\ relay = "loop" /\ results # <<>>
  /\ results' = Tail(results) /\ completed' = completed + 1
  /\ Leave(IF Head(results) = "error" THEN "error" ELSE "done")
  /\ UNCHANGED <<stream, copier, timers>>

\* The first end of stream starts the half-close timer.
TakeResult ==
  /\ relay = "loop" /\ results # <<>>
  /\ results' = Tail(results) /\ completed' = completed + 1
  /\ \/ /\ Head(results) = "error"
        /\ Leave("error") /\ UNCHANGED timers
     \/ /\ Head(results) = "eof" /\ completed = 1
        /\ Leave("done") /\ UNCHANGED timers
     \/ /\ Head(results) = "eof" /\ completed = 0
        /\ quiet' = 0 /\ silent' = 0 /\ halfIn' = HalfCloseTimeout
        /\ UNCHANGED <<conn, relay, outcome, upstream, idleIn>>
  /\ UNCHANGED <<stream, copier>>

HalfCloseFires ==
  /\ relay = "loop" /\ halfIn = 0
  /\ IF quiet >= HalfCloseTimeout
     THEN Leave("half") /\ UNCHANGED halfIn
     ELSE halfIn' = HalfCloseTimeout - quiet /\ UNCHANGED <<conn, relay, outcome, upstream>>
  /\ UNCHANGED <<stream, copier, results, completed, idleIn, quiet, silent>>

\* Mutant: the timer is re-armed with the whole timeout.
IdleFiresFull ==
  /\ relay = "loop" /\ idleIn = 0
  /\ IF quiet >= IdleTimeout
     THEN Leave("idle") /\ UNCHANGED idleIn
     ELSE idleIn' = IdleTimeout /\ UNCHANGED <<conn, relay, outcome, upstream>>
  /\ UNCHANGED <<stream, copier, results, completed, halfIn, quiet, silent>>

IdleFires ==
  /\ relay = "loop" /\ idleIn = 0
  /\ IF quiet >= IdleTimeout
     THEN Leave("idle") /\ UNCHANGED idleIn
     ELSE idleIn' = IdleTimeout - quiet /\ UNCHANGED <<conn, relay, outcome, upstream>>
  /\ UNCHANGED <<stream, copier, results, completed, halfIn, quiet, silent>>

\* Mutant: the deferred function does not wait for the goroutines.
ReturnAtOnce ==
  /\ relay = "drain" /\ relay' = "returned"
  /\ UNCHANGED <<conn, outcome, upstream, stream, copier, results, completed, timers>>

\* The deferred function receives the results that are left, then relayTCP
\* returns.
Drain ==
  /\ relay = "drain"
  /\ \/ /\ completed < 2 /\ results # <<>>
        /\ results' = Tail(results) /\ completed' = completed + 1
        /\ UNCHANGED relay
     \/ /\ completed = 2
        /\ relay' = "returned" /\ UNCHANGED <<results, completed>>
  /\ UNCHANGED <<conn, outcome, upstream, stream, copier, timers>>

Tick ==
  /\ relay = "loop" /\ idleIn > 0 /\ halfIn > 0
  /\ \A d \in Directions : copier[d] # "record"
  /\ idleIn' = idleIn - 1 /\ halfIn' = (IF halfIn = Off THEN Off ELSE halfIn - 1)
  /\ quiet' = quiet + 1 /\ silent' = silent + 1
  /\ UNCHANGED <<conn, relay, outcome, upstream, stream, copier, results, completed>>

Copy(d) == Read(d) \/ Write(d) \/ Record(d) \/ CloseWrite(d) \/ CopyFails(d)
Loop == LoopCanceled \/ TakeResult \/ HalfCloseFires \/ IdleFires \/ Drain
RelayNext ==
  \/ \E d \in Directions : Send(d) \/ CloseSide(d) \/ Copy(d)
  \/ Loop \/ Tick

\* The goroutines run when they are not blocked on a socket; the clock runs.
RelayFairness ==
  /\ WF_<<conn, relayVars>>(Loop) /\ WF_<<conn, relayVars>>(Tick)
  /\ \A d \in Directions :
       /\ WF_<<conn, relayVars>>(Record(d) \/ CloseWrite(d) \/ Read(d))
       /\ WF_<<conn, relayVars>>(Unblocked(d) /\ CopyFails(d))
=============================================================================
