-------------------------- MODULE Socks5ClientProofs --------------------------
(***************************************************************************)
(* Server.handle, for every number of chunks and datagrams, every timeout, *)
(* every number of workers and every queue size.  First the invariant of   *)
(* relayTCP, then that of the loop of handleUDPAssociate and its           *)
(* goroutines; handle's own proof joins them with what its steps keep, and *)
(* shows that each step of handle is a step Handler allows.                *)
(***************************************************************************)
EXTENDS Socks5Client, FiniteSetTheorems, SequenceTheorems, TLAPS

-----------------------------------------------------------------------------
(* The relay.  RelayInv is the conjunction of what the timers, the count of *)
(* results, the teardown and the delivery of data need of each other.       *)

\* Until the loop has been left, no timer is further away than its timeout
\* allows after the recorded silence.
TimersInv ==
  relay \in {"off", "loop"} =>
    /\ idleIn + quiet <= IdleTimeout
    /\ halfIn # Off => halfIn + quiet <= HalfCloseTimeout

\* The recorded silence is the real one, unless a write is being recorded.
SilenceInv ==
  /\ silent <= quiet
  /\ (\E d \in Directions : copier[d] = "record") => silent = 0
  /\ (\A d \in Directions : copier[d] # "record") => silent = quiet

Ended(d) == IF copier[d] = "done" THEN 1 ELSE 0

\* Each goroutine leaves one result, which is in the channel or was taken.
ResultsInv ==
  /\ Ended("up") + Ended("down") = completed + Len(results)
  /\ relay = "returned" => completed = 2

TeardownInv ==
  /\ relay = "off" => \A d \in Directions : copier[d] = "none"
  /\ relay \in {"drain", "returned"} => upstream = "closed" /\ client # "open"

\* All that the source of a direction sent has arrived, and so has its end.
Whole(d) == got[d] = sent[d] /\ fin[d] /\ (d \in HalfClosers => finGot[d])

Delivery(d) ==
  /\ got[d] <= sent[d] /\ (copier[d] = "write" => got[d] < sent[d])
  /\ finGot[d] \/ copier[d] = "shut" => got[d] = sent[d] /\ fin[d]
  /\ relay = "loop" /\ copier[d] = "done" /\ ~Whole(d) =>
       \E i \in 1..Len(results) : results[i] = "error"

DeliveryInv ==
  /\ \A d \in Directions : Delivery(d)
  /\ outcome = "done" => \A d \in Directions : Whole(d)

RelayInv ==
  RelayTypeOK /\ TimersInv /\ SilenceInv /\ ResultsInv /\ TeardownInv /\ DeliveryInv

-----------------------------------------------------------------------------
\* The types of the parts that most steps leave alone.
LEMMA RelayNumbers ==
  ASSUME RelayTypeOK
  PROVE  /\ IdleTimeout \in Nat /\ HalfCloseTimeout \in Nat /\ Off \in Nat
         /\ Off > HalfCloseTimeout /\ Off > IdleTimeout
         /\ idleIn \in Nat /\ halfIn \in Nat /\ quiet \in Nat /\ silent \in Nat
         /\ completed \in Nat /\ Len(results) \in Nat
BY RelayAssumption DEF RelayTypeOK, Off

\* relayTCP has not been called.
LEMMA RelayInitInv == ConnInit /\ RelayInit => RelayInv
<1>. SUFFICES ASSUME ConnInit, RelayInit PROVE RelayInv
  OBVIOUS
<1>1. RelayTypeOK
  BY RelayAssumption DEF RelayInit, RelayTypeOK, Off, Directions
<1>2. TimersInv /\ SilenceInv /\ ResultsInv /\ TeardownInv
  BY <1>1, RelayNumbers DEF RelayInit, TimersInv, SilenceInv, ResultsInv, TeardownInv, Ended,
                            Directions
<1>3. DeliveryInv
  BY DEF RelayInit, DeliveryInv, Delivery, Directions
<1>. QED  BY <1>1, <1>2, <1>3 DEF RelayInv

\* relayTCP is called.
LEMMA StartRelayInv ==
  ASSUME RelayInv, relay = "off", StartRelay, UNCHANGED upstream PROVE RelayInv'
<1>. USE DEF RelayInv, StartRelay, stream, timers
<1>1. RelayTypeOK'
  BY DEF RelayTypeOK
<1>2. TimersInv' /\ SilenceInv' /\ TeardownInv'
  BY DEF TimersInv, SilenceInv, TeardownInv
<1>3. ResultsInv'
  BY DEF ResultsInv, TeardownInv, Ended, RelayTypeOK, Directions
<1>4. DeliveryInv'
  BY DEF DeliveryInv, Delivery, Whole, TeardownInv, RelayTypeOK
<1>. QED  BY <1>1, <1>2, <1>3, <1>4

\* Steps of other parts of the handler do not reopen the client's socket.
LEMMA RelayUnchanged ==
  ASSUME RelayInv, UNCHANGED relayVars, client' = "open" => client = "open"
  PROVE  RelayInv'
BY DEF RelayInv, RelayTypeOK, TimersInv, SilenceInv, ResultsInv, TeardownInv, DeliveryInv,
       Delivery, Ended, Whole, Off, relayVars, stream, timers
-----------------------------------------------------------------------------
(* The two ends and the copying goroutines.                                 *)

\* The two ends send data and close their sides.
LEMMA EndsInv ==
  ASSUME RelayInv, NEW d \in Directions, Send(d) \/ CloseSide(d) PROVE RelayInv'
<1>. USE DEF RelayInv
<1>1. /\ UNCHANGED <<conn, relay, outcome, upstream, got, finGot, copier, results, completed,
                     timers>>
      /\ ~fin[d] /\ sent' \in [Directions -> Nat] /\ fin' \in [Directions -> BOOLEAN]
      /\ sent'[d] >= sent[d]
      /\ \A e \in Directions \ {d} : sent'[e] = sent[e] /\ fin'[e] = fin[e]
  <2>1. CASE Send(d)
    BY <2>1 DEF Send, RelayTypeOK
  <2>2. CASE CloseSide(d)
    BY <2>2 DEF CloseSide, RelayTypeOK
  <2>. QED  BY <2>1, <2>2
<1>2. RelayTypeOK'
  BY <1>1 DEF RelayTypeOK, timers, Off
<1>3. TimersInv' /\ SilenceInv' /\ TeardownInv'
  BY <1>1 DEF TimersInv, SilenceInv, TeardownInv, timers, conn, Off
<1>4. ResultsInv'
  BY <1>1 DEF ResultsInv, Ended
<1>5. ASSUME NEW e \in Directions PROVE Delivery(e)' /\ (outcome' = "done" => Whole(e)')
  <2>1. CASE e = d
    BY <1>1, <2>1 DEF DeliveryInv, Delivery, Whole, RelayTypeOK
  <2>2. CASE e # d
    BY <1>1, <2>2 DEF DeliveryInv, Delivery, Whole
  <2>. QED  BY <2>1, <2>2
<1>. QED  BY <1>2, <1>3, <1>4, <1>5 DEF DeliveryInv

\* copyStream reads, writes and records the time of a chunk.
LEMMA CopyInv ==
  ASSUME RelayInv, NEW d \in Directions, Read(d) \/ Write(d) \/ Record(d)
  PROVE  RelayInv'
<1>. USE DEF RelayInv
<1>1. /\ UNCHANGED <<conn, relay, outcome, upstream, sent, fin, finGot, results, completed, idleIn,
                     halfIn>>
      /\ copier[d] \in {"read", "write", "record"}
      /\ \E place \in {"read", "write", "record", "shut"} : copier' = [copier EXCEPT ![d] = place]
  BY DEF Read, Write, Record, Goto, copierOnly, stream
<1>2. /\ got' \in [Directions -> Nat]
      /\ \A e \in Directions \ {d} : got'[e] = got[e]
      /\ quiet' \in {quiet, 0} /\ silent' \in {silent, 0}
  BY DEF Read, Write, Record, stream, RelayTypeOK
<1>3. RelayTypeOK'
  <2>1. copier' \in [Directions -> {"none", "read", "write", "record", "shut", "done"}]
    BY <1>1 DEF RelayTypeOK
  <2>2. quiet' \in 0..IdleTimeout /\ silent' \in 0..IdleTimeout
    BY <1>2, RelayNumbers DEF RelayTypeOK
  <2>. QED  BY <1>1, <1>2, <2>1, <2>2 DEF RelayTypeOK, Off
<1>4. TimersInv' /\ TeardownInv'
  BY <1>1, <1>2, RelayNumbers DEF TimersInv, TeardownInv, conn, Off, RelayTypeOK
<1>5. SilenceInv'
  <2>1. CASE Read(d)
    BY <2>1 DEF Read, Goto, SilenceInv, RelayTypeOK
  <2>2. CASE Write(d)
    BY <2>2, RelayNumbers DEF Write, Goto, SilenceInv, RelayTypeOK
  <2>3. CASE Record(d)
    BY <2>3, RelayNumbers DEF Record, Goto, SilenceInv, RelayTypeOK
  <2>. QED  BY <2>1, <2>2, <2>3
<1>6. ResultsInv'
  BY <1>1 DEF ResultsInv, Ended, RelayTypeOK, Directions
<1>7. ASSUME NEW e \in Directions PROVE Delivery(e)' /\ (outcome' = "done" => Whole(e)')
  <2>1. CASE e # d
    BY <1>1, <1>2, <2>1 DEF DeliveryInv, Delivery, Whole, RelayTypeOK
  <2>2. CASE e = d /\ Read(d)
    BY <2>2 DEF Read, Goto, stream, copierOnly, DeliveryInv, Delivery, Whole, RelayTypeOK
  <2>3. CASE e = d /\ Write(d)
    BY <2>3 DEF Write, Goto, copierOnly, DeliveryInv, Delivery, Whole, RelayTypeOK
  <2>4. CASE e = d /\ Record(d)
    BY <2>4 DEF Record, Goto, stream, copierOnly, DeliveryInv, Delivery, Whole, RelayTypeOK
  <2>. QED  BY <2>1, <2>2, <2>3, <2>4
<1>. QED  BY <1>3, <1>4, <1>5, <1>6, <1>7 DEF DeliveryInv

\* A goroutine that ends posts its result.
LEMMA CopyEndsInv ==
  ASSUME RelayInv, NEW d \in Directions, CloseWrite(d) \/ CopyFails(d)
  PROVE  RelayInv'
<1>. USE DEF RelayInv
<1>1. PICK r \in {"eof", "error"} :
        /\ results' = Append(results, r)
        /\ r = "error" \/ (copier[d] = "shut" /\ (d \in HalfClosers => finGot'[d]))
  <2>1. CASE CloseWrite(d) /\ d \in HalfClosers /\ Destination(d) # "open"
    BY <2>1 DEF CloseWrite
  <2>2. CASE CloseWrite(d) /\ ~(d \in HalfClosers /\ Destination(d) # "open")
    BY <2>2 DEF CloseWrite, RelayTypeOK
  <2>3. CASE CopyFails(d)
    BY <2>3 DEF CopyFails
  <2>. QED  BY <2>1, <2>2, <2>3
<1>2. /\ UNCHANGED <<conn, relay, outcome, upstream, sent, fin, got, completed, idleIn, halfIn,
                     quiet, silent>>
      /\ copier[d] \notin {"done", "record", "none"} /\ copier' = [copier EXCEPT ![d] = "done"]
  BY DEF CloseWrite, CopyFails, Goto, copierOnly, stream
<1>3. /\ finGot' \in [Directions -> BOOLEAN]
      /\ \A e \in Directions \ {d} : finGot'[e] = finGot[e]
      /\ d \in HalfClosers /\ finGot[d] => finGot'[d]
      /\ finGot'[d] => copier[d] = "shut" \/ finGot[d]
  <2>1. CASE finGot' = finGot
    BY <2>1 DEF RelayTypeOK
  <2>2. CASE CloseWrite(d) /\ finGot' = [finGot EXCEPT ![d] = d \in HalfClosers]
    <3>1. (d \in HalfClosers) \in BOOLEAN
      OBVIOUS
    <3>. QED  BY <2>2, <3>1 DEF RelayTypeOK, CloseWrite
  <2>. QED  BY <2>1, <2>2 DEF CloseWrite, CopyFails, stream
<1>4. results' \in Seq({"eof", "error"}) /\ Len(results') = Len(results) + 1
  BY <1>1 DEF RelayTypeOK
<1>5. Ended("up")' + Ended("down")' = Ended("up") + Ended("down") + 1
  BY <1>2 DEF Ended, RelayTypeOK, Directions
<1>6. ResultsInv' /\ Len(results') <= 2
  BY <1>2, <1>4, <1>5, RelayNumbers DEF ResultsInv, Ended
<1>7. RelayTypeOK'
  <2>1. copier' \in [Directions -> {"none", "read", "write", "record", "shut", "done"}]
    BY <1>2 DEF RelayTypeOK
  <2>. QED  BY <1>2, <1>3, <1>4, <1>6, <2>1 DEF RelayTypeOK, Off
<1>8. TimersInv' /\ TeardownInv'
  BY <1>2 DEF TimersInv, TeardownInv, RelayTypeOK, conn, Off
<1>9. SilenceInv'
  BY <1>2 DEF SilenceInv, RelayTypeOK
<1>10. /\ \A i \in 1..Len(results) : results'[i] = results[i] /\ i \in 1..Len(results')
      /\ results'[Len(results')] = r /\ Len(results') \in 1..Len(results')
  BY <1>1, <1>4, RelayNumbers DEF RelayTypeOK
<1>11. ASSUME NEW e \in Directions PROVE outcome' = "done" => Whole(e)'
  BY <1>2, <1>3 DEF DeliveryInv, Whole
<1>12. ASSUME NEW e \in Directions PROVE Delivery(e)'
  <2>1. CASE e # d
    BY <1>2, <1>3, <1>10, <2>1 DEF DeliveryInv, Delivery, Whole, RelayTypeOK
  <2>2. CASE e = d
    BY <1>1, <1>2, <1>3, <1>10, <2>2 DEF DeliveryInv, Delivery, Whole, RelayTypeOK
  <2>. QED  BY <2>1, <2>2
<1>. QED  BY <1>2, <1>6, <1>7, <1>8, <1>9, <1>11, <1>12 DEF DeliveryInv
-----------------------------------------------------------------------------
(* The loop and the deferred function.                                      *)

\* The first result leaves the channel.
LEMMA TakesOne ==
  ASSUME RelayTypeOK, results # <<>>
  PROVE  /\ Len(results) \in 1..2 /\ Head(results) = results[1]
         /\ Tail(results) \in Seq({"eof", "error"}) /\ Len(Tail(results)) = Len(results) - 1
         /\ \A i \in 1..Len(Tail(results)) : Tail(results)[i] = results[i + 1]
<1>1. results \in Seq({"eof", "error"}) /\ Len(results) \in Nat /\ Len(results) <= 2
  BY DEF RelayTypeOK
<1>2. Len(results) # 0
  BY <1>1, EmptySeq
<1>3. Head(results) = results[1]
  BY <1>1, <1>2
<1>4. Len(results) \in 1..2
  <2>1. \A n \in Nat : n <= 2 /\ n # 0 => n \in 1..2
    OBVIOUS
  <2>. QED  BY <1>1, <1>2, <2>1, Zenon
<1>5. /\ Tail(results) \in Seq({"eof", "error"}) /\ Len(Tail(results)) = Len(results) - 1
      /\ \A i \in 1..Len(Tail(results)) : Tail(results)[i] = results[i + 1]
  BY <1>1, HeadTailProperties, Zenon
<1>. QED  BY <1>3, <1>4, <1>5

\* Leaving the loop for another reason than the second end of stream.
LEMMA LeaveInv ==
  ASSUME RelayInv, relay = "loop", NEW why \in {"canceled", "error", "idle", "half"},
         Leave(why), UNCHANGED <<stream, copier, timers>>,
         results' \in Seq({"eof", "error"}), Len(results') <= 2, completed' \in 0..2,
         completed' + Len(results') = completed + Len(results)
  PROVE  RelayInv'
<1>. USE DEF RelayInv, Leave, CloseClient
<1>1. RelayTypeOK'
  BY DEF RelayTypeOK, stream, timers, Off
<1>2. TimersInv' /\ SilenceInv' /\ TeardownInv'
  BY DEF TimersInv, SilenceInv, TeardownInv, timers
<1>3. ResultsInv'
  BY DEF ResultsInv, Ended
<1>4. DeliveryInv'
  BY DEF DeliveryInv, Delivery, Whole, stream
<1>. QED  BY <1>1, <1>2, <1>3, <1>4

\* relayTCP takes the result of a goroutine: the first end of stream starts the
\* half-close timer, an error or the second ends the loop.
LEMMA TakeResultInv ==
  ASSUME RelayInv, TakeResult PROVE RelayInv'
<1>. USE DEF RelayInv
<1>1. /\ relay = "loop" /\ results' = Tail(results) /\ completed' = completed + 1
      /\ results # <<>> /\ Len(results) \in 1..2 /\ UNCHANGED <<stream, copier>>
      /\ results' \in Seq({"eof", "error"}) /\ Len(results') = Len(results) - 1
  BY TakesOne DEF TakeResult
<1>2. completed' + Len(results') = completed + Len(results) /\ completed' \in 0..2
  BY <1>1, RelayNumbers DEF ResultsInv, Ended
<1>3. CASE Head(results) = "error"
  <2>1. Leave("error") /\ UNCHANGED timers
    BY <1>3 DEF TakeResult
  <2>. QED  BY <1>1, <1>2, <2>1, LeaveInv, RelayNumbers DEF RelayTypeOK
<1>4. CASE Head(results) # "error"
  <2>1. \A i \in 1..Len(results) : results[i] = "error" =>
          i - 1 \in 1..Len(results') /\ results'[i - 1] = "error"
    BY <1>1, <1>4, TakesOne
  <2>2. ResultsInv'
    BY <1>1, <1>2 DEF ResultsInv, Ended, TakeResult, Leave
  <2>3. CASE completed = 1
    <3>1. Leave("done") /\ UNCHANGED timers
      BY <1>1, <1>4, <2>3 DEF TakeResult
    <3>2. Len(results) = 1 /\ copier["up"] = "done" /\ copier["down"] = "done"
      BY <1>1, <2>3, RelayNumbers DEF ResultsInv, Ended
    <3>3. \A d \in Directions : Whole(d)
      BY <1>1, <1>4, <3>2 DEF DeliveryInv, Delivery, Directions, RelayTypeOK
    <3>4. RelayTypeOK'
      BY <1>1, <1>2, <3>1 DEF RelayTypeOK, Leave, stream, timers, Off
    <3>5. TimersInv' /\ SilenceInv' /\ TeardownInv'
      BY <1>1, <3>1 DEF TimersInv, SilenceInv, TeardownInv, Leave, CloseClient, timers
    <3>6. DeliveryInv'
      BY <1>1, <3>1, <3>3 DEF DeliveryInv, Delivery, Whole, Leave, stream
    <3>. QED  BY <2>2, <3>4, <3>5, <3>6
  <2>4. CASE completed # 1
    <3>1. /\ quiet' = 0 /\ silent' = 0 /\ halfIn' = HalfCloseTimeout
          /\ UNCHANGED <<conn, relay, outcome, upstream, idleIn>>
      BY <1>1, <1>4, <2>4 DEF TakeResult
    <3>2. RelayTypeOK'
      BY <1>1, <1>2, <3>1, RelayNumbers DEF RelayTypeOK, stream, Off
    <3>3. TimersInv' /\ SilenceInv' /\ TeardownInv'
      BY <1>1, <3>1, RelayNumbers DEF TimersInv, SilenceInv, TeardownInv, conn, RelayTypeOK, Off
    <3>4. DeliveryInv'
      BY <1>1, <2>1, <3>1 DEF DeliveryInv, Delivery, Whole, stream
    <3>. QED  BY <2>2, <3>2, <3>3, <3>4
  <2>. QED  BY <2>3, <2>4
<1>. QED  BY <1>3, <1>4

\* A timer that fires ends the relay or is re-armed with what is left of it.
LEMMA TimerFiresInv ==
  ASSUME RelayInv, HalfCloseFires \/ IdleFires PROVE RelayInv'
<1>. USE DEF RelayInv
<1>1. CASE HalfCloseFires /\ quiet >= HalfCloseTimeout
  BY <1>1, LeaveInv DEF HalfCloseFires, timers, RelayTypeOK
<1>2. CASE IdleFires /\ quiet >= IdleTimeout
  BY <1>2, LeaveInv DEF IdleFires, timers, RelayTypeOK
<1>3. CASE /\ relay = "loop"
           /\ UNCHANGED <<conn, relay, outcome, upstream, stream, copier, results, completed, quiet,
                          silent>>
           /\ \/ /\ quiet < HalfCloseTimeout
                 /\ halfIn' = HalfCloseTimeout - quiet /\ idleIn' = idleIn
              \/ /\ quiet < IdleTimeout
                 /\ idleIn' = IdleTimeout - quiet /\ halfIn' = halfIn
  <2>1. RelayTypeOK'
    <3>1. idleIn' \in 0..IdleTimeout /\ halfIn' \in 0..HalfCloseTimeout \cup {Off}
      BY <1>3, RelayNumbers DEF RelayTypeOK
    <3>. QED  BY <1>3, <3>1 DEF RelayTypeOK, stream, Off
  <2>2. TimersInv'
    BY <1>3, RelayNumbers DEF TimersInv, Off
  <2>3. SilenceInv' /\ TeardownInv' /\ ResultsInv'
    BY <1>3 DEF SilenceInv, TeardownInv, ResultsInv, Ended, conn
  <2>4. DeliveryInv'
    BY <1>3 DEF DeliveryInv, Delivery, Whole, stream
  <2>. QED  BY <2>1, <2>2, <2>3, <2>4
<1>. QED  BY <1>1, <1>2, <1>3, RelayNumbers DEF HalfCloseFires, IdleFires

\* The deferred function of relayTCP takes the results that are left.
LEMMA DrainInv ==
  ASSUME RelayInv, Drain PROVE RelayInv'
<1>. USE DEF RelayInv
<1>1. /\ relay = "drain" /\ relay' \in {"drain", "returned"}
      /\ UNCHANGED <<conn, outcome, upstream, stream, copier, timers>>
      /\ relay' = "returned" => completed' = 2
      /\ results' \in Seq({"eof", "error"}) /\ Len(results') <= 2 /\ completed' \in 0..2
      /\ completed' + Len(results') = completed + Len(results)
  <2>1. completed + Len(results) <= 2
    BY RelayNumbers DEF ResultsInv, Ended
  <2>2. CASE relay' = relay
    <3>1. /\ relay = "drain" /\ results # <<>>
          /\ results' = Tail(results) /\ completed' = completed + 1
      BY <2>2 DEF Drain
    <3>2. Len(results') = Len(results) - 1 /\ results' \in Seq({"eof", "error"})
      BY <3>1, TakesOne
    <3>. QED  BY <2>1, <2>2, <3>1, <3>2, RelayNumbers, TakesOne DEF Drain
  <2>3. CASE relay' # relay
    BY <2>3 DEF Drain, RelayTypeOK
  <2>. QED  BY <2>2, <2>3
<1>2. RelayTypeOK'
  BY <1>1 DEF RelayTypeOK, stream, timers, Off
<1>3. TimersInv' /\ SilenceInv' /\ TeardownInv' /\ ResultsInv'
  BY <1>1 DEF TimersInv, SilenceInv, TeardownInv, ResultsInv, Ended, timers, conn
<1>4. DeliveryInv'
  BY <1>1 DEF DeliveryInv, Delivery, Whole, stream
<1>. QED  BY <1>2, <1>3, <1>4

\* The clock: what a timer has left and the recorded silence add up to the same.
LEMMA TickInv ==
  ASSUME RelayInv, Tick PROVE RelayInv'
<1>. USE DEF RelayInv, Tick
<1>1. RelayTypeOK'
  BY RelayNumbers DEF RelayTypeOK, TimersInv, SilenceInv, stream, Off
<1>2. TimersInv'
  <2>2. idleIn' + quiet' = idleIn + quiet
    BY RelayNumbers
  <2>3. CASE halfIn = Off
    BY <2>2, <2>3, RelayNumbers DEF TimersInv, Off
  <2>4. CASE halfIn # Off
    <3>1. halfIn' = halfIn - 1 /\ halfIn' + quiet' = halfIn + quiet
      BY <2>4, RelayNumbers
    <3>. QED  BY <2>2, <2>4, <3>1, RelayNumbers DEF TimersInv, Off
  <2>. QED  BY <2>3, <2>4
<1>3. SilenceInv' /\ TeardownInv' /\ ResultsInv'
  BY RelayNumbers DEF SilenceInv, TeardownInv, ResultsInv, Ended, conn
<1>4. DeliveryInv'
  BY DEF DeliveryInv, Delivery, Whole, stream
<1>. QED  BY <1>1, <1>2, <1>3, <1>4

\* Every step of relayTCP preserves the invariant.
LEMMA RelayStepInv ==
  ASSUME RelayInv, RelayNext PROVE RelayInv'
<1>1. CASE LoopCanceled
  BY <1>1, LeaveInv DEF LoopCanceled, RelayInv, RelayTypeOK
<1>. QED
  BY <1>1, EndsInv, CopyInv, CopyEndsInv, TakeResultInv, TimerFiresInv, DrainInv, TickInv
     DEF RelayNext, Copy, Loop

-----------------------------------------------------------------------------
(* The UDP association.  The write lock of an upstream socket covers setting *)
(* the deadline and the write; the goroutines and sockets are gone when the  *)
(* call returns.                                                             *)

\* A worker between locking and unlocking holds the lock of its network, and
\* the deadline is its own once it has set it.
LockInv ==
  \A w \in Workers :
    /\ worker[w].place \in {"deadline", "write"} => writeMu[worker[w].net] = w
    /\ worker[w].place = "write" => deadline[worker[w].net] = w

\* Nothing exists before the association starts; nothing is left when it has
\* returned.
LifeInv ==
  /\ assoc = "off" =>
       /\ sockets = "none" /\ control = "none" /\ packets = <<>>
       /\ \A s \in Sources : reader[s] = "none"
       /\ \A w \in Workers : worker[w].place = "none"
  /\ assoc \in {"close", "returned"} => sockets = "closed" /\ client # "open"
  /\ assoc = "returned" => GoroutinesEnded

\* What a reader posts: a request comes from the local socket only.
Posted ==
  [source : {"local"}, body : Requests \cup {"error"}]
    \cup [source : Networks, body : {"response", "error"}]

PostedInv ==
  /\ packets \in Seq(Posted)
  /\ \A s \in Sources :
       reader[s] \in {"none", "read", "done"} \/ [source |-> s, body |-> reader[s]] \in Posted

UdpInv == UdpTypeOK /\ LockInv /\ LifeInv /\ PostedInv
-----------------------------------------------------------------------------
\* The channel of packets has a capacity: the session has finitely many sockets.
LEMMA Capacity ==
  ASSUME NEW nets \in SUBSET Networks
  PROVE  Cardinality(nets) \in Nat
<1>1. IsFiniteSet({"udp4", "udp6"})
  <2>1. IsFiniteSet({"udp4"})
    BY FS_Singleton
  <2>2. {"udp4", "udp6"} = {"udp4"} \cup {"udp6"}
    OBVIOUS
  <2>. QED  BY <2>1, <2>2, FS_AddElement
<1>2. IsFiniteSet(nets)
  BY <1>1, FS_Subset, AssociateAssumption
<1>. QED  BY <1>2, FS_CardinalityType

\* handleUDPAssociate has not been called.
LEMMA UdpInitInv == UdpInit => UdpInv
<1>. SUFFICES ASSUME UdpInit PROVE UdpInv
  OBVIOUS
<1>1. UdpTypeOK
  <2>1. Cardinality(upstreams) \in Nat
    BY Capacity DEF UdpInit
  <2>2. At("none", "udp4") \in [place : Places, net : Networks]
    BY AssociateAssumption DEF At, Places
  <2>3. packets \in Seq(Datagram) /\ Len(packets) = 0 /\ requests \in Seq(Requests)
        /\ Len(requests) = 0
    BY DEF UdpInit
  <2>. QED  BY <2>1, <2>2, <2>3, AssociateAssumption DEF UdpInit, UdpTypeOK
<1>2. LockInv /\ LifeInv /\ PostedInv
  BY DEF UdpInit, LockInv, LifeInv, PostedInv, At
<1>. QED  BY <1>1, <1>2 DEF UdpInv

\* The goroutines of an association start.
LEMMA StartAssociationInv ==
  ASSUME UdpInv, assoc = "off", NEW nets \in SUBSET Networks, StartAssociation(nets)
  PROVE  UdpInv'
<1>. USE DEF UdpInv, StartAssociation
<1>1. UdpTypeOK'
  <2>1. Cardinality(nets) \in Nat
    BY Capacity
  <2>2. At("wait", "udp4") \in [place : Places, net : Networks]
    BY AssociateAssumption DEF At, Places
  <2>3. Len(packets) = 0
    BY DEF LifeInv
  <2>. QED  BY <2>1, <2>2, <2>3 DEF UdpTypeOK
<1>2. LockInv' /\ LifeInv' /\ PostedInv'
  BY DEF LockInv, LifeInv, PostedInv, At
<1>. QED  BY <1>1, <1>2

\* Steps of other parts of the handler do not reopen the client's socket.
LEMMA UdpUnchanged ==
  ASSUME UdpInv, UNCHANGED udpVars, client' = "open" => client = "open"
  PROVE  UdpInv'
BY DEF UdpInv, UdpTypeOK, LockInv, LifeInv, PostedInv, GoroutinesEnded,
       udpVars
-----------------------------------------------------------------------------
\* readPackets: the reader goroutine of a socket.
LEMMA ReaderInv ==
  ASSUME UdpInv, assoc # "off", NEW s \in Sources, Arrive(s) \/ ReadFails(s) \/ Post(s)
  PROVE  UdpInv'
<1>. USE DEF UdpInv
<1>1. UNCHANGED readerOnly /\ reader[s] \notin {"none", "done"}
  BY DEF Arrive, ReadFails, Post
<1>2. /\ arrived' \in [Sources -> Nat]
      /\ reader' \in [Sources -> {"none", "read", "done", "error"} \cup Requests \cup {"response"}]
  <2>1. CASE Arrive(s)
    <3>1. PICK body \in Requests \cup {"response"} : reader' = [reader EXCEPT ![s] = body]
      BY <2>1, AssociateAssumption DEF Arrive
    <3>. QED  BY <2>1, <3>1 DEF Arrive, UdpTypeOK
  <2>2. CASE ReadFails(s) \/ Post(s)
    BY <2>2 DEF ReadFails, Post, UdpTypeOK
  <2>. QED  BY <2>1, <2>2
<1>3. packets' \in Seq(Datagram) /\ Len(packets') <= Cardinality(upstreams) + 1
  <2>1. CASE packets' = packets
    BY <2>1 DEF UdpTypeOK
  <2>2. CASE packets' # packets
    <3>1. /\ packets' = Append(packets, [source |-> s, body |-> reader[s]])
          /\ Len(packets) < Cardinality(upstreams) + 1
          /\ reader[s] \notin {"none", "read", "done"}
      BY <2>2 DEF Arrive, ReadFails, Post
    <3>2. [source |-> s, body |-> reader[s]] \in Datagram
      BY <3>1 DEF UdpTypeOK, Datagram
    <3>3. Cardinality(upstreams) \in Nat
      BY Capacity DEF UdpTypeOK
    <3>. QED  BY <3>1, <3>2, <3>3 DEF UdpTypeOK
  <2>. QED  BY <2>1, <2>2
<1>4. UdpTypeOK'
  BY <1>1, <1>2, <1>3 DEF UdpTypeOK, readerOnly
<1>5. LockInv' /\ LifeInv'
  BY <1>1 DEF LockInv, LifeInv, readerOnly, conn, GoroutinesEnded
<1>6. PostedInv'
  <2>1. packets' \in Seq(Posted)
    BY DEF Arrive, ReadFails, Post, PostedInv
  <2>2. /\ \A t \in Sources \ {s} : reader'[t] = reader[t]
        /\ reader'[s] \in {"none", "read", "done"}
             \/ [source |-> s, body |-> reader'[s]] \in Posted
    BY AssociateAssumption DEF Arrive, ReadFails, Post, PostedInv, Posted, UdpTypeOK, Sources
  <2>. QED  BY <2>1, <2>2 DEF PostedInv
<1>. QED  BY <1>4, <1>5, <1>6

\* A worker that takes a request, resolves a name or waits keeps off the locks.
LEMMA IdleWorkerInv ==
  ASSUME UdpInv, assoc # "off", NEW w \in Workers, TakeRequest(w) \/ WorkerStops(w) \/ Resolve(w)
  PROVE  UdpInv'
<1>. USE DEF UdpInv
<1>1. /\ UNCHANGED <<workerOnly, writeMu, deadline>>
      /\ worker[w].place \in {"wait", "resolve"}
  BY DEF TakeRequest, WorkerStops, Resolve
<1>2. requests' \in Seq(Requests) /\ Len(requests') <= QueueSize
  <2>1. CASE requests' = requests
    BY <2>1 DEF UdpTypeOK
  <2>2. CASE requests # <<>> /\ requests' = Tail(requests)
    BY <2>2, HeadTailProperties, AssociateAssumption DEF UdpTypeOK
  <2>. QED  BY <2>1, <2>2 DEF TakeRequest, WorkerStops, Resolve
<1>3. PICK at \in [place : {"done", "resolve", "lock", "wait"}, net : Networks] :
        worker' = [worker EXCEPT ![w] = at]
  <2>1. \A place \in {"done", "resolve", "lock", "wait"}, net \in Networks :
          At(place, net) \in [place : {"done", "resolve", "lock", "wait"}, net : Networks]
    BY DEF At
  <2>2. "udp4" \in Networks /\ upstreams \subseteq Networks
    BY AssociateAssumption DEF UdpTypeOK
  <2>3. Forwarded(Head(requests)) \in [place : {"done", "resolve", "lock", "wait"}, net : Networks]
    BY <2>1, <2>2 DEF Forwarded
  <2>. QED  BY <2>1, <2>2, <2>3 DEF TakeRequest, WorkerStops, Resolve, Step
<1>4. UdpTypeOK'
  <2>1. worker' \in [Workers -> [place : Places, net : Networks]]
    BY <1>3 DEF UdpTypeOK, Places
  <2>. QED  BY <1>1, <1>2, <2>1 DEF UdpTypeOK, workerOnly
<1>5. \A v \in Workers : worker'[v] = IF v = w THEN at ELSE worker[v]
  BY <1>3 DEF UdpTypeOK
<1>6. LockInv'
  BY <1>1, <1>5 DEF LockInv, workerOnly
<1>7. LifeInv' /\ PostedInv'
  BY <1>1 DEF LifeInv, PostedInv, workerOnly, conn, GoroutinesEnded
<1>. QED  BY <1>4, <1>6, <1>7

\* forwardUDPRequest: the lock, the deadline, the write and the unlocking.
LEMMA ForwardInv ==
  ASSUME UdpInv, assoc # "off", NEW w \in Workers, Forward(w) \/ WriteTo(w)
  PROVE  UdpInv'
<1>. USE DEF UdpInv
<1>. DEFINE n == worker[w].net
<1>1. /\ UNCHANGED <<workerOnly, requests>>
      /\ worker[w].place \in {"lock", "deadline", "write"} /\ n \in Networks
  BY DEF Forward, Lock, SetWriteDeadline, WriteTo, UdpTypeOK
<1>2. PICK place \in {"wait", "deadline", "write"}, net \in Networks : Step(w, place, net)
  BY <1>1, AssociateAssumption DEF Forward, Lock, SetWriteDeadline, WriteTo, Unlock
<1>3. /\ writeMu' \in [Networks -> Workers \cup {Nobody}]
      /\ deadline' \in [Networks -> Workers \cup {Nobody}]
  BY DEF Forward, Lock, SetWriteDeadline, WriteTo, Unlock, UdpTypeOK
<1>4. worker' \in [Workers -> [place : Places, net : Networks]]
      /\ \A v \in Workers : worker'[v] = IF v = w THEN At(place, net) ELSE worker[v]
  <2>1. At(place, net) \in [place : Places, net : Networks]
    BY DEF At, Places
  <2>. QED  BY <1>2, <2>1 DEF Step, UdpTypeOK
<1>5. UdpTypeOK'
  BY <1>1, <1>3, <1>4 DEF UdpTypeOK, workerOnly
<1>6. LifeInv' /\ PostedInv'
  BY <1>1 DEF LifeInv, PostedInv, workerOnly, conn, GoroutinesEnded
<1>7. LockInv'
  <2>1. ASSUME NEW v \in Workers \ {w}
        PROVE  /\ worker[v].place \in {"deadline", "write"} =>
                    writeMu'[worker[v].net] = writeMu[worker[v].net]
               /\ worker[v].place = "write" =>
                    deadline'[worker[v].net] = deadline[worker[v].net]
    <3>1. worker[v].net \in Networks
      BY DEF UdpTypeOK
    <3>2. CASE Lock(w)
      <4>1. worker[v].place \in {"deadline", "write"} => writeMu[worker[v].net] # Nobody
        BY AssociateAssumption DEF LockInv
      <4>2. /\ writeMu[n] = Nobody /\ deadline' = deadline
            /\ \A m \in Networks \ {n} : writeMu'[m] = writeMu[m]
        BY <3>2 DEF Lock, UdpTypeOK
      <4>. QED  BY <3>1, <4>1, <4>2
    <3>3. CASE worker[w].place \in {"deadline", "write"}
      <4>1. worker[v].place \in {"deadline", "write"} => worker[v].net # n
        BY <3>3 DEF LockInv
      <4>2. \A m \in Networks \ {n} : writeMu'[m] = writeMu[m] /\ deadline'[m] = deadline[m]
        BY <3>3 DEF Forward, Lock, SetWriteDeadline, WriteTo, Unlock, UdpTypeOK
      <4>. QED  BY <3>1, <4>1, <4>2
    <3>. QED  BY <3>2, <3>3 DEF Forward, SetWriteDeadline, WriteTo
  <2>2. worker'[w].place \in {"deadline", "write"} => writeMu'[worker'[w].net] = w
    BY <1>1 DEF Forward, Lock, SetWriteDeadline, WriteTo, Unlock, LockInv, UdpTypeOK, Step, At
  <2>3. worker'[w].place = "write" => deadline'[worker'[w].net] = w
    BY <1>1 DEF Forward, Lock, SetWriteDeadline, WriteTo, Unlock, LockInv, UdpTypeOK, Step, At
  <2>4. \A v \in Workers \ {w} : worker'[v] = worker[v]
    BY <1>4
  <2>5. ASSUME NEW v \in Workers
        PROVE  /\ worker'[v].place \in {"deadline", "write"} => writeMu'[worker'[v].net] = v
               /\ worker'[v].place = "write" => deadline'[worker'[v].net] = v
    <3>1. CASE v = w
      BY <2>2, <2>3, <3>1
    <3>2. CASE v # w
      BY <2>1, <2>4, <3>2 DEF LockInv
    <3>. QED  BY <3>1, <3>2
  <2>. QED  BY <2>5 DEF LockInv
<1>. QED  BY <1>5, <1>6, <1>7
-----------------------------------------------------------------------------
\* The loop, its deferred function and the goroutine of the control connection.
LEMMA AssociationInv ==
  ASSUME UdpInv, assoc # "off",
         ControlCloses \/ AssociationEnds \/ TakePacket \/ AssociationReturns
  PROVE  UdpInv'
<1>. USE DEF UdpInv
<1>1. /\ UNCHANGED <<upstreams, arrived, reader, worker, writeMu, deadline>>
      /\ control' \in {control, "done"}
  BY DEF ControlCloses, AssociationEnds, TakePacket, AssociationReturns
<1>2. /\ packets' \in Seq(Datagram) /\ packets' \in Seq(Posted)
      /\ Len(packets') <= Cardinality(upstreams) + 1
  <2>1. CASE packets' = packets
    BY <2>1 DEF UdpTypeOK, PostedInv
  <2>2. CASE packets # <<>> /\ packets' = Tail(packets)
    <3>1. Cardinality(upstreams) \in Nat
      BY Capacity DEF UdpTypeOK
    <3>2. packets \in Seq(Datagram) /\ packets \in Seq(Posted)
      BY DEF UdpTypeOK, PostedInv
    <3>3. /\ Tail(packets) \in Seq(Datagram) /\ Tail(packets) \in Seq(Posted)
          /\ Len(Tail(packets)) = Len(packets) - 1 /\ Len(packets) \in Nat
      BY <2>2, <3>2, HeadTailProperties, LenProperties, Zenon
    <3>. QED  BY <2>2, <3>1, <3>3 DEF UdpTypeOK
  <2>. QED  BY <2>1, <2>2 DEF ControlCloses, AssociationEnds, TakePacket, AssociationReturns
<1>3. requests' \in Seq(Requests) /\ Len(requests') <= QueueSize
  <2>1. CASE requests' = requests
    BY <2>1 DEF UdpTypeOK
  <2>2. CASE requests' # requests
    <3>1. /\ packets # <<>> /\ Head(packets).source = "local" /\ Head(packets).body # "error"
          /\ Len(requests) < QueueSize /\ requests' = Append(requests, Head(packets).body)
      BY <2>2 DEF ControlCloses, AssociationEnds, TakePacket, AssociationReturns
    <3>2. packets \in Seq(Posted)
      BY DEF PostedInv
    <3>3. Head(packets) \in Posted
      BY <3>1, <3>2, HeadTailProperties, Zenon
    <3>4. Head(packets).body \in Requests
      BY <3>1, <3>3, AssociateAssumption DEF Posted
    <3>. QED  BY <3>1, <3>4, AssociateAssumption DEF UdpTypeOK
  <2>. QED  BY <2>1, <2>2
<1>4. UdpTypeOK'
  <2>1. assoc' \in {"loop", "close", "returned"} /\ sockets' \in {sockets, "closed"}
    BY DEF ControlCloses, AssociationEnds, TakePacket, AssociationReturns, CloseAll, UdpTypeOK, conn
  <2>. QED  BY <1>1, <1>2, <1>3, <2>1 DEF UdpTypeOK
<1>5. LockInv' /\ PostedInv'
  BY <1>1, <1>2 DEF LockInv, PostedInv
<1>6. LifeInv'
  <2>1. CASE ControlCloses
    BY <2>1 DEF ControlCloses, LifeInv, GoroutinesEnded, conn
  <2>2. CASE AssociationEnds
    BY <2>2 DEF AssociationEnds, LifeInv, CloseAll, CloseClient
  <2>3. CASE TakePacket
    BY <2>3 DEF TakePacket, LifeInv, CloseAll, CloseClient, conn
  <2>4. CASE AssociationReturns
    BY <2>4 DEF AssociationReturns, LifeInv, GoroutinesEnded, conn
  <2>. QED  BY <2>1, <2>2, <2>3, <2>4
<1>. QED  BY <1>4, <1>5, <1>6

\* Every step of an association preserves the invariant.
LEMMA UdpStepInv ==
  ASSUME UdpInv, assoc # "off", UdpNext PROVE UdpInv'
BY ReaderInv, IdleWorkerInv, ForwardInv, AssociationInv DEF UdpNext, Worker

-----------------------------------------------------------------------------
(* handle.                                                                   *)

\* The relay and the association run only where handle calls them, and have
\* returned before handle does; the socket of the dialer is handle's business
\* until it is the relay's.
PhaseInv ==
  /\ phase \notin {"connect", "ended"} => relay = "off"
  /\ phase \notin {"associate", "ended"} => assoc = "off"
  /\ phase = "connect" => relay # "off"
  /\ phase = "associate" => assoc # "off"
  /\ phase \in {"greet", "auth", "request", "dial", "listen", "associate"} => upstream = "none"
  /\ phase = "ended" =>
       /\ relay \in {"off", "returned"} /\ assoc \in {"off", "returned"}
       /\ client # "open" /\ upstream # "open"

\* Nothing is answered before the relay or the association starts or handle
\* ends.
AnswerInv ==
  /\ replies \in {<<>>, <<"ok">>, <<"general">>, <<"command">>, <<"address">>}
  /\ relay # "off" \/ assoc # "off" <=> replies = <<"ok">>
  /\ phase \notin {"connect", "associate", "ended"} => replies = <<>> /\ client # "closed"
  /\ phase \in {"greet", "auth", "request"} => ~commanded
  /\ phase \in {"dial", "reply", "listen", "connect", "associate"} => commanded
  /\ phase \notin {"greet", "auth", "ended"} => authed
  /\ commanded => authed
  /\ phase = "ended" /\ commanded => Len(replies) = 1 \/ expired \/ client = "swept"

ShakeTypeOK ==
  ConnTypeOK /\ authed \in BOOLEAN /\ commanded \in BOOLEAN /\ expired \in BOOLEAN

ClientInv == ShakeTypeOK /\ RelayInv /\ UdpInv /\ PhaseInv /\ AnswerInv
-----------------------------------------------------------------------------
\* handle dials and closes the socket of the dialer before the relay starts.
LEMMA UpstreamInv ==
  ASSUME RelayInv, relay = "off", upstream' \in {"none", "open", "closed"},
         UNCHANGED <<relay, outcome, stream, copier, results, completed, timers>>
  PROVE  RelayInv'
BY DEF RelayInv, RelayTypeOK, TimersInv, SilenceInv, ResultsInv, TeardownInv, DeliveryInv,
       Delivery, Ended, Whole, Off, stream, timers

\* A reply is written whole or not at all.
LEMMA ReplyIs ==
  ASSUME replies = <<>>, NEW status, NEW late, Reply(status, late)
  PROVE  /\ replies' = <<>> \/ replies' = <<status>>
         /\ replies' = <<>> <=> client # "open" \/ late
BY DEF Reply

\* No step of handle but those of Serve cancels the context or marks the socket
\* as closed by Serve, and none reopens it.
LEMMA HandlerSteps ==
  ASSUME Handshake \/ Relaying \/ Associating
  PROVE  /\ phase # "ended" /\ ctxDone' = ctxDone
         /\ client' \in {client, "closed"}
<1>1. CASE Handshake
  BY <1>1 DEF Handshake, Negotiate, Authenticate, HandshakeFails, ReadRequest, Dial, Connected,
              Listen, Finish, Enter, End, CloseClient
<1>2. CASE Relaying
  BY <1>2 DEF Relaying, RelayNext, Send, CloseSide, Copy, Read, Write, Record, CloseWrite, CopyFails,
              copierOnly, Loop, LoopCanceled, TakeResult, HalfCloseFires, IdleFires, Drain, Tick,
              Leave, CloseClient, conn
<1>3. CASE Associating
  BY <1>3 DEF Associating, UdpNext, Arrive, ReadFails, Post, readerOnly, Worker, TakeRequest,
              WorkerStops, Resolve, Forward, Lock, SetWriteDeadline, WriteTo, workerOnly,
              ControlCloses, AssociationEnds, TakePacket, AssociationReturns, CloseAll, CloseClient,
              conn
<1>. QED  BY <1>1, <1>2, <1>3
-----------------------------------------------------------------------------
\* handle has been started for an accepted connection.
LEMMA ClientInit == Init => ClientInv
<1>. SUFFICES ASSUME Init PROVE ClientInv
  OBVIOUS
<1>1. RelayInv /\ UdpInv
  BY RelayInitInv, UdpInitInv DEF Init
<1>2. ShakeTypeOK /\ PhaseInv /\ AnswerInv
  BY DEF Init, ConnInit, RelayInit, UdpInit, ShakeTypeOK, ConnTypeOK, Phases, PhaseInv, AnswerInv
<1>. QED  BY <1>1, <1>2 DEF ClientInv

\* The steps of handle before relayTCP or handleUDPAssociate, and its end.
LEMMA HandshakeInv ==
  ASSUME ClientInv, Handshake PROVE ClientInv'
<1>. USE DEF ClientInv
<1>. DEFINE Kept == UNCHANGED <<relayVars, udpVars>>
<1>1. client' = "open" => client = "open"
  BY HandlerSteps
<1>2. ASSUME Kept PROVE RelayInv' /\ UdpInv'
  BY <1>1, <1>2, RelayUnchanged, UdpUnchanged
<1>3. CASE Negotiate \/ Authenticate \/ HandshakeFails
  <2>1. Kept /\ replies' = replies /\ commanded' = commanded /\ expired' = expired
    BY <1>3 DEF Negotiate, Authenticate, HandshakeFails, shake
  <2>2. ShakeTypeOK'
    BY <1>3, <2>1 DEF Negotiate, Authenticate, HandshakeFails, shake, Enter, End, CloseClient,
                      ShakeTypeOK, ConnTypeOK, Phases
  <2>3. /\ phase \in {"greet", "auth"} /\ replies = <<>> /\ ~commanded /\ ~commanded'
        /\ \/ phase' \in {"auth", "request"} /\ client' = client
           \/ phase' = "ended" /\ client' # "open"
        /\ phase' = "request" => authed'
    <3>1. phase \in {"greet", "auth"} /\ replies = <<>>
      BY <1>3 DEF Negotiate, Authenticate, HandshakeFails, AnswerInv
    <3>2. ~commanded
      BY <3>1 DEF AnswerInv
    <3>. QED  BY <1>3, <2>1, <3>1, <3>2 DEF Negotiate, Authenticate, HandshakeFails, Enter, End,
                                            CloseClient, shake, ShakeTypeOK
  <2>4. PhaseInv'
    BY <2>1, <2>3 DEF PhaseInv, relayVars, udpVars
  <2>5. AnswerInv'
    BY <2>1, <2>3 DEF PhaseInv, AnswerInv, relayVars, udpVars
  <2>. QED  BY <1>2, <2>1, <2>2, <2>4, <2>5
<1>4. CASE ReadRequest
  <2>1. Kept /\ authed' = authed /\ expired' = expired
    BY <1>4 DEF ReadRequest
  <2>2. ShakeTypeOK'
    BY <1>4, <2>1 DEF ReadRequest, Enter, End, CloseClient, ShakeTypeOK, ConnTypeOK, Phases
  <2>3. PhaseInv'
    BY <1>4, <2>1 DEF ReadRequest, Enter, End, CloseClient, PhaseInv, ShakeTypeOK, ConnTypeOK,
                      relayVars, udpVars
  <2>4. AnswerInv'
    <3>1. /\ phase = "request" /\ replies = <<>> /\ relay' = "off" /\ assoc' = "off" /\ authed'
          /\ client # "closed"
      BY <1>4, <2>1 DEF ReadRequest, PhaseInv, AnswerInv, relayVars, udpVars
    <3>2. CASE phase' \in {"dial", "listen"}
      BY <1>4, <3>1, <3>2 DEF ReadRequest, Enter, End, AnswerInv
    <3>3. CASE phase' \notin {"dial", "listen"}
      <4>1. /\ End /\ \E status \in {"command", "address"} : Reply(status, FALSE)
        BY <1>4, <3>3 DEF ReadRequest, Enter
      <4>2. (replies' = <<>> /\ client # "open") \/ replies' \in {<<"command">>, <<"address">>}
        BY <3>1, <4>1, ReplyIs
      <4>. QED  BY <3>1, <4>1, <4>2 DEF End, CloseClient, AnswerInv, ShakeTypeOK, ConnTypeOK
    <3>. QED  BY <3>2, <3>3
  <2>. QED  BY <1>2, <2>1, <2>2, <2>3, <2>4
<1>5. CASE Dial
  <2>1. /\ phase = "dial" /\ relay = "off" /\ assoc = "off" /\ replies = <<>> /\ upstream = "none"
        /\ UNCHANGED <<relay, outcome, stream, copier, results, completed, timers, udpVars,
                       authed, commanded>>
    BY <1>5 DEF Dial, PhaseInv, AnswerInv
  <2>2. RelayInv' /\ UdpInv'
    BY <1>1, <1>5, <2>1, UpstreamInv, UdpUnchanged DEF Dial
  <2>3. ShakeTypeOK' /\ PhaseInv'
    BY <1>5, <2>1 DEF Dial, Enter, End, CloseClient, ShakeTypeOK, ConnTypeOK, Phases, PhaseInv,
                      udpVars
  <2>4. AnswerInv'
    BY <1>5, <2>1 DEF Dial, Reply, Enter, End, CloseClient, PhaseInv, AnswerInv, ShakeTypeOK,
                      ConnTypeOK, udpVars
  <2>. QED  BY <2>2, <2>3, <2>4
<1>6. CASE Connected
  <2>1. /\ phase = "reply" /\ relay = "off" /\ assoc = "off" /\ replies = <<>>
        /\ Reply("ok", expired) /\ UNCHANGED <<udpVars, authed, commanded, expired>>
    BY <1>6 DEF Connected, PhaseInv, AnswerInv
  <2>2. CASE replies' # replies
    <3>1. StartRelay /\ Enter("connect") /\ UNCHANGED upstream
      BY <1>6, <2>2 DEF Connected
    <3>2. RelayInv' /\ UdpInv'
      BY <1>1, <2>1, <3>1, StartRelayInv, UdpUnchanged
    <3>. QED  BY <2>1, <2>2, <3>1, <3>2 DEF Reply, StartRelay, Enter, ShakeTypeOK, ConnTypeOK, Phases,
                                            PhaseInv, AnswerInv, udpVars
  <2>3. CASE replies' = replies
    <3>1. /\ upstream' = "closed" /\ End
          /\ UNCHANGED <<relay, outcome, stream, copier, results, completed, timers>>
      BY <1>6, <2>3 DEF Connected
    <3>2. RelayInv' /\ UdpInv'
      BY <1>1, <2>1, <3>1, UpstreamInv, UdpUnchanged
    <3>3. client # "open" \/ expired
      BY <2>1, <2>3, ReplyIs
    <3>. QED  BY <2>1, <2>3, <3>1, <3>2, <3>3 DEF End, CloseClient, ShakeTypeOK, ConnTypeOK, Phases,
                                                  PhaseInv, AnswerInv, udpVars
  <2>. QED  BY <2>2, <2>3
<1>7. CASE Listen
  <2>1. /\ phase = "listen" /\ relay = "off" /\ assoc = "off" /\ replies = <<>>
        /\ upstream = "none" /\ UNCHANGED <<relayVars, authed, commanded, expired>>
    BY <1>7 DEF Listen, PhaseInv, AnswerInv
  <2>2. CASE UNCHANGED udpVars /\ End
    <3>1. (replies' = <<>> /\ client # "open") \/ replies' = <<"general">>
      BY <1>7, <2>1, <2>2 DEF Listen, Reply, StartAssociation, udpVars
    <3>. QED  BY <1>2, <2>1, <2>2, <3>1 DEF End, CloseClient, ShakeTypeOK, ConnTypeOK, Phases,
                                            PhaseInv, AnswerInv, relayVars, udpVars
  <2>3. ASSUME NEW nets \in SUBSET Networks, StartAssociation(nets), Enter("associate"),
               Reply("ok", FALSE), replies' # replies
        PROVE  ClientInv'
    <3>1. RelayInv' /\ UdpInv'
      BY <1>1, <2>1, <2>3, RelayUnchanged, StartAssociationInv
    <3>. QED  BY <2>1, <2>3, <3>1 DEF Reply, StartAssociation, Enter, ShakeTypeOK, ConnTypeOK, Phases,
                                      PhaseInv, AnswerInv, relayVars
  <2>. QED  BY <1>7, <2>2, <2>3 DEF Listen
<1>8. CASE Finish
  <2>1. Kept /\ UNCHANGED shake /\ End
    BY <1>8 DEF Finish
  <2>2. relay \in {"off", "returned"} /\ assoc \in {"off", "returned"} /\ upstream # "open"
    BY <1>8 DEF Finish, PhaseInv, RelayInv, TeardownInv
  <2>. QED  BY <1>2, <1>8, <2>1, <2>2 DEF Finish, End, CloseClient, ShakeTypeOK, ConnTypeOK, Phases,
                                           PhaseInv, AnswerInv, relayVars, udpVars, shake
<1>. QED  BY <1>3, <1>4, <1>5, <1>6, <1>7, <1>8 DEF Handshake

\* Serve cancels the context or closes the socket.
LEMMA ServerInv ==
  ASSUME ClientInv, Server PROVE ClientInv'
<1>. USE DEF ClientInv
<1>1. /\ UNCHANGED <<relayVars, udpVars, shake, phase>> /\ phase # "ended"
      /\ \/ client' = client /\ ctxDone' = TRUE
         \/ client' = "swept" /\ ctxDone' = ctxDone
  BY DEF Server, CancelServer, SweepClient
<1>2. RelayInv' /\ UdpInv'
  BY <1>1, RelayUnchanged, UdpUnchanged
<1>. QED  BY <1>1, <1>2 DEF ShakeTypeOK, ConnTypeOK, PhaseInv, AnswerInv, relayVars, udpVars, shake

\* While relayTCP runs, handle stays in it.
LEMMA RelayingInv ==
  ASSUME ClientInv, Relaying PROVE ClientInv'
<1>. USE DEF ClientInv
<1>1. phase = "connect" /\ RelayNext /\ UNCHANGED <<udpVars, shake>> /\ RelayInv'
  BY RelayStepInv DEF Relaying
<1>2. ctxDone' = ctxDone /\ client' \in {client, "closed"} /\ phase' = phase /\ relay' # "off"
  BY <1>1 DEF RelayNext, Send, CloseSide, Copy, Read, Write, Record, CloseWrite, CopyFails,
              copierOnly, Loop, LoopCanceled, TakeResult, HalfCloseFires, IdleFires, Drain, Tick,
              Leave, CloseClient, conn, PhaseInv
<1>3. UdpInv'
  BY <1>1, <1>2, UdpUnchanged
<1>. QED  BY <1>1, <1>2, <1>3 DEF ShakeTypeOK, ConnTypeOK, PhaseInv, AnswerInv, udpVars, shake

\* While the loop of handleUDPAssociate runs, handle stays in it.
LEMMA AssociatingInv ==
  ASSUME ClientInv, Associating PROVE ClientInv'
<1>. USE DEF ClientInv
<1>1. /\ phase = "associate" /\ assoc # "off" /\ UdpNext /\ UNCHANGED <<relayVars, shake>>
      /\ UdpInv'
  BY UdpStepInv DEF Associating, PhaseInv
<1>2. ctxDone' = ctxDone /\ client' \in {client, "closed"} /\ phase' = phase /\ assoc' # "off"
  BY <1>1 DEF UdpNext, Arrive, ReadFails, Post, readerOnly, Worker, TakeRequest,
              WorkerStops, Resolve, Forward, Lock, SetWriteDeadline, WriteTo, workerOnly,
              ControlCloses, AssociationEnds, TakePacket, AssociationReturns, CloseAll, CloseClient,
              conn
<1>3. RelayInv'
  BY <1>1, <1>2, RelayUnchanged
<1>. QED  BY <1>1, <1>2, <1>3 DEF ShakeTypeOK, ConnTypeOK, PhaseInv, AnswerInv, relayVars, shake

\* The invariant of handle.
LEMMA ClientInvariant == Spec => []ClientInv
<1>1. ASSUME ClientInv, UNCHANGED vars PROVE ClientInv'
  <2>1. UNCHANGED <<conn, relayVars, udpVars, shake>>
    BY <1>1 DEF vars
  <2>2. RelayInv' /\ UdpInv'
    BY <1>1, <2>1, RelayUnchanged, UdpUnchanged DEF ClientInv, conn
  <2>. QED  BY <1>1, <2>1, <2>2 DEF ClientInv, ShakeTypeOK, ConnTypeOK, PhaseInv, AnswerInv, conn,
                                    relayVars, udpVars, shake
<1>2. ClientInv /\ [Next]_vars => ClientInv'
  BY <1>1, HandshakeInv, ServerInv, RelayingInv, AssociatingInv DEF Next
<1>. QED  BY ClientInit, <1>2, PTL DEF Spec
-----------------------------------------------------------------------------
\* Every variable of handle, relayTCP and handleUDPAssociate keeps its type; the
\* channels keep within their capacities.
THEOREM TypeCorrect == Spec => []TypeOK
<1>1. ClientInv => TypeOK
  <2>. SUFFICES ASSUME ClientInv PROVE TypeOK
    OBVIOUS
  <2>1. replies \in Seq({"ok", "general", "command", "address"})
    <3>1. \A S, s : s \in S => <<s>> \in Seq(S)
      OBVIOUS
    <3>. QED  BY <3>1, EmptySeq DEF ClientInv, AnswerInv
  <2>. QED  BY <2>1 DEF ClientInv, ShakeTypeOK, RelayInv, UdpInv, TypeOK
<1>. QED  BY <1>1, ClientInvariant, PTL

\* One reply per request that was read, and traffic is relayed exactly for the
\* clients that were told so, after the password when there is one.
THEOREM AnswersOnce == Spec => []RepliedOnce
<1>1. ClientInv => RepliedOnce
  <2>. SUFFICES ASSUME ClientInv PROVE RepliedOnce
    OBVIOUS
  <2>1. Len(replies) <= 1
    BY DEF ClientInv, AnswerInv
  <2>. QED  BY <2>1 DEF ClientInv, AnswerInv, RepliedOnce
<1>. QED  BY <1>1, ClientInvariant, PTL

\* relayTCP ends after the idle timeout or the half-close timeout, counted from
\* the last recorded activity: re-arming a timer never adds to it.
THEOREM Lingers == Spec => []LingersNoLonger
<1>1. ClientInv => LingersNoLonger
  BY DEF ClientInv, RelayInv, TimersInv, LingersNoLonger
<1>. QED  BY <1>1, ClientInvariant, PTL

\* relayTCP that ends without an error has delivered everything, both ways.
THEOREM Delivers == Spec => []DeliveredWhole
<1>1. ClientInv => DeliveredWhole
  BY DEF ClientInv, RelayInv, DeliveryInv, Delivery, Whole, DeliveredWhole
<1>. QED  BY <1>1, ClientInvariant, PTL

\* forwardUDPRequest writes under the deadline of its own request.
THEOREM Deadlines == Spec => []OwnDeadline
<1>1. ClientInv => OwnDeadline
  BY DEF ClientInv, UdpInv, LockInv, OwnDeadline
<1>. QED  BY <1>1, ClientInvariant, PTL

\* A timeout of relayTCP never cuts a relay that delivered a chunk within it.
THEOREM CutsOnlySilence == Spec => NotCutShort
<1>. DEFINE Cut ==
       (\A d \in Directions : copier[d] # "record") =>
         /\ outcome' = "idle" /\ outcome = "none" => silent >= IdleTimeout
         /\ outcome' = "half" /\ outcome = "none" => silent >= HalfCloseTimeout
<1>1. ASSUME ClientInv, Next, outcome' # outcome, outcome' \in {"idle", "half"}
      PROVE  /\ outcome' = "idle" => quiet >= IdleTimeout
             /\ outcome' = "half" => quiet >= HalfCloseTimeout
  <2>1. RelayNext
    BY <1>1 DEF Next, Handshake, Negotiate, Authenticate, HandshakeFails, ReadRequest, Dial,
                Connected, StartRelay, Listen, Finish, Server, Relaying, Associating, relayVars
  <2>2. HalfCloseFires \/ IdleFires
    BY <1>1, <2>1 DEF RelayNext, Send, CloseSide, Copy, Read, Write, Record, CloseWrite, CopyFails,
                      copierOnly, Loop, LoopCanceled, TakeResult, Drain, Tick, Leave
  <2>. QED  BY <1>1, <2>2 DEF HalfCloseFires, IdleFires, Leave
<1>2. ClientInv /\ [Next]_vars => [Cut]_vars
  BY <1>1 DEF ClientInv, RelayInv, SilenceInv
<1>. QED  BY <1>2, ClientInvariant, PTL DEF Spec, NotCutShort
-----------------------------------------------------------------------------
\* Once handle has returned, no goroutine of it runs and no socket is open.
LEMMA NothingHeld ==
  ASSUME ClientInv', phase' = "ended" PROVE Held' = {}
<1>. USE DEF ClientInv
<1>1. upstream' # "open"
  BY DEF PhaseInv
<1>2. \A d \in Directions : copier'[d] \in {"none", "done"}
  <2>1. CASE relay' = "off"
    BY <2>1 DEF RelayInv, TeardownInv
  <2>2. CASE relay' = "returned"
    BY <2>2 DEF RelayInv, RelayTypeOK, ResultsInv, Ended, Directions
  <2>. QED  BY <2>1, <2>2 DEF PhaseInv
<1>3. /\ sockets' # "open" /\ control' # "copy"
      /\ \A s \in Sources : reader'[s] \in {"none", "done"}
      /\ \A w \in Workers : worker'[w].place \in {"none", "done"}
  BY DEF PhaseInv, UdpInv, LifeInv, GoroutinesEnded
<1>. QED  BY <1>1, <1>2, <1>3 DEF Held

\* handle implements what Handler lets it do: after it has returned it holds
\* nothing and never will again, and only Serve cancels its context.
THEOREM ImplementsHandler == Spec => Promise!Init /\ [][Promise!Next]_Promise!vars
<1>1. Init => Promise!Init
  <2>. SUFFICES ASSUME Init PROVE Promise!Init
    OBVIOUS
  <2>1. Held = {}
    BY DEF Held, Init, RelayInit, UdpInit, At
  <2>. QED  BY <2>1 DEF Init, ConnInit, Promise!Init
<1>2. ASSUME ClientInv, ClientInv', Next PROVE Promise!Next
  <2>1. CASE Server
    BY <2>1 DEF Server, CancelServer, SweepClient, Promise!Next, Promise!Cancel, Promise!Sweep, Held,
                relayVars, udpVars
  <2>2. CASE (Handshake \/ Relaying \/ Associating) /\ phase' = "ended"
    <3>1. Held' = {} /\ client' # "open"
      BY <1>2, <2>2, NothingHeld DEF ClientInv, PhaseInv
    <3>. QED  BY <2>2, <3>1, HandlerSteps DEF Promise!Next, Promise!Return
  <2>3. CASE (Handshake \/ Relaying \/ Associating) /\ phase' # "ended"
    BY <2>3, HandlerSteps DEF Promise!Next, Promise!Work, Held
  <2>. QED  BY <1>2, <2>1, <2>2, <2>3 DEF Next
<1>3. ASSUME UNCHANGED vars PROVE UNCHANGED Promise!vars
  BY <1>3 DEF vars, conn, relayVars, udpVars, Promise!vars, Held
<1>4. ClientInv /\ ClientInv' /\ [Next]_vars => [Promise!Next]_Promise!vars
  BY <1>2, <1>3
<1>. QED  BY <1>1, <1>4, ClientInvariant, PTL DEF Spec
=============================================================================
