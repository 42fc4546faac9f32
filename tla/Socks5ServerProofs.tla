-------------------------- MODULE Socks5ServerProofs --------------------------
(***************************************************************************)
(* The SOCKS5 service and its accept loop, for any sets of callers and     *)
(* connections and any number of restarts: what is left when Service.done  *)
(* is closed, and whose state the service reports.                         *)
(***************************************************************************)
EXTENDS Socks5Server, TLAPS

\* Serve runs, until handlers.Wait has returned.
Serving == serve \in {"accept", "store", "close", "wait"}

\* Service.done is open as long as the goroutine of the service exists, and
\* only Serve before its deferred function has the listener open.
DoneInv ==
  /\ done = "open" <=> serve # "none"
  /\ listener = "open" => serve \in {"accept", "store", "close"}
  /\ running <=> Serving \/ serve = "stopped"

\* A connection is in the map exactly while its handler runs, which is from
\* Store on; before, Serve has it in its hands.  What was served is closed.
ConnsInv ==
  /\ table = handler /\ (handler # {} => Serving)
  /\ accepted # None <=> serve = "store"
  /\ accepted \notin handler
  /\ \A c \in Conns :
       /\ conn[c] = "accepted" <=> c \in handler \/ accepted = c
       /\ conn[c] = "gone" => socket[c] = "closed"

ServerInv == TypeOK /\ DoneInv /\ ConnsInv
-----------------------------------------------------------------------------
\* appStart has started the service.
LEMMA InitServerInv == Init => ServerInv
<1>. SUFFICES ASSUME Init PROVE ServerInv
  OBVIOUS
<1>1. TypeOK
  <2>1. 0 \in 0..MaxCalls
    BY ServerAssumption
  <2>2. /\ caller \in [Callers -> {"idle", "stop", "stopping", "restart", "restarting", "start"}]
        /\ conn \in [Conns -> {"away", "waiting", "accepted", "gone"}]
        /\ socket \in [Conns -> {"open", "closed"}]
    BY DEF Init
  <2>. QED  BY <2>1, <2>2 DEF Init, TypeOK
<1>2. DoneInv
  BY DEF Init, DoneInv, Serving
<1>3. ConnsInv
  BY ServerAssumption DEF Init, ConnsInv, Serving
<1>. QED  BY <1>1, <1>2, <1>3 DEF ServerInv

\* Start, Stop and Restart: a Serve that has not closed done is left alone.
LEMMA CallerInv ==
  ASSUME ServerInv,
         \/ CallStop
         \/ \E c \in Callers : CallRestart(c) \/ BeginStop(c) \/ EndStop(c) \/ Start(c)
  PROVE  ServerInv'
<1>. USE DEF ServerInv
<1>1. CASE CallStop
  BY <1>1, ServerAssumption DEF CallStop, At, TypeOK, DoneInv, ConnsInv, Serving, clients
<1>2. ASSUME NEW c \in Callers, CallRestart(c) PROVE ServerInv'
  BY <1>2, ServerAssumption DEF CallRestart, At, TypeOK, DoneInv, ConnsInv, Serving, clients
<1>3. ASSUME NEW c \in Callers, BeginStop(c) PROVE ServerInv'
  BY <1>3 DEF BeginStop, At, AfterStop, TypeOK, DoneInv, ConnsInv, Serving, clients
<1>4. ASSUME NEW c \in Callers, EndStop(c) PROVE ServerInv'
  BY <1>4 DEF EndStop, At, AfterStop, TypeOK, DoneInv, ConnsInv, Serving, clients
<1>5. ASSUME NEW c \in Callers, Start(c) PROVE ServerInv'
  <2>1. TypeOK'
    <3>1. caller' \in [Callers -> {"idle", "stop", "stopping", "restart", "restarting", "start"}]
      BY <1>5 DEF Start, At, TypeOK
    <3>2. /\ done' \in {"nil", "open", "closed"} /\ canceled' \in BOOLEAN
          /\ listener' \in {"none", "open", "closed"} /\ watcher' \in {"wait", "sweep", "done"}
          /\ serve' \in {"none", "accept", "store", "close", "wait", "stopped", "done"}
          /\ running' \in BOOLEAN
      BY <1>5 DEF Start, TypeOK
    <3>. QED  BY <1>5, <3>1, <3>2 DEF Start, TypeOK, clients
  <2>2. DoneInv'
    BY <1>5, ServerAssumption DEF Start, At, DoneInv, Serving
  <2>3. ConnsInv'
    BY <1>5 DEF Start, DoneInv, ConnsInv, Serving, clients
  <2>. QED  BY <2>1, <2>2, <2>3
<1>. QED  BY <1>1, <1>2, <1>3, <1>4, <1>5

\* The client connects, Serve accepts and stores it, its handler returns.
LEMMA ConnectionInv ==
  ASSUME ServerInv, NEW c \in Conns,
         Connect(c) \/ Accept(c) \/ HandlerReturns(c) \/ (accepted = c /\ Store)
  PROVE  ServerInv'
<1>. USE DEF ServerInv, serveOnly, service
<1>1. c # None
  BY ServerAssumption
<1>2. CASE Connect(c)
  BY <1>2 DEF Connect, TypeOK, DoneInv, ConnsInv, Serving
<1>3. CASE Accept(c)
  <2>1. TypeOK'
    BY <1>1, <1>3 DEF Accept, TypeOK
  <2>2. DoneInv'
    BY <1>1, <1>3 DEF Accept, DoneInv, Serving
  <2>3. ConnsInv'
    <3>1. accepted = None /\ c \notin handler /\ Serving /\ Serving'
      BY <1>3 DEF Accept, ConnsInv, Serving
    <3>2. \A d \in Conns : conn'[d] = IF d = c THEN "accepted" ELSE conn[d]
      BY <1>3 DEF Accept, TypeOK
    <3>3. ASSUME NEW d \in Conns
          PROVE  /\ conn'[d] = "accepted" <=> d \in handler' \/ accepted' = d
                 /\ conn'[d] = "gone" => socket'[d] = "closed"
      <4>1. d # None
        BY ServerAssumption
      <4>. QED  BY <1>3, <3>1, <3>2, <4>1 DEF Accept, ConnsInv
    <3>. QED  BY <1>1, <1>3, <3>1, <3>3 DEF Accept, ConnsInv
  <2>. QED  BY <2>1, <2>2, <2>3
<1>4. CASE HandlerReturns(c)
  <2>1. TypeOK'
    BY <1>4 DEF HandlerReturns, TypeOK
  <2>2. DoneInv'
    BY <1>4 DEF HandlerReturns, DoneInv, Serving
  <2>3. ConnsInv'
    <3>1. /\ \A d \in Conns : conn'[d] = IF d = c THEN "gone" ELSE conn[d]
          /\ \A d \in Conns : socket'[d] = IF d = c THEN "closed" ELSE socket[d]
      BY <1>4 DEF HandlerReturns, TypeOK
    <3>2. accepted # c
      BY <1>4 DEF HandlerReturns, ConnsInv
    <3>. QED  BY <1>4, <3>1, <3>2 DEF HandlerReturns, ConnsInv, Serving
  <2>. QED  BY <2>1, <2>2, <2>3
<1>5. CASE accepted = c /\ Store
  <2>1. TypeOK'
    BY <1>1, <1>5, ServerAssumption DEF Store, TypeOK
  <2>2. DoneInv'
    BY <1>1, <1>5, ServerAssumption DEF Store, DoneInv, Serving
  <2>3. ConnsInv'
    BY <1>1, <1>5, ServerAssumption DEF Store, TypeOK, ConnsInv, Serving
  <2>. QED  BY <2>1, <2>2, <2>3
<1>. QED  BY <1>2, <1>3, <1>4, <1>5

\* The end of Serve and of its goroutine, and the goroutine that waits for the
\* context: what they close stays closed.
LEMMA EndsInv ==
  ASSUME ServerInv, AcceptFails \/ ServeCloses \/ ServeReturns \/ CloseDone \/ Watch
  PROVE  ServerInv'
<1>. USE DEF ServerInv, serveOnly, service, clients
<1>1. CASE AcceptFails
  BY <1>1 DEF AcceptFails, TypeOK, DoneInv, ConnsInv, Serving
<1>2. CASE ServeCloses
  <2>1. TypeOK'
    BY <1>2 DEF ServeCloses, CloseConnections, TypeOK
  <2>2. DoneInv'
    BY <1>2 DEF ServeCloses, CloseConnections, DoneInv, Serving
  <2>3. ConnsInv'
    BY <1>2 DEF ServeCloses, CloseConnections, TypeOK, ConnsInv, Serving
  <2>. QED  BY <2>1, <2>2, <2>3
<1>3. CASE ServeReturns
  BY <1>3 DEF ServeReturns, TypeOK, DoneInv, ConnsInv, Serving
<1>4. CASE CloseDone
  <2>1. TypeOK'
    BY <1>4 DEF CloseDone, TypeOK
  <2>2. DoneInv'
    BY <1>4 DEF CloseDone, TypeOK, DoneInv, Serving
  <2>3. ConnsInv'
    BY <1>4 DEF CloseDone, ConnsInv, Serving
  <2>. QED  BY <2>1, <2>2, <2>3
<1>5. CASE Watch
  <2>1. TypeOK'
    BY <1>5 DEF Watch, CloseConnections, TypeOK
  <2>2. DoneInv'
    BY <1>5 DEF Watch, CloseConnections, DoneInv, Serving
  <2>3. ConnsInv'
    BY <1>5 DEF Watch, CloseConnections, TypeOK, ConnsInv, Serving
  <2>. QED  BY <2>1, <2>2, <2>3
<1>. QED  BY <1>1, <1>2, <1>3, <1>4, <1>5

\* The invariant of the service.
LEMMA ServerInvariant == Spec => []ServerInv
<1>1. ASSUME ServerInv, UNCHANGED vars PROVE ServerInv'
  BY <1>1 DEF ServerInv, vars, service, clients, TypeOK, DoneInv, ConnsInv, Serving
<1>2. ASSUME ServerInv, Store PROVE ServerInv'
  <2>1. accepted \in Conns
    BY <1>2 DEF Store, ServerInv, ConnsInv, TypeOK
  <2>. QED  BY <1>2, <2>1, ConnectionInv
<1>3. ServerInv /\ [Next]_vars => ServerInv'
  BY <1>1, <1>2, CallerInv, ConnectionInv, EndsInv DEF Next
<1>. QED  BY InitServerInv, <1>3, PTL DEF Spec
-----------------------------------------------------------------------------
\* Every variable of the service and of Serve keeps its type.
THEOREM TypeCorrect == Spec => []TypeOK
<1>1. ServerInv => TypeOK
  BY DEF ServerInv
<1>. QED  BY <1>1, ServerInvariant, PTL

\* When done is closed, and so before Service.Start can listen again, Serve has
\* left no handler, no open client socket and no open listener behind.
THEOREM LeavesNothing == Spec => []NothingLeftBehind
<1>1. ServerInv => NothingLeftBehind
  <2>. SUFFICES ASSUME ServerInv, done # "open" PROVE NothingLeftBehind
    BY DEF NothingLeftBehind
  <2>1. serve = "none"
    BY DEF ServerInv, DoneInv
  <2>2. handler = {} /\ table = {} /\ accepted = None /\ listener # "open"
    BY <2>1 DEF ServerInv, DoneInv, ConnsInv, Serving
  <2>3. ASSUME NEW c \in Conns, conn[c] \notin {"away", "waiting"} PROVE socket[c] = "closed"
    <3>1. conn[c] # "accepted"
      BY <2>2, ServerAssumption DEF ServerInv, ConnsInv
    <3>. QED  BY <2>3, <3>1 DEF ServerInv, TypeOK, ConnsInv
  <2>. QED  BY <2>2, <2>3 DEF NothingLeftBehind
<1>. QED  BY <1>1, ServerInvariant, PTL

\* The reported state is that of the goroutine which serves now, however often
\* users restart the service at the same time.
THEOREM ReportsCurrent == Spec => []StatusOfCurrent
<1>1. ServerInv => StatusOfCurrent
  BY DEF ServerInv, TypeOK, DoneInv, Serving, StatusOfCurrent
<1>. QED  BY <1>1, ServerInvariant, PTL
=============================================================================
