---------------------------- MODULE Socks5Server -----------------------------
(***************************************************************************)
(* The SOCKS5 service (internal/service/socks5) and the accept loop it     *)
(* runs (Server.Serve in internal/socks5/server.go): Start, Stop and       *)
(* Restart by several goroutines, the loop, the goroutine that closes the  *)
(* listener when the context is done, and the accepted connections.  Each  *)
(* connection is served by a handler that keeps the promise of Handler.    *)
(***************************************************************************)
EXTENDS Naturals, FiniteSets

CONSTANTS
  Callers,     \* goroutines that call the service; one of them is Main
  Main,        \* the goroutine of appStart, which stops the service at the end
  Conns,       \* client connections
  MaxCalls,    \* bound on the calls of Restart
  None         \* no holder of the mutex, no connection

ASSUME ServerAssumption ==
  /\ Main \in Callers /\ None \notin Callers \cup Conns /\ MaxCalls \in Nat

VARIABLES
  mu,          \* the holder of Service.mu
  caller,      \* where each caller is
  calls, down, \* calls of Restart made; appStart has asked the service to stop
  done,        \* Service.done: "nil", "open" or "closed"
  canceled,    \* the context of the running Serve is done
  listener,    \* "none", "open" or "closed"
  serve,       \* where the goroutine of the service is
  accepted,    \* the connection Accept has returned and Serve not yet stored
  watcher,     \* the goroutine of Serve that waits for the context
  conn,        \* "away", "waiting" in the backlog, "accepted" or "gone"
  socket,      \* whether the server's side of a connection is open
  table,       \* the map of connections in Serve
  handler,     \* connections whose handler runs
  running      \* Status.Running

service == <<mu, caller, calls, down, done>>
clients == <<conn, socket, table, handler>>
vars == <<service, canceled, listener, serve, accepted, watcher, clients, running>>

\* appStart has started the service.
Init ==
  /\ mu = None /\ caller = [c \in Callers |-> "idle"] /\ calls = 0 /\ down = FALSE
  /\ done = "open" /\ canceled = FALSE /\ listener = "open" /\ running = TRUE
  /\ serve = "accept" /\ accepted = None /\ watcher = "wait"
  /\ conn = [c \in Conns |-> "away"] /\ socket = [c \in Conns |-> "open"]
  /\ table = {} /\ handler = {}
-----------------------------------------------------------------------------
(* Start, Stop and Restart.                                                 *)

At(c, place) == caller' = [caller EXCEPT ![c] = place]

\* A user restarts the service; appStart stops it, once.
CallRestart(c) ==
  /\ caller[c] = "idle" /\ c # Main /\ calls < MaxCalls
  /\ calls' = calls + 1 /\ At(c, "restart")
  /\ UNCHANGED <<mu, down, done, canceled, listener, serve, accepted, watcher, clients, running>>

CallStop ==
  /\ caller[Main] = "idle" /\ ~down
  /\ down' = TRUE /\ At(Main, "stop")
  /\ UNCHANGED <<mu, calls, done, canceled, listener, serve, accepted, watcher, clients, running>>

AfterStop(c) == IF caller[c] \in {"restart", "restarting"} THEN "start" ELSE "idle"

\* Stop takes the mutex; with nothing to stop it returns.
BeginStop(c) ==
  /\ caller[c] \in {"stop", "restart"} /\ mu = None
  /\ IF done = "nil"
     THEN At(c, AfterStop(c)) /\ UNCHANGED <<mu, canceled, listener>>
     ELSE /\ mu' = c /\ canceled' = TRUE /\ listener' = "closed"
          /\ At(c, IF caller[c] = "stop" THEN "stopping" ELSE "restarting")
  /\ UNCHANGED <<calls, down, done, serve, accepted, watcher, clients, running>>

\* done is closed, or the caller's context expires first: Restart gives up.
EndStop(c) ==
  /\ caller[c] \in {"stopping", "restarting"}
  /\ \/ done = "closed" /\ done' = "nil" /\ listener' = "none" /\ At(c, AfterStop(c))
     \/ At(c, "idle") /\ UNCHANGED <<done, listener>>
  /\ mu' = None
  /\ UNCHANGED <<calls, down, canceled, serve, accepted, watcher, clients, running>>

\* Start refuses while the last goroutine has not closed done; it may also fail
\* to listen.  The watching goroutine of the last Serve, if it still runs, only
\* knows that Serve's listener and connections, all closed by now.
Start(c) ==
  /\ caller[c] = "start" /\ mu = None
  /\ At(c, "idle")
  /\ \/ /\ done = "open"
        /\ UNCHANGED <<done, canceled, listener, serve, watcher, running>>
     \/ /\ done # "open"
        /\ \/ /\ done' = "open" /\ canceled' = FALSE /\ listener' = "open"
              /\ serve' = "accept" /\ watcher' = "wait" /\ running' = TRUE
           \/ /\ done' = "nil" /\ listener' = "none" /\ running' = FALSE
              /\ UNCHANGED <<canceled, serve, watcher>>
  /\ UNCHANGED <<mu, calls, down, accepted, clients>>
-----------------------------------------------------------------------------
(* Serve.                                                                   *)

serveOnly == <<service, canceled, running>>

Connect(c) ==
  /\ conn[c] = "away" /\ listener = "open"
  /\ conn' = [conn EXCEPT ![c] = "waiting"]
  /\ UNCHANGED <<serveOnly, listener, serve, accepted, watcher, socket, table, handler>>

Accept(c) ==
  /\ serve = "accept" /\ listener = "open" /\ conn[c] = "waiting"
  /\ conn' = [conn EXCEPT ![c] = "accepted"]
  /\ accepted' = c /\ serve' = "store"
  /\ UNCHANGED <<serveOnly, listener, watcher, socket, table, handler>>

\* Mutant: the goroutine of the handler reads the variable of the loop, which
\* may have moved on.
StoreCaptured ==
  /\ serve = "store" /\ serve' = "accept" /\ accepted' = None
  /\ table' = table \cup {accepted} /\ handler' = handler \cup {accepted'}
  /\ UNCHANGED <<serveOnly, listener, watcher, conn, socket>>

\* The connection enters the map and its handler starts.
Store ==
  /\ serve = "store"
  /\ table' = table \cup {accepted} /\ handler' = handler \cup {accepted}
  /\ accepted' = None /\ serve' = "accept"
  /\ UNCHANGED <<serveOnly, listener, watcher, conn, socket>>

\* Accept fails on a closed listener, or for want of file descriptors.
AcceptFails ==
  /\ serve = "accept" /\ serve' = "close"
  /\ UNCHANGED <<serveOnly, listener, accepted, watcher, clients>>

\* closeConnections closes what is in the map.
CloseConnections == socket' = [c \in Conns |-> IF c \in table THEN "closed" ELSE socket[c]]

\* Mutant: only the watching goroutine closes the connections.
ServeClosesListener ==
  /\ serve = "close" /\ serve' = "wait"
  /\ listener' = "closed" /\ UNCHANGED socket
  /\ UNCHANGED <<serveOnly, accepted, watcher, conn, table, handler>>

\* The deferred function of Serve, up to handlers.Wait.  A client that is left
\* in the backlog of the listener connects to the next one.
ServeCloses ==
  /\ serve = "close" /\ serve' = "wait"
  /\ listener' = "closed" /\ CloseConnections
  /\ UNCHANGED <<serveOnly, accepted, watcher, conn, table, handler>>

\* Mutant: Serve does not wait for the handlers.
ServeLeaves ==
  /\ serve = "wait" /\ serve' = "stopped"
  /\ UNCHANGED <<serveOnly, listener, accepted, watcher, clients>>

ServeReturns ==
  /\ serve = "wait" /\ handler = {} /\ serve' = "stopped"
  /\ UNCHANGED <<serveOnly, listener, accepted, watcher, clients>>

\* Mutant: done is closed before the state is recorded.
CloseDoneFirst ==
  \/ /\ serve = "stopped" /\ serve' = "done" /\ done' = "closed" /\ UNCHANGED running
     /\ UNCHANGED <<mu, caller, calls, down, canceled, listener, accepted, watcher, clients>>
  \/ /\ serve = "done" /\ serve' = "none" /\ running' = FALSE
     /\ UNCHANGED <<service, canceled, listener, accepted, watcher, clients>>

\* The deferred function of the goroutine: State.Stopped, then close(done).
CloseDone ==
  \/ /\ serve = "stopped" /\ serve' = "done" /\ running' = FALSE
     /\ UNCHANGED <<service, canceled, listener, accepted, watcher, clients>>
  \/ /\ serve = "done" /\ serve' = "none" /\ done' = "closed"
     /\ UNCHANGED <<mu, caller, calls, down, canceled, listener, accepted, watcher, clients,
                    running>>

\* The watching goroutine closes the listener, then the connections, or ends
\* with Serve.
Watch ==
  /\ \/ /\ watcher = "wait" /\ canceled /\ watcher' = "sweep"
        /\ listener' = IF listener = "open" THEN "closed" ELSE listener
        /\ UNCHANGED socket
     \/ /\ watcher = "sweep" /\ watcher' = "done"
        /\ CloseConnections /\ UNCHANGED listener
     \/ /\ watcher = "wait" /\ serve \notin {"accept", "store", "close"}
        /\ watcher' = "done" /\ UNCHANGED <<listener, socket>>
  /\ UNCHANGED <<serveOnly, serve, accepted, conn, table, handler>>

\* The handler of a connection returns; the deferred calls close the socket
\* and take it out of the map.
HandlerReturns(c) ==
  /\ c \in handler
  /\ handler' = handler \ {c} /\ table' = table \ {c}
  /\ socket' = [socket EXCEPT ![c] = "closed"] /\ conn' = [conn EXCEPT ![c] = "gone"]
  /\ UNCHANGED <<serveOnly, listener, serve, accepted, watcher>>

Loop == Store \/ (listener = "closed" /\ AcceptFails) \/ ServeCloses \/ ServeReturns \/ CloseDone
Next ==
  \/ \E c \in Callers : CallRestart(c) \/ BeginStop(c) \/ EndStop(c) \/ Start(c)
  \/ CallStop \/ Store \/ AcceptFails \/ ServeCloses \/ ServeReturns \/ CloseDone \/ Watch
  \/ \E c \in Conns : Connect(c) \/ Accept(c) \/ HandlerReturns(c)

Spec == Init /\ [][Next]_vars

\* Stop waits for done, not for its context; the handlers keep the promise of
\* Handler and nothing is assumed of the clients.
Fairness ==
  /\ WF_vars(Loop) /\ WF_vars(Watch)
  /\ \A c \in Conns : WF_vars(canceled /\ socket[c] = "closed" /\ HandlerReturns(c))
  /\ \A c \in Callers :
       WF_vars(BeginStop(c)) /\ WF_vars(done = "closed" /\ EndStop(c)) /\ WF_vars(Start(c))
FairSpec == Spec /\ Fairness
-----------------------------------------------------------------------------
TypeOK ==
  /\ mu \in Callers \cup {None} /\ calls \in 0..MaxCalls /\ down \in BOOLEAN
  /\ caller \in [Callers -> {"idle", "stop", "stopping", "restart", "restarting", "start"}]
  /\ done \in {"nil", "open", "closed"} /\ canceled \in BOOLEAN
  /\ listener \in {"none", "open", "closed"}
  /\ serve \in {"none", "accept", "store", "close", "wait", "stopped", "done"}
  /\ accepted \in Conns \cup {None} /\ watcher \in {"wait", "sweep", "done"}
  /\ conn \in [Conns -> {"away", "waiting", "accepted", "gone"}]
  /\ socket \in [Conns -> {"open", "closed"}] /\ table \subseteq Conns
  /\ handler \subseteq Conns /\ running \in BOOLEAN

\* Serve, Service.Start: when done is closed, and so before another Start can
\* listen, the earlier Serve has left no handler, no open client socket and no
\* open listener behind.
NothingLeftBehind ==
  done # "open" =>
    /\ handler = {} /\ table = {} /\ accepted = None /\ listener # "open"
    /\ \A c \in Conns : conn[c] \notin {"away", "waiting"} => socket[c] = "closed"

\* Service.Start, Stop: the reported state is that of the goroutine which
\* serves now, never of one that a restart has replaced.
StatusOfCurrent ==
  /\ done # "open" => ~running
  /\ serve \in {"accept", "store", "close", "wait"} => running

\* A call waits in Stop for done.
Stopping(c) == caller[c] \in {"stopping", "restarting"}

\* Service.Stop, Serve: a Stop that does not give up comes to an end without any
\* help of the clients, also for a connection accepted while the listener and
\* the open connections are being closed.
StopEnds ==
  \A c \in Callers : Stopping(c) ~> ~Stopping(c)
=============================================================================
