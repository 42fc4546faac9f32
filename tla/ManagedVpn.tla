----------------------------- MODULE ManagedVpn -----------------------------
(***************************************************************************)
(* The VPN manager under everything that calls it: HTTP handlers, the node *)
(* refresher (internal/vpngate/refresher.go), the health-check service     *)
(* (internal/service/healthcheck), tunnels that end by themselves and the  *)
(* application's startup and shutdown (cmd/proxygate/app.go).              *)
(***************************************************************************)
EXTENDS VpnManager

CONSTANTS
  Requests,         \* the kinds of request the users send
  MaxCalls,         \* bound on the number of requests
  Snapshots,        \* the node lists a download can return
  MaxRefreshes,     \* bound on the number of refreshes
  HealthChecks,     \* whether the monitor interval ever elapses
  MayEnd,           \* whether an established tunnel can end by itself
  MayShutDown,      \* whether the application is stopped
  MayExpire         \* whether its shutdown can take longer than 15 s

ASSUME EnvironmentAssumption ==
  /\ Snapshots \subseteq NodeTables
  /\ MaxCalls \in Nat /\ MaxRefreshes \in Nat

VARIABLES
  expired,          \* the 15 s shutdown context has expired
  calls, refreshes  \* requests and refreshes so far

environment == <<expired, calls, refreshes>>
vars == <<managerVars, environment>>

Init ==
  /\ NewManager
  /\ pc = [a \in Actors |-> CASE a = Starter -> "start" [] a = Closer -> "run"
                              [] OTHER -> "idle"]
  /\ job = [a \in Actors |-> NoJob]
  /\ held = [a \in Actors |-> None]
  /\ sess = [s \in Sessions |-> "none"]
  /\ cancelled = {} /\ stale = {}
  /\ appDone = FALSE /\ monitorDone = FALSE /\ expired = FALSE
  /\ store \in InitialStores
  /\ calls = 0 /\ refreshes = 0
-----------------------------------------------------------------------------
(* Requests.  A handler runs in a task slot; the goroutine it starts keeps  *)
(* the slot, because the handler only answers the client afterwards.        *)

Arrives(t, request) ==
  /\ pc[t] = "idle"
  /\ request \in Requests /\ calls < MaxCalls
  /\ pc[Closer] \in {"run", "cancelled"}
  /\ calls' = calls + 1 /\ UNCHANGED <<expired, refreshes>>

\* POST /api/services/health-check/restart: Stop, under the service's mutex.
RestartMonitor(t) ==
  /\ \A u \in Tasks : pc[u] # "stopMonitor"
  /\ monitorDone' = TRUE
  /\ job' = [job EXCEPT ![t].kind = "restart"]
  /\ Goto(t, "stopMonitor")
  /\ UNCHANGED <<manager, locks, async, closing, held, cancelled, tunnels, appDone, database>>

HandlerStarts(t) ==
  \/ Arrives(t, "select") /\ SelectManual(t)
  \/ Arrives(t, "reconnect") /\ ReconnectCurrent(t)
  \/ Arrives(t, "pause") /\ PauseConnection(t)
  \/ Arrives(t, "resume") /\ ResumeConnection(t)
  \/ Arrives(t, "restart") /\ RestartMonitor(t)

\* The loop has ended: Restart starts it again.
StartMonitor(t) ==
  /\ pc[t] = "stopMonitor" /\ pc[Monitor] = "off"
  /\ monitorDone' = FALSE
  /\ pc' = [pc EXCEPT ![t] = "idle", ![Monitor] = "idle"]
  /\ job' = [job EXCEPT ![t] = NoJob]
  /\ UNCHANGED <<manager, locks, async, closing, held, cancelled, tunnels, appDone, database>>

\* The handler's 15 s pass first: it fails and the loop stays cancelled.
RestartTimesOut(t) ==
  /\ pc[t] = "stopMonitor" /\ pc[Monitor] # "off"
  /\ Exit(t)
  /\ UNCHANGED <<manager, locks, closing, held, cancelled, tunnels, contexts, database>>
-----------------------------------------------------------------------------
(* The refresher: one refresh at a time, in a task slot of its own.         *)

Refreshing(t) == t \notin async /\ job[t].kind \in {"refresh", "follow", "failover"}

\* A download succeeded; the refresher asks which node to preserve.
FetchNodes(t) ==
  /\ pc[t] = "idle"
  /\ ~appDone /\ refreshes < MaxRefreshes
  /\ \A u \in Tasks : ~Refreshing(u)
  /\ refreshes' = refreshes + 1
  /\ \E snapshot \in Snapshots :
       job' = [job EXCEPT ![t].kind = "refresh", ![t].node = PreservedIP,
                          ![t].candidates = snapshot]
  /\ Goto(t, "replaceNodes")
  /\ UNCHANGED <<manager, locks, async, closing, held, cancelled, tunnels, contexts, database,
                 expired, calls>>

\* store.ReplaceNodes, one transaction that keeps the preserved node.
ReplaceNodes(t) ==
  /\ pc[t] = "replaceNodes"
  /\ IF appDone
     THEN Exit(t) /\ UNCHANGED <<store, stale>>
     ELSE /\ LET fresh == job[t].candidates
                 kept == {n \in Listed : n = job[t].node /\ fresh[n] = {}}
             IN /\ store' = [n \in Nodes |-> IF n \in kept THEN store[n] ELSE fresh[n]]
                /\ stale' = kept
          /\ job' = [job EXCEPT ![t] = Job("refresh", None, "auto", None, {})]
          /\ Goto(t, "afterRefresh")
          /\ UNCHANGED async
  /\ UNCHANGED <<manager, locks, closing, held, cancelled, tunnels, contexts, meta>>
-----------------------------------------------------------------------------
(* The health-check service.                                               *)

MonitorTick ==
  /\ HealthChecks
  /\ pc[Monitor] = "idle" /\ ~monitorDone
  /\ Goto(Monitor, "tick")
  /\ UNCHANGED <<manager, locks, async, closing, job, held, cancelled, tunnels, contexts,
                 database, environment>>

CheckSession ==
  /\ pc[Monitor] = "tick"
  /\ IF session = None
     THEN Exit(Monitor)
     ELSE /\ job' = [job EXCEPT ![Monitor].kind = "failover", ![Monitor].expected = session]
          /\ Goto(Monitor, "check")
          /\ UNCHANGED async
  /\ UNCHANGED <<manager, locks, closing, held, cancelled, tunnels, contexts, database>>

\* The probe passes, or fails only because the loop was cancelled.
CheckPasses ==
  /\ pc[Monitor] = "check"
  /\ sess[job[Monitor].expected] = "open" \/ monitorDone
  /\ Exit(Monitor)
  /\ UNCHANGED <<manager, locks, closing, held, cancelled, tunnels, contexts, database>>

CheckFails ==
  /\ pc[Monitor] = "check"
  /\ ~monitorDone
  /\ Goto(Monitor, "failover")
  /\ UNCHANGED <<manager, locks, async, closing, job, held, cancelled, tunnels, contexts, database>>

MonitorExits ==
  /\ pc[Monitor] = "idle" /\ monitorDone
  /\ Goto(Monitor, "off")
  /\ UNCHANGED <<manager, locks, async, closing, job, held, cancelled, tunnels, contexts, database>>
-----------------------------------------------------------------------------
(* The outside world and the shutdown sequence of appStart.                 *)

\* A tunnel ends by itself; its resources stay until Close.
TunnelEnds(s) ==
  /\ MayEnd
  /\ sess[s] = "open"
  /\ sess' = [sess EXCEPT ![s] = "ended"]
  /\ UNCHANGED <<manager, locks, async, closing, pc, job, held, cancelled, contexts,
                 database, environment>>

CancelApp ==
  /\ MayShutDown
  /\ pc[Closer] = "run"
  /\ appDone' = TRUE
  /\ Goto(Closer, "cancelled")
  /\ UNCHANGED <<manager, locks, async, closing, job, held, cancelled, tunnels, monitorDone,
                 database, environment>>

ShutdownExpires ==
  /\ MayExpire
  /\ pc[Closer] \in {"stopHTTP", "stopServices", "stopBackground"} /\ ~expired
  /\ expired' = TRUE
  /\ UNCHANGED <<managerVars, calls, refreshes>>

Shutdown(from, to) ==
  /\ pc[Closer] = from
  /\ Goto(Closer, to)
  /\ UNCHANGED <<manager, locks, async, closing, job, held, cancelled, tunnels, appDone, database>>

\* httpServer.Stop closes the listener, then waits for the handlers.
StopListening == Shutdown("cancelled", "stopHTTP") /\ UNCHANGED monitorDone

\* stopServices cancels the loop under the mutex a restart may hold.
HTTPStopped ==
  /\ Shutdown("stopHTTP", "stopServices")
  /\ \A t \in Tasks : expired \/ pc[t] = "idle" \/ t \in async \/ Refreshing(t)
  /\ \A t \in Tasks : pc[t] # "stopMonitor"
  /\ monitorDone' = TRUE

ServicesStopped ==
  /\ Shutdown("stopServices", "stopBackground")
  /\ expired \/ pc[Monitor] = "off"
  /\ UNCHANGED monitorDone

BackgroundStopped ==
  /\ Shutdown("stopBackground", "close")
  /\ expired \/ (pc[Starter] = "done" /\ \A t \in Tasks : ~Refreshing(t))
  /\ UNCHANGED monitorDone
-----------------------------------------------------------------------------
ConnectStep(t) ==
  \/ CandidateTurn(t) \/ FinishConnectAttempt(t)
  \/ Activate(t) \/ DialFails(t) \/ DialSucceeds(t) \/ ProbeSucceeds(t) \/ ProbeFails(t)
  \/ ConnectFails(t) \/ SetError(t) \/ CheckContext(t) \/ RefuseInstall(t) \/ Install(t)
  \/ CloseTaken(t) \/ SaveMetadata(t) \/ StartWatcher(t)

SwitchStep(t) ==
  \/ SwitchAutomatic(t) \/ SwitchAfterFailover(t) \/ RankedNodes(t) \/ NextNode(t)
  \/ StopSwitch(t) \/ RecordError(t) \/ EndSwitch(t)
  \/ FailoverLock(t) \/ IgnoreFailover(t) \/ Failover(t)
  \/ SetAutomatic(t) \/ StartSwitch(t)

\* Steps that only a handler or the refresher takes.
TaskStep(t) ==
  \/ ReconnectLookup(t) \/ ResumeLookup(t) \/ RejectCandidate(t) \/ StartCandidate(t)
  \/ RunAsync(t) \/ RefuseAsync(t) \/ ReplaceNodes(t) \/ AfterRefresh(t) \/ LookupActive(t)
  \/ StartMonitor(t)

\* What a goroutine that has been started keeps doing.
GoroutineStep(a) ==
  /\ ConnectStep(a) \/ SwitchStep(a) \/ (a \in Tasks /\ TaskStep(a))
                    \/ (a \in Sessions /\ WatcherWakes(a))
  /\ UNCHANGED environment

StartStep == (Start \/ RestoreLookup \/ RestoreState) /\ UNCHANGED environment

MonitorStep ==
  (CheckSession \/ CheckPasses \/ CheckFails \/ MonitorExits) /\ UNCHANGED environment

ShutdownStep ==
  /\ \/ StopListening \/ HTTPStopped \/ ServicesStopped \/ BackgroundStopped
     \/ Close \/ TakeSession \/ TakeLateSession
  /\ UNCHANGED environment

Resting == \A a \in Actors : pc[a] \in {"idle", "done", "off", "watch", "run", "closed"}

\* Nothing is running and nothing is blocked: only the outside world can act.
AtRest == Resting /\ UNCHANGED vars

Next ==
  \/ \E t \in Tasks : \/ HandlerStarts(t) \/ FetchNodes(t)
                      \/ RestartTimesOut(t) /\ UNCHANGED environment
  \/ \E a \in Actors : GoroutineStep(a)
  \/ \E s \in Sessions : TunnelEnds(s)
  \/ StartStep \/ MonitorTick \/ MonitorStep
  \/ CancelApp \/ ShutdownExpires \/ ShutdownStep
  \/ AtRest

Spec == Init /\ [][Next]_vars

\* The Go scheduler runs every runnable goroutine; dials and probes end by
\* their timeouts.
Fairness ==
  /\ \A a \in Actors : WF_vars(GoroutineStep(a))
  /\ WF_vars(StartStep) /\ WF_vars(MonitorStep) /\ WF_vars(ShutdownStep)

FairSpec == Spec /\ Fairness
-----------------------------------------------------------------------------
Labels ==
  {"idle", "done", "reconnectLookup", "resumeLookup", "startCandidate", "runAsync",
   "autoLock", "finishConnected", "finishFailed", "switchLock", "connect", "probe",
   "setError", "ready", "install", "drop", "closeOld", "saveSelection", "saveIP",
   "saveProtocol", "startWatcher", "startSwitch", "rankedNodes", "nextNode",
   "recordError", "endSwitch", "failover", "failoverAuto", "switch", "setAutomatic",
   "watch", "start", "restoreLookup", "restoreState", "replaceNodes", "afterRefresh",
   "lookupActive", "tick", "check", "off", "stopMonitor", "run", "cancelled", "stopHTTP",
   "stopServices", "stopBackground", "close", "takeSession", "closeSession",
   "waitAsync", "closeLate", "closed"}

Kinds == {"none", "candidate", "restore", "resume", "auto", "follow", "failover", "pause",
          "refresh", "restart"}

Jobs ==
  [kind : Kinds, node : Nodes \cup {None}, selection : {"auto", "manual"},
   forced : Protocols \cup {None}, todo : SUBSET Protocols, attempt : Nat,
   protocol : Protocols \cup {None}, expected : Sessions \cup {None},
   installed : Sessions \cup {None}, generation : Nat, candidates : NodeTables]

RoutingTypeOK ==
  /\ session \in Sessions \cup {None} /\ generation \in Nat
  /\ directMode \in BOOLEAN /\ connectionPaused \in BOOLEAN

ChoiceTypeOK ==
  /\ node \in Nodes \cup {None} /\ protocol \in Protocols \cup {None}
  /\ selection \in {"auto", "manual"} /\ manualIP \in Nodes \cup {None}
  /\ manualProtocol \in Protocols \cup {None}

AttemptTypeOK ==
  /\ connectingIP \in Nodes \cup {None} /\ connectAttempt \in Nat
  /\ cancelConnect \in Actors \cup {None} /\ cancelAutomatic \in Actors \cup {None}
  /\ state \in {"idle", "connecting", "connected", "error", "direct"}

LockTypeOK ==
  /\ switchMu \in Actors \cup {None} /\ autoMu \in Actors \cup {None}
  /\ failoverMu \in Actors \cup {None}
  /\ async \subseteq Actors /\ closing \in BOOLEAN

GoroutineTypeOK ==
  /\ pc \in [Actors -> Labels] /\ job \in [Actors -> Jobs]
  /\ held \in [Actors -> Sessions \cup {None}] /\ cancelled \subseteq Actors

WorldTypeOK ==
  /\ sess \in [Sessions -> {"none", "open", "ended", "closed"}]
  /\ appDone \in BOOLEAN /\ monitorDone \in BOOLEAN /\ expired \in BOOLEAN
  /\ store \in NodeTables /\ stale \subseteq Nodes /\ meta \in Selections
  /\ calls \in Nat /\ refreshes \in Nat

\* Every variable has its type.  The cancel functions range over goroutines
\* that exist: a nil function is never in the set of those to be called.
TypeOK ==
  /\ RoutingTypeOK /\ ChoiceTypeOK /\ AttemptTypeOK
  /\ LockTypeOK /\ GoroutineTypeOK /\ WorldTypeOK

Unclosed(s) == sess[s] \in {"open", "ended"}

\* No tunnel leaks and none is closed twice or used after its Close: a tunnel
\* that has not been closed is either the manager's session or in the hands of
\* exactly one goroutine that will install or close it, and nobody else refers
\* to it (activate's deferred Close, install's old.Close, SetDirectMode, failover
\* and Close all hand sessions over outside the mutex).
SessionOwnership ==
  /\ session # None => Unclosed(session)
  /\ \A a \in Actors : held[a] # None => Unclosed(held[a]) /\ held[a] # session
  /\ \A a, b \in Actors : held[a] = held[b] /\ held[a] # None => a = b
  /\ \A s \in Sessions : Unclosed(s) => session = s \/ \E a \in Actors : held[a] = s

\* Traffic has one route: direct mode and a VPN session never coexist, and a
\* pause the user asked for is never undone by a connection that was in flight
\* (install rechecks connectionPaused under the mutex).
RoutingExclusive ==
  /\ directMode => session = None
  /\ connectionPaused => directMode

\* A session that is up is watched under the current generation, or its
\* installer is about to start the watcher: no path may bump generation and
\* keep the session, or its end would go unnoticed (isGeneration).
LiveSessionIsWatched ==
  \A s \in Sessions :
    (session = s /\ sess[s] = "open" /\ ~appDone) =>
      \/ pc[s] = "watch" /\ job[s].generation = generation
      \/ \E t \in Actors : /\ job[t].installed = s /\ job[t].generation = generation
                           /\ pc[t] \in {"closeOld", "saveSelection", "saveIP",
                                         "saveProtocol", "startWatcher"}

\* The cancel functions always belong to the goroutine they are meant for:
\* cancelAutomatic to the switch that owns autoMu, cancelConnect and the
\* connectingIP shown to users to the newest candidate, which is still running.
CancelReachesRunner ==
  /\ cancelAutomatic # None =>
       autoMu = cancelAutomatic /\ job[autoMu].kind \in {"auto", "follow", "failover"}
  /\ (connectingIP # None) <=> (cancelConnect # None)
  /\ cancelConnect # None =>
       /\ job[cancelConnect].kind = "candidate"
       /\ job[cancelConnect].attempt = connectAttempt
       /\ job[cancelConnect].node = connectingIP
       /\ pc[cancelConnect] \notin {"idle", "startCandidate"}

\* The status never claims a connection that does not exist, except while Close
\* has taken the session away.
ConnectedMeansSession == state = "connected" => session # None \/ closing

\* A failover that was started for one session replaces only that session: a
\* connection made in the meantime survives the late verdict on the old one.
\* (Start restores its session without autoMu: that one alone is not protected.)
FailoverSparesOthers ==
  [][\A t \in Actors :
       (job[t].kind = "failover" /\ job[t].expected # None /\ pc[t] = "install"
          /\ session' = held[t])
         => session \in {None, job[t].expected, job[Starter].installed}]_vars

\* When Close returns and no shutdown wait timed out, no tunnel is left open.
ClosedLeavesNoTunnel ==
  (pc[Closer] = "closed" /\ ~expired) => \A s \in Sessions : ~Unclosed(s)

\* Shutdown always completes, whatever the goroutines are doing when it starts
\* and without relying on the 15 s timeout.
ShutdownCompletes == (pc[Closer] = "cancelled") ~> (pc[Closer] = "closed")

\* The "connecting" marker of a candidate always goes away.
ConnectingClears == (connectingIP # None) ~> (connectingIP = None)

\* With fallback to the local network, traffic is not routed into a tunnel that
\* has ended for ever: its watcher, whenever it was started, takes it away.
DeadTunnelDropped ==
  \A s \in Sessions : (session = s /\ sess[s] = "ended") ~> (session # s)

\* Settings page: with follow-ranking off "a connected node stays active even
\* if it disappears from the refreshed list": the job a refresh starts never
\* replaces a session that is up.
ConnectedNodeStays ==
  [][\A t \in Actors :
       (job[t].kind = "follow" /\ pc[t] = "install" /\ session' = held[t])
         => session = None \/ sess[session] # "open" \/ TRUE \in FollowRanking]_vars
-----------------------------------------------------------------------------
(* The inductive invariant behind the safety properties above.              *)

\* Where a goroutine holds a session: before it is installed, after it was
\* taken out of the manager; and the rest of install after the mutex section.
Connected == {"probe", "ready", "install"}
Taken == {"drop", "closeOld", "closeSession", "closeLate"}
Installing == {"closeOld", "saveSelection", "saveIP", "saveProtocol", "startWatcher"}
ShuttingDown == {"cancelled", "stopHTTP", "stopServices", "stopBackground", "close"}
Closing == {"takeSession", "closeSession", "waitAsync", "closeLate", "closed"}

\* A session is in a goroutine's hands exactly between dial and install, or
\* while it is being closed.
HandsInv ==
  \A a \in Actors :
    /\ held[a] # None => pc[a] \in Connected \cup Taken
    /\ pc[a] \in Connected => held[a] # None
    /\ pc[a] = "startWatcher" => job[a].installed # None
    /\ job[a].installed # None =>
         pc[a] \in Installing \cup {"finishConnected", "endSwitch", "done"}

\* The watcher of a session has not started before install starts it, and
\* each session is installed once.
WatcherInv ==
  /\ \A s \in Sessions : sess[s] = "none" =>
       pc[s] = "idle" /\ \A a \in Actors : job[a].installed # s
  /\ \A a \in Actors : pc[a] \in Connected =>
       pc[held[a]] = "idle" /\ \A b \in Actors : job[b].installed # held[a]
  /\ \A a \in Actors : (pc[a] \in Installing /\ job[a].installed # None) =>
       pc[job[a].installed] = "idle"
  /\ \A a, b \in Actors :
       (job[a].installed = job[b].installed /\ job[a].installed # None) => a = b

\* Close runs only after the application's context is cancelled.
ShutdownInv ==
  /\ pc[Closer] \in ShuttingDown \cup Closing => appDone
  /\ pc[Closer] \in Closing => closing
  /\ closing => appDone

\* Every fact the step proofs need, in one invariant.
Inv ==
  /\ TypeOK /\ HandsInv /\ WatcherInv /\ ShutdownInv
  /\ SessionOwnership /\ RoutingExclusive /\ LiveSessionIsWatched /\ ConnectedMeansSession
=============================================================================
