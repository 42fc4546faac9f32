----------------------------- MODULE VpnManager -----------------------------
(***************************************************************************)
(* The VPN manager, internal/vpn/manager.go: its state and one action per  *)
(* step of its methods.  ManagedVpn composes them with the goroutines that *)
(* call them.                                                              *)
(*                                                                         *)
(* A section under Manager.mu is one step, and so is a lock acquisition    *)
(* with the section that follows it; everything between two such sections  *)
(* (a dial, a probe, a database access) is a step of its own, so every     *)
(* interleaving the locks allow is a behaviour.                            *)
(***************************************************************************)
EXTENDS Naturals, FiniteSets

CONSTANTS
  Nodes,            \* IP addresses of VPN nodes
  Protocols,        \* VPN protocols
  Drivers,          \* the protocols a driver is registered for
  Priority,         \* the protocols enabled in the settings
  Sessions,         \* identities of tunnels; a driver uses each one once
  Tasks,            \* goroutine slots for handlers, refreshes and async jobs
  None,             \* nil, "" and the zero node
  InitialStores,    \* the node tables found at startup
  SavedSelections,  \* the selection metadata found at startup
  CandidateLimit,   \* how many ranked nodes an automatic switch tries
  FallbackToDirect, \* values the setting takes while the program runs
  FollowRanking     \* values the setting takes while the program runs

Starter == "start"     \* the goroutine that runs Start
Monitor == "monitor"   \* the loop of the health-check service
Closer == "closer"     \* the main goroutine, which shuts down

\* Every goroutine that runs manager code.  The watcher that install starts
\* for a session is the actor named by that session.
Actors == Tasks \cup Sessions \cup {Starter, Monitor, Closer}

NodeTables == [Nodes -> SUBSET Protocols]
Selections == [selection : {"auto", "manual"}, manualIP : Nodes \cup {None},
               manualProtocol : Protocols \cup {None}]

ASSUME SetsAssumption ==
  /\ FallbackToDirect \subseteq BOOLEAN /\ FollowRanking \subseteq BOOLEAN
  /\ InitialStores \subseteq NodeTables /\ SavedSelections \subseteq Selections
  /\ Drivers \subseteq Protocols

ASSUME NamesAssumption ==
  /\ Tasks \cap Sessions = {}
  /\ {Starter, Monitor, Closer} \cap (Tasks \cup Sessions) = {}
  /\ None \notin Actors \cup Nodes \cup Protocols

VARIABLES
  \* The fields of the Manager struct that mu protects.
  session, generation, directMode, connectionPaused,
  node, protocol, selection, manualIP, manualProtocol,
  connectingIP, cancelConnect, cancelAutomatic, connectAttempt, state,
  \* Its other locks (the goroutine that holds each), the async wait group and
  \* the flag that asyncMu protects.
  switchMu, autoMu, failoverMu, async, closing,
  \* Goroutines: where each is, its arguments and locals, the session it must
  \* install or close, and those whose own context was cancelled.
  pc, job, held, cancelled,
  \* Tunnels: what each one is.
  sess,
  \* Contexts: of the application (Manager.ctx) and of the health-check loop.
  appDone, monitorDone,
  \* SQLite: protocols of each stored node ({} when absent), the stored nodes
  \* that the last refresh did not contain, and the persisted selection.
  store, stale, meta

routing == <<session, generation, directMode, connectionPaused>>
choice == <<node, protocol, selection, manualIP, manualProtocol>>
attempts == <<connectingIP, cancelConnect, cancelAutomatic, connectAttempt>>
manager == <<routing, choice, attempts, state>>
locks == <<switchMu, autoMu, failoverMu>>
contexts == <<appDone, monitorDone>>
tunnels == <<sess>>
database == <<store, stale, meta>>
managerVars == <<manager, locks, async, closing, pc, job, held, cancelled,
                 tunnels, contexts, database>>
-----------------------------------------------------------------------------
\* The locals of a goroutine: what it runs, the node it connects to with the
\* selection mode, forced protocol and protocols left to try; the attempt it
\* belongs to, the protocol it connected with, the session it fails over from,
\* the one it installed and under which generation; ranked nodes left to try.
Job(kind, n, mode, forced, todo) ==
  [kind |-> kind, node |-> n, selection |-> mode, forced |-> forced, todo |-> todo,
   attempt |-> 0, protocol |-> None, expected |-> None, installed |-> None,
   generation |-> 0, candidates |-> [x \in Nodes |-> {}]]

NoJob == Job("none", None, "auto", None, {})

Automatic == [selection |-> "auto", manualIP |-> None, manualProtocol |-> None]

Listed == {n \in Nodes : store[n] # {}}

\* The protocols connectNode will try, given those the node offers.
Tries(offered, forced) ==
  IF forced = None THEN offered \cap Priority \cap Drivers
                   ELSE offered \cap Drivers \cap {forced}

\* Candidates and Start connect with requireHealth, automatic switches do not.
RequireHealth(t) == job[t].kind \in {"candidate", "restore"}

\* The context a goroutine was started with, and the one it passes to activate:
\* cancelled by cancelConnect or cancelAutomatic, or with its parent.
ParentDone(t) == IF t = Monitor THEN monitorDone ELSE appDone
CtxDone(t) == t \in cancelled \/ ParentDone(t)

\* The goroutines that the manager's cancel functions stop.
Cancellable == {cancelConnect, cancelAutomatic} \ {None}

Goto(t, next) == pc' = [pc EXCEPT ![t] = next]

\* The goroutine returns; a slot and the monitor loop can run again.
Exit(t) ==
  /\ pc' = [pc EXCEPT ![t] = IF t \in Tasks \cup {Monitor} THEN "idle" ELSE "done"]
  /\ job' = [job EXCEPT ![t] = NoJob]
  /\ async' = async \ {t}

CloseHeld(t) ==
  /\ sess' = [s \in Sessions |-> IF s = held[t] THEN "closed" ELSE sess[s]]
  /\ held' = [held EXCEPT ![t] = None]

\* NewManager restores the persisted selection.
NewManager ==
  /\ \E saved \in SavedSelections :
       LET restored == IF saved.selection = "manual" THEN saved ELSE Automatic IN
       /\ meta = saved /\ selection = restored.selection
       /\ manualIP = restored.manualIP /\ manualProtocol = restored.manualProtocol
  /\ session = None /\ node = None /\ protocol = None /\ state = "idle"
  /\ directMode = FALSE /\ connectionPaused = FALSE /\ generation = 0
  /\ connectingIP = None /\ cancelConnect = None /\ cancelAutomatic = None
  /\ connectAttempt = 0 /\ closing = FALSE /\ async = {}
  /\ switchMu = None /\ autoMu = None /\ failoverMu = None
-----------------------------------------------------------------------------
(* SelectManual, ReconnectCurrent and SetDirectMode, called by handlers.     *)

SelectManual(t) ==
  /\ \E n \in Listed, forced \in Protocols \cup {None} :
       job' = [job EXCEPT ![t] = Job("candidate", n, "manual", forced,
                                     Tries(store[n], forced))]
  /\ Goto(t, "startCandidate")
  /\ UNCHANGED <<manager, locks, async, closing, held, cancelled, tunnels, contexts, database>>

ReconnectCurrent(t) ==
  /\ session # None
  /\ job' = [job EXCEPT ![t] = Job("candidate", node, selection, protocol, {})]
  /\ Goto(t, "reconnectLookup")
  /\ UNCHANGED <<manager, locks, async, closing, held, cancelled, tunnels, contexts, database>>

\* store.Node: the candidate gets the node's present protocols.
Lookup(t, found, missing) ==
  LET n == job[t].node IN
  IF store[n] # {}
  THEN /\ job' = [job EXCEPT ![t].kind = "candidate",
                             ![t].todo = Tries(store[n], job[t].forced)]
       /\ Goto(t, found)
       /\ UNCHANGED async
  ELSE IF missing = "idle" THEN Exit(t) ELSE Goto(t, missing) /\ UNCHANGED <<job, async>>

ReconnectLookup(t) ==
  /\ pc[t] = "reconnectLookup"
  /\ Lookup(t, "startCandidate", "idle")
  /\ UNCHANGED <<manager, locks, closing, held, cancelled, tunnels, contexts, database>>

\* SetDirectMode(true): the session leaves the manager before it is closed.
PauseConnection(t) ==
  /\ ~connectionPaused
  /\ session' = None /\ generation' = generation + 1
  /\ directMode' = TRUE /\ connectionPaused' = TRUE /\ state' = "direct"
  /\ connectingIP' = None /\ cancelConnect' = None /\ cancelAutomatic' = None
  /\ connectAttempt' = connectAttempt + 1
  /\ cancelled' = cancelled \cup Cancellable
  /\ held' = [held EXCEPT ![t] = session]
  /\ job' = [job EXCEPT ![t].kind = "pause"]
  /\ Goto(t, "drop")
  /\ UNCHANGED <<choice, locks, async, closing, tunnels, contexts, database>>

\* SetDirectMode(false).
ResumeConnection(t) ==
  /\ connectionPaused
  /\ connectionPaused' = FALSE /\ state' = "connecting"
  /\ IF selection = "manual" /\ manualIP # None
     THEN /\ job' = [job EXCEPT ![t] = Job("resume", manualIP, "manual", manualProtocol, {})]
          /\ Goto(t, "resumeLookup")
     ELSE /\ job' = [job EXCEPT ![t].kind = "auto"]
          /\ Goto(t, "runAsync")
  /\ UNCHANGED <<session, generation, directMode, choice, attempts, locks, async, closing,
                 held, cancelled, tunnels, contexts, database>>

ResumeLookup(t) ==
  /\ pc[t] = "resumeLookup"
  /\ Lookup(t, "startCandidate", "setAutomatic")
  /\ UNCHANGED <<manager, locks, closing, held, cancelled, tunnels, contexts, database>>
-----------------------------------------------------------------------------
(* startCandidate, runAsync and the goroutine of a candidate.               *)

\* validateForcedProtocol fails: the handler returns the error.
RejectCandidate(t) ==
  /\ pc[t] = "startCandidate"
  /\ job[t].forced # None /\ job[t].todo = {}
  /\ Exit(t)
  /\ UNCHANGED <<manager, locks, closing, held, cancelled, tunnels, contexts, database>>

StartCandidate(t) ==
  /\ pc[t] = "startCandidate"
  /\ job[t].forced = None \/ job[t].todo # {}
  /\ cancelled' = (cancelled \cup Cancellable) \ {t}
  /\ connectionPaused' = FALSE /\ cancelAutomatic' = None /\ cancelConnect' = t
  /\ connectAttempt' = connectAttempt + 1
  /\ connectingIP' = job[t].node /\ state' = "connecting"
  /\ job' = [job EXCEPT ![t].attempt = connectAttempt + 1]
  /\ Goto(t, "runAsync")
  /\ UNCHANGED <<session, generation, directMode, choice, locks, async, closing, held,
                 tunnels, contexts, database>>

RunAsync(t) ==
  /\ pc[t] = "runAsync"
  /\ ~closing
  /\ async' = async \cup {t}
  /\ Goto(t, IF job[t].kind = "failover" THEN "failover" ELSE "autoLock")
  /\ UNCHANGED <<manager, locks, closing, job, held, cancelled, tunnels, contexts, database>>

\* runAsync returns false once Close has begun.
RefuseAsync(t) ==
  /\ pc[t] = "runAsync"
  /\ closing
  /\ IF job[t].kind = "candidate"
     THEN Goto(t, "finishFailed") /\ UNCHANGED <<job, async>>
     ELSE Exit(t)
  /\ UNCHANGED <<manager, locks, closing, held, cancelled, tunnels, contexts, database>>

CandidateTurn(t) ==
  /\ pc[t] = "autoLock" /\ job[t].kind = "candidate"
  /\ autoMu = None
  /\ IF connectAttempt = job[t].attempt
     THEN autoMu' = t /\ Goto(t, "switchLock") /\ UNCHANGED <<job, async>>
     ELSE Exit(t) /\ UNCHANGED autoMu
  /\ UNCHANGED <<manager, switchMu, failoverMu, closing, held, cancelled, tunnels,
                 contexts, database>>

\* Mutant: a failed candidate always reports that the old session is back.
FinishWithoutSessionTest(t) ==
  /\ pc[t] \in {"finishConnected", "finishFailed"}
  /\ IF connectAttempt = job[t].attempt
     THEN connectingIP' = None /\ cancelConnect' = None /\ state' = "connected"
     ELSE UNCHANGED <<connectingIP, cancelConnect, state>>
  /\ autoMu' = IF autoMu = t THEN None ELSE autoMu
  /\ Exit(t)
  /\ UNCHANGED <<routing, choice, cancelAutomatic, connectAttempt, switchMu, failoverMu,
                 closing, held, cancelled, tunnels, contexts, database>>

\* Mutant: after an error only the status is restored.
FinishKeepsMarker(t) ==
  /\ pc[t] \in {"finishConnected", "finishFailed"}
  /\ IF connectAttempt = job[t].attempt
     THEN IF pc[t] = "finishConnected"
          THEN connectingIP' = None /\ cancelConnect' = None /\ UNCHANGED state
          ELSE /\ state' = IF session # None THEN "connected" ELSE "error"
               /\ UNCHANGED <<connectingIP, cancelConnect>>
     ELSE UNCHANGED <<connectingIP, cancelConnect, state>>
  /\ autoMu' = IF autoMu = t THEN None ELSE autoMu
  /\ Exit(t)
  /\ UNCHANGED <<routing, choice, cancelAutomatic, connectAttempt, switchMu, failoverMu,
                 closing, held, cancelled, tunnels, contexts, database>>

FinishConnectAttempt(t) ==
  /\ pc[t] \in {"finishConnected", "finishFailed"}
  /\ IF connectAttempt = job[t].attempt
     THEN /\ connectingIP' = None /\ cancelConnect' = None
          /\ state' = IF pc[t] = "finishConnected" THEN state
                      ELSE IF session # None THEN "connected" ELSE "error"
     ELSE UNCHANGED <<connectingIP, cancelConnect, state>>
  /\ autoMu' = IF autoMu = t THEN None ELSE autoMu
  /\ Exit(t)
  /\ UNCHANGED <<routing, choice, cancelAutomatic, connectAttempt, switchMu, failoverMu,
                 closing, held, cancelled, tunnels, contexts, database>>
-----------------------------------------------------------------------------
(* activate, connectNode and install.                                       *)

\* Where the caller of activate continues when it returns an error or nil.
AfterFailure(t) == CASE job[t].kind = "candidate" -> "finishFailed"
                     [] job[t].kind = "restore" -> "setAutomatic"
                     [] OTHER -> "nextNode"

AfterSuccess(t) == CASE job[t].kind = "candidate" -> "finishConnected"
                     [] job[t].kind = "restore" -> "done"
                     [] OTHER -> "endSwitch"

Activate(t) ==
  /\ pc[t] = "switchLock"
  /\ switchMu = None
  /\ switchMu' = t
  /\ state' = IF RequireHealth(t) THEN state ELSE "connecting"
  /\ Goto(t, "connect")
  /\ UNCHANGED <<routing, choice, attempts, autoMu, failoverMu, async, closing, job, held,
                 cancelled, tunnels, contexts, database>>

\* driver.Start returns an error or a tunnel; the order of the configured
\* protocols is left open.
DialFails(t) ==
  /\ pc[t] = "connect" /\ ~CtxDone(t)
  /\ \E p \in job[t].todo : job' = [job EXCEPT ![t].todo = @ \ {p}]
  /\ UNCHANGED <<manager, locks, async, closing, pc, held, cancelled, tunnels, contexts, database>>

DialSucceeds(t) ==
  /\ pc[t] = "connect" /\ ~CtxDone(t)
  /\ \E p \in job[t].todo, s \in Sessions :
       /\ sess[s] = "none"
       /\ sess' = [sess EXCEPT ![s] = "open"]
       /\ held' = [held EXCEPT ![t] = s]
       /\ job' = [job EXCEPT ![t].todo = @ \ {p}, ![t].protocol = p]
  /\ Goto(t, IF RequireHealth(t) THEN "probe" ELSE "ready")
  /\ UNCHANGED <<manager, locks, async, closing, cancelled, contexts, database>>

\* probeSessionHealth.
ProbeSucceeds(t) ==
  /\ pc[t] = "probe"
  /\ sess[held[t]] = "open" /\ ~CtxDone(t)
  /\ Goto(t, "ready")
  /\ UNCHANGED <<manager, locks, async, closing, job, held, cancelled, tunnels, contexts, database>>

ProbeFails(t) ==
  /\ pc[t] = "probe"
  /\ CloseHeld(t)
  /\ Goto(t, "connect")
  /\ UNCHANGED <<manager, locks, async, closing, job, cancelled, contexts, database>>

\* connectNode gives up; an automatic switch reports it unless cancelled.
ConnectFails(t) ==
  /\ pc[t] = "connect"
  /\ CtxDone(t) \/ job[t].todo = {}
  /\ IF RequireHealth(t) \/ CtxDone(t)
     THEN switchMu' = None /\ Goto(t, AfterFailure(t))
     ELSE Goto(t, "setError") /\ UNCHANGED switchMu
  /\ UNCHANGED <<manager, autoMu, failoverMu, async, closing, job, held, cancelled, tunnels,
                 contexts, database>>

SetError(t) ==
  /\ pc[t] = "setError"
  /\ state' = "error" /\ switchMu' = None
  /\ Goto(t, AfterFailure(t))
  /\ UNCHANGED <<routing, choice, attempts, autoMu, failoverMu, async, closing, job, held,
                 cancelled, tunnels, contexts, database>>

\* Mutant: the session is not closed on the way out.
AbandonOpen(t) ==
  /\ held' = [held EXCEPT ![t] = None]
  /\ switchMu' = None
  /\ Goto(t, AfterFailure(t))
  /\ UNCHANGED <<manager, autoMu, failoverMu, async, closing, job, cancelled, tunnels,
                 contexts, database>>

\* The deferred Close of a session that was not installed.
Abandon(t) ==
  /\ CloseHeld(t)
  /\ switchMu' = None
  /\ Goto(t, AfterFailure(t))
  /\ UNCHANGED <<manager, autoMu, failoverMu, async, closing, job, cancelled, contexts, database>>

CheckContext(t) ==
  /\ pc[t] = "ready"
  /\ \/ CtxDone(t) /\ Abandon(t)
     \/ /\ ~CtxDone(t)
        /\ Goto(t, "install")
        /\ UNCHANGED <<manager, locks, async, closing, job, held, cancelled, tunnels,
                       contexts, database>>

\* Mutant: the pause is not rechecked under the mutex.
MayInstallPaused(t) == job[t].attempt # 0 => connectAttempt = job[t].attempt

MayInstall(t) ==
  /\ ~connectionPaused
  /\ job[t].attempt # 0 => connectAttempt = job[t].attempt

RefuseInstall(t) ==
  /\ pc[t] = "install"
  /\ ~MayInstall(t)
  /\ Abandon(t)

\* DeleteNodeIfStale on the previous node, under mu.
DeleteIfStale(n) ==
  IF n \in stale /\ ~appDone
  THEN store' = [store EXCEPT ![n] = {}] /\ stale' = stale \ {n}
  ELSE UNCHANGED <<store, stale>>

Install(t) ==
  /\ pc[t] = "install"
  /\ MayInstall(t)
  /\ session' = held[t] /\ generation' = generation + 1 /\ directMode' = FALSE
  /\ node' = job[t].node /\ protocol' = job[t].protocol /\ selection' = job[t].selection
  /\ manualIP' = IF job[t].selection = "manual" THEN job[t].node ELSE None
  /\ manualProtocol' = IF job[t].selection = "manual" THEN job[t].forced ELSE None
  /\ state' = "connected"
  /\ DeleteIfStale(IF node = job[t].node THEN None ELSE node)
  /\ job' = [job EXCEPT ![t].installed = held[t], ![t].generation = generation + 1]
  /\ held' = [held EXCEPT ![t] = session]
  /\ Goto(t, IF session = None THEN "saveSelection" ELSE "closeOld")
  /\ UNCHANGED <<connectionPaused, attempts, locks, async, closing, cancelled, tunnels,
                 contexts, meta>>

\* Session.Close outside the mutex, on a session taken out of the manager.
CloseTaken(t) ==
  /\ pc[t] \in {"drop", "closeOld", "closeSession", "closeLate"}
  /\ CloseHeld(t)
  /\ IF pc[t] = "drop" THEN Exit(t)
     ELSE /\ Goto(t, CASE pc[t] = "closeOld" -> "saveSelection"
                       [] pc[t] = "closeSession" -> "waitAsync"
                       [] OTHER -> "closed")
          /\ UNCHANGED <<job, async>>
  /\ UNCHANGED <<manager, locks, closing, cancelled, contexts, database>>

\* What install, failover and setAutomatic write, and whether their context
\* still allows it: install uses Manager.ctx, a handler's is never cancelled.
ToSave(t) == IF job[t].installed = None \/ job[t].selection = "auto" THEN Automatic
             ELSE [selection |-> "manual", manualIP |-> job[t].node,
                   manualProtocol |-> job[t].forced]

MaySave(t) == IF job[t].installed # None THEN ~appDone
              ELSE job[t].kind = "resume" \/ ~ParentDone(t)

\* The three SetMetadata calls, one statement each.
SaveMetadata(t) ==
  /\ \/ /\ pc[t] = "saveSelection" /\ Goto(t, "saveIP")
        /\ meta' = IF MaySave(t) THEN [meta EXCEPT !.selection = ToSave(t).selection] ELSE meta
     \/ /\ pc[t] = "saveIP" /\ Goto(t, "saveProtocol")
        /\ meta' = IF MaySave(t) THEN [meta EXCEPT !.manualIP = ToSave(t).manualIP] ELSE meta
     \/ /\ pc[t] = "saveProtocol"
        /\ meta' = IF MaySave(t) THEN [meta EXCEPT !.manualProtocol = ToSave(t).manualProtocol]
                                 ELSE meta
        /\ Goto(t, IF job[t].installed # None THEN "startWatcher"
                   ELSE IF job[t].kind = "failover" THEN "switch" ELSE "startSwitch")
  /\ UNCHANGED <<manager, locks, async, closing, job, held, cancelled, tunnels, contexts,
                 store, stale>>

\* Mutant: the watcher gets the generation before install incremented it.
StartWatcherTooEarly(t) ==
  /\ pc[t] = "startWatcher"
  /\ LET s == job[t].installed IN
     IF closing
     THEN Goto(t, AfterSuccess(t)) /\ UNCHANGED <<async, job>>
     ELSE /\ pc' = [pc EXCEPT ![s] = "watch", ![t] = AfterSuccess(t)]
          /\ job' = [job EXCEPT ![s].kind = "failover", ![s].expected = s,
                                ![s].generation = job[t].generation - 1]
          /\ async' = async \cup {s}
  /\ switchMu' = None
  /\ UNCHANGED <<manager, autoMu, failoverMu, closing, held, cancelled, tunnels, contexts,
                 database>>

\* The end of install: unless Close has begun, a goroutine waits for the
\* session to end; activate then releases switchMu.
StartWatcher(t) ==
  /\ pc[t] = "startWatcher"
  /\ LET s == job[t].installed IN
     IF closing
     THEN Goto(t, AfterSuccess(t)) /\ UNCHANGED <<async, job>>
     ELSE /\ pc' = [pc EXCEPT ![s] = "watch", ![t] = AfterSuccess(t)]
          /\ job' = [job EXCEPT ![s].kind = "failover", ![s].expected = s,
                                ![s].generation = job[t].generation]
          /\ async' = async \cup {s}
  /\ switchMu' = None
  /\ UNCHANGED <<manager, autoMu, failoverMu, closing, held, cancelled, tunnels, contexts,
                 database>>
-----------------------------------------------------------------------------
(* switchAutomatic: SwitchAutomatic takes autoMu first, failover holds it.  *)

\* Up to the registration of cancelAutomatic.
BeginSwitch(t) ==
  /\ IF connectionPaused
     THEN /\ Exit(t)
          /\ autoMu' = None
          /\ failoverMu' = IF failoverMu = t THEN None ELSE failoverMu
          /\ UNCHANGED <<cancelAutomatic, cancelled>>
     ELSE /\ cancelAutomatic' = t /\ cancelled' = cancelled \ {t}
          /\ autoMu' = t
          /\ Goto(t, "rankedNodes")
          /\ UNCHANGED <<failoverMu, job, async>>
  /\ UNCHANGED <<routing, choice, connectingIP, cancelConnect, connectAttempt, state,
                 switchMu, closing, held, tunnels, contexts, database>>

SwitchAutomatic(t) ==
  /\ pc[t] = "autoLock" /\ job[t].kind \in {"auto", "follow"}
  /\ autoMu = None
  /\ BeginSwitch(t)

SwitchAfterFailover(t) ==
  /\ pc[t] = "switch"
  /\ BeginSwitch(t)

\* store.Nodes: the first CandidateLimit nodes of an unspecified ranking.
RankedNodes(t) ==
  /\ pc[t] = "rankedNodes"
  /\ IF CtxDone(t) \/ Listed = {}
     THEN Goto(t, "endSwitch") /\ UNCHANGED job
     ELSE /\ \E top \in SUBSET Listed :
               /\ Cardinality(top) <= CandidateLimit
               /\ top = Listed \/ Cardinality(top) = CandidateLimit
               /\ job' = [job EXCEPT ![t].candidates =
                            [n \in Nodes |-> IF n \in top THEN store[n] ELSE {}]]
          /\ Goto(t, "nextNode")
  /\ UNCHANGED <<manager, locks, async, closing, held, cancelled, tunnels, contexts, database>>

Untried(t) == {n \in Nodes : job[t].candidates[n] # {}}

NextNode(t) ==
  /\ pc[t] = "nextNode"
  /\ ~CtxDone(t)
  /\ \E n \in Untried(t) :
       job' = [job EXCEPT ![t].node = n, ![t].todo = Tries(job[t].candidates[n], None),
                          ![t].candidates = [@ EXCEPT ![n] = {}]]
  /\ Goto(t, "switchLock")
  /\ UNCHANGED <<manager, locks, async, closing, held, cancelled, tunnels, contexts, database>>

StopSwitch(t) ==
  /\ pc[t] = "nextNode"
  /\ \/ CtxDone(t) /\ Goto(t, "endSwitch")
     \/ ~CtxDone(t) /\ Untried(t) = {} /\ Goto(t, "recordError")
  /\ UNCHANGED <<manager, locks, async, closing, job, held, cancelled, tunnels, contexts, database>>

RecordError(t) ==
  /\ pc[t] = "recordError"
  /\ state' = "error"
  /\ Goto(t, "endSwitch")
  /\ UNCHANGED <<routing, choice, attempts, locks, async, closing, job, held, cancelled,
                 tunnels, contexts, database>>

\* Mutant: the cancel function of a finished switch stays registered.
EndSwitchRegistered(t) ==
  /\ pc[t] = "endSwitch"
  /\ autoMu' = None
  /\ failoverMu' = IF failoverMu = t THEN None ELSE failoverMu
  /\ Exit(t)
  /\ UNCHANGED <<manager, switchMu, closing, held, cancelled, tunnels, contexts, database>>

EndSwitch(t) ==
  /\ pc[t] = "endSwitch"
  /\ cancelAutomatic' = None /\ autoMu' = None
  /\ failoverMu' = IF failoverMu = t THEN None ELSE failoverMu
  /\ Exit(t)
  /\ UNCHANGED <<routing, choice, connectingIP, cancelConnect, connectAttempt, state,
                 switchMu, closing, held, cancelled, tunnels, contexts, database>>
-----------------------------------------------------------------------------
(* failover, setAutomatic and the watcher of a session.                     *)

FailoverLock(t) ==
  /\ pc[t] = "failover"
  /\ failoverMu = None
  /\ failoverMu' = t
  /\ Goto(t, "failoverAuto")
  /\ UNCHANGED <<manager, switchMu, autoMu, async, closing, job, held, cancelled, tunnels,
                 contexts, database>>

\* Mutant: failover does not compare the session with the expected one.
OutdatedIfPaused(t) == connectionPaused

\* The failed session is no longer current, or connections are paused.
Outdated(t) ==
  \/ job[t].expected # None /\ session # job[t].expected
  \/ connectionPaused

\* Mutant: the early return of failover leaves autoMu locked.
IgnoreFailoverLocked(t) ==
  /\ pc[t] = "failoverAuto"
  /\ autoMu = None
  /\ Outdated(t)
  /\ failoverMu' = None /\ autoMu' = t
  /\ Exit(t)
  /\ UNCHANGED <<manager, switchMu, closing, held, cancelled, tunnels, contexts, database>>

IgnoreFailover(t) ==
  /\ pc[t] = "failoverAuto"
  /\ autoMu = None
  /\ Outdated(t)
  /\ failoverMu' = None
  /\ Exit(t)
  /\ UNCHANGED <<manager, switchMu, autoMu, closing, held, cancelled, tunnels, contexts, database>>

ForgetManual ==
  /\ selection' = "auto" /\ manualIP' = None /\ manualProtocol' = None
  /\ UNCHANGED <<node, protocol>>

Failover(t) ==
  /\ pc[t] = "failoverAuto"
  /\ autoMu = None
  /\ ~Outdated(t)
  /\ autoMu' = t
  /\ ForgetManual
  /\ \/ /\ TRUE \in FallbackToDirect
        /\ session' = None /\ generation' = generation + 1 /\ directMode' = TRUE
        /\ state' = "connecting"
        /\ held' = [held EXCEPT ![t] = session]
        /\ Goto(t, IF session = None THEN "saveSelection" ELSE "closeOld")
     \/ /\ FALSE \in FallbackToDirect
        /\ Goto(t, "saveSelection")
        /\ UNCHANGED <<session, generation, directMode, state, held>>
  /\ UNCHANGED <<connectionPaused, attempts, switchMu, failoverMu, async, closing, job,
                 cancelled, tunnels, contexts, database>>

\* setAutomatic, up to its metadata writes.
SetAutomatic(t) ==
  /\ pc[t] = "setAutomatic"
  /\ ForgetManual
  /\ Goto(t, "saveSelection")
  /\ UNCHANGED <<routing, attempts, state, locks, async, closing, job, held, cancelled,
                 tunnels, contexts, database>>

\* After setAutomatic: Start calls SwitchAutomatic, a resume startAutomatic.
StartSwitch(t) ==
  /\ pc[t] = "startSwitch"
  /\ job' = [job EXCEPT ![t] = Job("auto", None, "auto", None, {})]
  /\ Goto(t, IF t = Starter THEN "autoLock" ELSE "runAsync")
  /\ UNCHANGED <<manager, locks, async, closing, held, cancelled, tunnels, contexts, database>>

\* The watcher's session.Wait returns.
WatcherWakes(s) ==
  /\ pc[s] = "watch"
  /\ sess[s] # "open" \/ appDone
  /\ IF ~appDone /\ generation = job[s].generation
     THEN Goto(s, "failover") /\ UNCHANGED <<job, async>>
     ELSE Exit(s)
  /\ UNCHANGED <<manager, locks, closing, held, cancelled, tunnels, contexts, database>>
-----------------------------------------------------------------------------
(* Start.                                                                   *)

Start ==
  /\ pc[Starter] = "start"
  /\ IF selection = "manual" /\ manualIP # None
     THEN /\ job' = [job EXCEPT ![Starter] = Job("restore", manualIP, "manual",
                                                 manualProtocol, {})]
          /\ Goto(Starter, "restoreLookup")
     ELSE /\ job' = [job EXCEPT ![Starter].kind = "auto"]
          /\ Goto(Starter, "autoLock")
  /\ UNCHANGED <<manager, locks, async, closing, held, cancelled, tunnels, contexts, database>>

RestoreLookup ==
  /\ pc[Starter] = "restoreLookup"
  /\ LET offered == store[job[Starter].node] IN
     IF offered = {} \/ appDone
     THEN Goto(Starter, "setAutomatic") /\ UNCHANGED job
     ELSE /\ job' = [job EXCEPT ![Starter].todo = Tries(offered, job[Starter].forced)]
          /\ Goto(Starter, "restoreState")
  /\ UNCHANGED <<manager, locks, async, closing, held, cancelled, tunnels, contexts, database>>

RestoreState ==
  /\ pc[Starter] = "restoreState"
  /\ state' = "connecting"
  /\ Goto(Starter, "switchLock")
  /\ UNCHANGED <<routing, choice, attempts, locks, async, closing, job, held, cancelled,
                 tunnels, contexts, database>>
-----------------------------------------------------------------------------
(* PreservedIP and AfterRefresh, called by the refresher.                   *)

PreservedIP == CASE session # None -> node
                 [] session = None /\ connectionPaused /\ selection = "manual" -> manualIP
                 [] OTHER -> None

AfterRefresh(t) ==
  /\ pc[t] = "afterRefresh"
  /\ \/ /\ connectionPaused \/ (session # None /\ FALSE \in FollowRanking)
        /\ Exit(t)
     \/ /\ ~connectionPaused
        /\ session = None \/ (selection = "auto" /\ TRUE \in FollowRanking)
        /\ job' = [job EXCEPT ![t].kind = "follow"]
        /\ Goto(t, "runAsync")
        /\ UNCHANGED async
     \/ /\ ~connectionPaused
        /\ session # None /\ selection = "manual" /\ TRUE \in FollowRanking
        /\ job' = [job EXCEPT ![t].node = node]
        /\ Goto(t, "lookupActive")
        /\ UNCHANGED async
  /\ UNCHANGED <<manager, locks, closing, held, cancelled, tunnels, contexts, database>>

LookupActive(t) ==
  /\ pc[t] = "lookupActive"
  /\ IF store[job[t].node] = {} /\ ~appDone
     THEN /\ job' = [job EXCEPT ![t].kind = "failover"]
          /\ Goto(t, "runAsync")
          /\ UNCHANGED async
     ELSE Exit(t)
  /\ UNCHANGED <<manager, locks, closing, held, cancelled, tunnels, contexts, database>>
-----------------------------------------------------------------------------
(* Close.                                                                   *)

Close ==
  /\ pc[Closer] = "close"
  /\ closing' = TRUE
  /\ Goto(Closer, "takeSession")
  /\ UNCHANGED <<manager, locks, async, job, held, cancelled, tunnels, contexts, database>>

TakeSession ==
  /\ pc[Closer] = "takeSession"
  /\ session' = None /\ generation' = generation + 1
  /\ connectingIP' = None /\ cancelConnect' = None /\ cancelAutomatic' = None
  /\ connectAttempt' = connectAttempt + 1
  /\ cancelled' = cancelled \cup Cancellable
  /\ held' = [held EXCEPT ![Closer] = session]
  /\ Goto(Closer, "closeSession")
  /\ UNCHANGED <<directMode, connectionPaused, choice, state, locks, async, closing, job,
                 tunnels, contexts, database>>

\* Mutant: Close does not look at the session again after async.Wait.
LeaveLateSession ==
  /\ pc[Closer] = "waitAsync"
  /\ async = {}
  /\ Goto(Closer, "closeLate")
  /\ UNCHANGED <<manager, locks, async, closing, job, held, cancelled, tunnels, contexts,
                 database>>

\* async.Wait returns; a session installed meanwhile is taken as well.
TakeLateSession ==
  /\ pc[Closer] = "waitAsync"
  /\ async = {}
  /\ session' = None /\ generation' = generation + 1
  /\ held' = [held EXCEPT ![Closer] = session]
  /\ Goto(Closer, "closeLate")
  /\ UNCHANGED <<directMode, connectionPaused, choice, attempts, state, locks, async, closing,
                 job, cancelled, tunnels, contexts, database>>
=============================================================================
