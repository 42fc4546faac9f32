----------------------- MODULE ManagedVpnSafetyProofs -----------------------
(***************************************************************************)
(* Inv is an inductive invariant of the VPN manager.  Most steps neither   *)
(* touch a session nor move a goroutine near one: they are shown to be     *)
(* quiet steps once, and quiet steps to preserve Inv once.  Each remaining *)
(* action has a lemma of its own.                                          *)
(***************************************************************************)
EXTENDS ManagedVpnProofs

Loud == Connected \cup Taken \cup Installing \cup {"watch"} \cup ShuttingDown \cup Closing

\* A step of t between places where it holds no session, installs none and
\* watches none, which leaves sessions, contexts and other goroutines alone.
QuietStep(t) ==
  /\ pc[t] \notin Loud /\ (pc[t] = "idle" => t \in Tasks \cup {Monitor})
  /\ \E l \in Labels \ Loud : pc' = [pc EXCEPT ![t] = l]
  /\ \/ job'[t].installed = None
     \/ /\ job'[t].installed = job[t].installed
        /\ pc[t] \notin {"finishConnected", "endSwitch", "done"}
  /\ \A u \in Actors \ {t} : job'[u] = job[u]
  /\ UNCHANGED <<session, generation, directMode, held, sess, appDone, closing>>
  /\ connectionPaused' => connectionPaused
  /\ state' = "connected" => state = "connected" \/ session # None

\* A goroutine that returns moves to a quiet place and forgets what it
\* installed.
LEMMA ExitQuiet ==
  ASSUME TypeOK, NEW t \in Actors, Exit(t)
  PROVE  /\ \E l \in Labels \ Loud : pc' = [pc EXCEPT ![t] = l]
         /\ job'[t].installed = None
         /\ \A u \in Actors \ {t} : job'[u] = job[u]
<1>1. pc' = [pc EXCEPT ![t] = "idle"] \/ pc' = [pc EXCEPT ![t] = "done"]
  BY DEF Exit
<1>2. {"idle", "done"} \subseteq Labels \ Loud
  BY DEF Labels, Loud, Connected, Taken, Installing, ShuttingDown, Closing
<1>3. NoJob.installed = None
  BY DEF NoJob, Job
<1>. QED  BY <1>1, <1>2, <1>3 DEF TypeOK, GoroutineTypeOK, Exit

\* A quiet step leaves every session in the hands it is in.
LEMMA QuietHands ==
  ASSUME TypeOK, HandsInv, NEW t \in Actors, QuietStep(t) PROVE HandsInv'
<1>. SUFFICES ASSUME NEW a \in Actors
     PROVE  /\ held'[a] # None => pc'[a] \in Connected \cup Taken
            /\ pc'[a] \in Connected => held'[a] # None
            /\ pc'[a] = "startWatcher" => job'[a].installed # None
            /\ job'[a].installed # None =>
                 pc'[a] \in Installing \cup {"finishConnected", "endSwitch", "done"}
  BY DEF HandsInv
<1>1. PICK l \in Labels \ Loud : pc' = [pc EXCEPT ![t] = l]
  BY DEF QuietStep
<1>2. CASE a # t
  BY <1>1, <1>2 DEF TypeOK, GoroutineTypeOK, HandsInv, QuietStep
<1>3. CASE a = t
  BY <1>1, <1>3 DEF TypeOK, GoroutineTypeOK, HandsInv, QuietStep, Loud, Installing
<1>. QED  BY <1>2, <1>3

\* A quiet step starts, stops and moves no watcher.
LEMMA QuietWatchers ==
  ASSUME TypeOK, HandsInv, WatcherInv, NEW t \in Actors, QuietStep(t) PROVE WatcherInv'
<1>1. PICK l \in Labels \ Loud : pc' = [pc EXCEPT ![t] = l]
  BY DEF QuietStep
<1>2. \A a \in Actors : job'[a].installed \in {None, job[a].installed}
  BY DEF QuietStep
<1>3. \A a \in Actors : pc'[a] \in Loud => pc'[a] = pc[a] /\ a # t
  BY <1>1 DEF TypeOK, GoroutineTypeOK
<1>4. \A s \in Sessions : s \in Actors /\ s # None /\ (pc[s] = "idle" => pc'[s] = "idle")
  BY <1>1, NamesAssumption DEF Actors, TypeOK, GoroutineTypeOK, QuietStep
<1>5. \A a \in Actors : pc'[a] \in Connected \cup Installing => pc'[a] = pc[a] /\ a # t
  BY <1>3 DEF Loud
<1>6. \A a \in Actors : held[a] \in Sessions \cup {None} /\ job[a].installed \in Sessions \cup {None}
  BY ActorTypes, JobFields
<1>7. held' = held /\ sess' = sess
  BY DEF QuietStep
<1>8. \A s \in Sessions : sess'[s] = "none" =>
       pc'[s] = "idle" /\ \A a \in Actors : job'[a].installed # s
  BY <1>2, <1>4, <1>7 DEF WatcherInv
<1>9. \A a \in Actors : pc'[a] \in Connected =>
       pc'[held'[a]] = "idle" /\ \A b \in Actors : job'[b].installed # held'[a]
  BY <1>2, <1>4, <1>5, <1>6, <1>7 DEF WatcherInv, HandsInv
<1>10. \A a \in Actors : (pc'[a] \in Installing /\ job'[a].installed # None) =>
       pc'[job'[a].installed] = "idle"
  BY <1>2, <1>4, <1>5, <1>6 DEF WatcherInv
<1>11. \A a, b \in Actors :
       (job'[a].installed = job'[b].installed /\ job'[a].installed # None) => a = b
  BY <1>2 DEF WatcherInv
<1>. QED  BY <1>8, <1>9, <1>10, <1>11 DEF WatcherInv

\* A quiet step preserves the shutdown order and the four safety properties.
LEMMA QuietRest ==
  ASSUME Inv, NEW t \in Actors, QuietStep(t)
  PROVE  /\ ShutdownInv' /\ SessionOwnership' /\ RoutingExclusive'
         /\ LiveSessionIsWatched' /\ ConnectedMeansSession'
<1>1. PICK l \in Labels \ Loud : pc' = [pc EXCEPT ![t] = l]
  BY DEF QuietStep
<1>2. UNCHANGED <<session, generation, directMode, held, sess, appDone, closing>>
  BY DEF QuietStep
<1>3. ShutdownInv'
  BY <1>1, <1>2 DEF Inv, TypeOK, GoroutineTypeOK, ShutdownInv, Loud, Actors
<1>4. SessionOwnership'
  BY <1>2 DEF Inv, SessionOwnership, Unclosed
<1>5. RoutingExclusive' /\ ConnectedMeansSession'
  BY <1>2 DEF Inv, QuietStep, RoutingExclusive, ConnectedMeansSession
<1>6. LiveSessionIsWatched'
  <2>1. \A a \in Actors : pc[a] \in Loud => pc'[a] = pc[a] /\ job'[a] = job[a]
    BY <1>1 DEF Inv, TypeOK, GoroutineTypeOK, QuietStep
  <2>. QED  BY <1>2, <2>1 DEF Inv, LiveSessionIsWatched, Loud, Installing, Actors
<1>. QED  BY <1>3, <1>4, <1>5, <1>6
-----------------------------------------------------------------------------
(* The quiet steps.                                                         *)

\* The places where a goroutine has nothing to do with a session.
LEMMA QuietLabels ==
  \A l \in {"idle", "done", "reconnectLookup", "resumeLookup", "startCandidate", "runAsync",
            "autoLock", "finishConnected", "finishFailed", "switchLock", "connect", "setError",
            "startSwitch", "rankedNodes", "nextNode", "recordError", "endSwitch", "failover",
            "failoverAuto", "switch", "setAutomatic", "start", "restoreLookup", "restoreState",
            "replaceNodes", "afterRefresh", "lookupActive", "tick", "check", "off",
            "stopMonitor", "run"} : l \in Labels /\ l \notin Loud
  BY DEF Labels, Loud, Connected, Taken, Installing, ShuttingDown, Closing

\* No assignment to locals but install's own touches what was installed.
LEMMA KeepsInstalled ==
  ASSUME NEW j \in Jobs
  PROVE  /\ \A k : [j EXCEPT !.kind = k].installed = j.installed
         /\ \A n : [j EXCEPT !.node = n].installed = j.installed
         /\ \A a : [j EXCEPT !.attempt = a].installed = j.installed
         /\ \A d : [j EXCEPT !.todo = d].installed = j.installed
         /\ \A c : [j EXCEPT !.candidates = c].installed = j.installed
         /\ \A k, d : [j EXCEPT !.kind = k, !.todo = d].installed = j.installed
         /\ \A k, e : [j EXCEPT !.kind = k, !.expected = e].installed = j.installed
         /\ \A d, p : [j EXCEPT !.todo = d, !.protocol = p].installed = j.installed
         /\ \A n, d, c : [j EXCEPT !.node = n, !.todo = d, !.candidates = c].installed = j.installed
         /\ \A k, n, c : [j EXCEPT !.kind = k, !.node = n, !.candidates = c].installed = j.installed
  BY DEF Jobs

\* A goroutine starts with nothing installed.
LEMMA FreshJob ==
  /\ NoJob.installed = None
  /\ \A kind, n, mode, forced, todo : Job(kind, n, mode, forced, todo).installed = None
  BY DEF NoJob, Job

\* The steps of a candidate and of connectNode that touch no session are quiet.
LEMMA QuietConnect ==
  ASSUME TypeOK, NEW t \in Actors,
         \/ CandidateTurn(t) \/ FinishConnectAttempt(t) \/ Activate(t) \/ DialFails(t)
         \/ ConnectFails(t) \/ SetError(t)
  PROVE  QuietStep(t)
<1>0. job[t] \in Jobs
  BY ActorTypes
<1>1. CASE CandidateTurn(t)
  <2>1. CASE Exit(t)
    BY <1>1, <2>1, ExitQuiet, QuietLabels
       DEF CandidateTurn, QuietStep, manager, routing, tunnels, contexts
  <2>2. CASE ~Exit(t)
    BY <1>1, <2>2, QuietLabels
       DEF CandidateTurn, QuietStep, Goto, manager, routing, tunnels, contexts
  <2>. QED  BY <2>1, <2>2
<1>2. CASE FinishConnectAttempt(t)
  <2>1. pc[t] \in {"finishConnected", "finishFailed"} /\ Exit(t)
    BY <1>2 DEF FinishConnectAttempt
  <2>. QED
    BY <1>2, <2>1, ExitQuiet, QuietLabels
       DEF FinishConnectAttempt, QuietStep, routing, tunnels, contexts
<1>3. CASE Activate(t)
  BY <1>3, QuietLabels DEF Activate, QuietStep, Goto, routing, tunnels, contexts
<1>4. CASE DialFails(t)
  <2>1. PICK p \in job[t].todo : job' = [job EXCEPT ![t].todo = @ \ {p}]
    BY <1>4 DEF DialFails
  <2>2. /\ job'[t].installed = job[t].installed
        /\ \A u \in Actors \ {t} : job'[u] = job[u]
    BY <1>0, <2>1, KeepsInstalled DEF TypeOK, GoroutineTypeOK
  <2>3. pc[t] = "connect" /\ pc' = [pc EXCEPT ![t] = "connect"]
    BY <1>4 DEF DialFails, TypeOK, GoroutineTypeOK
  <2>. QED
    BY <1>4, <2>2, <2>3, QuietLabels DEF DialFails, QuietStep, manager, routing, tunnels, contexts
<1>5. CASE ConnectFails(t)
  <2>1. \E l \in {"finishFailed", "setAutomatic", "nextNode", "setError"} : Goto(t, l)
    BY <1>5 DEF ConnectFails, AfterFailure
  <2>. QED
    BY <1>5, <2>1, QuietLabels DEF ConnectFails, QuietStep, Goto, manager, routing, tunnels, contexts
<1>6. CASE SetError(t)
  <2>1. \E l \in {"finishFailed", "setAutomatic", "nextNode"} : Goto(t, l)
    BY <1>6 DEF SetError, AfterFailure
  <2>. QED
    BY <1>6, <2>1, QuietLabels DEF SetError, QuietStep, Goto, routing, tunnels, contexts
<1>. QED  BY <1>1, <1>2, <1>3, <1>4, <1>5, <1>6

\* So are those of switchAutomatic, failover and setAutomatic.
LEMMA QuietSwitch ==
  ASSUME TypeOK, NEW t \in Actors,
         \/ SwitchAutomatic(t) \/ SwitchAfterFailover(t) \/ RankedNodes(t) \/ NextNode(t)
         \/ StopSwitch(t) \/ RecordError(t) \/ EndSwitch(t) \/ FailoverLock(t)
         \/ IgnoreFailover(t) \/ StartSwitch(t)
  PROVE  QuietStep(t)
<1>0. job[t] \in Jobs
  BY ActorTypes
<1>1. ASSUME BeginSwitch(t), pc[t] \in {"autoLock", "switch"} PROVE QuietStep(t)
  <2>1. CASE Exit(t)
    BY <1>1, <2>1, ExitQuiet, QuietLabels
       DEF BeginSwitch, QuietStep, routing, tunnels, contexts
  <2>2. CASE ~Exit(t)
    BY <1>1, <2>2, QuietLabels DEF BeginSwitch, QuietStep, Goto, routing, tunnels, contexts
  <2>. QED  BY <2>1, <2>2
<1>2. CASE SwitchAutomatic(t) \/ SwitchAfterFailover(t)
  BY <1>1, <1>2 DEF SwitchAutomatic, SwitchAfterFailover
<1>3. CASE RankedNodes(t)
  <2>1. ASSUME NEW c, job' = [job EXCEPT ![t].candidates = c]
        PROVE  job'[t].installed = job[t].installed /\ \A u \in Actors \ {t} : job'[u] = job[u]
    BY <1>0, <2>1, KeepsInstalled DEF TypeOK, GoroutineTypeOK
  <2>2. /\ job'[t].installed = job[t].installed
        /\ \A u \in Actors \ {t} : job'[u] = job[u]
    BY <1>3, <2>1 DEF RankedNodes
  <2>3. pc[t] = "rankedNodes" /\ \E l \in {"endSwitch", "nextNode"} : Goto(t, l)
    BY <1>3 DEF RankedNodes
  <2>. QED
    BY <1>3, <2>2, <2>3, QuietLabels DEF RankedNodes, QuietStep, Goto, manager, routing, tunnels, contexts
<1>4. CASE NextNode(t)
  <2>1. PICK n \in Untried(t) :
          job' = [job EXCEPT ![t].node = n, ![t].todo = Tries(job[t].candidates[n], None),
                             ![t].candidates = [@ EXCEPT ![n] = {}]]
    BY <1>4 DEF NextNode
  <2>2. /\ job'[t].installed = job[t].installed
        /\ \A u \in Actors \ {t} : job'[u] = job[u]
    BY <1>0, <2>1, KeepsInstalled DEF TypeOK, GoroutineTypeOK
  <2>. QED
    BY <1>4, <2>2, QuietLabels DEF NextNode, QuietStep, Goto, manager, routing, tunnels, contexts
<1>5. CASE StopSwitch(t)
  BY <1>5, QuietLabels DEF StopSwitch, QuietStep, Goto, manager, routing, tunnels, contexts
<1>6. CASE RecordError(t)
  BY <1>6, QuietLabels DEF RecordError, QuietStep, Goto, routing, tunnels, contexts
<1>7. CASE EndSwitch(t)
  BY <1>7, ExitQuiet, QuietLabels DEF EndSwitch, QuietStep, routing, tunnels, contexts
<1>8. CASE FailoverLock(t)
  BY <1>8, QuietLabels DEF FailoverLock, QuietStep, Goto, manager, routing, tunnels, contexts
<1>9. CASE IgnoreFailover(t)
  BY <1>9, ExitQuiet, QuietLabels DEF IgnoreFailover, QuietStep, manager, routing, tunnels, contexts
<1>10. CASE StartSwitch(t)
  <2>1. /\ job'[t].installed = None
        /\ \A u \in Actors \ {t} : job'[u] = job[u]
    BY <1>10, FreshJob DEF StartSwitch, TypeOK, GoroutineTypeOK
  <2>2. pc[t] = "startSwitch" /\ \E l \in {"autoLock", "runAsync"} : Goto(t, l)
    BY <1>10 DEF StartSwitch
  <2>. QED
    BY <1>10, <2>1, <2>2, QuietLabels DEF StartSwitch, QuietStep, Goto, manager, routing, tunnels, contexts
<1>. QED  BY <1>2, <1>3, <1>4, <1>5, <1>6, <1>7, <1>8, <1>9, <1>10

\* So are the steps of handlers and of the refresher after their first.
LEMMA QuietTask ==
  ASSUME TypeOK, NEW t \in Tasks, TaskStep(t), ~StartMonitor(t)
  PROVE  QuietStep(t)
<1>0. t \in Actors /\ job[t] \in Jobs
  BY ActorTypes DEF Actors
<1>a. ASSUME NEW found \in Labels \ Loud, NEW missing \in Labels \ Loud,
             Lookup(t, found, missing)
      PROVE  /\ \E l \in Labels \ Loud : pc' = [pc EXCEPT ![t] = l]
             /\ job'[t].installed \in {None, job[t].installed}
             /\ \A u \in Actors \ {t} : job'[u] = job[u]
  <2>1. CASE Exit(t)
    BY <1>0, <2>1, ExitQuiet
  <2>2. CASE Goto(t, found) /\ store[job[t].node] # {}
    <3>1. job' = [job EXCEPT ![t].kind = "candidate",
                             ![t].todo = Tries(store[job[t].node], job[t].forced)]
      BY <1>a, <2>2 DEF Lookup
    <3>2. /\ job'[t].installed = job[t].installed
          /\ \A u \in Actors \ {t} : job'[u] = job[u]
      BY <1>0, <3>1, KeepsInstalled DEF TypeOK, GoroutineTypeOK
    <3>. QED  BY <2>2, <3>2 DEF Goto
  <2>3. CASE Goto(t, missing) /\ UNCHANGED job
    BY <1>0, <2>3 DEF Goto
  <2>. QED  BY <1>a, <2>1, <2>2, <2>3 DEF Lookup
<1>1. CASE ReconnectLookup(t)
  BY <1>1, <1>a, QuietLabels DEF ReconnectLookup, QuietStep, manager, routing, tunnels, contexts
<1>2. CASE ResumeLookup(t)
  BY <1>2, <1>a, QuietLabels DEF ResumeLookup, QuietStep, manager, routing, tunnels, contexts
<1>3. CASE RejectCandidate(t)
  BY <1>0, <1>3, ExitQuiet, QuietLabels
     DEF RejectCandidate, QuietStep, manager, routing, tunnels, contexts
<1>4. CASE StartCandidate(t)
  <2>1. /\ job'[t].installed = job[t].installed
        /\ \A u \in Actors \ {t} : job'[u] = job[u]
    BY <1>0, <1>4, KeepsInstalled DEF StartCandidate, TypeOK, GoroutineTypeOK
  <2>. QED
    BY <1>4, <2>1, QuietLabels DEF StartCandidate, QuietStep, Goto, tunnels, contexts
<1>5. CASE RunAsync(t)
  <2>1. pc[t] = "runAsync" /\ \E l \in {"failover", "autoLock"} : Goto(t, l)
    BY <1>5 DEF RunAsync
  <2>. QED
    BY <1>5, <2>1, QuietLabels DEF RunAsync, QuietStep, Goto, manager, routing, tunnels, contexts
<1>6. CASE RefuseAsync(t)
  <2>1. CASE Exit(t)
    BY <1>0, <1>6, <2>1, ExitQuiet, QuietLabels
       DEF RefuseAsync, QuietStep, manager, routing, tunnels, contexts
  <2>2. CASE ~Exit(t)
    BY <1>6, <2>2, QuietLabels DEF RefuseAsync, QuietStep, Goto, manager, routing, tunnels, contexts
  <2>. QED  BY <2>1, <2>2
<1>7. CASE ReplaceNodes(t)
  <2>1. CASE appDone
    BY <1>0, <1>7, <2>1, ExitQuiet, QuietLabels
       DEF ReplaceNodes, QuietStep, manager, routing, tunnels, contexts
  <2>2. CASE ~appDone
    <3>1. /\ job'[t].installed = None
          /\ \A u \in Actors \ {t} : job'[u] = job[u]
      BY <1>0, <1>7, <2>2, FreshJob DEF ReplaceNodes, TypeOK, GoroutineTypeOK
    <3>. QED
      BY <1>7, <2>2, <3>1, QuietLabels
         DEF ReplaceNodes, QuietStep, Goto, manager, routing, tunnels, contexts
  <2>. QED  BY <2>1, <2>2
<1>8. CASE AfterRefresh(t)
  <2>1. CASE Exit(t)
    BY <1>0, <1>8, <2>1, ExitQuiet, QuietLabels
       DEF AfterRefresh, QuietStep, manager, routing, tunnels, contexts
  <2>2. CASE ~Exit(t)
    <3>0. \/ job' = [job EXCEPT ![t].kind = "follow"]
          \/ job' = [job EXCEPT ![t].node = node]
      BY <1>8, <2>2 DEF AfterRefresh
    <3>1. /\ job'[t].installed = job[t].installed
          /\ \A u \in Actors \ {t} : job'[u] = job[u]
      <4>1. CASE job' = [job EXCEPT ![t].kind = "follow"]
        BY <1>0, <4>1, KeepsInstalled DEF TypeOK, GoroutineTypeOK
      <4>2. CASE job' = [job EXCEPT ![t].node = node]
        BY <1>0, <4>2, KeepsInstalled DEF TypeOK, GoroutineTypeOK
      <4>. QED  BY <3>0, <4>1, <4>2
    <3>2. pc[t] = "afterRefresh" /\ \E l \in {"runAsync", "lookupActive"} : Goto(t, l)
      BY <1>8, <2>2 DEF AfterRefresh
    <3>. QED
      BY <1>8, <3>1, <3>2, QuietLabels
         DEF AfterRefresh, QuietStep, Goto, manager, routing, tunnels, contexts
  <2>. QED  BY <2>1, <2>2
<1>9. CASE LookupActive(t)
  <2>1. CASE Exit(t)
    BY <1>0, <1>9, <2>1, ExitQuiet, QuietLabels
       DEF LookupActive, QuietStep, manager, routing, tunnels, contexts
  <2>2. CASE ~Exit(t)
    <3>0. job' = [job EXCEPT ![t].kind = "failover"]
      BY <1>9, <2>2 DEF LookupActive
    <3>1. /\ job'[t].installed = job[t].installed
          /\ \A u \in Actors \ {t} : job'[u] = job[u]
      BY <1>0, <3>0, KeepsInstalled DEF TypeOK, GoroutineTypeOK
    <3>. QED
      BY <1>9, <2>2, <3>1, QuietLabels
         DEF LookupActive, QuietStep, Goto, manager, routing, tunnels, contexts
  <2>. QED  BY <2>1, <2>2
<1>. QED
  BY <1>1, <1>2, <1>3, <1>4, <1>5, <1>6, <1>7, <1>8, <1>9 DEF TaskStep

\* So are the first steps of every request but a pause.
LEMMA QuietHandler ==
  ASSUME TypeOK, NEW t \in Tasks,
         \/ HandlerStarts(t) /\ ~PauseConnection(t)
         \/ FetchNodes(t) \/ RestartTimesOut(t)
  PROVE  QuietStep(t)
<1>0. t \in Actors /\ job[t] \in Jobs
  BY ActorTypes DEF Actors
<1>1. HandlerStarts(t) => pc[t] = "idle"
  BY DEF HandlerStarts, Arrives
<1>2. CASE HandlerStarts(t) /\ SelectManual(t)
  <2>1. PICK n, forced :
          job' = [job EXCEPT ![t] = Job("candidate", n, "manual", forced, Tries(store[n], forced))]
    BY <1>2 DEF SelectManual
  <2>2. /\ job'[t].installed = None
        /\ \A u \in Actors \ {t} : job'[u] = job[u]
    BY <1>0, <2>1, FreshJob DEF TypeOK, GoroutineTypeOK
  <2>. QED
    BY <1>1, <1>2, <2>2, QuietLabels
       DEF SelectManual, QuietStep, Goto, manager, routing, tunnels, contexts
<1>3. CASE HandlerStarts(t) /\ ReconnectCurrent(t)
  <2>1. /\ job'[t].installed = None
        /\ \A u \in Actors \ {t} : job'[u] = job[u]
    BY <1>0, <1>3, FreshJob DEF ReconnectCurrent, TypeOK, GoroutineTypeOK
  <2>. QED
    BY <1>1, <1>3, <2>1, QuietLabels
       DEF ReconnectCurrent, QuietStep, Goto, manager, routing, tunnels, contexts
<1>4. CASE HandlerStarts(t) /\ ResumeConnection(t)
  <2>0. \/ job' = [job EXCEPT ![t] = Job("resume", manualIP, "manual", manualProtocol, {})]
        \/ job' = [job EXCEPT ![t].kind = "auto"]
    BY <1>4 DEF ResumeConnection
  <2>1. /\ job'[t].installed \in {None, job[t].installed}
        /\ \A u \in Actors \ {t} : job'[u] = job[u]
    <3>1. CASE job' = [job EXCEPT ![t].kind = "auto"]
      BY <1>0, <3>1, KeepsInstalled DEF TypeOK, GoroutineTypeOK
    <3>2. CASE job' = [job EXCEPT ![t] = Job("resume", manualIP, "manual", manualProtocol, {})]
      BY <1>0, <3>2, FreshJob DEF TypeOK, GoroutineTypeOK
    <3>. QED  BY <2>0, <3>1, <3>2
  <2>2. \E l \in {"resumeLookup", "runAsync"} : Goto(t, l)
    BY <1>4 DEF ResumeConnection
  <2>. QED
    BY <1>1, <1>4, <2>1, <2>2, QuietLabels
       DEF ResumeConnection, QuietStep, Goto, tunnels, contexts
<1>5. CASE HandlerStarts(t) /\ RestartMonitor(t)
  <2>1. /\ job'[t].installed = job[t].installed
        /\ \A u \in Actors \ {t} : job'[u] = job[u]
    BY <1>0, <1>5, KeepsInstalled DEF RestartMonitor, TypeOK, GoroutineTypeOK
  <2>. QED
    BY <1>1, <1>5, <2>1, QuietLabels
       DEF RestartMonitor, QuietStep, Goto, manager, routing, tunnels
<1>6. CASE FetchNodes(t)
  <2>1. PICK snapshot : job' = [job EXCEPT ![t].kind = "refresh", ![t].node = PreservedIP,
                                           ![t].candidates = snapshot]
    BY <1>6 DEF FetchNodes
  <2>2. /\ job'[t].installed = job[t].installed
        /\ \A u \in Actors \ {t} : job'[u] = job[u]
    BY <1>0, <2>1, KeepsInstalled DEF TypeOK, GoroutineTypeOK
  <2>3. /\ pc[t] = "idle" /\ Goto(t, "replaceNodes")
        /\ UNCHANGED <<manager, closing, held, tunnels, contexts>>
    BY <1>6 DEF FetchNodes
  <2>. QED
    BY <2>2, <2>3, QuietLabels DEF QuietStep, Goto, manager, routing, tunnels, contexts
<1>7. CASE RestartTimesOut(t)
  BY <1>0, <1>7, ExitQuiet, QuietLabels
     DEF RestartTimesOut, QuietStep, manager, routing, tunnels, contexts
<1>. QED  BY <1>2, <1>3, <1>4, <1>5, <1>6, <1>7 DEF HandlerStarts

\* So are the steps of Start.
LEMMA QuietStart ==
  ASSUME TypeOK, StartStep PROVE QuietStep(Starter)
<1>0. Starter \in Actors /\ job[Starter] \in Jobs
  BY ActorTypes DEF Actors
<1>1. CASE Start
  <2>0. \/ job' = [job EXCEPT ![Starter] = Job("restore", manualIP, "manual", manualProtocol, {})]
        \/ job' = [job EXCEPT ![Starter].kind = "auto"]
    BY <1>1 DEF Start
  <2>1. /\ job'[Starter].installed \in {None, job[Starter].installed}
        /\ \A u \in Actors \ {Starter} : job'[u] = job[u]
    <3>1. CASE job' = [job EXCEPT ![Starter].kind = "auto"]
      BY <1>0, <3>1, KeepsInstalled DEF TypeOK, GoroutineTypeOK
    <3>2. CASE job' = [job EXCEPT ![Starter] = Job("restore", manualIP, "manual", manualProtocol, {})]
      BY <1>0, <3>2, FreshJob DEF TypeOK, GoroutineTypeOK
    <3>. QED  BY <2>0, <3>1, <3>2
  <2>2. pc[Starter] = "start" /\ \E l \in {"restoreLookup", "autoLock"} : Goto(Starter, l)
    BY <1>1 DEF Start
  <2>. QED
    BY <1>1, <2>1, <2>2, QuietLabels DEF Start, QuietStep, Goto, manager, routing, tunnels, contexts
<1>2. CASE RestoreLookup
  <2>0. UNCHANGED job \/ \E d : job' = [job EXCEPT ![Starter].todo = d]
    BY <1>2 DEF RestoreLookup
  <2>1. /\ job'[Starter].installed = job[Starter].installed
        /\ \A u \in Actors \ {Starter} : job'[u] = job[u]
    <3>1. ASSUME NEW d, job' = [job EXCEPT ![Starter].todo = d]
          PROVE  job'[Starter].installed = job[Starter].installed
      BY <1>0, <3>1, KeepsInstalled DEF TypeOK, GoroutineTypeOK
    <3>2. ASSUME NEW d, job' = [job EXCEPT ![Starter].todo = d]
          PROVE  \A u \in Actors \ {Starter} : job'[u] = job[u]
      BY <3>2 DEF TypeOK, GoroutineTypeOK
    <3>. QED  BY <2>0, <3>1, <3>2
  <2>2. /\ pc[Starter] = "restoreLookup"
        /\ \E l \in {"setAutomatic", "restoreState"} : Goto(Starter, l)
    BY <1>2 DEF RestoreLookup
  <2>. QED
    BY <1>2, <2>1, <2>2, QuietLabels
       DEF RestoreLookup, QuietStep, Goto, manager, routing, tunnels, contexts
<1>3. CASE RestoreState
  BY <1>3, QuietLabels DEF RestoreState, QuietStep, Goto, routing, tunnels, contexts
<1>. QED  BY <1>1, <1>2, <1>3 DEF StartStep

\* So are those of the health-check loop.
LEMMA QuietMonitor ==
  ASSUME TypeOK, MonitorTick \/ MonitorStep PROVE QuietStep(Monitor)
<1>0. Monitor \in Actors /\ job[Monitor] \in Jobs
  BY ActorTypes DEF Actors
<1>1. CASE MonitorTick
  BY <1>1, QuietLabels DEF MonitorTick, QuietStep, Goto, manager, routing, tunnels, contexts
<1>2. CASE CheckSession
  <2>1. CASE Exit(Monitor)
    BY <1>0, <1>2, <2>1, ExitQuiet, QuietLabels
       DEF CheckSession, QuietStep, manager, routing, tunnels, contexts
  <2>2. CASE ~Exit(Monitor)
    <3>0. job' = [job EXCEPT ![Monitor].kind = "failover", ![Monitor].expected = session]
      BY <1>2, <2>2 DEF CheckSession
    <3>1. /\ job'[Monitor].installed = job[Monitor].installed
          /\ \A u \in Actors \ {Monitor} : job'[u] = job[u]
      BY <1>0, <3>0, KeepsInstalled DEF TypeOK, GoroutineTypeOK
    <3>. QED
      BY <1>2, <2>2, <3>1, QuietLabels
         DEF CheckSession, QuietStep, Goto, manager, routing, tunnels, contexts
  <2>. QED  BY <2>1, <2>2
<1>3. CASE CheckPasses
  BY <1>0, <1>3, ExitQuiet, QuietLabels
     DEF CheckPasses, QuietStep, manager, routing, tunnels, contexts
<1>4. CASE CheckFails
  BY <1>4, QuietLabels DEF CheckFails, QuietStep, Goto, manager, routing, tunnels, contexts
<1>5. CASE MonitorExits
  BY <1>5, QuietLabels DEF MonitorExits, QuietStep, Goto, manager, routing, tunnels, contexts
<1>. QED  BY <1>1, <1>2, <1>3, <1>4, <1>5 DEF MonitorStep
-----------------------------------------------------------------------------
(* What a step that does move sessions or watchers has to establish.        *)

\* Only t moves, and what is installed is not assigned.
Moves(t, l) ==
  /\ pc' = [pc EXCEPT ![t] = l]
  /\ \A a \in Actors : job'[a].installed \in {None, job[a].installed}
  /\ \A a \in Actors \ {t} : held'[a] = held[a] /\ job'[a] = job[a]

\* A step that moves one goroutine preserves HandsInv if its new place fits
\* what it holds and what it has installed.
LEMMA HandsStay ==
  ASSUME TypeOK, HandsInv, NEW t \in Actors, NEW l \in Labels, Moves(t, l),
         held'[t] # None => l \in Connected \cup Taken,
         l \in Connected => held'[t] # None,
         l = "startWatcher" => job'[t].installed # None,
         job'[t].installed # None =>
           l \in Installing \cup {"finishConnected", "endSwitch", "done"}
  PROVE  HandsInv'
<1>. SUFFICES ASSUME NEW a \in Actors
     PROVE  /\ held'[a] # None => pc'[a] \in Connected \cup Taken
            /\ pc'[a] \in Connected => held'[a] # None
            /\ pc'[a] = "startWatcher" => job'[a].installed # None
            /\ job'[a].installed # None =>
                 pc'[a] \in Installing \cup {"finishConnected", "endSwitch", "done"}
  BY DEF HandsInv
<1>1. CASE a = t
  BY <1>1 DEF Moves, TypeOK, GoroutineTypeOK
<1>2. CASE a # t
  BY <1>2 DEF Moves, TypeOK, GoroutineTypeOK, HandsInv
<1>. QED  BY <1>1, <1>2

\* WatcherInv is preserved when the goroutine that moves takes up no session
\* and begins no installation.
LEMMA WatchersStay ==
  ASSUME TypeOK, HandsInv, WatcherInv, NEW t \in Actors, NEW l \in Labels, Moves(t, l),
         pc[t] # "idle" \/ t \notin Sessions,
         l \in Connected => pc[t] \in Connected /\ held'[t] = held[t],
         l \in Installing => pc[t] \in Installing \/ job'[t].installed = None,
         \A s \in Sessions : sess'[s] = "none" => sess[s] = "none"
  PROVE  WatcherInv'
<1>1. \A s \in Sessions : s \in Actors /\ s # None /\ (pc[s] = "idle" => pc'[s] = "idle")
  BY NamesAssumption DEF Actors, Moves, TypeOK, GoroutineTypeOK
<1>2. \A a \in Actors : held[a] \in Sessions \cup {None} /\ job[a].installed \in Sessions \cup {None}
  BY ActorTypes, JobFields
<1>3. \A s \in Sessions : sess'[s] = "none" =>
       pc'[s] = "idle" /\ \A a \in Actors : job'[a].installed # s
  BY <1>1 DEF Moves, WatcherInv
<1>4. ASSUME NEW a \in Actors, pc'[a] \in Connected
      PROVE  pc'[held'[a]] = "idle" /\ \A b \in Actors : job'[b].installed # held'[a]
  <2>1. pc[a] \in Connected /\ held'[a] = held[a]
    BY <1>4 DEF Moves, TypeOK, GoroutineTypeOK
  <2>2. held[a] \in Sessions
    BY <1>2, <2>1 DEF HandsInv
  <2>. QED  BY <1>1, <2>1, <2>2 DEF Moves, WatcherInv
<1>5. ASSUME NEW a \in Actors, pc'[a] \in Installing, job'[a].installed # None
      PROVE  pc'[job'[a].installed] = "idle"
  <2>1. pc[a] \in Installing /\ job'[a].installed = job[a].installed
    BY <1>5 DEF Moves, TypeOK, GoroutineTypeOK
  <2>. QED  BY <1>1, <1>2, <1>5, <2>1 DEF WatcherInv
<1>6. \A a, b \in Actors :
       (job'[a].installed = job'[b].installed /\ job'[a].installed # None) => a = b
  BY DEF Moves, WatcherInv
<1>. QED  BY <1>3, <1>4, <1>5, <1>6 DEF WatcherInv

\* ShutdownInv depends on the shutdown goroutine and two flags only.
LEMMA ShutdownStays ==
  ASSUME ShutdownInv, UNCHANGED <<appDone, closing>>,
         pc'[Closer] = pc[Closer] \/ pc'[Closer] \notin ShuttingDown \cup Closing
  PROVE  ShutdownInv'
  BY DEF ShutdownInv

\* The properties of manager state depend on that state only.
LEMMA PropertiesStay ==
  /\ SessionOwnership /\ UNCHANGED <<session, held, sess>> => SessionOwnership'
  /\ RoutingExclusive /\ UNCHANGED routing => RoutingExclusive'
  /\ ConnectedMeansSession /\ UNCHANGED <<state, session, closing>> => ConnectedMeansSession'
  BY DEF SessionOwnership, Unclosed, RoutingExclusive, ConnectedMeansSession, routing

\* LiveSessionIsWatched survives when the session stays and those who watch or
\* install go on doing so.
LEMMA LiveStays ==
  ASSUME LiveSessionIsWatched, UNCHANGED <<session, generation>>, appDone => appDone',
         \A s \in Sessions : session = s /\ sess'[s] = "open" => sess[s] = "open",
         \A a \in Actors : pc[a] = "watch" => pc'[a] = "watch" /\ job'[a] = job[a],
         \A a \in Actors : pc[a] \in Installing /\ job[a].installed # None =>
                             pc'[a] \in Installing /\ job'[a] = job[a]
  PROVE  LiveSessionIsWatched'
<1>. SUFFICES ASSUME NEW s \in Sessions, session = s, sess'[s] = "open", ~appDone'
     PROVE  \/ pc'[s] = "watch" /\ job'[s].generation = generation
            \/ \E t \in Actors : /\ job'[t].installed = s /\ job'[t].generation = generation
                                 /\ pc'[t] \in Installing
  BY DEF LiveSessionIsWatched, Installing
<1>1. \/ pc[s] = "watch" /\ job[s].generation = generation
      \/ \E t \in Actors : /\ job[t].installed = s /\ job[t].generation = generation
                           /\ pc[t] \in Installing
  BY DEF LiveSessionIsWatched, Installing
<1>. QED  BY <1>1, NamesAssumption DEF Actors

\* Closing what a goroutine holds leaves no trace of it.
LEMMA OwnershipAfterClose ==
  ASSUME TypeOK, SessionOwnership, NEW t \in Actors, CloseHeld(t), UNCHANGED session
  PROVE  SessionOwnership'
<1>1. /\ held \in [Actors -> Sessions \cup {None}]
      /\ sess \in [Sessions -> {"none", "open", "ended", "closed"}]
      /\ session \in Sessions \cup {None}
  BY DEF TypeOK, GoroutineTypeOK, WorldTypeOK, RoutingTypeOK
<1>2. \A s \in Sessions : s # None
  BY NamesAssumption DEF Actors
<1>3. \A s \in Sessions : Unclosed(s)' <=> (Unclosed(s) /\ s # held[t])
  BY <1>1 DEF CloseHeld, Unclosed
<1>4. \A a \in Actors : held'[a] = IF a = t THEN None ELSE held[a]
  BY <1>1 DEF CloseHeld
<1>5. session' # None => Unclosed(session)'
  BY <1>1, <1>3 DEF SessionOwnership
<1>6. \A a \in Actors : held'[a] # None => Unclosed(held[a])' /\ held'[a] # session'
  BY <1>1, <1>3, <1>4 DEF SessionOwnership
<1>7. \A a, b \in Actors : held'[a] = held'[b] /\ held'[a] # None => a = b
  BY <1>4 DEF SessionOwnership
<1>8. \A s \in Sessions : Unclosed(s)' => session' = s \/ \E a \in Actors : held'[a] = s
  BY <1>2, <1>3, <1>4 DEF SessionOwnership
<1>. QED  BY <1>4, <1>5, <1>6, <1>7, <1>8 DEF SessionOwnership, Unclosed

\* The goroutine and the manager exchange sessions, under the mutex.
LEMMA OwnershipAfterSwap ==
  ASSUME TypeOK, SessionOwnership, NEW t \in Actors, session' = held[t],
         held' = [held EXCEPT ![t] = session], UNCHANGED sess
  PROVE  SessionOwnership'
<1>1. \A a \in Actors : held'[a] = IF a = t THEN session ELSE held[a]
  BY DEF TypeOK, GoroutineTypeOK
<1>2. session' # None => Unclosed(session)'
  BY DEF SessionOwnership, Unclosed
<1>3. \A a \in Actors : held'[a] # None => sess'[held'[a]] \in {"open", "ended"} /\ held'[a] # session'
  BY <1>1 DEF SessionOwnership, Unclosed
<1>4. \A a, b \in Actors : held'[a] = held'[b] /\ held'[a] # None => a = b
  BY <1>1 DEF SessionOwnership
<1>5. \A s \in Sessions : Unclosed(s)' => session' = s \/ \E a \in Actors : held'[a] = s
  BY <1>1 DEF SessionOwnership, Unclosed
<1>. QED  BY <1>2, <1>3, <1>4, <1>5 DEF SessionOwnership, Unclosed
-----------------------------------------------------------------------------
(* The remaining actions.                                                   *)

Others ==
  /\ HandsInv /\ WatcherInv /\ ShutdownInv
  /\ SessionOwnership /\ RoutingExclusive /\ LiveSessionIsWatched /\ ConnectedMeansSession

\* A new tunnel is in the hands of the goroutine that dialled it and has no
\* watcher yet.
LEMMA DialInv ==
  ASSUME Inv, NEW t \in Actors, DialSucceeds(t) PROVE Others'
<1>0. TypeOK /\ HandsInv /\ WatcherInv /\ SessionOwnership /\ LiveSessionIsWatched
  BY DEF Inv
<1>1. PICK p \in job[t].todo, s \in Sessions :
        /\ sess[s] = "none"
        /\ sess' = [sess EXCEPT ![s] = "open"]
        /\ held' = [held EXCEPT ![t] = s]
        /\ job' = [job EXCEPT ![t].todo = @ \ {p}, ![t].protocol = p]
  BY DEF DialSucceeds
<1>2. pc[t] = "connect" /\ \E l \in {"probe", "ready"} : pc' = [pc EXCEPT ![t] = l]
  BY DEF DialSucceeds, Goto
<1>3. PICK l \in {"probe", "ready"} : pc' = [pc EXCEPT ![t] = l]
  BY <1>2
<1>4. /\ UNCHANGED <<routing, state, appDone, closing>>
  BY DEF DialSucceeds, manager, contexts
<1>5. l \in Connected /\ l \notin Installing /\ l \in Labels /\ l \notin ShuttingDown \cup Closing
  BY DEF Connected, Installing, Labels, ShuttingDown, Closing
<1>6. held[t] = None /\ job[t].installed = None
  BY <1>0, <1>2 DEF HandsInv, Connected, Taken, Installing
<1>7. s # None /\ s \in Actors
  BY NamesAssumption DEF Actors
<1>8. /\ job'[t].installed = None
      /\ \A u \in Actors \ {t} : job'[u] = job[u]
  BY <1>0, <1>1, <1>6, ActorTypes, KeepsInstalled DEF TypeOK, GoroutineTypeOK
<1>9. \A a \in Actors : held'[a] = IF a = t THEN s ELSE held[a]
  BY <1>0, <1>1 DEF TypeOK, GoroutineTypeOK
<1>10. Moves(t, l)
  BY <1>3, <1>8, <1>9 DEF Moves
<1>11. HandsInv'
  BY <1>0, <1>5, <1>7, <1>8, <1>9, <1>10, HandsStay
<1>12. \A q \in Sessions : sess'[q] = IF q = s THEN "open" ELSE sess[q]
  BY <1>0, <1>1 DEF TypeOK, WorldTypeOK
<1>13. s # session /\ \A a \in Actors : held[a] # s
  BY <1>0, <1>1, <1>7 DEF SessionOwnership, Unclosed
<1>14. SessionOwnership'
  <2>1. session' = session /\ session \in Sessions \cup {None}
    BY <1>0, <1>4 DEF routing, TypeOK, RoutingTypeOK
  <2>2. \A a \in Actors : held[a] \in Sessions \cup {None}
    BY <1>0, ActorTypes
  <2>3. session' # None => Unclosed(session)'
    BY <1>0, <1>12, <1>13, <2>1 DEF SessionOwnership, Unclosed
  <2>4. \A a \in Actors : held'[a] # None => sess'[held'[a]] \in {"open", "ended"} /\ held'[a] # session'
    BY <1>0, <1>9, <1>12, <1>13, <2>1, <2>2 DEF SessionOwnership, Unclosed
  <2>5. \A a, b \in Actors : held'[a] = held'[b] /\ held'[a] # None => a = b
    BY <1>0, <1>9, <1>13 DEF SessionOwnership
  <2>6. \A q \in Sessions : Unclosed(q)' => session' = q \/ \E a \in Actors : held'[a] = q
    BY <1>0, <1>6, <1>9, <1>12, <2>1, NamesAssumption DEF SessionOwnership, Unclosed, Actors
  <2>. QED  BY <2>3, <2>4, <2>5, <2>6 DEF SessionOwnership, Unclosed
<1>15. WatcherInv'
  <2>1. pc[s] = "idle" /\ \A a \in Actors : job[a].installed # s
    BY <1>0, <1>1 DEF WatcherInv
  <2>2. \A a \in Actors : pc'[a] = IF a = t THEN l ELSE pc[a]
    BY <1>0, <1>3 DEF TypeOK, GoroutineTypeOK
  <2>3. \A q \in Sessions : q \in Actors /\ q # None /\ (pc[q] = "idle" => pc'[q] = "idle")
    BY <1>2, <2>2, NamesAssumption DEF Actors
  <2>4. \A a \in Actors : job'[a].installed = job[a].installed
    BY <1>6, <1>8
  <2>5. \A a \in Actors : held[a] \in Sessions \cup {None} /\ job[a].installed \in Sessions \cup {None}
    BY <1>0, ActorTypes, JobFields
  <2>6. \A q \in Sessions : sess'[q] = "none" =>
         pc'[q] = "idle" /\ \A a \in Actors : job'[a].installed # q
    BY <1>0, <1>12, <2>3, <2>4 DEF WatcherInv
  <2>7. \A a \in Actors : pc'[a] \in Connected =>
         pc'[held'[a]] = "idle" /\ \A b \in Actors : job'[b].installed # held'[a]
    BY <1>0, <1>9, <2>1, <2>2, <2>3, <2>4, <2>5 DEF WatcherInv, HandsInv
  <2>8. \A a \in Actors : (pc'[a] \in Installing /\ job'[a].installed # None) =>
         pc'[job'[a].installed] = "idle"
    BY <1>0, <1>5, <2>2, <2>3, <2>4, <2>5 DEF WatcherInv
  <2>9. \A a, b \in Actors :
         (job'[a].installed = job'[b].installed /\ job'[a].installed # None) => a = b
    BY <1>0, <2>4 DEF WatcherInv
  <2>. QED  BY <2>6, <2>7, <2>8, <2>9 DEF WatcherInv
<1>16. LiveSessionIsWatched'
  <2>1. \A a \in Actors : pc[a] \in Installing \cup {"watch"} => pc'[a] = pc[a] /\ job'[a] = job[a]
    BY <1>0, <1>2, <1>3, <1>8 DEF TypeOK, GoroutineTypeOK, Installing
  <2>2. \A q \in Sessions : session = q /\ sess'[q] = "open" => sess[q] = "open"
    BY <1>12, <1>13
  <2>. QED  BY <1>0, <1>4, <2>1, <2>2, LiveStays DEF routing
<1>17. ShutdownInv'
  <2>1. pc'[Closer] = pc[Closer] \/ pc'[Closer] \notin ShuttingDown \cup Closing
    BY <1>0, <1>3, <1>5 DEF TypeOK, GoroutineTypeOK, Actors
  <2>. QED  BY <1>4, <2>1, ShutdownStays DEF Inv
<1>18. RoutingExclusive' /\ ConnectedMeansSession'
  BY <1>4, PropertiesStay DEF Inv, routing
<1>. QED  BY <1>11, <1>14, <1>15, <1>16, <1>17, <1>18 DEF Others

\* A goroutine moves on, possibly closing what it holds.
LEMMA MoveInv ==
  ASSUME Inv, NEW t \in Actors, NEW l \in Labels, Moves(t, l),
         UNCHANGED <<routing, state, appDone, closing>>,
         pc[t] \notin {"idle", "watch"},
         held'[t] # None => l \in Connected \cup Taken,
         l \in Connected => held'[t] # None /\ held'[t] = held[t] /\ pc[t] \in Connected,
         l = "startWatcher" => job'[t].installed # None,
         job'[t].installed # None =>
           l \in Installing \cup {"finishConnected", "endSwitch", "done"},
         l \in Installing => pc[t] \in Installing \/ job'[t].installed = None,
         pc[t] \in Installing /\ job[t].installed # None => l \in Installing /\ job'[t] = job[t],
         l \in ShuttingDown \cup Closing => pc[t] \in Closing,
         \A s \in Sessions : sess'[s] \in {sess[s], "closed"}
  PROVE  /\ HandsInv' /\ WatcherInv' /\ ShutdownInv'
         /\ RoutingExclusive' /\ LiveSessionIsWatched' /\ ConnectedMeansSession'
<1>0. TypeOK /\ HandsInv /\ WatcherInv /\ ShutdownInv /\ LiveSessionIsWatched
  BY DEF Inv
<1>1. HandsInv'
  BY <1>0, HandsStay
<1>2. WatcherInv'
  <2>1. \A s \in Sessions : sess'[s] = "none" => sess[s] = "none"
    OBVIOUS
  <2>. QED  BY <1>0, <2>1, WatchersStay
<1>3. \A a \in Actors : pc'[a] = IF a = t THEN l ELSE pc[a]
  BY <1>0 DEF Moves, TypeOK, GoroutineTypeOK
<1>4. ShutdownInv'
  BY <1>0, <1>3 DEF ShutdownInv, Actors
<1>5. LiveSessionIsWatched'
  <2>1. \A a \in Actors : pc[a] = "watch" => pc'[a] = "watch" /\ job'[a] = job[a]
    BY <1>3 DEF Moves
  <2>2. \A a \in Actors : pc[a] \in Installing /\ job[a].installed # None =>
                            pc'[a] \in Installing /\ job'[a] = job[a]
    BY <1>3 DEF Moves
  <2>3. \A s \in Sessions : session = s /\ sess'[s] = "open" => sess[s] = "open"
    OBVIOUS
  <2>. QED  BY <1>0, <2>1, <2>2, <2>3, LiveStays DEF routing
<1>6. RoutingExclusive' /\ ConnectedMeansSession'
  BY PropertiesStay DEF Inv, routing
<1>. QED  BY <1>1, <1>2, <1>4, <1>5, <1>6

\* Probing a session, checking the context and giving the session up preserve
\* the invariant beside the types.
LEMMA HolderInv ==
  ASSUME Inv, NEW t \in Actors, ProbeSucceeds(t) \/ ProbeFails(t) \/ CheckContext(t) \/ RefuseInstall(t)
  PROVE  Others'
<1>0. TypeOK /\ HandsInv /\ SessionOwnership
  BY DEF Inv
<1>1. pc[t] \in Connected /\ pc[t] \notin {"idle", "watch"} /\ pc[t] \notin Installing
  BY DEF ProbeSucceeds, ProbeFails, CheckContext, RefuseInstall, Connected, Installing
<1>2. job[t].installed = None /\ held[t] # None
  BY <1>0, <1>1 DEF HandsInv, Installing, Connected
<1>3. \A l \in {"ready", "install", "connect", "finishFailed", "setAutomatic", "nextNode"} :
        /\ l \in Labels /\ l \notin Installing \cup ShuttingDown \cup Closing
        /\ l \in Connected <=> l \in {"ready", "install"}
  BY DEF Labels, Installing, ShuttingDown, Closing, Connected
<1>4. UNCHANGED <<job, routing, state, appDone, closing>>
  BY DEF ProbeSucceeds, ProbeFails, CheckContext, RefuseInstall, Abandon, manager, contexts
<1>5. CASE UNCHANGED <<held, sess>> /\ \E l \in {"ready", "install"} : Goto(t, l)
  <2>1. PICK l \in {"ready", "install"} : Goto(t, l)
    BY <1>5
  <2>2. Moves(t, l)
    BY <1>4, <1>5, <2>1 DEF Moves, Goto
  <2>3. /\ HandsInv' /\ WatcherInv' /\ ShutdownInv'
        /\ RoutingExclusive' /\ LiveSessionIsWatched' /\ ConnectedMeansSession'
    BY <1>1, <1>2, <1>3, <1>4, <1>5, <2>2, MoveInv
  <2>4. SessionOwnership'
    BY <1>0, <1>4, <1>5, PropertiesStay DEF routing
  <2>. QED  BY <2>3, <2>4 DEF Others
<1>6. CASE CloseHeld(t) /\ \E l \in {"connect", "finishFailed", "setAutomatic", "nextNode"} : Goto(t, l)
  <2>1. PICK l \in {"connect", "finishFailed", "setAutomatic", "nextNode"} : Goto(t, l)
    BY <1>6
  <2>2. /\ held'[t] = None /\ \A a \in Actors \ {t} : held'[a] = held[a]
        /\ \A s \in Sessions : sess'[s] \in {sess[s], "closed"}
    BY <1>0, <1>6 DEF CloseHeld, TypeOK, GoroutineTypeOK, WorldTypeOK
  <2>3. Moves(t, l)
    BY <1>4, <2>1, <2>2 DEF Moves, Goto
  <2>4. /\ HandsInv' /\ WatcherInv' /\ ShutdownInv'
        /\ RoutingExclusive' /\ LiveSessionIsWatched' /\ ConnectedMeansSession'
    BY <1>1, <1>2, <1>3, <1>4, <2>2, <2>3, MoveInv
  <2>5. SessionOwnership'
    BY <1>0, <1>4, <1>6, OwnershipAfterClose DEF routing
  <2>. QED  BY <2>4, <2>5 DEF Others
<1>7. ASSUME Abandon(t)
      PROVE  CloseHeld(t) /\ \E l \in {"connect", "finishFailed", "setAutomatic", "nextNode"} : Goto(t, l)
  BY <1>7 DEF Abandon, AfterFailure
<1>. QED  BY <1>5, <1>6, <1>7 DEF ProbeSucceeds, ProbeFails, CheckContext, RefuseInstall, tunnels

\* Saving the selection and starting to save it preserve Inv.
LEMMA InstallerInv ==
  ASSUME Inv, NEW t \in Actors, SaveMetadata(t) \/ SetAutomatic(t) PROVE Others'
<1>0. TypeOK /\ HandsInv /\ SessionOwnership
  BY DEF Inv
<1>1. UNCHANGED <<job, held, sess, routing, state, appDone, closing>>
  BY DEF SaveMetadata, SetAutomatic, manager, contexts, tunnels
<1>3. PICK l \in {"saveSelection", "saveIP", "saveProtocol", "startWatcher", "switch", "startSwitch"} :
        /\ Goto(t, l)
        /\ pc[t] \in {"saveSelection", "saveIP", "saveProtocol", "setAutomatic"}
        /\ pc[t] = "setAutomatic" => l = "saveSelection"
        /\ l = "startWatcher" => job[t].installed # None
        /\ l \in {"switch", "startSwitch"} => job[t].installed = None
  <2>1. CASE SetAutomatic(t)
    BY <2>1 DEF SetAutomatic
  <2>2. CASE SaveMetadata(t) /\ pc[t] = "saveSelection"
    BY <2>2 DEF SaveMetadata
  <2>3. CASE SaveMetadata(t) /\ pc[t] = "saveIP"
    BY <2>3 DEF SaveMetadata
  <2>4. CASE SaveMetadata(t) /\ pc[t] = "saveProtocol"
    BY <2>4 DEF SaveMetadata
  <2>. QED  BY <2>1, <2>2, <2>3, <2>4 DEF SaveMetadata
<1>4. /\ l \in Labels /\ l \notin Connected \cup ShuttingDown \cup Closing
      /\ l \in Installing <=> l \notin {"switch", "startSwitch"}
      /\ pc[t] \notin Connected \cup Taken \cup {"idle", "watch"}
      /\ pc[t] \in Installing <=> pc[t] # "setAutomatic"
  BY <1>3 DEF Labels, Connected, Taken, Installing, ShuttingDown, Closing
<1>5. held[t] = None /\ (pc[t] = "setAutomatic" => job[t].installed = None)
  BY <1>0, <1>4 DEF HandsInv
<1>6. Moves(t, l)
  BY <1>1, <1>3 DEF Moves, Goto
<1>7. /\ HandsInv' /\ WatcherInv' /\ ShutdownInv'
      /\ RoutingExclusive' /\ LiveSessionIsWatched' /\ ConnectedMeansSession'
  BY <1>1, <1>3, <1>4, <1>5, <1>6, MoveInv
<1>8. SessionOwnership'
  BY <1>0, <1>1, PropertiesStay DEF routing
<1>. QED  BY <1>7, <1>8 DEF Others

\* Closing a session that was taken out of the manager preserves Inv.
LEMMA CloseTakenInv ==
  ASSUME Inv, NEW t \in Actors, CloseTaken(t) PROVE Others'
<1>0. TypeOK /\ HandsInv /\ SessionOwnership
  BY DEF Inv
<1>1. /\ pc[t] \in {"drop", "closeOld", "closeSession", "closeLate"} /\ CloseHeld(t)
      /\ UNCHANGED <<routing, state, appDone, closing>>
  BY DEF CloseTaken, manager, contexts
<1>2. /\ held'[t] = None /\ \A a \in Actors \ {t} : held'[a] = held[a]
      /\ \A s \in Sessions : sess'[s] \in {sess[s], "closed"}
  BY <1>0, <1>1 DEF CloseHeld, TypeOK, GoroutineTypeOK, WorldTypeOK
<1>3. /\ pc[t] \notin {"idle", "watch"} /\ (pc[t] \in Installing <=> pc[t] = "closeOld")
      /\ pc[t] # "closeOld" => job[t].installed = None
  BY <1>0, <1>1 DEF HandsInv, Installing
<1>4. SessionOwnership'
  BY <1>0, <1>1, OwnershipAfterClose DEF routing
<1>5. \A l \in {"idle", "done", "saveSelection", "waitAsync", "closed"} :
        /\ l \in Labels /\ l \notin Connected /\ (l \in Installing <=> l = "saveSelection")
        /\ l \in ShuttingDown \cup Closing <=> l \in {"waitAsync", "closed"}
  BY DEF Labels, Connected, Installing, ShuttingDown, Closing
<1>6. CASE pc[t] = "drop"
  <2>1. Exit(t)
    BY <1>6 DEF CloseTaken
  <2>2. PICK l \in {"idle", "done"} : pc' = [pc EXCEPT ![t] = l]
    BY <2>1 DEF Exit
  <2>3. job'[t].installed = None /\ \A u \in Actors \ {t} : job'[u] = job[u]
    BY <1>0, <2>1, ExitQuiet
  <2>4. Moves(t, l)
    BY <1>2, <2>2, <2>3 DEF Moves
  <2>5. /\ HandsInv' /\ WatcherInv' /\ ShutdownInv'
        /\ RoutingExclusive' /\ LiveSessionIsWatched' /\ ConnectedMeansSession'
    BY <1>1, <1>2, <1>3, <1>5, <1>6, <2>3, <2>4, MoveInv
  <2>. QED  BY <1>4, <2>5 DEF Others
<1>7. CASE pc[t] # "drop"
  <2>1. job' = job
    BY <1>7 DEF CloseTaken
  <2>2. PICK l \in {"saveSelection", "waitAsync", "closed"} :
          /\ pc' = [pc EXCEPT ![t] = l]
          /\ l = "saveSelection" <=> pc[t] = "closeOld"
    <3>1. CASE pc[t] = "closeOld"
      BY <1>7, <3>1 DEF CloseTaken, Goto
    <3>2. CASE pc[t] = "closeSession"
      BY <1>7, <3>2 DEF CloseTaken, Goto
    <3>3. CASE pc[t] = "closeLate"
      BY <1>7, <3>3 DEF CloseTaken, Goto
    <3>. QED  BY <1>1, <1>7, <3>1, <3>2, <3>3
  <2>3. Moves(t, l)
    BY <1>2, <2>1, <2>2 DEF Moves
  <2>4. l \in ShuttingDown \cup Closing => pc[t] \in Closing
    BY <1>1, <1>5, <1>7, <2>2 DEF Closing
  <2>5. /\ HandsInv' /\ WatcherInv' /\ ShutdownInv'
        /\ RoutingExclusive' /\ LiveSessionIsWatched' /\ ConnectedMeansSession'
    BY <1>1, <1>2, <1>3, <1>5, <2>1, <2>2, <2>3, <2>4, MoveInv
  <2>. QED  BY <1>4, <2>5 DEF Others
<1>. QED  BY <1>6, <1>7

\* install swaps the new session with the old one and bumps the generation
\* with it: ownership and the single route survive.
LEMMA InstallInv ==
  ASSUME Inv, NEW t \in Actors, Install(t) PROVE Others'
<1>0. TypeOK /\ HandsInv /\ WatcherInv /\ SessionOwnership /\ ShutdownInv
  BY DEF Inv
<1>. DEFINE s == held[t]
<1>1. /\ pc[t] = "install" /\ ~connectionPaused /\ session' = s /\ state' = "connected"
      /\ generation' = generation + 1 /\ directMode' = FALSE
      /\ job' = [job EXCEPT ![t].installed = s, ![t].generation = generation + 1]
      /\ held' = [held EXCEPT ![t] = session]
      /\ UNCHANGED <<connectionPaused, sess, appDone, closing>>
  BY DEF Install, MayInstall, tunnels, contexts
<1>2. PICK l \in {"saveSelection", "closeOld"} :
        pc' = [pc EXCEPT ![t] = l] /\ (session # None => l = "closeOld")
  BY DEF Install, Goto
<1>3. /\ l \in Labels /\ l \in Installing /\ l \notin Connected \cup ShuttingDown \cup Closing
      /\ (l = "closeOld" => l \in Taken) /\ l # "startWatcher"
  BY DEF Labels, Installing, Connected, Taken, ShuttingDown, Closing
<1>4. s \in Sessions /\ s # None /\ s \in Actors /\ s # t
  BY <1>0, <1>1, ActorTypes, NamesAssumption DEF HandsInv, WatcherInv, Connected, Actors
<1>5. pc[s] = "idle" /\ \A a \in Actors : job[a].installed # s
  BY <1>0, <1>1 DEF WatcherInv, Connected
<1>6. /\ job'[t].installed = s /\ job'[t].generation = generation + 1
      /\ \A a \in Actors \ {t} : job'[a] = job[a]
  BY <1>0, <1>1, ActorTypes DEF TypeOK, GoroutineTypeOK, Jobs
<1>7. \A a \in Actors : /\ held'[a] = (IF a = t THEN session ELSE held[a])
                        /\ pc'[a] = (IF a = t THEN l ELSE pc[a])
  BY <1>0, <1>1, <1>2 DEF TypeOK, GoroutineTypeOK
<1>8. SessionOwnership'
  BY <1>0, <1>1, OwnershipAfterSwap
<1>9. HandsInv'
  BY <1>0, <1>2, <1>3, <1>4, <1>6, <1>7 DEF HandsInv
<1>10. WatcherInv'
  <2>1. \A q \in Sessions : q \in Actors /\ q # None /\ (pc[q] = "idle" => pc'[q] = "idle")
    BY <1>1, <1>7, NamesAssumption DEF Actors
  <2>2. \A a \in Actors : held[a] \in Sessions \cup {None} /\ job[a].installed \in Sessions \cup {None}
    BY <1>0, ActorTypes, JobFields
  <2>3. sess[s] # "none" /\ \A a \in Actors : held[a] = s => a = t
    BY <1>0, <1>4 DEF SessionOwnership, Unclosed
  <2>4. \A q \in Sessions : sess'[q] = "none" =>
         pc'[q] = "idle" /\ \A a \in Actors : job'[a].installed # q
    <3>1. \A a \in Actors : job'[a].installed \in {s, job[a].installed}
      BY <1>6
    <3>2. sess' = sess
      BY <1>1
    <3>. QED  BY <1>0, <2>1, <2>3, <3>1, <3>2 DEF WatcherInv
  <2>5. \A a \in Actors : pc'[a] \in Connected =>
         pc'[held'[a]] = "idle" /\ \A b \in Actors : job'[b].installed # held'[a]
    BY <1>0, <1>3, <1>6, <1>7, <2>1, <2>2, <2>3 DEF WatcherInv, HandsInv
  <2>6. \A a \in Actors : (pc'[a] \in Installing /\ job'[a].installed # None) =>
         pc'[job'[a].installed] = "idle"
    BY <1>0, <1>4, <1>5, <1>6, <1>7, <2>1, <2>2 DEF WatcherInv
  <2>7. \A a, b \in Actors :
         (job'[a].installed = job'[b].installed /\ job'[a].installed # None) => a = b
    BY <1>0, <1>5, <1>6 DEF WatcherInv
  <2>. QED  BY <2>4, <2>5, <2>6, <2>7 DEF WatcherInv
<1>11. LiveSessionIsWatched'
  <2>1. pc'[t] \in Installing /\ job'[t].generation = generation' /\ session' = job'[t].installed
    BY <1>1, <1>3, <1>6, <1>7
  <2>. QED  BY <2>1 DEF LiveSessionIsWatched, Installing
<1>12. ShutdownInv'
  BY <1>0, <1>1, <1>3, <1>7, ShutdownStays DEF Actors
<1>13. RoutingExclusive' /\ ConnectedMeansSession'
  BY <1>1, <1>4 DEF RoutingExclusive, ConnectedMeansSession
<1>. QED  BY <1>8, <1>9, <1>10, <1>11, <1>12, <1>13 DEF Others

\* The session leaves the manager: SetDirectMode, failover and Close.
LEMMA TakeInv ==
  ASSUME Inv, NEW t \in Actors, NEW l \in Labels, Moves(t, l),
         held[t] = None, session' = None, held' = [held EXCEPT ![t] = session],
         pc[t] # "idle" \/ t \notin Sessions,
         session # None => l \in Taken,
         l \notin Connected, l # "startWatcher", job'[t].installed = None,
         UNCHANGED <<sess, appDone, closing>>,
         l \in ShuttingDown \cup Closing => pc[t] \in Closing
  PROVE  /\ HandsInv' /\ WatcherInv' /\ ShutdownInv'
         /\ SessionOwnership' /\ LiveSessionIsWatched'
<1>0. TypeOK /\ HandsInv /\ WatcherInv /\ SessionOwnership /\ ShutdownInv
  BY DEF Inv
<1>1. held'[t] = session
  BY <1>0 DEF TypeOK, GoroutineTypeOK
<1>2. HandsInv'
  BY <1>0, <1>1, HandsStay
<1>3. WatcherInv'
  BY <1>0, WatchersStay
<1>4. \A a \in Actors : pc'[a] = IF a = t THEN l ELSE pc[a]
  BY <1>0 DEF Moves, TypeOK, GoroutineTypeOK
<1>5. ShutdownInv'
  BY <1>0, <1>4 DEF ShutdownInv, Actors
<1>6. SessionOwnership'
  BY <1>0, OwnershipAfterSwap
<1>7. LiveSessionIsWatched'
  BY NamesAssumption DEF LiveSessionIsWatched, Actors
<1>. QED  BY <1>2, <1>3, <1>5, <1>6, <1>7

\* SetDirectMode(true) takes the session and switches to the direct route.
LEMMA PauseInv ==
  ASSUME Inv, NEW t \in Tasks, pc[t] = "idle", PauseConnection(t) PROVE Others'
<1>0. TypeOK /\ HandsInv /\ t \in Actors /\ t \notin Sessions
  BY NamesAssumption DEF Inv, Actors
<1>1. held[t] = None /\ job[t].installed = None
  BY <1>0 DEF HandsInv, Connected, Taken, Installing
<1>2. job'[t].installed = None /\ \A a \in Actors \ {t} : job'[a] = job[a]
  BY <1>0, <1>1, ActorTypes, KeepsInstalled DEF PauseConnection, TypeOK, GoroutineTypeOK
<1>3. Moves(t, "drop")
  BY <1>0, <1>2 DEF PauseConnection, Moves, Goto, TypeOK, GoroutineTypeOK
<1>4. /\ "drop" \in Labels /\ "drop" \in Taken /\ "drop" \notin Connected
      /\ "drop" \notin ShuttingDown \cup Closing
  BY DEF Labels, Taken, Connected, ShuttingDown, Closing
<1>5. /\ HandsInv' /\ WatcherInv' /\ ShutdownInv' /\ SessionOwnership' /\ LiveSessionIsWatched'
  BY <1>0, <1>1, <1>2, <1>3, <1>4, TakeInv DEF PauseConnection, tunnels, contexts
<1>6. RoutingExclusive' /\ ConnectedMeansSession'
  BY DEF PauseConnection, RoutingExclusive, ConnectedMeansSession
<1>. QED  BY <1>5, <1>6 DEF Others

\* failover takes the session when it falls back and keeps it, with its
\* generation, when it does not.
LEMMA FailoverInv ==
  ASSUME Inv, NEW t \in Actors, Failover(t) PROVE Others'
<1>0. TypeOK /\ HandsInv /\ SessionOwnership /\ ConnectedMeansSession /\ RoutingExclusive
  BY DEF Inv
<1>1. pc[t] = "failoverAuto" /\ UNCHANGED <<job, sess, appDone, closing, connectionPaused>>
  BY DEF Failover, tunnels, contexts
<1>2. held[t] = None /\ job[t].installed = None
  BY <1>0, <1>1 DEF HandsInv, Connected, Taken, Installing
<1>3. \A l \in {"saveSelection", "closeOld"} :
        /\ l \in Labels /\ l \in Installing /\ l # "startWatcher"
        /\ l \notin Connected \cup ShuttingDown \cup Closing
  BY DEF Labels, Installing, Connected, ShuttingDown, Closing
<1>4. CASE TRUE \in FallbackToDirect /\ session' = None
           /\ held' = [held EXCEPT ![t] = session] /\ state' = "connecting" /\ directMode' = TRUE
           /\ Goto(t, IF session = None THEN "saveSelection" ELSE "closeOld")
  <2>1. PICK l \in {"saveSelection", "closeOld"} :
          pc' = [pc EXCEPT ![t] = l] /\ (session # None => l = "closeOld")
    BY <1>4 DEF Goto
  <2>2. Moves(t, l)
    BY <1>0, <1>1, <1>4, <2>1 DEF Moves, TypeOK, GoroutineTypeOK
  <2>3. /\ HandsInv' /\ WatcherInv' /\ ShutdownInv' /\ SessionOwnership' /\ LiveSessionIsWatched'
    BY <1>1, <1>2, <1>3, <1>4, <2>1, <2>2, TakeInv DEF Taken
  <2>4. RoutingExclusive' /\ ConnectedMeansSession'
    BY <1>4 DEF RoutingExclusive, ConnectedMeansSession
  <2>. QED  BY <2>3, <2>4 DEF Others
<1>5. CASE Goto(t, "saveSelection") /\ UNCHANGED <<session, generation, directMode, state, held>>
  <2>1. Moves(t, "saveSelection")
    BY <1>1, <1>5 DEF Moves, Goto
  <2>2. UNCHANGED routing
    BY <1>1, <1>5 DEF routing
  <2>3. /\ HandsInv' /\ WatcherInv' /\ ShutdownInv'
        /\ RoutingExclusive' /\ LiveSessionIsWatched' /\ ConnectedMeansSession'
    BY <1>1, <1>2, <1>3, <1>5, <2>1, <2>2, MoveInv DEF Installing
  <2>4. SessionOwnership'
    BY <1>0, <1>1, <1>5, PropertiesStay
  <2>. QED  BY <2>3, <2>4 DEF Others
<1>. QED  BY <1>4, <1>5 DEF Failover

\* Both sections of Close that take a session preserve Inv.
LEMMA CloseInv ==
  ASSUME Inv, TakeSession \/ TakeLateSession PROVE Others'
<1>0. TypeOK /\ HandsInv /\ ShutdownInv /\ Closer \in Actors /\ Closer \notin Sessions
  BY NamesAssumption DEF Inv, Actors
<1>1. /\ pc[Closer] \in {"takeSession", "waitAsync"}
      /\ UNCHANGED <<job, sess, appDone, closing, directMode, connectionPaused, state>>
      /\ session' = None /\ held' = [held EXCEPT ![Closer] = session]
  BY DEF TakeSession, TakeLateSession, tunnels, contexts
<1>2. PICK l \in {"closeSession", "closeLate"} : pc' = [pc EXCEPT ![Closer] = l]
  BY DEF TakeSession, TakeLateSession, Goto
<1>3. pc[Closer] \in Closing /\ pc[Closer] \notin Connected \cup Taken \cup Installing \cup
                                            {"idle", "finishConnected", "endSwitch", "done"}
  BY <1>1 DEF Closing, Connected, Taken, Installing
<1>4. held[Closer] = None /\ job[Closer].installed = None
  BY <1>0, <1>3 DEF HandsInv
<1>5. l \in Labels /\ l \in Taken /\ l \notin Connected /\ l # "startWatcher"
  BY DEF Labels, Taken, Connected
<1>6. Moves(Closer, l)
  BY <1>0, <1>1, <1>2 DEF Moves, TypeOK, GoroutineTypeOK
<1>7. /\ HandsInv' /\ WatcherInv' /\ ShutdownInv' /\ SessionOwnership' /\ LiveSessionIsWatched'
  BY <1>0, <1>1, <1>3, <1>4, <1>5, <1>6, TakeInv
<1>8. closing
  BY <1>0, <1>3 DEF ShutdownInv
<1>9. RoutingExclusive' /\ ConnectedMeansSession'
  BY <1>1, <1>8 DEF Inv, RoutingExclusive, ConnectedMeansSession
<1>. QED  BY <1>7, <1>9 DEF Others

\* A watcher that wakes leaves no live session unwatched: it wakes only when
\* the session or the application has ended.
LEMMA WatcherWakesInv ==
  ASSUME Inv, NEW s \in Sessions, WatcherWakes(s) PROVE Others'
<1>0. TypeOK /\ HandsInv /\ WatcherInv /\ ShutdownInv /\ SessionOwnership /\ LiveSessionIsWatched
      /\ s \in Actors
  BY DEF Inv, Actors
<1>1. /\ pc[s] = "watch" /\ (sess[s] # "open" \/ appDone)
      /\ UNCHANGED <<held, sess, routing, state, appDone, closing>>
  BY DEF WatcherWakes, manager, tunnels, contexts
<1>2. held[s] = None /\ job[s].installed = None
  BY <1>0, <1>1 DEF HandsInv, Connected, Taken, Installing
<1>3. PICK l \in {"failover", "idle", "done"} : pc' = [pc EXCEPT ![s] = l]
  BY DEF WatcherWakes, Goto, Exit
<1>4. job'[s].installed = None /\ \A a \in Actors \ {s} : job'[a] = job[a]
  BY <1>0, <1>2, FreshJob DEF WatcherWakes, Exit, TypeOK, GoroutineTypeOK
<1>5. Moves(s, l)
  BY <1>1, <1>3, <1>4 DEF Moves
<1>6. l \in Labels /\ l # "startWatcher"
      /\ l \notin Connected \cup Taken \cup Installing \cup ShuttingDown \cup Closing
  BY DEF Labels, Connected, Taken, Installing, ShuttingDown, Closing
<1>7. HandsInv'
  BY <1>0, <1>1, <1>2, <1>4, <1>5, <1>6, HandsStay
<1>8. WatcherInv'
  BY <1>0, <1>1, <1>4, <1>5, <1>6, WatchersStay
<1>9. \A a \in Actors : pc'[a] = IF a = s THEN l ELSE pc[a]
  BY <1>0, <1>3 DEF TypeOK, GoroutineTypeOK
<1>10. ShutdownInv'
  BY <1>0, <1>1, <1>6, <1>9, ShutdownStays DEF Actors
<1>11. LiveSessionIsWatched'
  <2>1. \A a \in Actors \ {s} : pc'[a] = pc[a] /\ job'[a] = job[a]
    BY <1>4, <1>9
  <2>. QED
    BY <1>0, <1>1, <1>2, <2>1, NamesAssumption DEF LiveSessionIsWatched, routing, Actors
<1>12. SessionOwnership' /\ RoutingExclusive' /\ ConnectedMeansSession'
  BY <1>1, PropertiesStay DEF Inv, routing
<1>. QED  BY <1>7, <1>8, <1>10, <1>11, <1>12 DEF Others

\* The watcher is started for the installed session with the generation that
\* install gave it.
LEMMA StartWatcherInv ==
  ASSUME Inv, NEW t \in Actors, StartWatcher(t) PROVE Others'
<1>0. TypeOK /\ HandsInv /\ WatcherInv /\ ShutdownInv /\ SessionOwnership /\ LiveSessionIsWatched
  BY DEF Inv
<1>. DEFINE s == job[t].installed
            l == AfterSuccess(t)
<1>1. /\ pc[t] = "startWatcher"
      /\ UNCHANGED <<held, sess, routing, state, appDone, closing>>
  BY DEF StartWatcher, manager, tunnels, contexts
<1>2. s \in Sessions /\ s \in Actors /\ s # None
  BY <1>0, <1>1, ActorTypes, JobFields DEF HandsInv, Actors
<1>3. pc[s] = "idle" /\ s # t /\ held[t] = None
  BY <1>0, <1>1, <1>2 DEF WatcherInv, HandsInv, Installing, Connected, Taken
<1>4. l \in {"finishConnected", "done", "endSwitch"} /\ l \in Labels
      /\ l \notin Connected \cup Taken \cup Installing \cup ShuttingDown \cup Closing
  BY DEF AfterSuccess, Labels, Connected, Taken, Installing, ShuttingDown, Closing
<1>5. SessionOwnership' /\ RoutingExclusive' /\ ConnectedMeansSession'
  BY <1>1, PropertiesStay DEF Inv, routing
<1>6. CASE closing
  <2>1. job' = job /\ pc' = [pc EXCEPT ![t] = l] /\ appDone
    BY <1>0, <1>6 DEF StartWatcher, Goto, ShutdownInv
  <2>2. Moves(t, l)
    BY <1>1, <2>1 DEF Moves
  <2>3. HandsInv'
    BY <1>0, <1>1, <1>3, <1>4, <2>1, <2>2, HandsStay
  <2>4. WatcherInv'
    BY <1>0, <1>1, <1>4, <2>2, WatchersStay
  <2>5. ShutdownInv'
    BY <1>0, <1>1, <1>4, <2>1, ShutdownStays DEF Actors, TypeOK, GoroutineTypeOK
  <2>6. LiveSessionIsWatched'
    BY <1>1, <2>1 DEF LiveSessionIsWatched
  <2>. QED  BY <1>5, <2>3, <2>4, <2>5, <2>6 DEF Others
<1>7. CASE ~closing
  <2>1. /\ pc' = [pc EXCEPT ![s] = "watch", ![t] = l]
        /\ job' = [job EXCEPT ![s].kind = "failover", ![s].expected = s,
                              ![s].generation = job[t].generation]
    BY <1>7 DEF StartWatcher
  <2>2. \A a \in Actors : pc'[a] = IF a = t THEN l ELSE IF a = s THEN "watch" ELSE pc[a]
    BY <1>0, <1>2, <1>3, <2>1 DEF TypeOK, GoroutineTypeOK
  <2>3. \A a \in Actors \ {s} : job'[a] = job[a]
    BY <1>0, <2>1 DEF TypeOK, GoroutineTypeOK
  <2>4. job'[s].generation = job[t].generation /\ job'[s].installed = job[s].installed
    <3>1. job[s] \in Jobs
      BY <1>0, <1>2, ActorTypes
    <3>2. job'[s] = [job[s] EXCEPT !.kind = "failover", !.expected = s,
                                   !.generation = job[t].generation]
      BY <1>0, <1>2, <2>1 DEF TypeOK, GoroutineTypeOK
    <3>. QED  BY <3>1, <3>2 DEF Jobs
  <2>5. job[s].installed = None /\ held[s] = None
    BY <1>0, <1>2, <1>3 DEF HandsInv, Connected, Taken, Installing
  <2>6. \A a \in Actors : job'[a].installed = job[a].installed
    BY <2>3, <2>4
  <2>7. HandsInv'
    BY <1>0, <1>1, <1>3, <1>4, <2>2, <2>5, <2>6 DEF HandsInv, Connected, Taken, Installing
  <2>8. WatcherInv'
    <3>1. \A q \in Sessions : q \in Actors /\ q # None /\ (pc[q] = "idle" /\ q # s => pc'[q] = "idle")
      BY <1>1, <2>2, NamesAssumption DEF Actors
    <3>2. \A a \in Actors : held[a] \in Sessions \cup {None} /\ job[a].installed \in Sessions \cup {None}
      BY <1>0, ActorTypes, JobFields
    <3>3. sess[s] # "none" /\ \A a \in Actors : pc[a] \in Connected => held[a] # s
      BY <1>0, <1>2 DEF WatcherInv
    <3>4. \A q \in Sessions : sess'[q] = "none" =>
           pc'[q] = "idle" /\ \A a \in Actors : job'[a].installed # q
      BY <1>0, <1>1, <2>6, <3>1, <3>3 DEF WatcherInv
    <3>5. \A a \in Actors : pc'[a] \in Connected =>
           pc'[held'[a]] = "idle" /\ \A b \in Actors : job'[b].installed # held'[a]
      <4>. SUFFICES ASSUME NEW a \in Actors, pc'[a] \in Connected
           PROVE  pc'[held'[a]] = "idle" /\ \A b \in Actors : job'[b].installed # held'[a]
        OBVIOUS
      <4>1. pc[a] \in Connected /\ held'[a] = held[a]
        BY <1>1, <1>4, <2>2 DEF Connected
      <4>2. held[a] \in Sessions /\ held[a] # s
        BY <1>0, <3>2, <3>3, <4>1 DEF HandsInv
      <4>. QED  BY <1>0, <2>6, <3>1, <4>1, <4>2 DEF WatcherInv
    <3>6. \A a \in Actors : (pc'[a] \in Installing /\ job'[a].installed # None) =>
           pc'[job'[a].installed] = "idle"
      <4>. SUFFICES ASSUME NEW a \in Actors, pc'[a] \in Installing, job'[a].installed # None
           PROVE  pc'[job'[a].installed] = "idle"
        OBVIOUS
      <4>1. pc[a] \in Installing /\ a # t
        BY <1>4, <2>2 DEF Installing
      <4>2. job[a].installed \in Sessions /\ job[a].installed # s
        BY <1>0, <1>2, <2>6, <3>2, <4>1 DEF WatcherInv
      <4>. QED  BY <1>0, <2>6, <3>1, <4>1, <4>2 DEF WatcherInv
    <3>7. \A a, b \in Actors :
           (job'[a].installed = job'[b].installed /\ job'[a].installed # None) => a = b
      BY <1>0, <2>6 DEF WatcherInv
    <3>. QED  BY <3>4, <3>5, <3>6, <3>7 DEF WatcherInv
  <2>9. ShutdownInv'
    <3>1. Closer # s /\ Closer \in Actors
      BY <1>2, NamesAssumption DEF Actors
    <3>. QED  BY <1>0, <1>1, <1>4, <2>2, <3>1, ShutdownStays
  <2>10. LiveSessionIsWatched'
    <3>. SUFFICES ASSUME NEW q \in Sessions, session = q, sess[q] = "open", ~appDone
         PROVE  \/ pc'[q] = "watch" /\ job'[q].generation = generation
                \/ \E u \in Actors : /\ job'[u].installed = q /\ job'[u].generation = generation
                                     /\ pc'[u] \in Installing
      BY <1>1 DEF LiveSessionIsWatched, Installing, routing
    <3>1. \/ pc[q] = "watch" /\ job[q].generation = generation
          \/ \E u \in Actors : /\ job[u].installed = q /\ job[u].generation = generation
                               /\ pc[u] \in Installing
      BY <1>0 DEF LiveSessionIsWatched, Installing
    <3>2. CASE pc[q] = "watch" /\ job[q].generation = generation
      BY <1>1, <1>3, <2>2, <2>3, <3>2 DEF Actors
    <3>3. ASSUME NEW u \in Actors, job[u].installed = q, job[u].generation = generation,
                 pc[u] \in Installing
          PROVE  \/ pc'[q] = "watch" /\ job'[q].generation = generation
                 \/ \E v \in Actors : /\ job'[v].installed = q /\ job'[v].generation = generation
                                      /\ pc'[v] \in Installing
      <4>1. CASE u = t
        BY <1>2, <1>3, <2>2, <2>4, <3>3, <4>1
      <4>2. CASE u # t
        <5>1. u # s
          BY <1>3, <3>3 DEF Installing
        <5>. QED  BY <2>2, <2>3, <3>3, <4>2, <5>1
      <4>. QED  BY <4>1, <4>2
    <3>. QED  BY <3>1, <3>2, <3>3
  <2>. QED  BY <1>5, <2>7, <2>8, <2>9, <2>10 DEF Others
<1>. QED  BY <1>6, <1>7

\* Restarting the health-check loop moves two goroutines, both of them quiet.
LEMMA StartMonitorInv ==
  ASSUME Inv, NEW t \in Tasks, StartMonitor(t) PROVE Others'
<1>0. TypeOK /\ HandsInv /\ WatcherInv /\ ShutdownInv /\ SessionOwnership /\ LiveSessionIsWatched
      /\ t \in Actors /\ t \notin Sessions /\ Monitor \in Actors /\ Monitor \notin Sessions
      /\ Closer \in Actors /\ Closer # t /\ Closer # Monitor
  BY NamesAssumption DEF Inv, Actors, Closer, Monitor
<1>1. /\ pc[t] = "stopMonitor" /\ pc[Monitor] = "off"
      /\ pc' = [pc EXCEPT ![t] = "idle", ![Monitor] = "idle"]
      /\ job' = [job EXCEPT ![t] = NoJob]
      /\ UNCHANGED <<held, sess, routing, state, appDone, closing>>
  BY DEF StartMonitor, manager, tunnels
<1>2. \A a \in Actors : pc'[a] = IF a \in {t, Monitor} THEN "idle" ELSE pc[a]
  BY <1>0, <1>1 DEF TypeOK, GoroutineTypeOK
<1>3. job'[t].installed = None /\ \A a \in Actors \ {t} : job'[a] = job[a]
  BY <1>0, <1>1, FreshJob DEF TypeOK, GoroutineTypeOK
<1>4. \A a \in {t, Monitor} : held[a] = None /\ job[a].installed = None
  BY <1>0, <1>1 DEF HandsInv, Connected, Taken, Installing
<1>5. "idle" \notin Connected \cup Installing
  BY DEF Connected, Installing
<1>6. HandsInv'
  <2>. SUFFICES ASSUME NEW a \in Actors
       PROVE  /\ held'[a] # None => pc'[a] \in Connected \cup Taken
              /\ pc'[a] \in Connected => held'[a] # None
              /\ pc'[a] = "startWatcher" => job'[a].installed # None
              /\ job'[a].installed # None =>
                   pc'[a] \in Installing \cup {"finishConnected", "endSwitch", "done"}
    BY DEF HandsInv
  <2>1. CASE a \in {t, Monitor}
    <3>1. held'[a] = None /\ job'[a].installed = None /\ pc'[a] = "idle"
      BY <1>1, <1>2, <1>3, <1>4, <2>1
    <3>. QED  BY <1>5, <3>1
  <2>2. CASE a \notin {t, Monitor}
    <3>1. held'[a] = held[a] /\ job'[a] = job[a] /\ pc'[a] = pc[a]
      BY <1>1, <1>2, <1>3, <2>2
    <3>. QED  BY <1>0, <3>1 DEF HandsInv
  <2>. QED  BY <2>1, <2>2
<1>7. WatcherInv'
  <2>1. \A a \in Actors : job'[a].installed = job[a].installed
    BY <1>3, <1>4
  <2>2. \A q \in Sessions : q \in Actors /\ pc'[q] = pc[q]
    BY <1>0, <1>2 DEF Actors
  <2>3. \A a \in Actors : pc'[a] \in Connected \cup Installing => pc'[a] = pc[a]
    BY <1>2, <1>5
  <2>4. \A a \in Actors : held[a] \in Sessions \cup {None} /\ job[a].installed \in Sessions \cup {None}
    BY <1>0, ActorTypes, JobFields
  <2>5. held' = held /\ sess' = sess
    BY <1>1
  <2>6. \A a \in Actors : pc'[a] \in Connected =>
         pc'[held'[a]] = "idle" /\ \A b \in Actors : job'[b].installed # held'[a]
    BY <1>0, <2>1, <2>2, <2>3, <2>4, <2>5 DEF WatcherInv, HandsInv
  <2>7. \A a \in Actors : (pc'[a] \in Installing /\ job'[a].installed # None) =>
         pc'[job'[a].installed] = "idle"
    BY <1>0, <2>1, <2>2, <2>3, <2>4 DEF WatcherInv
  <2>8. \A q \in Sessions : sess'[q] = "none" =>
         pc'[q] = "idle" /\ \A a \in Actors : job'[a].installed # q
    BY <1>0, <2>1, <2>2, <2>5 DEF WatcherInv
  <2>9. \A a, b \in Actors :
         (job'[a].installed = job'[b].installed /\ job'[a].installed # None) => a = b
    BY <1>0, <2>1 DEF WatcherInv
  <2>. QED  BY <2>6, <2>7, <2>8, <2>9 DEF WatcherInv
<1>8. ShutdownInv'
  BY <1>0, <1>1, <1>2, ShutdownStays
<1>9. LiveSessionIsWatched'
  <2>1. \A a \in Actors : pc[a] = "watch" => pc'[a] = "watch" /\ job'[a] = job[a]
    BY <1>1, <1>2, <1>3
  <2>2. \A a \in Actors : pc[a] \in Installing => pc'[a] \in Installing /\ job'[a] = job[a]
    BY <1>1, <1>2, <1>3 DEF Installing
  <2>. QED  BY <1>0, <1>1, <2>1, <2>2, LiveStays DEF routing
<1>10. SessionOwnership' /\ RoutingExclusive' /\ ConnectedMeansSession'
  BY <1>1, PropertiesStay DEF Inv, routing
<1>. QED  BY <1>6, <1>7, <1>8, <1>9, <1>10 DEF Others

\* A tunnel that ends by itself still belongs to whoever had it.
LEMMA TunnelEndsInv ==
  ASSUME Inv, NEW s \in Sessions, TunnelEnds(s) PROVE Others'
<1>0. TypeOK /\ HandsInv /\ WatcherInv /\ ShutdownInv /\ SessionOwnership /\ LiveSessionIsWatched
  BY DEF Inv
<1>1. /\ sess[s] = "open" /\ sess' = [sess EXCEPT ![s] = "ended"]
      /\ UNCHANGED <<pc, job, held, routing, state, appDone, closing>>
  BY DEF TunnelEnds, manager, contexts
<1>2. \A q \in Sessions : sess'[q] = IF q = s THEN "ended" ELSE sess[q]
  BY <1>0, <1>1 DEF TypeOK, WorldTypeOK
<1>3. HandsInv' /\ ShutdownInv'
  BY <1>0, <1>1 DEF HandsInv, ShutdownInv
<1>4. WatcherInv'
  BY <1>0, <1>1, <1>2 DEF WatcherInv
<1>5. SessionOwnership'
  <2>1. \A q \in Sessions : Unclosed(q)' <=> Unclosed(q)
    BY <1>1, <1>2 DEF Unclosed
  <2>2. \A a \in Actors : held[a] \in Sessions \cup {None}
    BY <1>0, ActorTypes
  <2>3. session' = session /\ held' = held /\ session \in Sessions \cup {None}
    BY <1>0, <1>1 DEF routing, TypeOK, RoutingTypeOK
  <2>4. session' # None => Unclosed(session)'
    BY <1>0, <1>2, <2>3 DEF SessionOwnership, Unclosed
  <2>5. \A a \in Actors : held'[a] # None => sess'[held'[a]] \in {"open", "ended"} /\ held'[a] # session'
    BY <1>0, <1>2, <2>2, <2>3 DEF SessionOwnership, Unclosed
  <2>6. \A q \in Sessions : Unclosed(q)' => session' = q \/ \E a \in Actors : held'[a] = q
    BY <1>0, <2>1, <2>3 DEF SessionOwnership
  <2>. QED  BY <1>0, <2>3, <2>4, <2>5, <2>6 DEF SessionOwnership, Unclosed
<1>6. LiveSessionIsWatched'
  BY <1>0, <1>1, <1>2, LiveStays DEF routing
<1>7. RoutingExclusive' /\ ConnectedMeansSession'
  BY <1>1, PropertiesStay DEF Inv, routing
<1>. QED  BY <1>3, <1>4, <1>5, <1>6, <1>7 DEF Others

\* The shutdown sequence up to Close, which only moves the main goroutine.
LEMMA ShutdownStepInv ==
  ASSUME Inv,
         \/ CancelApp \/ StopListening \/ HTTPStopped \/ ServicesStopped \/ BackgroundStopped
         \/ Close
  PROVE  Others'
<1>0. TypeOK /\ HandsInv /\ WatcherInv /\ ShutdownInv /\ SessionOwnership /\ LiveSessionIsWatched
      /\ Closer \in Actors /\ Closer \notin Sessions
  BY NamesAssumption DEF Inv, Actors
<1>1. UNCHANGED <<job, held, sess, routing, state>>
  BY DEF CancelApp, StopListening, HTTPStopped, ServicesStopped, BackgroundStopped, Close,
         Shutdown, manager, tunnels
<1>2. PICK l \in {"cancelled", "stopHTTP", "stopServices", "stopBackground", "close", "takeSession"} :
        /\ pc' = [pc EXCEPT ![Closer] = l]
        /\ pc[Closer] \in {"run", "cancelled", "stopHTTP", "stopServices", "stopBackground", "close"}
        /\ appDone' /\ (appDone => appDone') /\ (closing => closing')
        /\ closing' <=> closing \/ l = "takeSession"
  <2>1. CASE CancelApp
    BY <2>1 DEF CancelApp, Goto
  <2>2. CASE Close
    BY <1>0, <2>2 DEF Close, Goto, contexts, ShutdownInv, ShuttingDown
  <2>3. CASE StopListening
    BY <1>0, <2>3 DEF StopListening, Shutdown, Goto, ShutdownInv, ShuttingDown
  <2>4. CASE HTTPStopped
    BY <1>0, <2>4 DEF HTTPStopped, Shutdown, Goto, ShutdownInv, ShuttingDown
  <2>5. CASE ServicesStopped
    BY <1>0, <2>5 DEF ServicesStopped, Shutdown, Goto, ShutdownInv, ShuttingDown
  <2>6. CASE BackgroundStopped
    BY <1>0, <2>6 DEF BackgroundStopped, Shutdown, Goto, ShutdownInv, ShuttingDown
  <2>. QED  BY <2>1, <2>2, <2>3, <2>4, <2>5, <2>6
<1>3. l \in Labels /\ l # "startWatcher" /\ l \notin Connected \cup Taken \cup Installing
      /\ (l \in Closing <=> l = "takeSession")
  BY DEF Labels, Connected, Taken, Installing, Closing
<1>4. held[Closer] = None /\ job[Closer].installed = None
  BY <1>0, <1>2 DEF HandsInv, Connected, Taken, Installing
<1>5. Moves(Closer, l)
  BY <1>1, <1>2 DEF Moves
<1>6. HandsInv'
  BY <1>0, <1>1, <1>3, <1>4, <1>5, HandsStay
<1>7. WatcherInv'
  BY <1>0, <1>1, <1>3, <1>5, WatchersStay
<1>8. ShutdownInv'
  BY <1>0, <1>2, <1>3 DEF ShutdownInv, TypeOK, GoroutineTypeOK
<1>9. LiveSessionIsWatched'
  <2>1. \A a \in Actors : pc[a] \in Installing \cup {"watch"} => pc'[a] = pc[a] /\ job'[a] = job[a]
    BY <1>0, <1>1, <1>2 DEF TypeOK, GoroutineTypeOK, Installing
  <2>. QED  BY <1>0, <1>1, <1>2, <2>1, LiveStays DEF routing
<1>10. SessionOwnership' /\ RoutingExclusive'
  BY <1>1, PropertiesStay DEF Inv, routing
<1>11. ConnectedMeansSession'
  BY <1>1, <1>2 DEF Inv, ConnectedMeansSession, routing
<1>. QED  BY <1>6, <1>7, <1>8, <1>9, <1>10, <1>11 DEF Others

\* A stuttering step preserves Inv.
LEMMA UnchangedInv ==
  ASSUME Inv, UNCHANGED managerVars PROVE Others'
<1>1. UNCHANGED <<pc, job, held, sess, session, generation, routing, state, appDone, closing>>
  BY DEF managerVars, manager, routing, tunnels, contexts
<1>2. HandsInv' /\ WatcherInv' /\ ShutdownInv'
  BY <1>1 DEF Inv, HandsInv, WatcherInv, ShutdownInv
<1>3. SessionOwnership' /\ RoutingExclusive' /\ ConnectedMeansSession'
  BY <1>1, PropertiesStay DEF Inv
<1>4. LiveSessionIsWatched'
  BY <1>1, LiveStays DEF Inv
<1>. QED  BY <1>2, <1>3, <1>4 DEF Others

\* Every quiet step preserves Inv.
LEMMA QuietInv ==
  ASSUME Inv, NEW t \in Actors, QuietStep(t) PROVE Others'
<1>1. TypeOK /\ HandsInv /\ WatcherInv
  BY DEF Inv
<1>. QED  BY <1>1, QuietHands, QuietWatchers, QuietRest DEF Others

\* Every step of a goroutine that has been started preserves Inv.
LEMMA GoroutineInv ==
  ASSUME Inv, NEW a \in Actors, GoroutineStep(a) PROVE Others'
<1>0. TypeOK
  BY DEF Inv
<1>1. CASE ConnectStep(a)
  BY <1>0, <1>1, QuietConnect, QuietInv, DialInv, HolderInv, InstallInv, CloseTakenInv,
     InstallerInv, StartWatcherInv DEF ConnectStep
<1>2. CASE SwitchStep(a)
  BY <1>0, <1>2, QuietSwitch, QuietInv, FailoverInv, InstallerInv DEF SwitchStep
<1>3. CASE a \in Tasks /\ TaskStep(a)
  BY <1>0, <1>3, QuietTask, QuietInv, StartMonitorInv
<1>4. CASE a \in Sessions /\ WatcherWakes(a)
  BY <1>4, WatcherWakesInv
<1>. QED  BY <1>1, <1>2, <1>3, <1>4 DEF GoroutineStep

\* Every step of the specification preserves Inv.
LEMMA InvStep ==
  ASSUME Inv, [Next]_vars PROVE Inv'
<1>0. TypeOK /\ HandsInv
  BY DEF Inv
<1>1. TypeOK'
  BY <1>0, StepTypes
<1>2. ASSUME UNCHANGED vars PROVE Others'
  BY <1>2, UnchangedInv DEF vars
<1>3. ASSUME NEW t \in Tasks, HandlerStarts(t) \/ FetchNodes(t) \/ RestartTimesOut(t) PROVE Others'
  <2>1. t \in Actors
    BY DEF Actors
  <2>2. CASE HandlerStarts(t) /\ PauseConnection(t)
    BY <2>2, PauseInv DEF HandlerStarts, Arrives
  <2>. QED  BY <1>0, <1>3, <2>1, <2>2, QuietHandler, QuietInv
<1>4. ASSUME StartStep \/ MonitorTick \/ MonitorStep PROVE Others'
  <2>1. Starter \in Actors /\ Monitor \in Actors
    BY DEF Actors
  <2>. QED  BY <1>0, <1>4, <2>1, QuietStart, QuietMonitor, QuietInv
<1>5. ASSUME CancelApp \/ ShutdownExpires \/ ShutdownStep PROVE Others'
  BY <1>5, ShutdownStepInv, CloseInv, UnchangedInv DEF ShutdownStep, ShutdownExpires
<1>6. Others'
  BY <1>2, <1>3, <1>4, <1>5, GoroutineInv, TunnelEndsInv DEF Next, AtRest
<1>. QED  BY <1>1, <1>6 DEF Inv, Others

\* Inv holds when the program starts.
LEMMA InitInv == Init => Inv
<1>. SUFFICES ASSUME Init PROVE Inv
  OBVIOUS
<1>1. RoutingTypeOK /\ AttemptTypeOK /\ LockTypeOK
  BY DEF Init, NewManager, RoutingTypeOK, AttemptTypeOK, LockTypeOK
<1>2. PICK saved \in SavedSelections :
        /\ meta = saved
        /\ selection = (IF saved.selection = "manual" THEN saved ELSE Automatic).selection
        /\ manualIP = (IF saved.selection = "manual" THEN saved ELSE Automatic).manualIP
        /\ manualProtocol = (IF saved.selection = "manual" THEN saved ELSE Automatic).manualProtocol
  BY DEF Init, NewManager
<1>3. saved \in Selections /\ Automatic \in Selections
  BY SetsAssumption DEF Automatic, Selections
<1>4. ChoiceTypeOK
  BY <1>2, <1>3 DEF Init, NewManager, ChoiceTypeOK, Selections
<1>5. GoroutineTypeOK
  BY NoJobType DEF Init, GoroutineTypeOK, Labels
<1>6. WorldTypeOK
  BY <1>2, <1>3, SetsAssumption DEF Init, WorldTypeOK
<1>7. TypeOK
  BY <1>1, <1>4, <1>5, <1>6 DEF TypeOK
<1>8. /\ \A a \in Actors : pc[a] \in {"start", "run", "idle"} /\ job[a] = NoJob /\ held[a] = None
      /\ \A s \in Sessions : s \in Actors /\ pc[s] = "idle" /\ sess[s] = "none"
      /\ pc[Closer] = "run" /\ session = None /\ state = "idle" /\ ~closing
      /\ directMode = FALSE /\ connectionPaused = FALSE
  BY NamesAssumption DEF Init, NewManager, Actors, Starter, Monitor, Closer
<1>9. HandsInv /\ WatcherInv /\ ShutdownInv
  BY <1>8, FreshJob, NamesAssumption DEF HandsInv, WatcherInv, ShutdownInv, Connected, Installing,
     ShuttingDown, Closing, Actors
<1>10. SessionOwnership /\ RoutingExclusive /\ ConnectedMeansSession
  BY <1>8 DEF SessionOwnership, Unclosed, RoutingExclusive, ConnectedMeansSession
<1>11. LiveSessionIsWatched
  BY <1>8 DEF LiveSessionIsWatched
<1>. QED  BY <1>7, <1>9, <1>10, <1>11 DEF Inv
-----------------------------------------------------------------------------
(* Theorems.                                                                *)

\* Inv is an invariant of every behaviour of the manager and its callers.
THEOREM Safety == Spec => []Inv
<1>1. Inv /\ [Next]_vars => Inv'
  BY InvStep
<1>. QED  BY InitInv, <1>1, PTL DEF Spec

\* Type correctness, for the whole Manager struct and every goroutine.
THEOREM TypeCorrect == Spec => []TypeOK
<1>1. Inv => TypeOK
  BY DEF Inv
<1>. QED  BY Safety, <1>1, PTL

\* No tunnel leaks, is closed twice or has two owners, for any number of
\* tunnels and goroutines (activate, install, SetDirectMode, failover, Close).
THEOREM NoTunnelLeaks == Spec => []SessionOwnership
<1>1. Inv => SessionOwnership
  BY DEF Inv
<1>. QED  BY Safety, <1>1, PTL

\* Direct routing and a VPN session exclude each other, and no connection in
\* flight undoes a pause (SetDirectMode, install, failover).
THEOREM OneRoute == Spec => []RoutingExclusive
<1>1. Inv => RoutingExclusive
  BY DEF Inv
<1>. QED  BY Safety, <1>1, PTL

\* The session in use always has a watcher of the current generation, or its
\* installer is about to start one (install, isGeneration).
THEOREM SessionsWatched == Spec => []LiveSessionIsWatched
<1>1. Inv => LiveSessionIsWatched
  BY DEF Inv
<1>. QED  BY Safety, <1>1, PTL

\* The state "connected" is never shown without a session before Close runs
\* (finishConnectAttempt, setState, failover).
THEOREM StatusTruthful == Spec => []ConnectedMeansSession
<1>1. Inv => ConnectedMeansSession
  BY DEF Inv
<1>. QED  BY Safety, <1>1, PTL
=============================================================================
