------------------------ MODULE ManagedVpnLockProofs ------------------------
(***************************************************************************)
(* Who runs what in the VPN manager: the jobs a place in the code is for,  *)
(* the goroutine autoMu belongs to, the goroutines the cancel functions    *)
(* stop, the sessions a failover may replace, and what is left running at  *)
(* each stage of the shutdown.                                             *)
(***************************************************************************)
EXTENDS ManagedVpnSafetyProofs

SwitchKinds == {"auto", "follow", "failover"}
Saving == {"saveSelection", "saveIP", "saveProtocol"}
Dialing == {"switchLock", "connect", "probe", "ready", "install"}

\* The kinds of job j that reach a place l.
Fits(l, j) ==
  /\ l \in {"reconnectLookup", "startCandidate", "finishConnected", "finishFailed"} =>
       j.kind = "candidate"
  /\ l = "resumeLookup" => j.kind = "resume"
  /\ l \in {"restoreLookup", "restoreState"} => j.kind = "restore"
  /\ l \in {"setAutomatic", "startSwitch"} => j.kind \in {"restore", "resume"}
  /\ l = "autoLock" => j.kind \in {"candidate", "auto", "follow"}
  /\ l = "runAsync" => j.kind \in SwitchKinds \cup {"candidate"}
  /\ l \in {"rankedNodes", "nextNode", "recordError", "endSwitch"} => j.kind \in SwitchKinds
  /\ l \in Dialing \cup {"setError", "startWatcher"} => j.kind \in SwitchKinds \cup {"candidate", "restore"}
  /\ l \in {"failover", "failoverAuto", "switch", "watch", "check"} => j.kind = "failover"
  /\ l \in {"replaceNodes", "afterRefresh", "lookupActive"} => j.kind = "refresh"
  /\ l = "stopMonitor" => j.kind = "restart"
  /\ l = "closeOld" => j.installed # None \/ j.kind = "failover"
  /\ l \in Saving => j.installed # None \/ j.kind \in {"failover", "restore", "resume"}
  /\ j.installed # None => j.kind \in SwitchKinds \cup {"candidate", "restore"}
  /\ j.kind \in {"candidate", "resume", "restore"} \/ l \in Dialing => j.node # None

\* Where an automatic switch runs with autoMu, and where it is registered, which
\* it is not in failover's own part; where a candidate runs with autoMu, and
\* where it is registered.
SwitchOwns(l, j) ==
  /\ j.kind \in SwitchKinds
  /\ l \in Dialing \cup Saving \cup {"rankedNodes", "nextNode", "closeOld", "startWatcher",
                                     "setError", "recordError", "endSwitch", "switch"}

SwitchRuns(l, j) ==
  /\ SwitchOwns(l, j) /\ l # "switch"
  /\ l \in Saving \cup {"closeOld"} => j.installed # None

CandidateOwns(l, j) ==
  /\ j.kind = "candidate"
  /\ l \in Dialing \cup Saving \cup {"closeOld", "startWatcher", "setError", "finishConnected"}

CandidateRuns(l, j) ==
  /\ j.kind = "candidate"
  /\ l \in Dialing \cup Saving \cup {"runAsync", "autoLock", "closeOld", "startWatcher", "setError",
                                     "finishConnected", "finishFailed"}

Owns(l, j) == SwitchOwns(l, j) \/ CandidateOwns(l, j)

\* A failover between its look at the session and its own install.
Replaces(l, j) ==
  SwitchOwns(l, j) /\ j.kind = "failover" /\ j.expected # None /\ j.installed = None

\* The job of a goroutine is one for the place it is at; autoMu is its own where
\* it needs it; a failover sees no session but the one it is for and the one
\* that Start restored.
RoleInv(a) ==
  /\ Fits(pc[a], job[a])
  /\ job[a].kind = "restore" => a = Starter
  /\ Owns(pc[a], job[a]) => autoMu = a
  /\ Replaces(pc[a], job[a]) => session \in {None, job[a].expected, job[Starter].installed}

\* A registered switch runs with autoMu; a registered candidate is the newest one
\* and runs.
RegisteredInv(a) ==
  /\ cancelAutomatic = a => autoMu = a /\ SwitchRuns(pc[a], job[a])
  /\ cancelConnect = a =>
       /\ CandidateRuns(pc[a], job[a])
       /\ job[a].attempt = connectAttempt /\ job[a].node = connectingIP

MarkerInv ==
  /\ (connectingIP # None) <=> (cancelConnect # None)
  /\ session # None => node # None

LocksInv ==
  /\ \A a \in Actors : RoleInv(a) /\ RegisteredInv(a)
  /\ MarkerInv

\* The goroutines that async.Wait waits for have not returned, and every watcher
\* that runs is one of them.
AsyncInv ==
  /\ async \subseteq Tasks \cup Sessions
  /\ \A t \in async : pc[t] \notin {"idle", "stopMonitor"}
  /\ \A s \in Sessions : pc[s] \in {"idle", "done"} \/ s \in async

\* The stages of the shutdown, each with those after it.
FromServices == {"stopServices", "stopBackground", "close"} \cup Closing
FromBackground == {"stopBackground", "close"} \cup Closing
FromClose == {"close"} \cup Closing
FromWait == {"closeLate", "closed"}

\* What each stage has waited for is over and does not start again: the requests,
\* the health-check loop, the refresher and Start, the goroutines of the manager.
StagesInv ==
  /\ pc[Closer] \in FromServices => \A t \in Tasks : pc[t] = "idle" \/ t \in async \/ Refreshing(t)
  /\ pc[Closer] \in FromBackground => pc[Monitor] = "off"
  /\ pc[Closer] \in FromClose => pc[Starter] = "done" /\ \A t \in Tasks : ~Refreshing(t)
  /\ pc[Closer] \in FromWait => async = {} /\ session = None

\* The main goroutine does nothing but shut down, and nobody else does that.
Main == {"run"} \cup ShuttingDown \cup Closing
CloserInv == \A a \in Actors : a = Closer <=> pc[a] \in Main

EndInv == AsyncInv /\ CloserInv /\ (~expired => StagesInv)

RunInv == Inv /\ LocksInv /\ EndInv
-----------------------------------------------------------------------------
\* What a step of t leaves alone, or changes only because autoMu is its own.
StepOf(t) ==
  /\ \A u \in Actors \ {t} : pc'[u] = pc[u] /\ job'[u] = job[u]
  /\ autoMu' = autoMu \/ autoMu \in {None, t}
  /\ cancelAutomatic' \in {None, cancelAutomatic, t}
  /\ \/ cancelConnect' = None
     \/ cancelConnect' = t
     \/ UNCHANGED <<connectingIP, cancelConnect, connectAttempt>>
  /\ \/ Owns(pc[t], job[t])
     \/ session' \in {None, session} /\ job'[t].installed = job[t].installed
     \/ t = Starter /\ session' = job'[t].installed

\* Such a step preserves what concerns the other goroutines.
LEMMA OthersKeep ==
  ASSUME LocksInv, NEW t \in Actors, StepOf(t), RoleInv(t)', RegisteredInv(t)', MarkerInv'
  PROVE  LocksInv'
<1>. SUFFICES ASSUME NEW u \in Actors \ {t} PROVE RoleInv(u)' /\ RegisteredInv(u)'
  BY DEF LocksInv
<1>1. /\ pc'[u] = pc[u] /\ job'[u] = job[u] /\ RoleInv(u) /\ RegisteredInv(u)
      /\ RoleInv(t)
  BY DEF StepOf, LocksInv
<1>2. None \notin Actors /\ Starter \in Actors
  BY NamesAssumption DEF Actors
<1>3. autoMu = u => autoMu' = u
  BY <1>2 DEF StepOf
<1>4. Owns(pc[u], job[u]) => ~Owns(pc[t], job[t])
  BY <1>1 DEF RoleInv
<1>5. Replaces(pc[u], job[u]) => session' \in {None, job[u].expected, job'[Starter].installed}
  <2>. SUFFICES ASSUME Replaces(pc[u], job[u])
                PROVE  session' \in {None, job[u].expected, job'[Starter].installed}
    OBVIOUS
  <2>1. Owns(pc[u], job[u]) /\ session \in {None, job[u].expected, job[Starter].installed}
    BY <1>1 DEF RoleInv, Replaces, Owns
  <2>2. CASE session' \in {None, session} /\ job'[t].installed = job[t].installed
    BY <1>2, <2>1, <2>2 DEF StepOf
  <2>3. CASE t = Starter /\ session' = job'[t].installed
    BY <2>3
  <2>. QED  BY <1>4, <2>1, <2>2, <2>3 DEF StepOf
<1>6. RoleInv(u)'
  BY <1>1, <1>3, <1>5 DEF RoleInv
<1>7. RegisteredInv(u)'
  BY <1>1, <1>2, <1>3 DEF RegisteredInv, StepOf
<1>. QED  BY <1>6, <1>7

\* The fields of a job that the invariant is about.
SameRole(i, j) ==
  /\ j.kind = i.kind /\ j.node = i.node /\ j.attempt = i.attempt
  /\ j.expected = i.expected /\ j.installed = i.installed

\* A goroutine goes on with the same role: it owns, replaces and has registered
\* what it did before.
Continues(k, i, l, j) ==
  /\ Owns(l, j) => Owns(k, i)
  /\ Replaces(l, j) => Replaces(k, i) /\ j.expected = i.expected
  /\ SwitchRuns(k, i) => SwitchRuns(l, j)
  /\ CandidateRuns(k, i) => CandidateRuns(l, j) /\ j.attempt = i.attempt /\ j.node = i.node

OthersStay(t) == \A u \in Actors \ {t} : pc'[u] = pc[u] /\ job'[u] = job[u]
GlobalsStay == UNCHANGED <<autoMu, attempts, session, node>>

\* A step that only moves goroutines and assigns their locals.
LEMMA AllGoOn ==
  ASSUME LocksInv, GlobalsStay,
         \A u \in Actors :
           \/ pc'[u] = pc[u] /\ job'[u] = job[u]
           \/ /\ Fits(pc'[u], job'[u]) /\ Continues(pc[u], job[u], pc'[u], job'[u])
              /\ job'[u].kind = "restore" => u = Starter
              /\ job'[u].installed = job[u].installed
  PROVE  LocksInv'
<1>1. UNCHANGED <<autoMu, connectingIP, cancelConnect, connectAttempt, cancelAutomatic, session, node>>
  BY DEF GlobalsStay, attempts
<1>2. job'[Starter].installed = job[Starter].installed
  BY DEF Actors
<1>3. ASSUME NEW u \in Actors PROVE RoleInv(u)' /\ RegisteredInv(u)'
  <2>1. RoleInv(u) /\ RegisteredInv(u)
    BY DEF LocksInv
  <2>. QED  BY <1>1, <1>2, <2>1 DEF RoleInv, RegisteredInv, Continues
<1>4. MarkerInv'
  BY <1>1 DEF LocksInv, MarkerInv
<1>. QED  BY <1>3, <1>4 DEF LocksInv

\* A step that only moves t and assigns its locals.
LEMMA GoesOn ==
  ASSUME LocksInv, NEW t \in Actors, OthersStay(t), GlobalsStay,
         Fits(pc'[t], job'[t]), Continues(pc[t], job[t], pc'[t], job'[t]),
         job'[t].installed = job[t].installed, job'[t].kind = "restore" => t = Starter
  PROVE  LocksInv'
  BY AllGoOn DEF OthersStay

\* Nothing is registered for t before the step, and it needs no lock after it.
Free(t) ==
  ~SwitchRuns(pc[t], job[t]) /\ ~CandidateRuns(pc[t], job[t]) /\ ~Owns(pc'[t], job'[t])

\* A step of a goroutine that is free.
LEMMA GoesFree ==
  ASSUME LocksInv, NEW t \in Actors, OthersStay(t), GlobalsStay, Free(t), Fits(pc'[t], job'[t]),
         job'[t].installed = job[t].installed, job'[t].kind = "restore" => t = Starter
  PROVE  LocksInv'
<1>1. Continues(pc[t], job[t], pc'[t], job'[t])
  BY DEF Free, Continues, Replaces, Owns
<1>. QED  BY <1>1, GoesOn

\* A goroutine that returns, having given back what was registered for it.
LEMMA Leaves ==
  ASSUME TypeOK, HandsInv, LocksInv, NEW t \in Actors, Exit(t),
         pc[t] \notin Installing \cup {"done"}, UNCHANGED <<session, node>>,
         autoMu' = autoMu \/ autoMu \in {None, t},
         cancelAutomatic' \in {None, cancelAutomatic}, cancelAutomatic' # t,
         \/ connectingIP' = None /\ cancelConnect' = None
         \/ UNCHANGED <<connectingIP, cancelConnect, connectAttempt>>,
         cancelConnect' # t
  PROVE  LocksInv'
<1>1. /\ pc'[t] \in {"idle", "done"} /\ job'[t] = NoJob
      /\ \A u \in Actors \ {t} : pc'[u] = pc[u] /\ job'[u] = job[u]
  BY DEF Exit, TypeOK, GoroutineTypeOK
<1>2. NoJob.kind = "none" /\ NoJob.installed = None
  BY DEF NoJob, Job
<1>3. Fits(pc'[t], job'[t]) /\ ~Owns(pc'[t], job'[t])
  BY <1>1, <1>2 DEF Fits, Owns, SwitchOwns, CandidateOwns, SwitchKinds, Dialing, Saving
<1>4. RoleInv(t)' /\ RegisteredInv(t)'
  BY <1>1, <1>2, <1>3 DEF RoleInv, RegisteredInv, Replaces, Owns
<1>5. MarkerInv'
  BY DEF LocksInv, MarkerInv
<1>6. Owns(pc[t], job[t]) \/ job'[t].installed = job[t].installed
  <2>1. Fits(pc[t], job[t])
    BY DEF LocksInv, RoleInv
  <2>2. pc[t] \in {"finishConnected", "endSwitch"} => Owns(pc[t], job[t])
    BY <2>1 DEF Fits, Owns, SwitchOwns, CandidateOwns
  <2>. QED  BY <1>1, <1>2, <2>2 DEF HandsInv
<1>7. StepOf(t)
  BY <1>1, <1>6 DEF StepOf
<1>. QED  BY <1>4, <1>5, <1>7, OthersKeep

\* A goroutine that returns from where nothing is registered for it.
LEMMA LeavesQuietly ==
  ASSUME TypeOK, HandsInv, LocksInv, NEW t \in Actors, Exit(t), GlobalsStay,
         pc[t] \notin Installing \cup {"done"},
         ~SwitchRuns(pc[t], job[t]), ~CandidateRuns(pc[t], job[t])
  PROVE  LocksInv'
<1>1. cancelAutomatic # t /\ cancelConnect # t
  BY DEF LocksInv, RegisteredInv
<1>2. UNCHANGED <<autoMu, connectingIP, cancelConnect, connectAttempt, cancelAutomatic, session, node>>
  BY DEF GlobalsStay, attempts
<1>. QED  BY <1>1, <1>2, Leaves

\* The moves of activate, connectNode, install and of an automatic switch, with
\* the kinds and the installed session that take them.
NextPlace(k, l, j) ==
  \/ k = "runAsync" /\
       \/ j.kind = "failover" /\ l = "failover"
       \/ j.kind # "failover" /\ l = "autoLock"
       \/ j.kind = "candidate" /\ l = "finishFailed"
  \/ k \in {"switchLock", "connect", "probe"} /\ l \in {"connect", "probe", "ready"}
  \/ k = "ready" /\ l = "install"
  \/ k = "connect" /\ l = "setError"
  \/ k \in {"connect", "setError", "ready", "install"} /\
       \/ j.kind = "candidate" /\ l = "finishFailed"
       \/ j.kind = "restore" /\ l = "setAutomatic"
       \/ j.kind \in SwitchKinds /\ l = "nextNode"
  \/ k \in Saving \cup {"closeOld"} /\ l \in Saving
  \/ k = "saveProtocol" /\
       \/ j.installed # None /\ l = "startWatcher"
       \/ j.installed = None /\ j.kind = "failover" /\ l = "switch"
       \/ j.installed = None /\ j.kind # "failover" /\ l = "startSwitch"
  \/ k = "startWatcher" /\
       \/ j.kind = "candidate" /\ l = "finishConnected"
       \/ j.kind = "restore" /\ l = "done"
       \/ j.kind \in SwitchKinds /\ l = "endSwitch"
  \/ k \in {"rankedNodes", "nextNode", "recordError"} /\ l \in {"nextNode", "recordError", "endSwitch"}
  \/ k = "failover" /\ l = "failoverAuto"
  \/ k = "setAutomatic" /\ l = "saveSelection"

\* Each of these moves continues in the same role.
LEMMA MovesContinue ==
  ASSUME NEW k, NEW l, NEW i, NEW j, NextPlace(k, l, i), Fits(k, i), SameRole(i, j)
  PROVE  Fits(l, j) /\ Continues(k, i, l, j)
<1>. USE DEF Fits, SameRole, SwitchKinds, Saving, Dialing
<1>1. Fits(l, j)
  BY DEF NextPlace
<1>2. Continues(k, i, l, j)
  BY DEF NextPlace, Continues, Owns, Replaces, SwitchOwns, SwitchRuns, CandidateOwns, CandidateRuns
<1>. QED  BY <1>1, <1>2

\* A step with such a move.
LEMMA GoesNext ==
  ASSUME LocksInv, NEW t \in Actors, OthersStay(t), GlobalsStay,
         SameRole(job[t], job'[t]), NextPlace(pc[t], pc'[t], job[t])
  PROVE  LocksInv'
<1>1. Fits(pc[t], job[t]) /\ (job[t].kind = "restore" => t = Starter)
  BY DEF LocksInv, RoleInv
<1>2. Fits(pc'[t], job'[t]) /\ Continues(pc[t], job[t], pc'[t], job'[t])
  BY <1>1, MovesContinue
<1>. QED  BY <1>1, <1>2, GoesOn DEF SameRole

\* A goroutine that goes on to another place with the locals it has.
LEMMA Goes ==
  ASSUME TypeOK, NEW t \in Actors, NEW l, Goto(t, l), UNCHANGED job
  PROVE  pc'[t] = l /\ job'[t] = job[t] /\ SameRole(job[t], job'[t]) /\ OthersStay(t)
  BY DEF TypeOK, GoroutineTypeOK, Goto, SameRole, OthersStay

\* Assignments that leave the role of a goroutine alone.
LEMMA SameRoles ==
  ASSUME NEW j \in Jobs
  PROVE  /\ \A d : SameRole(j, [j EXCEPT !.todo = d])
         /\ \A d, p : SameRole(j, [j EXCEPT !.todo = d, !.protocol = p])
         /\ \A c : SameRole(j, [j EXCEPT !.candidates = c])
  BY DEF Jobs, SameRole

\* Where the caller of activate continues.
LEMMA AfterPlaces ==
  ASSUME LocksInv, NEW t \in Actors
  PROVE  /\ pc[t] \in {"connect", "setError", "ready", "install"} =>
              NextPlace(pc[t], AfterFailure(t), job[t])
         /\ pc[t] = "startWatcher" => NextPlace(pc[t], AfterSuccess(t), job[t])
<1>1. Fits(pc[t], job[t])
  BY DEF LocksInv, RoleInv
<1>. QED  BY <1>1 DEF Fits, Dialing, NextPlace, AfterFailure, AfterSuccess, SwitchKinds
-----------------------------------------------------------------------------
(* The steps that only go on.                                               *)

\* activate and connectNode, up to install, and the writes after it.
LEMMA ConnectGoesOn ==
  ASSUME TypeOK, LocksInv, NEW t \in Actors,
         \/ Activate(t) \/ DialFails(t) \/ DialSucceeds(t) \/ ProbeSucceeds(t) \/ ProbeFails(t)
         \/ ConnectFails(t) \/ SetError(t) \/ CheckContext(t) \/ RefuseInstall(t)
         \/ SaveMetadata(t) \/ (CloseTaken(t) /\ pc[t] = "closeOld")
  PROVE  LocksInv'
<1>. USE DEF GlobalsStay, manager, routing, choice, attempts, locks
<1>0. job[t] \in Jobs
  BY ActorTypes
<1>1. CASE Activate(t)
  BY <1>1, Goes, GoesNext DEF Activate, NextPlace
<1>2. CASE DialFails(t)
  <2>1. PICK p \in job[t].todo : job' = [job EXCEPT ![t].todo = @ \ {p}]
    BY <1>2 DEF DialFails
  <2>2. SameRole(job[t], job'[t]) /\ OthersStay(t) /\ pc[t] = "connect" /\ pc'[t] = "connect"
    BY <1>0, <1>2, <2>1, SameRoles DEF DialFails, TypeOK, GoroutineTypeOK, OthersStay
  <2>. QED  BY <1>2, <2>2, GoesNext DEF DialFails, NextPlace
<1>3. CASE DialSucceeds(t)
  <2>1. PICK p \in job[t].todo : job' = [job EXCEPT ![t].todo = @ \ {p}, ![t].protocol = p]
    BY <1>3 DEF DialSucceeds
  <2>2. SameRole(job[t], job'[t]) /\ OthersStay(t) /\ pc[t] = "connect" /\ pc'[t] \in {"probe", "ready"}
    BY <1>0, <1>3, <2>1, SameRoles DEF DialSucceeds, Goto, TypeOK, GoroutineTypeOK, OthersStay
  <2>. QED  BY <1>3, <2>2, GoesNext DEF DialSucceeds, NextPlace
<1>4. CASE ProbeSucceeds(t) \/ ProbeFails(t)
  BY <1>4, Goes, GoesNext DEF ProbeSucceeds, ProbeFails, NextPlace
<1>5. CASE ConnectFails(t)
  <2>1. pc[t] = "connect" /\ NextPlace(pc[t], AfterFailure(t), job[t]) /\ NextPlace(pc[t], "setError", job[t])
    BY <1>5, AfterPlaces DEF ConnectFails, NextPlace
  <2>. QED  BY <1>5, <2>1, Goes, GoesNext DEF ConnectFails
<1>6. CASE SetError(t)
  BY <1>6, Goes, GoesNext, AfterPlaces DEF SetError
<1>7. ASSUME Abandon(t), pc[t] \in {"ready", "install"} PROVE LocksInv'
  BY <1>7, Goes, GoesNext, AfterPlaces DEF Abandon
<1>8. CASE CheckContext(t)
  <2>1. CASE Abandon(t)
    BY <1>7, <1>8, <2>1 DEF CheckContext
  <2>2. CASE ~Abandon(t)
    BY <1>8, <2>2, Goes, GoesNext DEF CheckContext, NextPlace
  <2>. QED  BY <2>1, <2>2
<1>9. CASE RefuseInstall(t)
  BY <1>7, <1>9 DEF RefuseInstall
<1>10. CASE SaveMetadata(t)
  <2>1. PICK l : Goto(t, l) /\ NextPlace(pc[t], l, job[t])
    BY <1>10 DEF SaveMetadata, NextPlace, Saving
  <2>. QED  BY <1>10, <2>1, Goes, GoesNext DEF SaveMetadata
<1>11. CASE CloseTaken(t) /\ pc[t] = "closeOld"
  <2>1. Goto(t, "saveSelection") /\ UNCHANGED job /\ NextPlace(pc[t], "saveSelection", job[t])
    BY <1>11 DEF CloseTaken, NextPlace, Saving
  <2>. QED  BY <1>11, <2>1, Goes, GoesNext DEF CloseTaken
<1>. QED  BY <1>1, <1>2, <1>3, <1>4, <1>5, <1>6, <1>8, <1>9, <1>10, <1>11

\* switchAutomatic between its registration and its end, and failover up to
\* autoMu.
LEMMA SwitchGoesOn ==
  ASSUME TypeOK, HandsInv, LocksInv, NEW t \in Actors,
         \/ RankedNodes(t) \/ NextNode(t) \/ StopSwitch(t) \/ RecordError(t) \/ FailoverLock(t)
         \/ SetAutomatic(t) \/ StartSwitch(t)
  PROVE  LocksInv'
<1>. USE DEF GlobalsStay, manager, routing, choice, attempts, locks
<1>0. job[t] \in Jobs /\ Fits(pc[t], job[t])
  BY ActorTypes DEF LocksInv, RoleInv
<1>1. CASE RankedNodes(t)
  <2>1. CASE UNCHANGED job
    BY <1>1, <2>1, Goes, GoesNext DEF RankedNodes, NextPlace
  <2>2. CASE ~UNCHANGED job
    <3>1. PICK c : job' = [job EXCEPT ![t].candidates = c]
      BY <1>1, <2>2 DEF RankedNodes
    <3>2. SameRole(job[t], job'[t]) /\ OthersStay(t)
      BY <1>0, <1>1, <3>1, SameRoles DEF RankedNodes, Goto, TypeOK, GoroutineTypeOK, OthersStay
    <3>3. pc[t] = "rankedNodes" /\ pc'[t] \in {"nextNode", "endSwitch"}
      BY <1>1 DEF RankedNodes, Goto, TypeOK, GoroutineTypeOK
    <3>. QED  BY <1>1, <3>2, <3>3, GoesNext DEF RankedNodes, NextPlace
  <2>. QED  BY <2>1, <2>2
<1>2. CASE NextNode(t)
  <2>1. PICK n \in Untried(t) :
          job' = [job EXCEPT ![t].node = n, ![t].todo = Tries(job[t].candidates[n], None),
                             ![t].candidates = [@ EXCEPT ![n] = {}]]
    BY <1>2 DEF NextNode
  <2>2. /\ job'[t].kind = job[t].kind /\ job'[t].expected = job[t].expected
        /\ job'[t].installed = job[t].installed /\ job'[t].node = n /\ n # None
        /\ OthersStay(t) /\ pc[t] = "nextNode" /\ pc'[t] = "switchLock"
    BY <1>0, <1>2, <2>1, NamesAssumption
       DEF NextNode, Untried, Goto, TypeOK, GoroutineTypeOK, OthersStay, Jobs
  <2>3. Fits(pc'[t], job'[t])
    BY <1>0, <2>2 DEF Fits, SwitchKinds, Saving, Dialing
  <2>4. Continues(pc[t], job[t], pc'[t], job'[t])
    BY <1>0, <2>2 DEF Fits, Continues, Owns, Replaces, SwitchOwns, SwitchRuns, CandidateOwns,
                      CandidateRuns, SwitchKinds, Saving, Dialing
  <2>. QED  BY <1>0, <1>2, <2>2, <2>3, <2>4, GoesOn DEF NextNode, LocksInv, RoleInv
<1>3. CASE StopSwitch(t)
  BY <1>3, Goes, GoesNext DEF StopSwitch, NextPlace
<1>4. CASE RecordError(t)
  BY <1>4, Goes, GoesNext DEF RecordError, NextPlace
<1>5. CASE FailoverLock(t)
  BY <1>5, Goes, GoesNext DEF FailoverLock, NextPlace
<1>6. CASE SetAutomatic(t)
  BY <1>6, Goes, GoesNext DEF SetAutomatic, ForgetManual, NextPlace
<1>7. CASE StartSwitch(t)
  <2>1. /\ job'[t] = Job("auto", None, "auto", None, {}) /\ OthersStay(t)
        /\ pc[t] = "startSwitch" /\ pc'[t] \in {"autoLock", "runAsync"}
    BY <1>7 DEF StartSwitch, Goto, TypeOK, GoroutineTypeOK, OthersStay
  <2>2. job'[t].kind = "auto" /\ job'[t].installed = None /\ job[t].installed = None
    BY <2>1 DEF Job, HandsInv, Installing
  <2>3. Fits(pc'[t], job'[t]) /\ Free(t)
    BY <1>0, <2>1, <2>2 DEF Fits, Free, Owns, SwitchOwns, SwitchRuns, CandidateOwns,
                            CandidateRuns, SwitchKinds, Saving, Dialing
  <2>. QED  BY <1>7, <2>1, <2>2, <2>3, GoesFree DEF StartSwitch
<1>. QED  BY <1>1, <1>2, <1>3, <1>4, <1>5, <1>6, <1>7
-----------------------------------------------------------------------------
(* The steps that take or give back autoMu or a registration.               *)

\* A candidate takes its turn, or returns because there is a newer one.
LEMMA CandidateTurnKeeps ==
  ASSUME TypeOK, HandsInv, LocksInv, NEW t \in Actors, CandidateTurn(t) PROVE LocksInv'
<1>. USE DEF manager, routing, choice, attempts
<1>0. /\ pc[t] = "autoLock" /\ job[t].kind = "candidate" /\ autoMu = None
      /\ RoleInv(t) /\ RegisteredInv(t) /\ None \notin Actors
      /\ UNCHANGED <<session, node, connectingIP, cancelConnect, connectAttempt, cancelAutomatic>>
  BY NamesAssumption DEF CandidateTurn, LocksInv
<1>1. cancelAutomatic # t
  BY <1>0 DEF RegisteredInv
<1>2. CASE connectAttempt = job[t].attempt
  <2>1. autoMu' = t /\ pc'[t] = "switchLock" /\ job'[t] = job[t] /\ OthersStay(t)
    BY <1>2, Goes DEF CandidateTurn
  <2>2. RoleInv(t)'
    BY <1>0, <2>1 DEF RoleInv, Fits, Replaces, SwitchOwns, SwitchKinds, Saving, Dialing
  <2>3. RegisteredInv(t)'
    BY <1>0, <1>1, <2>1 DEF RegisteredInv, CandidateRuns, Dialing
  <2>4. StepOf(t) /\ MarkerInv'
    BY <1>0, <2>1 DEF StepOf, OthersStay, LocksInv, MarkerInv
  <2>. QED  BY <2>2, <2>3, <2>4, OthersKeep
<1>3. CASE connectAttempt # job[t].attempt
  <2>1. cancelConnect # t /\ Exit(t) /\ UNCHANGED autoMu
    BY <1>0, <1>3 DEF RegisteredInv, CandidateTurn
  <2>. QED  BY <1>0, <1>1, <2>1, Leaves DEF Installing
<1>. QED  BY <1>2, <1>3

\* A candidate that ends takes its registration back, unless a newer one has
\* replaced it.
LEMMA FinishKeeps ==
  ASSUME TypeOK, HandsInv, LocksInv, NEW t \in Actors, FinishConnectAttempt(t) PROVE LocksInv'
<1>0. /\ pc[t] \in {"finishConnected", "finishFailed"} /\ Exit(t)
      /\ UNCHANGED <<session, node, cancelAutomatic, connectAttempt>>
      /\ autoMu' = IF autoMu = t THEN None ELSE autoMu
      /\ RoleInv(t) /\ RegisteredInv(t) /\ None \notin Actors
  BY NamesAssumption DEF FinishConnectAttempt, LocksInv, routing, choice
<1>1. cancelAutomatic # t
  BY <1>0 DEF RegisteredInv, RoleInv, Fits, SwitchRuns, SwitchOwns, SwitchKinds
<1>2. \/ connectingIP' = None /\ cancelConnect' = None
      \/ cancelConnect # t /\ UNCHANGED <<connectingIP, cancelConnect, connectAttempt>>
  BY <1>0 DEF FinishConnectAttempt, RegisteredInv
<1>. QED  BY <1>0, <1>1, <1>2, Leaves DEF Installing

\* install puts the session in place with autoMu, or for Start.
LEMMA InstallKeeps ==
  ASSUME TypeOK, HandsInv, LocksInv, NEW t \in Actors, Install(t) PROVE LocksInv'
<1>0. /\ pc[t] = "install" /\ RoleInv(t) /\ RegisteredInv(t) /\ MarkerInv
      /\ held[t] # None /\ job[t] \in Jobs /\ job[t].installed = None
  BY ActorTypes DEF Install, LocksInv, HandsInv, Connected, Installing
<1>1. /\ session' = held[t] /\ node' = job[t].node
      /\ UNCHANGED <<autoMu, connectingIP, cancelConnect, connectAttempt, cancelAutomatic>>
  BY DEF Install, attempts, locks
<1>2. /\ job'[t] = [job[t] EXCEPT !.installed = held[t], !.generation = generation + 1]
      /\ OthersStay(t) /\ pc'[t] \in {"saveSelection", "closeOld"}
  BY DEF Install, Goto, TypeOK, GoroutineTypeOK, OthersStay
<1>3. /\ job'[t].kind = job[t].kind /\ job'[t].node = job[t].node
      /\ job'[t].attempt = job[t].attempt /\ job'[t].installed = held[t]
  BY <1>0, <1>2 DEF Jobs
<1>4. RoleInv(t)'
  <2>1. Fits(pc'[t], job'[t])
    BY <1>0, <1>2, <1>3 DEF RoleInv, Fits, Saving, Dialing
  <2>2. Owns(pc'[t], job'[t]) => Owns(pc[t], job[t])
    BY <1>0, <1>3 DEF Owns, SwitchOwns, CandidateOwns, Dialing
  <2>3. ~Replaces(pc'[t], job'[t])
    BY <1>0, <1>3 DEF Replaces
  <2>. QED  BY <1>0, <1>1, <1>3, <2>1, <2>2, <2>3 DEF RoleInv
<1>5. RegisteredInv(t)'
  BY <1>0, <1>1, <1>2, <1>3 DEF RegisteredInv, SwitchRuns, SwitchOwns, CandidateRuns, Saving, Dialing
<1>6. MarkerInv'
  BY <1>0, <1>1 DEF MarkerInv, RoleInv, Fits, Dialing
<1>7. Owns(pc[t], job[t]) \/ (t = Starter /\ session' = job'[t].installed)
  BY <1>0, <1>1, <1>3 DEF RoleInv, Fits, Owns, SwitchOwns, CandidateOwns, Dialing
<1>8. StepOf(t)
  BY <1>1, <1>2, <1>7 DEF StepOf, OthersStay
<1>. QED  BY <1>4, <1>5, <1>6, <1>8, OthersKeep

\* A switch registers itself once it has autoMu, or gives autoMu back because
\* of a pause.
LEMMA BeginSwitchKeeps ==
  ASSUME TypeOK, HandsInv, LocksInv, NEW t \in Actors, SwitchAutomatic(t) \/ SwitchAfterFailover(t)
  PROVE  LocksInv'
<1>0. /\ pc[t] \in {"autoLock", "switch"} /\ job[t].kind \in SwitchKinds /\ BeginSwitch(t)
      /\ pc[t] = "autoLock" => job[t].kind # "failover" /\ autoMu = None
      /\ RoleInv(t) /\ RegisteredInv(t) /\ MarkerInv /\ None \notin Actors
  BY NamesAssumption
     DEF SwitchAutomatic, SwitchAfterFailover, SwitchKinds, LocksInv, RoleInv, Fits
<1>1. UNCHANGED <<session, node, connectingIP, cancelConnect, connectAttempt>>
  BY <1>0 DEF BeginSwitch, routing, choice
<1>2. pc[t] = "switch" => autoMu = t
  BY <1>0 DEF RoleInv, Owns, SwitchOwns
<1>3. cancelConnect # t /\ cancelAutomatic # t
  BY <1>0 DEF RegisteredInv, SwitchKinds, CandidateRuns, SwitchRuns, SwitchOwns, Saving, Dialing
<1>4. CASE connectionPaused
  <2>1. Exit(t) /\ autoMu' = None /\ UNCHANGED cancelAutomatic
    BY <1>0, <1>4 DEF BeginSwitch
  <2>. QED  BY <1>0, <1>1, <1>2, <1>3, <2>1, Leaves DEF Installing
<1>5. CASE ~connectionPaused
  <2>1. /\ autoMu' = t /\ cancelAutomatic' = t /\ pc'[t] = "rankedNodes" /\ job'[t] = job[t]
        /\ OthersStay(t)
    BY <1>0, <1>5, Goes DEF BeginSwitch
  <2>2. Fits(pc'[t], job'[t])
    BY <1>0, <2>1 DEF RoleInv, Fits, SwitchKinds, Dialing, Saving
  <2>3. Replaces(pc'[t], job'[t]) => Replaces(pc[t], job[t])
    BY <1>0, <2>1 DEF Replaces, SwitchOwns
  <2>4. RoleInv(t)'
    BY <1>0, <1>1, <2>1, <2>2, <2>3 DEF RoleInv, OthersStay, Actors
  <2>5. RegisteredInv(t)'
    BY <1>0, <1>1, <1>3, <2>1 DEF RegisteredInv, SwitchRuns, SwitchOwns, Saving
  <2>6. StepOf(t) /\ MarkerInv'
    BY <1>0, <1>1, <1>2, <2>1 DEF StepOf, OthersStay, MarkerInv
  <2>. QED  BY <2>4, <2>5, <2>6, OthersKeep
<1>. QED  BY <1>4, <1>5

\* The end of a switch, which runs with autoMu.
LEMMA EndSwitchKeeps ==
  ASSUME TypeOK, HandsInv, LocksInv, NEW t \in Actors, EndSwitch(t) PROVE LocksInv'
<1>0. /\ pc[t] = "endSwitch" /\ Exit(t) /\ cancelAutomatic' = None /\ autoMu' = None
      /\ RoleInv(t) /\ RegisteredInv(t) /\ None \notin Actors
      /\ UNCHANGED <<session, node, connectingIP, cancelConnect, connectAttempt>>
  BY NamesAssumption DEF EndSwitch, LocksInv, routing, choice
<1>1. autoMu = t
  BY <1>0 DEF RoleInv, Fits, Owns, SwitchOwns
<1>2. cancelConnect # t
  BY <1>0 DEF RegisteredInv, CandidateRuns, Dialing, Saving
<1>. QED  BY <1>0, <1>1, <1>2, Leaves DEF Installing

\* failover, which compares the session while it holds autoMu.
LEMMA FailoverKeeps ==
  ASSUME TypeOK, HandsInv, LocksInv, NEW t \in Actors, Failover(t) PROVE LocksInv'
<1>0. /\ pc[t] = "failoverAuto" /\ autoMu = None /\ autoMu' = t /\ ~Outdated(t)
      /\ RoleInv(t) /\ RegisteredInv(t) /\ MarkerInv /\ None \notin Actors
      /\ UNCHANGED <<node, connectingIP, cancelConnect, connectAttempt, cancelAutomatic>>
  BY NamesAssumption DEF Failover, ForgetManual, LocksInv, attempts
<1>1. session' \in {None, session}
  BY DEF Failover
<1>2. pc'[t] \in {"saveSelection", "closeOld"} /\ job'[t] = job[t] /\ OthersStay(t)
  BY Goes DEF Failover
<1>3. job[t].kind = "failover" /\ job[t].installed = None
  BY <1>0 DEF RoleInv, Fits, HandsInv, Installing
<1>4. Replaces(pc'[t], job'[t]) => session = job[t].expected
  BY <1>0, <1>2 DEF Replaces, Outdated
<1>5. RoleInv(t)'
  BY <1>0, <1>1, <1>2, <1>3, <1>4 DEF RoleInv, Fits, SwitchKinds, Saving, Dialing
<1>6. RegisteredInv(t)'
  BY <1>0, <1>3 DEF RegisteredInv, CandidateRuns
<1>7. StepOf(t) /\ MarkerInv'
  BY <1>0, <1>1, <1>2 DEF StepOf, OthersStay, MarkerInv
<1>. QED  BY <1>5, <1>6, <1>7, OthersKeep

\* install's end starts a watcher: that goroutine and its own both go on.
LEMMA StartWatcherKeeps ==
  ASSUME TypeOK, HandsInv, WatcherInv, LocksInv, NEW t \in Actors, StartWatcher(t)
  PROVE  LocksInv'
<1>. DEFINE s == job[t].installed
<1>0. pc[t] = "startWatcher" /\ s \in Sessions /\ s \in Actors /\ pc[s] = "idle" /\ s # t
  BY ActorTypes, JobFields DEF StartWatcher, HandsInv, WatcherInv, Installing, Actors
<1>1. GlobalsStay /\ NextPlace(pc[t], AfterSuccess(t), job[t])
  BY <1>0, AfterPlaces DEF StartWatcher, GlobalsStay, manager, routing, choice, attempts
<1>2. CASE closing
  BY <1>1, <1>2, Goes, GoesNext DEF StartWatcher
<1>3. CASE ~closing
  <2>1. /\ pc' = [pc EXCEPT ![s] = "watch", ![t] = AfterSuccess(t)]
        /\ job' = [job EXCEPT ![s].kind = "failover", ![s].expected = s,
                              ![s].generation = job[t].generation]
    BY <1>3 DEF StartWatcher
  <2>2. /\ pc'[s] = "watch" /\ pc'[t] = AfterSuccess(t)
        /\ \A u \in Actors \ {s, t} : pc'[u] = pc[u]
        /\ \A u \in Actors \ {s} : job'[u] = job[u]
    BY <1>0, <2>1 DEF TypeOK, GoroutineTypeOK
  <2>3. /\ job'[s].kind = "failover" /\ job'[s].installed = job[s].installed
        /\ job[s].installed = None
    BY <1>0, <2>1 DEF TypeOK, GoroutineTypeOK, Jobs, HandsInv, Installing
  <2>4. Fits(pc'[s], job'[s]) /\ Continues(pc[s], job[s], pc'[s], job'[s])
    BY <1>0, <2>2, <2>3 DEF Fits, Continues, Owns, Replaces, SwitchOwns, SwitchRuns, CandidateOwns,
                            CandidateRuns, SwitchKinds, Saving, Dialing
  <2>5. /\ Fits(pc[t], job[t]) /\ (job[t].kind = "restore" => t = Starter)
        /\ job'[t] = job[t] /\ SameRole(job[t], job'[t])
    BY <1>0, <2>2 DEF LocksInv, RoleInv, SameRole
  <2>6. Fits(pc'[t], job'[t]) /\ Continues(pc[t], job[t], pc'[t], job'[t])
    BY <1>1, <2>2, <2>5, MovesContinue
  <2>. QED  BY <1>1, <2>2, <2>3, <2>4, <2>5, <2>6, AllGoOn
<1>. QED  BY <1>2, <1>3

\* A goroutine at one of these places is not registered, and needs no lock.
FreePlaces ==
  {"idle", "reconnectLookup", "resumeLookup", "startCandidate", "failover", "failoverAuto",
   "setAutomatic", "watch", "start", "restoreLookup", "restoreState", "replaceNodes",
   "afterRefresh", "lookupActive", "tick", "check", "off", "stopMonitor", "drop", "run",
   "cancelled", "stopHTTP", "stopServices", "stopBackground", "close", "takeSession",
   "closeSession", "waitAsync", "closeLate", "closed"}

\* Whatever the goroutine's job is.
LEMMA PlacesFree ==
  ASSUME NEW l \in FreePlaces, NEW j
  PROVE  ~SwitchRuns(l, j) /\ ~CandidateRuns(l, j) /\ ~Owns(l, j)
  BY DEF FreePlaces, SwitchRuns, CandidateRuns, Owns, SwitchOwns, CandidateOwns, Saving, Dialing

\* Nothing was installed by a goroutine at such a place.
LEMMA FreeHoldsNone ==
  ASSUME HandsInv, NEW t \in Actors, pc[t] \in FreePlaces PROVE job[t].installed = None
  BY DEF HandsInv, FreePlaces, Installing

\* A goroutine that returns from such a place.
LEMMA FreeLeaves ==
  ASSUME TypeOK, HandsInv, LocksInv, NEW t \in Actors, Exit(t), GlobalsStay, pc[t] \in FreePlaces
  PROVE  LocksInv'
  BY PlacesFree, LeavesQuietly DEF FreePlaces, Installing

\* A goroutine that moves from such a place to a place that needs no lock.
LEMMA FreeGoes ==
  ASSUME HandsInv, LocksInv, NEW t \in Actors, OthersStay(t), GlobalsStay, pc[t] \in FreePlaces,
         pc'[t] \in FreePlaces \cup {"runAsync", "autoLock"}, Fits(pc'[t], job'[t]),
         job'[t].installed = None, job'[t].kind = "restore" => t = Starter
  PROVE  LocksInv'
<1>1. ~Owns(pc'[t], job'[t])
  BY PlacesFree DEF Owns, SwitchOwns, CandidateOwns, Saving, Dialing
<1>2. Free(t)
  BY <1>1, PlacesFree DEF Free
<1>. QED  BY <1>2, GoesFree, FreeHoldsNone
-----------------------------------------------------------------------------
(* The steps of free goroutines.                                            *)

\* The watchers, failovers that are ignored, and the closing of a session that
\* a pause has taken.
LEMMA WatchersKeep ==
  ASSUME TypeOK, HandsInv, LocksInv, NEW t \in Actors,
         WatcherWakes(t) \/ IgnoreFailover(t) \/ (CloseTaken(t) /\ pc[t] # "closeOld")
  PROVE  LocksInv'
<1>. USE DEF GlobalsStay, manager, routing, choice, attempts, locks, FreePlaces
<1>1. CASE WatcherWakes(t)
  <2>1. CASE Exit(t)
    BY <1>1, <2>1, FreeLeaves DEF WatcherWakes
  <2>2. CASE ~Exit(t)
    <3>1. pc[t] = "watch" /\ Goto(t, "failover") /\ UNCHANGED job
      BY <1>1, <2>2 DEF WatcherWakes
    <3>2. Fits(pc[t], job[t]) /\ (job[t].kind = "restore" => t = Starter) /\ job[t].installed = None
      BY <3>1, FreeHoldsNone DEF LocksInv, RoleInv
    <3>3. Fits("failover", job[t])
      BY <3>1, <3>2 DEF Fits, Saving, Dialing
    <3>. QED  BY <1>1, <3>1, <3>2, <3>3, Goes, FreeGoes DEF WatcherWakes
  <2>. QED  BY <2>1, <2>2
<1>2. CASE IgnoreFailover(t)
  BY <1>2, FreeLeaves DEF IgnoreFailover
<1>3. CASE CloseTaken(t) /\ pc[t] # "closeOld"
  <2>1. CASE pc[t] = "drop"
    BY <1>3, <2>1, FreeLeaves DEF CloseTaken
  <2>2. CASE pc[t] # "drop"
    <3>1. /\ pc[t] \in {"closeSession", "closeLate"} /\ UNCHANGED job
          /\ \E l \in {"waitAsync", "closed"} : Goto(t, l)
      BY <1>3, <2>2 DEF CloseTaken
    <3>2. Fits(pc[t], job[t]) /\ (job[t].kind = "restore" => t = Starter) /\ job[t].installed = None
      BY <3>1, FreeHoldsNone DEF LocksInv, RoleInv
    <3>3. Fits("waitAsync", job[t]) /\ Fits("closed", job[t])
      BY <3>1, <3>2 DEF Fits, Saving, Dialing
    <3>. QED  BY <1>3, <3>1, <3>2, <3>3, Goes, FreeGoes DEF CloseTaken
  <2>. QED  BY <2>1, <2>2
<1>. QED  BY <1>1, <1>2, <1>3

\* startCandidate registers the newest candidate and forgets every other.
LEMMA StartCandidateKeeps ==
  ASSUME TypeOK, HandsInv, LocksInv, NEW t \in Actors, StartCandidate(t) PROVE LocksInv'
<1>0. /\ pc[t] = "startCandidate" /\ job[t] \in Jobs /\ RoleInv(t) /\ MarkerInv
      /\ job[t].kind = "candidate" /\ job[t].node # None /\ None \notin Actors
  BY ActorTypes, NamesAssumption DEF StartCandidate, LocksInv, RoleInv, Fits
<1>1. /\ UNCHANGED <<autoMu, session, node>> /\ cancelAutomatic' = None /\ cancelConnect' = t
      /\ connectAttempt' = connectAttempt + 1 /\ connectingIP' = job[t].node
  BY DEF StartCandidate, choice, locks
<1>2. /\ job'[t].kind = job[t].kind /\ job'[t].node = job[t].node
      /\ job'[t].installed = job[t].installed /\ job'[t].attempt = connectAttempt + 1
      /\ pc'[t] = "runAsync" /\ OthersStay(t)
  BY <1>0 DEF StartCandidate, Goto, TypeOK, GoroutineTypeOK, OthersStay, Jobs
<1>3. RoleInv(t)'
  BY <1>0, <1>2 DEF RoleInv, Fits, Replaces, Owns, SwitchOwns, CandidateOwns, SwitchKinds, Saving,
                    Dialing
<1>4. RegisteredInv(t)'
  BY <1>0, <1>1, <1>2 DEF RegisteredInv, CandidateRuns
<1>5. MarkerInv' /\ StepOf(t)
  BY <1>0, <1>1, <1>2 DEF MarkerInv, StepOf, OthersStay
<1>. QED  BY <1>3, <1>4, <1>5, OthersKeep

\* The lookup of a handler and what follows it, runAsync, and the refresher.
LEMMA TaskKeeps ==
  ASSUME TypeOK, HandsInv, LocksInv, NEW t \in Tasks, TaskStep(t), ~StartMonitor(t)
  PROVE  LocksInv'
<1>. USE DEF GlobalsStay, manager, routing, choice, attempts, locks
<1>0. /\ t \in Actors /\ job[t] \in Jobs /\ Fits(pc[t], job[t])
      /\ (job[t].kind = "restore" => t = Starter)
  BY ActorTypes DEF Actors, LocksInv, RoleInv
<1>a. ASSUME NEW found, NEW missing, Lookup(t, found, missing), GlobalsStay,
             \/ pc[t] = "reconnectLookup" /\ found = "startCandidate" /\ missing = "idle"
             \/ pc[t] = "resumeLookup" /\ found = "startCandidate" /\ missing = "setAutomatic"
      PROVE  LocksInv'
  <2>0. pc[t] \in FreePlaces /\ job[t].kind \in {"candidate", "resume"} /\ job[t].node # None
        /\ job[t].installed = None
    BY <1>0, <1>a, FreeHoldsNone DEF FreePlaces, Fits
  <2>1. CASE Exit(t)
    BY <1>0, <1>a, <2>0, <2>1, FreeLeaves
  <2>2. CASE store[job[t].node] # {}
    <3>1. /\ job' = [job EXCEPT ![t].kind = "candidate",
                                ![t].todo = Tries(store[job[t].node], job[t].forced)]
          /\ Goto(t, "startCandidate")
      BY <1>a, <2>2 DEF Lookup
    <3>2. /\ pc'[t] = "startCandidate" /\ job'[t].kind = "candidate" /\ job'[t].node = job[t].node
          /\ job'[t].installed = None /\ OthersStay(t)
      BY <1>0, <2>0, <3>1 DEF Goto, TypeOK, GoroutineTypeOK, OthersStay, Jobs
    <3>3. Fits(pc'[t], job'[t])
      BY <2>0, <3>2 DEF Fits, Saving, Dialing
    <3>. QED  BY <1>0, <1>a, <2>0, <3>2, <3>3, FreeGoes DEF FreePlaces
  <2>3. CASE store[job[t].node] = {} /\ ~Exit(t)
    <3>1. Goto(t, "setAutomatic") /\ UNCHANGED job /\ pc[t] = "resumeLookup"
      BY <1>a, <2>3 DEF Lookup
    <3>2. Fits("setAutomatic", job[t])
      BY <1>0, <2>0, <3>1 DEF Fits, Saving, Dialing
    <3>. QED  BY <1>0, <1>a, <2>0, <3>1, <3>2, Goes, FreeGoes DEF FreePlaces
  <2>. QED  BY <2>1, <2>2, <2>3
<1>1. CASE ReconnectLookup(t) \/ ResumeLookup(t)
  BY <1>1, <1>a DEF ReconnectLookup, ResumeLookup
<1>2. CASE RejectCandidate(t)
  BY <1>0, <1>2, FreeLeaves DEF RejectCandidate, FreePlaces
<1>3. CASE StartCandidate(t)
  BY <1>0, <1>3, StartCandidateKeeps
<1>4. CASE RunAsync(t)
  BY <1>0, <1>4, Goes, GoesNext DEF RunAsync, NextPlace
<1>5. CASE RefuseAsync(t)
  <2>1. CASE job[t].kind = "candidate"
    BY <1>0, <1>5, <2>1, Goes, GoesNext DEF RefuseAsync, NextPlace
  <2>2. CASE job[t].kind # "candidate"
    <3>1. pc[t] = "runAsync" /\ Exit(t)
      BY <1>5, <2>2 DEF RefuseAsync
    <3>2. ~SwitchRuns(pc[t], job[t]) /\ ~CandidateRuns(pc[t], job[t])
      BY <2>2, <3>1 DEF SwitchRuns, SwitchOwns, CandidateRuns, Saving, Dialing
    <3>. QED  BY <1>0, <1>5, <3>1, <3>2, LeavesQuietly DEF RefuseAsync, Installing
  <2>. QED  BY <2>1, <2>2
<1>6. CASE ReplaceNodes(t)
  <2>1. CASE appDone
    BY <1>0, <1>6, <2>1, FreeLeaves DEF ReplaceNodes, FreePlaces
  <2>2. CASE ~appDone
    <3>1. /\ pc[t] = "replaceNodes" /\ pc'[t] = "afterRefresh" /\ OthersStay(t)
          /\ job'[t] = Job("refresh", None, "auto", None, {})
      BY <1>0, <1>6, <2>2 DEF ReplaceNodes, Goto, TypeOK, GoroutineTypeOK, OthersStay
    <3>2. job'[t].kind = "refresh" /\ job'[t].installed = None
      BY <3>1 DEF Job
    <3>3. Fits(pc'[t], job'[t])
      BY <3>1, <3>2 DEF Fits, Saving, Dialing
    <3>. QED  BY <1>0, <1>6, <3>1, <3>2, <3>3, FreeGoes DEF ReplaceNodes, FreePlaces
  <2>. QED  BY <2>1, <2>2
<1>b. ASSUME NEW k, NEW n, GlobalsStay, pc[t] \in {"afterRefresh", "lookupActive"},
             \/ Goto(t, "runAsync") /\ job' = [job EXCEPT ![t].kind = k] /\ k \in {"follow", "failover"}
             \/ Goto(t, "lookupActive") /\ job' = [job EXCEPT ![t].node = n]
      PROVE  LocksInv'
  <2>1. job[t].kind = "refresh" /\ job[t].installed = None
    BY <1>0, <1>b, FreeHoldsNone DEF Fits, FreePlaces
  <2>2. /\ OthersStay(t) /\ job'[t].installed = None
        /\ \/ pc'[t] = "runAsync" /\ job'[t].kind \in {"follow", "failover"}
           \/ pc'[t] = "lookupActive" /\ job'[t].kind = "refresh"
    BY <1>0, <1>b, <2>1 DEF Goto, TypeOK, GoroutineTypeOK, OthersStay, Jobs
  <2>3. Fits(pc'[t], job'[t])
    BY <2>2 DEF Fits, SwitchKinds, Saving, Dialing
  <2>. QED  BY <1>0, <1>b, <2>2, <2>3, FreeGoes DEF FreePlaces
<1>7. CASE AfterRefresh(t)
  <2>1. CASE Exit(t)
    BY <1>0, <1>7, <2>1, FreeLeaves DEF AfterRefresh, FreePlaces
  <2>2. CASE ~Exit(t)
    <3>1. \/ Goto(t, "runAsync") /\ job' = [job EXCEPT ![t].kind = "follow"]
          \/ Goto(t, "lookupActive") /\ job' = [job EXCEPT ![t].node = node]
      BY <1>7, <2>2 DEF AfterRefresh
    <3>. QED  BY <1>7, <3>1, <1>b DEF AfterRefresh
  <2>. QED  BY <2>1, <2>2
<1>8. CASE LookupActive(t)
  <2>1. CASE Exit(t)
    BY <1>0, <1>8, <2>1, FreeLeaves DEF LookupActive, FreePlaces
  <2>2. CASE ~Exit(t)
    <3>1. Goto(t, "runAsync") /\ job' = [job EXCEPT ![t].kind = "failover"]
      BY <1>8, <2>2 DEF LookupActive
    <3>. QED  BY <1>8, <3>1, <1>b DEF LookupActive
  <2>. QED  BY <2>1, <2>2
<1>. QED  BY <1>1, <1>2, <1>3, <1>4, <1>5, <1>6, <1>7, <1>8 DEF TaskStep

\* Restart of the health-check loop starts it again and returns.
LEMMA StartMonitorKeeps ==
  ASSUME TypeOK, HandsInv, LocksInv, NEW t \in Tasks, StartMonitor(t) PROVE LocksInv'
<1>0. /\ t \in Actors /\ Monitor \in Actors /\ t # Monitor
      /\ pc[t] = "stopMonitor" /\ pc[Monitor] = "off"
  BY NamesAssumption DEF StartMonitor, Actors
<1>1. /\ pc'[t] = "idle" /\ pc'[Monitor] = "idle"
      /\ \A u \in Actors \ {t, Monitor} : pc'[u] = pc[u]
      /\ job'[t] = NoJob /\ \A u \in Actors \ {t} : job'[u] = job[u]
  BY <1>0 DEF StartMonitor, TypeOK, GoroutineTypeOK
<1>2. /\ job[t].installed = None /\ job[Monitor].installed = None
      /\ NoJob.installed = None /\ NoJob.kind = "none"
  BY <1>0, FreeHoldsNone DEF FreePlaces, NoJob, Job
<1>3. \A u \in {t, Monitor} : /\ Continues(pc[u], job[u], pc'[u], job'[u])
                              /\ Fits(pc[u], job[u]) /\ (job[u].kind = "restore" => u = Starter)
  BY <1>0, <1>1, PlacesFree DEF Continues, Replaces, Owns, FreePlaces, LocksInv, RoleInv
<1>4. Fits(pc'[t], job'[t]) /\ Fits(pc'[Monitor], job'[Monitor])
  BY <1>0, <1>1, <1>2, <1>3 DEF Fits, Saving, Dialing
<1>5. GlobalsStay
  BY DEF StartMonitor, GlobalsStay, manager, routing, choice, attempts, locks
<1>. QED  BY <1>0, <1>1, <1>2, <1>3, <1>4, <1>5, AllGoOn

\* SetDirectMode(true) and Close take every registration away.
LEMMA CancelAllKeeps ==
  ASSUME LocksInv, NEW t \in Actors, OthersStay(t), pc[t] \in FreePlaces, pc'[t] \in FreePlaces,
         Fits(pc'[t], job'[t]), job'[t].installed = job[t].installed, job'[t].kind = "restore" => t = Starter,
         UNCHANGED <<autoMu, node>>, session' = None,
         \/ connectingIP' = None /\ cancelConnect' = None /\ cancelAutomatic' = None
         \/ UNCHANGED <<connectingIP, cancelConnect, cancelAutomatic, connectAttempt>>
  PROVE  LocksInv'
<1>0. RoleInv(t) /\ RegisteredInv(t) /\ MarkerInv /\ None \notin Actors
  BY NamesAssumption DEF LocksInv
<1>1. /\ ~SwitchRuns(pc[t], job[t]) /\ ~CandidateRuns(pc[t], job[t])
      /\ ~Owns(pc'[t], job'[t])
  BY PlacesFree
<1>2. RoleInv(t)'
  BY <1>1 DEF RoleInv, Replaces, Owns
<1>3. RegisteredInv(t)'
  BY <1>0, <1>1 DEF RegisteredInv
<1>4. MarkerInv' /\ StepOf(t)
  BY <1>0 DEF MarkerInv, StepOf, OthersStay
<1>. QED  BY <1>2, <1>3, <1>4, OthersKeep

\* The first step of every request, of a refresh, and a restart that gives up.
LEMMA HandlerKeeps ==
  ASSUME TypeOK, HandsInv, LocksInv, NEW t \in Tasks,
         HandlerStarts(t) \/ FetchNodes(t) \/ RestartTimesOut(t)
  PROVE  LocksInv'
<1>. USE DEF GlobalsStay, manager, routing, choice, attempts, locks
<1>0. t \in Actors /\ job[t] \in Jobs /\ None \notin Nodes
  BY ActorTypes, NamesAssumption DEF Actors
<1>1. HandlerStarts(t) \/ FetchNodes(t) => pc[t] = "idle"
  BY DEF HandlerStarts, Arrives, FetchNodes
<1>2. pc[t] = "idle" => pc[t] \in FreePlaces /\ job[t].installed = None /\ Fits(pc[t], job[t])
                        /\ (job[t].kind = "restore" => t = Starter)
  BY <1>0, FreeHoldsNone DEF FreePlaces, LocksInv, RoleInv
<1>a. ASSUME NEW l \in FreePlaces \cup {"runAsync", "autoLock"}, Goto(t, l), GlobalsStay, pc[t] = "idle",
             OthersStay(t), Fits(l, job'[t]), job'[t].installed = None, job'[t].kind # "restore"
      PROVE  LocksInv'
  <2>1. pc'[t] = l
    BY <1>0, <1>a DEF Goto, TypeOK, GoroutineTypeOK
  <2>. QED  BY <1>0, <1>2, <1>a, <2>1, FreeGoes
<1>3. CASE HandlerStarts(t) /\ SelectManual(t)
  <2>1. PICK n \in Listed, forced \in Protocols \cup {None} :
          job' = [job EXCEPT ![t] = Job("candidate", n, "manual", forced, Tries(store[n], forced))]
    BY <1>3 DEF SelectManual
  <2>2. /\ OthersStay(t) /\ job'[t].kind = "candidate" /\ job'[t].node # None
        /\ job'[t].installed = None
    BY <1>0, <1>3, <2>1 DEF SelectManual, Goto, TypeOK, GoroutineTypeOK, OthersStay, Job, Listed
  <2>3. Fits("startCandidate", job'[t])
    BY <2>2 DEF Fits, Saving, Dialing
  <2>. QED  BY <1>1, <1>3, <1>a, <2>2, <2>3 DEF SelectManual, FreePlaces
<1>4. CASE HandlerStarts(t) /\ ReconnectCurrent(t)
  <2>1. /\ OthersStay(t) /\ job'[t].kind = "candidate" /\ job'[t].node = node
        /\ job'[t].installed = None /\ node # None
    BY <1>0, <1>4 DEF ReconnectCurrent, Goto, TypeOK, GoroutineTypeOK, OthersStay, Job, LocksInv,
                      MarkerInv
  <2>2. Fits("reconnectLookup", job'[t])
    BY <2>1 DEF Fits, Saving, Dialing
  <2>. QED  BY <1>1, <1>4, <1>a, <2>1, <2>2 DEF ReconnectCurrent, FreePlaces
<1>5. CASE HandlerStarts(t) /\ PauseConnection(t)
  <2>1. /\ OthersStay(t) /\ pc'[t] = "drop" /\ job'[t].kind = "pause"
        /\ job'[t].installed = job[t].installed
    BY <1>0, <1>5 DEF PauseConnection, Goto, TypeOK, GoroutineTypeOK, OthersStay, Jobs
  <2>2. Fits(pc'[t], job'[t])
    BY <1>1, <1>2, <1>5, <2>1 DEF Fits, Saving, Dialing
  <2>. QED
    BY <1>0, <1>1, <1>2, <1>5, <2>1, <2>2, CancelAllKeeps DEF PauseConnection, FreePlaces
<1>6. CASE HandlerStarts(t) /\ ResumeConnection(t)
  <2>1. GlobalsStay
    BY <1>6 DEF ResumeConnection
  <2>2. CASE job' = [job EXCEPT ![t] = Job("resume", manualIP, "manual", manualProtocol, {})]
             /\ manualIP # None /\ Goto(t, "resumeLookup")
    <3>1. /\ OthersStay(t) /\ job'[t].kind = "resume" /\ job'[t].node # None
          /\ job'[t].installed = None
      BY <1>0, <2>2 DEF Goto, TypeOK, GoroutineTypeOK, OthersStay, Job
    <3>2. Fits("resumeLookup", job'[t])
      BY <3>1 DEF Fits, Saving, Dialing
    <3>. QED  BY <1>1, <1>6, <1>a, <2>1, <2>2, <3>1, <3>2 DEF FreePlaces
  <2>3. CASE job' = [job EXCEPT ![t].kind = "auto"] /\ Goto(t, "runAsync")
    <3>1. OthersStay(t) /\ job'[t].kind = "auto" /\ job'[t].installed = None
      BY <1>0, <1>1, <1>2, <1>6, <2>3 DEF Goto, TypeOK, GoroutineTypeOK, OthersStay, Jobs
    <3>2. Fits("runAsync", job'[t])
      BY <3>1 DEF Fits, SwitchKinds, Saving, Dialing
    <3>. QED  BY <1>1, <1>6, <1>a, <2>1, <2>3, <3>1, <3>2 DEF FreePlaces
  <2>. QED  BY <1>6, <2>2, <2>3 DEF ResumeConnection
<1>7. CASE HandlerStarts(t) /\ RestartMonitor(t)
  <2>1. OthersStay(t) /\ job'[t].kind = "restart" /\ job'[t].installed = None
    BY <1>0, <1>1, <1>2, <1>7 DEF RestartMonitor, Goto, TypeOK, GoroutineTypeOK, OthersStay, Jobs
  <2>2. Fits("stopMonitor", job'[t])
    BY <2>1 DEF Fits, Saving, Dialing
  <2>. QED  BY <1>1, <1>7, <1>a, <2>1, <2>2 DEF RestartMonitor, FreePlaces
<1>8. CASE FetchNodes(t)
  <2>1. PICK snapshot : job' = [job EXCEPT ![t].kind = "refresh", ![t].node = PreservedIP,
                                           ![t].candidates = snapshot]
    BY <1>8 DEF FetchNodes
  <2>2. OthersStay(t) /\ job'[t].kind = "refresh" /\ job'[t].installed = None
    BY <1>0, <1>1, <1>2, <1>8, <2>1
       DEF FetchNodes, Goto, TypeOK, GoroutineTypeOK, OthersStay, Jobs
  <2>3. Fits("replaceNodes", job'[t])
    BY <2>2 DEF Fits, Saving, Dialing
  <2>4. Goto(t, "replaceNodes") /\ GlobalsStay
    BY <1>8 DEF FetchNodes
  <2>. QED  BY <1>1, <1>8, <1>a, <2>2, <2>3, <2>4 DEF FreePlaces
<1>9. CASE RestartTimesOut(t)
  BY <1>0, <1>9, FreeLeaves DEF RestartTimesOut, FreePlaces
<1>. QED  BY <1>3, <1>4, <1>5, <1>6, <1>7, <1>8, <1>9 DEF HandlerStarts

\* Start, which alone works on a job of kind "restore".
LEMMA StartKeeps ==
  ASSUME TypeOK, HandsInv, LocksInv, StartStep PROVE LocksInv'
<1>. USE DEF GlobalsStay, manager, routing, choice, attempts, locks
<1>0. /\ Starter \in Actors /\ job[Starter] \in Jobs /\ Fits(pc[Starter], job[Starter])
      /\ pc[Starter] \in {"start", "restoreLookup", "restoreState"} => job[Starter].installed = None
  BY ActorTypes, FreeHoldsNone DEF Actors, LocksInv, RoleInv, FreePlaces
<1>1. CASE Start
  <2>1. pc[Starter] = "start" /\ GlobalsStay
    BY <1>1 DEF Start
  <2>2. CASE job' = [job EXCEPT ![Starter] = Job("restore", manualIP, "manual", manualProtocol, {})]
             /\ manualIP # None /\ Goto(Starter, "restoreLookup")
    <3>1. /\ OthersStay(Starter) /\ job'[Starter].kind = "restore" /\ job'[Starter].node # None
          /\ job'[Starter].installed = None /\ pc'[Starter] = "restoreLookup"
      BY <1>0, <2>2 DEF Goto, TypeOK, GoroutineTypeOK, OthersStay, Job
    <3>2. Fits(pc'[Starter], job'[Starter])
      BY <3>1 DEF Fits, Saving, Dialing
    <3>. QED  BY <1>0, <2>1, <3>1, <3>2, FreeGoes DEF FreePlaces
  <2>3. CASE job' = [job EXCEPT ![Starter].kind = "auto"] /\ Goto(Starter, "autoLock")
    <3>1. /\ OthersStay(Starter) /\ job'[Starter].kind = "auto" /\ job'[Starter].installed = None
          /\ pc'[Starter] = "autoLock"
      BY <1>0, <2>1, <2>3 DEF Goto, TypeOK, GoroutineTypeOK, OthersStay, Jobs
    <3>2. Fits(pc'[Starter], job'[Starter])
      BY <3>1 DEF Fits, SwitchKinds, Saving, Dialing
    <3>. QED  BY <1>0, <2>1, <3>1, <3>2, FreeGoes DEF FreePlaces
  <2>. QED  BY <1>1, <2>2, <2>3 DEF Start
<1>2. CASE RestoreLookup
  <2>1. /\ pc[Starter] = "restoreLookup" /\ job[Starter].kind = "restore"
        /\ job[Starter].node # None /\ GlobalsStay
    BY <1>0, <1>2 DEF RestoreLookup, Fits
  <2>2. /\ OthersStay(Starter) /\ pc'[Starter] \in {"setAutomatic", "restoreState"}
        /\ job'[Starter].kind = "restore" /\ job'[Starter].node # None
        /\ job'[Starter].installed = None
    BY <1>0, <1>2, <2>1 DEF RestoreLookup, Goto, TypeOK, GoroutineTypeOK, OthersStay, Jobs
  <2>3. Fits(pc'[Starter], job'[Starter])
    BY <2>2 DEF Fits, Saving, Dialing
  <2>. QED  BY <1>0, <2>1, <2>2, <2>3, FreeGoes DEF FreePlaces
<1>3. CASE RestoreState
  <2>1. /\ pc[Starter] = "restoreState" /\ job[Starter].kind = "restore"
        /\ job[Starter].node # None /\ GlobalsStay
    BY <1>0, <1>3 DEF RestoreState, Fits
  <2>2. OthersStay(Starter) /\ pc'[Starter] = "switchLock" /\ job'[Starter] = job[Starter]
    BY <1>0, <1>3, Goes DEF RestoreState
  <2>3. Fits(pc'[Starter], job'[Starter]) /\ Free(Starter)
    BY <1>0, <2>1, <2>2, PlacesFree
       DEF Fits, Free, Owns, SwitchOwns, CandidateOwns, SwitchKinds, Saving, Dialing, FreePlaces
  <2>. QED  BY <1>0, <2>1, <2>2, <2>3, GoesFree
<1>. QED  BY <1>1, <1>2, <1>3 DEF StartStep

\* The health-check loop.
LEMMA MonitorKeeps ==
  ASSUME TypeOK, HandsInv, LocksInv, MonitorTick \/ MonitorStep PROVE LocksInv'
<1>. USE DEF GlobalsStay, manager, routing, choice, attempts, locks
<1>0. /\ Monitor \in Actors /\ Monitor # Starter /\ job[Monitor] \in Jobs
      /\ Fits(pc[Monitor], job[Monitor])
      /\ job[Monitor].kind # "restore"
  BY ActorTypes DEF Actors, Monitor, Starter, LocksInv, RoleInv
<1>1. pc[Monitor] \in {"idle", "tick", "check"} => pc[Monitor] \in FreePlaces /\ job[Monitor].installed = None
  BY <1>0, FreeHoldsNone DEF FreePlaces
<1>a. ASSUME NEW l \in {"tick", "check", "off", "failover"}, Goto(Monitor, l), UNCHANGED job, GlobalsStay,
             pc[Monitor] \in {"idle", "tick", "check"}, l = "failover" => pc[Monitor] = "check", l # "check"
      PROVE  LocksInv'
  <2>1. Fits(l, job[Monitor])
    BY <1>0, <1>1, <1>a DEF Fits, Saving, Dialing
  <2>. QED  BY <1>0, <1>1, <1>a, <2>1, Goes, FreeGoes DEF FreePlaces
<1>2. CASE MonitorTick
  BY <1>2, <1>a DEF MonitorTick
<1>3. CASE CheckFails
  BY <1>3, <1>a DEF CheckFails
<1>4. CASE MonitorExits
  BY <1>4, <1>a DEF MonitorExits
<1>5. CASE CheckPasses
  BY <1>0, <1>5, FreeLeaves DEF CheckPasses, FreePlaces
<1>6. CASE CheckSession
  <2>1. CASE Exit(Monitor)
    BY <1>0, <1>6, <2>1, FreeLeaves DEF CheckSession, FreePlaces
  <2>2. CASE ~Exit(Monitor)
    <3>1. /\ pc[Monitor] = "tick" /\ Goto(Monitor, "check") /\ GlobalsStay
          /\ job' = [job EXCEPT ![Monitor].kind = "failover", ![Monitor].expected = session]
      BY <1>6, <2>2 DEF CheckSession
    <3>2. /\ OthersStay(Monitor) /\ pc'[Monitor] = "check" /\ job'[Monitor].kind = "failover"
          /\ job'[Monitor].installed = None
      BY <1>0, <1>1, <3>1 DEF Goto, TypeOK, GoroutineTypeOK, OthersStay, Jobs
    <3>3. Fits(pc'[Monitor], job'[Monitor])
      BY <3>2 DEF Fits, Saving, Dialing
    <3>. QED  BY <1>0, <1>1, <3>1, <3>2, <3>3, FreeGoes DEF FreePlaces
  <2>. QED  BY <2>1, <2>2
<1>. QED  BY <1>2, <1>3, <1>4, <1>5, <1>6 DEF MonitorStep

\* The main goroutine.
LEMMA CloserKeeps ==
  ASSUME TypeOK, HandsInv, LocksInv, CancelApp \/ ShutdownStep PROVE LocksInv'
<1>. USE DEF manager, routing, choice, attempts, locks
<1>0. /\ Closer \in Actors /\ Closer # Starter /\ job[Closer] \in Jobs
      /\ Fits(pc[Closer], job[Closer]) /\ job[Closer].kind # "restore"
  BY ActorTypes DEF Actors, Closer, Starter, LocksInv, RoleInv
<1>1. PICK l \in {"cancelled", "stopHTTP", "stopServices", "stopBackground", "close", "takeSession",
                  "closeSession", "closeLate"} :
        /\ Goto(Closer, l) /\ UNCHANGED job
        /\ pc[Closer] \in {"run", "cancelled", "stopHTTP", "stopServices", "stopBackground",
                           "close", "takeSession", "waitAsync"}
  BY DEF CancelApp, ShutdownStep, StopListening, HTTPStopped, ServicesStopped, BackgroundStopped,
         Shutdown, Close, TakeSession, TakeLateSession
<1>2. /\ pc[Closer] \in FreePlaces /\ pc'[Closer] = l /\ l \in FreePlaces
      /\ job'[Closer] = job[Closer] /\ OthersStay(Closer) /\ job[Closer].installed = None
  BY <1>0, <1>1, Goes, FreeHoldsNone DEF FreePlaces
<1>3. Fits(pc'[Closer], job'[Closer])
  BY <1>0, <1>1, <1>2 DEF Fits, Saving, Dialing
<1>4. CASE GlobalsStay
  BY <1>0, <1>2, <1>3, <1>4, FreeGoes
<1>5. CASE TakeSession \/ TakeLateSession
  <2>1. /\ UNCHANGED <<autoMu, node>> /\ session' = None
        /\ \/ connectingIP' = None /\ cancelConnect' = None /\ cancelAutomatic' = None
           \/ UNCHANGED <<connectingIP, cancelConnect, cancelAutomatic, connectAttempt>>
    BY <1>5 DEF TakeSession, TakeLateSession
  <2>. QED  BY <1>0, <1>2, <1>3, <2>1, CancelAllKeeps
<1>. QED
  BY <1>4, <1>5 DEF CancelApp, ShutdownStep, StopListening, HTTPStopped, ServicesStopped,
     BackgroundStopped, Shutdown, Close, GlobalsStay

\* A step that changes none of it preserves LocksInv.
LEMMA LocksUnchanged ==
  ASSUME LocksInv, UNCHANGED <<pc, job, autoMu, attempts, session, node>> PROVE LocksInv'
<1>1. GlobalsStay /\ \A u \in Actors : pc'[u] = pc[u] /\ job'[u] = job[u]
  BY DEF GlobalsStay
<1>. QED  BY <1>1, AllGoOn

\* Every step of the specification preserves LocksInv.
LEMMA LocksStep ==
  ASSUME Inv, LocksInv, [Next]_vars PROVE LocksInv'
<1>0. TypeOK /\ HandsInv /\ WatcherInv
  BY DEF Inv
<1>1. ASSUME UNCHANGED vars PROVE LocksInv'
  BY <1>1, LocksUnchanged DEF vars, managerVars, manager, routing, choice, locks
<1>2. ASSUME NEW a \in Actors, GoroutineStep(a) PROVE LocksInv'
  <2>1. CASE ConnectStep(a)
    BY <1>0, <2>1, CandidateTurnKeeps, FinishKeeps, ConnectGoesOn, InstallKeeps, WatchersKeep,
       StartWatcherKeeps DEF ConnectStep
  <2>2. CASE SwitchStep(a)
    BY <1>0, <2>2, BeginSwitchKeeps, SwitchGoesOn, EndSwitchKeeps, WatchersKeep, FailoverKeeps
       DEF SwitchStep
  <2>3. CASE a \in Tasks /\ TaskStep(a)
    BY <1>0, <2>3, TaskKeeps, StartMonitorKeeps
  <2>4. CASE a \in Sessions /\ WatcherWakes(a)
    BY <1>0, <2>4, WatchersKeep
  <2>. QED  BY <1>2, <2>1, <2>2, <2>3, <2>4 DEF GoroutineStep
<1>3. ASSUME NEW t \in Tasks, HandlerStarts(t) \/ FetchNodes(t) \/ RestartTimesOut(t) PROVE LocksInv'
  BY <1>0, <1>3, HandlerKeeps
<1>4. ASSUME StartStep \/ MonitorTick \/ MonitorStep PROVE LocksInv'
  BY <1>0, <1>4, StartKeeps, MonitorKeeps
<1>5. ASSUME CancelApp \/ ShutdownStep PROVE LocksInv'
  BY <1>0, <1>5, CloserKeeps
<1>6. ASSUME ShutdownExpires \/ \E s \in Sessions : TunnelEnds(s) PROVE LocksInv'
  BY <1>6, LocksUnchanged
     DEF ShutdownExpires, TunnelEnds, managerVars, manager, routing, choice, attempts, locks
<1>. QED  BY <1>1, <1>2, <1>3, <1>4, <1>5, <1>6 DEF Next, AtRest

\* LocksInv holds when the program starts.
LEMMA LocksInit == Init => LocksInv
<1>. SUFFICES ASSUME Init PROVE LocksInv
  OBVIOUS
<1>1. /\ \A a \in Actors : pc[a] \in {"start", "run", "idle"} /\ job[a] = NoJob
      /\ connectingIP = None /\ cancelConnect = None /\ cancelAutomatic = None /\ session = None
      /\ NoJob.kind = "none" /\ NoJob.installed = None /\ None \notin Actors
  BY NamesAssumption DEF Init, NewManager, NoJob, Job, Starter, Closer
<1>2. MarkerInv
  BY <1>1 DEF MarkerInv
<1>3. ASSUME NEW a \in Actors PROVE RoleInv(a) /\ RegisteredInv(a)
  <2>1. Fits(pc[a], job[a])
    BY <1>1 DEF Fits, Saving, Dialing
  <2>2. ~Owns(pc[a], job[a])
    BY <1>1, PlacesFree DEF FreePlaces
  <2>. QED  BY <1>1, <2>1, <2>2 DEF RoleInv, RegisteredInv, Replaces, Owns
<1>. QED  BY <1>2, <1>3 DEF LocksInv
-----------------------------------------------------------------------------
(* The shutdown: what is running at each stage of it.                       *)

RefreshKinds == {"refresh", "follow", "failover"}

\* A step of a goroutine other than the main one: it returns, goes on, or joins
\* the goroutines that Close waits for.
Works(a) ==
  /\ OthersStay(a) /\ UNCHANGED expired
  /\ a # Closer /\ pc[a] \notin {"done", "off"}
  /\ pc[a] = "idle" => a = Monitor \/ (a \in Tasks /\ pc[Closer] \notin FromServices)
  /\ session' \in {None, session} \/ pc[a] = "install"
  /\ pc'[a] \notin Main
  /\ \/ Exit(a)
     \/ /\ UNCHANGED async /\ pc'[a] # "idle"
        /\ \/ pc[a] = "idle"
           \/ /\ pc'[a] # "stopMonitor"
              /\ a \in Tasks => (job'[a].kind \in RefreshKinds <=> job[a].kind \in RefreshKinds)
     \/ a \in Tasks /\ async' = async \cup {a} /\ pc'[a] \notin {"idle", "stopMonitor"}

\* Nobody works any more when async.Wait has returned in time.
LEMMA NobodyWorks ==
  ASSUME EndInv, ~expired, pc[Closer] \in FromWait, NEW a \in Actors, a # Closer
  PROVE  pc[a] \in {"idle", "done", "off"} /\ (pc[a] = "idle" => a \in Tasks \cup Sessions)
<1>1. pc[Closer] \in FromServices /\ pc[Closer] \in FromBackground /\ pc[Closer] \in FromClose
  BY DEF FromServices, FromBackground, FromClose, FromWait, Closing
<1>2. /\ async = {} /\ pc[Monitor] = "off" /\ pc[Starter] = "done"
      /\ \A t \in Tasks : pc[t] = "idle" /\ ~Refreshing(t)
      /\ \A s \in Sessions : pc[s] \in {"idle", "done"}
  BY <1>1 DEF EndInv, AsyncInv, StagesInv
<1>. QED  BY <1>2 DEF Actors

\* Such steps preserve EndInv.
LEMMA WorksKeeps ==
  ASSUME TypeOK, EndInv, NEW a \in Actors, Works(a) PROVE EndInv'
<1>0. /\ Tasks \cap Sessions = {} /\ Monitor \notin Tasks \cup Sessions /\ Starter \notin Tasks
      /\ pc'[Closer] = pc[Closer] /\ Closer \in Actors
      /\ Tasks \subseteq Actors /\ Sessions \subseteq Actors /\ Monitor \in Actors /\ Starter \in Actors
  BY NamesAssumption DEF Works, OthersStay, Actors
<1>1. \A u \in Actors \ {a} : pc'[u] = pc[u] /\ job'[u] = job[u] /\ (u \in async' <=> u \in async)
  BY DEF Works, OthersStay, Exit
<1>b. \A t \in Tasks \ {a} : Refreshing(t)' <=> Refreshing(t)
  BY <1>0, <1>1 DEF Refreshing
<1>2. /\ a # Closer /\ pc[a] \notin {"done", "off"} /\ UNCHANGED expired
      /\ pc[a] = "idle" => a = Monitor \/ (a \in Tasks /\ pc[Closer] \notin FromServices)
  BY DEF Works
<1>3. a \in Sessions => a \in async
  BY <1>0, <1>2 DEF EndInv, AsyncInv
<1>4. /\ async' \subseteq Tasks \cup Sessions
      /\ a \in async' => pc'[a] \notin {"idle", "stopMonitor"}
      /\ a \in Sessions => pc'[a] = "done" \/ a \in async'
      /\ a \in Tasks /\ pc[a] # "idle" =>
           /\ a \in async \/ Refreshing(a) => pc'[a] = "idle" \/ a \in async' \/ Refreshing(a)'
           /\ ~Refreshing(a) => ~Refreshing(a)'
  <2>1. CASE Exit(a)
    <3>1. /\ a \in Tasks => pc'[a] = "idle"
          /\ a \in Sessions => pc'[a] = "done"
          /\ async' = async \ {a} /\ job'[a].kind = "none"
      BY <1>0, <2>1 DEF Exit, TypeOK, GoroutineTypeOK, NoJob, Job
    <3>. QED  BY <3>1 DEF EndInv, AsyncInv, Refreshing
  <2>2. CASE UNCHANGED async /\ pc'[a] # "idle" /\ pc[a] = "idle"
    BY <1>3, <2>2 DEF EndInv, AsyncInv
  <2>3. CASE /\ UNCHANGED async /\ pc'[a] \notin {"idle", "stopMonitor"}
             /\ a \in Tasks => (job'[a].kind \in RefreshKinds <=> job[a].kind \in RefreshKinds)
    BY <1>3, <2>3 DEF EndInv, AsyncInv, Refreshing, RefreshKinds
  <2>4. CASE a \in Tasks /\ async' = async \cup {a} /\ pc'[a] \notin {"idle", "stopMonitor"}
    BY <1>0, <2>4 DEF EndInv, AsyncInv, Refreshing
  <2>. QED  BY <2>1, <2>2, <2>3, <2>4 DEF Works
<1>5. AsyncInv'
  <2>1. \A t \in async' : pc'[t] \notin {"idle", "stopMonitor"}
    BY <1>0, <1>1, <1>4 DEF EndInv, AsyncInv
  <2>2. \A s \in Sessions : pc'[s] \in {"idle", "done"} \/ s \in async'
    BY <1>0, <1>1, <1>4 DEF EndInv, AsyncInv
  <2>. QED  BY <1>4, <2>1, <2>2 DEF AsyncInv
<1>6. CloserInv'
  <2>1. ASSUME NEW u \in Actors PROVE u = Closer <=> pc'[u] \in Main
    BY <1>0, <1>1, <1>2 DEF EndInv, CloserInv, Works
  <2>. QED  BY <2>1 DEF CloserInv
<1>7. ASSUME ~expired' PROVE StagesInv'
  <2>0. ~expired /\ StagesInv
    BY <1>2, <1>7 DEF EndInv
  <2>1. ASSUME pc[Closer] \in FromServices, NEW t \in Tasks
        PROVE  pc'[t] = "idle" \/ t \in async' \/ Refreshing(t)'
    <3>1. pc[t] = "idle" \/ t \in async \/ Refreshing(t)
      BY <2>0, <2>1 DEF StagesInv
    <3>2. CASE t = a
      BY <1>0, <1>2, <1>4, <2>1, <3>1, <3>2
    <3>. QED  BY <1>0, <1>1, <1>b, <3>1, <3>2
  <2>2. ASSUME pc[Closer] \in FromBackground PROVE pc'[Monitor] = "off"
    <3>1. pc[Monitor] = "off"
      BY <2>0, <2>2 DEF StagesInv
    <3>. QED  BY <1>0, <1>1, <1>2, <3>1
  <2>3. ASSUME pc[Closer] \in FromClose PROVE pc'[Starter] = "done" /\ \A t \in Tasks : ~Refreshing(t)'
    <3>1. pc[Starter] = "done" /\ (\A t \in Tasks : ~Refreshing(t)) /\ pc[Closer] \in FromServices
      BY <2>0, <2>3 DEF StagesInv, FromClose, FromServices
    <3>2. a \in Tasks => ~Refreshing(a)'
      BY <1>0, <1>2, <1>4, <3>1
    <3>. QED  BY <1>0, <1>1, <1>b, <1>2, <3>1, <3>2
  <2>4. pc[Closer] \notin FromWait
    <3>. SUFFICES ASSUME pc[Closer] \in FromWait PROVE FALSE
      OBVIOUS
    <3>1. pc[a] = "idle" /\ a \in Tasks \cup Sessions
      BY <1>2, <2>0, NobodyWorks
    <3>2. pc[Closer] \in FromServices
      BY DEF FromWait, FromServices, Closing
    <3>. QED  BY <1>0, <1>2, <3>1, <3>2
  <2>. QED  BY <1>0, <2>1, <2>2, <2>3, <2>4 DEF StagesInv
<1>. QED  BY <1>5, <1>6, <1>7 DEF EndInv

\* A place where only a goroutine that has been started is.
Busy(l) == l \notin {"idle", "done", "off"} \cup Main

\* The steps of such a goroutine: it goes on,
LEMMA WorkGoes ==
  ASSUME EndInv, NEW a \in Actors, Busy(pc[a]), OthersStay(a), UNCHANGED <<async, expired>>,
         session' \in {None, session} \/ pc[a] = "install",
         pc'[a] \notin {"idle", "stopMonitor"} \cup Main,
         a \in Tasks => (job'[a].kind \in RefreshKinds <=> job[a].kind \in RefreshKinds)
  PROVE  Works(a)
  BY DEF Works, Busy, EndInv, CloserInv

\* or it returns.
LEMMA WorkReturns ==
  ASSUME TypeOK, EndInv, NEW a \in Actors, Busy(pc[a]), Exit(a), UNCHANGED <<session, expired>>
  PROVE  Works(a)
<1>1. OthersStay(a) /\ pc'[a] \in {"idle", "done"}
  BY DEF Exit, TypeOK, GoroutineTypeOK, OthersStay
<1>. QED  BY <1>1 DEF Works, Busy, EndInv, CloserInv, Main, ShuttingDown, Closing

\* It goes on with the locals it has.
LEMMA WorkMoves ==
  ASSUME TypeOK, EndInv, NEW a \in Actors, Busy(pc[a]), NEW l, Goto(a, l), UNCHANGED job,
         UNCHANGED <<async, expired>>, session' \in {None, session}, l \notin {"idle", "stopMonitor"} \cup Main
  PROVE  Works(a)
  BY Goes, WorkGoes

\* activate, connectNode, install and a candidate.
LEMMA ConnectWorks ==
  ASSUME TypeOK, EndInv, NEW a \in Actors, ConnectStep(a), UNCHANGED environment,
         ~StartWatcher(a), ~(CloseTaken(a) /\ pc[a] \in Closing)
  PROVE  Works(a)
<1>. USE DEF manager, routing, environment, Main, ShuttingDown, Closing
<1>0. job[a] \in Jobs
  BY ActorTypes
<1>1. CASE CandidateTurn(a)
  <2>1. pc[a] = "autoLock" /\ Busy(pc[a]) /\ UNCHANGED <<session, expired>>
    BY <1>1 DEF CandidateTurn, Busy
  <2>2. CASE Exit(a)
    BY <2>1, <2>2, WorkReturns
  <2>3. CASE ~Exit(a)
    <3>1. Goto(a, "switchLock") /\ UNCHANGED <<job, async>>
      BY <1>1, <2>3 DEF CandidateTurn
    <3>. QED  BY <2>1, <3>1, WorkMoves
  <2>. QED  BY <2>2, <2>3
<1>2. CASE FinishConnectAttempt(a)
  <2>1. Busy(pc[a]) /\ Exit(a) /\ UNCHANGED <<session, expired>>
    BY <1>2 DEF FinishConnectAttempt, Busy
  <2>. QED  BY <2>1, WorkReturns
<1>3. CASE Activate(a)
  <2>1. Busy(pc[a]) /\ Goto(a, "connect") /\ UNCHANGED <<job, async, session, expired>>
    BY <1>3 DEF Activate, Busy
  <2>. QED  BY <2>1, WorkMoves
<1>4. CASE DialFails(a)
  <2>1. PICK p \in job[a].todo : job' = [job EXCEPT ![a].todo = @ \ {p}]
    BY <1>4 DEF DialFails
  <2>2. job'[a].kind = job[a].kind /\ OthersStay(a) /\ pc[a] = "connect" /\ pc'[a] = "connect"
    BY <1>0, <1>4, <2>1, SameRoles DEF DialFails, TypeOK, GoroutineTypeOK, OthersStay, SameRole
  <2>. QED  BY <1>4, <2>2, WorkGoes DEF DialFails, Busy
<1>5. CASE DialSucceeds(a)
  <2>1. PICK p \in job[a].todo : job' = [job EXCEPT ![a].todo = @ \ {p}, ![a].protocol = p]
    BY <1>5 DEF DialSucceeds
  <2>2. job'[a].kind = job[a].kind /\ OthersStay(a) /\ pc[a] = "connect" /\ pc'[a] \in {"probe", "ready"}
    BY <1>0, <1>5, <2>1, SameRoles
       DEF DialSucceeds, Goto, TypeOK, GoroutineTypeOK, OthersStay, SameRole
  <2>. QED  BY <1>5, <2>2, WorkGoes DEF DialSucceeds, Busy
<1>6. CASE ProbeSucceeds(a) \/ ProbeFails(a)
  <2>1. /\ Busy(pc[a]) /\ UNCHANGED <<job, async, session, expired>>
        /\ \E l \in {"ready", "connect"} : Goto(a, l)
    BY <1>6 DEF ProbeSucceeds, ProbeFails, Busy
  <2>. QED  BY <2>1, WorkMoves
<1>7. CASE ConnectFails(a) \/ SetError(a)
  <2>1. /\ Busy(pc[a]) /\ UNCHANGED <<job, async, session, expired>>
        /\ \E l \in {"finishFailed", "setAutomatic", "nextNode", "setError"} : Goto(a, l)
    BY <1>7 DEF ConnectFails, SetError, AfterFailure, Busy
  <2>. QED  BY <2>1, WorkMoves
<1>8. CASE CheckContext(a) \/ RefuseInstall(a)
  <2>1. /\ Busy(pc[a]) /\ UNCHANGED <<job, async, session, expired>>
        /\ \E l \in {"finishFailed", "setAutomatic", "nextNode", "install"} : Goto(a, l)
    BY <1>8 DEF CheckContext, RefuseInstall, Abandon, AfterFailure, Busy
  <2>. QED  BY <2>1, WorkMoves
<1>9. CASE Install(a)
  <2>1. /\ job'[a] = [job[a] EXCEPT !.installed = held[a], !.generation = generation + 1]
        /\ OthersStay(a) /\ pc[a] = "install" /\ pc'[a] \in {"saveSelection", "closeOld"}
    BY <1>9 DEF Install, Goto, TypeOK, GoroutineTypeOK, OthersStay
  <2>2. job'[a].kind = job[a].kind /\ Busy(pc[a])
    BY <1>0, <2>1 DEF Jobs, Busy
  <2>. QED  BY <1>9, <2>1, <2>2, WorkGoes DEF Install
<1>10. CASE CloseTaken(a)
  <2>1. pc[a] \in {"drop", "closeOld"} /\ Busy(pc[a]) /\ UNCHANGED <<session, expired>>
    BY <1>10 DEF CloseTaken, Busy
  <2>2. CASE pc[a] = "drop"
    BY <1>10, <2>1, <2>2, WorkReturns DEF CloseTaken
  <2>3. CASE pc[a] = "closeOld"
    <3>1. Goto(a, "saveSelection") /\ UNCHANGED <<job, async>>
      BY <1>10, <2>3 DEF CloseTaken
    <3>. QED  BY <2>1, <3>1, WorkMoves
  <2>. QED  BY <2>1, <2>2, <2>3
<1>11. CASE SaveMetadata(a)
  <2>1. /\ Busy(pc[a]) /\ UNCHANGED <<job, async, session, expired>>
        /\ \E l \in {"saveIP", "saveProtocol", "startWatcher", "switch", "startSwitch"} : Goto(a, l)
    BY <1>11 DEF SaveMetadata, Busy
  <2>. QED  BY <2>1, WorkMoves
<1>. QED
  BY <1>1, <1>2, <1>3, <1>4, <1>5, <1>6, <1>7, <1>8, <1>9, <1>10, <1>11 DEF ConnectStep

\* switchAutomatic, failover, setAutomatic and the watchers.
LEMMA SwitchWorks ==
  ASSUME TypeOK, LocksInv, EndInv, NEW a \in Actors, SwitchStep(a) \/ WatcherWakes(a),
         UNCHANGED environment
  PROVE  Works(a)
<1>. USE DEF manager, routing, environment, Main, ShuttingDown, Closing
<1>0. job[a] \in Jobs /\ Fits(pc[a], job[a])
  BY ActorTypes DEF LocksInv, RoleInv
<1>1. CASE SwitchAutomatic(a) \/ SwitchAfterFailover(a)
  <2>1. BeginSwitch(a) /\ Busy(pc[a]) /\ UNCHANGED <<session, expired>>
    BY <1>1 DEF SwitchAutomatic, SwitchAfterFailover, BeginSwitch, Busy
  <2>2. CASE Exit(a)
    BY <2>1, <2>2, WorkReturns
  <2>3. CASE ~Exit(a)
    <3>1. Goto(a, "rankedNodes") /\ UNCHANGED <<job, async>>
      BY <2>1, <2>3 DEF BeginSwitch
    <3>. QED  BY <2>1, <3>1, WorkMoves
  <2>. QED  BY <2>2, <2>3
<1>2. CASE RankedNodes(a)
  <2>1. pc[a] = "rankedNodes" /\ Busy(pc[a]) /\ UNCHANGED <<async, session, expired>>
    BY <1>2 DEF RankedNodes, Busy
  <2>2. CASE UNCHANGED job
    <3>1. \E l \in {"nextNode", "endSwitch"} : Goto(a, l)
      BY <1>2 DEF RankedNodes
    <3>. QED  BY <2>1, <2>2, <3>1, WorkMoves
  <2>3. CASE ~UNCHANGED job
    <3>1. PICK c : job' = [job EXCEPT ![a].candidates = c]
      BY <1>2, <2>3 DEF RankedNodes
    <3>2. job'[a].kind = job[a].kind /\ OthersStay(a) /\ pc'[a] = "nextNode"
      BY <1>0, <1>2, <2>3, <3>1, SameRoles
         DEF RankedNodes, Goto, TypeOK, GoroutineTypeOK, OthersStay, SameRole
    <3>. QED  BY <2>1, <3>2, WorkGoes
  <2>. QED  BY <2>2, <2>3
<1>3. CASE NextNode(a)
  <2>1. PICK n \in Untried(a) :
          job' = [job EXCEPT ![a].node = n, ![a].todo = Tries(job[a].candidates[n], None),
                             ![a].candidates = [@ EXCEPT ![n] = {}]]
    BY <1>3 DEF NextNode
  <2>2. job'[a].kind = job[a].kind /\ OthersStay(a) /\ pc[a] = "nextNode" /\ pc'[a] = "switchLock"
    BY <1>0, <1>3, <2>1 DEF NextNode, Goto, TypeOK, GoroutineTypeOK, OthersStay, Jobs
  <2>. QED  BY <1>3, <2>2, WorkGoes DEF NextNode, Busy
<1>4. CASE StopSwitch(a) \/ RecordError(a) \/ FailoverLock(a) \/ SetAutomatic(a)
  <2>1. /\ Busy(pc[a]) /\ UNCHANGED <<job, async, session, expired>>
        /\ \E l \in {"endSwitch", "recordError", "failoverAuto", "saveSelection"} : Goto(a, l)
    BY <1>4 DEF StopSwitch, RecordError, FailoverLock, SetAutomatic, Busy
  <2>. QED  BY <2>1, WorkMoves
<1>5. CASE EndSwitch(a) \/ IgnoreFailover(a)
  <2>1. Busy(pc[a]) /\ Exit(a) /\ UNCHANGED <<session, expired>>
    BY <1>5 DEF EndSwitch, IgnoreFailover, Busy
  <2>. QED  BY <2>1, WorkReturns
<1>6. CASE Failover(a)
  <2>1. /\ Busy(pc[a]) /\ UNCHANGED <<job, async, expired>> /\ session' \in {None, session}
        /\ \E l \in {"saveSelection", "closeOld"} : Goto(a, l)
    BY <1>6 DEF Failover, Busy
  <2>. QED  BY <2>1, WorkMoves
<1>7. CASE StartSwitch(a)
  <2>1. /\ job'[a].kind = "auto" /\ OthersStay(a)
        /\ pc[a] = "startSwitch" /\ pc'[a] \in {"autoLock", "runAsync"}
    BY <1>7 DEF StartSwitch, Goto, TypeOK, GoroutineTypeOK, OthersStay, Job
  <2>2. job[a].kind \in {"restore", "resume"}
    BY <1>0, <2>1 DEF Fits
  <2>. QED  BY <1>7, <2>1, <2>2, WorkGoes DEF StartSwitch, Busy, RefreshKinds
<1>8. CASE WatcherWakes(a)
  <2>1. pc[a] = "watch" /\ Busy(pc[a]) /\ UNCHANGED <<session, expired>>
    BY <1>8 DEF WatcherWakes, Busy
  <2>2. CASE Exit(a)
    BY <2>1, <2>2, WorkReturns
  <2>3. CASE ~Exit(a)
    <3>1. Goto(a, "failover") /\ UNCHANGED <<job, async>>
      BY <1>8, <2>3 DEF WatcherWakes
    <3>. QED  BY <2>1, <3>1, WorkMoves
  <2>. QED  BY <2>2, <2>3
<1>. QED  BY <1>1, <1>2, <1>3, <1>4, <1>5, <1>6, <1>7, <1>8 DEF SwitchStep

\* The steps of handlers and of the refresher.
LEMMA TaskWorks ==
  ASSUME TypeOK, LocksInv, EndInv, NEW a \in Tasks, TaskStep(a), ~StartMonitor(a), UNCHANGED environment
  PROVE  Works(a)
<1>. USE DEF manager, routing, environment, Main, ShuttingDown, Closing
<1>0. a \in Actors /\ job[a] \in Jobs /\ Fits(pc[a], job[a])
  BY ActorTypes DEF LocksInv, RoleInv, Actors
<1>1. CASE RejectCandidate(a) \/ (RefuseAsync(a) /\ Exit(a)) \/ (ReplaceNodes(a) /\ Exit(a))
           \/ (AfterRefresh(a) /\ Exit(a)) \/ (LookupActive(a) /\ Exit(a))
           \/ (ReconnectLookup(a) /\ Exit(a))
  <2>1. Busy(pc[a]) /\ Exit(a) /\ UNCHANGED <<session, expired>>
    BY <1>1 DEF RejectCandidate, RefuseAsync, ReplaceNodes, AfterRefresh, LookupActive,
                ReconnectLookup, Busy
  <2>. QED  BY <1>0, <2>1, WorkReturns
<1>2. CASE (ReconnectLookup(a) /\ ~Exit(a)) \/ ResumeLookup(a)
  <2>1. /\ pc[a] \in {"reconnectLookup", "resumeLookup"} /\ Busy(pc[a])
        /\ UNCHANGED <<async, session, expired>>
    BY <1>2 DEF ReconnectLookup, ResumeLookup, Lookup, Busy
  <2>2. \/ /\ UNCHANGED job
           /\ Goto(a, "setAutomatic")
        \/ /\ job' = [job EXCEPT ![a].kind = "candidate",
                                 ![a].todo = Tries(store[job[a].node], job[a].forced)]
           /\ Goto(a, "startCandidate")
    BY <1>2 DEF ReconnectLookup, ResumeLookup, Lookup
  <2>3. CASE UNCHANGED job /\ Goto(a, "setAutomatic")
    BY <1>0, <2>1, <2>3, WorkMoves
  <2>4. CASE /\ job' = [job EXCEPT ![a].kind = "candidate",
                                  ![a].todo = Tries(store[job[a].node], job[a].forced)]
             /\ Goto(a, "startCandidate")
    <3>1. job'[a].kind = "candidate" /\ OthersStay(a) /\ pc'[a] = "startCandidate"
      BY <1>0, <2>4 DEF Goto, TypeOK, GoroutineTypeOK, OthersStay, Jobs
    <3>2. job[a].kind \in {"candidate", "resume"}
      BY <1>0, <2>1 DEF Fits
    <3>. QED  BY <1>0, <2>1, <3>1, <3>2, WorkGoes DEF RefreshKinds
  <2>. QED  BY <2>2, <2>3, <2>4
<1>3. CASE StartCandidate(a)
  <2>1. job'[a].kind = job[a].kind /\ OthersStay(a) /\ pc'[a] = "runAsync" /\ Busy(pc[a])
    BY <1>0, <1>3 DEF StartCandidate, Goto, TypeOK, GoroutineTypeOK, OthersStay, Jobs, Busy
  <2>. QED  BY <1>0, <1>3, <2>1, WorkGoes DEF StartCandidate
<1>4. CASE RunAsync(a)
  <2>1. pc[a] = "runAsync" /\ async' = async \cup {a} /\ UNCHANGED <<job, session, expired>>
        /\ \E l \in {"failover", "autoLock"} : Goto(a, l)
    BY <1>4 DEF RunAsync
  <2>2. OthersStay(a) /\ pc'[a] \in {"failover", "autoLock"}
    BY <1>0, <2>1, Goes
  <2>. QED  BY <1>0, <2>1, <2>2 DEF Works, EndInv, CloserInv
<1>5. CASE RefuseAsync(a) /\ ~Exit(a)
  <2>1. Busy(pc[a]) /\ Goto(a, "finishFailed") /\ UNCHANGED <<job, async, session, expired>>
    BY <1>5 DEF RefuseAsync, Busy
  <2>. QED  BY <1>0, <2>1, WorkMoves
<1>6. CASE (ReplaceNodes(a) /\ ~Exit(a)) \/ (AfterRefresh(a) /\ ~Exit(a))
           \/ (LookupActive(a) /\ ~Exit(a))
  <2>1. /\ pc[a] \in {"replaceNodes", "afterRefresh", "lookupActive"} /\ Busy(pc[a])
        /\ UNCHANGED <<async, session, expired>>
    BY <1>6 DEF ReplaceNodes, AfterRefresh, LookupActive, Busy
  <2>2. job[a].kind = "refresh"
    BY <1>0, <2>1 DEF Fits
  <2>a. job'[a].kind \in RefreshKinds /\ \A u \in Actors \ {a} : job'[u] = job[u]
    <3>1. CASE ReplaceNodes(a) /\ ~Exit(a)
      <4>1. job' = [job EXCEPT ![a] = Job("refresh", None, "auto", None, {})]
        BY <3>1 DEF ReplaceNodes
      <4>. QED  BY <1>0, <4>1 DEF Job, RefreshKinds, TypeOK, GoroutineTypeOK
    <3>2. CASE AfterRefresh(a) /\ ~Exit(a)
      <4>1. CASE job' = [job EXCEPT ![a].kind = "follow"]
        BY <1>0, <4>1 DEF Jobs, RefreshKinds, TypeOK, GoroutineTypeOK
      <4>2. CASE job' = [job EXCEPT ![a].node = node]
        BY <1>0, <2>2, <4>2 DEF Jobs, RefreshKinds, TypeOK, GoroutineTypeOK
      <4>. QED  BY <3>2, <4>1, <4>2 DEF AfterRefresh
    <3>3. CASE LookupActive(a) /\ ~Exit(a)
      <4>1. job' = [job EXCEPT ![a].kind = "failover"]
        BY <3>3 DEF LookupActive
      <4>. QED  BY <1>0, <4>1 DEF Jobs, RefreshKinds, TypeOK, GoroutineTypeOK
    <3>. QED  BY <1>6, <3>1, <3>2, <3>3
  <2>b. PICK l : Goto(a, l)
    BY <1>6 DEF ReplaceNodes, AfterRefresh, LookupActive
  <2>3. job'[a].kind \in RefreshKinds /\ OthersStay(a)
    BY <1>0, <2>a, <2>b DEF Goto, TypeOK, GoroutineTypeOK, OthersStay
  <2>4. pc'[a] \in {"afterRefresh", "runAsync", "lookupActive"}
    BY <1>0, <1>6 DEF ReplaceNodes, AfterRefresh, LookupActive, Goto, TypeOK, GoroutineTypeOK
  <2>. QED  BY <1>0, <2>1, <2>2, <2>3, <2>4, WorkGoes DEF RefreshKinds
<1>. QED  BY <1>1, <1>2, <1>3, <1>4, <1>5, <1>6 DEF TaskStep

\* The first step of every request, of a refresh, and a restart that gives up.
LEMMA HandlerWorks ==
  ASSUME TypeOK, ShutdownInv, EndInv, NEW a \in Tasks,
         HandlerStarts(a) \/ FetchNodes(a) \/ (RestartTimesOut(a) /\ UNCHANGED environment)
  PROVE  Works(a)
<1>. USE DEF manager, routing, environment, Main, ShuttingDown, Closing
<1>0. a \in Actors /\ a # Closer /\ a \in Tasks
  BY NamesAssumption DEF Actors
<1>1. CASE RestartTimesOut(a)
  <2>1. Busy(pc[a]) /\ Exit(a) /\ UNCHANGED <<session, expired>>
    BY <1>1 DEF RestartTimesOut, HandlerStarts, Arrives, FetchNodes, Busy
  <2>. QED  BY <1>0, <2>1, WorkReturns
<1>2. CASE HandlerStarts(a) \/ FetchNodes(a)
  <2>1. pc[a] = "idle" /\ UNCHANGED expired
    BY <1>2 DEF HandlerStarts, Arrives, FetchNodes
  <2>2. pc[Closer] \notin FromServices
    BY <1>2 DEF HandlerStarts, Arrives, FetchNodes, FromServices, ShutdownInv
  <2>3. session' \in {None, session} /\ UNCHANGED async
    BY <1>2 DEF HandlerStarts, FetchNodes, SelectManual, ReconnectCurrent, PauseConnection,
                ResumeConnection, RestartMonitor
  <2>4. /\ \A u \in Actors \ {a} : job'[u] = job[u]
        /\ \E l \in {"startCandidate", "reconnectLookup", "drop", "resumeLookup", "runAsync",
                     "stopMonitor", "replaceNodes"} : Goto(a, l)
    BY <1>2 DEF HandlerStarts, FetchNodes, SelectManual, ReconnectCurrent, PauseConnection,
                ResumeConnection, RestartMonitor, TypeOK, GoroutineTypeOK
  <2>5. OthersStay(a) /\ pc'[a] \notin {"idle"} \cup Main
    BY <1>0, <2>4 DEF Goto, TypeOK, GoroutineTypeOK, OthersStay
  <2>. QED  BY <1>0, <2>1, <2>2, <2>3, <2>5 DEF Works
<1>. QED  BY <1>1, <1>2

\* Start.
LEMMA StartWorks ==
  ASSUME TypeOK, EndInv, StartStep PROVE Works(Starter)
<1>. USE DEF manager, routing, environment, Main, ShuttingDown, Closing
<1>0. Starter \in Actors /\ Starter \notin Tasks
  BY NamesAssumption DEF Actors
<1>1. /\ pc[Starter] \in {"start", "restoreLookup", "restoreState"}
      /\ UNCHANGED <<async, session, expired>>
  BY DEF StartStep, Start, RestoreLookup, RestoreState
<1>2. /\ \A u \in Actors \ {Starter} : job'[u] = job[u]
      /\ \E l \in {"restoreLookup", "autoLock", "setAutomatic", "restoreState", "switchLock"} :
           Goto(Starter, l)
  BY DEF StartStep, Start, RestoreLookup, RestoreState, TypeOK, GoroutineTypeOK
<1>3. OthersStay(Starter) /\ pc'[Starter] \notin {"idle", "stopMonitor"} \cup Main
  BY <1>0, <1>2 DEF Goto, TypeOK, GoroutineTypeOK, OthersStay
<1>. QED  BY <1>0, <1>1, <1>3, WorkGoes DEF Busy

\* The health-check loop.
LEMMA MonitorWorks ==
  ASSUME TypeOK, EndInv, MonitorTick \/ MonitorStep PROVE Works(Monitor)
<1>. USE DEF manager, routing, environment, Main, ShuttingDown, Closing
<1>0. Monitor \in Actors /\ Monitor \notin Tasks /\ Monitor # Closer
  BY NamesAssumption DEF Actors, Monitor, Closer
<1>1. UNCHANGED <<session, expired>> /\ pc[Monitor] \in {"idle", "tick", "check"}
  BY DEF MonitorTick, MonitorStep, CheckSession, CheckPasses, CheckFails, MonitorExits
<1>2. CASE Exit(Monitor)
  <2>1. OthersStay(Monitor) /\ pc'[Monitor] \in {"idle", "done"}
    BY <1>0, <1>2 DEF Exit, TypeOK, GoroutineTypeOK, OthersStay
  <2>. QED  BY <1>0, <1>1, <1>2, <2>1 DEF Works
<1>3. CASE ~Exit(Monitor)
  <2>1. /\ \A u \in Actors \ {Monitor} : job'[u] = job[u]
        /\ \E l \in {"tick", "check", "failover", "off"} : Goto(Monitor, l)
        /\ UNCHANGED async
    BY <1>3 DEF MonitorTick, MonitorStep, CheckSession, CheckPasses, CheckFails, MonitorExits,
                TypeOK, GoroutineTypeOK
  <2>2. OthersStay(Monitor) /\ pc'[Monitor] \in {"tick", "check", "failover", "off"}
    BY <1>0, <2>1 DEF Goto, TypeOK, GoroutineTypeOK, OthersStay
  <2>. QED  BY <1>0, <1>1, <2>1, <2>2 DEF Works
<1>. QED  BY <1>2, <1>3

\* install starts the watcher of its session, unless Close has begun.
LEMMA WatcherJoins ==
  ASSUME TypeOK, HandsInv, WatcherInv, EndInv, NEW t \in Actors, StartWatcher(t), UNCHANGED environment
  PROVE  EndInv'
<1>. USE DEF manager, routing, environment
<1>0. pc[t] = "startWatcher" /\ UNCHANGED <<session, expired>> /\ t # Closer
  BY DEF StartWatcher, EndInv, CloserInv, Main, ShuttingDown, Closing
<1>1. AfterSuccess(t) \in {"finishConnected", "done", "endSwitch"}
  BY DEF AfterSuccess
<1>2. CASE closing
  <2>1. Busy(pc[t]) /\ Goto(t, AfterSuccess(t)) /\ UNCHANGED <<job, async>>
    BY <1>0, <1>2 DEF StartWatcher, Busy, Main, ShuttingDown, Closing
  <2>2. Works(t)
    BY <1>0, <1>1, <2>1, WorkMoves DEF Main, ShuttingDown, Closing
  <2>. QED  BY <2>2, WorksKeeps
<1>3. CASE ~closing
  <2>. DEFINE s == job[t].installed
  <2>1. s \in Sessions /\ pc[s] = "idle" /\ s # t
    BY <1>0, ActorTypes DEF HandsInv, WatcherInv, Installing, Jobs
  <2>2. /\ pc' = [pc EXCEPT ![s] = "watch", ![t] = AfterSuccess(t)]
        /\ job' = [job EXCEPT ![s].kind = "failover", ![s].expected = s,
                             ![s].generation = job[t].generation]
        /\ async' = async \cup {s}
    BY <1>3 DEF StartWatcher
  <2>3. /\ pc'[s] = "watch" /\ pc'[t] = AfterSuccess(t) /\ job'[t] = job[t]
        /\ \A u \in Actors \ {s, t} : pc'[u] = pc[u] /\ job'[u] = job[u]
    BY <2>1, <2>2 DEF TypeOK, GoroutineTypeOK, Actors
  <2>4. /\ s \notin Tasks /\ s # Closer /\ s # Monitor /\ s # Starter
        /\ Tasks \subseteq Actors /\ Sessions \subseteq Actors
        /\ Closer \in Actors /\ Monitor \in Actors /\ Starter \in Actors
    BY <2>1, NamesAssumption DEF Actors
  <2>5. AsyncInv'
    BY <1>0, <1>1, <2>1, <2>2, <2>3, <2>4 DEF EndInv, AsyncInv
  <2>6. CloserInv'
    <3>1. ASSUME NEW u \in Actors PROVE u = Closer <=> pc'[u] \in Main
      BY <1>0, <1>1, <2>3, <2>4 DEF EndInv, CloserInv, Main, ShuttingDown, Closing
    <3>. QED  BY <3>1 DEF CloserInv
  <2>7. ASSUME ~expired' PROVE StagesInv'
    <3>0. ~expired /\ StagesInv /\ pc'[Closer] = pc[Closer]
      BY <1>0, <2>3, <2>4, <2>7 DEF EndInv
    <3>1. \A u \in Tasks : /\ pc'[u] = pc[u] \/ u = t
                           /\ u \in async' <=> u \in async
                           /\ Refreshing(u)' <=> Refreshing(u)
      BY <2>2, <2>3, <2>4 DEF Refreshing
    <3>2. \A u \in {Monitor, Starter} : pc'[u] = pc[u] \/ u = t
      BY <2>3, <2>4
    <3>3. pc[Closer] \notin FromWait
      BY <1>0, <3>0, NobodyWorks
    <3>. QED  BY <1>0, <3>0, <3>1, <3>2, <3>3 DEF StagesInv
  <2>. QED  BY <2>5, <2>6, <2>7 DEF EndInv
<1>. QED  BY <1>2, <1>3

\* A restart of the health-check loop returns: no request is left to do that
\* once the services are being stopped.
LEMMA RestartReturns ==
  ASSUME TypeOK, LocksInv, EndInv, NEW t \in Tasks, StartMonitor(t), UNCHANGED environment
  PROVE  EndInv'
<1>0. /\ t \in Actors /\ Monitor \in Actors /\ Closer \in Actors /\ Starter \in Actors
      /\ Monitor \notin Tasks \cup Sessions /\ Monitor # Closer /\ t # Closer /\ t \notin Sessions
      /\ Tasks \subseteq Actors /\ Sessions \subseteq Actors
  BY NamesAssumption DEF Actors, Monitor, Closer
<1>1. /\ pc[t] = "stopMonitor" /\ UNCHANGED <<async, expired>>
      /\ pc'[t] = "idle" /\ pc'[Monitor] = "idle"
      /\ \A u \in Actors \ {t, Monitor} : pc'[u] = pc[u]
  BY <1>0 DEF StartMonitor, environment, TypeOK, GoroutineTypeOK
<1>2. t \notin async /\ ~Refreshing(t)
  <2>1. job[t].kind = "restart"
    BY <1>0, <1>1 DEF LocksInv, RoleInv, Fits
  <2>. QED  BY <1>1, <2>1 DEF EndInv, AsyncInv, Refreshing
<1>3. ~expired => pc[Closer] \notin FromServices
  BY <1>1, <1>2 DEF EndInv, StagesInv
<1>4. AsyncInv'
  BY <1>0, <1>1, <1>2 DEF EndInv, AsyncInv
<1>5. CloserInv'
  <2>1. ASSUME NEW u \in Actors PROVE u = Closer <=> pc'[u] \in Main
    BY <1>0, <1>1 DEF EndInv, CloserInv, Main, ShuttingDown, Closing
  <2>. QED  BY <2>1 DEF CloserInv
<1>6. ~expired' => StagesInv'
  BY <1>0, <1>1, <1>3 DEF StagesInv, FromServices, FromBackground, FromClose, FromWait, Closing
<1>. QED  BY <1>4, <1>5, <1>6 DEF EndInv

\* The main goroutine goes from one stage to the next when that is over which
\* it waits for.
LEMMA MainGoesOn ==
  ASSUME TypeOK, EndInv, NEW l \in Main, Goto(Closer, l), UNCHANGED <<job, async, expired>>,
         ASSUME ~expired
         PROVE  /\ l \in FromServices => pc[Closer] \in FromServices
                     \/ \A t \in Tasks : pc[t] = "idle" \/ t \in async \/ Refreshing(t)
                /\ l \in FromBackground => pc[Closer] \in FromBackground \/ pc[Monitor] = "off"
                /\ l \in FromClose => pc[Closer] \in FromClose
                     \/ (pc[Starter] = "done" /\ \A t \in Tasks : ~Refreshing(t))
                /\ l \in FromWait => async = {} /\ session' = None
  PROVE  EndInv'
<1>0. /\ Monitor # Closer /\ Starter # Closer /\ Closer \notin Tasks \cup Sessions
      /\ Tasks \subseteq Actors /\ Sessions \subseteq Actors
      /\ Closer \in Actors /\ Monitor \in Actors /\ Starter \in Actors
  BY NamesAssumption DEF Actors, Monitor, Closer, Starter
<1>1. pc'[Closer] = l /\ \A u \in Actors \ {Closer} : pc'[u] = pc[u] /\ job'[u] = job[u]
  BY <1>0 DEF Goto, TypeOK, GoroutineTypeOK
<1>2. \A t \in Tasks : Refreshing(t)' <=> Refreshing(t)
  BY DEF Refreshing
<1>3. AsyncInv'
  BY <1>0, <1>1 DEF EndInv, AsyncInv
<1>4. CloserInv'
  BY <1>0, <1>1 DEF EndInv, CloserInv
<1>5. ASSUME ~expired' PROVE StagesInv'
  <2>1. ~expired /\ StagesInv
    BY <1>5 DEF EndInv
  <2>. QED  BY <1>0, <1>1, <1>2, <2>1 DEF StagesInv
<1>. QED  BY <1>3, <1>4, <1>5 DEF EndInv

\* The steps of the main goroutine.
LEMMA MainKeeps ==
  ASSUME TypeOK, EndInv,
         \/ CancelApp \/ ShutdownStep
         \/ \E a \in Actors : CloseTaken(a) /\ pc[a] \in Closing /\ UNCHANGED environment
  PROVE  EndInv'
<1>. USE DEF manager, routing, environment, Main, ShuttingDown, Closing,
             FromServices, FromBackground, FromClose, FromWait
<1>1. CASE CancelApp
  BY <1>1, MainGoesOn DEF CancelApp
<1>2. CASE ShutdownStep /\ (StopListening \/ Close \/ TakeSession)
  <2>1. /\ UNCHANGED <<job, async, expired>>
        /\ \/ pc[Closer] = "cancelled" /\ Goto(Closer, "stopHTTP")
           \/ pc[Closer] = "close" /\ Goto(Closer, "takeSession")
           \/ pc[Closer] = "takeSession" /\ Goto(Closer, "closeSession")
    BY <1>2 DEF ShutdownStep, StopListening, Shutdown, Close, TakeSession
  <2>. QED  BY <2>1, MainGoesOn
<1>3. CASE ShutdownStep /\ HTTPStopped
  <2>1. UNCHANGED <<job, async, expired>> /\ Goto(Closer, "stopServices")
    BY <1>3 DEF ShutdownStep, HTTPStopped, Shutdown
  <2>2. ~expired => \A t \in Tasks : pc[t] = "idle" \/ t \in async \/ Refreshing(t)
    BY <1>3 DEF HTTPStopped
  <2>. QED  BY <2>1, <2>2, MainGoesOn
<1>4. CASE ShutdownStep /\ ServicesStopped
  <2>1. pc[Closer] = "stopServices" /\ UNCHANGED <<job, async, expired>> /\ Goto(Closer, "stopBackground")
    BY <1>4 DEF ShutdownStep, ServicesStopped, Shutdown
  <2>2. ~expired => pc[Monitor] = "off"
    BY <1>4 DEF ServicesStopped
  <2>. QED  BY <2>1, <2>2, MainGoesOn
<1>5. CASE ShutdownStep /\ BackgroundStopped
  <2>1. pc[Closer] = "stopBackground" /\ UNCHANGED <<job, async, expired>> /\ Goto(Closer, "close")
    BY <1>5 DEF ShutdownStep, BackgroundStopped, Shutdown
  <2>2. ~expired => pc[Starter] = "done" /\ \A t \in Tasks : ~Refreshing(t)
    BY <1>5 DEF BackgroundStopped
  <2>. QED  BY <2>1, <2>2, MainGoesOn
<1>6. CASE ShutdownStep /\ TakeLateSession
  <2>1. /\ pc[Closer] = "waitAsync" /\ UNCHANGED <<job, async, expired>> /\ Goto(Closer, "closeLate")
        /\ async = {} /\ session' = None
    BY <1>6 DEF ShutdownStep, TakeLateSession
  <2>. QED  BY <2>1, MainGoesOn
<1>7. CASE \E a \in Actors : CloseTaken(a) /\ pc[a] \in Closing /\ UNCHANGED environment
  <2>1. PICK a \in Actors : CloseTaken(a) /\ pc[a] \in Closing /\ UNCHANGED environment
    BY <1>7
  <2>2. a = Closer
    BY <2>1 DEF EndInv, CloserInv
  <2>3. /\ UNCHANGED <<job, async, expired, session>>
        /\ \/ pc[Closer] = "closeSession" /\ Goto(Closer, "waitAsync")
           \/ pc[Closer] = "closeLate" /\ Goto(Closer, "closed")
    BY <2>1, <2>2 DEF CloseTaken
  <2>4. ~expired /\ pc[Closer] = "closeLate" => async = {} /\ session = None
    BY DEF EndInv, StagesInv
  <2>. QED  BY <2>3, <2>4, MainGoesOn
<1>. QED  BY <1>1, <1>2, <1>3, <1>4, <1>5, <1>6, <1>7 DEF ShutdownStep

\* A step that changes none of it, and the end of the 15 s.
LEMMA EndUnchanged ==
  ASSUME EndInv, UNCHANGED <<pc, job, async, session>>, expired \/ ~expired' => UNCHANGED expired
  PROVE  EndInv'
<1>1. \A t \in Tasks : Refreshing(t)' <=> Refreshing(t)
  BY DEF Refreshing
<1>2. AsyncInv' /\ CloserInv'
  BY DEF EndInv, AsyncInv, CloserInv
<1>3. ASSUME ~expired' PROVE StagesInv'
  BY <1>1, <1>3 DEF EndInv, StagesInv
<1>. QED  BY <1>2, <1>3 DEF EndInv

\* Every step of the specification preserves EndInv.
LEMMA EndStep ==
  ASSUME Inv, LocksInv, EndInv, [Next]_vars PROVE EndInv'
<1>0. TypeOK /\ HandsInv /\ WatcherInv /\ ShutdownInv
  BY DEF Inv
<1>1. ASSUME UNCHANGED vars PROVE EndInv'
  BY <1>1, EndUnchanged DEF vars, managerVars, environment, manager, routing, locks
<1>2. ASSUME NEW a \in Actors, GoroutineStep(a) PROVE EndInv'
  <2>0. UNCHANGED environment
    BY <1>2 DEF GoroutineStep
  <2>1. CASE StartWatcher(a)
    BY <1>0, <2>0, <2>1, WatcherJoins
  <2>2. CASE CloseTaken(a) /\ pc[a] \in Closing
    BY <1>0, <2>0, <2>2, MainKeeps
  <2>3. CASE ConnectStep(a) /\ ~StartWatcher(a) /\ ~(CloseTaken(a) /\ pc[a] \in Closing)
    BY <1>0, <2>0, <2>3, ConnectWorks, WorksKeeps
  <2>4. CASE SwitchStep(a) \/ (a \in Sessions /\ WatcherWakes(a))
    BY <1>0, <2>0, <2>4, SwitchWorks, WorksKeeps
  <2>5. CASE a \in Tasks /\ TaskStep(a)
    <3>1. CASE StartMonitor(a)
      BY <1>0, <2>0, <2>5, <3>1, RestartReturns
    <3>2. CASE ~StartMonitor(a)
      BY <1>0, <1>2, <2>0, <2>5, <3>2, TaskWorks, WorksKeeps
    <3>. QED  BY <3>1, <3>2
  <2>. QED  BY <1>2, <2>1, <2>2, <2>3, <2>4, <2>5 DEF GoroutineStep
<1>3. ASSUME NEW t \in Tasks,
             HandlerStarts(t) \/ FetchNodes(t) \/ (RestartTimesOut(t) /\ UNCHANGED environment)
      PROVE  EndInv'
  BY <1>0, <1>3, HandlerWorks, WorksKeeps DEF Actors
<1>4. ASSUME StartStep \/ MonitorTick \/ MonitorStep PROVE EndInv'
  BY <1>0, <1>4, StartWorks, MonitorWorks, WorksKeeps DEF Actors
<1>5. ASSUME CancelApp \/ ShutdownStep PROVE EndInv'
  BY <1>0, <1>5, MainKeeps
<1>6. ASSUME ShutdownExpires \/ \E s \in Sessions : TunnelEnds(s) PROVE EndInv'
  BY <1>6, EndUnchanged
     DEF ShutdownExpires, TunnelEnds, managerVars, manager, routing, locks, environment
<1>. QED  BY <1>1, <1>2, <1>3, <1>4, <1>5, <1>6 DEF Next, AtRest

\* EndInv holds when the program starts.
LEMMA EndInit == Init => EndInv
<1>. SUFFICES ASSUME Init PROVE EndInv
  OBVIOUS
<1>1. /\ async = {} /\ pc[Closer] = "run" /\ \A s \in Sessions : pc[s] = "idle"
      /\ \A a \in Actors \ {Closer} : pc[a] \in {"start", "idle"}
  BY NamesAssumption DEF Init, NewManager, Actors, Starter, Closer
<1>2. AsyncInv
  BY <1>1 DEF AsyncInv
<1>3. CloserInv
  BY <1>1 DEF CloserInv, Main, ShuttingDown, Closing
<1>4. StagesInv
  BY <1>1 DEF StagesInv, FromServices, FromBackground, FromClose, FromWait, Closing
<1>. QED  BY <1>2, <1>3, <1>4 DEF EndInv

-----------------------------------------------------------------------------
(* The theorems.                                                            *)

\* The jobs, the locks, the registrations and the stages of the shutdown are
\* as runAsync, switchAutomatic, startCandidate and appStart keep them.
THEOREM Running == Spec => []RunInv
<1>1. Init => RunInv
  BY InitInv, LocksInit, EndInit DEF RunInv
<1>2. RunInv /\ [Next]_vars => RunInv'
  BY InvStep, LocksStep, EndStep DEF RunInv
<1>. QED  BY <1>1, <1>2, PTL DEF Spec

\* The cancel functions that SetDirectMode, startCandidate and Close call stop
\* the switch that owns autoMu and the newest candidate, never one that ended.
THEOREM CancelsRunner == Spec => []CancelReachesRunner
<1>1. RunInv => CancelReachesRunner
  <2>. SUFFICES ASSUME RunInv PROVE CancelReachesRunner
    OBVIOUS
  <2>1. cancelAutomatic \in Actors \cup {None} /\ cancelConnect \in Actors \cup {None}
    BY DEF RunInv, Inv, TypeOK, AttemptTypeOK
  <2>2. cancelAutomatic # None =>
          autoMu = cancelAutomatic /\ SwitchRuns(pc[cancelAutomatic], job[cancelAutomatic])
    BY <2>1 DEF RunInv, LocksInv, RegisteredInv
  <2>3. cancelConnect # None =>
          /\ CandidateRuns(pc[cancelConnect], job[cancelConnect])
          /\ job[cancelConnect].attempt = connectAttempt
          /\ job[cancelConnect].node = connectingIP
    BY <2>1 DEF RunInv, LocksInv, RegisteredInv
  <2>4. (connectingIP # None) <=> (cancelConnect # None)
    BY DEF RunInv, LocksInv, MarkerInv
  <2>. QED
    BY <2>2, <2>3, <2>4
       DEF CancelReachesRunner, SwitchRuns, SwitchOwns, SwitchKinds, CandidateRuns, Dialing, Saving
<1>. QED  BY Running, <1>1, PTL

\* When Close returns and no wait of the shutdown timed out, every tunnel is
\* closed: async.Wait and the second look at the session left none behind.
THEOREM CloseLeavesNothing == Spec => []ClosedLeavesNoTunnel
<1>1. RunInv => ClosedLeavesNoTunnel
  <2>. SUFFICES ASSUME RunInv, pc[Closer] = "closed", ~expired, NEW s \in Sessions PROVE ~Unclosed(s)
    BY DEF ClosedLeavesNoTunnel
  <2>1. pc[Closer] \in FromWait /\ EndInv /\ HandsInv /\ SessionOwnership
    BY DEF FromWait, RunInv, Inv
  <2>2. session = None /\ s # None
    BY <2>1, NamesAssumption DEF EndInv, StagesInv, Actors
  <2>3. ASSUME NEW a \in Actors PROVE held[a] = None
    <3>1. pc[a] \in {"idle", "done", "off", "closed"}
      BY <2>1, NobodyWorks
    <3>. QED  BY <2>1, <3>1 DEF HandsInv, Connected, Taken
  <2>. QED  BY <2>1, <2>2, <2>3 DEF SessionOwnership
<1>. QED  BY Running, <1>1, PTL

\* What failover installs for one session replaces that session, the one Start
\* restored or none: autoMu keeps every other connection away meanwhile.
THEOREM FailoverIsFor == Spec => FailoverSparesOthers
<1>1. ASSUME RunInv, NEW t \in Actors,
             job[t].kind = "failover", job[t].expected # None, pc[t] = "install"
      PROVE  session \in {None, job[t].expected, job[Starter].installed}
  <2>1. job[t].installed = None
    BY <1>1 DEF RunInv, Inv, HandsInv, Installing
  <2>2. Replaces(pc[t], job[t])
    BY <1>1, <2>1 DEF Replaces, SwitchOwns, SwitchKinds, Dialing
  <2>. QED  BY <1>1, <2>2 DEF RunInv, LocksInv, RoleInv
<1>2. RunInv /\ [Next]_vars =>
        [\A t \in Actors :
           (job[t].kind = "failover" /\ job[t].expected # None /\ pc[t] = "install"
              /\ session' = held[t])
             => session \in {None, job[t].expected, job[Starter].installed}]_vars
  BY <1>1
<1>. QED  BY Running, <1>2, PTL DEF Spec, FailoverSparesOthers
=============================================================================
