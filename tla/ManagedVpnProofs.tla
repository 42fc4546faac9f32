-------------------------- MODULE ManagedVpnProofs --------------------------
(***************************************************************************)
(* Proofs about the VPN manager for every set of nodes, protocols, tunnels *)
(* and goroutines and every bound: Inv is an inductive invariant, and with *)
(* it type correctness and the safety properties of ManagedVpn.            *)
(***************************************************************************)
EXTENDS ManagedVpn, TLAPS
-----------------------------------------------------------------------------
(* Types: lemmas about the operators the actions are built from.            *)

\* A part of the type invariant whose variables do not change still holds.
LEMMA PartsStay ==
  /\ RoutingTypeOK /\ UNCHANGED routing => RoutingTypeOK'
  /\ ChoiceTypeOK /\ UNCHANGED choice => ChoiceTypeOK'
  /\ AttemptTypeOK /\ UNCHANGED <<attempts, state>> => AttemptTypeOK'
  /\ LockTypeOK /\ UNCHANGED <<locks, async, closing>> => LockTypeOK'
  /\ GoroutineTypeOK /\ UNCHANGED <<pc, job, held, cancelled>> => GoroutineTypeOK'
  /\ WorldTypeOK /\ UNCHANGED <<tunnels, contexts, database, environment>> => WorldTypeOK'
  BY DEF routing, choice, attempts, locks, tunnels, contexts, database, environment,
         RoutingTypeOK, ChoiceTypeOK, AttemptTypeOK, LockTypeOK, GoroutineTypeOK, WorldTypeOK

\* The fields of a goroutine's locals.
LEMMA JobFields ==
  ASSUME NEW j \in Jobs
  PROVE  /\ j.kind \in Kinds /\ j.node \in Nodes \cup {None}
         /\ j.selection \in {"auto", "manual"} /\ j.forced \in Protocols \cup {None}
         /\ j.todo \in SUBSET Protocols /\ j.attempt \in Nat
         /\ j.protocol \in Protocols \cup {None} /\ j.expected \in Sessions \cup {None}
         /\ j.installed \in Sessions \cup {None} /\ j.generation \in Nat
         /\ j.candidates \in NodeTables
  BY DEF Jobs

\* What connectNode may try is a set of protocols, whatever the node offers.
LEMMA TriesType ==
  ASSUME NEW offered, NEW forced PROVE Tries(offered, forced) \in SUBSET Protocols
  BY SetsAssumption DEF Tries

\* The locals a goroutine starts with have their type.
LEMMA JobType ==
  ASSUME NEW kind \in Kinds, NEW n \in Nodes \cup {None}, NEW mode \in {"auto", "manual"},
         NEW forced \in Protocols \cup {None}, NEW todo \in SUBSET Protocols
  PROVE  Job(kind, n, mode, forced, todo) \in Jobs
  BY DEF Job, Jobs, NodeTables

\* So do the locals of a goroutine that has returned.
LEMMA NoJobType == NoJob \in Jobs
  BY JobType DEF NoJob, Kinds

\* The assignments to locals keep their type.
LEMMA JobUpdates ==
  ASSUME NEW j \in Jobs
  PROVE  /\ \A k \in Kinds : [j EXCEPT !.kind = k] \in Jobs
         /\ \A n \in Nodes \cup {None} : [j EXCEPT !.node = n] \in Jobs
         /\ \A a \in Nat : [j EXCEPT !.attempt = a] \in Jobs
         /\ \A d \in SUBSET Protocols : [j EXCEPT !.todo = d] \in Jobs
         /\ \A c \in NodeTables : [j EXCEPT !.candidates = c] \in Jobs
         /\ \A d \in SUBSET Protocols, k \in Kinds :
              [j EXCEPT !.kind = k, !.todo = d] \in Jobs
         /\ \A d \in SUBSET Protocols, p \in Protocols :
              [j EXCEPT !.todo = d, !.protocol = p] \in Jobs
         /\ \A s \in Sessions \cup {None}, g \in Nat :
              [j EXCEPT !.installed = s, !.generation = g] \in Jobs
         /\ \A k \in Kinds, s \in Sessions \cup {None} :
              [j EXCEPT !.kind = k, !.expected = s] \in Jobs
  BY DEF Jobs

\* Assignments of three locals at once keep their type as well.
LEMMA JobUpdates3 ==
  ASSUME NEW j \in Jobs
  PROVE  /\ \A k \in Kinds, s \in Sessions \cup {None}, g \in Nat :
              [j EXCEPT !.kind = k, !.expected = s, !.generation = g] \in Jobs
         /\ \A n \in Nodes \cup {None}, d \in SUBSET Protocols, c \in NodeTables :
              [j EXCEPT !.node = n, !.todo = d, !.candidates = c] \in Jobs
         /\ \A k \in Kinds, n \in Nodes \cup {None}, c \in NodeTables :
              [j EXCEPT !.kind = k, !.node = n, !.candidates = c] \in Jobs
  BY DEF Jobs

\* What TypeOK says of one goroutine.
LEMMA ActorTypes ==
  ASSUME TypeOK, NEW t \in Actors
  PROVE  job[t] \in Jobs /\ pc[t] \in Labels /\ held[t] \in Sessions \cup {None}
  BY DEF TypeOK, GoroutineTypeOK

\* A goroutine that returns leaves goroutines and locks well typed.
LEMMA ExitType ==
  ASSUME TypeOK, NEW t \in Actors, Exit(t), UNCHANGED <<held, cancelled>>
  PROVE  GoroutineTypeOK' /\ async' \subseteq Actors
  BY NoJobType DEF TypeOK, GoroutineTypeOK, LockTypeOK, Exit, Labels

\* A step that only moves one goroutine and assigns its locals.
LEMMA MoveType ==
  ASSUME TypeOK, NEW t \in Actors, NEW l \in Labels, NEW j \in Jobs, Goto(t, l),
         job' = [job EXCEPT ![t] = j], UNCHANGED <<held, cancelled>>
  PROVE  GoroutineTypeOK'
  BY DEF TypeOK, GoroutineTypeOK, Goto

\* Moving a goroutine to another place of the code keeps the types.
LEMMA GotoType ==
  ASSUME TypeOK, NEW t \in Actors, NEW l \in Labels, Goto(t, l), UNCHANGED <<job, held, cancelled>>
  PROVE  GoroutineTypeOK'
  BY DEF TypeOK, GoroutineTypeOK, Goto

\* Closing the session in hand keeps the types of hands and tunnels.
LEMMA CloseHeldType ==
  ASSUME TypeOK, NEW t \in Actors, CloseHeld(t)
  PROVE  /\ sess' \in [Sessions -> {"none", "open", "ended", "closed"}]
         /\ held' \in [Actors -> Sessions \cup {None}]
  BY DEF TypeOK, GoroutineTypeOK, WorldTypeOK, CloseHeld
-----------------------------------------------------------------------------
(* Types: the steps of the manager's methods.                               *)

\* Every step of activate, connectNode, install and of a candidate keeps the
\* types.
LEMMA ConnectTypes ==
  ASSUME TypeOK, HandsInv, NEW t \in Actors, ConnectStep(t), UNCHANGED environment
  PROVE  TypeOK'
<1>. DEFINE j == job[t]
<1>0. j \in Jobs
  BY ActorTypes
<1>1. CASE CandidateTurn(t)
  <2>1. GoroutineTypeOK' /\ LockTypeOK'
    BY <1>1, ExitType DEF CandidateTurn, TypeOK, GoroutineTypeOK, LockTypeOK, Goto, Labels
  <2>. QED  BY <1>1, <2>1, PartsStay DEF TypeOK, CandidateTurn, manager
<1>2. CASE FinishConnectAttempt(t)
  <2>1. GoroutineTypeOK' /\ LockTypeOK'
    BY <1>2, ExitType DEF FinishConnectAttempt, TypeOK, LockTypeOK
  <2>2. AttemptTypeOK'
    BY <1>2 DEF FinishConnectAttempt, TypeOK, AttemptTypeOK
  <2>. QED  BY <1>2, <2>1, <2>2, PartsStay DEF TypeOK, FinishConnectAttempt
<1>3. CASE Activate(t)
  <2>1. GoroutineTypeOK' /\ LockTypeOK' /\ AttemptTypeOK'
    BY <1>3 DEF Activate, TypeOK, GoroutineTypeOK, LockTypeOK, AttemptTypeOK, attempts, Goto, Labels
  <2>. QED  BY <1>3, <2>1, PartsStay DEF TypeOK, Activate
<1>4. CASE DialFails(t)
  <2>1. PICK p \in j.todo : job' = [job EXCEPT ![t].todo = @ \ {p}]
    BY <1>4 DEF DialFails
  <2>2. [j EXCEPT !.todo = @ \ {p}] \in Jobs
    BY <1>0, JobFields, JobUpdates
  <2>3. GoroutineTypeOK'
    BY <1>4, <2>1, <2>2 DEF DialFails, TypeOK, GoroutineTypeOK
  <2>. QED  BY <1>4, <2>3, PartsStay DEF TypeOK, DialFails, manager
<1>5. CASE DialSucceeds(t)
  <2>1. PICK p \in j.todo, s \in Sessions :
          /\ sess' = [sess EXCEPT ![s] = "open"]
          /\ held' = [held EXCEPT ![t] = s]
          /\ job' = [job EXCEPT ![t].todo = @ \ {p}, ![t].protocol = p]
    BY <1>5 DEF DialSucceeds
  <2>2. [j EXCEPT !.todo = @ \ {p}, !.protocol = p] \in Jobs
    BY <1>0, JobFields, JobUpdates
  <2>3. GoroutineTypeOK'
    BY <1>5, <2>1, <2>2 DEF DialSucceeds, TypeOK, GoroutineTypeOK, Goto, Labels
  <2>4. WorldTypeOK'
    BY <1>5, <2>1 DEF DialSucceeds, TypeOK, WorldTypeOK, contexts, database, environment
  <2>. QED  BY <1>5, <2>3, <2>4, PartsStay DEF TypeOK, DialSucceeds, manager
<1>6. CASE ProbeSucceeds(t)
  <2>1. held[t] \in Sessions
    BY <1>6, ActorTypes DEF ProbeSucceeds, HandsInv, Connected
  <2>2. GoroutineTypeOK' /\ WorldTypeOK'
    BY <1>6, <2>1 DEF ProbeSucceeds, TypeOK, GoroutineTypeOK, WorldTypeOK, contexts, database,
                      environment, tunnels, Goto, Labels
  <2>. QED  BY <1>6, <2>2, PartsStay DEF TypeOK, ProbeSucceeds, manager
<1>7. CASE ProbeFails(t)
  <2>1. GoroutineTypeOK' /\ WorldTypeOK'
    BY <1>7, CloseHeldType DEF ProbeFails, TypeOK, GoroutineTypeOK, WorldTypeOK, contexts,
                               database, environment, Goto, Labels
  <2>. QED  BY <1>7, <2>1, PartsStay DEF TypeOK, ProbeFails, manager
<1>8. CASE ConnectFails(t)
  <2>1. GoroutineTypeOK' /\ LockTypeOK'
    BY <1>8 DEF ConnectFails, AfterFailure, TypeOK, GoroutineTypeOK, LockTypeOK, Goto, Labels
  <2>. QED  BY <1>8, <2>1, PartsStay DEF TypeOK, ConnectFails, manager
<1>9. CASE SetError(t)
  <2>1. GoroutineTypeOK' /\ LockTypeOK' /\ AttemptTypeOK'
    BY <1>9 DEF SetError, AfterFailure, TypeOK, GoroutineTypeOK, LockTypeOK, AttemptTypeOK,
                attempts, Goto, Labels
  <2>. QED  BY <1>9, <2>1, PartsStay DEF TypeOK, SetError
<1>10. ASSUME Abandon(t) PROVE TypeOK'
  <2>1. GoroutineTypeOK' /\ WorldTypeOK'
    BY <1>10, CloseHeldType DEF Abandon, AfterFailure, TypeOK, GoroutineTypeOK, WorldTypeOK,
                                contexts, database, environment, Goto, Labels
  <2>2. LockTypeOK'
    BY <1>10 DEF Abandon, TypeOK, LockTypeOK
  <2>. QED  BY <1>10, <2>1, <2>2, PartsStay DEF TypeOK, Abandon, manager
<1>11. CASE CheckContext(t)
  <2>1. CASE Abandon(t)
    BY <2>1, <1>10
  <2>2. CASE ~Abandon(t)
    <3>1. GoroutineTypeOK'
      BY <1>11, <2>2 DEF CheckContext, TypeOK, GoroutineTypeOK, Goto, Labels
    <3>. QED  BY <1>11, <2>2, <3>1, PartsStay DEF TypeOK, CheckContext, manager
  <2>. QED  BY <2>1, <2>2
<1>12. CASE RefuseInstall(t)
  BY <1>12, <1>10 DEF RefuseInstall
<1>13. CASE Install(t)
  <2>1. held[t] \in Sessions \cup {None} /\ generation + 1 \in Nat
    BY ActorTypes DEF TypeOK, RoutingTypeOK
  <2>2. [j EXCEPT !.installed = held[t], !.generation = generation + 1] \in Jobs
    BY <1>0, <2>1, JobUpdates
  <2>3. GoroutineTypeOK'
    BY <1>13, <2>2 DEF TypeOK, GoroutineTypeOK, RoutingTypeOK, Install, Goto, Labels
  <2>4. RoutingTypeOK'
    BY <1>13, <2>1 DEF TypeOK, RoutingTypeOK, Install
  <2>5. ChoiceTypeOK'
    BY <1>0, <1>13, JobFields DEF ChoiceTypeOK, Install
  <2>6. AttemptTypeOK'
    BY <1>13 DEF TypeOK, AttemptTypeOK, Install, attempts
  <2>7. WorldTypeOK'
    BY <1>13 DEF TypeOK, WorldTypeOK, Install, DeleteIfStale, NodeTables, contexts, tunnels,
                 environment
  <2>. QED  BY <1>13, <2>3, <2>4, <2>5, <2>6, <2>7, PartsStay DEF TypeOK, Install
<1>14. CASE CloseTaken(t)
  <2>1. WorldTypeOK'
    BY <1>14, CloseHeldType DEF CloseTaken, TypeOK, WorldTypeOK, contexts, database, environment
  <2>2. GoroutineTypeOK' /\ LockTypeOK'
    BY <1>14, CloseHeldType, NoJobType
       DEF CloseTaken, TypeOK, GoroutineTypeOK, LockTypeOK, locks, Exit, Goto, Labels
  <2>. QED  BY <1>14, <2>1, <2>2, PartsStay DEF TypeOK, CloseTaken, manager
<1>15. CASE SaveMetadata(t)
  <2>1. ToSave(t) \in Selections
    BY <1>0 DEF Jobs, ToSave, Automatic, Selections
  <2>2. WorldTypeOK'
    BY <1>15, <2>1 DEF TypeOK, WorldTypeOK, SaveMetadata, Selections, tunnels, contexts, environment
  <2>3. GoroutineTypeOK'
    BY <1>15 DEF TypeOK, GoroutineTypeOK, SaveMetadata, Goto, Labels
  <2>. QED  BY <1>15, <2>2, <2>3, PartsStay DEF TypeOK, SaveMetadata, manager
<1>16. CASE StartWatcher(t)
  <2>. DEFINE s == j.installed
  <2>1. s \in Sessions /\ s \in Actors
    BY <1>16, <1>0, JobFields DEF StartWatcher, HandsInv, Actors
  <2>2. [job[s] EXCEPT !.kind = "failover", !.expected = s, !.generation = j.generation] \in Jobs
    BY <1>0, <2>1, ActorTypes, JobFields, JobUpdates3 DEF Kinds
  <2>3. AfterSuccess(t) \in Labels
    BY DEF AfterSuccess, Labels
  <2>4. pc' \in [Actors -> Labels]
    BY <1>16, <2>3 DEF StartWatcher, TypeOK, GoroutineTypeOK, Goto, Labels
  <2>5. job' \in [Actors -> Jobs]
    BY <1>16, <2>1, <2>2 DEF StartWatcher, TypeOK, GoroutineTypeOK
  <2>6. GoroutineTypeOK'
    BY <1>16, <2>4, <2>5 DEF StartWatcher, TypeOK, GoroutineTypeOK
  <2>7. LockTypeOK'
    BY <1>16, <2>1 DEF StartWatcher, TypeOK, LockTypeOK
  <2>. QED  BY <1>16, <2>6, <2>7, PartsStay DEF TypeOK, StartWatcher, manager
<1>. QED
  BY <1>1, <1>2, <1>3, <1>4, <1>5, <1>6, <1>7, <1>8, <1>9, <1>11, <1>12, <1>13, <1>14, <1>15,
     <1>16 DEF ConnectStep

\* Every step of switchAutomatic, failover and setAutomatic keeps the types.
LEMMA SwitchTypes ==
  ASSUME TypeOK, NEW t \in Actors, SwitchStep(t), UNCHANGED environment
  PROVE  TypeOK'
<1>. DEFINE j == job[t]
<1>0. j \in Jobs
  BY ActorTypes
<1>1. ASSUME BeginSwitch(t) PROVE TypeOK'
  <2>1. GoroutineTypeOK'
    BY <1>1, NoJobType DEF BeginSwitch, TypeOK, GoroutineTypeOK, Exit, Goto, Labels
  <2>2. LockTypeOK' /\ AttemptTypeOK'
    BY <1>1 DEF BeginSwitch, TypeOK, LockTypeOK, AttemptTypeOK, Exit
  <2>. QED  BY <1>1, <2>1, <2>2, PartsStay DEF TypeOK, BeginSwitch
<1>2. CASE SwitchAutomatic(t) \/ SwitchAfterFailover(t)
  BY <1>1, <1>2 DEF SwitchAutomatic, SwitchAfterFailover
<1>3. CASE RankedNodes(t)
  <2>1. job' \in [Actors -> Jobs]
    <3>1. CASE UNCHANGED job
      BY <3>1 DEF TypeOK, GoroutineTypeOK
    <3>2. CASE ~UNCHANGED job
      <4>1. PICK top \in SUBSET Listed :
              job' = [job EXCEPT ![t].candidates =
                        [n \in Nodes |-> IF n \in top THEN store[n] ELSE {}]]
        BY <1>3, <3>2 DEF RankedNodes
      <4>2. [n \in Nodes |-> IF n \in top THEN store[n] ELSE {}] \in NodeTables
        BY DEF TypeOK, WorldTypeOK, NodeTables
      <4>3. [j EXCEPT !.candidates = [n \in Nodes |-> IF n \in top THEN store[n] ELSE {}]] \in Jobs
        BY <1>0, <4>2, JobUpdates
      <4>. QED  BY <4>1, <4>3 DEF TypeOK, GoroutineTypeOK
    <3>. QED  BY <3>1, <3>2
  <2>2. GoroutineTypeOK'
    BY <1>3, <2>1 DEF RankedNodes, TypeOK, GoroutineTypeOK, Goto, Labels
  <2>. QED  BY <1>3, <2>2, PartsStay DEF TypeOK, RankedNodes, manager
<1>4. CASE NextNode(t)
  <2>1. PICK n \in Untried(t) :
          job' = [job EXCEPT ![t].node = n, ![t].todo = Tries(j.candidates[n], None),
                             ![t].candidates = [@ EXCEPT ![n] = {}]]
    BY <1>4 DEF NextNode
  <2>2. n \in Nodes /\ Tries(j.candidates[n], None) \in SUBSET Protocols
    BY TriesType DEF Untried
  <2>3. [j.candidates EXCEPT ![n] = {}] \in NodeTables
    BY <1>0, <2>2, JobFields DEF NodeTables
  <2>4. [j EXCEPT !.node = n, !.todo = Tries(j.candidates[n], None),
                  !.candidates = [j.candidates EXCEPT ![n] = {}]] \in Jobs
    BY <1>0, <2>2, <2>3, JobUpdates3
  <2>5. GoroutineTypeOK'
    BY <1>4, <2>1, <2>4 DEF NextNode, TypeOK, GoroutineTypeOK, Goto, Labels
  <2>. QED  BY <1>4, <2>5, PartsStay DEF TypeOK, NextNode, manager
<1>5. CASE StopSwitch(t)
  <2>1. GoroutineTypeOK'
    BY <1>5 DEF StopSwitch, TypeOK, GoroutineTypeOK, Goto, Labels
  <2>. QED  BY <1>5, <2>1, PartsStay DEF TypeOK, StopSwitch, manager
<1>6. CASE RecordError(t)
  <2>1. GoroutineTypeOK' /\ AttemptTypeOK'
    BY <1>6 DEF RecordError, TypeOK, GoroutineTypeOK, AttemptTypeOK, attempts, Goto, Labels
  <2>. QED  BY <1>6, <2>1, PartsStay DEF TypeOK, RecordError
<1>7. CASE EndSwitch(t)
  <2>1. GoroutineTypeOK' /\ LockTypeOK'
    BY <1>7, ExitType DEF EndSwitch, TypeOK, LockTypeOK
  <2>2. AttemptTypeOK'
    BY <1>7 DEF EndSwitch, TypeOK, AttemptTypeOK
  <2>. QED  BY <1>7, <2>1, <2>2, PartsStay DEF TypeOK, EndSwitch
<1>8. CASE FailoverLock(t)
  <2>1. GoroutineTypeOK' /\ LockTypeOK'
    BY <1>8 DEF FailoverLock, TypeOK, GoroutineTypeOK, LockTypeOK, Goto, Labels
  <2>. QED  BY <1>8, <2>1, PartsStay DEF TypeOK, FailoverLock, manager
<1>9. CASE IgnoreFailover(t)
  <2>1. GoroutineTypeOK' /\ LockTypeOK'
    BY <1>9, ExitType DEF IgnoreFailover, TypeOK, LockTypeOK
  <2>. QED  BY <1>9, <2>1, PartsStay DEF TypeOK, IgnoreFailover, manager
<1>10. CASE Failover(t)
  <2>1. GoroutineTypeOK'
    BY <1>10 DEF Failover, TypeOK, GoroutineTypeOK, RoutingTypeOK, Goto, Labels
  <2>2. RoutingTypeOK'
    <3>1. /\ connectionPaused' = connectionPaused
          /\ \/ session' = None /\ generation' = generation + 1 /\ directMode' = TRUE
             \/ UNCHANGED <<session, generation, directMode>>
      BY <1>10 DEF Failover
    <3>2. generation' \in Nat
      BY <3>1 DEF TypeOK, RoutingTypeOK
    <3>3. session' \in Sessions \cup {None} /\ directMode' \in BOOLEAN
      BY <3>1 DEF TypeOK, RoutingTypeOK
    <3>. QED  BY <3>1, <3>2, <3>3 DEF TypeOK, RoutingTypeOK
  <2>3. ChoiceTypeOK'
    BY <1>10 DEF Failover, ForgetManual, TypeOK, ChoiceTypeOK
  <2>4. AttemptTypeOK' /\ LockTypeOK'
    BY <1>10 DEF Failover, TypeOK, AttemptTypeOK, LockTypeOK, attempts
  <2>. QED  BY <1>10, <2>1, <2>2, <2>3, <2>4, PartsStay DEF TypeOK, Failover
<1>11. CASE SetAutomatic(t)
  <2>1. GoroutineTypeOK' /\ ChoiceTypeOK'
    BY <1>11 DEF SetAutomatic, ForgetManual, TypeOK, GoroutineTypeOK, ChoiceTypeOK, Goto, Labels
  <2>. QED  BY <1>11, <2>1, PartsStay DEF TypeOK, SetAutomatic
<1>12. CASE StartSwitch(t)
  <2>1. Job("auto", None, "auto", None, {}) \in Jobs
    BY JobType DEF Kinds
  <2>2. GoroutineTypeOK'
    BY <1>12, <2>1 DEF StartSwitch, TypeOK, GoroutineTypeOK, Goto, Labels
  <2>. QED  BY <1>12, <2>2, PartsStay DEF TypeOK, StartSwitch, manager
<1>. QED
  BY <1>2, <1>3, <1>4, <1>5, <1>6, <1>7, <1>8, <1>9, <1>10, <1>11, <1>12 DEF SwitchStep

\* Every step that only handlers and the refresher take keeps the types.
LEMMA TaskTypes ==
  ASSUME TypeOK, NEW t \in Tasks, TaskStep(t), UNCHANGED environment
  PROVE  TypeOK'
<1>. DEFINE j == job[t]
<1>0. t \in Actors /\ Monitor \in Actors /\ j \in Jobs
  BY ActorTypes DEF Actors
<1>1. ASSUME NEW found \in Labels, NEW missing \in Labels, Lookup(t, found, missing),
             UNCHANGED <<held, cancelled>>
      PROVE  GoroutineTypeOK' /\ async' \subseteq Actors
  <2>1. Tries(store[j.node], j.forced) \in SUBSET Protocols
    BY TriesType
  <2>2. [j EXCEPT !.kind = "candidate", !.todo = Tries(store[j.node], j.forced)] \in Jobs
    BY <1>0, <2>1, JobUpdates DEF Kinds
  <2>3. CASE store[j.node] # {}
    <3>1. job' \in [Actors -> Jobs] /\ pc' \in [Actors -> Labels]
      BY <1>1, <2>2, <2>3 DEF Lookup, TypeOK, GoroutineTypeOK, Goto
    <3>. QED  BY <1>1, <2>3, <3>1 DEF Lookup, TypeOK, GoroutineTypeOK, LockTypeOK
  <2>4. CASE store[j.node] = {}
    BY <1>0, <1>1, <2>4, ExitType, GotoType DEF Lookup, TypeOK, LockTypeOK
  <2>. QED  BY <2>3, <2>4
<1>2. CASE ReconnectLookup(t)
  <2>1. GoroutineTypeOK' /\ LockTypeOK'
    BY <1>2, <1>1 DEF ReconnectLookup, Labels, TypeOK, LockTypeOK, locks
  <2>. QED  BY <1>2, <2>1, PartsStay DEF TypeOK, ReconnectLookup, manager
<1>3. CASE ResumeLookup(t)
  <2>1. GoroutineTypeOK' /\ LockTypeOK'
    BY <1>3, <1>1 DEF ResumeLookup, Labels, TypeOK, LockTypeOK, locks
  <2>. QED  BY <1>3, <2>1, PartsStay DEF TypeOK, ResumeLookup, manager
<1>4. CASE RejectCandidate(t)
  <2>1. GoroutineTypeOK' /\ LockTypeOK'
    BY <1>0, <1>4, ExitType DEF RejectCandidate, TypeOK, LockTypeOK, locks
  <2>. QED  BY <1>4, <2>1, PartsStay DEF TypeOK, RejectCandidate, manager
<1>5. CASE StartCandidate(t)
  <2>1. connectAttempt + 1 \in Nat
    BY DEF TypeOK, AttemptTypeOK
  <2>2. [j EXCEPT !.attempt = connectAttempt + 1] \in Jobs
    BY <1>0, <2>1, JobUpdates
  <2>3. GoroutineTypeOK'
    BY <1>5, <2>2 DEF StartCandidate, Cancellable, TypeOK, GoroutineTypeOK, AttemptTypeOK,
                      Goto, Labels
  <2>4. AttemptTypeOK' /\ RoutingTypeOK'
    BY <1>0, <1>5, <2>1, JobFields DEF StartCandidate, TypeOK, AttemptTypeOK, RoutingTypeOK
  <2>. QED  BY <1>5, <2>3, <2>4, PartsStay DEF TypeOK, StartCandidate
<1>6. CASE RunAsync(t)
  <2>1. GoroutineTypeOK' /\ LockTypeOK'
    BY <1>0, <1>6 DEF RunAsync, TypeOK, GoroutineTypeOK, LockTypeOK, locks, Goto, Labels
  <2>. QED  BY <1>6, <2>1, PartsStay DEF TypeOK, RunAsync, manager
<1>7. CASE RefuseAsync(t)
  <2>1. GoroutineTypeOK' /\ LockTypeOK'
    BY <1>7, NoJobType DEF RefuseAsync, TypeOK, GoroutineTypeOK, LockTypeOK, locks, Exit, Goto, Labels
  <2>. QED  BY <1>7, <2>1, PartsStay DEF TypeOK, RefuseAsync, manager
<1>8. CASE ReplaceNodes(t)
  <2>1. Job("refresh", None, "auto", None, {}) \in Jobs
    BY JobType DEF Kinds
  <2>2. GoroutineTypeOK' /\ LockTypeOK'
    BY <1>8, <2>1, NoJobType
       DEF ReplaceNodes, TypeOK, GoroutineTypeOK, LockTypeOK, locks, Exit, Goto, Labels
  <2>3. j.candidates \in NodeTables
    BY <1>0, JobFields
  <2>4. WorldTypeOK'
    BY <1>8, <2>3 DEF ReplaceNodes, TypeOK, WorldTypeOK, NodeTables, Listed, tunnels, contexts,
                      environment
  <2>. QED  BY <1>8, <2>2, <2>4, PartsStay DEF TypeOK, ReplaceNodes, manager
<1>9. CASE AfterRefresh(t)
  <2>1. [j EXCEPT !.kind = "follow"] \in Jobs /\ [j EXCEPT !.node = node] \in Jobs
    BY <1>0, JobUpdates DEF TypeOK, ChoiceTypeOK, Kinds
  <2>2. GoroutineTypeOK' /\ LockTypeOK'
    <3>1. CASE Exit(t)
      BY <1>0, <1>9, <3>1, ExitType DEF AfterRefresh, TypeOK, LockTypeOK, locks
    <3>2. CASE ~Exit(t)
      <4>1. job' \in [Actors -> Jobs]
        BY <1>9, <2>1, <3>2 DEF AfterRefresh, TypeOK, GoroutineTypeOK
      <4>2. pc' \in [Actors -> Labels]
        BY <1>9, <3>2 DEF AfterRefresh, TypeOK, GoroutineTypeOK, Goto, Labels
      <4>. QED  BY <1>9, <3>2, <4>1, <4>2
                DEF AfterRefresh, TypeOK, GoroutineTypeOK, LockTypeOK, locks
    <3>. QED  BY <3>1, <3>2
  <2>. QED  BY <1>9, <2>2, PartsStay DEF TypeOK, AfterRefresh, manager
<1>10. CASE LookupActive(t)
  <2>1. [j EXCEPT !.kind = "failover"] \in Jobs
    BY <1>0, JobUpdates DEF Kinds
  <2>2. GoroutineTypeOK' /\ LockTypeOK'
    BY <1>10, <2>1, NoJobType
       DEF LookupActive, TypeOK, GoroutineTypeOK, LockTypeOK, locks, Exit, Goto, Labels
  <2>. QED  BY <1>10, <2>2, PartsStay DEF TypeOK, LookupActive, manager
<1>11. CASE StartMonitor(t)
  <2>1. GoroutineTypeOK' /\ WorldTypeOK'
    BY <1>11, NoJobType DEF StartMonitor, TypeOK, GoroutineTypeOK, WorldTypeOK, tunnels,
                            database, environment, Labels
  <2>. QED  BY <1>11, <2>1, PartsStay DEF TypeOK, StartMonitor, manager
<1>. QED
  BY <1>2, <1>3, <1>4, <1>5, <1>6, <1>7, <1>8, <1>9, <1>10, <1>11 DEF TaskStep

\* The first step of every request and of a refresh keeps the types.
LEMMA HandlerTypes ==
  ASSUME TypeOK, NEW t \in Tasks, HandlerStarts(t)
  PROVE  TypeOK'
<1>. DEFINE j == job[t]
<1>0. t \in Actors /\ j \in Jobs
  BY ActorTypes DEF Actors
<1>a. expired' = expired /\ calls' \in Nat /\ refreshes' = refreshes
  BY DEF HandlerStarts, Arrives, TypeOK, WorldTypeOK
<1>b. ASSUME UNCHANGED <<tunnels, contexts, database>> PROVE WorldTypeOK'
  BY <1>a, <1>b DEF TypeOK, WorldTypeOK, tunnels, contexts, database
<1>1. CASE SelectManual(t)
  <2>1. PICK n \in Listed, forced \in Protocols \cup {None} :
          job' = [job EXCEPT ![t] = Job("candidate", n, "manual", forced, Tries(store[n], forced))]
    BY <1>1 DEF SelectManual
  <2>2. Job("candidate", n, "manual", forced, Tries(store[n], forced)) \in Jobs
    BY TriesType, JobType DEF Listed, Kinds
  <2>3. GoroutineTypeOK'
    BY <1>1, <2>1, <2>2 DEF SelectManual, TypeOK, GoroutineTypeOK, Goto, Labels
  <2>. QED  BY <1>1, <1>b, <2>3, PartsStay DEF TypeOK, SelectManual, manager
<1>2. CASE ReconnectCurrent(t)
  <2>1. Job("candidate", node, selection, protocol, {}) \in Jobs
    BY JobType DEF TypeOK, ChoiceTypeOK, Kinds
  <2>2. GoroutineTypeOK'
    BY <1>2, <2>1 DEF ReconnectCurrent, TypeOK, GoroutineTypeOK, Goto, Labels
  <2>. QED  BY <1>2, <1>b, <2>2, PartsStay DEF TypeOK, ReconnectCurrent, manager
<1>3. CASE PauseConnection(t)
  <2>1. [j EXCEPT !.kind = "pause"] \in Jobs
    BY <1>0, JobUpdates DEF Kinds
  <2>2. GoroutineTypeOK'
    BY <1>3, <2>1 DEF PauseConnection, Cancellable, TypeOK, GoroutineTypeOK, RoutingTypeOK,
                      AttemptTypeOK, Goto, Labels
  <2>3. RoutingTypeOK' /\ AttemptTypeOK'
    BY <1>3 DEF PauseConnection, TypeOK, RoutingTypeOK, AttemptTypeOK
  <2>. QED  BY <1>3, <1>b, <2>2, <2>3, PartsStay DEF TypeOK, PauseConnection
<1>4. CASE ResumeConnection(t)
  <2>1. /\ Job("resume", manualIP, "manual", manualProtocol, {}) \in Jobs
        /\ [j EXCEPT !.kind = "auto"] \in Jobs
    BY <1>0, JobType, JobUpdates DEF TypeOK, ChoiceTypeOK, Kinds
  <2>2. GoroutineTypeOK'
    BY <1>4, <2>1 DEF ResumeConnection, TypeOK, GoroutineTypeOK, Goto, Labels
  <2>3. RoutingTypeOK' /\ AttemptTypeOK'
    BY <1>4 DEF ResumeConnection, TypeOK, RoutingTypeOK, AttemptTypeOK, attempts
  <2>. QED  BY <1>4, <1>b, <2>2, <2>3, PartsStay DEF TypeOK, ResumeConnection
<1>5. CASE RestartMonitor(t)
  <2>1. [j EXCEPT !.kind = "restart"] \in Jobs
    BY <1>0, JobUpdates DEF Kinds
  <2>2. GoroutineTypeOK'
    BY <1>5, <2>1 DEF RestartMonitor, TypeOK, GoroutineTypeOK, Goto, Labels
  <2>3. WorldTypeOK'
    BY <1>5, <1>a DEF RestartMonitor, TypeOK, WorldTypeOK, tunnels, database
  <2>. QED  BY <1>5, <2>2, <2>3, PartsStay DEF TypeOK, RestartMonitor, manager
<1>. QED
  BY <1>1, <1>2, <1>3, <1>4, <1>5 DEF HandlerStarts

\* Tunnels that end, the monitor interval, cancellation and the shutdown
\* deadline keep the types.
LEMMA WorldTypes ==
  ASSUME TypeOK,
         \/ \E t \in Tasks : FetchNodes(t) \/ (RestartTimesOut(t) /\ UNCHANGED environment)
         \/ \E s \in Sessions : TunnelEnds(s) \/ (WatcherWakes(s) /\ UNCHANGED environment)
         \/ CancelApp \/ ShutdownExpires
  PROVE  TypeOK'
<1>1. ASSUME NEW t \in Tasks, FetchNodes(t) PROVE TypeOK'
  <2>1. t \in Actors /\ job[t] \in Jobs /\ PreservedIP \in Nodes \cup {None}
    BY ActorTypes DEF Actors, PreservedIP, TypeOK, ChoiceTypeOK
  <2>2. PICK snapshot \in Snapshots :
          job' = [job EXCEPT ![t].kind = "refresh", ![t].node = PreservedIP,
                             ![t].candidates = snapshot]
    BY <1>1 DEF FetchNodes
  <2>3. [job[t] EXCEPT !.kind = "refresh", !.node = PreservedIP, !.candidates = snapshot] \in Jobs
    BY <2>1, EnvironmentAssumption, JobUpdates3 DEF Kinds
  <2>4. GoroutineTypeOK'
    <3>1. job' \in [Actors -> Jobs]
      BY <2>2, <2>3 DEF TypeOK, GoroutineTypeOK
    <3>. QED  BY <1>1, <3>1 DEF FetchNodes, TypeOK, GoroutineTypeOK, Goto, Labels
  <2>5. WorldTypeOK'
    <3>1. /\ UNCHANGED <<tunnels, contexts, database, expired, calls>>
          /\ refreshes' = refreshes + 1
      BY <1>1 DEF FetchNodes
    <3>. QED  BY <3>1 DEF TypeOK, WorldTypeOK, tunnels, contexts, database
  <2>. QED  BY <1>1, <2>4, <2>5, PartsStay DEF TypeOK, FetchNodes, manager
<1>2. ASSUME NEW t \in Tasks, RestartTimesOut(t), UNCHANGED environment PROVE TypeOK'
  <2>1. GoroutineTypeOK' /\ LockTypeOK'
    BY <1>2, ExitType DEF RestartTimesOut, Actors, TypeOK, LockTypeOK, locks
  <2>. QED  BY <1>2, <2>1, PartsStay DEF TypeOK, RestartTimesOut, manager
<1>3. ASSUME NEW s \in Sessions, TunnelEnds(s) PROVE TypeOK'
  <2>1. WorldTypeOK'
    BY <1>3 DEF TunnelEnds, TypeOK, WorldTypeOK, contexts, database, environment
  <2>. QED  BY <1>3, <2>1, PartsStay DEF TypeOK, TunnelEnds, manager
<1>4. ASSUME NEW s \in Sessions, WatcherWakes(s), UNCHANGED environment PROVE TypeOK'
  <2>1. GoroutineTypeOK' /\ LockTypeOK'
    BY <1>4, ExitType DEF WatcherWakes, Actors, TypeOK, GoroutineTypeOK, LockTypeOK, locks,
                          Goto, Labels
  <2>. QED  BY <1>4, <2>1, PartsStay DEF TypeOK, WatcherWakes, manager
<1>5. CASE CancelApp
  <2>1. GoroutineTypeOK' /\ WorldTypeOK'
    BY <1>5 DEF CancelApp, TypeOK, GoroutineTypeOK, WorldTypeOK, tunnels, database, environment,
                Goto, Labels
  <2>. QED  BY <1>5, <2>1, PartsStay DEF TypeOK, CancelApp, manager
<1>6. CASE ShutdownExpires
  <2>1. WorldTypeOK'
    BY <1>6 DEF ShutdownExpires, TypeOK, WorldTypeOK, managerVars, tunnels, contexts, database
  <2>. QED  BY <1>6, <2>1, PartsStay DEF TypeOK, ShutdownExpires, managerVars, manager
<1>. QED  BY <1>1, <1>2, <1>3, <1>4, <1>5, <1>6

\* The steps of Start, of the health-check service and of the shutdown keep
\* the types.
LEMMA ServiceTypes ==
  ASSUME TypeOK, StartStep \/ MonitorTick \/ MonitorStep \/ ShutdownStep
  PROVE  TypeOK'
<1>0. /\ Starter \in Actors /\ Monitor \in Actors /\ Closer \in Actors
      /\ job[Starter] \in Jobs /\ job[Monitor] \in Jobs
  BY ActorTypes DEF Actors
<1>1. CASE StartStep
  <2>1. CASE Start
    <3>1. /\ Job("restore", manualIP, "manual", manualProtocol, {}) \in Jobs
          /\ [job[Starter] EXCEPT !.kind = "auto"] \in Jobs
      BY <1>0, JobType, JobUpdates DEF TypeOK, ChoiceTypeOK, Kinds
    <3>2. GoroutineTypeOK'
      BY <2>1, <3>1 DEF Start, TypeOK, GoroutineTypeOK, Goto, Labels
    <3>. QED  BY <1>1, <2>1, <3>2, PartsStay DEF StartStep, Start, TypeOK, manager
  <2>2. CASE RestoreLookup
    <3>1. \A offered : [job[Starter] EXCEPT !.todo = Tries(offered, job[Starter].forced)] \in Jobs
      BY <1>0, TriesType, JobUpdates
    <3>2. GoroutineTypeOK'
      BY <2>2, <3>1 DEF RestoreLookup, TypeOK, GoroutineTypeOK, Goto, Labels
    <3>. QED  BY <1>1, <2>2, <3>2, PartsStay DEF StartStep, RestoreLookup, TypeOK, manager
  <2>3. CASE RestoreState
    <3>1. GoroutineTypeOK' /\ AttemptTypeOK'
      BY <2>3 DEF RestoreState, TypeOK, GoroutineTypeOK, AttemptTypeOK, attempts, Goto, Labels
    <3>. QED  BY <1>1, <2>3, <3>1, PartsStay DEF StartStep, RestoreState, TypeOK
  <2>. QED  BY <1>1, <2>1, <2>2, <2>3 DEF StartStep
<1>2. CASE MonitorTick
  <2>1. GoroutineTypeOK'
    BY <1>2 DEF MonitorTick, TypeOK, GoroutineTypeOK, Goto, Labels
  <2>. QED  BY <1>2, <2>1, PartsStay DEF MonitorTick, TypeOK, manager
<1>3. CASE MonitorStep
  <2>1. CASE CheckSession
    <3>1. [job[Monitor] EXCEPT !.kind = "failover", !.expected = session] \in Jobs
      BY <1>0, JobUpdates DEF TypeOK, RoutingTypeOK, Kinds
    <3>2. GoroutineTypeOK' /\ LockTypeOK'
      BY <1>0, <2>1, <3>1, ExitType DEF CheckSession, TypeOK, GoroutineTypeOK, LockTypeOK, locks,
                                        Goto, Labels
    <3>. QED  BY <1>3, <2>1, <3>2, PartsStay DEF MonitorStep, CheckSession, TypeOK, manager
  <2>2. CASE CheckPasses
    <3>1. GoroutineTypeOK' /\ LockTypeOK'
      BY <1>0, <2>2, ExitType DEF CheckPasses, TypeOK, LockTypeOK, locks
    <3>. QED  BY <1>3, <2>2, <3>1, PartsStay DEF MonitorStep, CheckPasses, TypeOK, manager
  <2>3. CASE CheckFails \/ MonitorExits
    <3>1. GoroutineTypeOK'
      BY <2>3 DEF CheckFails, MonitorExits, TypeOK, GoroutineTypeOK, Goto, Labels
    <3>. QED  BY <1>3, <2>3, <3>1, PartsStay DEF MonitorStep, CheckFails, MonitorExits, TypeOK, manager
  <2>. QED  BY <1>3, <2>1, <2>2, <2>3 DEF MonitorStep
<1>4. CASE ShutdownStep
  <2>1. ASSUME NEW from, NEW to \in Labels, Shutdown(from, to), monitorDone' \in BOOLEAN
        PROVE  TypeOK'
    <3>1. GoroutineTypeOK' /\ WorldTypeOK'
      BY <1>4, <2>1 DEF ShutdownStep, Shutdown, TypeOK, GoroutineTypeOK, WorldTypeOK, tunnels,
                        database, environment, Goto
    <3>. QED  BY <2>1, <3>1, PartsStay DEF Shutdown, TypeOK, manager
  <2>2. CASE StopListening \/ HTTPStopped \/ ServicesStopped \/ BackgroundStopped
    BY <2>1, <2>2 DEF StopListening, HTTPStopped, ServicesStopped, BackgroundStopped, Labels,
                      TypeOK, WorldTypeOK
  <2>3. CASE Close
    <3>1. GoroutineTypeOK' /\ LockTypeOK'
      BY <2>3 DEF Close, TypeOK, GoroutineTypeOK, LockTypeOK, locks, Goto, Labels
    <3>. QED  BY <1>4, <2>3, <3>1, PartsStay DEF ShutdownStep, Close, TypeOK, manager
  <2>4. CASE TakeSession
    <3>1. GoroutineTypeOK'
      BY <2>4 DEF TakeSession, Cancellable, TypeOK, GoroutineTypeOK, RoutingTypeOK,
                  AttemptTypeOK, Goto, Labels
    <3>2. RoutingTypeOK' /\ AttemptTypeOK'
      BY <2>4 DEF TakeSession, TypeOK, RoutingTypeOK, AttemptTypeOK
    <3>. QED  BY <1>4, <2>4, <3>1, <3>2, PartsStay DEF ShutdownStep, TakeSession, TypeOK
  <2>5. CASE TakeLateSession
    <3>1. GoroutineTypeOK'
      BY <2>5 DEF TakeLateSession, TypeOK, GoroutineTypeOK, RoutingTypeOK, Goto, Labels
    <3>2. RoutingTypeOK'
      BY <2>5 DEF TakeLateSession, TypeOK, RoutingTypeOK
    <3>. QED  BY <1>4, <2>5, <3>1, <3>2, PartsStay DEF ShutdownStep, TakeLateSession, TypeOK
  <2>. QED  BY <1>4, <2>2, <2>3, <2>4, <2>5 DEF ShutdownStep
<1>. QED  BY <1>1, <1>2, <1>3, <1>4

\* Every step of the specification keeps the types.
LEMMA StepTypes ==
  ASSUME TypeOK, HandsInv, [Next]_vars PROVE TypeOK'
<1>1. CASE UNCHANGED vars
  BY <1>1, PartsStay DEF vars, managerVars, manager, TypeOK
<1>2. ASSUME NEW a \in Actors, GoroutineStep(a) PROVE TypeOK'
  BY <1>2, ConnectTypes, SwitchTypes, TaskTypes, WorldTypes DEF GoroutineStep
<1>. QED
  BY <1>1, <1>2, HandlerTypes, WorldTypes, ServiceTypes DEF Next, AtRest
=============================================================================
