------------------------------ MODULE SpeedTest ------------------------------
(***************************************************************************)
(* The manual speed-test service (internal/service/speedtest): a bounded   *)
(* queue served by one worker goroutine, a table with the latest job of    *)
(* each node, and a Start/Stop/Restart life cycle.  The worker runs        *)
(* Manager.TestNode, which uses a tunnel of its own.                       *)
(*                                                                         *)
(* A jobsMu section is one step.  lifecycleMu is held across steps only by *)
(* Stop, which waits for the worker under it.                              *)
(***************************************************************************)
EXTENDS Naturals, Sequences

CONSTANTS
  IPs,            \* nodes that are tested
  Handlers,       \* goroutines of requests to restart the service
  None,           \* nil
  QueueCapacity,  \* 128 in the code
  MaxJobs,        \* bound on the jobs users queue
  MaxRestarts,    \* bound on the calls of Restart and Stop
  Faulty          \* values of the variable faulty

ASSUME SpeedTestAssumption ==
  /\ QueueCapacity \in Nat \ {0} /\ MaxJobs \in Nat /\ MaxRestarts \in Nat
  /\ Faulty \subseteq BOOLEAN
  /\ None \notin Handlers \cup {"main"} /\ "main" \notin Handlers
  /\ None \notin [id : Nat, ip : IPs]

VARIABLES
  jobs,         \* Service.jobs: the latest job of each node
  nextJobID,
  queue,        \* the channel of the worker
  worker,       \* where the worker is; "none" while Service.done is nil
  current,      \* the job the worker has received
  result,       \* what TestNode returned for it
  ctxDone,      \* the context of the worker is cancelled
  canceled,     \* jobs whose own context is cancelled
  marked,       \* jobs CancelManual has marked and not yet cancelled
  running,      \* Status.Running
  lifecycleMu, caller, restarts,
  finished,     \* history: jobs whose TestNode returned a speed
  faulty        \* whether TestNode can panic and Stop can expire in this behaviour

table == <<jobs, nextJobID>>
test == <<result, finished>>
lifecycle == <<lifecycleMu, caller, restarts, faulty>>
vars == <<table, queue, worker, current, test, ctxDone, canceled, marked, running, lifecycle>>

Main == "main"   \* the goroutine of appStart, which stops the service at the end
Callers == Handlers \cup {Main}

Job(id, ip) == [id |-> id, ip |-> ip]
Record(id, s) == [id |-> id, state |-> s]
NoRecord == Record(0, "none")

\* A worker that has closed done is "dead" until Stop or Start forgets it.
Alive == worker \notin {"none", "dead"}

\* Mutant: the record is not checked to be of the same job.
PendingOfAnyJob(j) == jobs[j.ip].state = "running"

\* The record belongs to this job and the job is not finished.
Pending(j) == jobs[j.ip].id = j.id /\ jobs[j.ip].state = "running"

\* Mutant: a result is stored whatever happened to the job meanwhile.
FinishAlways(j, s) == jobs' = [jobs EXCEPT ![j.ip].state = s]

Finish(j, s) == jobs' = IF Pending(j) THEN [jobs EXCEPT ![j.ip].state = s] ELSE jobs

\* appStart has called New and Start.
Init ==
  /\ jobs = [ip \in IPs |-> NoRecord] /\ nextJobID = 0 /\ queue = <<>>
  /\ worker = "select" /\ current = None /\ result = None
  /\ ctxDone = FALSE /\ canceled = {} /\ marked = {} /\ finished = {}
  /\ running = TRUE /\ lifecycleMu = None /\ restarts = 0
  /\ caller = [c \in Callers |-> "idle"] /\ faulty \in Faulty
-----------------------------------------------------------------------------
(* Requests of users.                                                       *)

\* Mutant: the job gets the identifier before it is incremented.
QueueOldID(ip) ==
  /\ nextJobID < MaxJobs
  /\ lifecycleMu = None /\ Alive
  /\ jobs[ip].state # "running" /\ Len(queue) < QueueCapacity
  /\ nextJobID' = nextJobID + 1
  /\ jobs' = [jobs EXCEPT ![ip] = Record(nextJobID, "running")]
  /\ queue' = Append(queue, Job(nextJobID, ip))
  /\ UNCHANGED <<worker, current, test, ctxDone, canceled, marked, running, lifecycle>>

\* The new job replaces the node's record; when the queue is full both the new
\* and the old one are gone.
QueueManual(ip) ==
  /\ nextJobID < MaxJobs
  /\ lifecycleMu = None /\ Alive
  /\ jobs[ip].state # "running"
  /\ nextJobID' = nextJobID + 1
  /\ IF Len(queue) < QueueCapacity
     THEN /\ jobs' = [jobs EXCEPT ![ip] = Record(nextJobID + 1, "running")]
          /\ queue' = Append(queue, Job(nextJobID + 1, ip))
     ELSE /\ jobs' = [jobs EXCEPT ![ip] = NoRecord]
          /\ UNCHANGED queue
  /\ UNCHANGED <<worker, current, test, ctxDone, canceled, marked, running, lifecycle>>

CancelManual(ip) ==
  /\ jobs[ip].state = "running"
  /\ jobs' = [jobs EXCEPT ![ip].state = "canceled"]
  /\ marked' = marked \cup {jobs[ip].id}
  /\ UNCHANGED <<nextJobID, queue, worker, current, test, ctxDone, canceled, running, lifecycle>>

\* The end of CancelManual, outside jobsMu.
CancelContext ==
  /\ \E id \in marked : canceled' = canceled \cup {id} /\ marked' = marked \ {id}
  /\ UNCHANGED <<table, queue, worker, current, test, ctxDone, running, lifecycle>>
-----------------------------------------------------------------------------
(* The worker.                                                              *)

JobDone == ctxDone \/ current.id \in canceled

ReceiveJob ==
  /\ worker = "select" /\ queue # <<>>
  /\ current' = Head(queue) /\ queue' = Tail(queue)
  /\ worker' = "run"
  /\ UNCHANGED <<table, test, ctxDone, canceled, marked, running, lifecycle>>

\* run skips a job that was cancelled or replaced while it was queued.
BeginRun ==
  /\ worker = "run"
  /\ IF Pending(current) THEN worker' = "test" /\ UNCHANGED current
                         ELSE worker' = "select" /\ current' = None
  /\ UNCHANGED <<table, queue, test, ctxDone, canceled, marked, running, lifecycle>>

\* Manager.TestNode looks the node up, connects, downloads and saves a speed,
\* at the download's timeout too.  Every stage can fail, and all of them fail
\* once the context is done; none touches the manager's own session.
TestNode ==
  /\ worker = "test"
  /\ \/ /\ ~JobDone
        /\ result' = "complete" /\ finished' = finished \cup {current.id}
     \/ result' = "failed" /\ UNCHANGED finished
  /\ worker' = "returned"
  /\ UNCHANGED <<table, queue, current, ctxDone, canceled, marked, running, lifecycle>>

\* run reads the context before it takes jobsMu again.
ClassifyResult ==
  /\ worker = "returned"
  /\ result' = IF JobDone THEN "canceled" ELSE result
  /\ worker' = "record"
  /\ UNCHANGED <<table, queue, current, finished, ctxDone, canceled, marked, running, lifecycle>>

\* Mutant: a cancelled job is taken to be marked by CancelManual already.
RecordUncanceled ==
  /\ worker = "record"
  /\ IF result = "canceled" THEN UNCHANGED jobs ELSE Finish(current, result)
  /\ worker' = "select" /\ current' = None /\ result' = None
  /\ UNCHANGED <<nextJobID, queue, finished, ctxDone, canceled, marked, running, lifecycle>>

RecordResult ==
  /\ worker = "record"
  /\ Finish(current, result)
  /\ worker' = "select" /\ current' = None /\ result' = None
  /\ UNCHANGED <<nextJobID, queue, finished, ctxDone, canceled, marked, running, lifecycle>>

\* Mutant: the worker ends without emptying its queue.
EndWithoutDrain ==
  /\ worker = "select" /\ ctxDone
  /\ worker' = "ending"
  /\ UNCHANGED <<table, queue, current, test, ctxDone, canceled, marked, running, lifecycle>>

\* The worker sees that its context is done; failPending empties the queue.
BeginDrain ==
  /\ worker = "select" /\ ctxDone
  /\ worker' = "drain"
  /\ UNCHANGED <<table, queue, current, test, ctxDone, canceled, marked, running, lifecycle>>

FailPending ==
  /\ worker = "drain"
  /\ IF queue = <<>>
     THEN worker' = "ending" /\ UNCHANGED <<jobs, queue>>
     ELSE Finish(Head(queue), "failed") /\ queue' = Tail(queue) /\ UNCHANGED worker
  /\ UNCHANGED <<nextJobID, current, test, ctxDone, canceled, marked, running, lifecycle>>

\* A panic in TestNode is recovered; failRunning then fails every job of the
\* table.
Panics ==
  /\ faulty
  /\ worker = "test"
  /\ worker' = "panicked" /\ current' = None
  /\ UNCHANGED <<table, queue, result, finished, ctxDone, canceled, marked, running, lifecycle>>

\* Mutant: the recovery takes lifecycleMu, which a waiting Stop holds.
FailRunningLocked ==
  /\ worker = "panicked" /\ lifecycleMu = None
  /\ jobs' = [ip \in IPs |-> IF jobs[ip].state = "running"
                             THEN [jobs[ip] EXCEPT !.state = "failed"] ELSE jobs[ip]]
  /\ worker' = "ending"
  /\ UNCHANGED <<nextJobID, queue, current, test, ctxDone, canceled, marked, running, lifecycle>>

FailRunning ==
  /\ worker = "panicked"
  /\ jobs' = [ip \in IPs |-> IF jobs[ip].state = "running"
                             THEN [jobs[ip] EXCEPT !.state = "failed"] ELSE jobs[ip]]
  /\ worker' = "ending"
  /\ UNCHANGED <<nextJobID, queue, current, test, ctxDone, canceled, marked, running, lifecycle>>

StateStopped ==
  /\ worker = "ending"
  /\ running' = FALSE /\ worker' = "stopped"
  /\ UNCHANGED <<table, queue, current, test, ctxDone, canceled, marked, lifecycle>>

CloseDone ==
  /\ worker = "stopped"
  /\ worker' = "dead"
  /\ UNCHANGED <<table, queue, current, test, ctxDone, canceled, marked, running, lifecycle>>
-----------------------------------------------------------------------------
(* The life cycle.  A handler calls Restart, which is Stop and then Start;   *)
(* the main goroutine only calls Stop.                                      *)

AfterStop(c) == IF c = Main THEN "exit" ELSE "start"

\* Start refuses while the worker of an earlier Start has not ended.
Start(c) ==
  /\ caller[c] = "start"
  /\ lifecycleMu = None
  /\ caller' = [caller EXCEPT ![c] = "idle"]
  /\ IF Alive
     THEN UNCHANGED <<queue, worker, result, ctxDone, running>>
     ELSE /\ queue' = <<>> /\ worker' = "select" /\ result' = None
          /\ ctxDone' = FALSE /\ running' = TRUE
  /\ UNCHANGED <<table, current, finished, canceled, marked, lifecycleMu, restarts,
                 faulty>>

\* Stop cancels the worker and waits for it with the mutex held.
Stop(c) ==
  /\ caller[c] = "idle" /\ restarts < MaxRestarts
  /\ lifecycleMu = None
  /\ restarts' = restarts + 1
  /\ IF worker = "none"
     THEN caller' = [caller EXCEPT ![c] = AfterStop(c)] /\ UNCHANGED <<ctxDone, lifecycleMu>>
     ELSE /\ ctxDone' = TRUE /\ lifecycleMu' = c
          /\ caller' = [caller EXCEPT ![c] = "stopping"]
  /\ UNCHANGED <<table, queue, worker, current, test, canceled, marked, running, faulty>>

StopReturns(c) ==
  /\ caller[c] = "stopping" /\ worker = "dead"
  /\ worker' = "none" /\ queue' = <<>> /\ lifecycleMu' = None
  /\ caller' = [caller EXCEPT ![c] = AfterStop(c)]
  /\ UNCHANGED <<table, current, test, ctxDone, canceled, marked, running, restarts,
                 faulty>>

\* The 15 s of a restart or of the shutdown pass first.
StopTimesOut(c) ==
  /\ faulty
  /\ caller[c] = "stopping"
  /\ lifecycleMu' = None
  /\ caller' = [caller EXCEPT ![c] = IF c = Main THEN "exit" ELSE "idle"]
  /\ UNCHANGED <<table, queue, worker, current, test, ctxDone, canceled, marked, running,
                 restarts, faulty>>
-----------------------------------------------------------------------------
WorkerStep ==
  \/ ReceiveJob \/ BeginRun \/ TestNode \/ ClassifyResult \/ RecordResult
  \/ BeginDrain \/ FailPending \/ FailRunning \/ StateStopped \/ CloseDone

CallerStep(c) == Start(c) \/ StopReturns(c)

\* Nothing to do: no job, no caller in a call, no half-finished cancellation.
Resting ==
  /\ ~Alive \/ (worker = "select" /\ queue = <<>>)
  /\ marked = {}
  /\ \A c \in Callers : caller[c] \in {"idle", "exit"}

AtRest == Resting /\ UNCHANGED vars

Next ==
  \/ \E ip \in IPs : QueueManual(ip) \/ CancelManual(ip)
  \/ CancelContext \/ WorkerStep \/ Panics
  \/ \E c \in Callers : CallerStep(c) \/ Stop(c) \/ StopTimesOut(c)
  \/ AtRest

Spec == Init /\ [][Next]_vars

\* The worker and the calls in progress run; a speed test ends by its timeouts.
Fairness ==
  /\ WF_vars(WorkerStep) /\ WF_vars(CancelContext)
  /\ \A c \in Callers : WF_vars(CallerStep(c))

FairSpec == Spec /\ Fairness
-----------------------------------------------------------------------------
\* Every variable has its type; ids are those QueueManual has given out.
TypeOK ==
  /\ jobs \in [IPs -> [id : 0..nextJobID,
                       state : {"none", "running", "complete", "failed", "canceled"}]]
  /\ nextJobID \in 0..MaxJobs
  /\ queue \in Seq([id : 1..nextJobID, ip : IPs]) /\ Len(queue) <= QueueCapacity
  /\ worker \in {"none", "select", "run", "test", "returned", "record",
                "drain", "panicked", "ending", "stopped", "dead"}
  /\ current \in {None} \cup [id : 1..nextJobID, ip : IPs]
  /\ result \in {None, "complete", "failed", "canceled"}
  /\ ctxDone \in BOOLEAN /\ running \in BOOLEAN /\ faulty \in BOOLEAN
  /\ canceled \subseteq 1..nextJobID /\ marked \subseteq 1..nextJobID
  /\ finished \subseteq 1..nextJobID
  /\ lifecycleMu \in Callers \cup {None} /\ restarts \in 0..MaxRestarts
  /\ caller \in [Callers -> {"idle", "stopping", "start", "exit"}]

\* A result shown as complete is the job's own: its own test returned a speed.
\* A cancelled test that is still running must not complete the job that has
\* replaced it.
ResultsAreOwn ==
  \A ip \in IPs : jobs[ip].state = "complete" => jobs[ip].id \in finished

\* What a user has been told of a job stays true: its record with a final state
\* gives way to that of another job, or to none when the queue is full, and is
\* never changed (late results of a cancelled test do not).
FinalStatesStay ==
  [][\A ip \in IPs : jobs[ip].state \in {"complete", "failed", "canceled"} =>
       jobs'[ip] = jobs[ip] \/ jobs'[ip].id # jobs[ip].id]_vars

\* A job shown as running will be dealt with: it is in the queue of a worker
\* that still reads it, or in the worker's hands.  (Not so once a panic or an
\* expired Stop has let users in while the worker ends.)
JobsAttended ==
  \A ip \in IPs : (jobs[ip].state = "running" /\ ~faulty) =>
    LET j == Job(jobs[ip].id, ip) IN
    \/ current = j
    \/ /\ \E i \in 1..Len(queue) : queue[i] = j
       /\ worker \notin {"none", "ending", "stopped", "dead"}

\* Every job leaves the state "running", which is what the page polls for,
\* unless a fault strands it.
JobsFinish ==
  \A ip \in IPs : (jobs[ip].state = "running" /\ ~faulty) ~> (jobs[ip].state # "running")

\* Stop, which holds lifecycleMu while it waits, always gets its answer from the
\* worker, also when the worker is just recovering from a panic.
StopCompletes ==
  \A c \in Callers : (caller[c] = "stopping") ~> (caller[c] # "stopping")
=============================================================================
