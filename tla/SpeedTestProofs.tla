---------------------------- MODULE SpeedTestProofs ----------------------------
(***************************************************************************)
(* The speed-test service, for any nodes, requests, queue capacity and     *)
(* number of jobs and restarts: whose results the table shows, and who     *)
(* still deals with a job that is shown as running.                        *)
(***************************************************************************)
EXTENDS SpeedTest, SequenceTheorems, TLAPS

\* The worker has a job from ReceiveJob to RecordResult or a panic, and a result
\* for it once TestNode has returned.
WorkerInv ==
  /\ worker \in {"run", "test", "returned", "record"} => current \in [id : 1..nextJobID, ip : IPs]
  /\ worker \notin {"run", "test", "returned", "record"} => current = None
  /\ worker \in {"returned", "record"} => result \in {"complete", "failed", "canceled"}
  /\ worker \in {"returned", "record"} /\ result = "complete" => current.id \in finished

\* A job that is not "none" has been given an identifier.
RecordsInv ==
  \A ip \in IPs : /\ jobs[ip].state # "none" => jobs[ip].id # 0
                  /\ jobs[ip].state = "complete" => jobs[ip].id \in finished

\* Stop holds lifecycleMu while it waits.  Without a fault the worker ends only
\* because a Stop has cancelled it, and that Stop waits until it has ended.
StopInv ==
  /\ \A c \in Callers : caller[c] = "stopping" <=> lifecycleMu = c
  /\ worker = "panicked" => faulty
  /\ ~faulty /\ worker \in {"drain", "ending", "stopped", "dead"} => ctxDone
  /\ ~faulty /\ ctxDone /\ worker # "none" => lifecycleMu # None

Queued(j) == \E i \in 1..Len(queue) : queue[i] = j

\* The worker has the job, or will find it in its queue.
Attended(j) == \/ current = j
               \/ Queued(j) /\ worker \notin {"none", "ending", "stopped", "dead"}

AttendedInv ==
  \A ip \in IPs : jobs[ip].state = "running" /\ ~faulty => Attended(Job(jobs[ip].id, ip))

SpeedInv == TypeOK /\ WorkerInv /\ RecordsInv /\ StopInv /\ AttendedInv
-----------------------------------------------------------------------------
\* A received or drained job leaves the queue, and nothing else does.
LEMMA Dequeue ==
  ASSUME TypeOK, queue # <<>>
  PROVE  /\ Head(queue) \in [id : 1..nextJobID, ip : IPs]
         /\ Tail(queue) \in Seq([id : 1..nextJobID, ip : IPs])
         /\ Len(Tail(queue)) <= QueueCapacity
         /\ \A j : Queued(j) =>
              j = Head(queue) \/ \E i \in 1..Len(Tail(queue)) : Tail(queue)[i] = j
<1>1. queue \in Seq([id : 1..nextJobID, ip : IPs]) /\ Len(queue) \in Nat
  BY LenProperties DEF TypeOK
<1>2. /\ Head(queue) \in [id : 1..nextJobID, ip : IPs] /\ Head(queue) = queue[1]
      /\ Tail(queue) \in Seq([id : 1..nextJobID, ip : IPs])
      /\ Len(Tail(queue)) = Len(queue) - 1
      /\ \A i \in 1..Len(Tail(queue)) : Tail(queue)[i] = queue[i + 1]
  <2>1. Head(queue) = queue[1]
    BY <1>1
  <2>. QED  BY <1>1, <2>1, HeadTailProperties, Zenon
<1>3. ASSUME NEW j, NEW i \in 1..Len(queue), queue[i] = j
      PROVE  j = Head(queue) \/ \E k \in 1..Len(Tail(queue)) : Tail(queue)[k] = j
  <2>1. CASE i = 1
    BY <1>2, <1>3, <2>1
  <2>2. CASE i # 1
    <3>1. i - 1 \in 1..Len(Tail(queue)) /\ Tail(queue)[i - 1] = queue[i]
      BY <1>1, <1>2, <1>3, <2>2
    <3>. QED  BY <1>3, <3>1
  <2>. QED  BY <2>1, <2>2
<1>4. Len(Tail(queue)) <= QueueCapacity
  BY <1>1, <1>2, SpeedTestAssumption DEF TypeOK
<1>. QED  BY <1>2, <1>3, <1>4 DEF Queued

\* A result goes only into the record of its own job, and only while that job is
\* shown as running.
LEMMA FinishIs ==
  ASSUME TypeOK, NEW j \in [id : 1..nextJobID, ip : IPs],
         NEW s \in {"complete", "failed", "canceled"}, Finish(j, s)
  PROVE  /\ jobs' \in [IPs -> [id : 0..nextJobID,
                               state : {"none", "running", "complete", "failed", "canceled"}]]
         /\ \A ip \in IPs : /\ jobs'[ip].id = jobs[ip].id
                            /\ jobs'[ip] # jobs[ip] => /\ jobs[ip].state = "running"
                                                       /\ j = Job(jobs[ip].id, ip)
                                                       /\ jobs'[ip].state = s
         /\ jobs'[j.ip].state = "running" => j.id # jobs[j.ip].id
<1>1. CASE Pending(j)
  <2>1. jobs' = [jobs EXCEPT ![j.ip].state = s] /\ j.ip \in IPs
    BY <1>1 DEF Finish
  <2>2. j = Job(jobs[j.ip].id, j.ip) /\ jobs[j.ip].state = "running"
    BY <1>1 DEF Pending, Job
  <2>. QED  BY <2>1, <2>2 DEF TypeOK
<1>2. CASE ~Pending(j)
  <2>1. jobs' = jobs
    BY <1>2 DEF Finish
  <2>. QED  BY <1>2, <2>1 DEF TypeOK, Pending
<1>. QED  BY <1>1, <1>2
-----------------------------------------------------------------------------
\* appStart has started the service.
LEMMA InitSpeedInv == Init => SpeedInv
<1>. SUFFICES ASSUME Init PROVE SpeedInv
  OBVIOUS
<1>1. TypeOK
  <2>1. NoRecord \in [id : 0..nextJobID,
                      state : {"none", "running", "complete", "failed", "canceled"}]
    BY DEF Init, NoRecord, Record
  <2>2. queue \in Seq([id : 1..nextJobID, ip : IPs]) /\ Len(queue) = 0
    BY DEF Init
  <2>3. jobs \in [IPs -> [id : 0..nextJobID,
                           state : {"none", "running", "complete", "failed", "canceled"}]]
    BY <2>1 DEF Init
  <2>4. caller \in [Callers -> {"idle", "stopping", "start", "exit"}] /\ faulty \in BOOLEAN
    BY SpeedTestAssumption DEF Init
  <2>5. nextJobID \in 0..MaxJobs /\ restarts \in 0..MaxRestarts /\ 0 <= QueueCapacity
    BY SpeedTestAssumption DEF Init
  <2>. QED  BY <2>2, <2>3, <2>4, <2>5 DEF Init, TypeOK
<1>2. WorkerInv /\ RecordsInv /\ AttendedInv
  BY DEF Init, WorkerInv, RecordsInv, AttendedInv, NoRecord, Record
<1>3. StopInv
  BY SpeedTestAssumption DEF Init, StopInv, Callers, Main
<1>. QED  BY <1>1, <1>2, <1>3 DEF SpeedInv

\* QueueManual: the new job is in the queue of a worker that is not ending, as a
\* Stop holds lifecycleMu until the worker has ended.
LEMMA QueueManualInv ==
  ASSUME SpeedInv, NEW ip \in IPs, QueueManual(ip) PROVE SpeedInv'
<1>. USE DEF SpeedInv
<1>. DEFINE id == nextJobID + 1
<1>1. /\ nextJobID' = id /\ id \in 1..MaxJobs /\ nextJobID \in Nat
      /\ UNCHANGED <<worker, current, test, ctxDone, canceled, marked, running, lifecycle>>
      /\ lifecycleMu = None /\ Alive
  BY SpeedTestAssumption DEF QueueManual, TypeOK
<1>2. [id : 1..nextJobID, ip : IPs] \subseteq [id : 1..nextJobID', ip : IPs]
  BY <1>1
<1>3. PICK r \in {NoRecord, Record(id, "running")} :
        /\ jobs' = [jobs EXCEPT ![ip] = r]
        /\ r # NoRecord => queue' = Append(queue, Job(id, ip)) /\ Len(queue) < QueueCapacity
        /\ r = NoRecord => queue' = queue
  <2>1. Record(id, "running") # NoRecord
    BY DEF Record, NoRecord
  <2>. QED  BY <2>1 DEF QueueManual
<1>4. TypeOK'
  <2>1. r \in [id : 0..id, state : {"none", "running", "complete", "failed", "canceled"}]
    BY <1>1, <1>3 DEF NoRecord, Record
  <2>2. jobs' \in [IPs -> [id : 0..id,
                           state : {"none", "running", "complete", "failed", "canceled"}]]
    BY <1>1, <1>3, <2>1 DEF TypeOK
  <2>3. queue \in Seq([id : 1..id, ip : IPs]) /\ Job(id, ip) \in [id : 1..id, ip : IPs]
    <3>1. Job(id, ip) \in [id : 1..id, ip : IPs]
      BY <1>1 DEF Job
    <3>2. queue \in Seq([id : 1..id, ip : IPs])
      BY <1>1, <1>2, SeqMonotonic DEF TypeOK
    <3>. QED  BY <3>1, <3>2
  <2>4. queue' \in Seq([id : 1..id, ip : IPs]) /\ Len(queue') <= QueueCapacity
    <3>1. CASE r = NoRecord
      BY <1>3, <2>3, <3>1 DEF TypeOK
    <3>2. CASE r # NoRecord
      <4>1. queue' = Append(queue, Job(id, ip)) /\ Len(queue) < QueueCapacity
        BY <1>3, <3>2
      <4>2. queue' \in Seq([id : 1..id, ip : IPs]) /\ Len(queue') = Len(queue) + 1
        BY <2>3, <4>1, AppendProperties, Zenon
      <4>. QED  BY <2>3, <4>1, <4>2, LenProperties, SpeedTestAssumption
    <3>. QED  BY <3>1, <3>2
  <2>5. /\ current \in {None} \cup [id : 1..id, ip : IPs] /\ id \in 0..MaxJobs
        /\ canceled \subseteq 1..id /\ marked \subseteq 1..id /\ finished \subseteq 1..id
    BY <1>1, <1>2 DEF TypeOK
  <2>. QED  BY <1>1, <2>2, <2>4, <2>5 DEF TypeOK, test, lifecycle
<1>5. WorkerInv' /\ StopInv'
  BY <1>1, <1>2 DEF WorkerInv, StopInv, test, lifecycle
<1>6. RecordsInv'
  BY <1>1, <1>3 DEF RecordsInv, NoRecord, Record, TypeOK, test
<1>7. ASSUME NEW p \in IPs, jobs'[p].state = "running", ~faulty'
      PROVE  Attended(Job(jobs[p].id, p))'
  <2>1. CASE p = ip
    <3>1. r # NoRecord /\ jobs'[p].id = id
      BY <1>3, <1>7, <2>1 DEF NoRecord, Record, TypeOK
    <3>2. Len(queue') \in 1..Len(queue') /\ queue'[Len(queue')] = Job(id, p)
      BY <1>3, <2>1, <3>1 DEF TypeOK
    <3>3. worker \notin {"none", "ending", "stopped", "dead"}
      <4>1. ~faulty /\ worker \in {"select", "run", "test", "returned", "record", "drain",
                                   "panicked", "ending", "stopped"}
        BY <1>1, <1>7 DEF Alive, TypeOK, lifecycle
      <4>. QED  BY <1>1, <4>1 DEF StopInv
    <3>. QED  BY <1>1, <3>1, <3>2, <3>3 DEF Attended, Queued
  <2>2. CASE p # ip
    <3>1. jobs'[p] = jobs[p] /\ faulty' = faulty
      BY <1>1, <1>3, <2>2 DEF TypeOK, lifecycle
    <3>2. \A j : Queued(j) => Queued(j)'
      <4>1. \A i \in 1..Len(queue) : i \in 1..Len(queue') /\ queue'[i] = queue[i]
        BY <1>3 DEF TypeOK
      <4>. QED  BY <4>1 DEF Queued
    <3>3. Attended(Job(jobs[p].id, p))
      BY <1>7, <3>1 DEF AttendedInv
    <3>. QED  BY <1>1, <3>1, <3>2, <3>3 DEF Attended
  <2>. QED  BY <2>1, <2>2
<1>8. AttendedInv'
  BY <1>7 DEF AttendedInv
<1>. QED  BY <1>4, <1>5, <1>6, <1>8

\* CancelManual marks the record, and cancels the job's context later.
LEMMA CancelInv ==
  ASSUME SpeedInv, CancelContext \/ \E ip \in IPs : CancelManual(ip)
  PROVE  SpeedInv'
<1>. USE DEF SpeedInv
<1>1. CASE CancelContext
  BY <1>1 DEF CancelContext, table, test, lifecycle, TypeOK, WorkerInv, RecordsInv, StopInv,
              AttendedInv, Attended, Queued
<1>2. ASSUME NEW ip \in IPs, CancelManual(ip) PROVE SpeedInv'
  <2>1. /\ UNCHANGED <<nextJobID, queue, worker, current, test, ctxDone, canceled, running, lifecycle>>
        /\ jobs' = [jobs EXCEPT ![ip].state = "canceled"] /\ jobs[ip].state = "running"
        /\ marked' = marked \cup {jobs[ip].id}
    BY <1>2 DEF CancelManual
  <2>2. jobs[ip].id \in 1..nextJobID
    BY <2>1 DEF RecordsInv, TypeOK
  <2>3. TypeOK'
    BY <2>1, <2>2 DEF TypeOK, test, lifecycle
  <2>4. WorkerInv' /\ StopInv'
    BY <2>1 DEF WorkerInv, StopInv, test, lifecycle
  <2>5. RecordsInv' /\ AttendedInv'
    BY <2>1 DEF RecordsInv, AttendedInv, Attended, Queued, TypeOK, test, lifecycle
  <2>. QED  BY <2>3, <2>4, <2>5
<1>. QED  BY <1>1, <1>2
-----------------------------------------------------------------------------
(* The worker.                                                              *)

\* The worker takes a job and runs it; the table does not change.
LEMMA RunInv ==
  ASSUME SpeedInv, ReceiveJob \/ BeginRun \/ TestNode \/ ClassifyResult
  PROVE  SpeedInv'
<1>. USE DEF SpeedInv
<1>1. CASE ReceiveJob
  <2>1. /\ UNCHANGED <<table, test, ctxDone, canceled, marked, running, lifecycle>>
        /\ worker = "select" /\ worker' = "run" /\ queue # <<>>
        /\ current' = Head(queue) /\ queue' = Tail(queue)
    BY <1>1 DEF ReceiveJob
  <2>2. TypeOK'
    BY <2>1, Dequeue DEF TypeOK, table, test, lifecycle
  <2>3. WorkerInv' /\ RecordsInv' /\ StopInv'
    BY <2>1, Dequeue DEF WorkerInv, RecordsInv, StopInv, table, test, lifecycle
  <2>4. AttendedInv'
    <3>1. ASSUME NEW ip \in IPs, jobs[ip].state = "running", ~faulty
          PROVE  Queued(Job(jobs[ip].id, ip))
      <4>1. current = None /\ Job(jobs[ip].id, ip) # None
        BY <2>1, SpeedTestAssumption DEF WorkerInv, TypeOK, Job
      <4>. QED  BY <3>1, <4>1 DEF AttendedInv, Attended
    <3>. QED  BY <2>1, <3>1, Dequeue DEF AttendedInv, Attended, Queued, table, lifecycle
  <2>. QED  BY <2>2, <2>3, <2>4
<1>2. CASE BeginRun
  <2>1. /\ UNCHANGED <<table, queue, test, ctxDone, canceled, marked, running, lifecycle>>
        /\ worker = "run" /\ current \in [id : 1..nextJobID, ip : IPs]
        /\ \/ Pending(current) /\ worker' = "test" /\ current' = current
           \/ ~Pending(current) /\ worker' = "select" /\ current' = None
    BY <1>2 DEF BeginRun, WorkerInv
  <2>2. TypeOK' /\ RecordsInv' /\ StopInv'
    BY <2>1 DEF TypeOK, RecordsInv, StopInv, table, test, lifecycle
  <2>3. WorkerInv'
    BY <2>1 DEF WorkerInv, table, test
  <2>4. AttendedInv'
    BY <2>1 DEF AttendedInv, Attended, Queued, Pending, Job, table, lifecycle
  <2>. QED  BY <2>2, <2>3, <2>4
<1>3. CASE TestNode
  <2>1. /\ UNCHANGED <<table, queue, current, ctxDone, canceled, marked, running, lifecycle>>
        /\ worker = "test" /\ worker' = "returned"
        /\ \/ result' = "complete" /\ finished' = finished \cup {current.id}
           \/ result' = "failed" /\ finished' = finished
        /\ current \in [id : 1..nextJobID, ip : IPs]
    BY <1>3 DEF TestNode, WorkerInv
  <2>2. TypeOK' /\ WorkerInv'
    BY <2>1 DEF TypeOK, WorkerInv, table, lifecycle
  <2>3. RecordsInv' /\ StopInv' /\ AttendedInv'
    BY <2>1 DEF RecordsInv, StopInv, AttendedInv, Attended, Queued, table, lifecycle
  <2>. QED  BY <2>2, <2>3
<1>4. CASE ClassifyResult
  <2>1. /\ UNCHANGED <<table, queue, current, finished, ctxDone, canceled, marked, running, lifecycle>>
        /\ worker = "returned" /\ worker' = "record" /\ result' \in {"canceled", result}
    BY <1>4 DEF ClassifyResult
  <2>2. TypeOK' /\ WorkerInv'
    BY <2>1 DEF TypeOK, WorkerInv, table, lifecycle
  <2>3. RecordsInv' /\ StopInv' /\ AttendedInv'
    BY <2>1 DEF RecordsInv, StopInv, AttendedInv, Attended, Queued, table, lifecycle
  <2>. QED  BY <2>2, <2>3
<1>. QED  BY <1>1, <1>2, <1>3, <1>4

\* The worker records a result, or fails what is left in its queue.
LEMMA RecordInv ==
  ASSUME SpeedInv, RecordResult \/ FailPending PROVE SpeedInv'
<1>. USE DEF SpeedInv
<1>1. CASE RecordResult
  <2>1. /\ UNCHANGED <<nextJobID, queue, finished, ctxDone, canceled, marked, running, lifecycle>>
        /\ worker = "record" /\ worker' = "select" /\ current' = None /\ result' = None
        /\ Finish(current, result)
    BY <1>1 DEF RecordResult
  <2>2. /\ current \in [id : 1..nextJobID, ip : IPs]
        /\ result \in {"complete", "failed", "canceled"}
        /\ result = "complete" => current.id \in finished
    BY <2>1 DEF WorkerInv
  <2>3. TypeOK' /\ WorkerInv' /\ StopInv'
    BY <2>1, <2>2, FinishIs DEF TypeOK, WorkerInv, StopInv, lifecycle
  <2>4. RecordsInv'
    BY <2>1, <2>2, FinishIs DEF RecordsInv, Job, TypeOK
  <2>5. ASSUME NEW ip \in IPs, jobs'[ip].state = "running", ~faulty'
        PROVE  Attended(Job(jobs[ip].id, ip))'
    <3>1. jobs'[ip] = jobs[ip] /\ jobs[ip].state = "running" /\ ~faulty
      BY <2>1, <2>2, <2>5, FinishIs DEF lifecycle
    <3>2. current # Job(jobs[ip].id, ip)
      BY <2>1, <2>2, <2>5, <3>1, FinishIs DEF Job
    <3>3. Queued(Job(jobs[ip].id, ip))
      BY <3>1, <3>2 DEF AttendedInv, Attended
    <3>. QED  BY <2>1, <3>1, <3>3 DEF Attended, Queued
  <2>6. AttendedInv'
    BY <2>5 DEF AttendedInv
  <2>. QED  BY <2>3, <2>4, <2>6
<1>2. CASE FailPending /\ queue = <<>>
  <2>1. /\ UNCHANGED <<table, queue, current, test, ctxDone, canceled, marked, running, lifecycle>>
        /\ worker = "drain" /\ worker' = "ending"
    BY <1>2 DEF FailPending, table
  <2>2. TypeOK' /\ WorkerInv' /\ RecordsInv' /\ StopInv'
    BY <2>1 DEF TypeOK, WorkerInv, RecordsInv, StopInv, table, test, lifecycle
  <2>3. \A ip \in IPs : ~faulty => jobs[ip].state # "running"
    <3>. SUFFICES ASSUME NEW ip \in IPs, ~faulty, jobs[ip].state = "running" PROVE FALSE
      OBVIOUS
    <3>1. current = None /\ Job(jobs[ip].id, ip) # None
      BY <2>1, SpeedTestAssumption DEF WorkerInv, TypeOK, Job
    <3>2. Len(queue) = 0
      BY <1>2
    <3>. QED  BY <3>1, <3>2 DEF AttendedInv, Attended, Queued
  <2>4. AttendedInv'
    BY <2>1, <2>3 DEF AttendedInv, table, lifecycle
  <2>. QED  BY <2>2, <2>4
<1>3. CASE FailPending /\ queue # <<>>
  <2>1. /\ UNCHANGED <<nextJobID, current, test, ctxDone, canceled, marked, running, lifecycle>>
        /\ worker = "drain" /\ worker' = worker
        /\ Finish(Head(queue), "failed") /\ queue' = Tail(queue)
    BY <1>3 DEF FailPending
  <2>2. Head(queue) \in [id : 1..nextJobID, ip : IPs]
    BY <1>3, Dequeue
  <2>3. TypeOK' /\ WorkerInv' /\ StopInv'
    BY <1>3, <2>1, <2>2, FinishIs, Dequeue DEF TypeOK, WorkerInv, StopInv, test, lifecycle
  <2>4. RecordsInv'
    <3>1. \A ip \in IPs : /\ jobs'[ip].id = jobs[ip].id
                          /\ jobs'[ip] # jobs[ip] => /\ jobs[ip].state = "running"
                                                     /\ jobs'[ip].state = "failed"
      BY <2>1, <2>2, FinishIs
    <3>. QED  BY <2>1, <3>1 DEF RecordsInv, test
  <2>5. ASSUME NEW ip \in IPs, jobs'[ip].state = "running", ~faulty'
        PROVE  Attended(Job(jobs[ip].id, ip))'
    <3>1. jobs'[ip] = jobs[ip] /\ jobs[ip].state = "running" /\ ~faulty
      BY <2>1, <2>2, <2>5, FinishIs DEF lifecycle
    <3>2. Head(queue) # Job(jobs[ip].id, ip)
      BY <2>1, <2>2, <2>5, <3>1, FinishIs DEF Job
    <3>3. Attended(Job(jobs[ip].id, ip))
      BY <3>1 DEF AttendedInv
    <3>. QED  BY <1>3, <2>1, <3>1, <3>2, <3>3, Dequeue DEF Attended, Queued
  <2>6. AttendedInv'
    BY <2>5 DEF AttendedInv
  <2>. QED  BY <2>3, <2>4, <2>6
<1>. QED  BY <1>1, <1>2, <1>3

\* The worker ends: cancelled, or after a panic, when no job is left running.
LEMMA EndingInv ==
  ASSUME SpeedInv, BeginDrain \/ Panics \/ FailRunning \/ StateStopped \/ CloseDone
  PROVE  SpeedInv'
<1>. USE DEF SpeedInv, table, test, lifecycle
<1>1. CASE BeginDrain
  BY <1>1 DEF BeginDrain, TypeOK, WorkerInv, RecordsInv, StopInv, AttendedInv, Attended, Queued
<1>2. CASE Panics
  BY <1>2 DEF Panics, TypeOK, WorkerInv, RecordsInv, StopInv, AttendedInv
<1>3. CASE FailRunning
  <2>1. /\ UNCHANGED <<nextJobID, queue, current, test, ctxDone, canceled, marked, running, lifecycle>>
        /\ worker = "panicked" /\ worker' = "ending" /\ faulty
        /\ \A ip \in IPs : jobs'[ip] = IF jobs[ip].state = "running"
                                       THEN [jobs[ip] EXCEPT !.state = "failed"] ELSE jobs[ip]
        /\ jobs' \in [IPs -> [id : 0..nextJobID,
                              state : {"none", "running", "complete", "failed", "canceled"}]]
    BY <1>3 DEF FailRunning, TypeOK, StopInv
  <2>2. TypeOK' /\ WorkerInv' /\ StopInv' /\ AttendedInv'
    BY <2>1 DEF TypeOK, WorkerInv, StopInv, AttendedInv
  <2>3. RecordsInv'
    BY <2>1 DEF RecordsInv, TypeOK
  <2>. QED  BY <2>2, <2>3
<1>4. CASE StateStopped \/ CloseDone
  BY <1>4 DEF StateStopped, CloseDone, TypeOK, WorkerInv, RecordsInv, StopInv, AttendedInv, Attended
<1>. QED  BY <1>1, <1>2, <1>3, <1>4
-----------------------------------------------------------------------------
\* Start and Stop: without a fault no job is running when the worker is gone.
LEMMA LifecycleInv ==
  ASSUME SpeedInv, NEW c \in Callers, Start(c) \/ Stop(c) \/ StopReturns(c) \/ StopTimesOut(c)
  PROVE  SpeedInv'
<1>. USE DEF SpeedInv, table, test, lifecycle
<1>1. c # None /\ Main \in Callers /\ AfterStop(c) \in {"start", "exit"}
  BY SpeedTestAssumption DEF Callers, Main, AfterStop
<1>2. /\ <<>> \in Seq([id : 1..nextJobID, ip : IPs]) /\ Len(<<>>) = 0 /\ 0 <= QueueCapacity
  BY SpeedTestAssumption
<1>3. ~Alive /\ ~faulty => \A ip \in IPs : jobs[ip].state # "running"
  <2>. SUFFICES ASSUME ~Alive, ~faulty, NEW ip \in IPs, jobs[ip].state = "running" PROVE FALSE
    OBVIOUS
  <2>1. current = None /\ Job(jobs[ip].id, ip) # None
    BY SpeedTestAssumption DEF Alive, WorkerInv, TypeOK, Job
  <2>. QED  BY <2>1 DEF Alive, AttendedInv, Attended
<1>4. CASE Start(c) /\ Alive
  BY <1>1, <1>4 DEF Start, TypeOK, WorkerInv, RecordsInv, StopInv, AttendedInv, Attended, Queued
<1>5. CASE Start(c) /\ ~Alive
  <2>1. TypeOK' /\ StopInv'
    BY <1>1, <1>2, <1>5 DEF Start, TypeOK, StopInv
  <2>2. WorkerInv' /\ RecordsInv' /\ AttendedInv'
    BY <1>3, <1>5 DEF Start, Alive, WorkerInv, RecordsInv, AttendedInv
  <2>. QED  BY <2>1, <2>2
<1>6. CASE Stop(c)
  <2>1. /\ \A d \in Callers : caller'[d] = IF d # c THEN caller[d]
                                           ELSE IF worker = "none" THEN AfterStop(c) ELSE "stopping"
        /\ lifecycleMu = None /\ lifecycleMu' = IF worker = "none" THEN None ELSE c
        /\ ctxDone' = (ctxDone \/ worker # "none") /\ worker' = worker /\ faulty' = faulty
    BY <1>6 DEF Stop, TypeOK
  <2>2. TypeOK'
    <3>1. restarts' \in 0..MaxRestarts
      BY <1>6, SpeedTestAssumption DEF Stop, TypeOK
    <3>2. caller' \in [Callers -> {"idle", "stopping", "start", "exit"}]
      BY <1>1, <1>6 DEF Stop, TypeOK
    <3>. QED  BY <1>6, <2>1, <3>1, <3>2 DEF Stop, TypeOK
  <2>3. StopInv'
    BY <1>1, <2>1, SpeedTestAssumption DEF StopInv, Callers, Main
  <2>4. WorkerInv' /\ RecordsInv' /\ AttendedInv'
    BY <1>6 DEF Stop, WorkerInv, RecordsInv, AttendedInv, Attended, Queued
  <2>. QED  BY <2>2, <2>3, <2>4
<1>7. CASE StopReturns(c)
  <2>1. /\ \A d \in Callers : caller'[d] = IF d = c THEN AfterStop(c) ELSE caller[d]
        /\ caller' \in [Callers -> {"idle", "stopping", "start", "exit"}]
        /\ lifecycleMu = c /\ lifecycleMu' = None /\ worker' = "none" /\ faulty' = faulty
    BY <1>1, <1>7 DEF StopReturns, TypeOK, StopInv
  <2>2. TypeOK'
    BY <1>2, <1>7, <2>1 DEF StopReturns, TypeOK
  <2>3. StopInv'
    BY <1>1, <2>1, SpeedTestAssumption DEF StopInv, Callers, Main
  <2>4. WorkerInv' /\ RecordsInv' /\ AttendedInv'
    BY <1>3, <1>7 DEF StopReturns, Alive, WorkerInv, RecordsInv, AttendedInv
  <2>. QED  BY <2>2, <2>3, <2>4
<1>8. CASE StopTimesOut(c)
  <2>1. /\ \A d \in Callers : d # c => caller'[d] = caller[d]
        /\ caller'[c] \in {"idle", "exit"}
        /\ caller' \in [Callers -> {"idle", "stopping", "start", "exit"}]
        /\ lifecycleMu = c /\ lifecycleMu' = None /\ worker' = worker /\ faulty /\ faulty'
    BY <1>1, <1>8 DEF StopTimesOut, TypeOK, StopInv
  <2>2. TypeOK'
    BY <1>8, <2>1 DEF StopTimesOut, TypeOK
  <2>3. StopInv'
    BY <1>1, <2>1, SpeedTestAssumption DEF StopInv, Callers, Main
  <2>4. WorkerInv' /\ RecordsInv' /\ AttendedInv'
    BY <1>8 DEF StopTimesOut, WorkerInv, RecordsInv, AttendedInv
  <2>. QED  BY <2>2, <2>3, <2>4
<1>. QED  BY <1>4, <1>5, <1>6, <1>7, <1>8

\* The invariant of the service.
LEMMA SpeedInvariant == Spec => []SpeedInv
<1>1. ASSUME SpeedInv, UNCHANGED vars PROVE SpeedInv'
  BY <1>1 DEF SpeedInv, vars, table, test, lifecycle, TypeOK, WorkerInv, RecordsInv, StopInv,
              AttendedInv, Attended, Queued
<1>2. SpeedInv /\ [Next]_vars => SpeedInv'
  BY <1>1, QueueManualInv, CancelInv, RunInv, RecordInv, EndingInv, LifecycleInv
     DEF Next, WorkerStep, CallerStep, AtRest
<1>. QED  BY InitSpeedInv, <1>2, PTL DEF Spec
-----------------------------------------------------------------------------
\* Every variable keeps its type, the queue its capacity, and every identifier in
\* use is one that QueueManual has given out.
THEOREM TypeCorrect == Spec => []TypeOK
<1>1. SpeedInv => TypeOK
  BY DEF SpeedInv
<1>. QED  BY <1>1, SpeedInvariant, PTL

\* A result shown as complete is the job's own, whatever was cancelled, replaced
\* or restarted in the meantime.
THEOREM ShowsOwnResults == Spec => []ResultsAreOwn
<1>1. SpeedInv => ResultsAreOwn
  BY DEF SpeedInv, RecordsInv, ResultsAreOwn
<1>. QED  BY <1>1, SpeedInvariant, PTL

\* A job shown as running is in the hands or in the queue of a worker that still
\* reads it, unless a panic or an expired Stop came between.
THEOREM AttendsJobs == Spec => []JobsAttended
<1>1. SpeedInv => JobsAttended
  BY DEF SpeedInv, AttendedInv, Attended, Queued, JobsAttended
<1>. QED  BY <1>1, SpeedInvariant, PTL

\* The record of a job with a final state is never changed, only replaced by that
\* of a new request for the node.
THEOREM FinalStays == Spec => FinalStatesStay
<1>. DEFINE Stays == \A ip \in IPs : jobs[ip].state \in {"complete", "failed", "canceled"} =>
                        jobs'[ip] = jobs[ip] \/ jobs'[ip].id # jobs[ip].id
<1>1. ASSUME SpeedInv, Next PROVE Stays
  <2>1. CASE \E ip \in IPs : QueueManual(ip)
    <3>1. ASSUME NEW ip \in IPs, QueueManual(ip) PROVE Stays
      BY <1>1, <3>1 DEF QueueManual, SpeedInv, TypeOK, RecordsInv, Record, NoRecord
    <3>. QED  BY <2>1, <3>1
  <2>2. ASSUME NEW ip \in IPs, CancelManual(ip) PROVE Stays
    BY <2>2 DEF CancelManual, SpeedInv, TypeOK
  <2>3. CASE RecordResult
    <3>1. worker = "record" /\ Finish(current, result)
      BY <2>3 DEF RecordResult
    <3>2. /\ current \in [id : 1..nextJobID, ip : IPs] /\ TypeOK
          /\ result \in {"complete", "failed", "canceled"}
      BY <1>1, <3>1 DEF SpeedInv, WorkerInv
    <3>. QED  BY <3>1, <3>2, FinishIs
  <2>4. CASE FailPending
    <3>1. CASE queue = <<>>
      BY <2>4, <3>1 DEF FailPending
    <3>2. CASE queue # <<>>
      <4>1. Finish(Head(queue), "failed") /\ TypeOK
        BY <1>1, <2>4, <3>2 DEF FailPending, SpeedInv
      <4>2. Head(queue) \in [id : 1..nextJobID, ip : IPs]
        BY <3>2, <4>1, Dequeue
      <4>. QED  BY <4>1, <4>2, FinishIs
    <3>. QED  BY <3>1, <3>2
  <2>5. CASE FailRunning
    BY <2>5 DEF FailRunning
  <2>6. CASE UNCHANGED jobs
    BY <2>6
  <2>. QED  BY <1>1, <2>1, <2>2, <2>3, <2>4, <2>5, <2>6
            DEF Next, CancelContext, WorkerStep, ReceiveJob, BeginRun, TestNode, ClassifyResult,
                BeginDrain, StateStopped, CloseDone, Panics, CallerStep, Start, Stop, StopReturns,
                StopTimesOut, AtRest, vars, table
<1>2. SpeedInv /\ [Next]_vars => [Stays]_vars
  BY <1>1
<1>. QED  BY <1>2, SpeedInvariant, PTL DEF Spec, FinalStatesStay
=============================================================================
