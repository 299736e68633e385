------------------------- MODULE DurableJobsProofs -------------------------
(***************************************************************************)
(* What the job store guarantees for any number of jobs, workers, attempts *)
(* and any lease: the row invariants of DurableJobs, proved by one         *)
(* inductive invariant that speaks of each job's rows by themselves.       *)
(***************************************************************************)
EXTENDS DurableJobs, FiniteSetTheorems, TLAPS

\* One job row and its attempt rows agree.
RowsAgree(job, rows) ==
    /\ \A t \in Tokens :
          rows[t].status = "running"
              <=> job.status = "running" /\ t = job.token
    /\ \A t \in Tokens : rows[t].status = "none" <=> t > job.token
    /\ job.status = "running" => job.token # 0

\* A job row that exists stays within its request.
WithinRequest(job) ==
    /\ job.status = "absent" =>
          job.token = 0 /\ ~job.cancel_requested
    /\ job.status # "absent" =>
          /\ job.request \in Requests
          /\ job.token <= MaxAttempts[job.request]
          /\ job.status = "queued" => job.token < MaxAttempts[job.request]
    /\ job.cancel_requested => job.status \in {"running", "cancelled"}

\* The result shown is the newest completed attempt's.
ResultAgrees(job, rows) ==
    /\ \A t \in Tokens : t >= job.result =>
          (rows[t].status \in Terminal <=> t = job.result)
    /\ job.outputs => job.status = "succeeded"
    /\ job.status = "succeeded" =>
          /\ job.result = job.token
          /\ job.result # 0
          /\ rows[job.token].status = "succeeded"

JobOK(job, rows) ==
    RowsAgree(job, rows) /\ WithinRequest(job) /\ ResultAgrees(job, rows)

\* A lease is never longer than the clock's setbacks can have made it, nor
\* further overdue than MoveClock keeps.
LeaseBounds ==
    \A j \in Jobs, t \in Tokens :
        /\ attempts[j][t].lease >= -(MaxSkew - skew)
        /\ attempts[j][t].lease <= Lease + skew
        /\ attempts[j][t].status # "running" => attempts[j][t].lease = 0

IInv ==
    /\ TypeOK
    /\ LeaseBounds
    /\ \A j \in Jobs : JobOK(jobs[j], attempts[j])
-----------------------------------------------------------------------------
(* Typing of rows and of journal entries.                                  *)

LEMMA ConstantTypes ==
    /\ AttemptLimit \in Nat /\ AttemptLimit >= 1
    /\ Lease \in Nat /\ Lease >= 1 /\ MaxSkew \in Nat
    /\ Tokens \subseteq Nat /\ Cardinality(Jobs) \in Nat
    /\ \A r \in Requests : MaxAttempts[r] \in 1 .. AttemptLimit
PROOF
  <1>1. Cardinality(Jobs) \in Nat
    BY FS_CardinalityType, BoundAssumption
  <1> QED
    BY <1>1, RequestAssumption, ClockAssumption DEF Tokens

LEMMA JournalRowType ==
    ASSUME NEW name \in EventNames, NEW t \in 0 .. AttemptLimit,
           NEW next \in JobStatus \cup {""}
    PROVE  Row(name, t, next) \in Event
PROOF BY DEF Row, Event

LEMMA AppendToJournal ==
    ASSUME NEW journal \in Seq(Event), NEW e \in Event
    PROVE  Append(journal, e) \in Seq(Event)
PROOF OBVIOUS

LEMMA JobFieldTypes ==
    ASSUME NEW job \in Job
    PROVE  /\ \A s \in JobStatus : [job EXCEPT !.status = s] \in Job
           /\ \A t \in 0 .. AttemptLimit : [job EXCEPT !.token = t] \in Job
           /\ \A t \in 0 .. AttemptLimit : [job EXCEPT !.result = t] \in Job
           /\ \A b \in BOOLEAN : [job EXCEPT !.outputs = b] \in Job
PROOF BY DEF Job

LEMMA RunningRowType ==
    [status |-> "running", lease |-> Lease] \in AttemptRow
PROOF BY ConstantTypes DEF AttemptRow, RowStatus

LEMMA ClosedRowType ==
    ASSUME NEW s \in RowStatus
    PROVE  [status |-> s, lease |-> 0] \in AttemptRow
PROOF BY ConstantTypes DEF AttemptRow
-----------------------------------------------------------------------------
(* _expire, for one job.                                                   *)

LEMMA LapseIsOfRunning ==
    ASSUME IInv, NEW j \in Jobs, Lapsed(j)
    PROVE  /\ jobs[j].status = "running"
           /\ jobs[j].token \in Tokens
           /\ jobs[j].request \in Requests
           /\ AfterLapse(j) \in {"cancelled", "queued", "failed"}
PROOF
  BY ConstantTypes DEF IInv, TypeOK, Lapsed, JobOK, RowsAgree, WithinRequest,
                       AfterLapse, Job, Tokens

LEMMA ExpireType ==
    ASSUME IInv, NEW j \in Jobs
    PROVE  /\ ExpiredStatus(j) \in JobStatus
           /\ [jobs[j] EXCEPT !.status = ExpiredStatus(j)] \in Job
           /\ ExpiredRows(j) \in [Tokens -> AttemptRow]
           /\ ExpiredEvents(j) \in Seq(Event)
PROOF
  <1>1. jobs[j] \in Job /\ attempts[j] \in [Tokens -> AttemptRow]
        /\ events[j] \in Seq(Event)
    BY DEF IInv, TypeOK
  <1>2. ExpiredStatus(j) \in JobStatus
    BY <1>1, LapseIsOfRunning DEF ExpiredStatus, JobStatus, Terminal, Job
  <1>3. [jobs[j] EXCEPT !.status = ExpiredStatus(j)] \in Job
    BY <1>1, <1>2 DEF Job
  <1>4. ExpiredRows(j) \in [Tokens -> AttemptRow]
    BY <1>1, ClosedRowType DEF ExpiredRows, RowStatus
  <1>5. ExpiredEvents(j) \in Seq(Event)
    <2>1. CASE Lapsed(j)
      <3>1. Row("lease_expired", jobs[j].token, AfterLapse(j)) \in Event
        BY <2>1, <1>1, LapseIsOfRunning, JournalRowType
           DEF EventNames, StoreEvents, JobStatus, Terminal, Job
      <3> QED
        BY <3>1, <2>1, <1>1 DEF ExpiredEvents
    <2>2. CASE ~Lapsed(j)
      BY <2>2, <1>1 DEF ExpiredEvents
    <2> QED
      BY <2>1, <2>2
  <1> QED
    BY <1>2, <1>3, <1>4, <1>5

LEMMA ExpireKeepsJobOK ==
    ASSUME IInv, NEW j \in Jobs
    PROVE  JobOK([jobs[j] EXCEPT !.status = ExpiredStatus(j)], ExpiredRows(j))
PROOF
  <1> DEFINE job == [jobs[j] EXCEPT !.status = ExpiredStatus(j)]
  <1>1. jobs[j] \in Job /\ attempts[j] \in [Tokens -> AttemptRow]
        /\ JobOK(jobs[j], attempts[j])
    BY DEF IInv, TypeOK
  <1>2. CASE ~Lapsed(j)
    <2>1. job = jobs[j] /\ ExpiredRows(j) = attempts[j]
      BY <1>1, <1>2 DEF ExpiredStatus, ExpiredRows, Job
    <2> QED
      BY <2>1, <1>1
  <1>3. CASE Lapsed(j)
    <2>1. /\ job.status = AfterLapse(j) /\ job.token = jobs[j].token
          /\ job.request = jobs[j].request /\ job.result = jobs[j].result
          /\ job.cancel_requested = jobs[j].cancel_requested
          /\ job.outputs = jobs[j].outputs
      BY <1>1, <1>3 DEF ExpiredStatus, Job
    <2>2. \A t \in Tokens :
             ExpiredRows(j)[t].status = IF t = jobs[j].token THEN "expired"
                                        ELSE attempts[j][t].status
      BY <1>1, <1>3 DEF ExpiredRows, AttemptRow
    <2>3. /\ jobs[j].status = "running" /\ jobs[j].token \in Tokens
          /\ AfterLapse(j) \in {"cancelled", "queued", "failed"}
      BY <1>3, LapseIsOfRunning
    <2>4. RowsAgree(job, ExpiredRows(j))
      BY <1>1, <2>1, <2>2, <2>3 DEF JobOK, RowsAgree
    <2>5. WithinRequest(job)
      BY <1>1, <2>1, <2>3, ConstantTypes
         DEF JobOK, WithinRequest, AfterLapse, Budget, Job
    <2>6. ResultAgrees(job, ExpiredRows(j))
      BY <1>1, <2>1, <2>2, <2>3 DEF JobOK, ResultAgrees, RowsAgree, Terminal
    <2> QED
      BY <2>4, <2>5, <2>6 DEF JobOK
  <1> QED
    BY <1>2, <1>3
-----------------------------------------------------------------------------
(* One lemma per operation: it keeps the inductive invariant.              *)

LEMMA InitIInv == Init => IInv
PROOF
  <1> SUFFICES ASSUME Init PROVE IInv
    OBVIOUS
  <1>1. NoJob \in Job /\ NoRow \in AttemptRow
    BY ConstantTypes DEF NoJob, NoRow, Job, JobStatus, AttemptRow, RowStatus
  <1>2. TypeOK
    BY <1>1, ConstantTypes DEF Init, TypeOK
  <1>3. LeaseBounds
    BY ConstantTypes DEF Init, LeaseBounds, NoRow
  <1>4. \A j \in Jobs : JobOK(jobs[j], attempts[j])
    BY ConstantTypes DEF Init, JobOK, RowsAgree, WithinRequest, ResultAgrees,
                         NoJob, NoRow, Terminal, Tokens
  <1> QED
    BY <1>2, <1>3, <1>4 DEF IInv

LEMMA SubmitIInv ==
    ASSUME IInv, NEW j \in Jobs, NEW r \in Requests, Submit(j, r)
    PROVE  IInv'
PROOF
  <1>1. PICK c \in 1 .. Cardinality(Jobs) :
           jobs' = [jobs EXCEPT ![j] = NewJob(r, c)]
    BY DEF Submit
  <1> DEFINE job == NewJob(r, c)
  <1>2. job \in Job
    <2>1. c \in Nat
      BY ConstantTypes
    <2> QED
      BY <2>1, ConstantTypes DEF NewJob, Job, JobStatus
  <1>3. Row("submitted", 0, "") \in Event
    BY ConstantTypes DEF Row, Event, EventNames, StoreEvents
  <1>4. TypeOK'
    <2> HIDE DEF job
    <2>1. jobs' = [jobs EXCEPT ![j] = job]
      BY <1>1 DEF job
    <2>2. events' \in [Jobs -> Seq(Event)]
      BY <1>3, AppendToJournal DEF IInv, TypeOK, Submit
    <2> QED
      BY <1>2, <2>1, <2>2 DEF IInv, TypeOK, Submit
  <1>5. LeaseBounds'
    BY DEF IInv, LeaseBounds, Submit
  <1>6. JobOK(job, attempts[j])
    <2>1. \A t \in Tokens : attempts[j][t].status = "none"
      <3>1. JobOK(jobs[j], attempts[j]) /\ jobs[j].status = "absent"
        BY DEF IInv, Submit, Exists
      <3> QED
        BY <3>1, ConstantTypes DEF JobOK, RowsAgree, WithinRequest, Tokens
    <2>2. /\ job.status = "queued" /\ job.token = 0 /\ job.request = r
          /\ ~job.cancel_requested /\ job.result = 0 /\ ~job.outputs
      BY DEF NewJob
    <2>3. RowsAgree(job, attempts[j])
      BY <2>1, <2>2, ConstantTypes DEF RowsAgree, Tokens
    <2>4. WithinRequest(job)
      BY <2>2, ConstantTypes DEF WithinRequest
    <2>5. ResultAgrees(job, attempts[j])
      BY <2>1, <2>2, ConstantTypes DEF ResultAgrees, Terminal, Tokens
    <2> QED
      BY <2>3, <2>4, <2>5 DEF JobOK
  <1>7. \A k \in Jobs : JobOK(jobs[k], attempts[k])'
    BY <1>1, <1>6 DEF IInv, TypeOK, Submit
  <1> QED
    BY <1>4, <1>5, <1>7 DEF IInv

\* What opening the next attempt does to a queued job's rows.
LEMMA OpenKeepsJobOK ==
    ASSUME NEW job \in Job, NEW rows \in [Tokens -> AttemptRow],
           JobOK(job, rows), job.status = "queued", job.token + 1 \in Tokens
    PROVE  JobOK([job EXCEPT !.status = "running", !.token = job.token + 1],
                 [rows EXCEPT ![job.token + 1] =
                                 [status |-> "running", lease |-> Lease]])
PROOF
  <1> DEFINE u == job.token + 1
             job1 == [job EXCEPT !.status = "running", !.token = u]
             rows1 == [rows EXCEPT ![u] = [status |-> "running", lease |-> Lease]]
  <1>1. /\ job1.status = "running" /\ job1.token = u
        /\ job1.request = job.request /\ job1.result = job.result
        /\ job1.cancel_requested = job.cancel_requested
        /\ job1.outputs = job.outputs
    BY DEF Job
  <1>2. \A t \in Tokens : rows1[t].status = IF t = u THEN "running"
                                            ELSE rows[t].status
    OBVIOUS
  <1>3. u \in Tokens /\ job.token \in Nat /\ u = job.token + 1
        /\ job.result \in Nat
    BY DEF Job
  <1> HIDE DEF u, job1, rows1
  <1>4. RowsAgree(job1, rows1)
    <2>1. ASSUME NEW t \in Tokens
          PROVE  /\ rows[t].status # "running"
                 /\ rows[t].status = "none" <=> t > job.token
                 /\ t \in Nat
      BY ConstantTypes DEF JobOK, RowsAgree
    <2>2. ASSUME NEW t \in Tokens
          PROVE  /\ rows1[t].status = "running" <=> t = u
                 /\ rows1[t].status = "none" <=> t > u
      <3>1. CASE t = u
        BY <1>2, <1>3, <3>1
      <3>2. CASE t # u
        BY <1>2, <1>3, <2>1, <3>2
      <3> QED
        BY <3>1, <3>2
    <2>3. u # 0
      BY <1>3
    <2> QED
      BY <1>1, <2>2, <2>3 DEF RowsAgree
  <1>5. WithinRequest(job1)
    BY <1>1, <1>3, ConstantTypes DEF JobOK, WithinRequest
  <1>6. job.result <= job.token
    BY <1>3, ConstantTypes DEF JobOK, RowsAgree, ResultAgrees, Tokens, Terminal, Job
  <1>7. ResultAgrees(job1, rows1)
    BY <1>1, <1>2, <1>3, <1>6, ConstantTypes
       DEF JobOK, RowsAgree, ResultAgrees, Tokens, Terminal
  <1> QED
    BY <1>4, <1>5, <1>7 DEF JobOK, u, job1, rows1

\* Expiring, and expiring then opening, keep every lease within its bounds.
LEMMA ExpireKeepsLeases ==
    ASSUME IInv, NEW j \in Jobs, NEW t \in Tokens
    PROVE  /\ ExpiredRows(j)[t].lease >= -(MaxSkew - skew)
           /\ ExpiredRows(j)[t].lease <= Lease + skew
           /\ ExpiredRows(j)[t].status # "running" => ExpiredRows(j)[t].lease = 0
PROOF
  <1>1. \/ ExpiredRows(j)[t] = attempts[j][t]
        \/ ExpiredRows(j)[t].lease = 0
    BY DEF ExpiredRows, IInv, TypeOK
  <1> QED
    BY <1>1, ConstantTypes DEF IInv, TypeOK, LeaseBounds

LEMMA ClaimIInv ==
    ASSUME IInv, NEW w \in Workers, NEW j \in Jobs, Claim(w, j)
    PROVE  IInv'
PROOF
  <1> DEFINE t == jobs[j].token + 1
             Expired(k) == [jobs[k] EXCEPT !.status = ExpiredStatus(k)]
             Opened(k) == [Expired(k) EXCEPT !.status = "running", !.token = t]
             OpenedRows(k) == [ExpiredRows(k) EXCEPT ![t] =
                                  [status |-> "running", lease |-> Lease]]
  <1>1. ExpiredStatus(j) = "queued" /\ t \in Tokens
    BY DEF Claim, Oldest, Eligible
  <1>2. \A k \in Jobs : /\ Expired(k) \in Job
                        /\ ExpiredRows(k) \in [Tokens -> AttemptRow]
                        /\ ExpiredEvents(k) \in Seq(Event)
                        /\ JobOK(Expired(k), ExpiredRows(k))
    BY ExpireType, ExpireKeepsJobOK
  <1>3. /\ Opened(j) = [jobs[j] EXCEPT !.status = "running", !.token = t]
        /\ Expired(j).status = "queued" /\ Expired(j).token = jobs[j].token
    BY <1>1 DEF IInv, TypeOK, Job
  <1>4. JobOK(Opened(j), OpenedRows(j))
    <2>1. Expired(j).token + 1 = t
      BY <1>3
    <2> HIDE DEF Expired
    <2> QED
      BY <1>1, <1>2, <1>3, <2>1, OpenKeepsJobOK
  <1>5. Opened(j) \in Job /\ OpenedRows(j) \in [Tokens -> AttemptRow]
    <2>1. t \in 0 .. AttemptLimit /\ "running" \in JobStatus
      BY <1>1, ConstantTypes DEF Tokens, JobStatus
    <2>2. Opened(j) \in Job
      <3>1. [Expired(j) EXCEPT !.status = "running"] \in Job
        BY <1>2, <2>1, JobFieldTypes
      <3> QED
        BY <2>1, <3>1, JobFieldTypes
    <2>3. OpenedRows(j) \in [Tokens -> AttemptRow]
      BY <1>1, <1>2, RunningRowType
    <2> QED
      BY <2>2, <2>3
  <1>6. Row("claimed", t, "") \in Event
    BY <1>1, ConstantTypes DEF Row, Event, EventNames, StoreEvents, Tokens
  <1>7. \A k \in Jobs : /\ jobs'[k] = IF k = j THEN Opened(k) ELSE Expired(k)
                        /\ attempts'[k] = IF k = j THEN OpenedRows(k)
                                          ELSE ExpiredRows(k)
    BY <1>3 DEF Claim
  <1>8. TypeOK'
    <2>1. jobs' \in [Jobs -> Job]
      BY <1>2, <1>3, <1>5 DEF Claim
    <2>2. attempts' \in [Jobs -> [Tokens -> AttemptRow]]
      BY <1>2, <1>5 DEF Claim
    <2>3. events' \in [Jobs -> Seq(Event)]
      <3>1. Append(ExpiredEvents(j), Row("claimed", t, "")) \in Seq(Event)
        BY <1>2, <1>6, AppendToJournal
      <3> QED
        BY <1>2, <3>1 DEF Claim
    <2> QED
      BY <2>1, <2>2, <2>3 DEF IInv, TypeOK, Claim
  <1>9. LeaseBounds'
    <2> SUFFICES ASSUME NEW k \in Jobs, NEW u \in Tokens
                 PROVE  /\ attempts'[k][u].lease >= -(MaxSkew - skew)
                        /\ attempts'[k][u].lease <= Lease + skew
                        /\ attempts'[k][u].status # "running" =>
                              attempts'[k][u].lease = 0
      BY DEF LeaseBounds, Claim
    <2>1. ExpiredRows(k) \in [Tokens -> AttemptRow]
      BY <1>2
    <2>2. \/ attempts'[k][u] = [status |-> "running", lease |-> Lease]
          \/ attempts'[k][u] = ExpiredRows(k)[u]
      BY <1>7, <2>1
    <2> QED
      BY <2>2, ExpireKeepsLeases, ConstantTypes DEF IInv, TypeOK
  <1>10. \A k \in Jobs : JobOK(jobs[k], attempts[k])'
    BY <1>2, <1>4, <1>7
  <1> QED
    BY <1>8, <1>9, <1>10 DEF IInv

LEMMA ClaimNoneIInv ==
    ASSUME IInv, NEW w \in Workers, ClaimNone(w)
    PROVE  IInv'
PROOF
  <1>1. \A k \in Jobs :
           /\ jobs'[k] = [jobs[k] EXCEPT !.status = ExpiredStatus(k)]
           /\ attempts'[k] = ExpiredRows(k)
    BY DEF ClaimNone
  <1>2. TypeOK'
    BY ExpireType DEF IInv, TypeOK, ClaimNone
  <1>3. LeaseBounds'
    BY <1>1, ExpireKeepsLeases DEF LeaseBounds, ClaimNone
  <1>4. \A k \in Jobs : JobOK(jobs[k], attempts[k])'
    BY <1>1, ExpireKeepsJobOK
  <1> QED
    BY <1>2, <1>3, <1>4 DEF IInv

LEMMA HeartbeatIInv ==
    ASSUME IInv, NEW j \in Jobs, NEW t \in Tokens, Heartbeat(j, t)
    PROVE  IInv'
PROOF
  <1>1. /\ attempts \in [Jobs -> [Tokens -> AttemptRow]]
        /\ attempts' = [attempts EXCEPT ![j][t].lease = Lease]
        /\ UNCHANGED <<jobs, events, skew>>
    BY DEF IInv, TypeOK, Heartbeat
  <1>2. [attempts[j][t] EXCEPT !.lease = Lease] \in AttemptRow
    BY <1>1, ConstantTypes DEF AttemptRow
  <1>3. TypeOK'
    BY <1>1, <1>2 DEF IInv, TypeOK
  <1>4. \A k \in Jobs, u \in Tokens :
           /\ attempts'[k][u].status = attempts[k][u].status
           /\ \/ attempts'[k][u].lease = attempts[k][u].lease
              \/ /\ attempts'[k][u].lease = Lease
                 /\ attempts[k][u].status = "running"
    <2>1. attempts[j][t].status = "running"
      BY DEF Heartbeat, Owned
    <2> QED
      BY <1>1, <2>1 DEF AttemptRow
  <1>5. LeaseBounds'
    BY <1>1, <1>4, ConstantTypes DEF IInv, TypeOK, LeaseBounds
  <1>6. \A k \in Jobs : JobOK(jobs[k], attempts[k])'
    BY <1>1, <1>4 DEF IInv, JobOK, RowsAgree, ResultAgrees
  <1> QED
    BY <1>3, <1>5, <1>6 DEF IInv

LEMMA RecordEventIInv ==
    ASSUME IInv, NEW j \in Jobs, NEW t \in Tokens, NEW name \in Evidence,
           RecordEvent(j, t, name)
    PROVE  IInv'
PROOF
  <1>1. Row(name, t, "") \in Event
    BY ConstantTypes DEF Row, Event, EventNames, StoreEvents, Tokens
  <1>2. events' \in [Jobs -> Seq(Event)]
    BY <1>1, AppendToJournal DEF IInv, TypeOK, RecordEvent
  <1> QED
    BY <1>2 DEF IInv, TypeOK, LeaseBounds, RecordEvent

LEMMA CancelIInv ==
    ASSUME IInv, NEW j \in Jobs, Cancel(j)
    PROVE  IInv'
PROOF
  <1> DEFINE s == IF jobs[j].status = "queued" THEN "cancelled" ELSE "running"
  <1>1. /\ jobs \in [Jobs -> Job] /\ jobs[j] \in Job
        /\ JobOK(jobs[j], attempts[j])
        /\ jobs[j].status \in {"queued", "running"}
        /\ s \in {"cancelled", "running"}
        /\ s = "running" <=> jobs[j].status = "running"
    BY DEF IInv, TypeOK, Cancel
  <1> HIDE DEF s
  <1>2. /\ jobs' \in [Jobs -> Job]
        /\ jobs'[j].status = s
        /\ jobs'[j].cancel_requested = TRUE
        /\ jobs'[j].token = jobs[j].token
        /\ jobs'[j].request = jobs[j].request
        /\ jobs'[j].result = jobs[j].result
        /\ jobs'[j].outputs = jobs[j].outputs
        /\ \A k \in Jobs \ {j} : jobs'[k] = jobs[k]
    <2>1. jobs' = [jobs EXCEPT ![j] = [[@ EXCEPT !.cancel_requested = TRUE]
                                             EXCEPT !.status = s]]
      BY <1>1 DEF Cancel, s, Job
    <2>2. [jobs[j] EXCEPT !.cancel_requested = TRUE] \in Job
      BY <1>1 DEF Job
    <2>3. [[jobs[j] EXCEPT !.cancel_requested = TRUE] EXCEPT !.status = s] \in Job
      BY <1>1, <2>2, JobFieldTypes DEF JobStatus, Terminal
    <2> QED
      BY <1>1, <2>1, <2>3 DEF Job
  <1>3. Row("cancel_requested", jobs[j].token, "") \in Event
    BY <1>1 DEF Row, Event, EventNames, StoreEvents, Job
  <1>4. TypeOK'
    <2>1. events' \in [Jobs -> Seq(Event)]
      BY <1>3, AppendToJournal DEF IInv, TypeOK, Cancel
    <2> QED
      BY <1>2, <2>1 DEF IInv, TypeOK, Cancel
  <1>5. LeaseBounds'
    BY DEF IInv, LeaseBounds, Cancel
  <1>6. JobOK(jobs'[j], attempts[j])
    <2>1. RowsAgree(jobs'[j], attempts[j])
      BY <1>1, <1>2 DEF JobOK, RowsAgree
    <2>2. WithinRequest(jobs'[j])
      BY <1>1, <1>2, ConstantTypes DEF JobOK, WithinRequest
    <2>3. ResultAgrees(jobs'[j], attempts[j])
      BY <1>1, <1>2 DEF JobOK, ResultAgrees
    <2> QED
      BY <2>1, <2>2, <2>3 DEF JobOK
  <1>7. \A k \in Jobs : JobOK(jobs[k], attempts[k])'
    BY <1>2, <1>6 DEF IInv, Cancel
  <1> QED
    BY <1>4, <1>5, <1>7 DEF IInv

LEMMA FinishIInv ==
    ASSUME IInv, NEW j \in Jobs, NEW t \in Tokens, NEW status \in Terminal,
           NEW retryable \in BOOLEAN, NEW published \in BOOLEAN,
           Finish(j, t, status, retryable, published)
    PROVE  IInv'
PROOF
  <1> DEFINE target == CompletionTarget(j, t, status, retryable)
             closed == [status |-> status, lease |-> 0]
  <1>1. /\ jobs \in [Jobs -> Job] /\ jobs[j] \in Job
        /\ attempts \in [Jobs -> [Tokens -> AttemptRow]]
        /\ JobOK(jobs[j], attempts[j])
        /\ jobs[j].status = "running" /\ t = jobs[j].token
        /\ attempts[j][t].status = "running"
        /\ jobs[j].cancel_requested => status = "cancelled"
        /\ retryable => status = "failed"
        /\ published => status = "succeeded"
    BY DEF IInv, TypeOK, Finish, Owned
  <1>2. /\ target = "queued" => retryable /\ t < MaxAttempts[jobs[j].request]
        /\ target # "queued" => target = status
        /\ target \in JobStatus
        /\ target \notin {"running", "absent"}
        /\ target \in JobStatus \cup {""}
    BY DEF CompletionTarget, Budget, JobStatus, Terminal
  <1> HIDE DEF target
  <1>3. /\ jobs' \in [Jobs -> Job]
        /\ jobs'[j].status = target
        /\ jobs'[j].cancel_requested = jobs[j].cancel_requested
        /\ jobs'[j].token = jobs[j].token
        /\ jobs'[j].request = jobs[j].request
        /\ jobs'[j].result = t
        /\ jobs'[j].outputs = published
        /\ \A k \in Jobs \ {j} : jobs'[k] = jobs[k]
    <2> DEFINE new == [[[jobs[j] EXCEPT !.status = target]
                          EXCEPT !.result = t] EXCEPT !.outputs = published]
    <2>1. jobs' = [jobs EXCEPT ![j] = new]
      BY <1>1 DEF Finish, target, Job
    <2>2. new \in Job
      <3>1. [jobs[j] EXCEPT !.status = target] \in Job
        BY <1>1, <1>2, JobFieldTypes
      <3>2. [[jobs[j] EXCEPT !.status = target] EXCEPT !.result = t] \in Job
        <4>1. t \in 0 .. AttemptLimit
          BY ConstantTypes DEF Tokens
        <4> QED
          BY <3>1, <4>1, JobFieldTypes
      <3> QED
        BY <3>2, JobFieldTypes
    <2> QED
      BY <1>1, <2>1, <2>2 DEF Job
  <1>4. /\ attempts' = [attempts EXCEPT ![j][t] = closed]
        /\ closed \in AttemptRow
    BY ClosedRowType DEF Finish, RowStatus
  <1>5. Row("completed", t, target) \in Event
    <2>1. t \in 0 .. AttemptLimit /\ "completed" \in EventNames
      BY ConstantTypes DEF Tokens, EventNames, StoreEvents
    <2> QED
      BY <1>2, <2>1, JournalRowType
  <1>6. TypeOK'
    <2>1. events' \in [Jobs -> Seq(Event)]
      BY <1>5, AppendToJournal DEF IInv, TypeOK, Finish, target
    <2>2. attempts' \in [Jobs -> [Tokens -> AttemptRow]]
      BY <1>1, <1>4
    <2> QED
      BY <1>3, <2>1, <2>2 DEF IInv, TypeOK, Finish
  <1>7. LeaseBounds'
    <2>1. \A k \in Jobs, u \in Tokens :
             attempts'[k][u] = attempts[k][u] \/ attempts'[k][u].lease = 0
      BY <1>1, <1>4
    <2> QED
      BY <2>1, ConstantTypes DEF IInv, TypeOK, LeaseBounds, Finish
  <1>8. JobOK(jobs'[j], attempts'[j])
    <2>1. \A u \in Tokens :
             attempts'[j][u].status = IF u = t THEN status
                                      ELSE attempts[j][u].status
      BY <1>1, <1>4
    <2>2. RowsAgree(jobs'[j], attempts'[j])
      <3>1. t = jobs[j].token /\ RowsAgree(jobs[j], attempts[j])
        BY <1>1 DEF JobOK, RowsAgree
      <3>2. status # "running" /\ status # "none"
        BY <1>1 DEF Terminal
      <3>3. \A u \in Tokens : attempts'[j][u].status # "running"
        BY <2>1, <3>1, <3>2 DEF RowsAgree
      <3>4. \A u \in Tokens :
               attempts'[j][u].status = "none" <=> u > jobs[j].token
        BY <1>1, <2>1, <3>1, <3>2 DEF RowsAgree
      <3> QED
        BY <1>2, <1>3, <3>3, <3>4 DEF RowsAgree
    <2>3. WithinRequest(jobs'[j])
      BY <1>1, <1>2, <1>3, ConstantTypes
         DEF JobOK, WithinRequest, Terminal
    <2>4. ResultAgrees(jobs'[j], attempts'[j])
      <3>1. \A u \in Tokens : u >= t =>
               (attempts'[j][u].status \in Terminal <=> u = t)
        <4>1. \A u \in Tokens : u > t => attempts[j][u].status = "none"
          BY <1>1 DEF JobOK, RowsAgree
        <4> QED
          BY <2>1, <4>1, ConstantTypes DEF Terminal
      <3>2. published => target = "succeeded"
        BY <1>1, <1>2
      <3>3. target = "succeeded" => status = "succeeded"
        BY <1>2
      <3>4. t # 0
        BY DEF Tokens
      <3> QED
        BY <1>1, <1>3, <2>1, <3>1, <3>2, <3>3, <3>4 DEF ResultAgrees
    <2> QED
      BY <2>2, <2>3, <2>4 DEF JobOK
  <1>9. \A k \in Jobs : JobOK(jobs[k], attempts[k])'
    BY <1>1, <1>3, <1>4, <1>8 DEF IInv
  <1> QED
    BY <1>6, <1>7, <1>9 DEF IInv

\* Any move of the clock, given the new skew it goes with.
LEMMA MoveClockIInv ==
    ASSUME IInv, NEW d \in {-1, 1}, MoveClock(d), UNCHANGED <<jobs, events>>,
           skew' \in 0 .. MaxSkew, skew' >= skew, d = 1 => skew' = skew + 1
    PROVE  IInv'
PROOF
  <1>0. \A s \in 0 .. MaxSkew : 0 >= -(MaxSkew - s) /\ 0 <= Lease + s
    BY ConstantTypes
  <1>1. \A j \in Jobs, t \in Tokens :
           /\ attempts[j][t] \in AttemptRow
           /\ attempts[j][t].lease >= -(MaxSkew - skew)
           /\ attempts[j][t].lease <= Lease + skew
           /\ attempts[j][t].status # "running" => attempts[j][t].lease = 0
    BY DEF IInv, TypeOK, LeaseBounds
  <1>2. \A j \in Jobs, t \in Tokens :
           /\ attempts'[j][t].status = attempts[j][t].status
           /\ attempts'[j][t] \in [status : RowStatus, lease : Int]
           /\ attempts'[j][t].lease >= -(MaxSkew - skew')
           /\ attempts'[j][t].lease <= Lease + skew'
           /\ attempts'[j][t].status # "running" => attempts'[j][t].lease = 0
    <2> SUFFICES ASSUME NEW j \in Jobs, NEW t \in Tokens
                 PROVE  /\ attempts'[j][t].status = attempts[j][t].status
                        /\ attempts'[j][t] \in [status : RowStatus, lease : Int]
                        /\ attempts'[j][t].lease >= -(MaxSkew - skew')
                        /\ attempts'[j][t].lease <= Lease + skew'
                        /\ attempts'[j][t].status # "running" =>
                              attempts'[j][t].lease = 0
      OBVIOUS
    <2>1. attempts[j][t] \in [status : RowStatus, lease : Int]
      BY <1>1, ConstantTypes DEF AttemptRow
    <2> DEFINE l == attempts[j][t].lease
               moved == IF l + d < Overdue THEN Overdue ELSE l + d
    <2>2. l \in Int /\ skew \in Int /\ l >= -(MaxSkew - skew) /\ l <= Lease + skew
      BY <1>1, <2>1 DEF IInv, TypeOK
    <2>3. moved \in Int /\ moved >= -(MaxSkew - skew') /\ moved <= Lease + skew'
      BY <2>2, ConstantTypes DEF Overdue
    <2>4. CASE attempts[j][t].status = "running"
      <3>1. attempts'[j][t] = [attempts[j][t] EXCEPT !.lease = moved]
        BY <2>4 DEF MoveClock
      <3> HIDE DEF moved, l
      <3>2. /\ attempts'[j][t].status = attempts[j][t].status
            /\ attempts'[j][t].lease = moved
            /\ attempts'[j][t] \in [status : RowStatus, lease : Int]
        BY <2>1, <2>3, <3>1
      <3> QED
        BY <2>3, <2>4, <3>2
    <2>5. CASE attempts[j][t].status # "running"
      <3>1. attempts'[j][t] = attempts[j][t]
        BY <2>5 DEF MoveClock
      <3>2. l = 0
        BY <1>1, <2>5
      <3>4. /\ attempts'[j][t].status = attempts[j][t].status
            /\ attempts'[j][t] \in [status : RowStatus, lease : Int]
            /\ attempts'[j][t].lease = 0
        BY <2>1, <3>1, <3>2
      <3> QED
        BY <1>0, <3>4
    <2> QED
      BY <2>4, <2>5
  <1>3. attempts' \in [Jobs -> [Tokens -> AttemptRow]]
    <2>1. \A j \in Jobs, t \in Tokens : attempts'[j][t] \in AttemptRow
      BY <1>2, ConstantTypes DEF AttemptRow
    <2> QED
      BY <2>1 DEF MoveClock
  <1>4. TypeOK'
    BY <1>3 DEF IInv, TypeOK
  <1>5. LeaseBounds'
    BY <1>2 DEF LeaseBounds
  <1>6. \A j \in Jobs : JobOK(jobs[j], attempts[j])'
    <2>1. \A j \in Jobs : JobOK(jobs[j], attempts[j]) /\ jobs'[j] = jobs[j]
      BY DEF IInv
    <2>2. ASSUME NEW j \in Jobs PROVE JobOK(jobs[j], attempts'[j])
      <3>1. \A t \in Tokens : attempts'[j][t].status = attempts[j][t].status
        BY <1>2
      <3>2. jobs[j].status = "succeeded" => jobs[j].token \in Tokens
        BY <2>1, ConstantTypes
           DEF JobOK, ResultAgrees, IInv, TypeOK, Job, Tokens
      <3>3. RowsAgree(jobs[j], attempts'[j]) /\ WithinRequest(jobs[j])
        BY <2>1, <3>1 DEF JobOK, RowsAgree
      <3>4. ResultAgrees(jobs[j], attempts'[j])
        BY <2>1, <3>1, <3>2 DEF JobOK, ResultAgrees
      <3> QED
        BY <3>3, <3>4 DEF JobOK
    <2> QED
      BY <2>1, <2>2
  <1> QED
    BY <1>4, <1>5, <1>6 DEF IInv
-----------------------------------------------------------------------------
LEMMA NextIInv == IInv /\ [Next]_vars => IInv'
PROOF
  <1> SUFFICES ASSUME IInv, [Next]_vars PROVE IInv'
    OBVIOUS
  <1>1. CASE \E j \in Jobs, r \in Requests : Submit(j, r)
    BY <1>1, SubmitIInv
  <1>2. CASE \E w \in Workers, j \in Jobs : Claim(w, j)
    BY <1>2, ClaimIInv
  <1>3. CASE \E w \in Workers : ClaimNone(w)
    BY <1>3, ClaimNoneIInv
  <1>4. CASE \E j \in Jobs, t \in Tokens : Heartbeat(j, t)
    BY <1>4, HeartbeatIInv
  <1>5. CASE \E j \in Jobs, t \in Tokens, name \in Evidence : RecordEvent(j, t, name)
    BY <1>5, RecordEventIInv
  <1>6. CASE \E j \in Jobs : Cancel(j)
    BY <1>6, CancelIInv
  <1>7. CASE \E j \in Jobs, t \in Tokens, status \in Terminal,
               retryable \in BOOLEAN, published \in BOOLEAN :
                  Finish(j, t, status, retryable, published)
    BY <1>7, FinishIInv
  <1>8. CASE Tick
    <2>1. skew' \in 0 .. MaxSkew /\ skew' >= skew
      BY <1>8, ConstantTypes DEF Tick, IInv, TypeOK
    <2> QED
      BY <1>8, <2>1, MoveClockIInv DEF Tick
  <1>9. CASE SetClockBack
    <2>1. skew' \in 0 .. MaxSkew /\ skew' >= skew /\ skew' = skew + 1
      BY <1>9, ConstantTypes DEF SetClockBack, IInv, TypeOK
    <2> QED
      BY <1>9, <2>1, MoveClockIInv DEF SetClockBack
  <1>10. CASE UNCHANGED vars
    BY <1>10 DEF vars, IInv, TypeOK, LeaseBounds
  <1> QED
    BY <1>1, <1>2, <1>3, <1>4, <1>5, <1>6, <1>7, <1>8, <1>9, <1>10 DEF Next

(* The inductive invariant holds of every reachable store.                 *)
THEOREM Inductive == Spec => []IInv
PROOF
  BY InitIInv, NextIInv, PTL DEF Spec

LEMMA StoreOfIInv == IInv => StoreInvariant
PROOF
  <1>1. IInv => TypeOK
    BY DEF IInv
  <1>2. IInv => OneOwner
    BY DEF IInv, OneOwner, JobOK, RowsAgree
  <1>3. IInv => AttemptBudget
    BY DEF IInv, AttemptBudget, JobOK, WithinRequest, Budget, Exists
  <1>4. IInv => CancelIsHonoured
    BY DEF IInv, CancelIsHonoured, JobOK, WithinRequest
  <1>5. IInv => ResultProvenance
    BY DEF IInv, ResultProvenance, JobOK, ResultAgrees
  <1> QED
    BY <1>1, <1>2, <1>3, <1>4, <1>5 DEF StoreInvariant

(* The store's whole invariant, for any jobs, workers, budgets, leases and *)
(* setbacks of the clock: types, one owner, the attempt budget that        *)
(* claim() does not test, accepted cancellations, the newest result.       *)
THEOREM StoreHolds == Spec => []StoreInvariant
PROOF
  BY StoreOfIInv, Inductive, PTL

(* Fencing by itself: at most one attempt of a job runs, the one its row   *)
(* names.                                                                  *)
THEOREM Fencing == Spec => []OneOwner
PROOF
  <1>1. StoreInvariant => OneOwner
    BY DEF StoreInvariant
  <1> QED
    BY <1>1, StoreHolds, PTL
-----------------------------------------------------------------------------
(* What a step may do to one job.                                          *)

\* A job without a running attempt is left alone by _expire.
LEMMA IdleIsNotLapsed ==
    ASSUME IInv, NEW j \in Jobs, jobs[j].status # "running"
    PROVE  /\ [jobs[j] EXCEPT !.status = ExpiredStatus(j)] = jobs[j]
           /\ ExpiredRows(j) = attempts[j]
           /\ ExpiredEvents(j) = events[j]
PROOF
  <1>1. ~Lapsed(j)
    BY LapseIsOfRunning
  <1> QED
    BY <1>1 DEF ExpiredStatus, ExpiredRows, ExpiredEvents, IInv, TypeOK, Job

\* No clock reading changes the rows of a job that does not run.
LEMMA ClockSparesIdle ==
    ASSUME IInv, NEW d, MoveClock(d), NEW j \in Jobs,
           jobs[j].status # "running"
    PROVE  attempts'[j] = attempts[j]
PROOF
  <1>1. \A t \in Tokens : attempts[j][t].status # "running"
    BY DEF IInv, JobOK, RowsAgree
  <1>2. attempts[j] \in [Tokens -> AttemptRow]
    BY DEF IInv, TypeOK
  <1> QED
    BY <1>1, <1>2 DEF MoveClock

LEMMA StepKeepsTerminal ==
    ASSUME IInv, Next, NEW j \in Jobs, jobs[j].status \in Terminal
    PROVE  /\ jobs'[j] = jobs[j]
           /\ attempts'[j] = attempts[j]
           /\ events'[j] = events[j]
PROOF
  <1>1. /\ jobs[j].status \notin {"absent", "queued", "running"}
        /\ jobs \in [Jobs -> Job] /\ events \in [Jobs -> Seq(Event)]
        /\ attempts \in [Jobs -> [Tokens -> AttemptRow]]
    BY DEF Terminal, IInv, TypeOK
  <1>2. ExpiredStatus(j) = jobs[j].status
    BY <1>1, LapseIsOfRunning DEF ExpiredStatus
  <1>3. CASE \E k \in Jobs, r \in Requests : Submit(k, r)
    BY <1>1, <1>3 DEF Submit, Exists
  <1>4. CASE \E w \in Workers, k \in Jobs : Claim(w, k)
    <2>1. PICK w \in Workers, k \in Jobs : Claim(w, k)
      BY <1>4
    <2>2. k # j
      BY <1>1, <1>2, <2>1 DEF Claim, Oldest, Eligible
    <2> QED
      BY <1>1, <2>1, <2>2, IdleIsNotLapsed DEF Claim
  <1>5. CASE \E w \in Workers : ClaimNone(w)
    BY <1>1, <1>5, IdleIsNotLapsed DEF ClaimNone
  <1>6. CASE \E k \in Jobs, t \in Tokens :
                Heartbeat(k, t) \/ \E name \in Evidence : RecordEvent(k, t, name)
    BY <1>1, <1>6 DEF Heartbeat, RecordEvent, Owned
  <1>7. CASE \E k \in Jobs : Cancel(k)
    BY <1>1, <1>7 DEF Cancel
  <1>8. CASE \E k \in Jobs, t \in Tokens, status \in Terminal,
               retryable \in BOOLEAN, published \in BOOLEAN :
                  Finish(k, t, status, retryable, published)
    BY <1>1, <1>8 DEF Finish, Owned
  <1>9. CASE Tick \/ SetClockBack
    BY <1>1, <1>9, ClockSparesIdle DEF Tick, SetClockBack
  <1> QED
    BY <1>3, <1>4, <1>5, <1>6, <1>7, <1>8, <1>9 DEF Next

(* A decided job never changes again, whichever stale, repeated or delayed *)
(* call arrives: neither its row, nor its attempts, nor its journal.       *)
THEOREM DecisionsStand == Spec => TerminalIsFinal
PROOF
  <1>1. IInv /\ [Next]_vars =>
          [\A j \in Jobs : jobs[j].status \in Terminal =>
               /\ jobs'[j] = jobs[j]
               /\ attempts'[j] = attempts[j]
               /\ events'[j] = events[j]]_vars
    BY StepKeepsTerminal
  <1> QED
    BY <1>1, Inductive, PTL DEF Spec, TerminalIsFinal
-----------------------------------------------------------------------------
(* The store implements the abstract lifecycle, job by job.                *)

\* A step of job j in the abstract lifecycle, with its state written out.
LifeStep(j) ==
    LET old == jobs[j]
        new == jobs'[j]
        keeps == new.token = old.token /\ new.request = old.request
    IN  \/ /\ old.status = "absent" /\ new.status = "queued"
           /\ new.request \in Requests
           /\ new.token = old.token
           /\ new.cancel_requested = old.cancel_requested
        \/ /\ old.status \in {"queued", "running"} /\ new.status = "running"
           /\ ~old.cancel_requested
           /\ new.cancel_requested = old.cancel_requested
           /\ old.token < MaxAttempts[old.request]
           /\ new.token = old.token + 1 /\ new.request = old.request
        \/ /\ old.status = "running" /\ new.status = "queued"
           /\ ~old.cancel_requested
           /\ new.cancel_requested = old.cancel_requested
           /\ old.token < MaxAttempts[old.request]
           /\ keeps
        \/ /\ old.status = "running" /\ new.status \in Terminal
           /\ old.cancel_requested => new.status = "cancelled"
           /\ new.cancel_requested = old.cancel_requested
           /\ keeps
        \/ /\ old.status \in {"queued", "running"}
           /\ ~old.cancel_requested /\ new.cancel_requested
           /\ new.status = IF old.status = "queued" THEN "cancelled" ELSE "running"
           /\ keeps
        \/ /\ new.status = old.status
           /\ new.cancel_requested = old.cancel_requested
           /\ keeps

LEMMA ExpireIsLifeStep ==
    ASSUME IInv, NEW j \in Jobs,
           jobs'[j] = [jobs[j] EXCEPT !.status = ExpiredStatus(j)]
    PROVE  LifeStep(j)
PROOF
  <1>1. /\ jobs[j] \in Job
        /\ jobs'[j].status = ExpiredStatus(j)
        /\ jobs'[j].token = jobs[j].token
        /\ jobs'[j].request = jobs[j].request
        /\ jobs'[j].cancel_requested = jobs[j].cancel_requested
    BY DEF IInv, TypeOK, Job
  <1>2. CASE Lapsed(j)
    BY <1>1, <1>2, LapseIsOfRunning
       DEF LifeStep, ExpiredStatus, AfterLapse, Budget, Terminal
  <1>3. CASE ~Lapsed(j)
    BY <1>1, <1>3 DEF LifeStep, ExpiredStatus
  <1> QED
    BY <1>2, <1>3

\* A claim: the job's own attempt may have lapsed in the same transaction.
LEMMA ClaimIsLifeStep ==
    ASSUME IInv, NEW w \in Workers, NEW k \in Jobs, Claim(w, k), NEW j \in Jobs
    PROVE  LifeStep(j)
PROOF
  <1>1. CASE j # k
    <2>1. jobs'[j] = [jobs[j] EXCEPT !.status = ExpiredStatus(j)]
      BY <1>1 DEF Claim
    <2> QED
      BY <2>1, ExpireIsLifeStep
  <1>2. CASE j = k
    <2>1. /\ jobs[j] \in Job /\ JobOK(jobs[j], attempts[j])
          /\ ExpiredStatus(j) = "queued"
          /\ jobs'[j].status = "running"
          /\ jobs'[j].token = jobs[j].token + 1
          /\ jobs'[j].request = jobs[j].request
          /\ jobs'[j].cancel_requested = jobs[j].cancel_requested
      BY <1>2 DEF IInv, TypeOK, Claim, Oldest, Eligible, Job
    <2>2. CASE Lapsed(j)
      BY <2>1, <2>2, LapseIsOfRunning
         DEF LifeStep, ExpiredStatus, AfterLapse, Budget
    <2>3. CASE ~Lapsed(j)
      BY <2>1, <2>3 DEF LifeStep, ExpiredStatus, JobOK, WithinRequest
    <2> QED
      BY <2>2, <2>3
  <1> QED
    BY <1>1, <1>2

LEMMA FinishIsLifeStep ==
    ASSUME IInv, NEW k \in Jobs, NEW t \in Tokens, NEW status \in Terminal,
           NEW retryable \in BOOLEAN, NEW published \in BOOLEAN,
           Finish(k, t, status, retryable, published), NEW j \in Jobs
    PROVE  LifeStep(j)
PROOF
  <1> DEFINE target == CompletionTarget(k, t, status, retryable)
  <1>1. CASE j # k
    <2>1. jobs'[j] = jobs[j]
      BY <1>1 DEF Finish, IInv, TypeOK
    <2> QED
      BY <2>1 DEF LifeStep
  <1>2. CASE j = k
    <2>1. /\ jobs[j] \in Job
          /\ jobs[j].status = "running" /\ t = jobs[j].token
          /\ jobs[j].cancel_requested => status = "cancelled"
          /\ retryable => status = "failed"
      BY <1>2 DEF IInv, TypeOK, Finish, Owned
    <2>2. /\ jobs'[j].status = target
          /\ jobs'[j].token = jobs[j].token
          /\ jobs'[j].request = jobs[j].request
          /\ jobs'[j].cancel_requested = jobs[j].cancel_requested
      BY <1>2 DEF IInv, TypeOK, Finish, Job
    <2>3. \/ target = "queued" /\ retryable /\ t < MaxAttempts[jobs[j].request]
          \/ target = status
      BY <1>2 DEF CompletionTarget, Budget
    <2> HIDE DEF target
    <2> QED
      BY <2>1, <2>2, <2>3 DEF LifeStep, Terminal
  <1> QED
    BY <1>1, <1>2

LEMMA StepIsLifeStep ==
    ASSUME IInv, [Next]_vars, NEW j \in Jobs
    PROVE  LifeStep(j)
PROOF
  <1>0. jobs \in [Jobs -> Job] /\ jobs[j] \in Job
    BY DEF IInv, TypeOK
  <1>1. CASE \E k \in Jobs, r \in Requests : Submit(k, r)
    <2>1. PICK k \in Jobs, r \in Requests : Submit(k, r)
      BY <1>1
    <2>2. PICK c : jobs' = [jobs EXCEPT ![k] = NewJob(r, c)]
      BY <2>1 DEF Submit
    <2>3. jobs[k].status = "absent" /\ jobs[k].token = 0
          /\ jobs[k].cancel_requested = FALSE
      <3>1. jobs[k] \in Job /\ JobOK(jobs[k], attempts[k])
            /\ jobs[k].status = "absent"
        BY <2>1 DEF IInv, TypeOK, Submit, Exists
      <3> QED
        BY <3>1 DEF JobOK, WithinRequest, Job
    <2>4. CASE j = k
      <3>1. jobs'[j] = NewJob(r, c)
        BY <1>0, <2>2, <2>4
      <3>2. /\ jobs'[j].status = "queued" /\ jobs'[j].token = 0
            /\ jobs'[j].cancel_requested = FALSE /\ jobs'[j].request = r
        BY <3>1 DEF NewJob
      <3> QED
        BY <2>3, <2>4, <3>2 DEF LifeStep
    <2>5. CASE j # k
      <3>1. jobs'[j] = jobs[j]
        BY <1>0, <2>2, <2>5
      <3> QED
        BY <3>1 DEF LifeStep
    <2> QED
      BY <2>4, <2>5
  <1>2. CASE \E w \in Workers, k \in Jobs : Claim(w, k)
    BY <1>2, ClaimIsLifeStep
  <1>3. CASE \E w \in Workers : ClaimNone(w)
    <2>1. jobs'[j] = [jobs[j] EXCEPT !.status = ExpiredStatus(j)]
      BY <1>3 DEF ClaimNone
    <2> QED
      BY <2>1, ExpireIsLifeStep
  <1>4. CASE jobs' = jobs
    BY <1>4 DEF LifeStep
  <1>5. CASE \E k \in Jobs : Cancel(k)
    <2>1. PICK k \in Jobs : Cancel(k)
      BY <1>5
    <2>2. CASE j # k
      <3>1. jobs'[j] = jobs[j]
        BY <1>0, <2>1, <2>2 DEF Cancel
      <3> QED
        BY <3>1 DEF LifeStep
    <2>3. CASE j = k
      <3>1. /\ jobs[j].status \in {"queued", "running"}
            /\ ~jobs[j].cancel_requested
            /\ jobs'[j].cancel_requested = TRUE
            /\ jobs'[j].token = jobs[j].token
            /\ jobs'[j].request = jobs[j].request
            /\ jobs'[j].status = IF jobs[j].status = "queued" THEN "cancelled"
                                 ELSE "running"
        BY <1>0, <2>1, <2>3 DEF Cancel, Job
      <3> QED
        BY <3>1 DEF LifeStep
    <2> QED
      BY <2>2, <2>3
  <1>6. CASE \E k \in Jobs, t \in Tokens, status \in Terminal,
               retryable \in BOOLEAN, published \in BOOLEAN :
                  Finish(k, t, status, retryable, published)
    BY <1>6, FinishIsLifeStep
  <1> QED
    BY <1>1, <1>2, <1>3, <1>4, <1>5, <1>6
       DEF Next, Heartbeat, RecordEvent, Tick, SetClockBack, vars

\* The six disjuncts of LifeStep are the five abstract steps and the stutter.
LEMMA LifeStepRefines ==
    ASSUME IInv, NEW j \in Jobs, LifeStep(j)
    PROVE  [Life(j)!Next]_(Life(j)!jobVars)
PROOF
  <1> DEFINE old == jobs[j]
             new == jobs'[j]
             keeps == new.token = old.token /\ new.request = old.request
  <1>1. /\ old.status # "absent" => old.request \in Requests
        /\ old.status = "absent" => old.token = 0
    BY DEF IInv, TypeOK, JobOK, WithinRequest
  <1>2. CASE /\ old.status = "absent" /\ new.status = "queued"
             /\ new.request \in Requests /\ new.token = old.token
             /\ new.cancel_requested = old.cancel_requested
    <2>1. MaxAttempts[new.request] \in 1 .. AttemptLimit
      BY <1>2, ConstantTypes
    <2>2. Life(j)!Submit
      BY <1>2, <2>1 DEF Life!Submit, Exists, Budget
    <2> QED
      BY <2>2 DEF Life!Next
  <1>3. CASE /\ old.status \in {"queued", "running"} /\ new.status = "running"
             /\ ~old.cancel_requested
           /\ new.cancel_requested = old.cancel_requested
             /\ old.token < MaxAttempts[old.request]
             /\ new.token = old.token + 1 /\ new.request = old.request
    <2>1. Life(j)!Begin
      BY <1>3 DEF Life!Begin, Exists, Budget
    <2> QED
      BY <2>1 DEF Life!Next
  <1>4. CASE /\ old.status = "running" /\ new.status = "queued"
             /\ ~old.cancel_requested
           /\ new.cancel_requested = old.cancel_requested
             /\ old.token < MaxAttempts[old.request]
             /\ keeps
    <2>1. Life(j)!Requeue
      BY <1>4 DEF Life!Requeue, Exists, Budget
    <2> QED
      BY <2>1 DEF Life!Next
  <1>5. CASE /\ old.status = "running" /\ new.status \in Terminal
             /\ old.cancel_requested => new.status = "cancelled"
             /\ new.cancel_requested = old.cancel_requested
             /\ keeps
    <2>1. Life(j)!Decide
      BY <1>5 DEF Life!Decide, Life!Final, Exists, Budget, Terminal
    <2> QED
      BY <2>1 DEF Life!Next
  <1>6. CASE /\ old.status \in {"queued", "running"}
             /\ ~old.cancel_requested /\ new.cancel_requested
             /\ new.status = IF old.status = "queued" THEN "cancelled" ELSE "running"
             /\ keeps
    <2>1. new.cancel_requested = TRUE
      BY <1>6
    <2>2. Life(j)!Cancel
      BY <1>6, <2>1 DEF Life!Cancel, Exists, Budget
    <2> QED
      BY <2>2 DEF Life!Next
  <1>7. CASE /\ new.status = old.status
             /\ new.cancel_requested = old.cancel_requested
             /\ keeps
    BY <1>7 DEF Life!jobVars, Exists, Budget
  <1> QED
    BY <1>2, <1>3, <1>4, <1>5, <1>6, <1>7 DEF LifeStep

LEMMA InitRefines ==
    ASSUME Init, NEW j \in Jobs
    PROVE  Life(j)!Init
PROOF BY DEF Init, NoJob, Life!Init, Exists

(* Every job of the store follows the abstract lifecycle: the initial rows *)
(* map to its initial state and every step, however many jobs one claim's  *)
(* expiry touches, maps for each job to one of its steps or to a stutter.  *)
THEOREM LifecycleRefinement == Spec => EveryJobFollowsLifecycle
PROOF
  <1>1. Init => \A j \in Jobs : Life(j)!Init
    BY InitRefines
  <1>2. IInv /\ [Next]_vars =>
          [\A j \in Jobs : [Life(j)!Next]_(Life(j)!jobVars)]_vars
    BY StepIsLifeStep, LifeStepRefines
  <1> QED
    BY <1>1, <1>2, Inductive, PTL DEF Spec, EveryJobFollowsLifecycle
-----------------------------------------------------------------------------
(* What the journal tells.                                                 *)

LEMMA AppendedRow ==
    ASSUME NEW log \in Seq(Event), NEW e \in Event
    PROVE  LET new == Append(log, e) IN
           /\ Len(log) \in Nat /\ DOMAIN log = 1 .. Len(log)
           /\ Len(new) = Len(log) + 1 /\ DOMAIN new = 1 .. Len(log) + 1
           /\ \A i \in DOMAIN log : new[i] = log[i]
           /\ new[Len(log) + 1] = e
PROOF OBVIOUS

LEMMA TellsMore ==
    ASSUME NEW log \in Seq(Event), NEW e \in Event, NEW name, NEW t
    PROVE  Tells(Append(log, e), name, t)
             <=> Tells(log, name, t) \/ (e.event = name /\ e.attempt = t)
PROOF BY AppendedRow DEF Tells

LEMMA CancellationTold ==
    ASSUME NEW log \in Seq(Event), NEW e \in Event
    PROVE  LET new == Append(log, e) IN
           (\E i \in DOMAIN new : new[i].event = "cancel_requested")
             <=> \/ \E i \in DOMAIN log : log[i].event = "cancel_requested"
                 \/ e.event = "cancel_requested"
PROOF BY AppendedRow

\* A row that moves the job tells what it becomes.
LEMMA MoveTold ==
    ASSUME NEW log \in Seq(Event), NEW e \in Event, e.event \in Moves
    PROVE  StatusTold(StatusAfter(e), Append(log, e))
PROOF
  <1> DEFINE new == Append(log, e)
             i == Len(log) + 1
             later == {new[k].event : k \in i + 1 .. Len(new)}
  <1>1. i \in DOMAIN new /\ new[i] = e /\ later = {}
    BY AppendedRow
  <1> HIDE DEF new, i
  <1> QED
    BY <1>1 DEF StatusTold, new

\* One that does not leaves what is told, or is a cancellation.
LEMMA StayTold ==
    ASSUME NEW log \in Seq(Event), NEW e \in Event, NEW status,
           StatusTold(status, log), e.event \notin Moves,
           status # "absent",
           status = "queued" => e.event # "cancel_requested"
    PROVE  StatusTold(status, Append(log, e))
PROOF
  <1> DEFINE new == Append(log, e)
             Later(l, i) == {l[k].event : k \in i + 1 .. Len(l)}
  <1>1. PICK i \in DOMAIN log :
           /\ log[i].event \in Moves /\ Later(log, i) \cap Moves = {}
           /\ status = IF /\ StatusAfter(log[i]) = "queued"
                          /\ "cancel_requested" \in Later(log, i)
                       THEN "cancelled" ELSE StatusAfter(log[i])
    BY DEF StatusTold
  <1>2. i \in DOMAIN new /\ new[i] = log[i]
    BY AppendedRow
  <1>3. Later(new, i) = Later(log, i) \cup {e.event}
    <2>1. i + 1 .. Len(new) = (i + 1 .. Len(log)) \cup {Len(log) + 1}
      BY AppendedRow
    <2>2. \A k \in i + 1 .. Len(log) : new[k] = log[k]
      BY AppendedRow
    <2> QED
      BY <2>1, <2>2, AppendedRow
  <1> HIDE DEF new, Later
  <1>4. \/ StatusAfter(log[i]) # "queued"
        \/ "cancel_requested" \in Later(new, i)
              <=> "cancel_requested" \in Later(log, i)
    BY <1>1, <1>3
  <1>5. /\ new[i].event \in Moves /\ Later(new, i) \cap Moves = {}
        /\ status = IF /\ StatusAfter(new[i]) = "queued"
                       /\ "cancel_requested" \in Later(new, i)
                    THEN "cancelled" ELSE StatusAfter(new[i])
    BY <1>1, <1>2, <1>3, <1>4
  <1> QED
    BY <1>2, <1>5 DEF StatusTold, Later, new

\* A cancellation that meets the job in the queue ends it.
LEMMA QueueLeft ==
    ASSUME NEW log \in Seq(Event), NEW e \in Event,
           StatusTold("queued", log), e.event = "cancel_requested"
    PROVE  StatusTold("cancelled", Append(log, e))
PROOF
  <1> DEFINE new == Append(log, e)
             Later(l, i) == {l[k].event : k \in i + 1 .. Len(l)}
  <1>1. PICK i \in DOMAIN log :
           /\ log[i].event \in Moves /\ Later(log, i) \cap Moves = {}
           /\ "queued" = IF /\ StatusAfter(log[i]) = "queued"
                            /\ "cancel_requested" \in Later(log, i)
                         THEN "cancelled" ELSE StatusAfter(log[i])
    BY DEF StatusTold
  <1>2. i \in DOMAIN new /\ new[i] = log[i]
    BY AppendedRow
  <1>3. Later(new, i) = Later(log, i) \cup {"cancel_requested"}
    <2>1. i + 1 .. Len(new) = (i + 1 .. Len(log)) \cup {Len(log) + 1}
      BY AppendedRow
    <2>2. \A k \in i + 1 .. Len(log) : new[k] = log[k]
      BY AppendedRow
    <2> QED
      BY <2>1, <2>2, AppendedRow
  <1> HIDE DEF new, Later
  <1>4. /\ new[i].event \in Moves /\ StatusAfter(new[i]) = "queued"
        /\ Later(new, i) \cap Moves = {} /\ "cancel_requested" \in Later(new, i)
    BY <1>1, <1>2, <1>3 DEF Moves, Ends
  <1> QED
    BY <1>2, <1>4 DEF StatusTold, Later, new

\* Attempts stay in order when claims count up and when what is said of an
\* attempt follows its claim and precedes its end.
LEMMA OrderKept ==
    ASSUME NEW log \in Seq(Event), NEW e \in Event, AttemptsInOrder(log),
           e.event = "claimed" =>
              \A t \in Tokens : Tells(log, "claimed", t) => t < e.attempt,
           e.event = "claimed" => e.attempt \in Tokens,
           \A i \in DOMAIN log :
              log[i].event = "claimed" => log[i].attempt \in Tokens,
           e.event \in Ends \cup Evidence =>
              /\ Tells(log, "claimed", e.attempt)
              /\ \A name \in Ends : ~Tells(log, name, e.attempt)
    PROVE  AttemptsInOrder(Append(log, e))
PROOF
  <1> DEFINE new == Append(log, e)
             n == Len(log)
  <1>1. /\ n \in Nat /\ DOMAIN log = 1 .. n /\ DOMAIN new = 1 .. n + 1
        /\ \A i \in 1 .. n : new[i] = log[i]
        /\ new[n + 1] = e
    BY AppendedRow
  <1> HIDE DEF new, n
  <1>2. ASSUME NEW i \in DOMAIN new, NEW k \in DOMAIN new, i < k,
               new[i].event = "claimed", new[k].event = "claimed"
        PROVE  new[i].attempt < new[k].attempt
    <2>1. i \in 1 .. n /\ new[i] = log[i]
      BY <1>1, <1>2
    <2>2. CASE k \in 1 .. n
      BY <1>1, <1>2, <2>1, <2>2 DEF AttemptsInOrder
    <2>3. CASE k = n + 1
      BY <1>1, <1>2, <2>1, <2>3 DEF Tells
    <2> QED
      BY <1>1, <2>2, <2>3
  <1>3. ASSUME NEW i \in DOMAIN new, new[i].event \in Ends \cup Evidence
        PROVE  /\ \E k \in 1 .. i - 1 : /\ new[k].event = "claimed"
                                        /\ new[k].attempt = new[i].attempt
               /\ \A k \in 1 .. i - 1 : new[k].event \in Ends =>
                     new[k].attempt # new[i].attempt
    <2>1. \A k \in 1 .. i - 1 : k \in 1 .. n /\ new[k] = log[k]
      BY <1>1
    <2>2. CASE i \in 1 .. n
      BY <1>1, <1>3, <2>1, <2>2 DEF AttemptsInOrder
    <2>3. CASE i = n + 1
      <3>1. 1 .. i - 1 = DOMAIN log
        BY <1>1, <2>3
      <3> QED
        BY <1>1, <1>3, <2>1, <2>3, <3>1 DEF Tells
    <2> QED
      BY <1>1, <2>2, <2>3
  <1> QED
    BY <1>2, <1>3 DEF AttemptsInOrder, new
-----------------------------------------------------------------------------
ClaimsAreNumbered(log) ==
    \A i \in DOMAIN log :
        log[i].event = "claimed" => log[i].attempt \in Tokens

JournalOK(job, rows, log) ==
    /\ RowsAreTold(job, rows, log)
    /\ AttemptsInOrder(log)
    /\ ClaimsAreNumbered(log)

LEMMA NumberedMore ==
    ASSUME NEW log \in Seq(Event), NEW e \in Event, ClaimsAreNumbered(log),
           e.event = "claimed" => e.attempt \in Tokens
    PROVE  ClaimsAreNumbered(Append(log, e))
PROOF BY AppendedRow DEF ClaimsAreNumbered

\* What is the same to a reader of the journal.
Alike(job, new, rows, newRows) ==
    /\ new.status = job.status /\ new.token = job.token
    /\ new.cancel_requested = job.cancel_requested
    /\ \A t \in Tokens : newRows[t].status = rows[t].status

LEMMA AlikeKeepsJournal ==
    ASSUME NEW job, NEW new, NEW rows, NEW newRows, NEW log,
           Alike(job, new, rows, newRows), JournalOK(job, rows, log)
    PROVE  JournalOK(new, newRows, log)
PROOF
  <1>1. RowsAreTold(new, newRows, log)
    BY DEF Alike, JournalOK, RowsAreTold
  <1> QED
    BY <1>1 DEF JournalOK

\* An attempt that runs was claimed, and its journal has not said otherwise.
LEMMA RunningIsOpen ==
    ASSUME NEW job, NEW rows, NEW log, JobOK(job, rows),
           JournalOK(job, rows, log), NEW t \in Tokens,
           rows[t].status = "running"
    PROVE  /\ t = job.token /\ job.status = "running"
           /\ Tells(log, "claimed", t)
           /\ \A name \in Ends : ~Tells(log, name, t)
PROOF
  <1>1. t = job.token /\ job.status = "running" /\ t <= job.token
    BY ConstantTypes DEF JobOK, RowsAgree
  <1>2. Tells(log, "claimed", t)
    BY <1>1 DEF JournalOK, RowsAreTold
  <1>3. \A name \in Ends : ~Tells(log, name, t)
    BY DEF JournalOK, RowsAreTold, Ends, Terminal
  <1> QED
    BY <1>1, <1>2, <1>3

\* The end of the running attempt, by its lease or by its worker.
Closes(job, new, rows, newRows, t, name, next) ==
    /\ rows[t].status = "running"
    /\ new.status = next /\ new.token = job.token
    /\ new.cancel_requested = job.cancel_requested
    /\ \A u \in Tokens \ {t} : newRows[u] = rows[u]
    /\ name = "lease_expired" => newRows[t].status = "expired"
    /\ name = "completed" => newRows[t].status \in Terminal

LEMMA EndIsTold ==
    ASSUME NEW job, NEW rows, NEW log \in Seq(Event), JobOK(job, rows),
           JournalOK(job, rows, log), NEW t \in Tokens, NEW new, NEW newRows,
           NEW name \in Ends, NEW next \in JobStatus,
           Closes(job, new, rows, newRows, t, name, next)
    PROVE  JournalOK(new, newRows, Append(log, Row(name, t, next)))
PROOF
  <1> DEFINE e == Row(name, t, next)
             longer == Append(log, e)
  <1>0. /\ rows[t].status = "running"
        /\ new.status = next /\ new.token = job.token
        /\ new.cancel_requested = job.cancel_requested
        /\ \A u \in Tokens \ {t} : newRows[u] = rows[u]
        /\ name = "lease_expired" => newRows[t].status = "expired"
        /\ name = "completed" => newRows[t].status \in Terminal
    BY DEF Closes
  <1>1. e \in Event /\ e.event = name /\ e.attempt = t /\ e.next = next
    <2>1. t \in 0 .. AttemptLimit /\ name \in EventNames
      BY ConstantTypes DEF Tokens, Ends, EventNames, StoreEvents
    <2> QED
      BY <2>1, JournalRowType DEF Row
  <1>2. StatusTold(new.status, longer)
    <2>1. e.event \in Moves /\ StatusAfter(e) = next
      BY <1>1 DEF Moves, Ends, StatusAfter
    <2> QED
      BY <1>0, <1>1, <2>1, MoveTold
  <1>3. new.cancel_requested
          <=> \E i \in DOMAIN longer : longer[i].event = "cancel_requested"
    <2>1. job.cancel_requested
            <=> \E i \in DOMAIN log : log[i].event = "cancel_requested"
      BY DEF JournalOK, RowsAreTold
    <2>2. e.event # "cancel_requested"
      BY <1>1 DEF Ends
    <2> QED
      BY <1>0, <1>1, <2>1, <2>2, CancellationTold
  <1>4. \A m, u : Tells(longer, m, u)
                    <=> Tells(log, m, u) \/ (name = m /\ t = u)
    BY <1>1, TellsMore
  <1> HIDE DEF longer, e
  <1>5. ASSUME NEW u \in Tokens
        PROVE  /\ u <= new.token <=> Tells(longer, "claimed", u)
               /\ newRows[u].status = "expired"
                    <=> Tells(longer, "lease_expired", u)
               /\ newRows[u].status \in Terminal
                    <=> Tells(longer, "completed", u)
    <2>1. /\ u <= job.token <=> Tells(log, "claimed", u)
          /\ rows[u].status = "expired" <=> Tells(log, "lease_expired", u)
          /\ rows[u].status \in Terminal <=> Tells(log, "completed", u)
      BY DEF JournalOK, RowsAreTold
    <2>2. CASE u # t
      BY <1>0, <1>4, <2>1, <2>2
    <2>3. CASE u = t
      BY <1>0, <1>4, <2>1, <2>3 DEF Ends, Terminal
    <2> QED
      BY <2>2, <2>3
  <1>6. AttemptsInOrder(longer) /\ ClaimsAreNumbered(longer)
    <2>1. /\ Tells(log, "claimed", t)
          /\ \A m \in Ends : ~Tells(log, m, t)
      BY <1>0, RunningIsOpen
    <2>2. e.event # "claimed"
      BY <1>1 DEF Ends
    <2>3. ClaimsAreNumbered(longer)
      BY <1>1, <2>2, NumberedMore DEF JournalOK, longer
    <2>4. AttemptsInOrder(longer)
      BY <1>1, <2>1, <2>2, OrderKept DEF JournalOK, longer, ClaimsAreNumbered
    <2> QED
      BY <2>3, <2>4
  <1>7. RowsAreTold(new, newRows, longer)
    BY <1>2, <1>3, <1>5 DEF RowsAreTold, longer
  <1> QED
    BY <1>6, <1>7 DEF JournalOK, longer, e

\* The claim of the next attempt.
Opens(job, new, rows, newRows) ==
    /\ new.status = "running" /\ new.token = job.token + 1
    /\ new.cancel_requested = job.cancel_requested
    /\ \A u \in Tokens \ {job.token + 1} : newRows[u] = rows[u]
    /\ newRows[job.token + 1].status = "running"

LEMMA ClaimIsTold ==
    ASSUME NEW job, NEW rows, NEW log \in Seq(Event), JobOK(job, rows),
           JournalOK(job, rows, log), job.token \in Nat,
           job.token + 1 \in Tokens, NEW new, NEW newRows,
           Opens(job, new, rows, newRows)
    PROVE  JournalOK(new, newRows,
                     Append(log, Row("claimed", job.token + 1, "")))
PROOF
  <1> DEFINE t == job.token + 1
             e == Row("claimed", t, "")
             longer == Append(log, e)
  <1>0. /\ new.status = "running"
        /\ new.cancel_requested = job.cancel_requested
        /\ t \in Tokens /\ new.token = t /\ newRows[t].status = "running"
        /\ \A u \in Tokens \ {t} : newRows[u] = rows[u]
    BY DEF Opens
  <1>1. e \in Event /\ e.event = "claimed" /\ e.attempt = t
    <2>1. t \in 0 .. AttemptLimit /\ "claimed" \in EventNames
      BY ConstantTypes DEF Tokens, EventNames, StoreEvents
    <2> QED
      BY <2>1, JournalRowType DEF Row
  <1>2. StatusTold(new.status, longer)
    <2>1. e.event \in Moves /\ StatusAfter(e) = "running"
      BY <1>1 DEF Moves, StatusAfter
    <2> QED
      BY <1>0, <1>1, <2>1, MoveTold
  <1>3. new.cancel_requested
          <=> \E i \in DOMAIN longer : longer[i].event = "cancel_requested"
    <2>1. job.cancel_requested
            <=> \E i \in DOMAIN log : log[i].event = "cancel_requested"
      BY DEF JournalOK, RowsAreTold
    <2> QED
      BY <1>0, <1>1, <2>1, CancellationTold
  <1>4. \A m, u : Tells(longer, m, u)
                    <=> Tells(log, m, u) \/ ("claimed" = m /\ t = u)
    <2> HIDE DEF e, t
    <2> QED
      BY <1>1, TellsMore
  <1>5. rows[t].status = "none"
    BY ConstantTypes DEF JobOK, RowsAgree, Tokens
  <1>6. \A u \in Tokens : u <= t <=> u <= job.token \/ t = u
    BY ConstantTypes DEF Tokens
  <1>7. \A u \in Tokens : Tells(log, "claimed", u) => u < t
    BY ConstantTypes DEF JournalOK, RowsAreTold
  <1> HIDE DEF longer, e, t
  <1>8. ASSUME NEW u \in Tokens
        PROVE  /\ u <= new.token <=> Tells(longer, "claimed", u)
               /\ newRows[u].status = "expired"
                    <=> Tells(longer, "lease_expired", u)
               /\ newRows[u].status \in Terminal
                    <=> Tells(longer, "completed", u)
    <2>1. /\ u <= job.token <=> Tells(log, "claimed", u)
          /\ rows[u].status = "expired" <=> Tells(log, "lease_expired", u)
          /\ rows[u].status \in Terminal <=> Tells(log, "completed", u)
      BY DEF JournalOK, RowsAreTold
    <2>2. CASE u # t
      BY <1>4, <1>6, <1>0, <2>1, <2>2
    <2>3. CASE u = t
      BY <1>4, <1>5, <1>6, <1>0, <2>1, <2>3 DEF Terminal
    <2> QED
      BY <2>2, <2>3
  <1>9. AttemptsInOrder(longer) /\ ClaimsAreNumbered(longer)
    <2>1. ClaimsAreNumbered(longer)
      BY <1>1, <1>0, NumberedMore DEF JournalOK, longer
    <2>2. e.event \notin Ends \cup Evidence
      BY <1>1, EvidenceAssumption DEF Ends, StoreEvents
    <2>3. AttemptsInOrder(longer)
      BY <1>1, <1>0, <1>7, <2>2, OrderKept
         DEF JournalOK, longer, ClaimsAreNumbered
    <2> QED
      BY <2>1, <2>3
  <1>10. RowsAreTold(new, newRows, longer)
    BY <1>2, <1>3, <1>8 DEF RowsAreTold, longer
  <1> QED
    BY <1>9, <1>10 DEF JournalOK, longer, e, t

\* A row that neither moves the job nor cancels it: a note of its worker.
LEMMA NoteIsTold ==
    ASSUME NEW job, NEW rows, NEW log \in Seq(Event), JobOK(job, rows),
           JournalOK(job, rows, log), NEW t \in Tokens, NEW name \in Evidence,
           rows[t].status = "running"
    PROVE  JournalOK(job, rows, Append(log, Row(name, t, "")))
PROOF
  <1> DEFINE e == Row(name, t, "")
             longer == Append(log, e)
  <1>1. e \in Event /\ e.event = name /\ e.attempt = t
    <2>1. t \in 0 .. AttemptLimit /\ name \in EventNames
      BY ConstantTypes DEF Tokens, EventNames, StoreEvents
    <2> QED
      BY <2>1, JournalRowType DEF Row
  <1>0. name \notin StoreEvents
    BY EvidenceAssumption
  <1>2. /\ job.status = "running" /\ Tells(log, "claimed", t)
        /\ \A m \in Ends : ~Tells(log, m, t)
    BY RunningIsOpen
  <1>3. \A m, u : Tells(longer, m, u)
                    <=> Tells(log, m, u) \/ (name = m /\ t = u)
    BY <1>1, TellsMore
  <1>4. StatusTold(job.status, longer)
    BY <1>0, <1>1, <1>2, StayTold
       DEF JournalOK, RowsAreTold, Moves, Ends, StoreEvents
  <1>5. (\E i \in DOMAIN longer : longer[i].event = "cancel_requested")
          <=> \E i \in DOMAIN log : log[i].event = "cancel_requested"
    BY <1>0, <1>1, CancellationTold DEF StoreEvents
  <1>6. ClaimsAreNumbered(longer)
    BY <1>0, <1>1, NumberedMore DEF JournalOK, StoreEvents
  <1>7. AttemptsInOrder(longer)
    BY <1>0, <1>1, <1>2, OrderKept DEF JournalOK, ClaimsAreNumbered, StoreEvents
  <1> HIDE DEF longer, e
  <1>8. RowsAreTold(job, rows, longer)
    BY <1>0, <1>3, <1>4, <1>5 DEF RowsAreTold, JournalOK, Ends, StoreEvents
  <1> QED
    BY <1>6, <1>7, <1>8 DEF JournalOK, longer, e

\* A cancellation, of a queued or of a running job.
LEMMA CancelIsTold ==
    ASSUME NEW job, NEW rows, NEW log \in Seq(Event),
           JournalOK(job, rows, log), job.status \in {"queued", "running"},
           job.token \in 0 .. AttemptLimit, NEW new,
           new.status = IF job.status = "queued" THEN "cancelled" ELSE "running",
           new.token = job.token, new.cancel_requested = TRUE
    PROVE  JournalOK(new, rows,
                     Append(log, Row("cancel_requested", job.token, "")))
PROOF
  <1> DEFINE e == Row("cancel_requested", job.token, "")
             longer == Append(log, e)
  <1>1. e \in Event /\ e.event = "cancel_requested" /\ e.attempt = job.token
    BY DEF Row, Event, EventNames, StoreEvents
  <1>2. \A m, u : m # "cancel_requested" =>
                    (Tells(longer, m, u) <=> Tells(log, m, u))
    BY <1>1, TellsMore
  <1>3. StatusTold(new.status, longer)
    <2>1. StatusTold(job.status, log) /\ e.event \notin Moves
      BY <1>1 DEF JournalOK, RowsAreTold, Moves, Ends
    <2>2. CASE job.status = "queued"
      BY <1>1, <2>1, <2>2, QueueLeft
    <2>3. CASE job.status = "running"
      BY <1>1, <2>1, <2>3, StayTold
    <2> QED
      BY <2>2, <2>3
  <1>4. \E i \in DOMAIN longer : longer[i].event = "cancel_requested"
    BY <1>1, CancellationTold
  <1>5. ClaimsAreNumbered(longer)
    BY <1>1, NumberedMore DEF JournalOK
  <1>6. AttemptsInOrder(longer)
    BY <1>1, OrderKept, EvidenceAssumption
       DEF JournalOK, ClaimsAreNumbered, Ends, StoreEvents
  <1> HIDE DEF longer, e
  <1>7. RowsAreTold(new, rows, longer)
    BY <1>2, <1>3, <1>4 DEF RowsAreTold, JournalOK
  <1> QED
    BY <1>5, <1>6, <1>7 DEF JournalOK, longer, e

\* The insert of a job.
LEMMA SubmissionIsTold ==
    ASSUME NEW job, NEW rows, NEW log \in Seq(Event),
           JournalOK(job, rows, log), job.token = 0, ~job.cancel_requested,
           NEW new, new.status = "queued", new.token = 0,
           new.cancel_requested = FALSE
    PROVE  JournalOK(new, rows, Append(log, Row("submitted", 0, "")))
PROOF
  <1> DEFINE e == Row("submitted", 0, "")
             longer == Append(log, e)
  <1>1. e \in Event /\ e.event = "submitted" /\ e.attempt = 0
    <2>1. 0 \in 0 .. AttemptLimit /\ "submitted" \in EventNames
      BY ConstantTypes DEF EventNames, StoreEvents
    <2> QED
      BY <2>1, JournalRowType DEF Row
  <1>2. StatusTold(new.status, longer)
    <2>1. e.event \in Moves /\ StatusAfter(e) = "queued"
      BY <1>1 DEF Moves, StatusAfter
    <2> QED
      BY <1>1, <2>1, MoveTold
  <1>3. (\E i \in DOMAIN longer : longer[i].event = "cancel_requested")
          <=> \E i \in DOMAIN log : log[i].event = "cancel_requested"
    BY <1>1, CancellationTold
  <1>4. \A m, u : m # "submitted" => (Tells(longer, m, u) <=> Tells(log, m, u))
    BY <1>1, TellsMore
  <1>5. ClaimsAreNumbered(longer)
    BY <1>1, NumberedMore DEF JournalOK
  <1>6. AttemptsInOrder(longer)
    BY <1>1, OrderKept, EvidenceAssumption
       DEF JournalOK, ClaimsAreNumbered, Ends, StoreEvents
  <1> HIDE DEF longer, e
  <1>7. RowsAreTold(new, rows, longer)
    BY <1>2, <1>3, <1>4 DEF RowsAreTold, JournalOK
  <1> QED
    BY <1>5, <1>6, <1>7 DEF JournalOK, longer, e
-----------------------------------------------------------------------------
(* Every operation of the store tells what it does.                        *)
JournalsOK == \A j \in Jobs : JournalOK(jobs[j], attempts[j], events[j])
JInv == IInv /\ JournalsOK

LEMMA JournalTypes ==
    ASSUME JInv, NEW j \in Jobs
    PROVE  /\ jobs \in [Jobs -> Job] /\ jobs[j] \in Job
           /\ attempts \in [Jobs -> [Tokens -> AttemptRow]]
           /\ attempts[j] \in [Tokens -> AttemptRow]
           /\ events \in [Jobs -> Seq(Event)] /\ events[j] \in Seq(Event)
           /\ JobOK(jobs[j], attempts[j])
           /\ JournalOK(jobs[j], attempts[j], events[j])
           /\ jobs[j].token \in 0 .. AttemptLimit
PROOF BY DEF JInv, JournalsOK, IInv, TypeOK, Job

LEMMA EmptyJournal ==
    ASSUME NEW job, NEW rows, job.status = "absent", job.token = 0,
           ~job.cancel_requested,
           \A t \in Tokens : rows[t].status = "none"
    PROVE  JournalOK(job, rows, <<>>)
PROOF
  <1>1. DOMAIN <<>> = {}
    OBVIOUS
  <1>2. \A t \in Tokens : ~(t <= job.token)
    BY DEF Tokens
  <1>3. RowsAreTold(job, rows, <<>>)
    BY <1>1, <1>2 DEF RowsAreTold, StatusTold, Tells, Terminal
  <1> QED
    BY <1>1, <1>3 DEF JournalOK, AttemptsInOrder, ClaimsAreNumbered

LEMMA ExpireIsTold ==
    ASSUME JInv, NEW j \in Jobs
    PROVE  JournalOK([jobs[j] EXCEPT !.status = ExpiredStatus(j)],
                     ExpiredRows(j), ExpiredEvents(j))
PROOF
  <1> DEFINE new == [jobs[j] EXCEPT !.status = ExpiredStatus(j)]
  <1>1. /\ new.status = ExpiredStatus(j) /\ new.token = jobs[j].token
        /\ new.cancel_requested = jobs[j].cancel_requested
    BY JournalTypes DEF Job
  <1> HIDE DEF new
  <1>2. CASE Lapsed(j)
    <2> DEFINE t == jobs[j].token
    <2>1. /\ t \in Tokens /\ attempts[j][t].status = "running"
          /\ AfterLapse(j) \in JobStatus /\ ExpiredStatus(j) = AfterLapse(j)
      BY <1>2, LapseIsOfRunning
         DEF JInv, Lapsed, ExpiredStatus, JobStatus, Terminal
    <2>2. /\ ExpiredRows(j)[t].status = "expired"
          /\ \A u \in Tokens \ {t} : ExpiredRows(j)[u] = attempts[j][u]
      BY <1>2, <2>1, JournalTypes DEF ExpiredRows
    <2>3. ExpiredEvents(j)
            = Append(events[j], Row("lease_expired", t, AfterLapse(j)))
      BY <1>2 DEF ExpiredEvents
    <2> HIDE DEF t
    <2>4. /\ "lease_expired" \in Ends
          /\ Closes(jobs[j], new, attempts[j], ExpiredRows(j), t,
                    "lease_expired", AfterLapse(j))
      BY <1>1, <2>1, <2>2 DEF Ends, t, Closes
    <2>5. JournalOK(new, ExpiredRows(j),
                    Append(events[j], Row("lease_expired", t, AfterLapse(j))))
      BY <2>1, <2>4, JournalTypes, EndIsTold
    <2> QED
      BY <2>3, <2>5 DEF new
  <1>3. CASE ~Lapsed(j)
    <2>1. /\ ExpiredRows(j) = attempts[j] /\ ExpiredEvents(j) = events[j]
          /\ ExpiredStatus(j) = jobs[j].status
      BY <1>3 DEF ExpiredRows, ExpiredEvents, ExpiredStatus
    <2>2. Alike(jobs[j], new, attempts[j], ExpiredRows(j))
      BY <1>1, <2>1 DEF Alike
    <2> QED
      BY <2>1, <2>2, JournalTypes, AlikeKeepsJournal DEF new
  <1> QED
    BY <1>2, <1>3

LEMMA SubmitTells ==
    ASSUME JInv, NEW j \in Jobs, NEW r \in Requests, Submit(j, r)
    PROVE  JournalsOK'
PROOF
  <1>1. PICK c : jobs' = [jobs EXCEPT ![j] = NewJob(r, c)]
    BY DEF Submit
  <1>2. jobs[j].token = 0 /\ ~jobs[j].cancel_requested
    <2>1. jobs[j].status = "absent"
      BY DEF Submit, Exists
    <2> QED
      BY <2>1, JournalTypes DEF JobOK, WithinRequest
  <1>3. /\ jobs'[j].status = "queued" /\ jobs'[j].token = 0
        /\ jobs'[j].cancel_requested = FALSE
    BY <1>1, JournalTypes DEF NewJob
  <1>4. /\ events'[j] = Append(events[j], Row("submitted", 0, ""))
        /\ attempts' = attempts
        /\ \A k \in Jobs \ {j} : jobs'[k] = jobs[k] /\ events'[k] = events[k]
    BY <1>1, JournalTypes DEF Submit
  <1>5. JournalOK(jobs'[j], attempts'[j], events'[j])
    BY <1>2, <1>3, <1>4, JournalTypes, SubmissionIsTold
  <1> QED
    BY <1>4, <1>5, JournalTypes DEF JournalsOK

LEMMA ClaimTells ==
    ASSUME JInv, NEW w \in Workers, NEW j \in Jobs, Claim(w, j)
    PROVE  JournalsOK'
PROOF
  <1> DEFINE old == [jobs[j] EXCEPT !.status = ExpiredStatus(j)]
             t == jobs[j].token + 1
  <1>1. t \in Tokens
    BY DEF Claim
  <1>2. /\ old \in Job /\ ExpiredRows(j) \in [Tokens -> AttemptRow]
        /\ ExpiredEvents(j) \in Seq(Event)
        /\ JobOK(old, ExpiredRows(j))
        /\ JournalOK(old, ExpiredRows(j), ExpiredEvents(j))
    BY ExpireType, ExpireKeepsJobOK, ExpireIsTold DEF JInv
  <1>3. /\ old.token = jobs[j].token /\ old.token \in Nat
        /\ old.cancel_requested = jobs[j].cancel_requested
    BY JournalTypes, ConstantTypes DEF Job
  <1>4. /\ jobs'[j].status = "running" /\ jobs'[j].token = t
        /\ jobs'[j].cancel_requested = jobs[j].cancel_requested
    BY JournalTypes DEF Claim, Job
  <1>5. /\ attempts'[j][t].status = "running"
        /\ \A u \in Tokens \ {t} : attempts'[j][u] = ExpiredRows(j)[u]
        /\ events'[j] = Append(ExpiredEvents(j), Row("claimed", t, ""))
    BY <1>1, <1>2 DEF Claim
  <1>6. \A k \in Jobs \ {j} :
           /\ jobs'[k] = [jobs[k] EXCEPT !.status = ExpiredStatus(k)]
           /\ attempts'[k] = ExpiredRows(k) /\ events'[k] = ExpiredEvents(k)
    BY DEF Claim
  <1> HIDE DEF old
  <1>7. Opens(old, jobs'[j], ExpiredRows(j), attempts'[j])
    BY <1>3, <1>4, <1>5 DEF Opens
  <1>8. JournalOK(jobs'[j], attempts'[j], events'[j])
    BY <1>1, <1>2, <1>3, <1>5, <1>7, ClaimIsTold
  <1> QED
    BY <1>6, <1>8, ExpireIsTold DEF JournalsOK

LEMMA ClaimNoneTells ==
    ASSUME JInv, NEW w \in Workers, ClaimNone(w)
    PROVE  JournalsOK'
PROOF
  <1>1. \A k \in Jobs :
           /\ jobs'[k] = [jobs[k] EXCEPT !.status = ExpiredStatus(k)]
           /\ attempts'[k] = ExpiredRows(k) /\ events'[k] = ExpiredEvents(k)
    BY DEF ClaimNone
  <1> QED
    BY <1>1, ExpireIsTold DEF JournalsOK

\* A heartbeat or the clock moves leases only, and no journal.
LEMMA LeasesTellNothing ==
    ASSUME JInv, UNCHANGED <<jobs, events>>,
           \A j \in Jobs, t \in Tokens :
              attempts'[j][t].status = attempts[j][t].status
    PROVE  JournalsOK'
PROOF
  <1>1. \A j \in Jobs : Alike(jobs[j], jobs'[j], attempts[j], attempts'[j])
    BY DEF Alike
  <1> QED
    BY <1>1, AlikeKeepsJournal, JournalTypes DEF JournalsOK

LEMMA RecordEventTells ==
    ASSUME JInv, NEW j \in Jobs, NEW t \in Tokens, NEW name \in Evidence,
           RecordEvent(j, t, name)
    PROVE  JournalsOK'
PROOF
  <1>1. /\ attempts[j][t].status = "running"
        /\ jobs' = jobs /\ attempts' = attempts
        /\ events'[j] = Append(events[j], Row(name, t, ""))
        /\ \A k \in Jobs \ {j} : events'[k] = events[k]
    BY JournalTypes DEF RecordEvent, Owned
  <1>2. /\ events[j] \in Seq(Event) /\ JobOK(jobs[j], attempts[j])
        /\ JournalOK(jobs[j], attempts[j], events[j])
        /\ jobs[j].token \in 0 .. AttemptLimit
    BY JournalTypes
  <1>3. JournalOK(jobs'[j], attempts'[j], events'[j])
    BY <1>1, <1>2, NoteIsTold
  <1> QED
    BY <1>1, <1>3, JournalTypes DEF JournalsOK

LEMMA CancelTells ==
    ASSUME JInv, NEW j \in Jobs, Cancel(j)
    PROVE  JournalsOK'
PROOF
  <1>1. /\ jobs[j].status \in {"queued", "running"}
        /\ jobs'[j].status = IF jobs[j].status = "queued" THEN "cancelled"
                             ELSE "running"
        /\ jobs'[j].token = jobs[j].token
        /\ jobs'[j].cancel_requested = TRUE
    BY JournalTypes DEF Cancel, Job
  <1>2. /\ attempts' = attempts
        /\ events'[j] = Append(events[j],
                               Row("cancel_requested", jobs[j].token, ""))
        /\ \A k \in Jobs \ {j} : jobs'[k] = jobs[k] /\ events'[k] = events[k]
    BY JournalTypes DEF Cancel
  <1>3. /\ events[j] \in Seq(Event) /\ JobOK(jobs[j], attempts[j])
        /\ JournalOK(jobs[j], attempts[j], events[j])
        /\ jobs[j].token \in 0 .. AttemptLimit
    BY JournalTypes
  <1>4. JournalOK(jobs'[j], attempts'[j], events'[j])
    BY <1>1, <1>2, <1>3, CancelIsTold
  <1> QED
    BY <1>2, <1>4, JournalTypes DEF JournalsOK

LEMMA FinishTells ==
    ASSUME JInv, NEW j \in Jobs, NEW t \in Tokens, NEW status \in Terminal,
           NEW retryable \in BOOLEAN, NEW published \in BOOLEAN,
           Finish(j, t, status, retryable, published)
    PROVE  JournalsOK'
PROOF
  <1> DEFINE target == CompletionTarget(j, t, status, retryable)
  <1>1. target \in JobStatus /\ attempts[j][t].status = "running"
    BY DEF CompletionTarget, JobStatus, Finish, Owned
  <1> HIDE DEF target
  <1>2. /\ jobs'[j].status = target /\ jobs'[j].token = jobs[j].token
        /\ jobs'[j].cancel_requested = jobs[j].cancel_requested
    BY JournalTypes DEF Finish, target, Job
  <1>3. /\ attempts'[j][t].status = status
        /\ \A u \in Tokens \ {t} : attempts'[j][u] = attempts[j][u]
        /\ events'[j] = Append(events[j], Row("completed", t, target))
    BY JournalTypes DEF Finish, target
  <1>4. \A k \in Jobs \ {j} : /\ jobs'[k] = jobs[k] /\ events'[k] = events[k]
                              /\ attempts'[k] = attempts[k]
    BY JournalTypes DEF Finish
  <1>5. /\ "completed" \in Ends
        /\ Closes(jobs[j], jobs'[j], attempts[j], attempts'[j], t,
                  "completed", target)
    BY <1>1, <1>2, <1>3 DEF Ends, Closes
  <1>6. /\ events[j] \in Seq(Event) /\ JobOK(jobs[j], attempts[j])
        /\ JournalOK(jobs[j], attempts[j], events[j])
        /\ jobs[j].token \in 0 .. AttemptLimit
    BY JournalTypes
  <1>7. JournalOK(jobs'[j], attempts'[j], events'[j])
    BY <1>1, <1>3, <1>5, <1>6, EndIsTold
  <1> QED
    BY <1>4, <1>7, JournalTypes DEF JournalsOK

LEMMA JournalInit == Init => JournalsOK
PROOF
  BY EmptyJournal DEF Init, NoJob, NoRow, JournalsOK

LEMMA JournalNext == JInv /\ [Next]_vars => JInv'
PROOF
  <1> SUFFICES ASSUME JInv, [Next]_vars PROVE JournalsOK'
    BY NextIInv DEF JInv
  <1>1. CASE \E j \in Jobs, r \in Requests : Submit(j, r)
    BY <1>1, SubmitTells
  <1>2. CASE \E w \in Workers, j \in Jobs : Claim(w, j)
    BY <1>2, ClaimTells
  <1>3. CASE \E w \in Workers : ClaimNone(w)
    BY <1>3, ClaimNoneTells
  <1>4. CASE \E j \in Jobs, t \in Tokens : Heartbeat(j, t)
    <2>1. PICK j \in Jobs, t \in Tokens : Heartbeat(j, t)
      BY <1>4
    <2>2. \A k \in Jobs, u \in Tokens :
             attempts'[k][u].status = attempts[k][u].status
      BY <2>1, JournalTypes DEF Heartbeat, AttemptRow
    <2> QED
      BY <2>1, <2>2, LeasesTellNothing DEF Heartbeat
  <1>5. CASE \E j \in Jobs, t \in Tokens, name \in Evidence : RecordEvent(j, t, name)
    BY <1>5, RecordEventTells
  <1>6. CASE \E j \in Jobs : Cancel(j)
    BY <1>6, CancelTells
  <1>7. CASE \E j \in Jobs, t \in Tokens, status \in Terminal,
               retryable \in BOOLEAN, published \in BOOLEAN :
                  Finish(j, t, status, retryable, published)
    BY <1>7, FinishTells
  <1>8. CASE Tick \/ SetClockBack
    <2>1. PICK d \in {-1, 1} : MoveClock(d) /\ UNCHANGED <<jobs, events>>
      BY <1>8 DEF Tick, SetClockBack
    <2>2. \A k \in Jobs, u \in Tokens :
             attempts'[k][u].status = attempts[k][u].status
      BY <2>1, JournalTypes DEF MoveClock, AttemptRow
    <2> QED
      BY <2>1, <2>2, LeasesTellNothing
  <1>9. CASE UNCHANGED vars
    BY <1>9 DEF vars, JInv, JournalsOK
  <1> QED
    BY <1>1, <1>2, <1>3, <1>4, <1>5, <1>6, <1>7, <1>8, <1>9 DEF Next

(* The journal tells the whole story of every job: whatever lapsed, was    *)
(* requeued, cancelled or completed late, the job's row and the end of     *)
(* each attempt can be read off it, and nothing is told of an attempt      *)
(* before its claim or after its end.                                      *)
THEOREM JournalStaysTrue == Spec => []JournalTellsAll
PROOF
  <1>1. Init => JInv
    BY InitIInv, JournalInit DEF JInv
  <1>2. JInv => JournalTellsAll
    BY DEF JInv, JournalsOK, JournalOK, JournalTellsAll
  <1> QED
    BY <1>1, <1>2, JournalNext, PTL DEF Spec
-----------------------------------------------------------------------------
(* History is only ever added to.                                          *)

Longer(log, new) == \A i \in DOMAIN log : i \in DOMAIN new /\ new[i] = log[i]
ClosedStay(rows, new) ==
    \A t \in Tokens :
        rows[t].status \notin {"none", "running"} => new[t] = rows[t]

LEMMA AppendIsLonger ==
    ASSUME NEW log \in Seq(Event), NEW more \in Seq(Event), Longer(log, more),
           NEW e
    PROVE  Longer(log, Append(more, e))
PROOF BY DEF Longer

LEMMA JournalIsLonger ==
    ASSUME IInv, NEW j \in Jobs, NEW k \in Jobs, NEW e,
           events' = [events EXCEPT ![k] = Append(@, e)]
    PROVE  Longer(events[j], events'[j])
PROOF
  <1>1. events \in [Jobs -> Seq(Event)] /\ events[j] \in Seq(Event)
    BY DEF IInv, TypeOK
  <1>2. Longer(events[j], events[j])
    BY DEF Longer
  <1>3. CASE j = k
    <2>1. events'[j] = Append(events[j], e)
      BY <1>1, <1>3
    <2> QED
      BY <1>1, <1>2, <2>1, AppendIsLonger
  <1>4. CASE j # k
    BY <1>1, <1>2, <1>4
  <1> QED
    BY <1>3, <1>4

LEMMA ExpireKeepsHistory ==
    ASSUME IInv, NEW j \in Jobs
    PROVE  /\ ExpiredEvents(j) \in Seq(Event)
           /\ Longer(events[j], ExpiredEvents(j))
           /\ ClosedStay(attempts[j], ExpiredRows(j))
PROOF
  <1>1. events[j] \in Seq(Event) /\ attempts[j] \in [Tokens -> AttemptRow]
    BY DEF IInv, TypeOK
  <1>2. Longer(events[j], events[j])
    BY DEF Longer
  <1>3. Longer(events[j], ExpiredEvents(j))
    BY <1>1, <1>2, AppendIsLonger DEF ExpiredEvents
  <1>4. ClosedStay(attempts[j], ExpiredRows(j))
    BY <1>1 DEF ClosedStay, ExpiredRows, Lapsed
  <1> QED
    BY <1>3, <1>4, ExpireType

LEMMA StepKeepsHistory ==
    ASSUME IInv, Next, NEW j \in Jobs
    PROVE  /\ ClosedStay(attempts[j], attempts'[j])
           /\ Longer(events[j], events'[j])
PROOF
  <1>1. /\ events \in [Jobs -> Seq(Event)] /\ events[j] \in Seq(Event)
        /\ attempts \in [Jobs -> [Tokens -> AttemptRow]]
        /\ attempts[j] \in [Tokens -> AttemptRow]
        /\ JobOK(jobs[j], attempts[j])
    BY DEF IInv, TypeOK
  <1>2. Longer(events[j], events[j]) /\ ClosedStay(attempts[j], attempts[j])
    BY DEF Longer, ClosedStay
  <1>3. \A e : \A k \in Jobs :
           events' = [events EXCEPT ![k] = Append(@, e)] =>
               Longer(events[j], events'[j])
    BY JournalIsLonger
  <1>4. CASE \E k \in Jobs, r \in Requests : Submit(k, r)
    BY <1>2, <1>3, <1>4 DEF Submit
  <1>5. CASE \E w \in Workers, k \in Jobs : Claim(w, k)
    <2>1. PICK w \in Workers, k \in Jobs : Claim(w, k)
      BY <1>5
    <2>2. CASE j # k
      BY <2>1, <2>2, ExpireKeepsHistory DEF Claim
    <2>3. CASE j = k
      <3> DEFINE t == jobs[j].token + 1
      <3>1. /\ t \in Tokens
            /\ events'[j] = Append(ExpiredEvents(j), Row("claimed", t, ""))
            /\ attempts'[j] = [ExpiredRows(j) EXCEPT ![t] =
                                  [status |-> "running", lease |-> Lease]]
        BY <2>1, <2>3 DEF Claim
      <3>2. attempts[j][t].status = "none"
        <4>1. jobs[j].token \in Nat
          BY ConstantTypes DEF IInv, TypeOK, Job
        <4>2. t > jobs[j].token
          BY <4>1
        <4> QED
          BY <1>1, <3>1, <4>2 DEF JobOK, RowsAgree
      <3>3. ExpiredRows(j) \in [Tokens -> AttemptRow]
        BY ExpireType
      <3> HIDE DEF t
      <3>4. ClosedStay(attempts[j], attempts'[j])
        BY <3>1, <3>2, <3>3, ExpireKeepsHistory DEF ClosedStay
      <3>5. Longer(events[j], events'[j])
        <4>1. /\ ExpiredEvents(j) \in Seq(Event)
              /\ Longer(events[j], ExpiredEvents(j))
          BY ExpireKeepsHistory
        <4>2. PICK e : events'[j] = Append(ExpiredEvents(j), e)
          BY <3>1
        <4>3. Longer(events[j], Append(ExpiredEvents(j), e))
          BY <1>1, <4>1, AppendIsLonger
        <4> QED
          BY <4>2, <4>3
      <3> QED
        BY <3>4, <3>5
    <2> QED
      BY <2>2, <2>3
  <1>6. CASE \E w \in Workers : ClaimNone(w)
    BY <1>6, ExpireKeepsHistory DEF ClaimNone
  <1>7. CASE \E k \in Jobs, t \in Tokens : Heartbeat(k, t)
    <2>1. PICK k \in Jobs, t \in Tokens : Heartbeat(k, t)
      BY <1>7
    <2>2. \A u \in Tokens : attempts[j][u].status # "running" =>
                               attempts'[j][u] = attempts[j][u]
      BY <1>1, <2>1 DEF Heartbeat, Owned
    <2> QED
      BY <1>2, <2>1, <2>2 DEF ClosedStay, Heartbeat
  <1>8. CASE \E k \in Jobs, t \in Tokens, name \in Evidence : RecordEvent(k, t, name)
    BY <1>2, <1>3, <1>8 DEF RecordEvent
  <1>9. CASE \E k \in Jobs : Cancel(k)
    BY <1>2, <1>3, <1>9 DEF Cancel
  <1>10. CASE \E k \in Jobs, t \in Tokens, status \in Terminal,
                retryable \in BOOLEAN, published \in BOOLEAN :
                   Finish(k, t, status, retryable, published)
    <2>1. PICK k \in Jobs, t \in Tokens, status \in Terminal,
               retryable \in BOOLEAN, published \in BOOLEAN :
                  Finish(k, t, status, retryable, published)
      BY <1>10
    <2>2. \A u \in Tokens : attempts[j][u].status # "running" =>
                               attempts'[j][u] = attempts[j][u]
      BY <1>1, <2>1 DEF Finish, Owned
    <2>3. Longer(events[j], events'[j])
      BY <1>3, <2>1 DEF Finish
    <2> QED
      BY <2>2, <2>3 DEF ClosedStay
  <1>11. CASE Tick \/ SetClockBack
    <2>1. PICK d : MoveClock(d) /\ UNCHANGED events
      BY <1>11 DEF Tick, SetClockBack
    <2>2. \A u \in Tokens : attempts[j][u].status # "running" =>
                               attempts'[j][u] = attempts[j][u]
      BY <2>1 DEF MoveClock
    <2> QED
      BY <1>2, <2>1, <2>2 DEF ClosedStay
  <1> QED
    BY <1>4, <1>5, <1>6, <1>7, <1>8, <1>9, <1>10, <1>11 DEF Next

(* The history of a job is append-only: an attempt that has ended keeps    *)
(* its outcome and no journal row is changed or removed.                   *)
THEOREM HistoryStands == Spec => HistoryIsAppendOnly
PROOF
  <1>1. IInv /\ [Next]_vars =>
          [\A j \in Jobs :
              /\ \A t \in Tokens :
                    attempts[j][t].status \notin {"none", "running"} =>
                        attempts'[j][t] = attempts[j][t]
              /\ \A i \in DOMAIN events[j] :
                    i \in DOMAIN events'[j] /\ events'[j][i] = events[j][i]]_vars
    BY StepKeepsHistory DEF ClosedStay, Longer
  <1> QED
    BY <1>1, Inductive, PTL DEF Spec, HistoryIsAppendOnly
=============================================================================
