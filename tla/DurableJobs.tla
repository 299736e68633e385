---------------------------- MODULE DurableJobs ----------------------------
(***************************************************************************)
(* The durable job store, src/quant_pipeline/durable_jobs.py: one SQLite   *)
(* file in which every operation is one BEGIN IMMEDIATE transaction, so    *)
(* every operation is one action here.  Callers are not constrained: a     *)
(* heartbeat, an event or a completion may name any attempt ever issued,   *)
(* which covers stale, duplicated and delayed calls.  A call the code      *)
(* refuses (LeaseLost, CancellationRequested, a conflicting key) rolls     *)
(* back and is a stuttering step.                                          *)
(***************************************************************************)
EXTENDS Integers, Sequences, FiniteSets

CONSTANTS
    Jobs,           \* the idempotency keys; a key names at most one job row
    Requests,       \* request documents that differ
    NoRequest,      \* the request of a row not inserted yet
    Kinds,          \* workload kinds
    Workers,        \* worker ids
    KindOf,         \* [Requests -> Kinds]
    MaxAttempts,    \* [Requests -> 1 .. AttemptLimit]
    Serves,         \* [Workers -> SUBSET Kinds], the kinds= of claim()
    AttemptLimit,   \* validate_request accepts max_attempts in 1 .. 100
    Lease,          \* lease_seconds, in clock ticks
    MaxSkew,        \* how far in all the wall clock may be set back
    Evidence,       \* the event names that callers of record_event use
    MaxNotes        \* bound: record_event rows per attempt

ASSUME RequestAssumption ==
    /\ NoRequest \notin Requests
    /\ AttemptLimit \in Nat \ {0}
    /\ KindOf \in [Requests -> Kinds]
    /\ MaxAttempts \in [Requests -> 1 .. AttemptLimit]
ASSUME WorkerAssumption == Serves \in [Workers -> SUBSET Kinds]
ASSUME ClockAssumption == Lease \in Nat \ {0} /\ MaxSkew \in Nat
ASSUME BoundAssumption == IsFiniteSet(Jobs) /\ MaxNotes \in Nat

VARIABLES
    jobs,           \* the jobs table, one row per key
    attempts,       \* the attempts table: attempts[j][token]
    events,         \* the events table, split by job
    skew            \* how far the wall clock has been set back so far

vars == <<jobs, attempts, events, skew>>
-----------------------------------------------------------------------------
(* Rows.  attempt_id and token of a job are written by the same statement  *)
(* and (job_id, token) is UNIQUE among attempts, so attempt_id is modelled *)
(* as the pair (job, token), NULL as token 0.  Only the difference between *)
(* lease_expires_at and the clock is ever tested: lease holds it, and it   *)
(* is kept only while the row runs.                                        *)

Tokens == 1 .. AttemptLimit
Terminal == {"succeeded", "failed", "cancelled"}
JobStatus == {"absent", "queued", "running"} \cup Terminal
RowStatus == {"none", "running", "expired"} \cup Terminal
StoreEvents == {"submitted", "batch_member", "claimed",
                "cancel_requested", "lease_expired", "completed"}
EventNames == StoreEvents \cup Evidence

\* record_event takes any name and does not keep its callers off the store's
\* own; the worker, its only caller under src/, records "process_started".
ASSUME EvidenceAssumption == Evidence \cap StoreEvents = {}

Job == [status : JobStatus,
        request : Requests \cup {NoRequest},
        token : 0 .. AttemptLimit,
        cancel_requested : BOOLEAN,
        result : 0 .. AttemptLimit,     \* the attempt that wrote it, 0 NULL
        outputs : BOOLEAN,              \* a nonempty list is published
        created_at : Nat]

AttemptRow == [status : RowStatus, lease : -MaxSkew .. Lease + MaxSkew]

\* next is the next_status detail, "" for the events that carry none.
Event == [event : EventNames, attempt : 0 .. AttemptLimit,
          next : JobStatus \cup {""}]

NoJob == [status |-> "absent", request |-> NoRequest, token |-> 0,
          cancel_requested |-> FALSE, result |-> 0, outputs |-> FALSE,
          created_at |-> 0]
NewJob(r, created) ==
    [status |-> "queued", request |-> r, token |-> 0,
     cancel_requested |-> FALSE, result |-> 0, outputs |-> FALSE,
     created_at |-> created]
NoRow == [status |-> "none", lease |-> 0]

Row(name, t, next) == [event |-> name, attempt |-> t, next |-> next]
Exists(j) == jobs[j].status # "absent"
Budget(j) == MaxAttempts[jobs[j].request]
Notes(j, t) ==
    Cardinality({i \in DOMAIN events[j] : /\ events[j][i].event \in Evidence
                                          /\ events[j][i].attempt = t})

\* The condition _owned tests: the attempt is the job's current one, both
\* rows run, and the lease has not run out.
Owned(j, t) ==
    /\ t = jobs[j].token /\ t \in Tokens
    /\ jobs[j].status = "running"
    /\ attempts[j][t].status = "running"
    /\ attempts[j][t].lease > 0
-----------------------------------------------------------------------------
Init ==
    /\ jobs = [j \in Jobs |-> NoJob]
    /\ attempts = [j \in Jobs |-> [t \in Tokens |-> NoRow]]
    /\ events = [j \in Jobs |-> <<>>]
    /\ skew = 0

\* created_at is kept as a rank without gaps.  A later submission reads a later
\* or an equal clock, or an earlier one once the clock has been set back.
SubmissionRank(n) ==
    /\ n > 1 => \E k \in Jobs : jobs[k].created_at >= n - 1
    /\ skew = 0 => \A k \in Jobs : jobs[k].created_at <= n

\* A key already present returns the stored job, or is refused when the
\* request differs; either way nothing changes, so only the insert is a step.
Submit(j, r) ==
    /\ ~Exists(j)
    /\ \E created \in 1 .. Cardinality(Jobs) :
          /\ SubmissionRank(created)
          /\ jobs' = [jobs EXCEPT ![j] = NewJob(r, created)]
    /\ events' = [events EXCEPT ![j] = Append(@, Row("submitted", 0, ""))]
    /\ UNCHANGED <<attempts, skew>>

\* _expire: the jobs whose current attempt runs on a lease that has run out.
Lapsed(j) ==
    /\ jobs[j].token # 0
    /\ attempts[j][jobs[j].token].status = "running"
    /\ attempts[j][jobs[j].token].lease <= 0

\* Mutant of AfterLapse: the cancellation is not looked at.
AfterLapseForgetsCancel(j) ==
    IF jobs[j].token < Budget(j) THEN "queued" ELSE "failed"
AfterLapse(j) ==
    IF jobs[j].cancel_requested THEN "cancelled"
    ELSE IF jobs[j].token < Budget(j) THEN "queued"
    ELSE "failed"

\* The tables as _expire leaves them, before the claim picks a job.
ExpiredStatus(j) == IF Lapsed(j) THEN AfterLapse(j) ELSE jobs[j].status
ExpiredRows(j) ==
    IF Lapsed(j)
    THEN [attempts[j] EXCEPT ![jobs[j].token] =
                                 [status |-> "expired", lease |-> 0]]
    ELSE attempts[j]
\* Mutant of ExpiredEvents: the lapse is not journalled.
EventsForgotten(j) == events[j]
ExpiredEvents(j) ==
    IF Lapsed(j)
    THEN Append(events[j], Row("lease_expired", jobs[j].token, AfterLapse(j)))
    ELSE events[j]

Eligible(w) ==
    {j \in Jobs : ExpiredStatus(j) = "queued"
                  /\ KindOf[jobs[j].request] \in Serves[w]}

\* ORDER BY created_at, job_id: job_id is random, so a tie is any order.
Oldest(S) == {j \in S : \A k \in S : jobs[j].created_at <= jobs[k].created_at}

\* claim() that finds work: expire, then open the next attempt of one job.
Claim(w, j) ==
    LET t == jobs[j].token + 1 IN
    /\ j \in Oldest(Eligible(w))
    /\ t \in Tokens
    /\ jobs' = [k \in Jobs |->
                  IF k = j THEN [jobs[k] EXCEPT !.status = "running", !.token = t]
                  ELSE [jobs[k] EXCEPT !.status = ExpiredStatus(k)]]
    /\ attempts' = [k \in Jobs |->
                      IF k = j
                      THEN [ExpiredRows(k) EXCEPT ![t] =
                               [status |-> "running", lease |-> Lease]]
                      ELSE ExpiredRows(k)]
    /\ events' = [k \in Jobs |->
                    IF k = j
                    THEN Append(ExpiredEvents(k), Row("claimed", t, ""))
                    ELSE ExpiredEvents(k)]
    /\ UNCHANGED skew

\* Mutant of ClaimNone: the expiries are rolled back when no job is found.
ClaimNoneRollsBack(w) == Eligible(w) = {} /\ UNCHANGED vars
\* claim() that returns None still commits the expiries.
ClaimNone(w) ==
    /\ Eligible(w) = {}
    /\ \E j \in Jobs : Lapsed(j)
    /\ jobs' = [k \in Jobs |-> [jobs[k] EXCEPT !.status = ExpiredStatus(k)]]
    /\ attempts' = [k \in Jobs |-> ExpiredRows(k)]
    /\ events' = [k \in Jobs |-> ExpiredEvents(k)]
    /\ UNCHANGED skew

Heartbeat(j, t) ==
    /\ Owned(j, t)
    /\ attempts' = [attempts EXCEPT ![j][t].lease = Lease]
    /\ UNCHANGED <<jobs, events, skew>>

RecordEvent(j, t, name) ==
    /\ Owned(j, t)
    /\ Notes(j, t) < MaxNotes
    /\ events' = [events EXCEPT ![j] = Append(@, Row(name, t, ""))]
    /\ UNCHANGED <<jobs, attempts, skew>>

\* A queued job is cancelled at once; a running one keeps running until its
\* worker acknowledges or its lease lapses.
Cancel(j) ==
    /\ jobs[j].status \in {"queued", "running"}
    /\ ~jobs[j].cancel_requested
    /\ jobs' = [jobs EXCEPT ![j].cancel_requested = TRUE,
                            ![j].status = IF @ = "queued" THEN "cancelled"
                                          ELSE "running"]
    /\ events' = [events EXCEPT ![j] =
                    Append(@, Row("cancel_requested", jobs[j].token, ""))]
    /\ UNCHANGED <<attempts, skew>>

CompletionTarget(j, t, status, retryable) ==
    IF retryable /\ t < Budget(j) THEN "queued" ELSE status

Finish(j, t, status, retryable, published) ==
    LET target == CompletionTarget(j, t, status, retryable) IN
    /\ status \in Terminal
    /\ retryable => status = "failed"
    /\ published => status = "succeeded"
    /\ Owned(j, t)
    /\ jobs[j].cancel_requested => status = "cancelled"
    /\ attempts' = [attempts EXCEPT ![j][t] = [status |-> status, lease |-> 0]]
    /\ jobs' = [jobs EXCEPT ![j].status = target,
                            ![j].result = t,
                            ![j].outputs = published]
    /\ events' = [events EXCEPT ![j] = Append(@, Row("completed", t, target))]
    /\ UNCHANGED skew
-----------------------------------------------------------------------------
(* The wall clock.  It may be set back by MaxSkew ticks in all, so a lease *)
(* that is MaxSkew - skew ticks overdue can never be current again and its *)
(* exact age no longer matters.                                            *)

Overdue == -(MaxSkew - skew')

MoveClock(d) ==
    attempts' = [j \in Jobs |-> [t \in Tokens |->
        IF attempts[j][t].status = "running"
        THEN [attempts[j][t] EXCEPT !.lease = IF @ + d < Overdue THEN Overdue
                                              ELSE @ + d]
        ELSE attempts[j][t]]]

Tick ==
    /\ skew' = skew
    /\ MoveClock(-1)
    /\ UNCHANGED <<jobs, events>>

SetClockBack ==
    /\ skew < MaxSkew
    /\ skew' = skew + 1
    /\ MoveClock(1)
    /\ UNCHANGED <<jobs, events>>
-----------------------------------------------------------------------------
Next ==
    \/ \E j \in Jobs, r \in Requests : Submit(j, r)
    \/ \E w \in Workers, j \in Jobs : Claim(w, j)
    \/ \E w \in Workers : ClaimNone(w)
    \/ \E j \in Jobs, t \in Tokens : Heartbeat(j, t)
    \/ \E j \in Jobs, t \in Tokens, name \in Evidence : RecordEvent(j, t, name)
    \/ \E j \in Jobs : Cancel(j)
    \/ \E j \in Jobs, t \in Tokens, status \in Terminal,
          retryable \in BOOLEAN, published \in BOOLEAN :
             Finish(j, t, status, retryable, published)
    \/ Tick
    \/ SetClockBack

Spec == Init /\ [][Next]_vars
-----------------------------------------------------------------------------
(* The store's rows are well formed.                                       *)
TypeOK ==
    /\ jobs \in [Jobs -> Job]
    /\ attempts \in [Jobs -> [Tokens -> AttemptRow]]
    /\ events \in [Jobs -> Seq(Event)]
    /\ skew \in 0 .. MaxSkew

(* Fencing: a job runs exactly when its current attempt runs, and no other *)
(* attempt of it does, whatever lapsed, was requeued or claimed again      *)
(* (_expire and claim write the two tables by separate statements).        *)
OneOwner ==
    \A j \in Jobs, t \in Tokens :
        attempts[j][t].status = "running"
            <=> jobs[j].status = "running" /\ t = jobs[j].token

(* No sequence of lapses, retryable failures and claims starts more        *)
(* attempts than the request's max_attempts, although claim() itself never *)
(* looks at the budget: a queued job always has an attempt left.           *)
AttemptBudget ==
    \A j \in Jobs : Exists(j) =>
        /\ jobs[j].token <= Budget(j)
        /\ jobs[j].status = "queued" => jobs[j].token < Budget(j)

(* An accepted cancellation is never lost to a requeue or to a late        *)
(* success: the job can only still run or be cancelled.                    *)
CancelIsHonoured ==
    \A j \in Jobs :
        jobs[j].cancel_requested => jobs[j].status \in {"running", "cancelled"}

(* The result shown for a job was written by the newest attempt that       *)
(* completed; every attempt after it lapsed or still runs.  Outputs are    *)
(* shown only for a success, and a success is its last attempt's own.      *)
ResultProvenance ==
    \A j \in Jobs :
        /\ \A t \in Tokens : t >= jobs[j].result =>
              (attempts[j][t].status \in Terminal <=> t = jobs[j].result)
        /\ jobs[j].outputs => jobs[j].status = "succeeded"
        /\ jobs[j].status = "succeeded" =>
              /\ jobs[j].result = jobs[j].token
              /\ jobs[j].result # 0
              /\ attempts[j][jobs[j].token].status = "succeeded"

(* The store's rows agree with one another, through every lapse, requeue,  *)
(* retry, cancellation and late completion: one owner, within the budget,  *)
(* no cancellation lost, the newest completion shown.                      *)
StoreInvariant ==
    /\ TypeOK
    /\ OneOwner
    /\ AttemptBudget
    /\ CancelIsHonoured
    /\ ResultProvenance

(* A late, repeated or stale call changes nothing of a decided job, not    *)
(* even its journal.                                                       *)
TerminalIsFinal ==
    [][\A j \in Jobs : jobs[j].status \in Terminal =>
            /\ jobs'[j] = jobs[j]
            /\ attempts'[j] = attempts[j]
            /\ events'[j] = events[j]]_vars

(* History is append-only: a closed attempt keeps its outcome and journal  *)
(* rows stay, through every retry of the same job.                         *)
HistoryIsAppendOnly ==
    [][\A j \in Jobs :
            /\ \A t \in Tokens :
                  attempts[j][t].status \notin {"none", "running"} =>
                      attempts'[j][t] = attempts[j][t]
            /\ \A i \in DOMAIN events[j] :
                  i \in DOMAIN events'[j] /\ events'[j][i] = events[j][i]]_vars

(* What an operator reads off a journal: whether a row of that name speaks *)
(* of attempt t, and what a row says that the job's status became.         *)
Tells(log, name, t) ==
    \E i \in DOMAIN log : log[i].event = name /\ log[i].attempt = t

Ends == {"lease_expired", "completed"}
Moves == Ends \cup {"submitted", "claimed"}
StatusAfter(e) == CASE e.event = "submitted" -> "queued"
                    [] e.event = "claimed" -> "running"
                    [] OTHER -> e.next

\* The newest move counts, unless a cancellation met the job in the queue.
StatusTold(status, log) ==
    \/ status = "absent" /\ log = <<>>
    \/ \E i \in DOMAIN log :
          LET later == {log[k].event : k \in i + 1 .. Len(log)}
              moved == StatusAfter(log[i])
          IN  /\ log[i].event \in Moves /\ later \cap Moves = {}
              /\ status = IF moved = "queued" /\ "cancel_requested" \in later
                          THEN "cancelled" ELSE moved

(* The journal alone reproduces the job's row and how each attempt ended:  *)
(* no transition commits without its event, whichever transactions lapsed  *)
(* the lease, requeued the job and claimed it again.                       *)
RowsAreTold(job, rows, log) ==
    /\ StatusTold(job.status, log)
    /\ job.cancel_requested
          <=> \E i \in DOMAIN log : log[i].event = "cancel_requested"
    /\ \A t \in Tokens :
          /\ t <= job.token <=> Tells(log, "claimed", t)
          /\ rows[t].status = "expired" <=> Tells(log, "lease_expired", t)
          /\ rows[t].status \in Terminal <=> Tells(log, "completed", t)

(* Attempts are claimed once each and in their order, and an attempt's     *)
(* events lie between its claim and its end, so a superseded worker cannot *)
(* add to the story of the attempt that replaced it.                       *)
AttemptsInOrder(log) ==
    /\ \A i, k \in DOMAIN log :
          i < k /\ log[i].event = "claimed" /\ log[k].event = "claimed" =>
              log[i].attempt < log[k].attempt
    /\ \A i \in DOMAIN log : log[i].event \in Ends \cup Evidence =>
          /\ \E k \in 1 .. i - 1 :
                log[k].event = "claimed" /\ log[k].attempt = log[i].attempt
          /\ \A k \in 1 .. i - 1 : log[k].event \in Ends =>
                log[k].attempt # log[i].attempt

(* The journal tells the whole story, and each attempt's part of it stays  *)
(* within that attempt.                                                    *)
JournalTellsAll ==
    \A j \in Jobs :
        /\ RowsAreTold(jobs[j], attempts[j], events[j])
        /\ AttemptsInOrder(events[j])

(* Each job by itself behaves as the abstract lifecycle says.              *)
Life(j) == INSTANCE JobLifecycle WITH
    status <- jobs[j].status,
    tries <- jobs[j].token,
    cancelling <- jobs[j].cancel_requested,
    budget <- IF Exists(j) THEN Budget(j) ELSE 0

EveryJobFollowsLifecycle ==
    /\ \A j \in Jobs : Life(j)!Init
    /\ [][\A j \in Jobs : [Life(j)!Next]_(Life(j)!jobVars)]_vars
=============================================================================
