--------------------------- MODULE DurableWorker ---------------------------
(***************************************************************************)
(* The durable workers, src/quant_pipeline/durable_worker.py, running over *)
(* the store of DurableJobs.  A worker is a main thread that claims one    *)
(* attempt and sees it through, a heartbeat thread that renews its lease,  *)
(* and a child process that computes.  Clients submit and cancel meanwhile *)
(* and any worker may be killed at any point, leaving its child behind.    *)
(*                                                                         *)
(* An exception of the code (a refusing artifact guard, an I/O or database *)
(* error, a KeyboardInterrupt) is the failing alternative of the step that *)
(* raises it.                                                              *)
(***************************************************************************)
EXTENDS DurableJobs

ASSUME StartAssumption == "process_started" \in Evidence

VARIABLES
    worker,         \* [Workers -> WorkerState]
    child,          \* [Jobs -> [Tokens -> ChildState]], the attempt's process
    inputsKept,     \* jobs whose inputs the artifact guard has retained
    outputsKept,    \* attempts whose outputs it has retained
    late            \* attempts whose heartbeat thread outlived run_once

ownVars == <<worker, child, inputsKept, outputsKept, late>>
wvars == <<vars, ownVars>>

\* The program counter names what run_once does next; "down" is a worker that
\* was killed and not restarted yet.
WorkerPc == {"idle", "prepare", "preflight", "start", "record", "poll",
             "check", "abort", "join", "finish", "acknowledge", "down"}

\* The heartbeat thread: up, which is waiting for its next turn or inside its
\* store call, or between that call and the flag it sets because of it.
ThreadState == {"off", "waiting", "saw_cancel", "saw_loss"}

ChildState == {"none", "running", "ok", "bad", "killed"}

WorkerState == [pc : WorkerPc,
                job : Jobs \cup {"no_job"},
                token : 0 .. AttemptLimit,
                outcome : Terminal,         \* the local variable status
                cancelled : BOOLEAN,        \* the two threading.Events
                lost : BOOLEAN,
                thread : ThreadState]

Resting(pc) == [pc |-> pc, job |-> "no_job", token |-> 0, outcome |-> "failed",
                cancelled |-> FALSE, lost |-> FALSE, thread |-> "off"]

Begun(j, t) == [pc |-> "prepare", job |-> j, token |-> t, outcome |-> "failed",
                cancelled |-> FALSE, lost |-> FALSE, thread |-> "waiting"]

Job_(w) == worker[w].job
Token_(w) == worker[w].token
Child(w) == child[Job_(w)][Token_(w)]
Holds(w) == Owned(Job_(w), Token_(w))
Flagged(w) == worker[w].cancelled \/ worker[w].lost
At(w, pc) == worker[w].pc = pc

Goto(w, pc) == worker' = [worker EXCEPT ![w].pc = pc]
Fail(w, pc) == worker' = [worker EXCEPT ![w].pc = pc, ![w].outcome = "failed"]
Rest(w, pc) == worker' = [worker EXCEPT ![w] = Resting(pc)]
SetChild(w, s) == child' = [child EXCEPT ![Job_(w)][Token_(w)] = s]
StoreIdle == UNCHANGED vars
Keeps == UNCHANGED <<inputsKept, outputsKept, late>>
-----------------------------------------------------------------------------
WInit ==
    /\ Init
    /\ worker = [w \in Workers |-> Resting("idle")]
    /\ child = [j \in Jobs |-> [t \in Tokens |-> "none"]]
    /\ inputsKept = {}
    /\ outputsKept = {}
    /\ late = {}

\* run_once begins: the claim, then the heartbeat thread starts.
Take(w) ==
    /\ At(w, "idle")
    /\ \E j \in Jobs :
          /\ Claim(w, j)
          /\ worker' = [worker EXCEPT ![w] = Begun(j, jobs[j].token + 1)]
    /\ UNCHANGED child /\ Keeps

TakeNothing(w) ==
    /\ At(w, "idle")
    /\ ClaimNone(w)
    /\ UNCHANGED ownVars

\* The attempt directory, its two documents, then the inputs are retained.
\* No process exists yet, so an error goes straight to the finally clause.
Prepare(w) ==
    /\ At(w, "prepare")
    /\ \/ Goto(w, "preflight") /\ inputsKept' = inputsKept \cup {Job_(w)}
       \/ Fail(w, "join") /\ UNCHANGED inputsKept
    /\ StoreIdle /\ UNCHANGED <<child, outputsKept, late>>

\* The main thread's own heartbeat, just before the child would be started.
Preflight(w) ==
    /\ At(w, "preflight")
    /\ \/ /\ Heartbeat(Job_(w), Token_(w))
          /\ worker' = [worker EXCEPT ![w].pc = "start",
                          ![w].cancelled = @ \/ jobs[Job_(w)].cancel_requested]
       \/ /\ ~Holds(w) /\ StoreIdle
          /\ worker' = [worker EXCEPT ![w].pc = "join", ![w].lost = TRUE]
       \/ Fail(w, "join") /\ StoreIdle
    /\ UNCHANGED child /\ Keeps

Start(w) ==
    /\ At(w, "start")
    /\ \/ Flagged(w) /\ Goto(w, "join") /\ UNCHANGED child
       \/ ~Flagged(w) /\ Goto(w, "record") /\ SetChild(w, "running")
       \/ ~Flagged(w) /\ Fail(w, "join") /\ UNCHANGED child
    /\ StoreIdle /\ Keeps

\* process_started is evidence of the attempt, so the store checks the lease.
RecordStart(w) ==
    /\ At(w, "record")
    /\ \/ RecordEvent(Job_(w), Token_(w), "process_started") /\ Goto(w, "poll")
       \/ /\ ~Holds(w) /\ StoreIdle
          /\ worker' = [worker EXCEPT ![w].pc = "abort", ![w].lost = TRUE]
       \/ Fail(w, "abort") /\ StoreIdle
    /\ UNCHANGED child /\ Keeps

\* One turn of the poll loop.  Killing the child is confirmed or raises.
Poll(w) ==
    /\ At(w, "poll")
    /\ \/ Child(w) # "running" /\ Goto(w, "check") /\ UNCHANGED child
       \/ /\ Child(w) = "running" /\ Flagged(w)
          /\ Goto(w, "check") /\ SetChild(w, "killed")
       \/ /\ Child(w) = "running" /\ ~Flagged(w)    \* timeout_seconds is over
          /\ Fail(w, "join") /\ SetChild(w, "killed")
       \/ Child(w) = "running" /\ Fail(w, "abort") /\ UNCHANGED child
    /\ StoreIdle /\ Keeps

\* Mutant of Check: success is concluded before the outputs are retained.
CheckWithoutRetention(w) ==
    /\ At(w, "check")
    /\ \/ Flagged(w) /\ Goto(w, "join")
       \/ /\ ~Flagged(w) /\ Child(w) = "ok"
          /\ worker' = [worker EXCEPT ![w].pc = "join", ![w].outcome = "succeeded"]
       \/ ~Flagged(w) /\ Fail(w, "join")
    /\ StoreIdle /\ UNCHANGED child /\ Keeps
\* The child is gone: judge its result, retain its outputs.
Check(w) ==
    /\ At(w, "check")
    /\ \/ Flagged(w) /\ Goto(w, "join") /\ UNCHANGED outputsKept
       \/ /\ ~Flagged(w) /\ Child(w) = "ok"
          /\ outputsKept' = outputsKept \cup {<<Job_(w), Token_(w)>>}
          /\ worker' = [worker EXCEPT ![w].pc = "join", ![w].outcome = "succeeded"]
       \/ ~Flagged(w) /\ Fail(w, "join") /\ UNCHANGED outputsKept
    /\ StoreIdle /\ UNCHANGED <<child, inputsKept, late>>

\* Mutant of Abort: an unconfirmed kill is reported as a plain failure.
AbortRegardless(w) ==
    /\ At(w, "abort")
    /\ Goto(w, "join")
    /\ \E s \in {Child(w), "killed"} : SetChild(w, s)
    /\ StoreIdle /\ Keeps
\* The exception handler: stop the child; if that cannot be confirmed, give
\* the attempt up rather than acknowledge it.
Abort(w) ==
    /\ At(w, "abort")
    /\ \/ /\ Goto(w, "join")
          /\ SetChild(w, IF Child(w) = "running" THEN "killed" ELSE Child(w))
       \/ /\ Child(w) = "running" /\ UNCHANGED child
          /\ worker' = [worker EXCEPT ![w].pc = "join", ![w].lost = TRUE]
    /\ StoreIdle /\ Keeps

\* stop.set(), thread.join(timeout=35), then the lease_lost test.  A thread
\* that waits ends at once; one that is inside its store call comes out of it
\* first, and is left running when that takes longer.
Join(w) ==
    /\ At(w, "join")
    /\ \/ /\ worker[w].thread \in {"waiting", "off"}
          /\ IF worker[w].lost THEN Rest(w, "idle")
             ELSE worker' = [worker EXCEPT ![w].pc = "finish",
                                           ![w].thread = "off",
                                           ![w].outcome = IF worker[w].cancelled
                                                          THEN "cancelled" ELSE @]
          /\ UNCHANGED late
       \/ /\ worker[w].thread = "waiting"
          /\ Rest(w, "idle")
          /\ late' = late \cup {<<Job_(w), Token_(w)>>}
    /\ StoreIdle /\ UNCHANGED <<child, inputsKept, outputsKept>>

\* The completion, with every failure offered for a retry.
Complete(w) ==
    /\ At(w, "finish")
    /\ LET status == worker[w].outcome
       IN  \/ /\ Finish(Job_(w), Token_(w), status, status = "failed",
                        status = "succeeded")
              /\ Rest(w, "idle")
           \/ ~Holds(w) /\ Rest(w, "idle") /\ StoreIdle
           \/ /\ Holds(w) /\ StoreIdle      \* CancellationRequested
              /\ jobs[Job_(w)].cancel_requested /\ status # "cancelled"
              /\ Goto(w, "acknowledge")
    /\ UNCHANGED child /\ Keeps

Acknowledge(w) ==
    /\ At(w, "acknowledge")
    /\ \/ Finish(Job_(w), Token_(w), "cancelled", FALSE, FALSE)
       \/ ~Holds(w) /\ StoreIdle
    /\ Rest(w, "idle")
    /\ UNCHANGED child /\ Keeps

Crash(w) ==
    /\ worker[w].pc \notin {"idle", "down"}
    /\ Rest(w, "down")
    /\ StoreIdle /\ UNCHANGED child /\ Keeps

Restart(w) ==
    /\ At(w, "down")
    /\ Rest(w, "idle")
    /\ StoreIdle /\ UNCHANGED child /\ Keeps
-----------------------------------------------------------------------------
(* The heartbeat thread.  Its store call and the flag it sets afterwards   *)
(* are two steps, so the main thread can run in between.  Its loop waits   *)
(* on stop: a turn that is over once run_once joins it was its last.       *)

AfterTurn(w) == IF At(w, "join") THEN "off" ELSE "waiting"

Beat(w) ==
    /\ worker[w].thread = "waiting"
    /\ \/ /\ Heartbeat(Job_(w), Token_(w))
          /\ worker' = [worker EXCEPT ![w].thread =
                IF jobs[Job_(w)].cancel_requested THEN "saw_cancel" ELSE AfterTurn(w)]
       \/ \* not the owner any more, or any database error
          /\ StoreIdle
          /\ worker' = [worker EXCEPT ![w].thread = "saw_loss"]
    /\ UNCHANGED child /\ Keeps

SetFlag(w) ==
    /\ \/ /\ worker[w].thread = "saw_cancel"
          /\ worker' = [worker EXCEPT ![w].thread = AfterTurn(w),
                                      ![w].cancelled = TRUE]
       \/ /\ worker[w].thread = "saw_loss"
          /\ worker' = [worker EXCEPT ![w].thread = "off", ![w].lost = TRUE]
    /\ StoreIdle /\ UNCHANGED child /\ Keeps

\* The last store call of a thread that outlived its run_once.
LateBeat(j, t) ==
    /\ <<j, t>> \in late
    /\ late' = late \ {<<j, t>>}
    /\ Heartbeat(j, t) \/ StoreIdle
    /\ UNCHANGED <<worker, child, inputsKept, outputsKept>>

\* The handler ends by itself, also when its worker is long gone.
ChildExits(j, t) ==
    /\ child[j][t] = "running"
    /\ \E s \in {"ok", "bad"} : child' = [child EXCEPT ![j][t] = s]
    /\ StoreIdle /\ UNCHANGED worker /\ Keeps
-----------------------------------------------------------------------------
MainStep(w) ==
    \/ Prepare(w) \/ Preflight(w) \/ Start(w) \/ RecordStart(w) \/ Poll(w)
    \/ Check(w) \/ Abort(w) \/ Join(w) \/ Complete(w) \/ Acknowledge(w)

ClientStep ==
    /\ \/ \E j \in Jobs, r \in Requests : Submit(j, r)
       \/ \E j \in Jobs : Cancel(j)
    /\ UNCHANGED ownVars

ClockStep == (Tick \/ SetClockBack) /\ UNCHANGED ownVars

WNext ==
    \/ \E w \in Workers : Take(w) \/ TakeNothing(w)
    \/ \E w \in Workers : MainStep(w)
    \/ \E w \in Workers : Beat(w) \/ SetFlag(w)
    \/ \E w \in Workers : Crash(w) \/ Restart(w)
    \/ \E j \in Jobs, t \in Tokens : LateBeat(j, t) \/ ChildExits(j, t)
    \/ ClientStep
    \/ ClockStep

WSpec == WInit /\ [][WNext]_wvars

(* Fairness.  The process of a worker is scheduled, so it polls the queue  *)
(* every 250 ms, and the service manager restarts one that died; a         *)
(* heartbeat thread sets the flag it is about to set; time passes.  Not    *)
(* assumed: that heartbeats are sent or cease, that a handler ever ends,   *)
(* that anybody cancels, or that crashes and errors cease.                 *)
ProcessStep(w) == Take(w) \/ TakeNothing(w) \/ MainStep(w) \/ Restart(w)

Fairness ==
    /\ \A w \in Workers : WF_wvars(ProcessStep(w)) /\ WF_wvars(SetFlag(w))
    /\ WF_wvars(Tick /\ UNCHANGED ownVars)

FairSpec == WSpec /\ Fairness
-----------------------------------------------------------------------------
(* The workers' tables are well formed; a worker that holds nothing has no *)
(* heartbeat thread.                                                       *)
Idle(x) == x.pc \in {"idle", "down"} => x.thread = "off"
WTypeOK ==
    /\ worker \in [Workers -> WorkerState]
    /\ \A w \in Workers : Idle(worker[w])
    /\ child \in [Jobs -> [Tokens -> ChildState]]
    /\ inputsKept \subseteq Jobs
    /\ outputsKept \subseteq Jobs \X Tokens
    /\ late \subseteq Jobs \X Tokens

(* A completion is only ever committed once its process is known to have   *)
(* stopped: no attempt recorded as succeeded, failed or cancelled has its  *)
(* child still running, whatever was killed, lost or raised on the way.    *)
AcknowledgedMeansStopped ==
    \A j \in Jobs, t \in Tokens :
        attempts[j][t].status \in Terminal => child[j][t] # "running"

(* A success rests on a process that ended well, on inputs retained before *)
(* it ran and on outputs retained before it was committed, and it is that  *)
(* very attempt's success.                                                 *)
SuccessIsRetained ==
    \A j \in Jobs : jobs[j].status = "succeeded" =>
        /\ child[j][jobs[j].token] = "ok"
        /\ j \in inputsKept
        /\ <<j, jobs[j].token>> \in outputsKept

(* Workers report every failure as retryable, so a job they run only fails *)
(* for good when its attempts are used up.                                 *)
FailedOnlyWhenExhausted ==
    \A j \in Jobs : jobs[j].status = "failed" => jobs[j].token = Budget(j)

(* No worker reports a cancellation nobody asked for, although the store   *)
(* would accept it: the flag comes from the store and is never stale.      *)
CancelledOnlyIfAsked ==
    \A j \in Jobs : jobs[j].status = "cancelled" => jobs[j].cancel_requested

(* Every decision the workers commit is earned: a success by a retained    *)
(* run, a failure by a used-up budget, a cancellation by somebody's wish.  *)
DecisionsAreEarned ==
    /\ WTypeOK
    /\ SuccessIsRetained
    /\ FailedOnlyWhenExhausted
    /\ CancelledOnlyIfAsked

(* Whatever workers, threads and crashes do, the store only ever sees its  *)
(* own operations, so everything proved of the store holds under them.     *)
StoreIsFollowed == Spec

(* Every submitted job is eventually decided: no kill of a worker, lost    *)
(* heartbeat or failed kill of a child, and no thread that renews its      *)
(* lease for as long as it may, can leave it queued or running for ever.   *)
EveryJobIsDecided ==
    \A j \in Jobs : Exists(j) ~> jobs[j].status \in Terminal
=============================================================================
