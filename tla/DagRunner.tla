----------------------------- MODULE DagRunner -----------------------------
(***************************************************************************)
(* The v2 DAG runner, src/quant_pipeline/dag_runner.py: one run of one     *)
(* pipeline in one workspace, through any number of processes.  A process  *)
(* keeps the checkpoint in memory and replaces the file (os.replace, see   *)
(* checkpoint.py) at the end of every transition; each action here is one  *)
(* such transition, so the memory copy equals the file between actions and *)
(* is not kept apart.  A process may be killed between any two actions,    *)
(* which also stands for every exception that leaves run() or resume().    *)
(*                                                                         *)
(* A resume whose spec, manifest, seed or run id differs, or whose file is *)
(* not one a runner wrote, is refused before anything changes, and is a    *)
(* stuttering step.  Left out is a caller that resumes from a copy of an   *)
(* older checkpoint, an object it kept or a file it put aside, which the   *)
(* code would take up wherever the workspace still agrees with it.         *)
(***************************************************************************)
EXTENDS Naturals, Sequences, FiniteSets

CONSTANTS
    Steps,
    Topology,       \* deterministic_topology(spec)
    Needs,          \* [Steps -> SUBSET Steps]
    Inputs,         \* [Steps -> SUBSET Artifacts]
    Outputs,        \* [Steps -> SUBSET Artifacts]
    MaxAttempts,    \* [Steps -> Nat \ {0}], retry.max_attempts
    Gates,          \* steps of a NON_RETRYABLE_GATE_KINDS kind
    Artifacts,
    Optional,       \* artifacts with required = false
    Mutable,        \* artifacts with immutable = false
    Allowed,        \* [Artifacts -> SUBSET Contents], the declared hashes
    Contents,       \* contents that differ, identified with their hashes
    Missing,        \* _MISSING_HASH: no file at the path
    Unrecorded,     \* no hash in the checkpoint
    MaxTampers      \* bound: changes made from outside

\* What validate_pipeline_spec and deterministic_topology establish.
ASSUME GraphAssumption ==
    /\ IsFiniteSet(Steps)
    /\ Topology \in Seq(Steps)
    /\ \A s \in Steps : \E i \in DOMAIN Topology : Topology[i] = s
    /\ \A i, k \in DOMAIN Topology : Topology[i] = Topology[k] => i = k
    /\ Needs \in [Steps -> SUBSET Steps]
    /\ \A i, k \in DOMAIN Topology :
          Topology[i] \in Needs[Topology[k]] => i < k
ASSUME ArtifactAssumption ==
    /\ Inputs \in [Steps -> SUBSET Artifacts]
    /\ Outputs \in [Steps -> SUBSET Artifacts]
    /\ \A s, t \in Steps : s # t => Outputs[s] \cap Outputs[t] = {}
    /\ \A s, t \in Steps : Inputs[s] \cap Outputs[t] # {} => t \in Needs[s]
    /\ Optional \subseteq Artifacts /\ Mutable \subseteq Artifacts
    /\ Allowed \in [Artifacts -> SUBSET Contents]
    /\ Missing \notin Contents /\ Unrecorded \notin Contents
    /\ Missing # Unrecorded
ASSUME RetryAssumption ==
    /\ MaxAttempts \in [Steps -> Nat \ {0}]
    /\ Gates \subseteq Steps /\ MaxTampers \in Nat

VARIABLES
    fail_fast,      \* spec.fail_fast, the same for the whole run
    disk,           \* the checkpoint file
    files,          \* [Artifacts -> Contents \cup {Missing}]
    logs,           \* attempt logs present, as <<step, attempt number>>
    pc,             \* what the process does next, "down" without one
    pos,            \* the index its loop over the topology has reached
    dry,            \* the process's dry_run
    stopping,       \* fail_fast_triggered
    outcome,        \* what the executor's latest call came to
    executions,     \* history: calls of the executor per step
    touched,        \* history: what was changed from outside, ever
    touchedLive,    \* history: what was changed while a process was up
    tampers

procVars == <<pc, pos, dry, stopping, outcome>>
envVars == <<touched, touchedLive, tampers>>
vars == <<fail_fast, disk, files, logs, procVars, executions, envVars>>
-----------------------------------------------------------------------------
StepStatus == {"pending", "running", "succeeded", "failed", "blocked",
               "cached", "dry_run"}
Completed == {"succeeded", "cached"}
Successful == {"succeeded", "cached", "dry_run"}

\* The idempotency key of an attempt is a function of the run, the step and
\* the hashes of its inputs; rekeyed are the steps that have attempts recorded
\* under another key than their present one.
Hashes == [Artifacts -> Contents \cup {Missing, Unrecorded}]
Checkpoint == [saved : BOOLEAN,                 \* the file exists
               status : [Steps -> StepStatus],
               attempts : [Steps -> Nat],       \* the length of the list
               inputs : [Steps -> Hashes],
               outputs : [Steps -> Hashes],
               rekeyed : SUBSET Steps]

NoHashes == [a \in Artifacts |-> Unrecorded]
FreshCheckpoint == [saved |-> TRUE,
                    status |-> [s \in Steps |-> "pending"],
                    attempts |-> [s \in Steps |-> 0],
                    inputs |-> [s \in Steps |-> NoHashes],
                    outputs |-> [s \in Steps |-> NoHashes],
                    rekeyed |-> {}]
NoCheckpoint == [FreshCheckpoint EXCEPT !.saved = FALSE]

HashesOf(S) == [a \in Artifacts |-> IF a \in S THEN files[a] ELSE Unrecorded]

\* _hash_artifact raises for none of S.
Hashable(S) ==
    \A a \in S : IF files[a] = Missing THEN a \in Optional
                 ELSE files[a] \in Allowed[a]
FreshOutputs(s) == \A a \in Outputs[s] : files[a] = Missing

Status(s) == disk.status[s]
Failing == fail_fast /\ \E s \in Steps : Status(s) = "failed"
NextLog(s) == <<s, disk.attempts[s] + 1>>
Current == Topology[pos]
InLoop == pc = "loop" /\ pos <= Len(Topology)
Waits(s) == InLoop /\ s = Current /\ Status(s) = "pending"
Ready(s) == /\ Waits(s) /\ ~stopping
            /\ \A d \in Needs[s] : Status(d) \in Successful

GoOn == /\ pc' = "loop" /\ pos' = pos + 1 /\ outcome' = "none"
        /\ UNCHANGED dry
End == /\ pc' = "down" /\ pos' = 1 /\ outcome' = "none" /\ dry' = FALSE
       /\ stopping' = FALSE

\* A transition that decides step s without an attempt.
Settle(s, t) ==
    /\ disk' = [disk EXCEPT !.status[s] = t]
    /\ stopping' = (stopping \/ (fail_fast /\ t = "failed"))
    /\ GoOn
-----------------------------------------------------------------------------
Init ==
    /\ fail_fast \in BOOLEAN
    /\ disk = NoCheckpoint
    /\ files \in [Artifacts -> Contents \cup {Missing}]
    /\ \A s \in Steps : FreshOutputs(s)
    /\ logs = {}
    /\ pc = "down" /\ pos = 1 /\ dry = FALSE /\ stopping = FALSE
    /\ outcome = "none"
    /\ executions = [s \in Steps |-> 0]
    /\ touched = {} /\ touchedLive = {} /\ tampers = 0

\* run() without resume: refused when a checkpoint or a log directory exists.
Run(d) ==
    /\ pc = "down" /\ ~disk.saved /\ logs = {}
    /\ disk' = FreshCheckpoint
    /\ pc' = "loop" /\ dry' = d
    /\ UNCHANGED <<files, logs, pos, stopping, outcome, executions, envVars>>

Skip ==
    /\ InLoop /\ Status(Current) # "pending"
    /\ GoOn
    /\ UNCHANGED <<disk, files, logs, stopping, executions, envVars>>

Block(s) ==
    /\ Waits(s)
    /\ stopping \/ \E d \in Needs[s] : Status(d) \notin Successful
    /\ Settle(s, "blocked")
    /\ UNCHANGED <<files, logs, executions, envVars>>

DryRun(s) ==
    /\ Ready(s) /\ dry
    /\ Settle(s, "dry_run")
    /\ UNCHANGED <<files, logs, executions, envVars>>

Rekeyed(s) ==
    IF disk.attempts[s] > 0 /\ disk.inputs[s] # HashesOf(Inputs[s])
    THEN {s} ELSE {}

\* _execute_step up to the first attempt's checkpoint, or _mark_contract_failure.
\* Its max_attempts test cannot fail on a checkpoint a runner wrote.
Begin(s) ==
    /\ Ready(s) /\ ~dry
    /\ IF Hashable(Inputs[s]) /\ FreshOutputs(s)
       THEN /\ disk' = [disk EXCEPT !.status[s] = "running",
                                    !.inputs[s] = HashesOf(Inputs[s]),
                                    !.rekeyed = @ \cup Rekeyed(s)]
            /\ pc' = "attempt"
            /\ UNCHANGED <<pos, dry, stopping, outcome>>
       ELSE Settle(s, "failed")
    /\ UNCHANGED <<files, logs, executions, envVars>>

\* _attempt: the executor runs the command, which leaves any of its outputs,
\* whatever it comes to: "ok", an exit code or exception the retry policy
\* "matched", or another "error".
Attempt(s) ==
    /\ pc = "attempt" /\ s = Current
    /\ NextLog(s) \notin logs
    /\ \E written \in [Outputs[s] -> Contents \cup {Missing}] :
          files' = [a \in Artifacts |->
                      IF a \in Outputs[s] /\ written[a] # Missing
                      THEN written[a] ELSE files[a]]
    /\ outcome' \in {"ok", "matched", "error"}
    /\ executions' = [executions EXCEPT ![s] = @ + 1]
    /\ pc' = "logging"
    /\ UNCHANGED <<disk, logs, pos, dry, stopping, envVars>>

\* Its two logs are written once the executor has returned.
WriteLogs(s) ==
    /\ pc = "logging" /\ s = Current
    /\ NextLog(s) \notin logs
    /\ logs' = logs \cup {NextLog(s)}
    /\ pc' = "judge"
    /\ UNCHANGED <<disk, files, pos, dry, stopping, outcome, executions, envVars>>

\* A log is there already, before the execution or after it: a contract
\* failure, and in the second case the execution is not recorded.
LogCollision(s) ==
    /\ pc \in {"attempt", "logging"} /\ s = Current
    /\ NextLog(s) \in logs
    /\ Settle(s, "failed")
    /\ UNCHANGED <<files, logs, executions, envVars>>

\* Mutant of Succeed: the outputs are checked but not recorded.
SucceedUnrecorded(s) ==
    /\ pc = "judge" /\ s = Current
    /\ outcome = "ok" /\ Hashable(Outputs[s])
    /\ disk' = [disk EXCEPT !.status[s] = "succeeded", !.attempts[s] = @ + 1]
    /\ GoOn
    /\ UNCHANGED <<files, logs, stopping, executions, envVars>>
Succeed(s) ==
    /\ pc = "judge" /\ s = Current
    /\ outcome = "ok" /\ Hashable(Outputs[s])
    /\ disk' = [disk EXCEPT !.status[s] = "succeeded",
                            !.attempts[s] = @ + 1,
                            !.outputs[s] = HashesOf(Outputs[s])]
    /\ GoOn
    /\ UNCHANGED <<files, logs, stopping, executions, envVars>>

\* Mutant of RetryDue: one attempt too many.
RetryDueOffByOne(s) ==
    outcome = "matched" /\ s \notin Gates /\ disk.attempts[s] < MaxAttempts[s]
RetryDue(s) ==
    /\ outcome = "matched" /\ s \notin Gates
    /\ disk.attempts[s] + 1 < MaxAttempts[s]

Schedule(s) ==
    /\ pc = "judge" /\ s = Current
    /\ RetryDue(s) /\ FreshOutputs(s)
    /\ disk' = [disk EXCEPT !.status[s] = "pending", !.attempts[s] = @ + 1]
    /\ pc' = "backoff" /\ outcome' = "none"
    /\ UNCHANGED <<pos, dry, stopping, files, logs, executions, envVars>>

\* Everything else fails the step, the missing or wrong output of a success
\* and the left-over output of a retry included.
FailStep(s) ==
    /\ pc = "judge" /\ s = Current
    /\ ~(outcome = "ok" /\ Hashable(Outputs[s]))
    /\ ~(RetryDue(s) /\ FreshOutputs(s))
    /\ disk' = [disk EXCEPT !.status[s] = "failed", !.attempts[s] = @ + 1]
    /\ stopping' = (stopping \/ fail_fast)
    /\ GoOn
    /\ UNCHANGED <<files, logs, executions, envVars>>

\* After the backoff the next attempt starts; inputs are not hashed again.
Retry(s) ==
    /\ pc = "backoff" /\ s = Current
    /\ disk' = [disk EXCEPT !.status[s] = "running"]
    /\ pc' = "attempt"
    /\ UNCHANGED <<pos, dry, stopping, outcome, files, logs, executions, envVars>>

Complete ==
    /\ pc = "loop" /\ pos > Len(Topology)
    /\ End
    /\ UNCHANGED <<disk, files, logs, executions, envVars>>

Crash ==
    /\ pc # "down"
    /\ End
    /\ UNCHANGED <<disk, files, logs, executions, envVars>>
-----------------------------------------------------------------------------
(* Resume.                                                                 *)

Recorded(s) == disk.inputs[s] # NoHashes

SameInputs(s) ==
    Hashable(Inputs[s]) /\ disk.inputs[s] = HashesOf(Inputs[s])

\* Mutant of Valid: only completed steps' inputs are looked at, later on.
ValidForCompleted ==
    /\ \A s \in Steps : Status(s) # "running"
    /\ \A s \in Steps : \A n \in 1 .. disk.attempts[s] : <<s, n>> \in logs
\* _validate_checkpoint, for a checkpoint this run wrote.
Valid ==
    /\ \A s \in Steps : Status(s) # "running"
    /\ \A s \in Steps : disk.attempts[s] <= MaxAttempts[s]
    /\ disk.rekeyed = {}
    /\ \A s \in Steps : Recorded(s) => SameInputs(s)
    /\ \A s \in Steps : \A n \in 1 .. disk.attempts[s] : <<s, n>> \in logs

Resume(d) ==
    /\ pc = "down" /\ disk.saved /\ Valid
    /\ pc' = "cache" /\ dry' = d
    /\ UNCHANGED <<disk, files, logs, pos, stopping, outcome, executions, envVars>>

\* What _cache_completed_steps tests of one completed step.
Cacheable(s) ==
    /\ SameInputs(s)
    /\ Outputs[s] \cap Mutable = {}
    /\ \A a \in Outputs[s] : files[a] # Missing
    /\ Hashable(Outputs[s])
    /\ disk.outputs[s] = HashesOf(Outputs[s])

CacheNext ==
    /\ pc = "cache" /\ pos <= Len(Topology)
    /\ IF Status(Current) \notin Completed
       THEN UNCHANGED disk
       ELSE /\ Cacheable(Current)
            /\ disk' = [disk EXCEPT !.status[Current] = "cached"]
    /\ pos' = pos + 1
    /\ UNCHANGED <<files, logs, pc, dry, stopping, outcome, executions, envVars>>

\* Mutant of Refuse: a step that cannot be reused is done again.
RefuseByReset ==
    /\ pc = "cache" /\ pos <= Len(Topology)
    /\ Status(Current) \in Completed /\ ~Cacheable(Current)
    /\ disk' = [disk EXCEPT !.status[Current] = "pending"]
    /\ pos' = pos + 1
    /\ UNCHANGED <<files, logs, pc, dry, stopping, outcome, executions, envVars>>
\* ArtifactIntegrityError or CheckpointError leaves resume().
Refuse ==
    /\ pc = "cache" /\ pos <= Len(Topology)
    /\ Status(Current) \in Completed /\ ~Cacheable(Current)
    /\ End
    /\ UNCHANGED <<disk, files, logs, executions, envVars>>

\* pipeline_resumed, and _execute begins with its fail_fast_triggered.
Resumed ==
    /\ pc = "cache" /\ pos > Len(Topology)
    /\ pc' = "loop" /\ pos' = 1 /\ stopping' = Failing
    /\ UNCHANGED <<disk, files, logs, dry, outcome, executions, envVars>>
-----------------------------------------------------------------------------
(* Whoever else works in the workspace: an artifact is changed, created or *)
(* removed, an attempt log is removed or put in the way.                   *)

Touch(x) ==
    /\ tampers < MaxTampers
    /\ tampers' = tampers + 1
    /\ touched' = touched \cup {x}
    /\ touchedLive' = IF pc = "down" THEN touchedLive ELSE touchedLive \cup {x}

ChangeArtifact(a, c) ==
    /\ files[a] # c
    /\ files' = [files EXCEPT ![a] = c]
    /\ Touch(a)
    /\ UNCHANGED <<disk, logs, procVars, executions>>

ChangeLog(log) ==
    /\ logs' = IF log \in logs THEN logs \ {log} ELSE logs \cup {log}
    /\ Touch("log")
    /\ UNCHANGED <<disk, files, procVars, executions>>
-----------------------------------------------------------------------------
RunnerStep ==
    \/ Skip \/ Complete \/ CacheNext \/ Refuse \/ Resumed
    \/ \E s \in Steps : \/ Block(s) \/ DryRun(s) \/ Begin(s) \/ Attempt(s)
                        \/ WriteLogs(s) \/ LogCollision(s) \/ Succeed(s) \/ Schedule(s)
                        \/ FailStep(s) \/ Retry(s)

Logs == UNION {{s} \X (1 .. MaxAttempts[s]) : s \in Steps}

Next ==
    /\ \/ \E d \in BOOLEAN : Run(d) \/ Resume(d)
       \/ RunnerStep
       \/ Crash
       \/ \E a \in Artifacts, c \in Contents \cup {Missing} : ChangeArtifact(a, c)
       \/ \E log \in Logs : ChangeLog(log)
    /\ UNCHANGED fail_fast

Spec == Init /\ [][Next]_vars

\* A process that is up goes on; nobody has to start, kill or disturb one.
FairSpec == Spec /\ WF_vars(RunnerStep /\ UNCHANGED fail_fast)
-----------------------------------------------------------------------------
(* Checkpoint, workspace and process state are well formed.                *)
TypeOK ==
    /\ fail_fast \in BOOLEAN
    /\ disk \in Checkpoint
    /\ files \in [Artifacts -> Contents \cup {Missing}]
    /\ logs \subseteq Logs
    /\ pc \in {"down", "loop", "attempt", "logging", "judge", "backoff",
              "cache"}
    /\ pos \in 1 .. Len(Topology) + 1
    /\ dry \in BOOLEAN /\ stopping \in BOOLEAN
    /\ outcome \in {"none", "ok", "matched", "error"}
    /\ executions \in [Steps -> Nat]
    /\ touched \subseteq Artifacts \cup {"log"} /\ touchedLive \subseteq touched
    /\ tampers \in 0 .. MaxTampers

(* What the checkpoint says of a step is consistent with what it says of   *)
(* the steps it needs, after any crash, resume, refusal or dry run: a step *)
(* that ran has only successful dependencies, and at most one step runs.   *)
DependenciesDone ==
    /\ \A s \in Steps :
          Status(s) \in {"running", "succeeded", "cached"} \/ disk.attempts[s] > 0
            => \A d \in Needs[s] : Status(d) \in Successful
    /\ \A s, t \in Steps : Status(s) = "running" /\ Status(t) = "running" => s = t

(* No execution is lost from the record but the one a crash interrupts or  *)
(* whose log another party put in the way while a process was up, and a    *)
(* resumed run never exceeds max_attempts.                                 *)
AttemptsAccounted ==
    \A s \in Steps :
        /\ executions[s] <= MaxAttempts[s]
        /\ Status(s) # "running" /\ "log" \notin touchedLive =>
              executions[s] = disk.attempts[s]

(* A gate is executed at most once in the life of a run.                   *)
GatesNeverRetried == \A s \in Gates : executions[s] <= 1

(* Whatever was changed while no process was up is found by the resume:    *)
(* when steps are executed again, every input and output recorded for a    *)
(* completed step or a step under retry is what lies in the workspace now, *)
(* but for changes made while a process was running.                       *)
TamperIsCaught ==
    pc \in {"loop", "attempt", "logging", "judge", "backoff"} =>
        \A s \in Steps : \A a \in Artifacts \ touchedLive :
            /\ disk.inputs[s][a] # Unrecorded => files[a] = disk.inputs[s][a]
            /\ Status(s) \in Completed /\ disk.outputs[s][a] # Unrecorded =>
                  files[a] = disk.outputs[s][a]

(* A completed consumer has recorded the very content its producer has     *)
(* recorded, across resumes, unless it was changed while a process was up. *)
ResultsAgree ==
    \A s, d \in Steps : \A a \in (Inputs[s] \cap Outputs[d]) \ touchedLive :
        Status(s) \in Completed /\ Status(d) \in Completed =>
            disk.inputs[s][a] = disk.outputs[d][a]

(* The checkpoint tells the truth about the run, through kills, resumes,   *)
(* refusals and retries: its steps agree with the graph, its attempts with *)
(* the executions, gates included, and consumers with their producers.     *)
CheckpointIsTrue ==
    /\ TypeOK
    /\ DependenciesDone
    /\ AttemptsAccounted
    /\ GatesNeverRetried
    /\ ResultsAgree

(* A step that was decided is never executed again nor decided otherwise,  *)
(* whatever is killed, resumed or refused: a success may be cached.        *)
DecisionsStand ==
    [][\A s \in Steps :
          Status(s) \in StepStatus \ {"pending", "running"} =>
             /\ executions'[s] = executions[s]
             /\ disk'.status[s] # Status(s) =>
                   Status(s) = "succeeded" /\ disk'.status[s] = "cached"]_vars

(* Under fail_fast nothing is executed after the first failure, also not   *)
(* by a later process that resumes the run.                                *)
FailFastStops ==
    [][Failing => executions' = executions]_vars

(* A run interrupted anywhere but inside an attempt can be resumed, if     *)
(* nothing was touched: its checkpoint is valid and every completed step   *)
(* can be reused, except one that left an optional output out or has a     *)
(* mutable output.                                                         *)
InterruptionIsResumable ==
    pc = "down" /\ disk.saved /\ touched = {}
      /\ (\A s \in Steps : Status(s) # "running") =>
        /\ Valid
        /\ \A s \in Steps : Status(s) \in Completed =>
              \/ Cacheable(s)
              \/ \E a \in Outputs[s] :
                    a \in Mutable \/ disk.outputs[s][a] = Missing

(* A process that is left alone ends its run: no chain of retries, blocks  *)
(* and cached steps goes on for ever.                                      *)
RunsEnd == pc # "down" ~> pc = "down"

(* Decisions hold: of a step, and under fail_fast of the whole run; and a  *)
(* process that is left alone comes to one for every step.                 *)
DecisionsHold == DecisionsStand /\ FailFastStops /\ RunsEnd
=============================================================================
