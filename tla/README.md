# quant-pipeline: specifications

TLA+ specifications of the stateful parts of `quant-pipeline`, the TLC
configurations that check them on small instances, and theorems about them that
the TLA+ proof system checks for every instance. Paths are relative to
`src/quant_pipeline/` unless they begin with `docs/`, `tests/` or `README.md`,
which are the repository's own.

Contents: 1 the system, 2 the modules, 3 the runs, 4 the theorems, 5 what is
only model-checked, 6 how to read the properties, 7 where code and documents
disagree, 8 what is not modelled, 9 the plan, 10 running the checks.

## 1. The system and its parts

| part | state it keeps | operations | hard because | modelled in |
|---|---|---|---|---|
| job store, `durable_jobs.py` | SQLite tables jobs, attempts, events | submit, claim (with expiry), heartbeat, record_event, cancel, finish | any caller may be stale; leases lapse by the wall clock; two tables and a journal per transition | DurableJobs |
| worker, `durable_worker.py` | main thread, heartbeat thread, child process, attempt directory | run_once, restart | two threads and a process per worker; kills that cannot be confirmed; crashes | DurableWorker |
| batches, `durable_batches.py`, `durable_research.py`, `durable_client.py` | two more tables of the same database; pins in an artifact store | submit, cancel, retry, pin | many rows per transaction; reading, pinning and inserting are separate steps | DurableBatches (partly) |
| DAG runner, `dag_runner.py`, `checkpoint.py` | checkpoint file, attempt logs, artifacts | run, resume, retry, cache, dry run | killed at any step and resumed; files change in between | DagRunner (partly) |
| DAG schema, `dag_schema.py` | none | validate_pipeline_spec, deterministic_topology | the runner never checks again what it assumes | Topology, DagSchema (partly) |
| forward account ledger, `research_paper.py`, `research_timing.py` | account.db, account.json, latest.json, evaluation.json, bundles | promote, observe, seal | registry and files one after the other; attempts of dead writers; inputs that change in place | ForwardAccount, ForwardLedger |
| forward daily operation, `forward_daily.py` | receipts; drives the ledger | assess, run | gates assessed before and inside the ledger's lock | ForwardDaily |
| ETF operations, `etf_operations.py`, `etf_frozen_worker.py`, `etf_schedule.py` | operation.json per attempt, two locks, two markers per worker | execute, recover_plan, status, acceptance | workers that outlive their controller; a plan bound to a state read earlier; slots and exhaustion | EtfOperations, EtfEvidence |
| ETF collection, `etf_daily.py`, `etf_collection.py` | staged operation records, data snapshots | refresh, observe, tick | clock and profile read before the lock; three stages that end one by one | EtfDaily |
| project registration, `project_registration.py` | previews, receipts, staging directory | preview, commit | promotion, rename and receipt, recovered after a crash | Registration |
| research console, `research_web.py` | console.db, recipes, requests, one worker thread, one child | save, clone, submit, work loop, close, restart | close races with the claim and the child's start | ResearchConsole (partly) |
| continuous validation, `continuous_validation.py` | output directory published by rename | replay_selected_path | interrupted attempts are archived, never reused | SelectedPath (partly) |
| isolation, `isolation.py`, `isolation_collect.py` | one container per run, isolation.json | run_isolated | bounded streams, a daemon that acts late, removal on every path | Isolation (partly) |
| daily run, `daily.py` | `.pipeline.lock`, latest files | run_daily | the lock and the producer outlive a kill | DailyRun |
| legacy runner (`runner.py`, `schema.py`), numerical research, rendering | none that outlives a call | | | not modelled |

How they interact. Clients and workers share nothing but the job database; each
call is one `BEGIN IMMEDIATE` transaction. A worker's threads share two flags,
and the main thread owns the child. Batches add tables to the same database, so
a batch transaction is one step also for the workers; only the pins of research
clients live elsewhere. The DAG runner's processes follow one another and meet
through the checkpoint file, the attempt logs and the artifacts, which anybody
may change; it runs what the schema accepted. The forward ledger is driven by the
forward daily operation, and that by the ETF operations and the ETF daily
operation, each under a lock of its own; project registration leads to the ledger
as well. The console starts the CLI on a request it has frozen. Continuous
validation, isolation and the daily run are used by the others as closed calls.

What makes each part correct is stated by the properties of section 3. The
hazards, each at its line with the properties that cover it or the reason why
none does, are in `PROJECT.json`.

## 2. Modules

```
JobLifecycle        what one job promises
DurableJobs         the store                 implements JobLifecycle, per job
  DurableWorker     store + workers           implements DurableJobs
  DurableBatches    store + batches           implements JobLifecycle, per job
DagRunner           one run of one pipeline
Topology            deterministic_topology
  DagSchema         the validation around it: what DagRunner assumes
ForwardAccount      what a forward account promises
ForwardLedger       promote, observe, seal    implements ForwardAccount
  ForwardDaily      run() around observe
EtfOperations       controller and frozen worker
EtfEvidence         classify(), acceptance(): functions
EtfDaily            the bounded daily operation
Registration, ResearchConsole, SelectedPath, Isolation, DailyRun
MC*                 one instance for TLC each
*Proofs             theorems
```

Four conventions hold in all of them. An action is a stretch of code between two
points at which another actor, a crash or a failure can matter; what a locked or
transactional stretch writes, it writes in one action. A call that is refused
before it writes anything is a stuttering step. A lock that the system frees with
its process is freed by the crash; one that is a file stays. Hashes are
identified with what is hashed, so collisions are excluded.

### Durable jobs

`JobLifecycle` is one job with attempts, leases, workers and journal abstracted
away: submitted with a budget, begun, requeued, decided, cancelled. After an
accepted cancellation only "cancelled" can be decided and no attempt begins.

`DurableJobs` (`durable_jobs.py`):

| here | there |
|---|---|
| `jobs[j]`, one row per idempotency key | table jobs; the key is UNIQUE, so a key stands for its row |
| `attempts[j][t]` | table attempts; `(job_id, token)` is UNIQUE, so `attempt_id` is the pair |
| `lease` | `lease_expires_at - now`, the only thing ever tested of either |
| `events[j]` | table events, per job in `sequence` order |
| `skew`, `Tick`, `SetClockBack` | `self.clock()`, the wall clock |
| `created_at` | the rank of the submission's clock reading, ties allowed |

Callers are not constrained: `Heartbeat`, `RecordEvent` and `Finish` may name any
attempt, which covers stale, repeated and delayed calls. `Claim` includes the
expiry of every lapsed attempt and picks the oldest eligible job; `ClaimNone` is
the claim that finds nothing and still commits the expiries.

`DurableWorker` (`durable_worker.py`) extends the store. `worker[w]` holds the
program counter of `run_once`, its local status, the two `threading.Event`s and
the heartbeat thread; `child[j][t]` is the process of an attempt and outlives its
worker.

| action | lines of `run_once` | | action | lines |
|---|---|---|---|---|
| Take, TakeNothing | 138-160 | | Check | 220-237 |
| Prepare | 161-179 | | Abort | 238-253 |
| Preflight | 180-182 | | Join | 254-262 |
| Start | 183-207 | | Complete | 263-274 |
| RecordStart | 208-210 | | Acknowledge | 268-277 |
| Poll | 211-219 | | Beat, SetFlag, LateBeat | 144-153, 256 |

Every call that can raise has its failing alternative in the same action. `Beat`
and `SetFlag` are separate, because the main thread can run between the
heartbeat's store call and the flag it sets. `LateBeat` is the thread that
`join(timeout=35)` gave up on. `Crash` may happen anywhere and leaves the child.
The artifact guard is an external step that retains or raises.

`DurableBatches` (`durable_batches.py`, `durable_research.py`) extends the store
as well. `batches[b]` is the batch row with its members; the members' jobs are
rows of the store under derived keys (`ChildKey`). `Insert` is `_submit`'s
insert, with every member's job, member row and events, in one step. Research
clients are three steps: `PinSubmit` or `PinRetry` (read and retain), then
`Transact` or `GiveUp`. Workers and clients of single jobs go on meanwhile; they
never use a derived key. `answered` only remembers what was returned to whom.

### DAG

`DagRunner` (`dag_runner.py`, `checkpoint.py`): `disk` is the checkpoint file,
`files` the artifacts, `logs` the attempt logs, `pc`, `pos`, `dry`, `stopping`,
`outcome` the process. The runner replaces the file at the end of each
transition, so each action is one transition and the copy in memory is not kept
apart. `Crash` may come between any two actions, in particular after the executor
has run and before its logs are written (`Attempt`, `WriteLogs`), during a
backoff, or half way through caching; it also stands for an exception that leaves
`run()` or `resume()`. `Valid` is `_validate_checkpoint` for a file a runner of
this run wrote. `ChangeArtifact` and `ChangeLog` are everybody else in the
workspace. `executions`, `touched` and `touchedLive` only remember. The event
list is left out: nothing branches on it but a contiguity test that holds of
every file a runner wrote.

`Topology` is `deterministic_topology`, one pop of its heap a step, on needs
lists as a file has them: repeated, cyclic, or naming no step. `DagSchema` adds
the declarations of artifacts and which files `validate_pipeline_spec` refuses.
`RunnerMayAssume` is the assumption `DagRunner` makes of its constants.

### Forward accounts

`ForwardAccount` promises an append-only record of sessions whose every replay
repeats the returns already recorded, and one evaluation over the whole interval.
`ForwardLedger` is `research_paper.py` statement by statement where it writes:
the registry commits each call by itself and `account.json`, `latest.json`,
`evaluation.json` follow; observations recover the attempts of dead writers; a
bundle is read several times and may be rewritten in between (`Rewrite`), a
finished attempt may be damaged on disk (`Damage`). `Inspectable` is what
`inspect_account`'s checks amount to. `ForwardDaily` puts `run()` around
`observe` with its gates before and inside the lock, the reuse check, the
verification afterwards and the receipt; `config` is the operator's approval
together with the recipe it pins.

### ETF

`EtfOperations` is `execute()` as tick and as recovery, with worker processes
that outlive their controller and show themselves by a launcher's marker and one
of their own; `recover_plan` is `Preview`, whose binding is checked when it is
executed. One controller process suffices: `execute()` takes both locks before
anything else, so two are never at work together, and one may die and start again
any number of times. `EtfEvidence` holds `classify` and `acceptance` as functions
next to reference definitions. `EtfDaily` is the operation of `etf_daily.py`,
where several processes do overtake each other: each reads the clock and the
profile before it takes the lock.

### The others

`Registration`: `commit` file by file, with what a confirmation finds of an
earlier one; the plan stands for the account, which is named by its digest.
`ResearchConsole`: callers, worker thread, child, and the server that is closed,
killed and started again; a file edited by hand may raise `ValueError` or
`YAMLError`, which the thread does not survive. `SelectedPath`:
`replay_selected_path` for concurrent callers. `Isolation`: host, docker client
with its draining threads, daemon, payload and collector as five actors.
`DailyRun`: `run_daily` from its lock file to its notification, its producer a
process of its own. It has theorems only and no run.

## 3. Runs

| run | distinct states | what it shows |
|---|---|---|
| durable_worker | 394,000 | rows and journal stay consistent (`StoreInvariant`, `JournalTellsAll`); nothing is completed over a running process; every decision was earned; every job is decided |
| durable_batches | 241,000 | batches are whole, immutable, of settled lineage; inputs are pinned before anyone is answered; every job follows `JobLifecycle` |
| dag_runner | 383,000 | the checkpoint is true, tampering is caught, interruptions are resumable, decisions hold and runs end |
| dag_schema | 720,000 | what is accepted can be run; the order is the least one |
| forward_ledger | 996,000 | `ForwardAccount` is implemented; account, registry and files agree after any crash; fills were ordered in time |
| forward_daily | 488,000 | no session is filled in afterwards, what is committed was gated on the inputs it was computed from, receipts are true |
| etf_operations | 122,000 | records tell what happened, orphans keep others out, what was interrupted can be recovered, by exactly what was previewed |
| etf_daily | 2,570,000 | no slot fetches twice, failures and completions are told, no tick follows a blocked one by itself or takes up a dead execution |
| registration | 218,000 | what is registered was previewed, once; evidence is never erased; what is registered is published in the end |
| research_console | 360,000 | a study runs its registered recipe, nothing runs unasked or twice, the queue is served |
| selected_path | 166,000 | every answer is the same genuine evidence; finished work stands |
| isolation | 339,000 | the saved result is true, the archive one snapshot, and every run ends |

Bounds, and why they let the hard cases happen:

* durable_worker: one job with two attempts and two workers that can both reach
  it; a second job adds nothing to the races over one attempt. `Lease = 1` tick:
  a lease is granted, current, due and overdue. Setbacks of the clock are in
  durable_batches (`MaxSkew = 1`) and in the theorems. The clock itself is
  unbounded: leases are kept relative and truncated below the point from which no
  setback can revive them. `MaxNotes = 1` bounds evidence events per attempt, the
  only unbounded thing an owner can do.
* durable_batches: two keys and two candidates give a batch, its retry, the same
  key with another document, and a retry of part of a batch; `MaxCalls` bounds
  the research clients under way, the constraint `FewJobs` the jobs to three.
* dag_runner: a gate, a producer whose output is optional, and its consumer; two
  contents per artifact, one change from outside, which can fall between any two
  actions. Retry policies allow two attempts, also for the gate, whose second one
  the code must refuse.
* dag_schema: three steps with nine lists of needs each, cyclic, repeated and
  unknown ones included, and one artifact which any of them may read, write and
  claim under two paths, one reserved.
* forward_ledger: two processes, a registered interval of two sessions around a
  holiday, two recipes, three attempts, one bundle rewritten, one attempt
  damaged. forward_daily: one registered session and the one after it, two runs.
* etf_operations: one session of two slots, two operations, one switch of the
  deployment; acceptance is compared with its definition over every history of up
  to four receipts when the instance is loaded (`AcceptanceChecked`).
  etf_daily: two evenings of two slots, three profiles of which one has no
  account, two processes, two operations, with and without a schedule.
* registration: two previews, one edit, one fault, a clock on which a preview
  expires and a session closes. research_console: two callers, two studies, two
  versions of a recipe, one edit by hand, two submissions, two stops.
* selected_path: two complete requests and an incomplete one, three attempt
  directories, two edits. isolation: the command and one process it leaves
  behind, output one piece beyond the limit, two files, one interrupt.

`CHECK_DEADLOCK FALSE` is given where the system may stop: the DAG runner and the
schema (a run or a validation is over), and the instances whose days, calls or
operations run out.

Fairness. Safety is checked without any. In durable_worker a worker that is up
goes on (`MainStep`, `SetFlag`, `Take`: threads are scheduled and the main thread
polls every 250 ms), one that died is restarted (the service manager of
`docs/durable-research.md`), and time passes; not assumed is that heartbeats are
sent, that a handler ever ends, that anybody cancels, that crashes or errors
cease. In dag_runner a process that is up goes on; nobody has to start one. In
research_console the worker thread and the child go on. In isolation the host
goes on, because each of its calls has a timeout, and the draining threads read
until their streams end; the daemon, the payload and the collector owe nothing.
In registration a confirmation goes on, and its author keeps confirming a preview
for as long as he can: strong fairness, because another confirmation's lock
disables the call again and again.

## 4. What is proved

For every value of the constants that satisfies the named assumptions.

| theorem | module | states |
|---|---|---|
| StoreHolds | DurableJobsProofs | `StoreInvariant` of the store |
| Fencing, DecisionsStand | DurableJobsProofs | `OneOwner`; `TerminalIsFinal` |
| JournalStaysTrue, HistoryStands | DurableJobsProofs | `JournalTellsAll`; `HistoryIsAppendOnly` |
| LifecycleRefinement | DurableJobsProofs | `EveryJobFollowsLifecycle`: each job implements JobLifecycle |
| WorkersFollowStore | DurableClientsProofs | the composition implements the store |
| StoreHoldsUnderWorkers | DurableClientsProofs | `StoreInvariant` under any number of workers |
| JournalTellsOfWorkers | DurableClientsProofs | `JournalTellsAll` under any number of workers |
| StoppedBeforeCommit, EarnedDecisions | DurableClientsProofs | `AcknowledgedMeansStopped`; `DecisionsAreEarned` |
| BatchesHold, PinsComeFirst | DurableClientsProofs | `BatchInvariant`, `PinnedBeforeVisible` |
| BatchHistoryStands | DurableClientsProofs | `BatchesStand` |
| LifecycleUnderBatches, StoreHoldsUnderBatches | DurableClientsProofs | `EveryJobFollowsLifecycle`, `StoreInvariant` under batches |
| CheckpointHolds, TamperingIsCaught | RecoveryProofs | `CheckpointIsTrue`, `TamperIsCaught` |
| InterruptedRunsResume | RecoveryProofs | `InterruptionIsResumable` |
| DecisionsAreFinal, FailFastHolds | RecoveryProofs | `DecisionsStand`, `FailFastStops` |
| RegistrationStaysSound, EvidenceAlwaysStands | RecoveryProofs | `RegistrationIsSound`; `EvidenceStands` |
| OrderHolds, OrderIsLeast | RunFrameProofs | `OrderIsSound`; `LeastOrder` |
| AcceptedFilesRun | RunFrameProofs | `RunnerMayAssume` |
| PointerIsOfTheRun, SilenceMeansCompleted, CompletedRunsDecided | RunFrameProofs | what the pointer and the notification of a daily run say |
| ResultsAreTrue, ArchivesAreOneSnapshot | RunFrameProofs | `ResultIsTrue`; `OutputsAreOneSnapshot` |
| AccountStaysSound, FillsStayOrdered | ForwardDailyProofs | `AccountIsSound`; `FillsWereOrdered` |
| LedgerImplementsAccount, LedgerOnlyMovesForward | ForwardDailyProofs | `AccountOnlyGrows`: the ledger implements ForwardAccount; `LedgerMovesForward` |
| RunsKeepTheAccountSound | ForwardDailyProofs | `AccountIsSound` under the daily operation |
| NothingIsBackfilled, CommitsAreOnTheirInputs, RunsStayTold | ForwardDailyProofs | `NoBackfill`; `CommittedOnItsInputs`; `RunsAreTold` |
| RecordsTellTheTruth, OrphansStayAlone | EtfOperationsProofs | `RecordsAreTrue`; `OrphansKeepOut` |
| TheInterruptedGoesOn, RecoveriesStayFaithful | EtfOperationsProofs | `InterruptedIsRecoverable`; `RecoveriesAreFaithful` |
| PersistentFaultsStop | EtfOperationsProofs | classify() calls nothing temporary that is not |
| NoSlotFetchesTwice, TheOperatorIsTold, TheTimerStops | EtfDailyProofs | `SlotsFetchOnce`; `OperatorIsTold`; `OnlyByHand` |
| WorkIsNeverLost, AnswersAgree | ResearchProofs | `WorkStands`; `OneAnswer`, for at most two edits |
| OneExecutionAtATime, OutputIsWhole | ResearchProofs | `OneExecution`, `PublishedIsWhole` |
| StudiesStayRegistered, NothingEverRunsUnasked | ResearchProofs | `StudiesAreRegistered`; `NothingRunsUnasked` |

The arguments.

*Store.* `IInv` is `TypeOK`, `LeaseBounds` and, for each job, `JobOK` of its row
and its attempt rows. None of the properties is inductive by itself: that a claim
keeps a single owner needs that rows beyond the current token are unused, so that
the row a claim opens is free; that a result is the newest completion's needs the
same; the budget needs that a queued row has an attempt left. `LeaseBounds` is
what makes the truncated clock well typed. `JobOK` speaks of one job's rows as
values, not of the tables, so each lemma is about one job before and after an
operation, and a claim, which touches every job, is handled by
`ExpireKeepsJobOK` for all of them followed by `OpenKeepsJobOK` for the one it
takes. The refinement splits the same way: each operation is, for each job, a
step of the lifecycle or a stutter.

*Journal.* `JInv` is `IInv` and `JournalsOK`. What a journal tells is defined
without a fold over it: the newest row that moves the job, whether a cancellation
came after it, and which rows speak of an attempt (`Tells`). So each operation
needs to say only what its own row adds, one lemma on values per row
(`SubmissionIsTold` to `EndIsTold`), and a claim is again an `ExpireIsTold` for all
jobs followed by `ClaimIsTold` for the one it takes. That nothing is told of an
attempt after its end needs that an attempt which runs has no such row yet
(`RunningIsOpen`), which only the agreement of rows and journal gives.

*Workers.* `WInv` adds what a busy worker holds: an attempt that was opened and
was not completed (`Attached`); at each program counter what it knows of its
child (`ChildKnown`); no two workers hold the same attempt (`Distinct`); attempts
not opened have no process (`Unopened`). Without `Distinct` another worker's child
could be what a completion is about. `RowsAge` collects what every store operation
but a completion does to attempt rows, so the cases in which somebody else moves
need one lemma. `EarnedInv` adds what the flags and the outcome in a worker's
memory imply of the store and the artifacts (`Knows`), and that these facts only
grow (`Grows`): a flag read long ago is still true when it is acted upon.

*Batches.* `BInv` is the store's `IInv`, the types, `NoHalfBatch`,
`LineageIsSettled` and `PinsAreAhead`: what a call of a research client will need
is pinned from its first step on, for the document of the submission or the
members it read for a retry. A batch transaction moves many jobs, each as a
submission or a cancellation of the store would (`Moved`), so `MoveKeepsRow`
keeps the store's invariant and `MoveIsLifeStep` gives the refinement. What
everybody else does leaves the batch tables alone and changes no request of a job
that is there (`Quiet`), and a job that is over stays as it is.

*DAG runner.* `RInv` pairs what has to agree: the process and the rows
(`ProcessOK`: a step is running exactly while its attempt is under way, or after a
crash inside it), the failures and the flag (`StoppingOK`), executions and
attempts (`Counted`), a row and the graph (`RecordOK`: inputs are recorded all at
once, after the needs were met), consumers and producers (`LinksOK`), records and
files (`MatchOK`, with `Seen`: how far a resume has come) and attempts and logs
(`LogsOK`). `TamperIsCaught` is not inductive: a refused or killed resume has
looked at part of the outputs, and what a producer records must be what its
consumers find. An execution overwrites its outputs; that nobody has recorded
them follows from `RecordOK`, since a consumer would have needed a successful
producer, and from outputs having one producer (`ArtifactAssumption`, which
`AcceptedFilesRun` establishes for validated files, and `OrderHolds` the
topology's part of `GraphAssumption`). `RowBecomes` says what a transition does to
the one row it changes; `OtherRow`, `SameHashes` and `RowMoves` then leave one
lemma per action. `OneRowAtATime` is what the two action properties follow from.

*Registration.* `RegInv` says what the accounts are at any moment of a promotion
that may die in it (`AccountsOK`) and what the confirmation that holds the lock
knows of its own (`CallsOK`). At most one of a stage and a target is there, and
what is there was shown by a preview that was valid then. Each attempt in the
receipt accounts for at most one directory, failed, staged or published, whoever
was killed in between; a completed receipt has its target.

*Schema.* `LoopInv` says of the loop over the heap that a step's in-degree counts
its needs not popped yet and that the heap holds exactly the steps with none. It
counts places of a needs list, not steps, because a list may repeat an id. That
an empty result means a cycle is stated without induction: what is left over waits
for what is left over. `LeastAtEachPop` adds that no step which was free at an
earlier pop is smaller than the one popped then; that the heap holds every free
step, which `LoopInv` has, is what keeps it.

*Daily run.* `DailyInv`: only the newest run can still be under way, and nothing
publishes for it once its producer has ended.

*Isolation.* `IsoInv` follows five actors along the host's path (`PathOK`). Two
facts carry it: until its `finally` block the host has left no request with the
daemon that could act later, and what the collector saw stopped was all there was
to fork, so that the archive cannot change under it. `StreamsOK` says that the
draining threads read no more than was printed, and that a stream counts as over
its bound just when more than the bound was read.

*Forward ledger.* `LInv`: the rows of the registry, what each observation knows at
each of its steps (`OpOK`), that the lock's holder is the only one that observes
(`HeldByOne`), and how bundles age (`BundlesAge`): each capture has a manifest of
its own and its rows only get newer (`Newer`). That is what a value read between
two equal reads is squeezed by. The refinement of ForwardAccount is step by step: the
commit of an observation and the seal are steps of it, all else stutters.
*Forward daily.* `DInv` adds that a run is inside `observe` just while the ledger
says so (`Together`), what it knows at the commit once its last gate is passed
(`GatedOK`), that its receipt tells of commits that are there (`ReceiptOK`), and of
every completed observation that it was made in its session's own evening on the
inputs it names (`ResultsOK`). `NoBackfill` needs a session before
the registered interval (`RegisteredAssumption`), which preregistration requires.

*ETF operations.* `EInv` ties each worker to its operation and its markers
(`WorkersOK`), the controller to both of its locks (`HeldByTheBusy`, `ControlOK`),
and each record to what happened (`RecordsOK`). A window that has passed stays so
(`WindowsPass`): a decision about a slot taken by an earlier clock reading holds
when it is acted on. `OrphansKeepOut` is not inductive:
a worker writes its own marker only after the launcher's, a worker marked by its
launcher is of the newest operation and the only one of it, and an orphan beside a
controller is one that no launcher marked and nobody will ask.

*ETF daily.* Records are made in the order of the lock and sorted in the order of
the clock readings that were taken before it. `ReadingsOK` gives each record a
reading; in the order of their ranks readings only grow, and so do the slots of a
day. `SlotsFetchOnce` follows: the newest record of the day, which a command looks
at, has the greatest slot of them, though it need not be the last one made.
`ConflictsStop` and the two notification properties compare the orders the same
way. `HolderOK` says that the lock's holder works on the last record made, which
has no outcome yet, and under a tick never over an execution that began before.

*Selected path.* `PathInv` says what an attempt holds at each step of its call.
`WorkIsNeverLost` needs besides that a call which is about to archive knows that
nothing at the output is cached (`ArchiveKnows`). `OneAnswer` holds while at most
two of the files, their metrics and their hashes are replaced: three replacements
that agree, with a digest computed anew, are a forged directory which no check of
`_load_selected` could tell. So `AnswersAgree` has the hypothesis `MaxEdits <= 2`,
and `AnswerInv` counts: of a directory's artifact, metrics and hashes at most as
many are replaced as there were edits, and the checks of the code refuse one in
which one or two of them are.

*Console.* `ConsoleInv` ties the row that is running to the thread (`ThreadOK`),
the thread to the one process it waits for, and a process to the recipe its job
was registered with (`ProcessesOK`); and it says that what the holder of the
mutation lock has seen is still so (`RequestsOK`). A process of the server that
lives is its own only while the thread waits for it, so a close that joined the
thread has left none.

## 5. What is only model-checked

Every invariant and action property that a run checks is a theorem, except:

* Liveness (`EveryJobIsDecided`, `RunsEnd`, `RegisteredIsPublished`,
  `QueueIsServed`, `RunEnds`): it needs fairness and ENABLED, which the prover
  does not reason about. `DecisionsHold` of the DAG runner is proved but for its
  `RunsEnd`.
* That acceptance and its definition agree (`AcceptanceChecked`): a definition by
  recursion over its input.

## 6. Reading the properties

A property's comment says what it means and of which code. Mutants of a
definition, named after what they break, stand directly before it; each is a
plausible slip in the code that the property next to it in `PROJECT.json` must
detect. They are not part of any specification. Variables and record fields
called history in a comment only remember; no guard reads them.

## 7. Where code and documents disagree

Met while modelling, each with a behaviour that shows it. The runs check what the
code does guarantee, so none of these is a property of section 3.

* *Checkpoint replaced before it is fully validated.* README.md:147-150 says that
  a resume verifies "every immutable output hash" also "before any resume event
  or replacement checkpoint is written". `_cache_completed_steps`
  (`dag_runner.py:664-672`) verifies one completed step, appends `step_cached`
  and replaces the checkpoint before it looks at the next. It does no harm:
  a refused resume can be repeated, and no decision is lost (`DecisionsAreFinal`).
* *The accepted past.* `observe` compares the input prefix before the attempt
  starts (`research_paper.py:556`) and records the prefix it reads after the
  execution (`:617`): a bundle changed in place in between becomes the accepted
  past, while `docs/research-workbench-v2.md:81` accepts only snapshots whose old
  prefix is unchanged. The daily entry's second gate closes the gap, which is
  `CommittedOnItsInputs`.
* *A completion told twice.* `docs/etf-daily.md:37-38`: "Completed observation
  notifications occur once per date". Without a schedule a manual observe is
  admitted again after the day is complete; if it stops or fails, the next one
  completes the same date and is notified again (`etf_daily.py:535-542`).
* *A study that outlives its server.* `docs/research-workbench-v2.md:16` says that
  closing stops the processes the service started. `close()` looks at
  `self.process` once (`research_web.py:402`); a job claimed before and started
  after that look survives the join.
* *A request that cannot be resumed.* The frozen request is created and filled
  afterwards (`research_web.py:356-357`). A server that dies in between leaves a
  torn file, with which every later run fails as changed, although the row says
  "Server restarted; resume explicitly".
* *A failure that does not block.* `docs/DAILY_RESEARCH.md:31-32`: "Failure
  refreshes the latest decision to blocked". `_input_request` raises before the
  pointer is looked at (`daily.py:60-77`), and the handler only records the
  operation: latest.json keeps the older decision. What holds is
  `SilenceMeansCompleted`: the failed run is told of.
* *Cancelled without a verified cleanup.* `isolation.py:317-318`: "No result with
  unverified cleanup can be succeeded/cancelled." A KeyboardInterrupt during the
  preflight or the staging is recorded as cancelled with `cleanup_verified` still
  None; nothing was created by then.
* *A dependency by path.* README.md:101-102: undeclared artifact dependencies are
  rejected. An artifact without a producer may be declared at the path of another
  step's output (`dag_schema.py:391-403`, `:438-444`); its reader is then ordered
  by ids only.

* *A blocked tick that was overtaken.* `docs/etf-daily.md` has only transport errors
  and a missing final bar retried automatically, and every other failure stop the
  operation. A tick that is overtaken between its clock reading and its lock is
  sorted behind the command that overtook it (`etf_daily.py:130-134` sorts by
  `started_at`); when it is blocked, the next tick looks at the other record and
  goes on by itself. It takes four commands, more than the run has (`MaxOps = 2`);
  `ConflictsStop` excepts it, as `Overtaken`.

Without a statement in the repository that it contradicts: a run whose completed
step left an optional output out can never be resumed (`dag_runner.py:657`), which
`InterruptionIsResumable` names as its exception; and a real process that resumes
a dry run takes its `dry_run` steps for done (`dag_runner.py:458`).

## 8. Not modelled, or only in part

* Legacy runner (`runner.py`, `schema.py`): one loop in one process that keeps
  nothing.
* Research computation, rendering and hashing of code: values the models take as
  given.
* DAG runner: two processes of one run at once (nothing locks them out), the
  parsing of the checkpoint, the event list. Batches: cursor pagination, the pin
  of a single submission, field validation. DAG schema: checks of single fields.
  Console: reading, notes, the HTTP handler. Continuous validation: folds and
  selection. Isolation: the policy, the tree walk and the archive checks only by
  whether they refuse.
* An artifact guard that hangs: the model's fairness assumes that it returns or
  raises, the code does not bound it (`durable_worker.py:179`).

## 9. Plan

Every part with a state of its own has its model and, but for the daily run, its
run; every safety property of a run has its theorem, but for what section 5 names.
What a next step would take up: two processes of one DAG run at once, and the pin
of a single research submission.

## 10. Running the checks

```
tlc -workers 2 -config MCDagRunner.cfg MCDagRunner.tla
tlapm RecoveryProofs.tla
```

and likewise for the pairs listed under "runs" in `PROJECT.json` and for every
`*Proofs` module.
