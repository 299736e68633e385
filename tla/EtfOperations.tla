--------------------------- MODULE EtfOperations ---------------------------
(***************************************************************************)
(* The operations controller src/quant_pipeline/etf_operations.py around   *)
(* the frozen worker process etf_frozen_worker.py: evening windows, one    *)
(* operation.json per attempt, recovery from a preview, natural credit.    *)
(*                                                                         *)
(* execute() holds the maintenance admission and the study lock, which the *)
(* system frees when the controller dies; its worker process then goes on  *)
(* by itself.  A worker shows by two markers that it is at work: one of    *)
(* its launcher, and its own.  Markers of dead processes do not count, but *)
(* the worker's own is no atomic write: a kill may leave one that makes    *)
(* workers_running raise for good.  The account is outside these locks: a  *)
(* forward_daily run started elsewhere may observe at any time.            *)
(* A refused call writes nothing: a stuttering step.                       *)
(***************************************************************************)
EXTENDS Naturals, Sequences, FiniteSets, FiniteSetsExt, TLC

CONSTANTS
    Procs,          \* controllers
    Nobody,
    Days,           \* 1 .. n
    Sessions,       \* the exchange sessions among them
    Slots,          \* evening slots of a day
    MaxAge,         \* how long a preview is good for, in clock steps
    MaxOps,         \* bound: operations ever started
    MaxSwitches     \* bound: changes of execution_enabled and of health

ASSUME EtfAssumption ==
    /\ Nobody \notin Procs
    /\ IsFiniteSet(Days) /\ Days = 1 .. Cardinality(Days)
    /\ Sessions \subseteq Days
    /\ Slots \in Nat \ {0} /\ MaxAge \in Nat
    /\ MaxOps \in Nat /\ MaxSwitches \in Nat

VARIABLES
    clock,
    enabled, switches,
    health,     \* what the account and the staged files answer when verified
    native,     \* the account's newest attempt for each day
    observer,   \* the newest operation when it was observed: for properties
    elsewhere,  \* the day another run of forward_daily holds the account for
    data,       \* days a snapshot has been published for
    ops,        \* the operation.json files, by sequence
    originals,  \* interrupted-original files
    lock,       \* admission_lock and study_lock, always taken together
    ctl,        \* what each controller is doing
    workers,    \* the worker processes that are alive
    torn,       \* a worker died while it wrote its own marker
    plan        \* the newest recovery preview

world == <<clock, enabled, switches>>
account == <<health, native, observer, elsewhere, data>>
files == <<ops, originals, plan, torn>>
vars == <<world, account, files, lock, ctl, workers>>
-----------------------------------------------------------------------------
(* The day: before the close, then each slot open and, its time budget     *)
(* over, closed.  etf_schedule.window.                                     *)

Day(t) == t \div (2 * Slots + 1)
Position(t) == t % (2 * Slots + 1)
Started(t) == (Position(t) + 1) \div 2      \* slots begun; slot is one less
LastSlot(t) == Started(t) = Slots

Window(t) ==
    CASE Day(t) \notin Sessions -> "market_closed"
      [] Day(t) \in Sessions /\ Position(t) = 0 -> "not_due"
      [] Day(t) \in Sessions /\ Position(t) % 2 = 1 -> "ready"
      [] Day(t) \in Sessions /\ Position(t) > 0 /\ Position(t) % 2 = 0 ->
            IF LastSlot(t) THEN "collection_exhausted" ELSE "waiting_for_slot"

\* The latest closed session, 0 before the first.
Expected ==
    Max({0} \cup {s \in Sessions : s < Day(clock)}
            \cup (IF Position(clock) = 0 THEN {} ELSE Sessions \cap {Day(clock)}))

\* What a frozen worker insists on before it does anything.
OnlyToday(d) == d = Expected /\ d = Day(clock)
-----------------------------------------------------------------------------
Retryable == {"collection_retryable"}
Today == {i \in DOMAIN ops : ops[i].day = Day(clock)}
Latest == Max({0} \cup Today)
LatestIs(states) == Latest # 0 /\ ops[Latest].state \in states

\* workers_running, over the processes that live.
\* Mutant of WorkersRunning: the worker's own marker is enough.
WorkersMarked == \E w \in workers : w.own
WorkersRunning ==
    \E w \in workers : w.pc # "exited" /\ (w.launcher \/ w.own)

NoPlan == [op |-> 0]
Idle == [pc |-> "idle"]
At(p, where) == ctl[p].pc = where

\* binding: what a preview was made of.
Binding ==
    [latest |-> IF ops = <<>> THEN NoPlan ELSE ops[Len(ops)],
     enabled |-> enabled, account |-> native, data |-> data,
     expected |-> Expected]

\* The account's writer, and forward_daily.assess of a staged configuration.
\* health "broken" is what verification finds before anything else, "closed"
\* (paused, sealed, data missing) what it finds after a covering observation.
Healths == {"sound", "closed", "broken"}
Held(d) == elsewhere = d \/ \E w \in workers : w.pc = "native" /\ w.day = d
AccountFree == elsewhere = 0 /\ \A w \in workers : w.pc # "native"

Assessed(d) ==
    IF ~OnlyToday(d) \/ health = "broken" THEN "blocked"
    ELSE IF native[d] = "completed" THEN "completed"
    ELSE IF health = "closed" \/ Held(d) THEN "blocked" ELSE "allowed"

\* recover_plan: what is asked of the operation's row, then of its account.
Recoverable(row, lockOwned) ==
    /\ row.day = Expected /\ enabled
    /\ ~torn /\ ~WorkersRunning
    /\ LatestIs({"running"}) /\ ~lockOwned => lock = Nobody

Staged(row) ==
    CASE Assessed(row.day) = "completed" -> "reconcile"
      [] Assessed(row.day) = "allowed" -> "resume"
      [] Assessed(row.day) = "blocked" -> "none"

\* Mutant of ActionFor: an unfinished collection is not thought of.
ActionForEnded(row) ==
    IF row.forward THEN Staged(row)
    ELSE IF row.state \in Retryable THEN "retry" ELSE "none"
ActionFor(row) ==
    IF row.forward THEN Staged(row)
    ELSE IF row.state \in Retryable \cup {"running"} THEN "retry" ELSE "none"

RecoveryAction(i, lockOwned) ==
    IF Recoverable(ops[i], lockOwned) THEN ActionFor(ops[i]) ELSE "none"
-----------------------------------------------------------------------------
Init ==
    /\ clock = 2 * Slots + 1
    /\ enabled = TRUE /\ switches = 0
    /\ health = "sound" /\ elsewhere = 0
    /\ native = [d \in Days |-> "none"]
    /\ observer = [d \in Days |-> 0] /\ data = {}
    /\ ops = <<>> /\ originals = {} /\ plan = NoPlan /\ torn = FALSE
    /\ lock = Nobody /\ ctl = [p \in Procs |-> Idle]
    /\ workers = {}

\* recover_plan for an operator: its row and binding are read, and then the
\* account is assessed; the operator keeps an answer that offers something.
\* Bound: nobody previews once MaxOps operations have begun.
LookUp(i) ==
    /\ Len(ops) < MaxOps
    /\ Recoverable(ops[i], FALSE)
    /\ plan' = [op |-> i, row |-> ops[i], action |-> "pending", at |-> 0,
                binding |-> Binding]
    /\ UNCHANGED <<world, account, ops, originals, torn, lock, ctl, workers>>

Answer ==
    /\ plan # NoPlan /\ plan.action = "pending"
    /\ ActionFor(plan.row) # "none"
    /\ plan' = [plan EXCEPT !.action = ActionFor(plan.row), !.at = clock]
    /\ UNCHANGED <<world, account, ops, originals, torn, lock, ctl, workers>>
-----------------------------------------------------------------------------
(* execute, up to the first operation.json.  status() and the clock are    *)
(* read once under the locks; the record is made of that reading.          *)

SlotIsNew(i, slot) == ops[i].slot < slot
MayFollow(i) == ops[i].state \in Retryable

Admit(p, trigger, shown) ==
    /\ At(p, "idle") /\ lock = Nobody
    /\ enabled /\ ~torn /\ ~WorkersRunning
    /\ Len(ops) < MaxOps
    /\ lock' = p
    /\ ctl' = [ctl EXCEPT ![p] =
          [pc |-> IF shown = NoPlan THEN "judged" ELSE "admitted",
           trigger |-> trigger, shown |-> shown, previous |-> Latest,
           due |-> Window(clock) = "ready", day |-> Expected,
           slot |-> Started(clock), last |-> LastSlot(clock)]]
    /\ UNCHANGED <<world, account, files, workers>>

Tick(p, trigger) ==
    /\ Window(clock) = "ready"
    /\ Latest # 0 => MayFollow(Latest) /\ SlotIsNew(Latest, Started(clock))
    /\ Admit(p, trigger, NoPlan)

\* Mutant of StillStands: the preview is taken at its word.
StandsUnchecked(shown) ==
    /\ shown # NoPlan /\ shown.action # "pending"
    /\ clock <= shown.at + MaxAge
StillStands(shown) ==
    /\ shown # NoPlan /\ shown.action # "pending"
    /\ clock <= shown.at + MaxAge
    /\ shown.binding = Binding

Recover(p, trigger) ==
    /\ StillStands(plan)
    /\ Admit(p, trigger, plan)

\* The plan is made again, with a worker process that assesses the account.
Agrees(p) ==
    LET shown == ctl[p].shown IN
    /\ RecoveryAction(shown.op, TRUE) = shown.action
    /\ shown.op = ctl[p].previous
    /\ shown.action # "reconcile" => ctl[p].due
    /\ shown.action = "retry" => SlotIsNew(shown.op, ctl[p].slot)

Replan(p) ==
    /\ At(p, "admitted")
    /\ \/ Agrees(p) /\ ctl' = [ctl EXCEPT ![p].pc = "judged"] /\ UNCHANGED lock
       \/ ~Agrees(p) /\ ctl' = [ctl EXCEPT ![p] = Idle] /\ lock' = Nobody
    /\ UNCHANGED <<world, account, files, workers>>

ActionOf(p) == IF ctl[p].shown = NoPlan THEN "tick" ELSE ctl[p].shown.action

\* The record of the attempt that was read at admission, not of now.
Unfinished(p) ==
    ctl[p].shown # NoPlan /\ ops[ctl[p].previous].state = "running"

Start(p) ==
    /\ At(p, "judged")
    /\ ops' = Append(ops,
          [day |-> ctl[p].day, slot |-> ctl[p].slot, state |-> "running",
           trigger |-> ctl[p].trigger, action |-> ActionOf(p),
           forward |-> FALSE, credit |-> FALSE,
           previous |-> ctl[p].previous, resolved |-> 0])
    /\ ctl' = [ctl EXCEPT ![p] =
          [pc |-> IF Unfinished(p) THEN "keep" ELSE "launch",
           op |-> Len(ops) + 1, last |-> ctl[p].last,
           task |-> IF ActionOf(p) \in {"resume", "reconcile"}
                    THEN "execute" ELSE "collect"]]
    /\ UNCHANGED <<world, account, originals, plan, torn, lock, workers>>

\* The unfinished record is kept as it was, and then resolved.
Previous(p) == ops[ctl[p].op].previous

KeepOriginal(p) ==
    /\ At(p, "keep")
    /\ originals' = originals \cup {[op |-> Previous(p),
                                     state |-> ops[Previous(p)].state]}
    /\ ctl' = [ctl EXCEPT ![p].pc = "resolve"]
    /\ UNCHANGED <<world, account, ops, plan, torn, lock, workers>>

Resolve(p) ==
    /\ At(p, "resolve")
    /\ ops' = [ops EXCEPT ![Previous(p)].state = "interrupted",
                          ![Previous(p)].resolved = ctl[p].op]
    /\ ctl' = [ctl EXCEPT ![p].pc = "launch"]
    /\ UNCHANGED <<world, account, originals, plan, torn, lock, workers>>
-----------------------------------------------------------------------------
(* worker and invoke: a process is started, marked, and only then asked.   *)

Spawn(p) ==
    /\ At(p, "launch")
    /\ ops' = [ops EXCEPT ![ctl[p].op].forward =
                  @ \/ ctl[p].task = "execute"]
    /\ workers' = workers \cup
          {[op |-> ctl[p].op, task |-> ctl[p].task,
            day |-> ops[ctl[p].op].day, owner |-> p, pc |-> "started",
            launcher |-> FALSE, own |-> FALSE, slipped |-> FALSE,
            fresh |-> FALSE, result |-> "none"]}
    /\ ctl' = [ctl EXCEPT ![p].pc = "spawned"]
    /\ UNCHANGED <<world, account, originals, plan, torn, lock>>

Child(p) == CHOOSE w \in workers : w.owner = p
Becomes(w, v) == workers' = (workers \ {w}) \cup {v}

SaveMarker(p) ==
    /\ At(p, "spawned")
    /\ Becomes(Child(p), [Child(p) EXCEPT !.launcher = TRUE])
    /\ ctl' = [ctl EXCEPT ![p].pc = "marked"]
    /\ UNCHANGED <<world, account, files, lock>>

\* communicate: a process that died meanwhile takes nothing.
Send(p) ==
    /\ At(p, "marked")
    /\ Becomes(Child(p), [Child(p) EXCEPT
                  !.pc = IF @ = "started" THEN "requested" ELSE @])
    /\ ctl' = [ctl EXCEPT ![p].pc = "waiting"]
    /\ UNCHANGED <<world, account, files, lock>>

\* The last operation.json, then the locks.
Conclude(p, state, forward, credit) ==
    /\ ops' = [ops EXCEPT ![ctl[p].op] =
          [@ EXCEPT !.state = IF ctl[p].last /\ state \in Retryable
                              THEN "collection_exhausted" ELSE state,
                    !.forward = ops[ctl[p].op].forward \/ forward,
                    !.credit = credit]]
    /\ lock' = Nobody
    /\ ctl' = [ctl EXCEPT ![p] = Idle]

\* Mutant of Credit: a completed native state is proof enough.
CreditForCompletion(o, w) == o.trigger = "natural" /\ o.action = "tick"
Credit(o, w) == o.trigger = "natural" /\ o.action = "tick" /\ w.fresh

Follow(p, w) ==
    \/ /\ w.task = "collect" /\ w.result = "collected"
       /\ ctl' = [ctl EXCEPT ![p] = [@ EXCEPT !.pc = "launch",
                                              !.task = "prepare"]]
       /\ UNCHANGED <<ops, lock>>
    \/ /\ w.task = "prepare" /\ w.result = "ready"
       /\ ctl' = [ctl EXCEPT ![p] = [@ EXCEPT !.pc = "launch",
                                              !.task = "execute"]]
       /\ UNCHANGED <<ops, lock>>
    \/ /\ w.result \in {"temporary", "delay"}
       /\ Conclude(p, "collection_retryable", FALSE, FALSE)
    \/ /\ w.result = "unready"
       /\ Conclude(p, "blocked", TRUE, FALSE)
    \/ /\ w.result = "failed"
       /\ Conclude(p, "blocked", FALSE, FALSE)
    \/ /\ w.result = "completed"
       /\ Conclude(p, "completed", FALSE, Credit(ops[ctl[p].op], w))

Return(p) ==
    /\ At(p, "waiting") /\ Child(p).pc = "exited"
    /\ Follow(p, Child(p))
    /\ workers' = workers \ {Child(p)}
    /\ UNCHANGED <<world, account, originals, plan, torn>>

\* A process that is killed while it writes its own marker leaves it torn.
Killed(w) ==
    \/ UNCHANGED torn
    \/ w.pc \in {"requested", "finishing"} /\ torn' = TRUE

\* The time budget is over: the process is stopped before anything is said.
GiveUp(p) ==
    /\ At(p, "waiting") /\ Child(p).pc # "exited"
    /\ Killed(Child(p))
    /\ Conclude(p, IF ctl[p].task = "collect" THEN "collection_retryable"
                   ELSE "blocked", FALSE, FALSE)
    /\ workers' = workers \ {Child(p)}
    /\ UNCHANGED <<world, account, originals, plan>>

\* Killed anywhere, or interrupted where nobody is waited for.  A process that
\* was neither marked nor asked is nothing to anybody: it ends by itself.
Crash(p) ==
    /\ ~At(p, "idle")
    /\ ctl' = [ctl EXCEPT ![p] = Idle] /\ lock' = Nobody
    /\ workers' = {w \in workers : w.owner # p} \cup
          {[w EXCEPT !.owner = Nobody] : w \in {x \in workers :
              x.owner = p /\ x.pc # "exited" /\ x.launcher}}
    /\ UNCHANGED <<world, account, files>>

\* Ctrl-C while a worker is waited for: invoke's finally marks the launcher
\* finished although the worker lives, and the record stays as it is.
Interrupt(p) ==
    /\ ctl[p].pc \in {"marked", "waiting"}
    /\ ctl' = [ctl EXCEPT ![p] = Idle] /\ lock' = Nobody
    /\ workers' = {w \in workers : w.owner # p} \cup
          {[w EXCEPT !.owner = Nobody, !.launcher = FALSE,
                     !.slipped = (w.pc = "requested")] : w \in {x \in workers :
              x.owner = p /\ x.pc \notin {"started", "exited"}}}
    /\ UNCHANGED <<world, account, files>>
-----------------------------------------------------------------------------
(* The frozen worker.                                                      *)

Mark(w) ==
    /\ w.pc = "requested"
    /\ Becomes(w, [w EXCEPT !.own = TRUE, !.pc = "working"])
    /\ UNCHANGED <<world, account, files, lock, ctl>>

\* The answer is ready; the marker is written once more, and then it is told.
\* Nobody reads the answer of an orphan.
Finish(w, result) == Becomes(w, [w EXCEPT !.pc = "finishing", !.result = result])

Gone(w, result) ==
    workers' = (workers \ {w}) \cup
        IF w.owner = Nobody THEN {}
        ELSE {[w EXCEPT !.pc = "exited", !.own = FALSE, !.result = result]}

Exit(w) ==
    /\ w.pc = "finishing"
    /\ Gone(w, w.result)
    /\ UNCHANGED <<world, account, files, lock, ctl>>

\* Killed, or without a request because its launcher died.
Die(w) ==
    /\ w.pc # "exited"
    /\ Gone(w, "failed") /\ Killed(w)
    /\ UNCHANGED <<world, account, ops, originals, plan, lock, ctl>>

Collect(w) ==
    /\ w.pc = "working" /\ w.task = "collect"
    /\ \/ /\ OnlyToday(w.day)
          /\ data' = data \cup {w.day} /\ Finish(w, "collected")
       \/ /\ OnlyToday(w.day)
          /\ Finish(w, "temporary") /\ UNCHANGED data
       \/ Finish(w, "failed") /\ UNCHANGED data
    /\ UNCHANGED <<world, health, native, observer, elsewhere, files, lock, ctl>>

\* The staged configuration is only told of when it could be assessed.
Prepare(w) ==
    /\ w.pc = "working" /\ w.task = "prepare"
    /\ \/ /\ OnlyToday(w.day) /\ w.day \notin data
          /\ Finish(w, "delay")
       \/ /\ OnlyToday(w.day) /\ w.day \in data
          /\ \/ Assessed(w.day) = "completed"
             \/ Assessed(w.day) = "allowed" /\ native[w.day] = "none"
          /\ Finish(w, "ready")
       \/ /\ OnlyToday(w.day) /\ w.day \in data
          /\ Assessed(w.day) # "completed"
          /\ Assessed(w.day) = "allowed" => native[w.day] # "none"
          /\ Finish(w, "unready")
       \/ Finish(w, "failed")
    /\ UNCHANGED <<world, account, files, lock, ctl>>

\* forward_daily.run makes its plan before it asks for the account's lock.
\* plan_state is "ready" when nobody had tried the day by then.
Plan(w) ==
    /\ w.pc = "working" /\ w.task = "execute"
    /\ \/ /\ Assessed(w.day) = "allowed"
          /\ Becomes(w, [w EXCEPT !.pc = "planned",
                                  !.fresh = (native[w.day] = "none")])
       \/ /\ Assessed(w.day) = "completed"
          /\ Finish(w, "completed")
       \/ Finish(w, "failed")
    /\ UNCHANGED <<world, account, files, lock, ctl>>

\* observe, under the account's own lock: an attempt, or the observation that
\* somebody else has made since the plan, told as this run's.
NativeBegin(w) ==
    /\ w.pc = "planned" /\ AccountFree /\ health = "sound"
    /\ native[w.day] # "completed"
    /\ native' = [native EXCEPT ![w.day] = "running"]
    /\ Becomes(w, [w EXCEPT !.pc = "native"])
    /\ UNCHANGED <<world, health, observer, elsewhere, data, files, lock, ctl>>

NativeReuse(w) ==
    /\ w.pc = "planned" /\ AccountFree /\ health = "sound"
    /\ native[w.day] = "completed"
    /\ Finish(w, "completed")
    /\ UNCHANGED <<world, account, files, lock, ctl>>

NativeRefused(w) ==
    /\ w.pc = "planned"
    /\ Finish(w, "failed")
    /\ UNCHANGED <<world, account, files, lock, ctl>>

NativeCommit(w) ==
    /\ w.pc = "native"
    /\ native' = [native EXCEPT ![w.day] = "completed"]
    /\ observer' = [observer EXCEPT ![w.day] = Len(ops)]
    /\ Finish(w, "completed")
    /\ UNCHANGED <<world, health, elsewhere, data, files, lock, ctl>>

NativeFail(w) ==
    /\ w.pc = "native"
    /\ native' = [native EXCEPT ![w.day] = "failed"]
    /\ Finish(w, "failed")
    /\ UNCHANGED <<world, health, observer, elsewhere, data, files, lock, ctl>>
-----------------------------------------------------------------------------
(* status(), which writes nothing.                                         *)

\* next_attempt_at: another slot begins today, and the last attempt, if any,
\* may be repeated.
NextSlotAwaits ==
    /\ Day(clock) \in Sessions /\ Started(clock) < Slots
    /\ Latest # 0 => MayFollow(Latest)

Complete ==
    /\ LatestIs({"completed"}) /\ Expected = Day(clock)
    /\ native[Expected] = "completed" /\ Expected \in data

Ended == {"blocked", "collection_exhausted", "interrupted"}

StatusState ==
    CASE Day(clock) \notin Sessions -> "market_closed"
      [] Day(clock) \in Sessions /\ LatestIs({"running"}) ->
            IF torn THEN "raises" ELSE IF WorkersRunning \/ lock # Nobody THEN "running" ELSE "interrupted"
      [] Day(clock) \in Sessions /\ LatestIs(Ended) ->
            IF enabled THEN "needs_attention" ELSE "paused"
      [] Day(clock) \in Sessions /\ LatestIs(Retryable) ->
            IF ~enabled THEN "paused"
            ELSE IF NextSlotAwaits THEN "retry_wait" ELSE "needs_attention"
      [] Day(clock) \in Sessions /\ Latest = 0 ->
            IF ~enabled THEN "paused"
            ELSE IF Window(clock) = "collection_exhausted"
            THEN "needs_attention" ELSE "waiting"
      [] Day(clock) \in Sessions /\ LatestIs({"completed"}) ->
            IF Complete THEN "completed"
            ELSE IF enabled THEN "waiting" ELSE "paused"
-----------------------------------------------------------------------------
TickClock ==
    /\ Day(clock + 1) \in Days
    /\ clock' = clock + 1
    /\ UNCHANGED <<enabled, switches, account, files, lock, ctl, workers>>

Switch ==
    /\ switches < MaxSwitches
    /\ switches' = switches + 1 /\ enabled' = ~enabled
    /\ UNCHANGED <<clock, account, files, lock, ctl, workers>>

\* The account is sealed or paused, staged files change, or come back.
Disturb(h) ==
    /\ switches < MaxSwitches /\ h # health
    /\ switches' = switches + 1 /\ health' = h
    /\ UNCHANGED <<clock, enabled, native, observer, elsewhere, data, files,
                   lock, ctl, workers>>

\* A run of forward_daily that the controller knows nothing of.
ElsewhereBegin(d) ==
    /\ Assessed(d) = "allowed" /\ AccountFree
    /\ native' = [native EXCEPT ![d] = "running"] /\ elsewhere' = d
    /\ UNCHANGED <<world, health, observer, data, files, lock, ctl, workers>>

\* It commits, fails, or dies.
ElsewhereEnd ==
    /\ elsewhere # 0 /\ elsewhere' = 0
    /\ \/ /\ native' = [native EXCEPT ![elsewhere] = "completed"]
          /\ observer' = [observer EXCEPT ![elsewhere] = Len(ops)]
       \/ /\ native' = [native EXCEPT ![elsewhere] = "failed"]
          /\ UNCHANGED observer
       \/ UNCHANGED <<native, observer>>
    /\ UNCHANGED <<world, health, data, files, lock, ctl, workers>>

\* The scheduled task at its own time, or anything else.
Triggers == {"natural", "other"}

Controller(p) ==
    \/ Replan(p) \/ Start(p) \/ KeepOriginal(p) \/ Resolve(p)
    \/ Spawn(p) \/ SaveMarker(p) \/ Send(p) \/ Return(p) \/ GiveUp(p)

Worker(w) ==
    \/ Mark(w) \/ Exit(w) \/ Die(w)
    \/ Collect(w) \/ Prepare(w) \/ Plan(w)
    \/ NativeBegin(w) \/ NativeReuse(w) \/ NativeRefused(w)
    \/ NativeCommit(w) \/ NativeFail(w)

Next ==
    \/ TickClock \/ Switch \/ \E h \in Healths : Disturb(h)
    \/ ElsewhereEnd \/ \E d \in Days : ElsewhereBegin(d)
    \/ Answer \/ \E i \in DOMAIN ops : LookUp(i)
    \/ \E p \in Procs :
          \/ \E trigger \in Triggers : Tick(p, trigger) \/ Recover(p, trigger)
          \/ Controller(p) \/ Interrupt(p) \/ Crash(p)
    \/ \E w \in workers : Worker(w)

Spec == Init /\ [][Next]_vars
-----------------------------------------------------------------------------
OpStates == {"running", "collection_retryable", "collection_exhausted",
             "blocked", "completed", "interrupted"}
NativeStates == {"none", "running", "failed", "completed"}
Collecting(i) == ops[i].action \in {"tick", "retry"}
Asked(w) == w.pc \in {"requested", "working", "planned", "native", "finishing"}

\* Every variable holds a value of its kind.
TypeOK ==
    /\ clock \in Nat /\ enabled \in BOOLEAN /\ switches \in 0 .. MaxSwitches
    /\ health \in Healths /\ torn \in BOOLEAN /\ elsewhere \in {0} \cup Days
    /\ native \in [Days -> NativeStates] /\ observer \in [Days -> 0 .. MaxOps]
    /\ data \subseteq Days
    /\ \A i \in DOMAIN ops :
          /\ ops[i].day \in Days /\ ops[i].slot \in 1 .. Slots
          /\ ops[i].state \in OpStates /\ ops[i].previous < i
    /\ plan.op \in 0 .. Len(ops) /\ lock \in Procs \cup {Nobody}
    /\ \A p \in Procs : ctl[p].pc \in
          {"idle", "admitted", "judged", "keep", "resolve",
           "launch", "spawned", "marked", "waiting"}

\* A worker that outlived its controller keeps everybody out: it is never
\* overlooked between its launcher's marker and its own, and no other worker
\* is asked for anything beside it (invoke, workers_running).  Not so one that
\* a Ctrl-C let slip: its launcher said finished before it had its own marker.
OrphansKeepOut ==
    /\ \A w, x \in {v \in workers : ~v.slipped} :
          Asked(w) /\ Asked(x) => w = x
    /\ \A w \in workers :
          Asked(w) /\ w.owner = Nobody /\ ~w.slipped => lock = Nobody

\* No slot collects twice, through crashes, retries and controllers that
\* overlap, and nothing follows by itself on anything but a retryable end.
AttemptsAdvance ==
    /\ \A i, j \in DOMAIN ops :
          i < j /\ ops[i].day = ops[j].day /\ Collecting(i) /\ Collecting(j)
             => ops[i].slot < ops[j].slot
    /\ \A j \in DOMAIN ops :
          ops[j].action = "tick" /\ ops[j].previous # 0
             => ops[ops[j].previous].state \in Retryable

\* Natural credit is for a session that was observed while the scheduled
\* operation was the newest one: recoveries, late answers and what was there
\* before never earn it.  Another run of forward_daily may have been the one
\* that observed, after this operation's had made its plan.
CreditIsEarned ==
    \A i \in DOMAIN ops : ops[i].credit =>
        /\ ops[i].trigger = "natural" /\ ops[i].action = "tick"
        /\ observer[ops[i].day] = i

\* An operation that says completed speaks of a committed observation, also
\* when it only reconciled what a dead one had done.
CompletedIsObserved ==
    \A i \in DOMAIN ops : ops[i].state = "completed" =>
        native[ops[i].day] = "completed" /\ observer[ops[i].day] <= i

\* An interrupted record was unfinished, names who resolved it, and its
\* original is kept, wherever the recovery died.
OriginalsKept ==
    \A i \in DOMAIN ops : ops[i].state = "interrupted" =>
        /\ [op |-> i, state |-> "running"] \in originals
        /\ ops[ops[i].resolved].previous = i

\* What the operation records say is so, through crashes, recoveries, late
\* answers and controllers that overlap.
RecordsAreTrue ==
    /\ TypeOK
    /\ AttemptsAdvance
    /\ CreditIsEarned
    /\ CompletedIsObserved
    /\ OriginalsKept

\* The history is never rewritten: a record that has ended stays as it is.
OperationsStand ==
    [][\A i \in DOMAIN ops :
          ops[i].state # "running" => ops'[i] = ops[i]]_vars

\* A recovery does what its preview announced.  It is admitted only on the
\* operation, the account and the switches that were shown; what it then
\* records is still for the newest operation, as it was shown, and for the
\* session that was shown, although the account may be observed meanwhile:
\* what was staged is taken up, what was not is collected again, and a session
\* is only reconciled when it is observed.
RecoversWhatWasShown ==
    [][\A p \in Procs :
          /\ At(p, "idle") /\ ctl'[p].pc = "admitted" =>
                ctl'[p].shown.binding = Binding
          /\ At(p, "judged") /\ ctl[p].shown # NoPlan /\ ops' # ops =>
                LET shown == ctl[p].shown
                    new == ops'[Len(ops')]
                IN  /\ shown.binding.latest = ops[Len(ops)]
                    /\ new.previous = Len(ops)
                    /\ new.action = shown.action
                    /\ new.day = shown.binding.expected
                    /\ new.action \in {"resume", "reconcile"}
                          <=> ops[Len(ops)].forward
                    /\ new.action = "reconcile" =>
                          native[new.day] = "completed"]_vars

\* Neither the past nor what was previewed is changed by a recovery.
RecoveriesAreFaithful == OperationsStand /\ RecoversWhatWasShown

\* What would keep a staged configuration from going on is gone.
NothingBlocks(i) ==
    ops[i].forward => health = "sound" /\ elsewhere # ops[i].day

\* Wherever a controller died: once no process lives that worked for it, and
\* none left its marker torn, status() calls the operation interrupted; and
\* what it calls so has a way on by recover_plan, unless the account or the
\* staged files themselves forbid one.
InterruptedIsRecoverable ==
    /\ /\ LatestIs({"running"}) /\ Day(clock) \in Sessions
       /\ lock = Nobody /\ workers = {} /\ ~torn
       => StatusState = "interrupted"
    /\ /\ StatusState = "interrupted" /\ enabled /\ OnlyToday(Day(clock))
       /\ NothingBlocks(Latest)
       => RecoveryAction(Latest, FALSE) # "none"
=============================================================================
