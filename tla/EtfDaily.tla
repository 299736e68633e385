------------------------------ MODULE EtfDaily ------------------------------
(***************************************************************************)
(* One bounded daily operation, src/quant_pipeline/etf_daily.py, with its  *)
(* killable collector etf_collection.py: refresh, observe and tick by any  *)
(* number of processes, in a profile with a schedule (configured) or in a  *)
(* legacy one.                                                             *)
(*                                                                         *)
(* A process reads the clock and the profile before it takes the study     *)
(* lock, and decides by that reading; history sorts by it, so a record may *)
(* be older than one that was written before it.  The lock is freed with   *)
(* its process; a collector goes on by itself.  The account underneath     *)
(* (forward_daily.run) is what its own module promises.  A refused call    *)
(* writes nothing.                                                         *)
(***************************************************************************)
EXTENDS Naturals, Sequences, FiniteSets, FiniteSetsExt

CONSTANTS
    Procs, Nobody,
    Days,           \* 1 .. n
    Sessions,       \* the exchange sessions among them
    Slots,          \* slots of a day
    Holdout,        \* the days the account may observe
    Editions,       \* 1 .. n: operator profiles, one after the other
    Unregistered,   \* the editions without a forward_config
    MaxOps          \* bound: commands in the order of their clock readings

ASSUME EtfDailyAssumption ==
    /\ Nobody \notin Procs
    /\ IsFiniteSet(Days) /\ Days = 1 .. Cardinality(Days)
    /\ Sessions \subseteq Days
    /\ Holdout \subseteq Days /\ Slots \in Nat \ {0}
    /\ IsFiniteSet(Editions) /\ Editions = 1 .. Cardinality(Editions)
    /\ Unregistered \subseteq Editions /\ Editions # {}
    /\ MaxOps \in Nat

VARIABLES
    clock,
    configured,  \* the profiles of this operation have a schedule
    edition,     \* the operator's profile
    head,       \* the day the newest dataset snapshot covers
    native,     \* the account's newest attempt for each day
    ops,        \* the operation.json files in the order they were made
    lock,
    ctl,        \* what each process is doing
    orphans     \* days that collectors without a parent still work for

operator == <<configured, edition>>
vars == <<clock, operator, head, native, ops, lock, ctl, orphans>>
-----------------------------------------------------------------------------
(* The day: before the close, then each slot open and, its budget over,    *)
(* closed.  A legacy profile has slots without a budget.                   *)

Day(t) == t \div (2 * Slots + 1)
Position(t) == t % (2 * Slots + 1)
Started(t) == (Position(t) + 1) \div 2
LastSlot(t) == Started(t) = Slots
Trading(t) == Day(t) \in Sessions
Due(t) == Position(t) > 0
WithinBudget(t) == Position(t) % 2 = 1

\* closed_session, 0 before the first.
Expected(t) ==
    Max({0} \cup {s \in Sessions : s < Day(t)}
            \cup (IF Due(t) THEN Sessions \cap {Day(t)} ELSE {}))

Modes == {"tick", "refresh", "observe"}
Registered(e) == e \notin Unregistered

\* The early returns of run.
MayLook(mode) ==
    /\ configured => Trading(clock) /\ WithinBudget(clock)
    /\ mode = "tick" => Trading(clock) /\ Due(clock) /\ Registered(edition)
    /\ Expected(clock) # 0
-----------------------------------------------------------------------------
Idle == [pc |-> "idle"]
At(p, where) == ctl[p].pc = where
Mine(p) == ops[ctl[p].op]
Unchanged(p) == edition = ctl[p].edition    \* _identity_unchanged

\* _current_history, and its newest record by started_at.
History(e) == {i \in DOMAIN ops : ops[i].edition = e}
Newest(S) == CHOOSE i \in S : \A j \in S : ops[j].rank <= ops[i].rank

Init ==
    /\ clock = 2 * Slots + 1
    /\ configured \in BOOLEAN
    /\ edition = 1
    /\ head = 0 /\ native = [d \in Days |-> "none"]
    /\ ops = <<>> /\ lock = Nobody /\ orphans = {}
    /\ ctl = [p \in Procs |-> Idle]

\* now, load_profile and the first look at the calendar.
Ranks == {ops[i].rank : i \in DOMAIN ops}
            \cup {ctl[p].rank : p \in {q \in Procs : At(q, "loaded")}}
Look(p, mode) ==
    /\ At(p, "idle") /\ MayLook(mode)
    /\ Max({0} \cup Ranks) < MaxOps
    /\ ctl' = [ctl EXCEPT ![p] =
          [pc |-> "loaded", mode |-> mode, at |-> clock, edition |-> edition,
           rank |-> 1 + Max({0} \cup Ranks)]]
    /\ UNCHANGED <<clock, operator, head, native, ops, lock, orphans>>

AsOf(p) == Expected(ctl[p].at)
Today(p) == {i \in History(ctl[p].edition) :
                /\ ops[i].day = AsOf(p)
                /\ configured \/ ops[i].mode = "tick"}
Previous(p) == ops[Newest(Today(p))]

\* Mutant of Later: the slot under way may be used again.
LaterOrSame(p) == Started(ctl[p].at) >= Previous(p).slot
Later(p) == Started(ctl[p].at) > Previous(p).slot

MayCollectAgain(p) == Previous(p).state = "collection_retryable" /\ Later(p)
Reuses(p) ==
    configured /\ Today(p) # {} /\ Previous(p).state = "research_ready"

AlreadyAttempted(p) ==
    /\ Today(p) # {}
    /\ IF configured
       THEN \/ Previous(p).state = "completed"
            \/ /\ ctl[p].mode # "observe"
               /\ ~(ctl[p].mode = "tick" /\ Reuses(p))
               /\ ~MayCollectAgain(p)
       ELSE ctl[p].mode = "tick" /\ ~MayCollectAgain(p)

Admitted(p) ==
    /\ Unchanged(p) /\ ~AlreadyAttempted(p)
    /\ Registered(edition) => ctl[p].mode = "refresh" \/ AsOf(p) \in Holdout

\* study_lock of the output root.  The account may be paused by the operator's
\* approval, or not pass inspect_account.
Free == lock = Nobody

Enter(p) ==
    /\ At(p, "loaded")
    /\ \/ /\ Free /\ Admitted(p)
          /\ lock' = p
          /\ ops' = Append(ops,
                [day |-> AsOf(p), mode |-> ctl[p].mode, rank |-> ctl[p].rank,
                 slot |-> Started(ctl[p].at), edition |-> edition,
                 fetch |-> ctl[p].mode # "observe" /\ ~Reuses(p),
                 state |-> "running", reached |-> "none", cause |-> "none",
                 notify |-> FALSE])
          /\ ctl' = [ctl EXCEPT ![p] =
                [pc |-> "collect", op |-> Len(ops) + 1, edition |-> edition,
                 last |-> LastSlot(ctl[p].at)]]
       \/ /\ ~Free \/ ~Admitted(p) \/ Registered(edition)
          /\ ctl' = [ctl EXCEPT ![p] = Idle]
          /\ UNCHANGED <<lock, ops>>
    /\ UNCHANGED <<clock, operator, head, native, orphans>>
-----------------------------------------------------------------------------
(* The last publish, with the notification.                                *)

Signature(o) == <<o.state, o.cause, o.reached>>
Quiet == {"research_ready", "completed"}

\* Mutant of Changed: only another state is news.
ChangedState(previous, o) == previous.state # o.state
Changed(previous, o) == Signature(previous) # Signature(o)

NewCompletion(p, o) ==
    /\ o.state = "completed"
    /\ \A i \in History(o.edition) \ {ctl[p].op} :
          ~(ops[i].state = "completed" /\ ops[i].day = o.day)

Notify(p, o) ==
    LET rest == History(o.edition) \ {ctl[p].op} IN
    \/ NewCompletion(p, o)
    \/ IF rest = {} THEN o.state \notin Quiet
       ELSE LET previous == ops[Newest(rest)] IN
            /\ Changed(previous, o)
            /\ o.state \notin Quiet \/ previous.state \notin Quiet

Finish(p, state, reached, cause) ==
    LET ended == IF configured /\ ctl[p].last /\ state = "collection_retryable"
                 THEN "collection_exhausted" ELSE state
        o == [Mine(p) EXCEPT !.state = ended, !.reached = reached,
                             !.cause = cause]
    IN  /\ ops' = [ops EXCEPT ![ctl[p].op] = [o EXCEPT !.notify = Notify(p, o)]]
        /\ lock' = Nobody /\ ctl' = [ctl EXCEPT ![p] = Idle]

Block(p, reached, cause) == Finish(p, "blocked", reached, cause)
Goto(p, where) ==
    ctl' = [ctl EXCEPT ![p].pc = where] /\ UNCHANGED <<ops, lock>>
-----------------------------------------------------------------------------
(* collect, in this process or in the bounded worker.                      *)

\* The provider may have the session, or still lack it.
Collected(p) ==
    /\ At(p, "collect")
    /\ head' \in {head} \cup (IF Mine(p).fetch THEN {Mine(p).day} ELSE {})
    /\ Goto(p, "check")
    /\ UNCHANGED <<clock, operator, native, orphans>>

Failures ==
    [stage : {"master_refresh", "collection"}, cause : {"transport", "conflict"}]
        \cup {[stage |-> "collection", cause |-> "delay"]}

\* retryable, or the handler of run where the profile has no worker.
TriedAgain(f) ==
    \/ f.stage = "collection" /\ f.cause \in {"transport", "delay"}
    \/ f.stage = "master_refresh" /\ f.cause = "transport" /\ configured

CollectFails(p, f) ==
    /\ At(p, "collect")
    /\ head' \in {head} \cup
          (IF Mine(p).fetch /\ f.stage = "collection" THEN {Mine(p).day} ELSE {})
    /\ Finish(p, IF TriedAgain(f) THEN "collection_retryable" ELSE "blocked",
              f.stage, f.cause)
    /\ UNCHANGED <<clock, operator, native, orphans>>

\* subprocess.run(timeout=...): the worker is stopped wherever it was.
BudgetOver(p) ==
    /\ configured /\ At(p, "collect")
    /\ \E stage \in {"worker_start", "master_refresh", "collection"} :
          Finish(p, IF stage = "worker_start" THEN "blocked"
                    ELSE "collection_retryable", stage, "timeout")
    /\ head' \in {head} \cup (IF Mine(p).fetch THEN {Mine(p).day} ELSE {})
    /\ UNCHANGED <<clock, operator, native, orphans>>
-----------------------------------------------------------------------------
(* The snapshot, the preflight and the plan.                               *)

Missing(p) == head # Mine(p).day

Check(p) ==
    /\ At(p, "check")
    /\ \/ Missing(p)
          /\ Finish(p, "collection_retryable", "collection", "data_missing")
       \/ Block(p, "collection", "conflict")
       \/ ~Missing(p) /\ Finish(p, "preflight_blocked", "preflight", "none")
       \/ ~Missing(p) /\ ~Unchanged(p) /\ Block(p, "preflight", "identity")
       \/ /\ ~Missing(p) /\ Unchanged(p) /\ Mine(p).mode = "refresh"
          /\ Finish(p, "research_ready", "preflight", "none")
       \/ /\ ~Missing(p) /\ Unchanged(p) /\ Mine(p).mode # "refresh"
          /\ ~Registered(edition)
          /\ Finish(p, "candidate_required", "preflight", "none")
       \/ /\ ~Missing(p) /\ Unchanged(p) /\ Mine(p).mode # "refresh"
          /\ Registered(edition)
          /\ Goto(p, "assess")
    /\ UNCHANGED <<clock, operator, head, native, orphans>>

\* forward_daily.assess, by the clock of the first look.
Plan(d) ==
    CASE native[d] = "none" -> "ready"
      [] native[d] = "completed" -> "completed"
      [] native[d] = "running" -> "interrupted"
      [] native[d] = "failed" -> "retryable_failure"

\* Mutant of Allowed: every plan the account could go on with.
AllowedAlways(mode) ==
    {"ready", "completed", "interrupted", "retryable_failure"}
Allowed(mode) ==
    {"ready", "completed"} \cup
        (IF mode = "observe" THEN {"interrupted", "retryable_failure"} ELSE {})

Assess(p) ==
    /\ At(p, "assess")
    /\ \/ Finish(p, "refused", "frozen_identity", "none")
       \/ /\ Plan(Mine(p).day) \notin Allowed(Mine(p).mode)
          /\ Finish(p, Plan(Mine(p).day), "frozen_identity", "none")
       \/ /\ Plan(Mine(p).day) \in Allowed(Mine(p).mode)
          /\ \/ Unchanged(p) /\ Goto(p, "observe")
             \/ Block(p, "frozen_identity", "identity")
    /\ UNCHANGED <<clock, operator, head, native, orphans>>
-----------------------------------------------------------------------------
(* forward_daily.run, with operator_gate, which fails as well when the      *)
(* account's own configuration has changed.                                *)

NativeBegin(p) ==
    /\ At(p, "observe") /\ Unchanged(p)
    /\ Expected(clock) = Mine(p).day /\ native[Mine(p).day] # "completed"
    /\ native' = [native EXCEPT ![Mine(p).day] = "running"]
    /\ Goto(p, "native")
    /\ UNCHANGED <<clock, operator, head, orphans>>

NativeCommit(p) ==
    /\ At(p, "native") /\ Unchanged(p)
    /\ native' = [native EXCEPT ![Mine(p).day] = "completed"]
    /\ Goto(p, "observe")
    /\ UNCHANGED <<clock, operator, head, orphans>>

NativeFail(p) ==
    /\ At(p, "native")
    /\ native' = [native EXCEPT ![Mine(p).day] = "failed"]
    /\ Finish(p, "execution_failed", "observe", "native")
    /\ UNCHANGED <<clock, operator, head, orphans>>

\* The answer, of this attempt or about one that is there already.
NativeAnswers(p) ==
    /\ At(p, "observe")
    /\ \/ /\ native[Mine(p).day] = "completed"
          /\ Finish(p, "completed", "verify", "none")
       \/ Finish(p, "execution_failed", "observe", "native")
    /\ UNCHANGED <<clock, operator, head, native, orphans>>
-----------------------------------------------------------------------------
Crash(p) ==
    /\ lock = p /\ lock' = Nobody
    /\ orphans' = IF configured /\ At(p, "collect") /\ Mine(p).fetch
                  THEN orphans \cup {Mine(p).day} ELSE orphans
    /\ ctl' = [ctl EXCEPT ![p] = Idle]
    /\ UNCHANGED <<clock, operator, head, native, ops>>

\* A collector nobody waits for: it may move the dataset back as well.
OrphanEnds(d) ==
    /\ d \in orphans /\ orphans' = orphans \ {d}
    /\ head' \in {head, d}
    /\ UNCHANGED <<clock, operator, native, ops, lock, ctl>>

TickClock ==
    /\ Day(clock + 1) \in Days
    /\ clock' = clock + 1
    /\ UNCHANGED <<operator, head, native, ops, lock, ctl, orphans>>

\* The operator: another profile.
Edit ==
    /\ edition + 1 \in Editions /\ edition' = edition + 1
    /\ UNCHANGED <<clock, configured, head, native, ops, lock, ctl, orphans>>
Step(p) ==
    \/ Enter(p) \/ BudgetOver(p) \/ Check(p) \/ Assess(p)
    \/ NativeBegin(p) \/ NativeCommit(p) \/ NativeFail(p) \/ NativeAnswers(p)

Next ==
    \/ TickClock \/ Edit
    \/ \E d \in Days : OrphanEnds(d)
    \/ \E p \in Procs :
          \/ \E mode \in Modes : Look(p, mode)
          \/ Step(p) \/ Crash(p) \/ Collected(p)
          \/ \E f \in Failures : CollectFails(p, f)

Spec == Init /\ [][Next]_vars
-----------------------------------------------------------------------------
States == {"running", "collection_retryable", "collection_exhausted",
           "blocked", "preflight_blocked", "research_ready",
           "candidate_required", "refused", "interrupted",
           "retryable_failure", "execution_failed", "completed"}
Before(i, j) == ops[i].rank < ops[j].rank

\* Every variable holds a value of its kind, and the lock is its holder's.
TypeOK ==
    /\ clock \in Nat /\ configured \in BOOLEAN /\ edition \in Editions
    /\ head \in 0 .. Cardinality(Days) /\ orphans \subseteq Days
    /\ native \in [Days -> {"none", "running", "failed", "completed"}]
    /\ \A i \in DOMAIN ops :
          /\ ops[i].day \in Days /\ ops[i].slot \in 0 .. Slots
          /\ ops[i].state \in States
          /\ \A j \in DOMAIN ops : ops[i].rank = ops[j].rank => i = j
    /\ \A p \in Procs : ctl[p].pc \in {"collect", "check", "assess", "observe",
                                       "native"} <=> lock = p

\* Under a schedule no slot of a day fetches twice, for the tick and the
\* manual refresh together, however old the clock reading of one of them is
\* (run: today, slot; docs/etf-daily.md: they share slot receipts).
SlotsFetchOnce ==
    configured =>
        \A i, j \in DOMAIN ops :
            /\ i < j /\ ops[i].edition = ops[j].edition
            /\ ops[i].day = ops[j].day /\ ops[i].fetch /\ ops[j].fetch
            => ops[i].slot < ops[j].slot

\* Nothing follows by itself on a conflict: after a tick that was blocked no
\* tick is admitted again that day, unless the operator gave a command between.
\* A tick that was overtaken between its clock reading and its lock is sorted
\* behind the command that overtook it, and excepted.
ByHandBetween(i, j) ==
    \E k \in History(ops[i].edition) : i < k /\ k < j /\ ops[k].mode # "tick"
Overtaken(i) == \E k \in History(ops[i].edition) : k < i /\ Before(i, k)
ConflictsStop ==
    \A i, j \in DOMAIN ops :
        /\ i < j /\ ops[i].edition = ops[j].edition
        /\ ops[i].day = ops[j].day /\ ~ByHandBetween(i, j)
        /\ ops[i].mode = "tick" /\ ops[i].state = "blocked" /\ ~Overtaken(i)
        => ops[j].mode # "tick"

\* completed is only said of a committed observation, and was only reached
\* over a snapshot of that very day.
CompletedIsObserved ==
    \A i \in DOMAIN ops :
        ops[i].state = "completed" => native[ops[i].day] = "completed"

\* An operator who reads every notification knows the newest failure: it was
\* told, or repeats one that was and that nothing else came after.  Commands
\* that overtake another one between its clock reading and its lock are sorted
\* behind it, and excepted.
InOrder(e) == \A i, j \in History(e) : i < j => Before(i, j)
StateIsTold ==
    \A i \in DOMAIN ops :
        InOrder(ops[i].edition) /\ ops[i].state \notin Quiet \cup {"running"} =>
            \E k \in History(ops[i].edition) :
                /\ ops[k].notify /\ Signature(ops[k]) = Signature(ops[i])
                /\ \A j \in History(ops[i].edition) :
                      Before(k, j) /\ Before(j, i) =>
                          Signature(ops[j]) = Signature(ops[i])

\* The completion of a day is told, also when the process that committed it
\* died before it could say so.
CompletionIsTold ==
    \A i \in DOMAIN ops : ops[i].state = "completed" =>
        \E k \in History(ops[i].edition) :
            ops[k].state = "completed" /\ ops[k].day = ops[i].day /\ ops[k].notify

\* An execution that died or failed is only taken up by an explicit observe.
RecoveryIsExplicit ==
    [][\A p \in Procs :
          At(p, "observe") /\ ctl'[p].pc = "native" /\ Mine(p).mode = "tick" =>
              native[Mine(p).day] = "none"]_vars

\* What the operator is told is true, and is everything there is to tell: a
\* completion stands on a committed observation, and neither a failure nor a
\* completion goes by without a notification (_notification, _publish).
OperatorIsTold ==
    TypeOK /\ CompletedIsObserved /\ StateIsTold /\ CompletionIsTold

\* What only the operator may do is never done by the timer: no fetch after a
\* conflict, no execution over one that died (run, forward_daily.assess).
OnlyByHand == []ConflictsStop /\ RecoveryIsExplicit
=============================================================================
