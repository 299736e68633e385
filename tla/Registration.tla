---------------------------- MODULE Registration ----------------------------
(***************************************************************************)
(* src/quant_pipeline/project_registration.py: the preview of a simulation *)
(* account, its confirmation, and what a confirmation finds that an        *)
(* earlier one left behind when its process was killed or its disk failed. *)
(*                                                                         *)
(* Project, experiment, inputs, runtime and configuration are one thing a  *)
(* plan is made of, their edition; the latest closed session is the other. *)
(* An account is named by the digest of its plan, so the plan is its name. *)
(* Previews take no lock; confirmations take the study lock of state_root  *)
(* without waiting.  A call refused before it wrote anything is a          *)
(* stuttering step or gives the lock back.  Registered accounts are not    *)
(* changed by anybody else, and the project's own file stays readable.     *)
(***************************************************************************)
EXTENDS Naturals, Sequences, FiniteSets

CONSTANTS
    Procs, Nobody,
    Editions,       \* what the source can be; Broken among them is refused
    Broken,
    Session,        \* clock ticks of a session
    Start,          \* the tick the observation window opens at
    Ttl,            \* preview_ttl_seconds, in ticks
    MaxClock,       \* bound: ticks
    MaxPreviews,    \* bound: previews
    MaxEdits,       \* bound: changes of the source
    MaxFaults       \* bound: kills and failing file operations

ASSUME RegistrationAssumption ==
    /\ Nobody \notin Procs /\ Broken \in Editions
    /\ Session \in Nat \ {0} /\ Start \in Nat /\ Ttl \in Nat \ {0}
    /\ MaxClock \in Nat /\ MaxPreviews \in Nat
    /\ MaxEdits \in Nat /\ MaxFaults \in Nat

VARIABLES
    clock, source, edits, faults,
    previews,       \* state_root/<id>.json, oldest first
    receipts,       \* state_root/<account>.json
    stage,          \* accounts_root/.pending-<account>
    target,         \* accounts_root/<account>
    failed,         \* accounts_root/.failed-<account>-*
    lock,
    ctl

regVars == <<clock, source, edits, faults, previews, receipts, stage, target,
             failed, lock, ctl>>
world == <<clock, source, edits, previews>>
-----------------------------------------------------------------------------
Plans == [edition : Editions \ {Broken}, cutoff : 0 .. MaxClock \div Session]
Plan(e, t) == [edition |-> e, cutoff |-> t \div Session]

\* _source and prepare_promotion find nothing to refuse.
Sound(e, t) == e # Broken /\ t < Start

None == [state |-> "none"]
NoReceipt == [state |-> "none", attempts |-> <<>>]
Idle == [pc |-> "idle"]
At(p, where) == lock = p /\ ctl[p].pc = where
Account(p) == previews[ctl[p].preview].plan
Receipt(p) == receipts[Account(p)]
Stage(p) == stage[Account(p)]

RegInit ==
    /\ clock = 0 /\ source \in Editions \ {Broken} /\ edits = 0 /\ faults = 0
    /\ previews = <<>> /\ receipts = [a \in Plans |-> NoReceipt]
    /\ stage = [a \in Plans |-> None] /\ target = [a \in Plans |-> None]
    /\ failed = [a \in Plans |-> <<>>]
    /\ lock = Nobody /\ ctl = [p \in Procs |-> Idle]

Preview ==
    /\ Len(previews) < MaxPreviews /\ Sound(source, clock)
    /\ previews' = Append(previews,
                      [plan |-> Plan(source, clock), expires |-> clock + Ttl])
    /\ UNCHANGED <<clock, source, edits, faults, receipts, stage, target,
                   failed, lock, ctl>>
-----------------------------------------------------------------------------
(* commit: now, the lock and the preview.                                  *)

Call(p, i) ==
    /\ lock = Nobody /\ ctl[p] = Idle
    /\ lock' = p
    /\ ctl' = [ctl EXCEPT ![p] = [pc |-> "decide", preview |-> i, now |-> clock]]
    /\ UNCHANGED <<world, faults, receipts, stage, target, failed>>

Release(p) == lock' = Nobody /\ ctl' = [ctl EXCEPT ![p] = Idle]
Goto(p, where) == ctl' = [ctl EXCEPT ![p].pc = where] /\ UNCHANGED lock

\* _verify, of a directory that is the account.
Verified(p, directory) ==
    directory.state = "published" /\ directory.definition = Account(p)

SaveReceipt(p, state) ==
    receipts' = [receipts EXCEPT ![Account(p)].state = state]

Recognise(p) ==
    /\ At(p, "decide") /\ target[Account(p)] # None
    /\ IF Verified(p, target[Account(p)])
       THEN SaveReceipt(p, "completed") ELSE UNCHANGED receipts
    /\ Release(p)
    /\ UNCHANGED <<world, faults, stage, target, failed>>

\* The registry of the stage has the account, whatever is published of it.
\* Mutant of Registered: account.json is looked for.
RegisteredWhenPublished(directory) == directory.state = "published"
Registered(directory) == directory.state \in {"registered", "published"}

Interrupted(p) ==
    /\ target[Account(p)] = None
    /\ Receipt(p).attempts # <<>> /\ Registered(Stage(p))

ResumePublish(p) ==
    /\ At(p, "decide") /\ Interrupted(p)
    /\ IF Stage(p).definition = Account(p)
       THEN /\ stage' = [stage EXCEPT ![Account(p)].state = "published"]
            /\ Goto(p, "resumed")
       ELSE Release(p) /\ UNCHANGED stage
    /\ UNCHANGED <<world, faults, receipts, target, failed>>

\* The preview still holds.
Fresh(p) ==
    /\ ctl[p].now < previews[ctl[p].preview].expires
    /\ Sound(source, ctl[p].now) /\ Plan(source, ctl[p].now) = Account(p)

Confirm(p) ==
    /\ At(p, "decide") /\ target[Account(p)] = None /\ ~Interrupted(p)
    /\ IF Fresh(p) THEN Goto(p, "aside") ELSE Release(p)
    /\ UNCHANGED <<world, faults, receipts, stage, target, failed>>

\* Mutant of MoveAside: what an earlier attempt left is overwritten.
Overwrite(p) ==
    /\ At(p, "aside")
    /\ stage' = [stage EXCEPT ![Account(p)] = None]
    /\ Goto(p, "attempt")
    /\ UNCHANGED <<world, faults, receipts, target, failed>>
MoveAside(p) ==
    /\ At(p, "aside")
    /\ IF Stage(p) = None THEN UNCHANGED <<stage, failed>>
       ELSE /\ failed' = [failed EXCEPT ![Account(p)] = Append(@, Stage(p))]
            /\ stage' = [stage EXCEPT ![Account(p)] = None]
    /\ Goto(p, "attempt")
    /\ UNCHANGED <<world, faults, receipts, target>>

BeginAttempt(p) ==
    /\ At(p, "attempt")
    /\ receipts' = [receipts EXCEPT ![Account(p)] =
          [state |-> "registering", attempts |-> Append(@.attempts, "registering")]]
    /\ Goto(p, "promote")
    /\ UNCHANGED <<world, faults, stage, target, failed>>
-----------------------------------------------------------------------------
(* research_paper.promote into the stage, which reads the source again.    *)

Fill(p, directory) == stage' = [stage EXCEPT ![Account(p)] = directory]

Promote(p) ==
    /\ At(p, "promote") /\ Sound(source, ctl[p].now)
    /\ Fill(p, [state |-> "directory", definition |-> Plan(source, ctl[p].now),
                at |-> ctl[p].now])
    /\ Goto(p, "database")
    /\ UNCHANGED <<world, faults, receipts, target, failed>>

Advance(p, from, state, to) ==
    /\ At(p, from) /\ Fill(p, [Stage(p) EXCEPT !.state = state]) /\ Goto(p, to)
    /\ UNCHANGED <<world, faults, receipts, target, failed>>

CreateDatabase(p) == Advance(p, "database", "database", "register")
Register(p) == Advance(p, "register", "registered", "publish")
Publish(p) == Advance(p, "publish", "published", "rename")

\* The receipt of an attempt that failed, by its own fault or by the disk's.
Note(p, state, outcome) ==
    LET log == Receipt(p).attempts IN
    receipts' = [receipts EXCEPT ![Account(p)] =
        [state |-> state,
         attempts |-> IF log = <<>> THEN log ELSE [log EXCEPT ![Len(log)] = outcome]]]
Fails(p) ==
    /\ Note(p, "recoverable_failure", "failed") /\ Release(p)
    /\ UNCHANGED <<world, stage, target, failed>>

Refused(p) ==
    /\ \/ At(p, "promote") /\ ~Sound(source, ctl[p].now)
       \/ At(p, "rename") /\ ~Verified(p, Stage(p))
    /\ Fails(p) /\ UNCHANGED faults
Fault(p) ==
    /\ faults < MaxFaults /\ faults' = faults + 1
    /\ lock = p
    /\ ctl[p].pc \in {"promote", "database", "register", "publish", "rename"}
    /\ Fails(p)

\* _verify and the rename, in either path.
\* Mutant of MayRename: what was promoted is what was previewed.
MayRenameAny(p) == TRUE
MayRename(p) == Verified(p, Stage(p))

Rename(p) ==
    /\ At(p, "rename") \/ At(p, "resumed")
    /\ MayRename(p)
    /\ target' = [target EXCEPT ![Account(p)] = Stage(p)]
    /\ stage' = [stage EXCEPT ![Account(p)] = None]
    /\ Goto(p, IF At(p, "rename") THEN "told" ELSE "told-again")
    /\ UNCHANGED <<world, faults, receipts, failed>>

Conclude(p) ==
    /\ \/ At(p, "told") /\ Note(p, "completed", "completed")
       \/ At(p, "told-again") /\ SaveReceipt(p, "completed")
    /\ Release(p)
    /\ UNCHANGED <<world, faults, stage, target, failed>>
-----------------------------------------------------------------------------
(* A kill, or an exception outside of commit's own handler.                *)
Killed(p) ==
    /\ faults < MaxFaults /\ faults' = faults + 1
    /\ lock = p /\ Release(p)
    /\ UNCHANGED <<world, receipts, stage, target, failed>>

Tick ==
    /\ clock < MaxClock /\ clock' = clock + 1
    /\ UNCHANGED <<source, edits, faults, previews, receipts, stage, target,
                   failed, lock, ctl>>
Edit ==
    /\ edits < MaxEdits /\ edits' = edits + 1
    /\ \E e \in Editions \ {source} : source' = e
    /\ UNCHANGED <<clock, faults, previews, receipts, stage, target, failed,
                   lock, ctl>>

Step(p) ==
    \/ Recognise(p) \/ ResumePublish(p) \/ Confirm(p) \/ MoveAside(p)
    \/ BeginAttempt(p)
    \/ Promote(p) \/ CreateDatabase(p) \/ Register(p) \/ Publish(p)
    \/ Refused(p) \/ Rename(p) \/ Conclude(p)

RegNext ==
    \/ Preview \/ Tick \/ Edit
    \/ \E p \in Procs :
          \/ \E i \in DOMAIN previews : Call(p, i)
          \/ Step(p) \/ Fault(p) \/ Killed(p)

RegSpec == RegInit /\ [][RegNext]_regVars

\* A confirmation goes on, and its author keeps confirming every preview.
Fairness ==
    /\ \A p \in Procs : WF_regVars(Step(p))
    /\ \A i \in 1 .. MaxPreviews :
          SF_regVars(i \in DOMAIN previews /\ \E p \in Procs : Call(p, i))
LiveSpec == RegSpec /\ Fairness
-----------------------------------------------------------------------------
Kinds == {"directory", "database", "registered", "published"}
Whole == {"registered", "published"}
Directory == [state : Kinds, definition : Plans, at : 0 .. MaxClock]
Made(a) ==      \* every directory ever made for an account
    {failed[a][i] : i \in DOMAIN failed[a]} \cup ({stage[a], target[a]} \ {None})
Count(a) ==
    Len(failed[a]) + Cardinality({f \in {<<1, stage[a]>>, <<2, target[a]>>} : f[2] # None})

\* Every file holds a value of its kind.
RegTypeOK ==
    /\ clock \in 0 .. MaxClock /\ source \in Editions /\ lock \in Procs \cup {Nobody}
    /\ \A i \in DOMAIN previews : previews[i].plan \in Plans
    /\ \A a \in Plans :
          /\ Made(a) \subseteq Directory
          /\ receipts[a].state \in
                {"none", "registering", "recoverable_failure", "completed"}

\* An account stands only for the plan that was shown, and was registered
\* before its window and while a preview of that plan was valid, whatever was
\* edited or killed on the way (docs/project-registration.md: Confirmation
\* rechecks all prerequisites and rejects stale previews).
AccountIsPreviewed ==
    \A a \in Plans : target[a] # None =>
        /\ target[a].state = "published" /\ target[a].definition = a
        /\ target[a].at < Start
        /\ \E i \in DOMAIN previews :
              previews[i].plan = a /\ target[a].at < previews[i].expires

\* A plan is registered at most once: what is put aside as failed never holds
\* a registration (commit: the stage is recovered from its database).
RegisteredOnce ==
    \A a \in Plans :
        /\ \A i \in DOMAIN failed[a] : failed[a][i].state \notin Whole
        /\ stage[a] = None \/ target[a] = None

\* The receipt knows of every directory an attempt made, also of those whose
\* process did not live to say how it ended, and says completed only of an
\* account that stands.
ReceiptsAreTrue ==
    \A a \in Plans :
        /\ Count(a) <= Len(receipts[a].attempts)
        /\ receipts[a].state = "completed" => target[a] # None

\* What registration promises of every account at any moment.
RegistrationIsSound ==
    RegTypeOK /\ AccountIsPreviewed /\ RegisteredOnce /\ ReceiptsAreTrue

\* Nothing of an attempt is erased: a stage that goes became the account or
\* was put aside as it was, and neither changes again.
EvidenceStands ==
    [][\A a \in Plans :
          /\ target[a] # None => target'[a] = target[a]
          /\ Len(failed[a]) <= Len(failed'[a])
          /\ \A i \in DOMAIN failed[a] : failed'[a][i] = failed[a][i]
          /\ stage[a] # None /\ stage'[a] = None =>
                target'[a] = stage[a]
                    \/ (failed'[a] # <<>> /\ failed'[a][Len(failed'[a])] = stage[a])
      ]_regVars

\* A registered plan is published in the end if its author keeps confirming,
\* however late that is and whatever became of its source.
RegisteredIsPublished ==
    \A a \in Plans :
        stage[a].state \in Whole /\ stage[a].definition = a ~> target[a] # None
=============================================================================
