--------------------------- MODULE ForwardLedger ---------------------------
(***************************************************************************)
(* The forward paper account of src/quant_pipeline/research_paper.py: its  *)
(* registration (promote), its observations (observe) and its evaluation   *)
(* (seal), by any number of processes over one account directory.          *)
(*                                                                         *)
(* The trial registry account.db commits each call by itself; account.json,*)
(* latest.json and evaluation.json are replaced one by one after it, each  *)
(* through one temporary file of a fixed name (atomic_json).  The last two *)
(* are only written under study_lock, which is taken without waiting and   *)
(* is free when its process dies; account.json also by a first promotion,  *)
(* which has no lock.                                                      *)
(* Input bundles are directories that anybody may add or, wrongly, change  *)
(* while a process reads them several times, and change back.  A check that fails before    *)
(* anything is written leaves everything as it was: a stuttering step.     *)
(***************************************************************************)
EXTENDS Naturals, Sequences, FiniteSets, FiniteSetsExt

CONSTANTS
    Procs,
    Nobody,
    Days,           \* calendar days, 1 .. n
    Sessions,       \* the exchange sessions among them
    Start, End,     \* holdout_start and holdout_end
    Recipes,        \* what promotion requests can differ in
    Gains,          \* what one session can return
    Timely,         \* execution_timing_policy is registered
    MaxBundles,     \* bound: input bundles ever captured
    MaxRewrites,    \* bound: changes made to a bundle in place
    MaxAttempts,    \* bound: attempts in the registry
    MaxDamage       \* bound: observations damaged on disk

ASSUME CalendarAssumption ==
    /\ IsFiniteSet(Days) /\ Days = 1 .. Cardinality(Days)
    /\ Sessions \subseteq Days
    /\ Start \in Sessions /\ End \in Days /\ Start <= End
ASSUME LedgerBoundAssumption ==
    /\ Nobody \notin Procs /\ Timely \in BOOLEAN
    /\ MaxBundles \in Nat /\ MaxRewrites \in Nat
    /\ MaxAttempts \in Nat /\ MaxDamage \in Nat

VARIABLES
    clock,          \* twice the date, plus one from the close on
    bundles,        \* the input bundles, oldest first
    rewrites,
    restored,       \* history: rows that were given contents of old again
    registry,       \* the study's row and the state of its directory
    accountFile,    \* account.json
    accountTemp,    \* account.json.tmp
    attempts,       \* the trial registry's attempts, oldest first
    damaged,        \* attempts whose result or artifacts were changed on disk
    latest,         \* the attempt latest.json names, 0 without one
    sealed,         \* the holdout evaluation in the registry
    evaluation,     \* evaluation.json
    lock,           \* study_lock(root)
    op              \* what each process is doing

ledgerVars == <<clock, bundles, rewrites, restored, registry, accountFile,
                accountTemp, attempts, damaged, latest, sealed, evaluation,
                lock, op>>
-----------------------------------------------------------------------------
(* Days, bundles and definitions.                                          *)

Date(t) == t \div 2
Opening(d) == 2 * d
Close(d) == 2 * d + 1
LastClosed(t) == {s \in Sessions : Close(s) <= t}
LatestClosed(d, t) == d \in LastClosed(t) /\ d = Max(LastClosed(t))

Interval == {s \in Sessions : Start <= s /\ s <= End}
Through(d) == {s \in Interval : s <= d}
Known(d) == {s \in Sessions : s <= d}

\* Rows: 0 is none, and contents that differ have different numbers.  No two
\* captures have the same manifest, which holds the instant of its own.
Bundle == [rows : [Sessions -> Nat], captured : Nat, manifest : Nat]

\* input_identity and input_prefix: the whole, and what was known by a day.
Identity(b) == bundles[b]
Prefix(b, d) ==
    [s \in Known(d) |-> bundles[b].rows[s]]

None == [as_of |-> 0]
Torn == [torn |-> TRUE]     \* a file that holds only part of its text

Completed == {a \in DOMAIN attempts : attempts[a].status = "completed"}
Observed(a) == attempts[a].result
Newest == Max(Completed)
Intact == Completed \cap damaged = {}   \* observations() verifies them all
Open == {a \in DOMAIN attempts : attempts[a].status = "running"}

Idle == [pc |-> "idle"]
Doing(p, where) == op[p].pc = where

\* load_account: account.json is there and agrees with the registry.
Loaded ==
    registry.stage = "registered" /\ accountFile = registry.definition
-----------------------------------------------------------------------------
LedgerInit ==
    /\ clock = 2
    /\ bundles = <<>> /\ rewrites = 0 /\ restored = {}
    /\ registry = [stage |-> "absent"]
    /\ accountFile = None /\ accountTemp = "none"
    /\ attempts = <<>> /\ damaged = {} /\ latest = 0
    /\ sealed = None /\ evaluation = None
    /\ lock = Nobody /\ op = [p \in Procs |-> Idle]

AccountFiles == <<accountFile, accountTemp>>
Registration == <<registry, AccountFiles>>
World == <<clock, bundles, rewrites, restored, damaged>>
Record == <<attempts, latest, sealed, evaluation>>
-----------------------------------------------------------------------------
(* promote.  A new account is made without the lock: the directory is what *)
(* admits one promoter.                                                    *)

\* prepare_promotion, then mkdir(exist_ok=False).
PromoteNew(p, choice, b) ==
    /\ Doing(p, "idle")
    /\ registry.stage = "absent"
    /\ Start > Date(clock)
    /\ LastClosed(clock) # {}
    /\ LET cutoff == Max(LastClosed(clock)) IN
       /\ bundles[b].rows[cutoff] > 0
       /\ op' = [op EXCEPT ![p] =
                    [pc |-> "database",
                     definition |-> [choice |-> choice, cutoff |-> cutoff,
                                     prefix |-> Prefix(b, cutoff)]]]
    /\ registry' = [stage |-> "directory"]
    /\ UNCHANGED <<AccountFiles, lock, World, Record>>

\* TrialRegistry(output / "account.db") creates the file.
CreateDatabase(p) ==
    /\ Doing(p, "database")
    /\ registry' = [stage |-> "database"]
    /\ op' = [op EXCEPT ![p].pc = "register"]
    /\ UNCHANGED <<AccountFiles, lock, World, Record>>

Register(p) ==
    /\ Doing(p, "register")
    /\ registry' = [stage |-> "registered", definition |-> op[p].definition]
    /\ op' = [op EXCEPT ![p] = [pc |-> "account"]]
    /\ UNCHANGED <<AccountFiles, lock, World, Record>>

\* An existing registration is only published again, under the lock and for
\* a request and inputs that agree with it.
PromoteAgain(p, choice, b) ==
    /\ Doing(p, "idle") /\ lock = Nobody
    /\ registry.stage = "registered"
    /\ registry.definition.choice = choice
    /\ Prefix(b, registry.definition.cutoff) = registry.definition.prefix
    /\ lock' = p
    /\ op' = [op EXCEPT ![p] = [pc |-> "account"]]
    /\ UNCHANGED <<Registration, World, Record>>

\* publish_account, with the record read back from the registry: atomic_json
\* opens and truncates the temporary file, fills it and renames it.  The two
\* promotions that can meet here write the same text to the same file.
OpenAccount(p) ==
    /\ Doing(p, "account")
    /\ accountTemp' = "torn"
    /\ op' = [op EXCEPT ![p] = [pc |-> "write", on |-> "temporary"]]
    /\ UNCHANGED <<registry, accountFile, lock, World, Record>>

\* Who is going to rename the temporary file.  One that nobody renames any
\* more is as none: whoever comes next truncates it first.
Publishing(p) == op[p].pc \in {"write", "rename"}

\* The text goes to the file that was opened, whatever its name is by now.
WriteAccount(p) ==
    /\ Doing(p, "write")
    /\ accountTemp' = IF op[p].on = "temporary" THEN "whole" ELSE accountTemp
    /\ accountFile' = IF op[p].on = "account" THEN registry.definition
                      ELSE accountFile
    /\ op' = [op EXCEPT ![p] = [pc |-> "rename"]]
    /\ UNCHANGED <<registry, lock, World, Record>>

\* What the file is called that q has open, once the temporary one is renamed.
Renamed(q) ==
    IF ~Doing(q, "write") THEN op[q]
    ELSE [op[q] EXCEPT !.on = IF @ = "temporary" THEN "account" ELSE "replaced"]

\* The other promotion may have renamed the file before, which raises.
RenameAccount(p) ==
    /\ Doing(p, "rename")
    /\ IF accountTemp = "none" THEN UNCHANGED AccountFiles
       ELSE /\ accountTemp' = "none"
            /\ accountFile' = IF accountTemp = "whole" THEN registry.definition
                              ELSE Torn
    /\ op' = [q \in Procs |->
                IF q = p THEN Idle
                ELSE IF accountTemp = "none" THEN op[q] ELSE Renamed(q)]
    /\ lock' = IF lock = p THEN Nobody ELSE lock
    /\ UNCHANGED <<registry, World, Record>>
-----------------------------------------------------------------------------
(* observe, under the lock.                                                *)

Leave(p) == lock' = Nobody /\ op' = [op EXCEPT ![p] = Idle]

\* input_prefix against the registration and against the last observation.
PastUnchanged(b) ==
    /\ Prefix(b, registry.definition.cutoff) = registry.definition.prefix
    /\ Completed # {} =>
          Prefix(b, Observed(Newest).as_of) = Observed(Newest).prefix

Advances(d) == Completed # {} => Observed(Newest).as_of <= d
\* Mutant of Repeats: a session is observed as often as it is asked for.
RepeatsNever(d) == FALSE
Repeats(d) == Completed # {} /\ Observed(Newest).as_of = d

\* Everything up to and including the look at the previous observation.
Enter(p, d, b, t) ==
    /\ Doing(p, "idle") /\ lock = Nobody
    /\ Loaded
    /\ d \in Interval /\ Close(d) <= t
    /\ sealed = None
    /\ Intact
    /\ PastUnchanged(b) /\ Advances(d)
    /\ lock' = p
    /\ op' = [op EXCEPT ![p] =
                 [pc |-> IF Repeats(d) THEN "reuse" ELSE "admit",
                  day |-> d, bundle |-> b, evidence |-> Identity(b),
                  attempt |-> 0, returns |-> None, fills |-> {},
                  read |-> None, prefix |-> None]]
    /\ UNCHANGED <<Registration, World, Record>>

\* The session was observed before: its publication is repeated.
Reuse(p) ==
    /\ Doing(p, "reuse")
    /\ latest' = Newest
    /\ Leave(p)
    /\ UNCHANGED <<Registration, World, attempts, sealed, evaluation>>

\* The gate before the attempt has been passed, if there is one.
Admit(p) ==
    /\ Doing(p, "admit")
    /\ op' = [op EXCEPT ![p].pc = "begin"]
    /\ UNCHANGED <<Registration, World, Record, lock>>

\* An attempt without a terminal event belongs to a dead writer.
Recover(p) ==
    /\ Doing(p, "begin")
    /\ \E a \in Open :
          attempts' = [attempts EXCEPT ![a].status = "interrupted"]
    /\ UNCHANGED <<Registration, World, latest, sealed, evaluation, lock, op>>

\* Mutant of Begin: dead writers' attempts are left as they are.
BeginBeside(p) ==
    /\ Doing(p, "begin") /\ Len(attempts) < MaxAttempts
    /\ attempts' = Append(attempts, [status |-> "running",
                                     day |-> op[p].day])
    /\ op' = [op EXCEPT ![p].attempt = Len(attempts) + 1,
                        ![p].pc = "execute"]
    /\ UNCHANGED <<Registration, World, latest, sealed, evaluation, lock>>
Begin(p) ==
    /\ Doing(p, "begin") /\ Open = {}
    /\ Len(attempts) < MaxAttempts
    /\ attempts' = Append(attempts, [status |-> "running",
                                     day |-> op[p].day])
    /\ op' = [op EXCEPT ![p].attempt = Len(attempts) + 1,
                        ![p].pc = "execute"]
    /\ UNCHANGED <<Registration, World, latest, sealed, evaluation, lock>>

\* Mutant of SameHistory: the replay is not compared with the last one.
AnyHistory(returns) == TRUE
SameHistory(returns) ==
    Completed # {} =>
        \A s \in DOMAIN Observed(Newest).returns :
            returns[s] = Observed(Newest).returns[s]

\* The executor replays the account from its start.  What it returns is its
\* own affair; what must agree is which sessions and the returns of old.
\* Fills are looked at only under the timing policy.
Execute(p) ==
    /\ Doing(p, "execute")
    /\ \E returns \in [Through(op[p].day) -> Gains],
          fills \in SUBSET IF Timely THEN Through(op[p].day) \ {Start}
                           ELSE {} :
          /\ SameHistory(returns)
          /\ op' = [op EXCEPT ![p].pc = "describe",
                              ![p].returns = returns, ![p].fills = fills,
                              ![p].read = Identity(op[p].bundle)]
    /\ UNCHANGED <<Registration, World, Record, lock>>

\* Mutant of Witnessed: any earlier observation will do.
WitnessedLate(s) ==
    \E a \in Completed : \A x \in Interval : x < s => x <= Observed(a).as_of
\* research_timing.verify: a fill needs its order, of the session before, in
\* an observation committed before the opening.
Witnessed(s) ==
    \E a \in Completed :
        /\ \A x \in Interval : x < s => x <= Observed(a).as_of
        /\ attempts[a].at < Opening(s)

Describe(p) ==
    /\ Doing(p, "describe")
    /\ Timely => \A s \in op[p].fills : Witnessed(s)
    /\ op' = [op EXCEPT ![p].pc = "gate",
                        ![p].prefix = Prefix(op[p].bundle, op[p].day)]
    /\ UNCHANGED <<Registration, World, Record, lock>>

\* The gate before the commit has been passed, if there is one.
Pass(p) ==
    /\ Doing(p, "gate")
    /\ op' = [op EXCEPT ![p].pc = "commit"]
    /\ UNCHANGED <<Registration, World, Record, lock>>

\* Mutant of Commit: the lock is let go before the publication.
CommitUnlocked(p) ==
    /\ Doing(p, "commit")
    /\ attempts' = [attempts EXCEPT ![op[p].attempt] =
          [status |-> "completed", day |-> op[p].day, at |-> clock,
           result |-> [as_of |-> op[p].day, returns |-> op[p].returns,
                       fills |-> op[p].fills, read |-> op[p].read,
                       identity |-> op[p].evidence, inputs |-> op[p].bundle,
                       prefix |-> op[p].prefix]]]
    /\ op' = [op EXCEPT ![p] = [pc |-> "publish", attempt |-> op[p].attempt]]
    /\ lock' = Nobody
    /\ UNCHANGED <<Registration, World, latest, sealed, evaluation>>
\* result.json, then the completed event.
Commit(p) ==
    /\ Doing(p, "commit")
    /\ attempts' = [attempts EXCEPT ![op[p].attempt] =
          [status |-> "completed", day |-> op[p].day, at |-> clock,
           result |-> [as_of |-> op[p].day, returns |-> op[p].returns,
                       fills |-> op[p].fills, read |-> op[p].read,
                       identity |-> op[p].evidence, inputs |-> op[p].bundle,
                       prefix |-> op[p].prefix]]]
    /\ op' = [op EXCEPT ![p] = [pc |-> "publish", attempt |-> op[p].attempt]]
    /\ UNCHANGED <<Registration, World, latest, sealed, evaluation, lock>>

Publish(p) ==
    /\ Doing(p, "publish")
    /\ latest' = op[p].attempt
    /\ Leave(p)
    /\ UNCHANGED <<Registration, World, attempts, sealed, evaluation>>

\* Any exception between the start of the attempt and its commit.
Fail(p) ==
    /\ op[p].pc \in {"execute", "describe", "gate", "commit"}
    /\ attempts' = [attempts EXCEPT ![op[p].attempt].status = "failed"]
    /\ Leave(p)
    /\ UNCHANGED <<Registration, World, latest, sealed, evaluation>>
-----------------------------------------------------------------------------
(* seal, under the lock.                                                   *)

Evidence(a) == [as_of |-> Observed(a).as_of, returns |-> Observed(a).returns,
                identity |-> Observed(a).identity]

SealHoldout(p) ==
    /\ Doing(p, "idle") /\ lock = Nobody
    /\ Loaded
    /\ Date(clock) > End
    /\ Completed # {} /\ Intact
    /\ Identity(Observed(Newest).inputs) = Observed(Newest).identity
    /\ DOMAIN Observed(Newest).returns = Interval
    /\ sealed \in {None, Evidence(Newest)}
    /\ sealed' = Evidence(Newest)
    /\ lock' = p
    /\ op' = [op EXCEPT ![p] = [pc |-> "evaluate"]]
    /\ UNCHANGED <<Registration, World, attempts, latest, evaluation>>

PublishEvaluation(p) ==
    /\ Doing(p, "evaluate")
    /\ evaluation' = sealed
    /\ Leave(p)
    /\ UNCHANGED <<Registration, World, attempts, latest, sealed>>

\* inspect_account, which writes nothing and takes no lock.
Inspectable ==
    /\ \A a, b \in Completed :
          a < b => Observed(a).as_of < Observed(b).as_of
    /\ \A a \in Completed : Observed(a).as_of \in Start .. End
    /\ sealed # None =>
          Completed # {} /\ sealed.identity = Observed(Newest).identity
-----------------------------------------------------------------------------
(* The surroundings.                                                       *)

\* A killed process; also an exception that is not handled, such as a file
\* that cannot be replaced.
Crash(p) ==
    /\ ~Doing(p, "idle")
    /\ op' = [op EXCEPT ![p] = Idle]
    /\ lock' = IF lock = p THEN Nobody ELSE lock
    /\ accountTemp' = IF \E q \in Procs \ {p} : Publishing(q) THEN accountTemp
                      ELSE "none"
    /\ UNCHANGED <<registry, accountFile, World, Record>>

Tick ==
    /\ clock < Close(Max(Days))
    /\ clock' = clock + 1
    /\ UNCHANGED <<bundles, rewrites, restored, damaged, Registration, Record,
                   lock, op>>

\* A bundle of what is known now; the newest row may be missing, or another
\* one revised.
Capture(row) ==
    /\ Len(bundles) < MaxBundles
    /\ bundles' = Append(bundles,
          [captured |-> clock, manifest |-> Len(bundles) + 1,
           rows |-> [s \in Sessions |->
                        CASE s \notin LastClosed(clock) -> 0
                          [] s \in LastClosed(clock) /\ s # row -> 1
                          [] s \in LastClosed(clock) /\ s = row ->
                                IF LatestClosed(s, clock) THEN 0
                                ELSE 2 + Len(bundles)]])
    /\ UNCHANGED <<clock, rewrites, restored, damaged, Registration, Record,
                   lock, op>>

\* A row of a bundle is changed in place, to contents no row ever had or to
\* others, such as its own of before.
Fresh == 2 + MaxBundles + rewrites
Rewrite(b, s, row) ==
    /\ rewrites < MaxRewrites
    /\ bundles[b].rows[s] \notin {0, row}
    /\ bundles' = [bundles EXCEPT ![b].rows[s] = row]
    /\ restored' = IF row = Fresh THEN restored ELSE restored \cup {<<b, s>>}
    /\ rewrites' = rewrites + 1
    /\ UNCHANGED <<clock, damaged, Registration, Record, lock, op>>

Damage(a) ==
    /\ a \in Completed \ damaged /\ Cardinality(damaged) < MaxDamage
    /\ damaged' = damaged \cup {a}
    /\ UNCHANGED <<clock, bundles, rewrites, restored, Registration, Record,
                   lock, op>>
-----------------------------------------------------------------------------
Surroundings ==
    \/ Tick
    \/ \E row \in {0} \cup Sessions : Capture(row)
    \/ \E b \in DOMAIN bundles, s \in Sessions : \E row \in 1 .. Fresh :
          Rewrite(b, s, row)
    \/ \E a \in DOMAIN attempts : Damage(a)

Promotion(p) ==
    \/ \E choice \in Recipes, b \in DOMAIN bundles : PromoteNew(p, choice, b)
    \/ CreateDatabase(p) \/ Register(p)
    \/ OpenAccount(p) \/ WriteAccount(p) \/ RenameAccount(p)
    \/ \E choice \in Recipes, b \in DOMAIN bundles :
          PromoteAgain(p, choice, b)

\* What an observation under way does without asking any gate.
Observing(p) ==
    \/ Recover(p) \/ Begin(p) \/ Execute(p) \/ Describe(p) \/ Commit(p)

Sealing(p) == SealHoldout(p) \/ PublishEvaluation(p)

LedgerNext ==
    \/ Surroundings
    \/ \E p \in Procs :
          \/ Promotion(p) \/ Sealing(p)
          \/ \E d \in Interval, b \in DOMAIN bundles : Enter(p, d, b, clock)
          \/ Observing(p) \/ Reuse(p) \/ Admit(p) \/ Pass(p) \/ Publish(p)
          \/ Fail(p) \/ Crash(p)

LedgerSpec == LedgerInit /\ [][LedgerNext]_ledgerVars
-----------------------------------------------------------------------------
Stages == {"absent", "directory", "database", "registered"}
Statuses == {"running", "completed", "failed", "interrupted"}
Points == {"idle", "database", "register", "account", "write", "rename",
           "reuse", "admit", "begin", "execute", "describe", "gate", "commit",
           "publish", "evaluate"}

IsPrefix(f) ==
    /\ \E d \in Sessions : DOMAIN f = Known(d)
    /\ \A s \in DOMAIN f : f[s] \in Nat

IsDefinition(f) ==
    f.choice \in Recipes /\ f.cutoff \in Sessions /\ IsPrefix(f.prefix)

IsResult(r) ==
    /\ r.as_of \in Interval /\ r.returns \in [Through(r.as_of) -> Gains]
    /\ r.fills \subseteq DOMAIN r.returns /\ r.inputs \in DOMAIN bundles
    /\ r.read \in Bundle /\ r.identity \in Bundle /\ IsPrefix(r.prefix)

\* Every variable holds a value of its kind.
LedgerTypeOK ==
    /\ clock \in Nat /\ rewrites \in Nat /\ bundles \in Seq(Bundle)
    /\ registry.stage \in Stages
    /\ registry.stage = "registered" => IsDefinition(registry.definition)
    /\ accountFile \in {None, Torn} \/ IsDefinition(accountFile)
    /\ accountTemp \in {"none", "torn", "whole"}
    /\ restored \subseteq (DOMAIN bundles) \X Sessions
    /\ \A a \in DOMAIN attempts :
          /\ attempts[a].status \in Statuses /\ attempts[a].day \in Interval
          /\ a \in Completed => IsResult(Observed(a))
    /\ damaged \subseteq Completed /\ latest \in 0 .. Len(attempts)
    /\ lock \in Procs \cup {Nobody}
    /\ \A p \in Procs : op[p].pc \in Points

\* A writer that died leaves its attempt open, and the next one closes it
\* before it starts its own: never two open attempts, and one that is open
\* while somebody executes or commits is his (observe).
OneOpenAttempt ==
    /\ \A a, b \in Open : a = b
    /\ \A p \in Procs :
          op[p].pc \in {"execute", "describe", "gate", "commit"} =>
             lock = p /\ Open = {op[p].attempt}

\* latest.json follows the registry: it names nothing but the newest
\* committed observation when it is written, and never goes back, although
\* publications die half way and are repeated (publish_observation).
LatestAdvances ==
    [][latest' # latest => latest' > latest /\ latest' = Newest]_ledgerVars

\* account.json is never another registration than the registry's, through
\* promotions that crash, repeat and overlap: it is that one, or missing, or
\* cannot be read because two promotions renamed and truncated one temporary
\* file in turn (promote, publish_account).
AccountIsRegistration ==
    accountFile \notin {None, Torn} => Loaded

\* A registration is never replaced, whoever promotes what.
RegistrationStands ==
    [][registry.stage = "registered" => registry' = registry]_ledgerVars

\* Neither ever goes back.
LedgerMovesForward == LatestAdvances /\ RegistrationStands

\* What inspect_account demands of a saved account holds for whatever the
\* writers leave, at every moment: sessions in order, each once, inside the
\* interval, and a sealed evaluation that speaks of the last of them.
InspectionAccepts ==
    Loaded /\ Intact => Inspectable

\* The evaluation shown is the one sealed, after every crash between the
\* registry and evaluation.json (seal).
EvaluationIsSealed ==
    evaluation # None => evaluation = sealed

\* What a reader finds in the account is sound at every moment, whoever
\* promotes, observes, seals or dies meanwhile.
AccountIsSound ==
    /\ LedgerTypeOK
    /\ OneOpenAttempt
    /\ AccountIsRegistration
    /\ EvaluationIsSealed
    /\ InspectionAccepts

\* Returns the account has shown are the same in every later replay, and
\* what is evaluated is the last of them, whole (observe, seal).
Account == INSTANCE ForwardAccount WITH
    record <- [i \in 1 .. Cardinality(Completed) |->
                  Observed(CHOOSE a \in Completed :
                     Cardinality({x \in Completed : x <= a}) = i).returns],
    evaluated <- IF sealed = None THEN 0 ELSE Cardinality(Completed)

AccountOnlyGrows == Account!Spec

\* With the timing policy no fill was invented afterwards: its session opened
\* after an observation through the session before had been committed.
FillsWereOrdered ==
    Timely => \A a \in Completed : \A s \in Observed(a).fills :
        \E x \in Completed :
            /\ x < a /\ attempts[x].at < Opening(s)
            /\ \A e \in Interval : e < s => e <= Observed(x).as_of
=============================================================================
