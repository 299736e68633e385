---------------------------- MODULE ForwardDaily ----------------------------
(***************************************************************************)
(* The daily entry of src/quant_pipeline/forward_daily.py over the forward *)
(* ledger: run() assesses, hands a gate to research_paper.observe, which   *)
(* assesses again under the account's lock, and leaves a receipt.          *)
(*                                                                         *)
(* config is the operator's file and the input recipe it pins by its hash; *)
(* bundle 0 stands for a pin that does not hold, or any other frozen       *)
(* identity that changed (recipe bytes, research settings, runtime code).  *)
(***************************************************************************)
EXTENDS ForwardLedger, Functions

CONSTANTS MaxConfigs,   \* bound: changes the operator makes
          MaxRuns       \* bound: runs started

\* The account is registered: prepare_promotion had a recipe and a session
\* that was closed before the first of the interval.
ASSUME RegisteredAssumption ==
    /\ Recipes # {}
    /\ \E s \in Sessions : s < Start

VARIABLES
    config,     \* [approval, bundle]
    configs, runs,
    daily,      \* run() of each process, around its observe
    receipts    \* the newest receipt of each process; files are never changed

dailyVars == <<config, configs, runs, daily, receipts>>
fvars == <<ledgerVars, dailyVars>>

NoReceipt == [day |-> 0, outcome |-> "none", state |-> "none", attempt |-> 0]
Resting == [pc |-> "rest"]
Running(p, where) == daily[p].pc = where
-----------------------------------------------------------------------------
(* assess: a decision, read from frozen and point-in-time evidence.        *)

\* _attempt_state: the terminal events of completed and interrupted attempts
\* do not carry the session, so only open and failed ones are found.
AttemptsFor(d) ==
    {a \in DOMAIN attempts :
        attempts[a].day = d /\ attempts[a].status \in {"running", "failed"}}

AttemptState(d) ==
    IF AttemptsFor(d) = {} THEN "none"
    ELSE attempts[Max(AttemptsFor(d))].status

\* Mutant of SessionState: how long ago the session was does not matter.
SessionStateWithBackfill(d, t, b) ==
    LET captured == bundles[b].captured IN
    CASE captured > t -> "data_missing"
      [] captured <= t /\ d \notin Sessions -> "market_closed"
      [] captured <= t /\ d \in Sessions /\ t < Close(d) -> "not_due"
      [] captured <= t /\ d \in Sessions /\ Close(d) <= t ->
            IF bundles[b].rows[d] = 0 THEN "data_missing" ELSE "ready"
\* The covered calendar, the capture and the session's rows; t is run()'s now.
SessionState(d, t, b) ==
    LET captured == bundles[b].captured IN
    CASE captured > t -> "data_missing"
      [] captured <= t /\ d \notin Sessions -> "market_closed"
      [] captured <= t /\ d \in Sessions /\ t < Close(d) -> "not_due"
      [] captured <= t /\ d \in Sessions /\ Close(d) <= t ->
            IF captured < Close(d) THEN "data_missing"
            ELSE IF ~LatestClosed(d, t) \/ ~LatestClosed(d, captured)
                 THEN "historical_backfill_blocked"
            ELSE IF bundles[b].rows[d] = 0 THEN "data_missing" ELSE "ready"

\* The registration, the saved observations and every frozen identity.
Verified == Loaded /\ Intact /\ config.bundle # 0

\* bound: _binding_only, the gate's question whether the plan still stands.
AssessState(d, t, lockOwned, bound) ==
    IF ~Verified THEN "verification_failed"
    ELSE IF ~bound /\ \E a \in Completed : Observed(a).as_of >= d
         THEN "completed"
    ELSE IF sealed # None THEN "sealed"
    ELSE IF AttemptState(d) = "running" /\ ~lockOwned /\ lock # Nobody
         THEN "running"
    ELSE IF config.approval # "approved" THEN "paused"
    ELSE IF d < Start \/ d > End THEN "outside_window"
    ELSE IF ~PastUnchanged(config.bundle) THEN "verification_failed"
    ELSE IF SessionState(d, t, config.bundle) # "ready"
         THEN SessionState(d, t, config.bundle)
    ELSE CASE AttemptState(d) = "running" -> "interrupted"
           [] AttemptState(d) = "failed" -> "retryable_failure"
           [] AttemptState(d) = "none" -> "ready"

Runnable == {"ready", "interrupted", "retryable_failure"}   \* action "run"
-----------------------------------------------------------------------------
\* A registered account, the evening before it starts.
FInit ==
    /\ clock = Close(Start - 1)
    /\ bundles = <<[captured |-> clock, manifest |-> 1, rows |->
          [s \in Sessions |-> IF s \in LastClosed(clock) THEN 1 ELSE 0]]>>
    /\ registry = [stage |-> "registered", definition |->
          [choice |-> CHOOSE r \in Recipes : TRUE,
           cutoff |-> Max(LastClosed(clock)),
           prefix |-> Prefix(1, Max(LastClosed(clock)))]]
    /\ accountFile = registry.definition /\ accountTemp = "none"
    /\ attempts = <<>> /\ damaged = {} /\ latest = 0
    /\ rewrites = 0 /\ restored = {}
    /\ sealed = None /\ evaluation = None
    /\ lock = Nobody /\ op = [p \in Procs |-> Idle]
    /\ config = [approval |-> "paused", bundle |-> 0]
    /\ configs = 0 /\ runs = 0
    /\ daily = [p \in Procs |-> Resting]
    /\ receipts = [p \in Procs |-> NoReceipt]

Receipt(p, outcome, state, attempt) ==
    /\ receipts' = [receipts EXCEPT ![p] =
          [day |-> daily[p].day, outcome |-> outcome, state |-> state,
           attempt |-> attempt]]
    /\ daily' = [daily EXCEPT ![p] = Resting]

\* load_config at the top of run().
Call(p, d) ==
    /\ Running(p, "rest") /\ Doing(p, "idle")
    /\ runs < MaxRuns
    /\ runs' = runs + 1
    /\ daily' = [daily EXCEPT ![p] = [pc |-> "assess", day |-> d,
                                      now |-> clock, config |-> config,
                                      expected |-> None]]
    /\ UNCHANGED <<ledgerVars, config, configs, receipts>>

\* The plan, the refusals before anything is executed, and their receipts.
Plan(p) ==
    /\ Running(p, "assess")
    /\ LET state == AssessState(daily[p].day, daily[p].now, FALSE, FALSE) IN
       \/ /\ daily[p].config # config
          /\ Receipt(p, "failed", "execution_binding_changed", 0)
       \/ /\ daily[p].config = config /\ state \notin Runnable
          /\ Receipt(p, IF state = "completed" THEN "success" ELSE "blocked",
                     state, 0)
       \/ /\ daily[p].config = config /\ state \in Runnable
          /\ daily' = [daily EXCEPT
                          ![p].pc = "observe",
                          ![p].expected = Identity(config.bundle)]
          /\ UNCHANGED receipts
    /\ UNCHANGED <<ledgerVars, config, configs, runs>>

\* paper.observe with the inputs its recipe names by now, whichever they are.
EnterDaily(p) ==
    /\ Running(p, "observe")
    /\ \E b \in DOMAIN bundles : Enter(p, daily[p].day, b, daily[p].now)
    /\ daily' = [daily EXCEPT ![p].pc = "native"]
    /\ UNCHANGED <<config, configs, runs, receipts>>

\* A check of observe fails, or the lock is taken.
NativeRefuses(p) ==
    /\ Running(p, "observe")
    /\ Receipt(p, "failed", "execution_failed", 0)
    /\ UNCHANGED <<ledgerVars, config, configs, runs>>

\* Mutant of GateHolds: the plan stands, its inputs are not read again.
GateHoldsForPlan(p) ==
    /\ AssessState(daily[p].day, daily[p].now, TRUE, TRUE) \in Runnable
    /\ op[p].evidence = daily[p].expected
    /\ config = daily[p].config
\* execution_gate: the plan still stands, for the inputs observe has read.
GateHolds(p) ==
    /\ AssessState(daily[p].day, daily[p].now, TRUE, TRUE) \in Runnable
    /\ op[p].evidence = daily[p].expected
    /\ config = daily[p].config
    /\ Identity(config.bundle) = daily[p].expected

ReuseDaily(p) ==
    /\ Running(p, "native") /\ Reuse(p) /\ GateHolds(p)
    /\ Observed(Newest).identity = op[p].evidence
    /\ daily' = [daily EXCEPT ![p].pc = "verify"]
    /\ UNCHANGED <<config, configs, runs, receipts>>

AdmitDaily(p) ==
    /\ Running(p, "native") /\ Admit(p) /\ GateHolds(p)
    /\ UNCHANGED dailyVars

PassDaily(p) ==
    /\ Running(p, "native") /\ Pass(p) /\ GateHolds(p)
    /\ UNCHANGED dailyVars

\* A gate that refuses before there is an attempt.
Refuse(p) ==
    /\ Running(p, "native")
    /\ \/ op[p].pc = "admit" /\ ~GateHolds(p)
       \/ /\ op[p].pc = "reuse"
          /\ ~(GateHolds(p) /\ Observed(Newest).identity = op[p].evidence)
    /\ Leave(p)
    /\ Receipt(p, "failed", "execution_failed", 0)
    /\ UNCHANGED <<Registration, World, Record, config, configs, runs>>

ObserveDaily(p) ==
    /\ Running(p, "native") /\ Observing(p)
    /\ UNCHANGED dailyVars

PublishDaily(p) ==
    /\ Running(p, "native") /\ Publish(p)
    /\ daily' = [daily EXCEPT ![p].pc = "verify"]
    /\ UNCHANGED <<config, configs, runs, receipts>>

FailDaily(p) ==
    /\ Running(p, "native") /\ Fail(p)
    /\ Receipt(p, "failed", "execution_failed", 0)
    /\ UNCHANGED <<config, configs, runs>>

\* After the lock: the result is looked up again in the registry.
Verify(p) ==
    /\ Running(p, "verify")
    /\ \/ /\ Intact /\ Observed(Newest).as_of = daily[p].day
          /\ Receipt(p, "success", "completed", Newest)
       \/ /\ ~(Intact /\ Observed(Newest).as_of = daily[p].day)
          /\ Receipt(p, "failed", "execution_failed", 0)
    /\ UNCHANGED <<ledgerVars, config, configs, runs>>

CrashDaily(p) ==
    /\ ~Running(p, "rest")
    /\ daily' = [daily EXCEPT ![p] = Resting]
    /\ \/ Crash(p)
       \/ Doing(p, "idle") /\ UNCHANGED ledgerVars
    /\ UNCHANGED <<config, configs, runs, receipts>>

Configure(approval, b) ==
    /\ configs < MaxConfigs
    /\ config' = [approval |-> approval, bundle |-> b]
    /\ config' # config
    /\ configs' = configs + 1
    /\ UNCHANGED <<ledgerVars, runs, daily, receipts>>

\* Sealing and the world, as in the ledger.
Elsewhere ==
    /\ \/ Surroundings
       \/ \E p \in Procs :
             /\ Running(p, "rest")
             /\ Sealing(p) \/ Crash(p)
    /\ UNCHANGED dailyVars

FNext ==
    \/ Elsewhere
    \/ \E approval \in {"paused", "approved"}, b \in {0} \cup DOMAIN bundles :
          Configure(approval, b)
    \/ \E p \in Procs :
          \/ \E d \in Days : Call(p, d)
          \/ Plan(p) \/ EnterDaily(p) \/ NativeRefuses(p)
          \/ ReuseDaily(p) \/ AdmitDaily(p) \/ PassDaily(p) \/ Refuse(p)
          \/ ObserveDaily(p) \/ PublishDaily(p) \/ FailDaily(p)
          \/ Verify(p) \/ CrashDaily(p)

FSpec == FInit /\ [][FNext]_fvars
-----------------------------------------------------------------------------
FTypeOK ==
    /\ LedgerTypeOK
    /\ config.bundle \in 0 .. Len(bundles)
    /\ configs \in Nat /\ runs \in Nat
    /\ \A p \in Procs : daily[p].pc \in
          {"rest", "assess", "observe", "native", "verify"}
    /\ \A p \in Procs : receipts[p].outcome \in
          {"none", "success", "blocked", "failed"}

\* Nothing is backfilled: what a run commits was captured after its session's
\* close and before the next session's, however long the run waited or how
\* often its configuration and its inputs changed meanwhile.
NoBackfill ==
    \A a \in Completed :
        LET r == Observed(a) IN
        /\ LatestClosed(r.as_of, r.identity.captured)
        /\ r.identity.rows[r.as_of] > 0

\* The rows the executor read, and the past the observation records, are
\* those its identity names, although they are read at different times and
\* the inputs may be changed between.  The gates compare what is there when
\* they look: only a row that was changed and changed back can pass by them.
CommittedOnItsInputs ==
    \A a \in Completed :
        LET r == Observed(a) IN
        /\ \A s \in Sessions : <<r.inputs, s>> \notin restored =>
              /\ r.read.rows[s] = r.identity.rows[s]
              /\ s \in Known(r.as_of) => r.prefix[s] = r.identity.rows[s]
        /\ r.read.manifest = r.identity.manifest

\* A receipt that reports a native attempt speaks of a committed observation
\* of its session, and no session has two.
ReceiptsAreTrue ==
    /\ \A r \in Range(receipts) : r.attempt # 0 =>
          r.attempt \in Completed /\ Observed(r.attempt).as_of = r.day
    /\ \A a, b \in Completed :
          Observed(a).as_of = Observed(b).as_of => a = b

\* A run that reports success for a session leaves it observed.
SuccessIsObserved ==
    \A r \in Range(receipts) : r.outcome = "success" =>
        \E a \in Completed : Observed(a).as_of >= r.day

\* Whatever was told of a run is so, and no session is observed twice.
RunsAreTold == FTypeOK /\ ReceiptsAreTrue /\ SuccessIsObserved
=============================================================================
