---------------------------- MODULE JobLifecycle ----------------------------
(***************************************************************************)
(* What the durable job store promises about ONE job, with every attempt,  *)
(* lease, worker and journal row abstracted away.  DurableJobs implements  *)
(* it for each of its jobs (DurableJobs!EveryJobFollowsLifecycle).         *)
(***************************************************************************)
EXTENDS Naturals

CONSTANT AttemptLimit   \* the largest max_attempts a request may ask for

VARIABLES
    status,             \* what a caller of get() sees
    tries,              \* attempts begun so far
    cancelling,         \* a cancellation was accepted
    budget              \* max_attempts of the request, 0 before submission

jobVars == <<status, tries, cancelling, budget>>

Final == {"succeeded", "failed", "cancelled"}

Init ==
    /\ status = "absent"
    /\ tries = 0
    /\ cancelling = FALSE
    /\ budget = 0

Submit ==
    /\ status = "absent"
    /\ status' = "queued"
    /\ budget' \in 1 .. AttemptLimit
    /\ UNCHANGED <<tries, cancelling>>

\* A worker begins an attempt.  The job may have been running until this very
\* step: one claim both gives up a lapsed attempt and begins the next one.
Begin ==
    /\ status \in {"queued", "running"}
    /\ ~cancelling
    /\ tries < budget
    /\ status' = "running"
    /\ tries' = tries + 1
    /\ UNCHANGED <<cancelling, budget>>

\* The running attempt is over and another one is allowed.
Requeue ==
    /\ status = "running"
    /\ ~cancelling
    /\ tries < budget
    /\ status' = "queued"
    /\ UNCHANGED <<tries, cancelling, budget>>

\* The running attempt decides the job; once cancellation was accepted the
\* only decision left is "cancelled".
Decide ==
    /\ status = "running"
    /\ status' \in IF cancelling THEN {"cancelled"} ELSE Final
    /\ UNCHANGED <<tries, cancelling, budget>>

Cancel ==
    /\ status \in {"queued", "running"}
    /\ ~cancelling
    /\ cancelling' = TRUE
    /\ status' = IF status = "queued" THEN "cancelled" ELSE "running"
    /\ UNCHANGED <<tries, budget>>

Next == Submit \/ Begin \/ Requeue \/ Decide \/ Cancel

Spec == Init /\ [][Next]_jobVars
=============================================================================
