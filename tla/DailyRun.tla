------------------------------ MODULE DailyRun ------------------------------
(***************************************************************************)
(* The close-of-day run of src/quant_pipeline/daily.py: an exclusive lock  *)
(* file, the input step, the decision producer and the pointer it          *)
(* publishes, the steps after it, and what is told of the run.             *)
(*                                                                         *)
(* The lock is a file: it stays when its process is killed, and so does    *)
(* the producer, until an operator who follows docs/DAILY_RESEARCH.md sees *)
(* that nothing runs any more and removes it.  Index, account, report and  *)
(* alert sidecar only tell whether they were all good.                     *)
(***************************************************************************)
EXTENDS Naturals, FiniteSets

CONSTANTS
    Procs,
    DataConfigured,     \* settings have a data_config
    MaxRuns             \* bound: invocations that got the lock

VARIABLES
    lock,           \* whose .pipeline.lock it is
    count,          \* invocations that got the lock
    latest,         \* latest.json
    operation,      \* operation-latest.json
    notification,   \* notification-latest.json
    producers,      \* producer processes that have not ended
    ctl             \* the run of each process

runVars == <<lock, count, latest, operation, notification, producers, ctl>>
told == <<operation, notification>>
-----------------------------------------------------------------------------
Nobody == CHOOSE n : n \notin Procs
Idle == [pc |-> "idle"]
At(p, where) == ctl[p].pc = where
Run(p) == ctl[p].run

Init ==
    /\ lock = Nobody /\ count = 0 /\ producers = {}
    /\ latest = [run |-> 0, status |-> "ready"]
    /\ operation = [run |-> 0, status |-> "completed", decided |-> TRUE]
    /\ notification = [run |-> 0, notify |-> FALSE]
    /\ ctl = [p \in Procs |-> Idle]

\* The lock file, created or refused.
Begin(p) ==
    /\ At(p, "idle") /\ lock = Nobody /\ count < MaxRuns
    /\ lock' = p /\ count' = count + 1
    /\ ctl' = [ctl EXCEPT ![p] =
          [pc |-> "inputs", run |-> count + 1, good |-> TRUE, status |-> "blocked",
           old |-> latest, decided |-> FALSE]]
    /\ UNCHANGED <<latest, told, producers>>

Goto(p, where, good) ==
    ctl' = [ctl EXCEPT ![p].pc = where, ![p].good = @ /\ good]

\* The snapshot is there, its step has failed, or nothing could be asked for.
Inputs(p) ==
    /\ At(p, "inputs")
    /\ \/ Goto(p, "decision", TRUE)
       \/ DataConfigured /\ (Goto(p, "decision", FALSE) \/ Goto(p, "save", FALSE))
    /\ UNCHANGED <<lock, count, latest, told, producers>>

\* The pointer as it was, and the producer.
Decide(p) ==
    /\ At(p, "decision")
    /\ producers' = producers \cup {Run(p)}
    /\ ctl' = [ctl EXCEPT ![p].pc = "deciding", ![p].decided = TRUE,
                          ![p].old = latest]
    /\ UNCHANGED <<lock, count, latest, told>>

\* The producer publishes once or not at all, and ends: by itself, or killed
\* by the timeout of the process that still waits for it.
Produce(r) ==
    /\ r \in producers /\ latest.run # r
    /\ \E status \in {"ready", "blocked"} : latest' = [run |-> r, status |-> status]
    /\ UNCHANGED <<lock, count, told, producers, ctl>>
Waits(p, r) == At(p, "deciding") /\ Run(p) = r
ProducerEnds(r) ==
    /\ r \in producers /\ producers' = producers \ {r}
    /\ \E good \in BOOLEAN :
          ctl' = [p \in Procs |->
                    IF Waits(p, r)
                    THEN [ctl[p] EXCEPT !.pc = "judge", !.good = @ /\ good]
                    ELSE ctl[p]]
    /\ UNCHANGED <<lock, count, latest, told>>

\* Nothing was published: the run's own blocked card.
Published(p) == latest # ctl[p].old
Judge(p) ==
    /\ At(p, "judge")
    /\ IF Published(p) THEN UNCHANGED latest
       ELSE latest' = [run |-> Run(p), status |-> "blocked"]
    /\ Goto(p, "read", TRUE)
    /\ UNCHANGED <<lock, count, told, producers>>
Read(p) ==
    /\ At(p, "read")
    /\ \/ ctl' = [ctl EXCEPT ![p].pc = "rest", ![p].status = latest.status]
       \/ Goto(p, "save", FALSE)   \* the decision it names cannot be read
    /\ UNCHANGED <<lock, count, latest, told, producers>>
\* Index, account, report and alerts.
Rest(p) ==
    /\ At(p, "rest")
    /\ \E good \in BOOLEAN : Goto(p, "save", good)
    /\ UNCHANGED <<lock, count, latest, told, producers>>
-----------------------------------------------------------------------------
Completed(p) == ctl[p].good /\ ctl[p].status # "blocked"

SaveOperation(p) ==
    /\ At(p, "save")
    /\ operation' = [run |-> Run(p), decided |-> ctl[p].decided,
                     status |-> IF Completed(p) THEN "completed" ELSE "failed"]
    /\ Goto(p, "notify", TRUE)
    /\ UNCHANGED <<lock, count, latest, notification, producers>>
\* build_notification, with or without alerts to act upon.
Notify(p) ==
    /\ At(p, "notify")
    /\ \E alerts \in BOOLEAN :
          notification' = [run |-> Run(p), notify |-> ~Completed(p) \/ alerts]
    /\ Goto(p, "unlock", TRUE)
    /\ UNCHANGED <<lock, count, latest, operation, producers>>
\* A file cannot be saved: the lock goes all the same.
SaveFails(p) ==
    /\ At(p, "save") \/ At(p, "notify")
    /\ Goto(p, "unlock", FALSE)
    /\ UNCHANGED <<lock, count, latest, told, producers>>
Unlock(p) ==
    /\ At(p, "unlock") /\ lock' = Nobody
    /\ ctl' = [ctl EXCEPT ![p] = Idle]
    /\ UNCHANGED <<count, latest, told, producers>>

Kill(p) ==
    /\ ~At(p, "idle") /\ ctl' = [ctl EXCEPT ![p] = Idle]
    /\ UNCHANGED <<lock, count, latest, told, producers>>
\* The operator has looked for runs and producers.
MayRemove == producers = {} /\ \A p \in Procs : At(p, "idle")
RemoveLock ==
    /\ lock # Nobody /\ MayRemove /\ lock' = Nobody
    /\ UNCHANGED <<count, latest, told, producers, ctl>>

Step(p) ==
    \/ Inputs(p) \/ Decide(p) \/ Judge(p) \/ Read(p) \/ Rest(p)
    \/ SaveOperation(p) \/ Notify(p) \/ Unlock(p)
Next ==
    \/ RemoveLock
    \/ \E p \in Procs : Begin(p) \/ Step(p) \/ SaveFails(p) \/ Kill(p)
    \/ \E r \in 1 .. MaxRuns : Produce(r) \/ ProducerEnds(r)

Spec == Init /\ [][Next]_runVars
-----------------------------------------------------------------------------
Pcs == {"inputs", "decision", "deciding", "judge", "read", "rest", "save",
        "notify", "unlock"}
Cards == [run : Nat, status : {"ready", "blocked"}]
Runs == [pc : Pcs, run : Nat, good : BOOLEAN, status : {"ready", "blocked"},
         old : Cards, decided : BOOLEAN]

\* Every file holds a value of its kind, and a run is where it can be.
TypeOK ==
    /\ lock \in Procs \cup {Nobody} /\ count \in Nat
    /\ producers \subseteq Nat
    /\ latest \in Cards
    /\ operation \in [run : Nat, status : {"completed", "failed"},
                      decided : BOOLEAN]
    /\ notification \in [run : Nat, notify : BOOLEAN]
    /\ ctl \in [Procs -> Runs \cup {Idle}]

\* A run that reached its decision never leaves the pointer of an older one,
\* whatever its producer did, also beside one that a killed run left behind
\* (docs/DAILY_RESEARCH.md: an older successful pointer is never reused).
OldPointerIsNotReused ==
    operation.decided => latest.run >= operation.run

\* What a completed run says of its decision is what its own producer decided.
CompletedIsItsOwn ==
    [][operation' # operation /\ operation'.status = "completed" =>
          latest = [run |-> operation'.run, status |-> "ready"]]_runVars

\* Silence: nobody is told nothing of the newest run unless it was completed.
QuietMeansCompleted ==
    ~notification.notify /\ notification.run = operation.run =>
        operation.status = "completed"
=============================================================================
