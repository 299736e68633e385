--------------------------- MODULE RecoveryProofs ---------------------------
(***************************************************************************)
(* The two components that take up what a killed process left behind.      *)
(*                                                                         *)
(* DagRunner: what a run's checkpoint guarantees for any pipeline, any     *)
(* number of processes that are killed anywhere, and any changes made to   *)
(* the workspace meanwhile.  The inductive invariant has one part per pair *)
(* of things that have to agree: process and rows, executions and          *)
(* attempts, rows and the graph, consumers and producers, hashes and       *)
(* files, attempts and logs.                                               *)
(*                                                                         *)
(* Registration: what the directories and the receipt of an account say    *)
(* for any number of previews, confirmations, edits and kills.  The        *)
(* invariant has a part for the accounts at any moment and one for what    *)
(* the holder of the lock knows of its own.                                *)
(***************************************************************************)
EXTENDS DagRunner, Registration, FiniteSetTheorems, TLAPS

\* Phases of an attempt, and those in which steps are decided.
Busy == {"attempt", "logging", "judge"}
Up == Busy \cup {"loop", "backoff"}
\* What _hash_artifact accepts as content c of artifact a.
Fit(a, c) == IF c = Missing THEN a \in Optional ELSE c \in Allowed[a]

\* A step is running exactly while its attempt is under way, or after a crash
\* inside it; nothing is recorded before the checkpoint is.
ProcessOK ==
    /\ pc \in Busy \cup {"backoff"} => pos <= Len(Topology)
    /\ pc \in Busy => Status(Current) = "running"
    /\ pc = "backoff" =>
          Status(Current) = "pending" /\ disk.attempts[Current] > 0
    /\ \A s \in Steps : Status(s) = "running" =>
          pc = "down" \/ (pc \in Busy /\ s = Current)
    /\ \A s, t \in Steps : Status(s) = "running" /\ Status(t) = "running" => s = t
    /\ pc = "down" => pos = 1
    /\ ~disk.saved => /\ pc = "down" /\ disk = NoCheckpoint
                      /\ \A s \in Steps : executions[s] = 0

\* The process knows of every failure that stops the run.
StoppingOK ==
    /\ pc \in Up /\ Failing => stopping
    /\ pc \in Busy \cup {"backoff"} => ~stopping

\* Executions of a step against its recorded attempts: one more while it runs.
Counted(s) ==
    /\ executions[s] >= disk.attempts[s] /\ executions[s] <= disk.attempts[s] + 1
    /\ executions[s] <= MaxAttempts[s]
    /\ Status(s) \in {"pending", "running"} =>
          /\ disk.attempts[s] < MaxAttempts[s]
          /\ s \in Gates => disk.attempts[s] = 0
    /\ Status(s) = "pending" => executions[s] = disk.attempts[s]
    /\ Status(s) # "running" /\ "log" \notin touchedLive =>
          executions[s] = disk.attempts[s]
    /\ pc = "attempt" /\ s = Current => executions[s] = disk.attempts[s]
    /\ pc \in {"logging", "judge"} /\ s = Current =>
          executions[s] = disk.attempts[s] + 1
    /\ s \in Gates => executions[s] <= 1

\* Hashes are recorded for all inputs at once and for declared artifacts only,
\* once the needs are met; all output hashes are those of a completed step.
Noted(s, a) == disk.inputs[s][a] # Unrecorded
Kept(s, a) == disk.outputs[s][a] # Unrecorded
Ran(s) == \/ Status(s) \in {"running", "succeeded", "cached"}
          \/ disk.attempts[s] > 0
RecordOK(s) ==
    /\ \A a \in Artifacts : Noted(s, a) =>
          a \in Inputs[s] /\ Fit(a, disk.inputs[s][a])
    /\ (Ran(s) \/ \E a \in Artifacts : Noted(s, a)) =>
          /\ \A a \in Inputs[s] : Noted(s, a)
          /\ \A d \in Needs[s] : Status(d) \in Successful
    /\ \A a \in Artifacts : Kept(s, a) =>
          /\ a \in Outputs[s] /\ Fit(a, disk.outputs[s][a])
          /\ Status(s) \in Completed
    /\ Status(s) \in Completed => \A a \in Outputs[s] : Kept(s, a)

\* A consumer has noted what a completed producer has kept.
LinksOK ==
    \A s, d \in Steps : \A a \in (Inputs[s] \cap Outputs[d]) \ touchedLive :
        Noted(s, a) /\ Status(d) \in Completed =>
            disk.inputs[s][a] = disk.outputs[d][a]

\* The resume has come past step s, or is over.
Seen(s) == \/ pc \in Up
           \/ pc = "cache" /\ \E i \in DOMAIN Topology : i < pos /\ Topology[i] = s
\* What is recorded lies in the workspace, unless somebody else changed it.
MatchOK ==
    \A s \in Steps, a \in Artifacts :
        /\ Noted(s, a)
           /\ (touched = {} \/ (pc # "down" /\ a \notin touchedLive)) =>
              files[a] = disk.inputs[s][a]
        /\ Kept(s, a)
           /\ (touched = {} \/ (Seen(s) /\ a \notin touchedLive)) =>
              files[a] = disk.outputs[s][a]

\* The logs of recorded attempts are there, the one to come is not.
LogsOK ==
    /\ pc = "logging" /\ "log" \notin touchedLive => NextLog(Current) \notin logs
    /\ touched = {} =>
          /\ \A s \in Steps : \A n \in 1 .. disk.attempts[s] : <<s, n>> \in logs
          /\ pc = "judge" => NextLog(Current) \in logs

RInv ==
    /\ TypeOK /\ ProcessOK /\ StoppingOK
    /\ \A s \in Steps : Counted(s) /\ RecordOK(s)
    /\ LinksOK /\ MatchOK /\ LogsOK
-----------------------------------------------------------------------------
(* The constants, and rows of the checkpoint.                              *)

LEMMA GraphFacts ==
    /\ Len(Topology) \in Nat /\ DOMAIN Topology = 1 .. Len(Topology)
    /\ \A i \in 1 .. Len(Topology) : Topology[i] \in Steps
    /\ \A s \in Steps : \E i \in 1 .. Len(Topology) : Topology[i] = s
    /\ \A i, k \in 1 .. Len(Topology) : Topology[i] = Topology[k] => i = k
    /\ \A s \in Steps : /\ Needs[s] \subseteq Steps /\ s \notin Needs[s]
                        /\ Inputs[s] \subseteq Artifacts
                        /\ Outputs[s] \subseteq Artifacts
                        /\ MaxAttempts[s] \in Nat /\ MaxAttempts[s] >= 1
    /\ \A s, t \in Steps, a \in Artifacts :
          /\ a \in Outputs[s] /\ a \in Outputs[t] => s = t
          /\ a \in Inputs[s] /\ a \in Outputs[t] => t \in Needs[s] /\ s # t
    /\ Missing # Unrecorded /\ Unrecorded \notin Contents
    /\ Missing \notin Contents
PROOF
  <1>1. /\ Len(Topology) \in Nat /\ DOMAIN Topology = 1 .. Len(Topology)
        /\ \A i \in 1 .. Len(Topology) : Topology[i] \in Steps
    BY GraphAssumption
  <1>2. /\ \A s \in Steps : \E i \in 1 .. Len(Topology) : Topology[i] = s
        /\ \A i, k \in 1 .. Len(Topology) : Topology[i] = Topology[k] => i = k
    BY <1>1, GraphAssumption
  <1>3. \A s \in Steps : s \notin Needs[s]
    <2> TAKE s \in Steps
    <2>1. PICK i \in 1 .. Len(Topology) : Topology[i] = s
      BY <1>2
    <2> QED
      BY <1>1, <2>1, GraphAssumption
  <1>4. \A s \in Steps : /\ Needs[s] \subseteq Steps
                        /\ Inputs[s] \subseteq Artifacts
                        /\ Outputs[s] \subseteq Artifacts
                        /\ MaxAttempts[s] \in Nat /\ MaxAttempts[s] >= 1
    BY GraphAssumption, ArtifactAssumption, RetryAssumption
  <1>5. ASSUME NEW s \in Steps, NEW t \in Steps, NEW a \in Artifacts
        PROVE  /\ a \in Outputs[s] /\ a \in Outputs[t] => s = t
               /\ a \in Inputs[s] /\ a \in Outputs[t] => t \in Needs[s]
    BY ArtifactAssumption
  <1> QED
    BY <1>1, <1>2, <1>3, <1>4, <1>5, ArtifactAssumption

\* Row s of the checkpoint becomes what is said, all others stay.
RowBecomes(s, st, n, in, out) ==
    /\ disk' \in Checkpoint /\ disk'.saved = disk.saved
    /\ disk'.status[s] = st /\ disk'.attempts[s] = n
    /\ disk'.inputs[s] = in /\ disk'.outputs[s] = out
    /\ \A t \in Steps \ {s} : /\ disk'.status[t] = disk.status[t]
                             /\ disk'.attempts[t] = disk.attempts[t]
                             /\ disk'.inputs[t] = disk.inputs[t]
                             /\ disk'.outputs[t] = disk.outputs[t]

LEMMA HashesType ==
    ASSUME files \in [Artifacts -> Contents \cup {Missing}], NEW S
    PROVE  /\ HashesOf(S) \in Hashes
           /\ \A a \in Artifacts :
                 HashesOf(S)[a] = IF a \in S THEN files[a] ELSE Unrecorded
PROOF BY DEF HashesOf, Hashes

LEMMA StatusRow ==
    ASSUME disk \in Checkpoint, NEW s \in Steps, NEW st \in StepStatus,
           disk' = [disk EXCEPT !.status[s] = st]
    PROVE  RowBecomes(s, st, disk.attempts[s], disk.inputs[s], disk.outputs[s])
PROOF
  BY DEF Checkpoint, RowBecomes

LEMMA BeginRow ==
    ASSUME disk \in Checkpoint, NEW s \in Steps, NEW in \in Hashes,
           NEW more \in SUBSET Steps,
           disk' = [disk EXCEPT !.status[s] = "running", !.inputs[s] = in,
                                !.rekeyed = @ \cup more]
    PROVE  RowBecomes(s, "running", disk.attempts[s], in, disk.outputs[s])
PROOF
  BY DEF Checkpoint, RowBecomes, StepStatus

LEMMA AttemptRow ==
    ASSUME disk \in Checkpoint, NEW s \in Steps, NEW st \in StepStatus,
           disk' = [disk EXCEPT !.status[s] = st, !.attempts[s] = @ + 1]
    PROVE  RowBecomes(s, st, disk.attempts[s] + 1, disk.inputs[s],
                      disk.outputs[s])
PROOF
  <1> DEFINE counts == [disk.attempts EXCEPT ![s] = @ + 1]
             states == [disk.status EXCEPT ![s] = st]
  <1>1. /\ counts \in [Steps -> Nat] /\ counts[s] = disk.attempts[s] + 1
        /\ \A t \in Steps \ {s} : counts[t] = disk.attempts[t]
    BY DEF Checkpoint
  <1>2. /\ states \in [Steps -> StepStatus] /\ states[s] = st
        /\ \A t \in Steps \ {s} : states[t] = disk.status[t]
    BY DEF Checkpoint
  <1>3. disk' = [disk EXCEPT !.status = states, !.attempts = counts]
    OBVIOUS
  <1> HIDE DEF counts, states
  <1> QED
    BY <1>1, <1>2, <1>3 DEF Checkpoint, RowBecomes

LEMMA SucceedRow ==
    ASSUME disk \in Checkpoint, NEW s \in Steps, NEW out \in Hashes,
           disk' = [disk EXCEPT !.status[s] = "succeeded", !.attempts[s] = @ + 1,
                                !.outputs[s] = out]
    PROVE  RowBecomes(s, "succeeded", disk.attempts[s] + 1, disk.inputs[s], out)
PROOF
  <1> DEFINE counts == [disk.attempts EXCEPT ![s] = @ + 1]
             states == [disk.status EXCEPT ![s] = "succeeded"]
             kept == [disk.outputs EXCEPT ![s] = out]
  <1>1. /\ counts \in [Steps -> Nat] /\ counts[s] = disk.attempts[s] + 1
        /\ \A t \in Steps \ {s} : counts[t] = disk.attempts[t]
    BY DEF Checkpoint
  <1>2. /\ states \in [Steps -> StepStatus] /\ states[s] = "succeeded"
        /\ \A t \in Steps \ {s} : states[t] = disk.status[t]
    BY DEF Checkpoint, StepStatus
  <1>3. /\ kept \in [Steps -> Hashes] /\ kept[s] = out
        /\ \A t \in Steps \ {s} : kept[t] = disk.outputs[t]
    BY DEF Checkpoint
  <1>4. disk' = [disk EXCEPT !.status = states, !.attempts = counts,
                             !.outputs = kept]
    OBVIOUS
  <1> HIDE DEF counts, states, kept
  <1> QED
    BY <1>1, <1>2, <1>3, <1>4 DEF Checkpoint, RowBecomes

\* Which row the process is at.
LEMMA AtCurrent ==
    ASSUME RInv, pc \in Busy \cup {"backoff"} \/ pos <= Len(Topology)
    PROVE  /\ pos \in 1 .. Len(Topology) /\ Current \in Steps
PROOF
  <1>1. pos \in 1 .. Len(Topology)
    BY GraphFacts DEF RInv, TypeOK, ProcessOK
  <1> QED
    BY <1>1, GraphFacts DEF Current

LEMMA RowTypes ==
    ASSUME RInv, NEW s \in Steps
    PROVE  /\ disk \in Checkpoint /\ Status(s) \in StepStatus
           /\ disk.attempts[s] \in Nat /\ executions[s] \in Nat
           /\ disk.inputs[s] \in Hashes /\ disk.outputs[s] \in Hashes
PROOF BY DEF RInv, TypeOK, Checkpoint, Status

LEMMA HashableIsFit ==
    ASSUME NEW S, Hashable(S), NEW a \in S
    PROVE  Fit(a, files[a])
PROOF BY DEF Hashable, Fit

LEMMA InitRInv == Init => RInv
PROOF
  <1> SUFFICES ASSUME Init PROVE RInv
    OBVIOUS
  <1>1. /\ disk \in Checkpoint /\ ~disk.saved /\ disk = NoCheckpoint
        /\ \A s \in Steps : /\ Status(s) = "pending" /\ disk.attempts[s] = 0
                            /\ disk.inputs[s] = NoHashes
                            /\ disk.outputs[s] = NoHashes
    BY DEF Init, NoCheckpoint, FreshCheckpoint, Checkpoint, StepStatus, NoHashes,
           Hashes, Status
  <1>2. \A s \in Steps, a \in Artifacts : ~Noted(s, a) /\ ~Kept(s, a)
    BY <1>1 DEF Noted, Kept, NoHashes
  <1>3. TypeOK
    <2>1. /\ fail_fast \in BOOLEAN
          /\ files \in [Artifacts -> Contents \cup {Missing}]
          /\ logs = {} /\ pc = "down" /\ pos = 1 /\ dry = FALSE
          /\ stopping = FALSE /\ outcome = "none"
          /\ touched = {} /\ touchedLive = {} /\ tampers = 0
          /\ executions \in [Steps -> Nat]
      BY DEF Init
    <2>2. pos \in 1 .. Len(Topology) + 1 /\ tampers \in 0 .. MaxTampers
      BY <2>1, GraphFacts, RetryAssumption
    <2> QED
      BY <1>1, <2>1, <2>2 DEF TypeOK
  <1>4. ProcessOK /\ StoppingOK
    BY <1>1 DEF Init, ProcessOK, StoppingOK, Busy, Up
  <1>5. ASSUME NEW s \in Steps
        PROVE  Counted(s) /\ RecordOK(s)
    <2>1. Counted(s)
      BY <1>1, GraphFacts DEF Init, Counted
    <2>2. RecordOK(s)
      BY <1>1, <1>2 DEF RecordOK, Ran, Completed
    <2> QED
      BY <2>1, <2>2
  <1>6. LinksOK
    BY <1>2, GraphFacts DEF LinksOK
  <1>7. MatchOK /\ LogsOK
    BY <1>1, <1>2 DEF Init, MatchOK, LogsOK
  <1> QED
    BY <1>3, <1>4, <1>5, <1>6, <1>7 DEF RInv
-----------------------------------------------------------------------------
(* Steps that change no row.                                               *)

\* Only the process moves, to where no attempt is under way.
LEMMA ProcessMoves ==
    ASSUME RInv, UNCHANGED <<fail_fast, disk, files, logs, executions, envVars>>,
           pc' \in {"loop", "down", "cache"},
           pos' \in 1 .. Len(Topology) + 1,
           outcome' \in {"none", "ok", "matched", "error"},
           dry' \in BOOLEAN, stopping' \in BOOLEAN,
           pc' = "down" => pos' = 1,
           pc' # "down" => /\ disk.saved
                           /\ \A s \in Steps : Status(s) # "running",
           pc' = "loop" /\ Failing => stopping',
           pc' # "down" /\ pc = "down" =>
               \A s \in Steps : Recorded(s) => SameInputs(s),
           \A s \in Steps : Seen(s)' => Seen(s)
    PROVE  RInv'
PROOF
  <1>1. TypeOK'
    BY DEF RInv, TypeOK, envVars
  <1>2. ProcessOK'
    BY DEF RInv, ProcessOK, Status, Busy, NoCheckpoint, FreshCheckpoint
  <1>3. StoppingOK'
    BY DEF StoppingOK, Busy, Up, Failing, Status
  <1>4. ASSUME NEW s \in Steps
        PROVE  Counted(s)' /\ RecordOK(s)'
    <2>1. Counted(s) /\ RecordOK(s)
      BY DEF RInv
    <2>2. Counted(s)'
      BY <2>1 DEF Counted, Status, envVars
    <2>3. RecordOK(s)'
      BY <2>1 DEF RecordOK, Ran, Noted, Kept, Status
    <2> QED
      BY <2>2, <2>3
  <1>5. LinksOK'
    BY DEF RInv, LinksOK, Noted, Status, envVars
  <1>6. MatchOK'
    <2> SUFFICES ASSUME NEW s \in Steps, NEW a \in Artifacts
                 PROVE  /\ Noted(s, a)
                           /\ (touched = {} \/ (pc' # "down" /\ a \notin touchedLive))
                           => files[a] = disk.inputs[s][a]
                        /\ Kept(s, a)
                           /\ (touched = {} \/ (Seen(s)' /\ a \notin touchedLive))
                           => files[a] = disk.outputs[s][a]
      BY DEF MatchOK, Noted, Kept, envVars
    <2>1. CASE pc = "down" /\ pc' # "down" /\ Noted(s, a)
      <3>1. RecordOK(s) /\ disk.inputs[s] \in Hashes
        BY RowTypes DEF RInv
      <3>2. a \in Inputs[s] /\ Recorded(s)
        BY <2>1, <3>1 DEF RecordOK, Noted, Recorded, NoHashes
      <3>3. disk.inputs[s] = HashesOf(Inputs[s])
        BY <2>1, <3>2 DEF SameInputs
      <3>4. files[a] = disk.inputs[s][a]
        BY <3>2, <3>3, HashesType DEF RInv, TypeOK
      <3> QED
        BY <3>4 DEF RInv, MatchOK
    <2>2. CASE ~(pc = "down" /\ pc' # "down" /\ Noted(s, a))
      BY <2>2 DEF RInv, MatchOK
    <2> QED
      BY <2>1, <2>2
  <1>7. LogsOK'
    BY DEF RInv, LogsOK, envVars
  <1> QED
    BY <1>1, <1>2, <1>3, <1>4, <1>5, <1>6, <1>7 DEF RInv

LEMMA SkipRInv ==
    ASSUME RInv, Skip, UNCHANGED fail_fast
    PROVE  RInv'
PROOF
  <1>1. /\ pc = "loop" /\ pos <= Len(Topology) /\ pc' = "loop"
        /\ pos' = pos + 1 /\ outcome' = "none" /\ dry' = dry
        /\ UNCHANGED <<fail_fast, disk, files, logs, executions, envVars, stopping>>
    BY DEF Skip, InLoop, GoOn
  <1>2. /\ pos' \in 1 .. Len(Topology) + 1 /\ dry' \in BOOLEAN
        /\ stopping' \in BOOLEAN
    BY <1>1, GraphFacts DEF RInv, TypeOK
  <1>3. disk.saved /\ \A s \in Steps : Status(s) # "running"
    BY <1>1 DEF RInv, ProcessOK, Busy
  <1>4. Failing => stopping
    BY <1>1 DEF RInv, StoppingOK, Up
  <1>5. \A s \in Steps : Seen(s)
    BY <1>1 DEF Seen, Up
  <1> QED
    BY <1>1, <1>2, <1>3, <1>4, <1>5, ProcessMoves

\* A process that ends, is killed or refuses to go on leaves the run as it is.
LEMMA EndRInv ==
    ASSUME RInv, Complete \/ Crash \/ Refuse, UNCHANGED fail_fast
    PROVE  RInv'
PROOF
  <1>1. End /\ UNCHANGED <<fail_fast, disk, files, logs, executions, envVars>>
    BY DEF Complete, Crash, Refuse
  <1>2. /\ pc' = "down" /\ pos' = 1 /\ outcome' = "none" /\ dry' = FALSE
        /\ stopping' = FALSE
    BY <1>1 DEF End
  <1>3. pos' \in 1 .. Len(Topology) + 1
    BY <1>2, GraphFacts
  <1>4. \A s \in Steps : ~Seen(s)'
    BY <1>2 DEF Seen, Up, Busy
  <1> QED
    BY <1>1, <1>2, <1>3, <1>4, ProcessMoves

LEMMA ResumedRInv ==
    ASSUME RInv, Resumed, UNCHANGED fail_fast
    PROVE  RInv'
PROOF
  <1>1. /\ pc = "cache" /\ pos > Len(Topology) /\ pc' = "loop" /\ pos' = 1
        /\ stopping' = Failing
        /\ UNCHANGED <<fail_fast, disk, files, logs, dry, outcome, executions, envVars>>
    BY DEF Resumed
  <1>2. /\ pos' \in 1 .. Len(Topology) + 1 /\ dry' \in BOOLEAN
        /\ stopping' \in BOOLEAN
    BY <1>1, GraphFacts DEF RInv, TypeOK, Failing
  <1>3. /\ disk.saved /\ \A s \in Steps : Status(s) # "running"
        /\ outcome' \in {"none", "ok", "matched", "error"}
    BY <1>1 DEF RInv, TypeOK, ProcessOK, Busy
  <1>4. \A s \in Steps : Seen(s)
    <2> TAKE s \in Steps
    <2>1. PICK i \in 1 .. Len(Topology) : Topology[i] = s
      BY GraphFacts
    <2>2. i < pos /\ i \in DOMAIN Topology
      BY <1>1, <2>1, GraphFacts DEF RInv, TypeOK
    <2> QED
      BY <1>1, <2>1, <2>2 DEF Seen
  <1> QED
    BY <1>1, <1>2, <1>3, <1>4, ProcessMoves

LEMMA ResumeRInv ==
    ASSUME RInv, NEW d \in BOOLEAN, Resume(d), UNCHANGED fail_fast
    PROVE  RInv'
PROOF
  <1>1. /\ pc = "down" /\ disk.saved /\ Valid /\ pc' = "cache" /\ dry' = d
        /\ UNCHANGED <<fail_fast, disk, files, logs, pos, stopping, outcome,
                       executions, envVars>>
    BY DEF Resume
  <1>2. /\ pos' \in 1 .. Len(Topology) + 1 /\ pos' = 1
        /\ stopping' \in BOOLEAN
        /\ outcome' \in {"none", "ok", "matched", "error"}
    BY <1>1 DEF RInv, TypeOK, ProcessOK
  <1>3. \A s \in Steps : Status(s) # "running" /\ (Recorded(s) => SameInputs(s))
    BY <1>1 DEF Valid
  <1>4. \A s \in Steps : ~Seen(s)'
    BY <1>1, <1>2, GraphFacts DEF Seen, Up, Busy
  <1> QED
    BY <1>1, <1>2, <1>3, <1>4, ProcessMoves

\* A first run writes the rows that were taken for granted before.
LEMMA RunRInv ==
    ASSUME RInv, NEW d \in BOOLEAN, Run(d), UNCHANGED fail_fast
    PROVE  RInv'
PROOF
  <1>1. /\ pc = "down" /\ ~disk.saved /\ logs = {} /\ disk' = FreshCheckpoint
        /\ pc' = "loop" /\ dry' = d
        /\ UNCHANGED <<fail_fast, files, logs, pos, stopping, outcome,
                       executions, envVars>>
    BY DEF Run
  <1>2. disk = NoCheckpoint /\ pos = 1 /\ \A s \in Steps : executions[s] = 0
    BY <1>1 DEF RInv, ProcessOK
  <1>3. /\ disk' \in Checkpoint /\ disk'.saved
        /\ \A s \in Steps : /\ disk'.status[s] = "pending"
                            /\ disk'.attempts[s] = 0
                            /\ disk'.inputs[s] = NoHashes
                            /\ disk'.outputs[s] = NoHashes
    BY <1>1 DEF FreshCheckpoint, Checkpoint, StepStatus, NoHashes, Hashes
  <1> HIDE DEF FreshCheckpoint
  <1>4. \A s \in Steps, a \in Artifacts : ~Noted(s, a)' /\ ~Kept(s, a)'
    BY <1>3 DEF Noted, Kept, NoHashes
  <1>5. TypeOK'
    BY <1>1, <1>3 DEF RInv, TypeOK, envVars
  <1>6. ProcessOK' /\ StoppingOK'
    BY <1>1, <1>3 DEF ProcessOK, StoppingOK, Busy, Up, Failing, Status
  <1>7. ASSUME NEW s \in Steps
        PROVE  Counted(s)' /\ RecordOK(s)'
    <2>1. Counted(s)'
      BY <1>1, <1>2, <1>3, GraphFacts DEF Counted, Status
    <2>2. RecordOK(s)'
      BY <1>3, <1>4 DEF RecordOK, Ran, Status, Completed
    <2> QED
      BY <2>1, <2>2
  <1>8. LinksOK'
    BY <1>4, GraphFacts DEF LinksOK
  <1>9. MatchOK' /\ LogsOK'
    BY <1>1, <1>3, <1>4 DEF MatchOK, LogsOK
  <1> QED
    BY <1>5, <1>6, <1>7, <1>8, <1>9 DEF RInv
-----------------------------------------------------------------------------
(* Changes from outside.                                                   *)

LEMMA TouchFacts ==
    ASSUME RInv, NEW x \in Artifacts \cup {"log"}, Touch(x)
    PROVE  /\ touched' = touched \cup {x} /\ touched' # {}
           /\ touched' \subseteq Artifacts \cup {"log"}
           /\ touchedLive' \subseteq touched' /\ touchedLive \subseteq touchedLive'
           /\ pc # "down" => x \in touchedLive'
           /\ tampers' \in 0 .. MaxTampers
PROOF
  BY RetryAssumption DEF Touch, RInv, TypeOK

LEMMA ChangeArtifactRInv ==
    ASSUME RInv, NEW b \in Artifacts, NEW c \in Contents \cup {Missing},
           ChangeArtifact(b, c), UNCHANGED fail_fast
    PROVE  RInv'
PROOF
  <1>1. /\ files' = [files EXCEPT ![b] = c] /\ Touch(b)
        /\ UNCHANGED <<fail_fast, disk, logs, procVars, executions>>
    BY DEF ChangeArtifact
  <1>2. /\ touched' # {} /\ touched' \subseteq Artifacts \cup {"log"}
        /\ touchedLive' \subseteq touched' /\ touchedLive \subseteq touchedLive'
        /\ pc # "down" => b \in touchedLive'
        /\ tampers' \in 0 .. MaxTampers
    BY <1>1, TouchFacts
  <1>3. TypeOK'
    BY <1>1, <1>2 DEF RInv, TypeOK, procVars
  <1>4. ProcessOK' /\ StoppingOK'
    <2>1. ProcessOK'
      BY <1>1 DEF RInv, ProcessOK, Status, Current, NoCheckpoint,
                  FreshCheckpoint, procVars
    <2>2. StoppingOK'
      BY <1>1 DEF RInv, StoppingOK, Status, Failing, procVars
    <2> QED
      BY <2>1, <2>2
  <1>5. ASSUME NEW s \in Steps
        PROVE  Counted(s)' /\ RecordOK(s)'
    <2>1. Counted(s) /\ RecordOK(s)
      BY DEF RInv
    <2>2. Counted(s)'
      BY <1>1, <1>2, <2>1 DEF Counted, Status, Current, procVars
    <2>3. RecordOK(s)'
      BY <1>1, <2>1 DEF RecordOK, Ran, Noted, Kept, Status
    <2> QED
      BY <2>2, <2>3
  <1>6. LinksOK'
    BY <1>1, <1>2 DEF RInv, LinksOK, Noted, Status
  <1>7. MatchOK'
    <2>1. \A s \in Steps : Seen(s)' => Seen(s) /\ pc # "down"
      BY <1>1 DEF Seen, Up, Busy, procVars
    <2>2. files \in [Artifacts -> Contents \cup {Missing}]
      BY DEF RInv, TypeOK
    <2> QED
      BY <1>1, <1>2, <2>1, <2>2 DEF RInv, MatchOK, Noted, Kept, procVars
  <1>8. LogsOK'
    BY <1>1, <1>2 DEF RInv, LogsOK, NextLog, Current, procVars
  <1> QED
    BY <1>3, <1>4, <1>5, <1>6, <1>7, <1>8 DEF RInv

LEMMA ChangeLogRInv ==
    ASSUME RInv, NEW log \in Logs, ChangeLog(log), UNCHANGED fail_fast
    PROVE  RInv'
PROOF
  <1>1. /\ logs' = IF log \in logs THEN logs \ {log} ELSE logs \cup {log}
        /\ Touch("log")
        /\ UNCHANGED <<fail_fast, disk, files, procVars, executions>>
    BY DEF ChangeLog
  <1>2. /\ touched' # {} /\ touched' \subseteq Artifacts \cup {"log"}
        /\ touchedLive' \subseteq touched' /\ touchedLive \subseteq touchedLive'
        /\ pc # "down" => "log" \in touchedLive'
        /\ tampers' \in 0 .. MaxTampers
    BY <1>1, TouchFacts
  <1>3. TypeOK'
    BY <1>1, <1>2 DEF RInv, TypeOK, procVars
  <1>4. ProcessOK' /\ StoppingOK'
    <2>1. ProcessOK'
      BY <1>1 DEF RInv, ProcessOK, Status, Current, NoCheckpoint,
                  FreshCheckpoint, procVars
    <2>2. StoppingOK'
      BY <1>1 DEF RInv, StoppingOK, Status, Failing, procVars
    <2> QED
      BY <2>1, <2>2
  <1>5. ASSUME NEW s \in Steps
        PROVE  Counted(s)' /\ RecordOK(s)'
    <2>1. Counted(s) /\ RecordOK(s)
      BY DEF RInv
    <2>2. Counted(s)'
      BY <1>1, <1>2, <2>1 DEF Counted, Status, Current, procVars
    <2>3. RecordOK(s)'
      BY <1>1, <2>1 DEF RecordOK, Ran, Noted, Kept, Status
    <2> QED
      BY <2>2, <2>3
  <1>6. LinksOK'
    BY <1>1, <1>2 DEF RInv, LinksOK, Noted, Status
  <1>7. MatchOK'
    <2>1. \A s \in Steps : Seen(s)' => Seen(s)
      BY <1>1 DEF Seen, Up, Busy, procVars
    <2> QED
      BY <1>1, <1>2, <2>1 DEF RInv, MatchOK, Noted, Kept, procVars
  <1>8. LogsOK'
    BY <1>1, <1>2 DEF LogsOK, NextLog, Current, procVars
  <1> QED
    BY <1>3, <1>4, <1>5, <1>6, <1>7, <1>8 DEF RInv
-----------------------------------------------------------------------------
(* Steps that change the row of the step the process is at.                *)

\* The rows of the others stay as good as they were.
LEMMA OtherRow ==
    ASSUME RInv, NEW s \in Steps, NEW t \in Steps \ {s},
           RowBecomes(s, disk'.status[s], disk'.attempts[s], disk'.inputs[s],
                      disk'.outputs[s]),
           Status(s) \in Successful => disk'.status[s] \in Successful,
           executions'[t] = executions[t], touchedLive' = touchedLive,
           pc' \in Busy => Current' = s
    PROVE  Counted(t)' /\ RecordOK(t)'
PROOF
  <1>1. Counted(t) /\ RecordOK(t) /\ Needs[t] \subseteq Steps
    BY GraphFacts DEF RInv
  <1>2. Counted(t)'
    BY <1>1 DEF Counted, RowBecomes, Status, Busy
  <1>3. /\ Status(t)' = Status(t) /\ (Ran(t)' <=> Ran(t))
        /\ \A a \in Artifacts : /\ Noted(t, a)' <=> Noted(t, a)
                                /\ Kept(t, a)' <=> Kept(t, a)
        /\ disk'.inputs[t] = disk.inputs[t] /\ disk'.outputs[t] = disk.outputs[t]
    BY DEF RowBecomes, Status, Ran, Noted, Kept
  <1>4. \A d \in Needs[t] :
            Status(d) \in Successful => disk'.status[d] \in Successful
    BY <1>1 DEF RowBecomes, Status
  <1>5. RecordOK(t)'
    <2>1. \A a \in Artifacts : Noted(t, a)' =>
              a \in Inputs[t] /\ Fit(a, disk'.inputs[t][a])
      BY <1>1, <1>3, <1>4 DEF RecordOK
    <2>2. (Ran(t)' \/ \E a \in Artifacts : Noted(t, a)') =>
              /\ \A a \in Inputs[t] : Noted(t, a)'
              /\ \A d \in Needs[t] : disk'.status[d] \in Successful
      <3>1. ASSUME Ran(t) \/ \E a \in Artifacts : Noted(t, a)
            PROVE  /\ \A a \in Inputs[t] : Noted(t, a)
                   /\ \A d \in Needs[t] : Status(d) \in Successful
        BY <3>1, <1>1 DEF RecordOK
      <3>2. \A a \in Inputs[t] : a \in Artifacts
        BY GraphFacts
      <3> QED
        BY <3>1, <3>2, <1>1, <1>3, <1>4
    <2>3. \A a \in Artifacts : Kept(t, a)' =>
              /\ a \in Outputs[t] /\ Fit(a, disk'.outputs[t][a])
              /\ disk'.status[t] \in Completed
      BY <1>1, <1>3, <1>4 DEF RecordOK, Status
    <2>4. disk'.status[t] \in Completed => \A a \in Outputs[t] : Kept(t, a)'
      <3>1. \A a \in Outputs[t] : a \in Artifacts
        BY GraphFacts
      <3> QED
        BY <3>1, <1>1, <1>3, <1>4 DEF RecordOK, Status
    <2> QED
      BY <2>1, <2>2, <2>3, <2>4 DEF RecordOK, Status
  <1> QED
    BY <1>2, <1>5

\* A step decided or started again, with the hashes it had.
LEMMA SameHashes ==
    ASSUME RInv, NEW s \in Steps, NEW st \in StepStatus, NEW n \in Nat,
           RowBecomes(s, st, n, disk.inputs[s], disk.outputs[s]),
           st \in Completed <=> Status(s) \in Completed,
           st = "running" \/ n > 0 => Ran(s),
           touchedLive' = touchedLive
    PROVE  RecordOK(s)' /\ LinksOK'
PROOF
  <1>1. RecordOK(s) /\ Needs[s] \subseteq Steps \ {s}
    BY GraphFacts DEF RInv
  <1>2. /\ \A t \in Steps, a \in Artifacts : /\ Noted(t, a)' <=> Noted(t, a)
                                             /\ Kept(t, a)' <=> Kept(t, a)
        /\ \A t \in Steps : /\ disk'.inputs[t] = disk.inputs[t]
                            /\ disk'.outputs[t] = disk.outputs[t]
                            /\ disk'.status[t] \in Completed
                                 <=> Status(t) \in Completed
        /\ \A d \in Needs[s] : disk'.status[d] = Status(d)
    BY <1>1 DEF RowBecomes, Noted, Kept, Status
  <1>3. Ran(s)' => Ran(s)
    BY DEF Ran, RowBecomes, Status, Completed
  <1>4. RecordOK(s)'
    <2>1. \A a \in Artifacts : Noted(s, a)' =>
              a \in Inputs[s] /\ Fit(a, disk'.inputs[s][a])
      BY <1>1, <1>2, <1>3 DEF RecordOK
    <2>2. (Ran(s)' \/ \E a \in Artifacts : Noted(s, a)') =>
              /\ \A a \in Inputs[s] : Noted(s, a)'
              /\ \A d \in Needs[s] : disk'.status[d] \in Successful
      <3>1. ASSUME Ran(s) \/ \E a \in Artifacts : Noted(s, a)
            PROVE  /\ \A a \in Inputs[s] : Noted(s, a)
                   /\ \A d \in Needs[s] : Status(d) \in Successful
        BY <3>1, <1>1 DEF RecordOK
      <3>2. \A a \in Inputs[s] : a \in Artifacts
        BY GraphFacts
      <3> QED
        BY <3>1, <3>2, <1>1, <1>2, <1>3
    <2>3. \A a \in Artifacts : Kept(s, a)' =>
              /\ a \in Outputs[s] /\ Fit(a, disk'.outputs[s][a])
              /\ disk'.status[s] \in Completed
      BY <1>1, <1>2, <1>3 DEF RecordOK, Status
    <2>4. disk'.status[s] \in Completed => \A a \in Outputs[s] : Kept(s, a)'
      <3>1. \A a \in Outputs[s] : a \in Artifacts
        BY GraphFacts
      <3> QED
        BY <3>1, <1>1, <1>2, <1>3 DEF RecordOK, Status
    <2> QED
      BY <2>1, <2>2, <2>3, <2>4 DEF RecordOK, Status
  <1>5. LinksOK'
    <2> SUFFICES ASSUME NEW t \in Steps, NEW d \in Steps,
                        NEW a \in (Inputs[t] \cap Outputs[d]) \ touchedLive,
                        Noted(t, a)', disk'.status[d] \in Completed
                 PROVE  disk'.inputs[t][a] = disk'.outputs[d][a]
      BY DEF LinksOK, Status
    <2>1. a \in Artifacts
      BY GraphFacts
    <2>2. Noted(t, a) /\ Status(d) \in Completed
      BY <1>2, <2>1
    <2>3. disk.inputs[t][a] = disk.outputs[d][a]
      BY <2>2 DEF RInv, LinksOK
    <2> QED
      BY <1>2, <2>3
  <1> QED
    BY <1>4, <1>5

LEMMA SameMatch ==
    ASSUME RInv, pc # "down", UNCHANGED <<files, touched, touchedLive>>,
           \A t \in Steps : /\ disk'.inputs[t] = disk.inputs[t]
                            /\ disk'.outputs[t] = disk.outputs[t]
                            /\ Seen(t)' => Seen(t)
    PROVE  MatchOK'
PROOF
  <1> SUFFICES ASSUME NEW t \in Steps, NEW a \in Artifacts
               PROVE  /\ Noted(t, a)
                         /\ (touched = {} \/ (pc' # "down" /\ a \notin touchedLive))
                         => files[a] = disk.inputs[t][a]
                      /\ Kept(t, a)
                         /\ (touched = {} \/ (Seen(t)' /\ a \notin touchedLive))
                         => files[a] = disk.outputs[t][a]
    BY DEF MatchOK, Noted, Kept
  <1> QED
    BY DEF RInv, MatchOK

\* A step at which only the checkpoint changes, by a status and perhaps an
\* attempt, and after which no attempt is under way or one begins.
LEMMA RowMoves ==
    ASSUME RInv, NEW s \in Steps, NEW st \in StepStatus \ Completed,
           NEW n \in {disk.attempts[s], disk.attempts[s] + 1},
           RowBecomes(s, st, n, disk.inputs[s], disk.outputs[s]),
           UNCHANGED <<fail_fast, files, logs, executions, envVars, dry>>,
           pc \in Up, pos <= Len(Topology), s = Current,
           Status(s) \notin Successful,
           st = "running" \/ n > 0 => Ran(s),
           n # disk.attempts[s] => pc = "judge",
           Counted(s)',
           \/ /\ pc' = "loop" /\ pos' = pos + 1
              /\ st \in {"blocked", "dry_run", "failed"}
           \/ pc' = "backoff" /\ pos' = pos /\ st = "pending" /\ n > 0
           \/ pc' = "attempt" /\ pos' = pos /\ st = "running",
           outcome' \in {"none", "ok", "matched", "error"},
           stopping' \in BOOLEAN, stopping => stopping',
           fail_fast /\ st = "failed" => stopping',
           pc' # "loop" => ~stopping'
    PROVE  RInv'
PROOF
  <1> USE DEF Up, Busy
  <1>1. /\ pos \in 1 .. Len(Topology) /\ n \in Nat /\ disk' \in Checkpoint
        /\ disk'.saved = disk.saved /\ disk.saved
        /\ pos' \in 1 .. Len(Topology) + 1
        /\ Status(s)' = st
        /\ \A t \in Steps \ {s} : Status(t)' = Status(t)
    <2>1. pos \in 1 .. Len(Topology) /\ disk.attempts[s] \in Nat
      BY AtCurrent, RowTypes
    <2>2. disk.saved
      BY DEF RInv, ProcessOK
    <2> QED
      BY <2>1, <2>2, GraphFacts DEF RowBecomes, Status
  <1>2. TypeOK'
    BY <1>1 DEF RInv, TypeOK, envVars
  <1>3. ProcessOK'
    <2>1. \A t \in Steps \ {s} : Status(t)' # "running"
      BY <1>1 DEF RInv, ProcessOK
    <2>2. pc' # "loop" => Current' = s /\ pos' <= Len(Topology)
      BY DEF Current
    <2>3. pc' = "backoff" => disk'.attempts[s] > 0
      BY DEF RowBecomes
    <2> QED
      BY <1>1, <2>1, <2>2, <2>3 DEF ProcessOK
  <1>4. StoppingOK'
    <2>1. Failing' => stopping'
      <3> SUFFICES ASSUME fail_fast, NEW t \in Steps, Status(t)' = "failed"
                   PROVE  stopping'
        BY DEF Failing, Status
      <3>1. t # s => Failing
        BY <1>1 DEF Failing
      <3> QED
        BY <1>1, <3>1 DEF RInv, StoppingOK
    <2> QED
      BY <2>1 DEF StoppingOK
  <1>5. ASSUME NEW t \in Steps
        PROVE  Counted(t)' /\ RecordOK(t)'
    <2>1. st \in Completed <=> Status(s) \in Completed
      BY DEF Successful, Completed
    <2>2. RecordOK(s)'
      BY <1>1, <2>1, SameHashes DEF envVars
    <2>3. CASE t # s
      <3>1. pc' \in Busy => Current' = s
        BY DEF Current
      <3> QED
        BY <1>1, <2>3, <3>1, OtherRow DEF envVars, RowBecomes
    <2> QED
      BY <2>2, <2>3
  <1>6. LinksOK'
    BY <1>1, SameHashes DEF envVars, Successful, Completed
  <1>7. MatchOK'
    <2>1. \A t \in Steps : /\ disk'.inputs[t] = disk.inputs[t]
                           /\ disk'.outputs[t] = disk.outputs[t]
                           /\ Seen(t)
      BY DEF RowBecomes, Seen
    <2> QED
      BY <2>1, SameMatch DEF envVars
  <1>8. LogsOK'
    <2>1. ASSUME touched = {}, NEW t \in Steps, NEW k \in 1 .. disk'.attempts[t]
          PROVE  <<t, k>> \in logs
      <3>1. CASE k \in 1 .. disk.attempts[t]
        BY <2>1, <3>1 DEF RInv, LogsOK
      <3>2. CASE k \notin 1 .. disk.attempts[t]
        <4>1. disk.attempts[t] \in Nat
          BY RowTypes
        <4>2. t = s /\ n = disk.attempts[s] + 1 /\ k = n
          BY <3>2, <4>1 DEF RowBecomes
        <4> QED
          BY <2>1, <4>1, <4>2 DEF RInv, LogsOK, NextLog
      <3> QED
        BY <3>1, <3>2
    <2> QED
      BY <2>1 DEF LogsOK, envVars
  <1> QED
    BY <1>2, <1>3, <1>4, <1>5, <1>6, <1>7, <1>8 DEF RInv

\* A step settled without an attempt, before or at the start of one, or after
\* one whose log was in the way.
LEMMA SettleRInv ==
    ASSUME RInv, NEW s \in Steps, NEW t \in {"blocked", "dry_run", "failed"},
           Settle(s, t), UNCHANGED <<fail_fast, files, logs, executions, envVars>>,
           s = Current, pos <= Len(Topology),
           \/ pc = "loop" /\ Status(s) = "pending"
           \/ pc = "attempt"
           \/ pc = "logging" /\ "log" \in touchedLive
    PROVE  RInv'
PROOF
  <1>1. /\ disk' = [disk EXCEPT !.status[s] = t]
        /\ stopping' = (stopping \/ (fail_fast /\ t = "failed"))
        /\ pc' = "loop" /\ pos' = pos + 1 /\ outcome' = "none" /\ dry' = dry
    BY DEF Settle, GoOn
  <1>2. /\ disk \in Checkpoint /\ t \in StepStatus \ Completed
        /\ stopping' \in BOOLEAN
        /\ disk.attempts[s] \in Nat
    BY <1>1, RowTypes DEF StepStatus, Completed, RInv, TypeOK
  <1>3. RowBecomes(s, t, disk.attempts[s], disk.inputs[s], disk.outputs[s])
    BY <1>1, <1>2, StatusRow
  <1>4. Status(s) \in {"pending", "running"} /\ pc \in Up
    BY DEF RInv, ProcessOK, Busy, Up
  <1>5. Counted(s)'
    <2>1. Counted(s) /\ executions[s] \in Nat
      BY RowTypes DEF RInv
    <2> QED
      BY <1>1, <1>2, <1>3, <1>4, <2>1 DEF Counted, RowBecomes, Status, envVars
  <1>6. disk.attempts[s] > 0 => Ran(s)
    BY DEF Ran
  <1>7. Status(s) \notin Successful
    BY <1>4 DEF Successful
  <1> QED
    BY <1>1, <1>2, <1>3, <1>4, <1>5, <1>6, <1>7, RowMoves

LEMMA DecidedRInv ==
    ASSUME RInv, NEW s \in Steps, Block(s) \/ DryRun(s), UNCHANGED fail_fast
    PROVE  RInv'
PROOF
  <1>1. Waits(s) /\ UNCHANGED <<files, logs, executions, envVars>>
    BY DEF Block, DryRun, Ready
  <1>2. PICK t \in {"blocked", "dry_run", "failed"} : Settle(s, t)
    BY DEF Block, DryRun
  <1> QED
    BY <1>1, <1>2, SettleRInv DEF Waits, InLoop

LEMMA LogCollisionRInv ==
    ASSUME RInv, NEW s \in Steps, LogCollision(s), UNCHANGED fail_fast
    PROVE  RInv'
PROOF
  <1>1. /\ pc \in {"attempt", "logging"} /\ s = Current /\ NextLog(s) \in logs
        /\ Settle(s, "failed") /\ UNCHANGED <<files, logs, executions, envVars>>
    BY DEF LogCollision
  <1>2. pos <= Len(Topology) /\ (pc = "logging" => "log" \in touchedLive)
    BY <1>1 DEF RInv, ProcessOK, LogsOK, Busy
  <1> QED
    BY <1>1, <1>2, SettleRInv

\* A step whose inputs are hashed begins: they are what its producers kept.
LEMMA BeginRInv ==
    ASSUME RInv, NEW s \in Steps, Begin(s), UNCHANGED fail_fast
    PROVE  RInv'
PROOF
  <1> USE DEF Up, Busy
  <1>1. /\ pc = "loop" /\ pos <= Len(Topology) /\ s = Current
        /\ Status(s) = "pending" /\ ~stopping
        /\ \A d \in Needs[s] : Status(d) \in Successful
        /\ UNCHANGED <<fail_fast, files, logs, executions, envVars>>
    BY DEF Begin, Ready, Waits, InLoop
  <1>2. CASE Settle(s, "failed")
    BY <1>1, <1>2, SettleRInv
  <1>3. CASE /\ Hashable(Inputs[s])
             /\ disk' = [disk EXCEPT !.status[s] = "running",
                                     !.inputs[s] = HashesOf(Inputs[s]),
                                     !.rekeyed = @ \cup Rekeyed(s)]
             /\ pc' = "attempt"
             /\ UNCHANGED <<pos, dry, stopping, outcome>>
    <2> DEFINE in == HashesOf(Inputs[s])
    <2>1. /\ in \in Hashes
          /\ \A a \in Artifacts :
                in[a] = IF a \in Inputs[s] THEN files[a] ELSE Unrecorded
      BY HashesType DEF RInv, TypeOK
    <2>2. RowBecomes(s, "running", disk.attempts[s], in, disk.outputs[s])
      <3>1. Rekeyed(s) \in SUBSET Steps
        BY DEF Rekeyed
      <3> QED
        BY <1>3, <2>1, <3>1, RowTypes, BeginRow
    <2> HIDE DEF in
    <2>3. /\ disk' \in Checkpoint /\ disk'.saved = disk.saved /\ disk.saved
          /\ Status(s)' = "running"
          /\ \A t \in Steps \ {s} : Status(t)' = Status(t)
          /\ Current' = s
      BY <1>1, <1>3, <2>2 DEF RowBecomes, Status, RInv, ProcessOK, Current
    <2>4. TypeOK'
      BY <1>1, <1>3, <2>3 DEF RInv, TypeOK, envVars
    <2>5. ProcessOK'
      <3>1. \A t \in Steps \ {s} : Status(t)' # "running"
        BY <1>1, <2>3 DEF RInv, ProcessOK
      <3> QED
        BY <1>1, <1>3, <2>3, <3>1 DEF ProcessOK
    <2>6. StoppingOK'
      <3>1. Failing' => Failing
        BY <1>1, <2>3 DEF Failing, Status
      <3> QED
        BY <1>1, <1>3, <3>1 DEF RInv, StoppingOK
    <2>7. \A a \in Artifacts :
            /\ a \in Inputs[s] => /\ Noted(s, a)'
                                  /\ disk'.inputs[s][a] = files[a]
                                  /\ Fit(a, files[a])
            /\ Noted(s, a)' => a \in Inputs[s]
            /\ Kept(s, a)' <=> Kept(s, a)
      <3> SUFFICES ASSUME NEW a \in Artifacts
                   PROVE  /\ a \in Inputs[s] => /\ Noted(s, a)'
                                                /\ disk'.inputs[s][a] = files[a]
                                                /\ Fit(a, files[a])
                          /\ Noted(s, a)' => a \in Inputs[s]
                          /\ Kept(s, a)' <=> Kept(s, a)
        OBVIOUS
      <3>1. files[a] # Unrecorded
        BY GraphFacts DEF RInv, TypeOK
      <3>2. a \in Inputs[s] => Fit(a, files[a])
        BY <1>3, HashableIsFit
      <3> QED
        BY <2>1, <2>2, <3>1, <3>2 DEF RowBecomes, Noted, Kept
    <2>8. ASSUME NEW t \in Steps
          PROVE  Counted(t)' /\ RecordOK(t)'
      <3>1. CASE t # s
        BY <1>1, <1>3, <2>2, <2>3, <3>1, OtherRow
           DEF envVars, RowBecomes, Successful
      <3>2. Counted(s)'
        <4>1. Counted(s) /\ executions[s] \in Nat /\ disk.attempts[s] \in Nat
          BY RowTypes DEF RInv
        <4> QED
          BY <1>1, <1>3, <2>2, <2>3, <4>1 DEF Counted, RowBecomes, Status, envVars
      <3>3. RecordOK(s)'
        <4>1. RecordOK(s) /\ Needs[s] \subseteq Steps \ {s}
              /\ Inputs[s] \subseteq Artifacts
          BY GraphFacts DEF RInv
        <4>2. \A d \in Needs[s] : Status(d)' \in Successful
          BY <1>1, <2>3, <4>1
        <4>3. \A a \in Artifacts : ~Kept(s, a)
          BY <1>1, <4>1 DEF RecordOK, Completed
        <4>4. Status(s)' \notin Completed
          BY <2>3 DEF Completed
        <4> QED
          BY <2>7, <4>1, <4>2, <4>3, <4>4 DEF RecordOK
      <3> QED
        BY <3>1, <3>2, <3>3
    <2>9. LinksOK'
      <3> SUFFICES ASSUME NEW t \in Steps, NEW d \in Steps,
                          NEW a \in (Inputs[t] \cap Outputs[d]) \ touchedLive,
                          Noted(t, a)', Status(d)' \in Completed
                   PROVE  disk'.inputs[t][a] = disk'.outputs[d][a]
        BY <1>1 DEF LinksOK, envVars
      <3>1. /\ a \in Artifacts /\ d # s /\ Status(d) \in Completed
            /\ disk'.outputs[d] = disk.outputs[d]
        BY <2>2, <2>3, GraphFacts DEF Completed, RowBecomes
      <3>2. CASE t # s
        BY <2>2, <3>1, <3>2 DEF RInv, LinksOK, Noted, RowBecomes
      <3>3. CASE t = s
        <4>1. disk'.inputs[t][a] = files[a]
          BY <2>7, <3>1, <3>3
        <4>2. Kept(d, a)
          BY <3>1 DEF RInv, RecordOK
        <4>3. files[a] = disk.outputs[d][a]
          BY <1>1, <3>1, <4>2 DEF RInv, MatchOK, Seen
        <4> QED
          BY <3>1, <4>1, <4>3
      <3> QED
        BY <3>2, <3>3
    <2>10. MatchOK'
      <3> SUFFICES ASSUME NEW t \in Steps, NEW a \in Artifacts
                   PROVE  /\ Noted(t, a)'
                             /\ (touched = {} \/ a \notin touchedLive)
                             => files[a] = disk'.inputs[t][a]
                          /\ Kept(t, a)'
                             /\ (touched = {} \/ a \notin touchedLive)
                             => files[a] = disk'.outputs[t][a]
        BY <1>1, <1>3 DEF MatchOK, envVars, Seen
      <3>1. Seen(t)
        BY <1>1 DEF Seen
      <3>2. Noted(t, a)' => \/ files[a] = disk'.inputs[t][a]
                            \/ Noted(t, a) /\ disk'.inputs[t] = disk.inputs[t]
        BY <2>2, <2>7 DEF RowBecomes, Noted
      <3>3. disk'.outputs[t] = disk.outputs[t]
        BY <2>2 DEF RowBecomes
      <3> QED
        BY <1>1, <3>1, <3>2, <3>3 DEF RInv, MatchOK, Kept
    <2>11. LogsOK'
      <3>1. \A t \in Steps : disk'.attempts[t] = disk.attempts[t]
        BY <2>2 DEF RowBecomes
      <3> QED
        BY <1>1, <1>3, <3>1 DEF RInv, LogsOK, envVars
    <2> QED
      BY <2>4, <2>5, <2>6, <2>8, <2>9, <2>10, <2>11 DEF RInv
  <1> QED
    BY <1>2, <1>3 DEF Begin

\* What the executor may write nobody has noted or kept: the step is running,
\* so no step that needs it ever began.
LEMMA AttemptRInv ==
    ASSUME RInv, NEW s \in Steps, Attempt(s), UNCHANGED fail_fast
    PROVE  RInv'
PROOF
  <1> USE DEF Up, Busy
  <1>1. /\ pc = "attempt" /\ s = Current /\ NextLog(s) \notin logs
        /\ outcome' \in {"ok", "matched", "error"}
        /\ executions' = [executions EXCEPT ![s] = @ + 1] /\ pc' = "logging"
        /\ UNCHANGED <<fail_fast, disk, logs, pos, dry, stopping, envVars>>
    BY DEF Attempt
  <1>2. PICK written \in [Outputs[s] -> Contents \cup {Missing}] :
            files' = [a \in Artifacts |->
                         IF a \in Outputs[s] /\ written[a] # Missing
                         THEN written[a] ELSE files[a]]
    BY DEF Attempt
  <1>3. /\ files' \in [Artifacts -> Contents \cup {Missing}]
        /\ \A a \in Artifacts \ Outputs[s] : files'[a] = files[a]
    BY <1>2 DEF RInv, TypeOK
  <1>4. /\ executions \in [Steps -> Nat] /\ executions' \in [Steps -> Nat]
        /\ executions'[s] = executions[s] + 1
        /\ \A t \in Steps \ {s} : executions'[t] = executions[t]
        /\ Status(s) = "running" /\ disk.attempts[s] \in Nat
        /\ disk \in Checkpoint
    BY <1>1, RowTypes DEF RInv, TypeOK, ProcessOK
  <1>5. TypeOK'
    BY <1>1, <1>3, <1>4 DEF RInv, TypeOK, envVars
  <1>6. ProcessOK' /\ StoppingOK'
    BY <1>1 DEF RInv, ProcessOK, StoppingOK, Status, Failing, Current
  <1>7. ASSUME NEW t \in Steps
        PROVE  Counted(t)' /\ RecordOK(t)'
    <2>1. Counted(t) /\ RecordOK(t) /\ disk.attempts[t] \in Nat
          /\ executions[t] \in Nat /\ MaxAttempts[t] \in Nat
      BY RowTypes, GraphFacts DEF RInv
    <2>2. Counted(t)'
      <3>1. CASE t = s
        BY <1>1, <1>4, <2>1, <3>1 DEF Counted, Status, Current, envVars
      <3>2. CASE t # s
        BY <1>1, <1>4, <2>1, <3>2 DEF Counted, Status, Current, envVars
      <3> QED
        BY <3>1, <3>2
    <2>3. RecordOK(t)'
      BY <1>1, <2>1 DEF RecordOK, Ran, Noted, Kept, Status
    <2> QED
      BY <2>2, <2>3
  <1>8. LinksOK'
    BY <1>1 DEF RInv, LinksOK, Noted, Status, envVars
  <1>9. MatchOK'
    <2> SUFFICES ASSUME NEW t \in Steps, NEW a \in Artifacts
                 PROVE  /\ Noted(t, a)
                           /\ (touched = {} \/ a \notin touchedLive)
                           => files'[a] = disk.inputs[t][a]
                        /\ Kept(t, a)
                           /\ (touched = {} \/ a \notin touchedLive)
                           => files'[a] = disk.outputs[t][a]
      BY <1>1 DEF MatchOK, envVars, Noted, Kept
    <2>1. RecordOK(t)
      BY DEF RInv
    <2>2. Noted(t, a) => a \notin Outputs[s]
      <3>1. Noted(t, a) => a \in Inputs[t] /\ \A d \in Needs[t] : Status(d) \in Successful
        BY <2>1 DEF RecordOK
      <3> QED
        BY <1>4, <3>1, GraphFacts DEF Successful
    <2>3. Kept(t, a) => a \notin Outputs[s]
      <3>1. Kept(t, a) => a \in Outputs[t] /\ Status(t) \in Completed
        BY <2>1 DEF RecordOK
      <3>2. Kept(t, a) /\ a \in Outputs[s] => t = s
        BY <3>1, GraphFacts
      <3> QED
        BY <1>4, <3>1, <3>2 DEF Completed
    <2>4. Seen(t)
      BY <1>1 DEF Seen
    <2> QED
      BY <1>1, <1>3, <2>2, <2>3, <2>4 DEF RInv, MatchOK
  <1>10. LogsOK'
    <2>1. Current' = s /\ NextLog(s)' = NextLog(s)
      BY <1>1 DEF Current, NextLog
    <2> QED
      BY <1>1, <2>1 DEF RInv, LogsOK, NextLog, envVars
  <1> QED
    BY <1>5, <1>6, <1>7, <1>8, <1>9, <1>10 DEF RInv

LEMMA WriteLogsRInv ==
    ASSUME RInv, NEW s \in Steps, WriteLogs(s), UNCHANGED fail_fast
    PROVE  RInv'
PROOF
  <1> USE DEF Up, Busy
  <1>1. /\ pc = "logging" /\ s = Current /\ logs' = logs \cup {NextLog(s)}
        /\ pc' = "judge"
        /\ UNCHANGED <<fail_fast, disk, files, pos, dry, stopping, outcome,
                       executions, envVars>>
    BY DEF WriteLogs
  <1>2. NextLog(s) \in Logs
    <2>1. Status(s) = "running" /\ Counted(s)
      BY <1>1 DEF RInv, ProcessOK
    <2>2. disk.attempts[s] + 1 \in 1 .. MaxAttempts[s]
      BY <2>1, RowTypes, GraphFacts DEF Counted
    <2> QED
      BY <2>2 DEF NextLog, Logs
  <1>3. TypeOK'
    BY <1>1, <1>2 DEF RInv, TypeOK, envVars
  <1>4. ProcessOK' /\ StoppingOK'
    BY <1>1 DEF RInv, ProcessOK, StoppingOK, Status, Failing, Current
  <1>5. ASSUME NEW t \in Steps
        PROVE  Counted(t)' /\ RecordOK(t)'
    <2>1. Counted(t) /\ RecordOK(t)
      BY DEF RInv
    <2>2. Counted(t)'
      BY <1>1, <2>1 DEF Counted, Status, Current, envVars
    <2>3. RecordOK(t)'
      BY <1>1, <2>1 DEF RecordOK, Ran, Noted, Kept, Status
    <2> QED
      BY <2>2, <2>3
  <1>6. LinksOK'
    BY <1>1 DEF RInv, LinksOK, Noted, Status, envVars
  <1>7. MatchOK'
    <2>1. \A t \in Steps : Seen(t)
      BY <1>1 DEF Seen
    <2> QED
      BY <1>1, <2>1, SameMatch DEF envVars
  <1>8. LogsOK'
    <2>1. Current' = s /\ NextLog(s)' = NextLog(s)
      BY <1>1 DEF Current, NextLog
    <2> QED
      BY <1>1, <2>1 DEF RInv, LogsOK, NextLog, envVars
  <1> QED
    BY <1>3, <1>4, <1>5, <1>6, <1>7, <1>8 DEF RInv

\* The attempt that is judged: it ran once more than is recorded.
LEMMA AtJudge ==
    ASSUME RInv, NEW s \in Steps, pc = "judge", s = Current
    PROVE  /\ pos <= Len(Topology) /\ Status(s) = "running" /\ ~stopping
           /\ executions[s] = disk.attempts[s] + 1
           /\ disk.attempts[s] < MaxAttempts[s]
           /\ s \in Gates => disk.attempts[s] = 0
           /\ disk \in Checkpoint /\ disk.attempts[s] \in Nat
           /\ executions[s] \in Nat /\ MaxAttempts[s] \in Nat
PROOF
  <1>1. /\ pos <= Len(Topology) /\ Status(s) = "running" /\ ~stopping
    BY DEF RInv, ProcessOK, StoppingOK, Busy
  <1>2. Counted(s)
    BY DEF RInv
  <1> QED
    BY <1>1, <1>2, RowTypes, GraphFacts DEF Counted

LEMMA ScheduleRInv ==
    ASSUME RInv, NEW s \in Steps, Schedule(s), UNCHANGED fail_fast
    PROVE  RInv'
PROOF
  <1>1. /\ pc = "judge" /\ s = Current /\ s \notin Gates
        /\ disk.attempts[s] + 1 < MaxAttempts[s]
        /\ disk' = [disk EXCEPT !.status[s] = "pending", !.attempts[s] = @ + 1]
        /\ pc' = "backoff" /\ outcome' = "none"
        /\ UNCHANGED <<fail_fast, pos, dry, stopping, files, logs, executions,
                       envVars>>
    BY DEF Schedule, RetryDue
  <1>2. /\ pos <= Len(Topology) /\ Status(s) = "running" /\ ~stopping
        /\ executions[s] = disk.attempts[s] + 1
        /\ disk \in Checkpoint /\ disk.attempts[s] \in Nat
        /\ MaxAttempts[s] \in Nat
    BY <1>1, AtJudge
  <1>3. RowBecomes(s, "pending", disk.attempts[s] + 1, disk.inputs[s],
                   disk.outputs[s])
    BY <1>1, <1>2, AttemptRow DEF StepStatus
  <1>4. Counted(s)'
    BY <1>1, <1>2, <1>3 DEF Counted, RowBecomes, Status
  <1>5. Ran(s) /\ Status(s) \notin Successful /\ pc \in Up
        /\ "pending" \in StepStatus \ Completed
    BY <1>1, <1>2 DEF Ran, Successful, Up, Busy, StepStatus, Completed
  <1>6. stopping' \in BOOLEAN
    BY <1>1 DEF RInv, TypeOK
  <1> QED
    BY <1>1, <1>2, <1>3, <1>4, <1>5, <1>6, RowMoves

LEMMA FailStepRInv ==
    ASSUME RInv, NEW s \in Steps, FailStep(s), UNCHANGED fail_fast
    PROVE  RInv'
PROOF
  <1>1. /\ pc = "judge" /\ s = Current
        /\ disk' = [disk EXCEPT !.status[s] = "failed", !.attempts[s] = @ + 1]
        /\ stopping' = (stopping \/ fail_fast)
        /\ pc' = "loop" /\ pos' = pos + 1 /\ outcome' = "none"
        /\ UNCHANGED <<fail_fast, dry, files, logs, executions, envVars>>
    BY DEF FailStep, GoOn
  <1>2. /\ pos <= Len(Topology) /\ Status(s) = "running" /\ ~stopping
        /\ executions[s] = disk.attempts[s] + 1
        /\ disk.attempts[s] < MaxAttempts[s]
        /\ s \in Gates => disk.attempts[s] = 0
        /\ disk \in Checkpoint /\ disk.attempts[s] \in Nat
        /\ MaxAttempts[s] \in Nat
    BY <1>1, AtJudge
  <1>3. RowBecomes(s, "failed", disk.attempts[s] + 1, disk.inputs[s],
                   disk.outputs[s])
    BY <1>1, <1>2, AttemptRow DEF StepStatus
  <1>4. Counted(s)'
    BY <1>1, <1>2, <1>3 DEF Counted, RowBecomes, Status
  <1>5. Ran(s) /\ Status(s) \notin Successful /\ pc \in Up
        /\ "failed" \in StepStatus \ Completed
    BY <1>1, <1>2 DEF Ran, Successful, Up, Busy, StepStatus, Completed
  <1>6. stopping' \in BOOLEAN
    BY <1>1, <1>2 DEF RInv, TypeOK
  <1> QED
    BY <1>1, <1>2, <1>3, <1>4, <1>5, <1>6, RowMoves

LEMMA RetryRInv ==
    ASSUME RInv, NEW s \in Steps, Retry(s), UNCHANGED fail_fast
    PROVE  RInv'
PROOF
  <1>1. /\ pc = "backoff" /\ s = Current
        /\ disk' = [disk EXCEPT !.status[s] = "running"]
        /\ pc' = "attempt"
        /\ UNCHANGED <<fail_fast, pos, dry, stopping, outcome, files, logs,
                       executions, envVars>>
    BY DEF Retry
  <1>2. /\ pos <= Len(Topology) /\ Status(s) = "pending" /\ ~stopping
        /\ disk.attempts[s] > 0 /\ disk \in Checkpoint
        /\ disk.attempts[s] \in Nat /\ executions[s] \in Nat /\ Counted(s)
        /\ outcome \in {"none", "ok", "matched", "error"}
    BY <1>1, RowTypes DEF RInv, TypeOK, ProcessOK, StoppingOK
  <1>3. RowBecomes(s, "running", disk.attempts[s], disk.inputs[s],
                   disk.outputs[s])
    BY <1>1, <1>2, StatusRow DEF StepStatus
  <1>4. Counted(s)'
    BY <1>1, <1>2, <1>3 DEF Counted, RowBecomes, Status, envVars
  <1>5. Ran(s) /\ Status(s) \notin Successful /\ pc \in Up
        /\ "running" \in StepStatus \ Completed
    BY <1>1, <1>2 DEF Ran, Successful, Up, Busy, StepStatus, Completed
  <1>6. stopping' \in BOOLEAN
    BY <1>1 DEF RInv, TypeOK
  <1> QED
    BY <1>1, <1>2, <1>3, <1>4, <1>5, <1>6, RowMoves

\* A success keeps what lies in the workspace; nobody that needs it has begun.
LEMMA SucceedRInv ==
    ASSUME RInv, NEW s \in Steps, Succeed(s), UNCHANGED fail_fast
    PROVE  RInv'
PROOF
  <1> USE DEF Up, Busy
  <1> DEFINE out == HashesOf(Outputs[s])
  <1>1. /\ pc = "judge" /\ s = Current /\ Hashable(Outputs[s])
        /\ disk' = [disk EXCEPT !.status[s] = "succeeded", !.attempts[s] = @ + 1,
                                !.outputs[s] = out]
        /\ pc' = "loop" /\ pos' = pos + 1 /\ outcome' = "none"
        /\ UNCHANGED <<fail_fast, dry, files, logs, stopping, executions, envVars>>
    BY DEF Succeed, GoOn
  <1>2. /\ pos <= Len(Topology) /\ Status(s) = "running" /\ ~stopping
        /\ executions[s] = disk.attempts[s] + 1
        /\ disk.attempts[s] < MaxAttempts[s]
        /\ s \in Gates => disk.attempts[s] = 0
        /\ disk \in Checkpoint /\ disk.attempts[s] \in Nat
        /\ MaxAttempts[s] \in Nat
    BY <1>1, AtJudge
  <1>3. /\ out \in Hashes
        /\ \A a \in Artifacts :
              out[a] = IF a \in Outputs[s] THEN files[a] ELSE Unrecorded
    BY HashesType DEF RInv, TypeOK
  <1>4. RowBecomes(s, "succeeded", disk.attempts[s] + 1, disk.inputs[s], out)
    BY <1>1, <1>2, <1>3, SucceedRow
  <1> HIDE DEF out
  <1>5. /\ disk' \in Checkpoint /\ disk'.saved = disk.saved /\ disk.saved
        /\ Status(s)' = "succeeded"
        /\ \A t \in Steps \ {s} : Status(t)' = Status(t)
        /\ pos' \in 1 .. Len(Topology) + 1
    <2>1. pos \in 1 .. Len(Topology)
      BY <1>2, AtCurrent
    <2> QED
      BY <1>1, <1>4, <2>1, GraphFacts DEF RowBecomes, Status, RInv, ProcessOK
  <1>6. TypeOK'
    BY <1>1, <1>5 DEF RInv, TypeOK, envVars
  <1>7. ProcessOK'
    <2>1. \A t \in Steps : Status(t)' # "running"
      BY <1>1, <1>5 DEF RInv, ProcessOK
    <2> QED
      BY <1>1, <1>5, <2>1 DEF ProcessOK
  <1>8. StoppingOK'
    <2>1. Failing' => Failing
      BY <1>1, <1>5 DEF Failing, Status
    <2> QED
      BY <1>1, <2>1 DEF RInv, StoppingOK
  <1>9. \A a \in Artifacts :
          /\ a \in Outputs[s] => /\ Kept(s, a)'
                                 /\ disk'.outputs[s][a] = files[a]
                                 /\ Fit(a, files[a])
          /\ Kept(s, a)' => a \in Outputs[s]
          /\ Noted(s, a)' <=> Noted(s, a)
    <2> SUFFICES ASSUME NEW a \in Artifacts
                 PROVE  /\ a \in Outputs[s] => /\ Kept(s, a)'
                                               /\ disk'.outputs[s][a] = files[a]
                                               /\ Fit(a, files[a])
                        /\ Kept(s, a)' => a \in Outputs[s]
                        /\ Noted(s, a)' <=> Noted(s, a)
      OBVIOUS
    <2>1. files[a] # Unrecorded
      BY GraphFacts DEF RInv, TypeOK
    <2>2. a \in Outputs[s] => Fit(a, files[a])
      BY <1>1, HashableIsFit
    <2> QED
      BY <1>3, <1>4, <2>1, <2>2 DEF RowBecomes, Noted, Kept
  <1>10. ASSUME NEW t \in Steps
         PROVE  Counted(t)' /\ RecordOK(t)'
    <2>1. CASE t # s
      BY <1>1, <1>2, <1>4, <1>5, <2>1, OtherRow
         DEF envVars, RowBecomes, Successful
    <2>2. Counted(s)'
      <3>1. Counted(s)
        BY DEF RInv
      <3> QED
        BY <1>1, <1>2, <1>4, <1>5, <3>1 DEF Counted, RowBecomes, Status, envVars
    <2>3. RecordOK(s)'
      <3>1. RecordOK(s) /\ Needs[s] \subseteq Steps \ {s}
            /\ Inputs[s] \subseteq Artifacts /\ Outputs[s] \subseteq Artifacts
        BY GraphFacts DEF RInv
      <3>2. /\ \A a \in Inputs[s] : Noted(s, a)
            /\ \A d \in Needs[s] : Status(d)' \in Successful
        BY <1>2, <1>5, <3>1 DEF RecordOK, Ran
      <3>3. disk'.inputs[s] = disk.inputs[s]
        BY <1>4 DEF RowBecomes
      <3>4. Status(s)' \in Completed
        BY <1>5 DEF Completed
      <3>5. \A a \in Artifacts : Noted(s, a) =>
                a \in Inputs[s] /\ Fit(a, disk.inputs[s][a])
        BY <3>1 DEF RecordOK
      <3>6. \A a \in Outputs[s] : Kept(s, a)' /\ Fit(a, disk'.outputs[s][a])
        BY <1>9, <3>1
      <3> QED
        BY <1>9, <3>1, <3>2, <3>3, <3>4, <3>5, <3>6 DEF RecordOK
    <2> QED
      BY <2>1, <2>2, <2>3
  <1>11. LinksOK'
    <2> SUFFICES ASSUME NEW t \in Steps, NEW d \in Steps,
                        NEW a \in (Inputs[t] \cap Outputs[d]) \ touchedLive,
                        Noted(t, a)', Status(d)' \in Completed
                 PROVE  disk'.inputs[t][a] = disk'.outputs[d][a]
      BY <1>1 DEF LinksOK, envVars
    <2>1. a \in Artifacts /\ d \in Needs[t] /\ t # d
      BY GraphFacts
    <2>2. disk'.inputs[t] = disk.inputs[t] /\ Noted(t, a)
      BY <1>4, <2>1 DEF RowBecomes, Noted
    <2>3. d # s
      <3>1. Status(d) \in Successful
        BY <2>1, <2>2 DEF RInv, RecordOK
      <3> QED
        BY <1>2, <3>1 DEF Successful
    <2>4. disk'.outputs[d] = disk.outputs[d] /\ Status(d) \in Completed
      BY <1>4, <1>5, <2>3 DEF RowBecomes
    <2> QED
      BY <2>2, <2>4 DEF RInv, LinksOK
  <1>12. MatchOK'
    <2> SUFFICES ASSUME NEW t \in Steps, NEW a \in Artifacts
                 PROVE  /\ Noted(t, a)'
                           /\ (touched = {} \/ a \notin touchedLive)
                           => files[a] = disk'.inputs[t][a]
                        /\ Kept(t, a)'
                           /\ (touched = {} \/ a \notin touchedLive)
                           => files[a] = disk'.outputs[t][a]
      BY <1>1 DEF MatchOK, envVars, Seen
    <2>1. Seen(t) /\ disk'.inputs[t] = disk.inputs[t]
      BY <1>1, <1>4 DEF Seen, RowBecomes
    <2>2. Kept(t, a)' => \/ files[a] = disk'.outputs[t][a]
                         \/ Kept(t, a) /\ disk'.outputs[t] = disk.outputs[t]
      BY <1>4, <1>9 DEF RowBecomes, Kept
    <2> QED
      BY <1>1, <2>1, <2>2 DEF RInv, MatchOK, Noted
  <1>13. LogsOK'
    <2>1. ASSUME touched = {}, NEW t \in Steps, NEW k \in 1 .. disk'.attempts[t]
          PROVE  <<t, k>> \in logs
      <3>1. CASE k \in 1 .. disk.attempts[t]
        BY <2>1, <3>1 DEF RInv, LogsOK
      <3>2. CASE k \notin 1 .. disk.attempts[t]
        <4>1. disk.attempts[t] \in Nat
          BY RowTypes
        <4>2. t = s /\ k = disk.attempts[s] + 1
          BY <1>2, <1>4, <3>2, <4>1 DEF RowBecomes
        <4> QED
          BY <1>1, <2>1, <4>1, <4>2 DEF RInv, LogsOK, NextLog
      <3> QED
        BY <3>1, <3>2
    <2> QED
      BY <1>1, <2>1 DEF LogsOK, envVars
  <1> QED
    BY <1>6, <1>7, <1>8, <1>10, <1>11, <1>12, <1>13 DEF RInv
-----------------------------------------------------------------------------
(* A resume comes past a completed step only when its outputs are there.   *)

LEMMA CacheNextRInv ==
    ASSUME RInv, CacheNext, UNCHANGED fail_fast
    PROVE  RInv'
PROOF
  <1> USE DEF Up, Busy
  <1>0. PICK s \in Steps : s = Current
    BY AtCurrent DEF CacheNext
  <1>1. /\ pc = "cache" /\ pos <= Len(Topology) /\ pos' = pos + 1 /\ pc' = pc
        /\ UNCHANGED <<fail_fast, files, logs, dry, stopping, outcome,
                       executions, envVars>>
    BY DEF CacheNext
  <1>2. /\ pos \in 1 .. Len(Topology)
        /\ pos' \in 1 .. Len(Topology) + 1 /\ disk \in Checkpoint
    BY <1>0, <1>1, AtCurrent, GraphFacts, RowTypes
  <1>3. PICK st \in StepStatus :
           /\ RowBecomes(s, st, disk.attempts[s], disk.inputs[s], disk.outputs[s])
           /\ \/ st = Status(s) /\ Status(s) \notin Completed
              \/ st = "cached" /\ Status(s) \in Completed /\ Cacheable(s)
    <2>1. CASE Status(s) \notin Completed
      <3>1. disk' = disk
        BY <1>0, <2>1 DEF CacheNext
      <3>2. RowBecomes(s, Status(s), disk.attempts[s], disk.inputs[s],
                       disk.outputs[s])
        BY <1>2, <3>1 DEF RowBecomes, Status
      <3>3. Status(s) \in StepStatus
        BY <1>2, RowTypes
      <3> QED
        BY <2>1, <3>2, <3>3
    <2>2. CASE Status(s) \in Completed
      <3>1. Cacheable(s) /\ disk' = [disk EXCEPT !.status[s] = "cached"]
        BY <1>0, <2>2 DEF CacheNext
      <3>2. "cached" \in StepStatus
        BY DEF StepStatus
      <3>3. RowBecomes(s, "cached", disk.attempts[s], disk.inputs[s],
                       disk.outputs[s])
        BY <1>2, <3>1, <3>2, StatusRow
      <3> QED
        BY <2>2, <3>1, <3>2, <3>3
    <2> QED
      BY <2>1, <2>2
  <1>4. /\ disk' \in Checkpoint /\ disk'.saved = disk.saved /\ disk.saved
        /\ Status(s)' = st /\ st # "running"
        /\ \A t \in Steps \ {s} : Status(t)' = Status(t)
        /\ \A t \in Steps : Status(t) # "running"
        /\ \A t \in Steps : Status(t)' = "failed" => Status(t) = "failed"
    <2>1. disk.saved /\ \A t \in Steps : Status(t) # "running"
      BY <1>1 DEF RInv, ProcessOK
    <2>2. /\ disk' \in Checkpoint /\ disk'.saved = disk.saved /\ Status(s)' = st
          /\ \A t \in Steps \ {s} : Status(t)' = Status(t)
      BY <1>3 DEF RowBecomes, Status
    <2>3. st # "running" /\ (st = "failed" => Status(s) = "failed")
      BY <1>3, <2>1
    <2> QED
      BY <2>1, <2>2, <2>3
  <1>5. TypeOK'
    BY <1>1, <1>2, <1>4 DEF RInv, TypeOK, envVars
  <1>6. ProcessOK' /\ StoppingOK'
    BY <1>1, <1>4 DEF ProcessOK, StoppingOK
  <1>7. st \in Completed <=> Status(s) \in Completed
    BY <1>3 DEF Completed
  <1>8. RecordOK(s)' /\ LinksOK'
    <2>1. disk.attempts[s] \in Nat
      BY <1>2, RowTypes
    <2>2. st = "running" \/ disk.attempts[s] > 0 => Ran(s)
      BY <1>4 DEF Ran
    <2> QED
      BY <1>1, <1>2, <1>3, <1>7, <2>1, <2>2, SameHashes DEF envVars
  <1>9. ASSUME NEW t \in Steps
        PROVE  Counted(t)' /\ RecordOK(t)'
    <2>1. CASE t # s
      BY <1>1, <1>2, <1>3, <1>4, <2>1, OtherRow
         DEF envVars, RowBecomes, Successful, Completed
    <2>2. CASE t = s
      <3>1. Counted(s) /\ executions[s] \in Nat /\ disk.attempts[s] \in Nat
        BY <1>2, RowTypes DEF RInv
      <3>2. Counted(s)'
        BY <1>1, <1>3, <1>4, <3>1 DEF Counted, RowBecomes, Status, Completed, envVars
      <3> QED
        BY <1>8, <2>2, <3>2
    <2> QED
      BY <2>1, <2>2
  <1>10. MatchOK'
    <2>1. \A t \in Steps : disk'.inputs[t] = disk.inputs[t]
                           /\ disk'.outputs[t] = disk.outputs[t]
      BY <1>3 DEF RowBecomes
    <2> SUFFICES ASSUME NEW t \in Steps, NEW a \in Artifacts
                 PROVE  /\ Noted(t, a)
                           /\ (touched = {} \/ a \notin touchedLive)
                           => files[a] = disk.inputs[t][a]
                        /\ Kept(t, a)
                           /\ (touched = {} \/ (Seen(t)' /\ a \notin touchedLive))
                           => files[a] = disk.outputs[t][a]
      BY <1>1, <2>1 DEF MatchOK, envVars, Noted, Kept
    <2>2. CASE t = s /\ Kept(t, a)
      <3>1. Status(s) \in Completed /\ a \in Outputs[s]
        BY <1>2, <2>2 DEF RInv, RecordOK
      <3>2. disk.outputs[s] = HashesOf(Outputs[s])
        BY <1>3, <3>1 DEF Cacheable
      <3>3. files[a] = disk.outputs[s][a]
        BY <3>1, <3>2, HashesType DEF RInv, TypeOK
      <3> QED
        BY <1>1, <2>2, <3>3 DEF RInv, MatchOK
    <2>3. CASE t # s
      <3>1. Seen(t)' => Seen(t)
        BY <1>0, <1>1, <1>2, <2>3, GraphFacts DEF Seen, Current
      <3> QED
        BY <1>1, <3>1 DEF RInv, MatchOK
    <2>4. CASE ~Kept(t, a)
      BY <1>1, <2>4 DEF RInv, MatchOK
    <2> QED
      BY <2>2, <2>3, <2>4
  <1>11. LogsOK'
    <2>1. \A t \in Steps : disk'.attempts[t] = disk.attempts[t]
      BY <1>3 DEF RowBecomes
    <2> QED
      BY <1>1, <2>1 DEF RInv, LogsOK, envVars
  <1> QED
    BY <1>5, <1>6, <1>8, <1>9, <1>10, <1>11 DEF RInv
-----------------------------------------------------------------------------
(* The invariant is inductive, and what follows from it.                   *)

LEMMA NextRInv == RInv /\ [Next]_vars => RInv'
PROOF
  <1> SUFFICES ASSUME RInv, [Next]_vars PROVE RInv'
    OBVIOUS
  <1>1. CASE UNCHANGED vars
    <2>1. /\ UNCHANGED <<fail_fast, disk, files, logs, executions, envVars>>
          /\ UNCHANGED <<pc, pos, dry, stopping, outcome>>
      BY <1>1 DEF vars, procVars
    <2>2. TypeOK'
      BY <2>1 DEF RInv, TypeOK, envVars
    <2>3. ProcessOK' /\ StoppingOK'
      BY <2>1 DEF RInv, ProcessOK, StoppingOK, Status, Failing, Current,
                  NoCheckpoint, FreshCheckpoint
    <2>4. ASSUME NEW s \in Steps
          PROVE  Counted(s)' /\ RecordOK(s)'
      <3>1. Counted(s) /\ RecordOK(s)
        BY DEF RInv
      <3>2. Counted(s)'
        BY <2>1, <3>1 DEF Counted, Status, Current, envVars
      <3>3. RecordOK(s)'
        BY <2>1, <3>1 DEF RecordOK, Ran, Noted, Kept, Status
      <3> QED
        BY <3>2, <3>3
    <2>5. LinksOK'
      BY <2>1 DEF RInv, LinksOK, Noted, Status, envVars
    <2>6. MatchOK'
      BY <2>1 DEF RInv, MatchOK, Noted, Kept, Seen, envVars
    <2>7. LogsOK'
      BY <2>1 DEF RInv, LogsOK, NextLog, Current, envVars
    <2> QED
      BY <2>2, <2>3, <2>4, <2>5, <2>6, <2>7 DEF RInv
  <1>2. CASE Next
    <2>1. UNCHANGED fail_fast
      BY <1>2 DEF Next
    <2>2. CASE \E d \in BOOLEAN : Run(d) \/ Resume(d)
      BY <2>1, <2>2, RunRInv, ResumeRInv
    <2>3. CASE Skip \/ Complete \/ CacheNext \/ Refuse \/ Resumed \/ Crash
      BY <2>1, <2>3, SkipRInv, EndRInv, CacheNextRInv, ResumedRInv
    <2>4. ASSUME NEW s \in Steps,
                 \/ Block(s) \/ DryRun(s) \/ Begin(s) \/ Attempt(s)
                 \/ WriteLogs(s) \/ LogCollision(s)
          PROVE  RInv'
      BY <2>1, <2>4, DecidedRInv, BeginRInv, AttemptRInv, WriteLogsRInv,
         LogCollisionRInv
    <2>5. ASSUME NEW s \in Steps,
                 Succeed(s) \/ Schedule(s) \/ FailStep(s) \/ Retry(s)
          PROVE  RInv'
      BY <2>1, <2>5, SucceedRInv, ScheduleRInv, FailStepRInv, RetryRInv
    <2>6. CASE \/ \E a \in Artifacts, c \in Contents \cup {Missing} :
                     ChangeArtifact(a, c)
               \/ \E log \in Logs : ChangeLog(log)
      BY <2>1, <2>6, ChangeArtifactRInv, ChangeLogRInv
    <2> QED
      BY <1>2, <2>2, <2>3, <2>4, <2>5, <2>6 DEF Next, RunnerStep
  <1> QED
    BY <1>1, <1>2

(* The strengthened invariant of a run: process, checkpoint, graph, hashes *)
(* and logs agree through every kill, resume and change from outside.      *)
THEOREM RunInductive == Spec => []RInv
PROOF BY InitRInv, NextRInv, PTL DEF Spec

(* What run() and resume() leave in checkpoint.json is true of the run:    *)
(* its steps agree with the graph, its attempts with the executions, and   *)
(* each consumer's recorded inputs with its producers' recorded outputs.   *)
THEOREM CheckpointHolds == Spec => []CheckpointIsTrue
PROOF
  <1>1. RInv => CheckpointIsTrue
    <2> SUFFICES ASSUME RInv PROVE CheckpointIsTrue
      OBVIOUS
    <2>1. DependenciesDone
      <3>1. ASSUME NEW s \in Steps, Ran(s)
            PROVE  \A d \in Needs[s] : Status(d) \in Successful
        BY <3>1 DEF RInv, RecordOK
      <3> QED
        BY <3>1 DEF DependenciesDone, Ran, RInv, ProcessOK
    <2>2. AttemptsAccounted /\ GatesNeverRetried
      BY RetryAssumption DEF RInv, Counted, AttemptsAccounted, GatesNeverRetried
    <2>3. ResultsAgree
      <3> SUFFICES ASSUME NEW s \in Steps, NEW d \in Steps,
                          NEW a \in (Inputs[s] \cap Outputs[d]) \ touchedLive,
                          Status(s) \in Completed, Status(d) \in Completed
                   PROVE  disk.inputs[s][a] = disk.outputs[d][a]
        BY DEF ResultsAgree
      <3>1. Noted(s, a)
        BY DEF RInv, RecordOK, Ran, Completed
      <3> QED
        BY <3>1 DEF RInv, LinksOK
    <2> QED
      BY <2>1, <2>2, <2>3 DEF CheckpointIsTrue, RInv
  <1> QED
    BY <1>1, RunInductive, PTL

(* A resume that goes on to execute steps has found every change made to a *)
(* recorded artifact while no process was up (_validate_checkpoint and     *)
(* _cache_completed_steps): what is recorded lies in the workspace.        *)
THEOREM TamperingIsCaught == Spec => []TamperIsCaught
PROOF
  <1>1. RInv => TamperIsCaught
    <2> SUFFICES ASSUME RInv, pc \in Up, NEW s \in Steps,
                        NEW a \in Artifacts \ touchedLive
                 PROVE  /\ disk.inputs[s][a] # Unrecorded =>
                              files[a] = disk.inputs[s][a]
                        /\ disk.outputs[s][a] # Unrecorded =>
                              files[a] = disk.outputs[s][a]
      BY DEF TamperIsCaught, Up, Busy
    <2>1. pc # "down" /\ Seen(s)
      BY DEF Seen, Up, Busy
    <2> QED
      BY <2>1 DEF RInv, MatchOK, Noted, Kept
  <1> QED
    BY <1>1, RunInductive, PTL

\* Hashes recorded for all of S, fit and as they lie there, are S's hashes.
LEMMA RecordedHashes ==
    ASSUME files \in [Artifacts -> Contents \cup {Missing}],
           NEW S \in SUBSET Artifacts, NEW h \in Hashes,
           \A a \in Artifacts : h[a] # Unrecorded =>
               a \in S /\ Fit(a, h[a]) /\ files[a] = h[a],
           \A a \in S : h[a] # Unrecorded
    PROVE  Hashable(S) /\ h = HashesOf(S)
PROOF
  <1>1. Hashable(S)
    BY DEF Hashable, Fit
  <1>2. h = HashesOf(S)
    <2>1. \A a \in Artifacts : h[a] = IF a \in S THEN files[a] ELSE Unrecorded
      OBVIOUS
    <2> QED
      BY <2>1 DEF Hashes, HashesOf
  <1> QED
    BY <1>1, <1>2

\* What is recorded of a step's inputs is what lies there, if nobody touched it.
LEMMA UntouchedInputs ==
    ASSUME RInv, touched = {}, NEW s \in Steps, Ran(s) \/ Recorded(s)
    PROVE  SameInputs(s)
PROOF
  <1>1. files \in [Artifacts -> Contents \cup {Missing}]
    BY DEF RInv, TypeOK
  <1>2. disk.inputs[s] \in Hashes /\ RecordOK(s) /\ Inputs[s] \subseteq Artifacts
    BY RowTypes, GraphFacts DEF RInv
  <1>3. Ran(s) \/ \E a \in Artifacts : Noted(s, a)
    BY <1>2 DEF Recorded, Noted, NoHashes, Hashes
  <1>4. \A a \in Inputs[s] : Noted(s, a)
    BY <1>2, <1>3 DEF RecordOK
  <1>5. \A a \in Artifacts : Noted(s, a) =>
            /\ a \in Inputs[s] /\ Fit(a, disk.inputs[s][a])
            /\ files[a] = disk.inputs[s][a]
    BY <1>2 DEF RecordOK, RInv, MatchOK
  <1>6. Hashable(Inputs[s]) /\ disk.inputs[s] = HashesOf(Inputs[s])
    BY <1>1, <1>2, <1>4, <1>5, RecordedHashes DEF Noted
  <1> QED
    BY <1>6 DEF SameInputs

\* Then no attempt is recorded under another key than its step's.
KeysOK == touched = {} => disk.rekeyed = {}

LEMMA KeysStay == RInv /\ KeysOK /\ [Next]_vars => KeysOK'
PROOF
  <1> SUFFICES ASSUME RInv, KeysOK, [Next]_vars, touched' = {}
               PROVE  disk'.rekeyed = {}
    BY DEF KeysOK
  <1>1. disk \in Checkpoint
    BY DEF RInv, TypeOK
  <1>2. ASSUME touched = {}, UNCHANGED disk PROVE disk'.rekeyed = {}
    BY <1>2 DEF KeysOK
  <1>3. CASE \/ UNCHANGED vars
             \/ \E d \in BOOLEAN : Resume(d)
             \/ Skip \/ Complete \/ Refuse \/ Resumed \/ Crash
             \/ \E s \in Steps : Attempt(s) \/ WriteLogs(s)
    BY <1>2, <1>3 DEF vars, envVars, Resume, Skip, Complete, Refuse, Resumed,
                      Crash, Attempt, WriteLogs
  <1>4. CASE \/ \E a \in Artifacts, c \in Contents \cup {Missing} :
                   ChangeArtifact(a, c)
             \/ \E log \in Logs : ChangeLog(log)
    BY <1>4 DEF ChangeArtifact, ChangeLog, Touch
  <1>5. CASE \E d \in BOOLEAN : Run(d)
    BY <1>5 DEF Run, FreshCheckpoint
  <1>6. CASE CacheNext
    <2>1. touched = {} /\ disk.rekeyed = {}
      BY <1>6 DEF CacheNext, envVars, KeysOK
    <2>2. \/ UNCHANGED disk
          \/ disk' = [disk EXCEPT !.status[Current] = "cached"]
      BY <1>6 DEF CacheNext
    <2> QED
      BY <1>1, <2>1, <2>2 DEF Checkpoint
  <1>7. ASSUME NEW s \in Steps,
               \/ Block(s) \/ DryRun(s) \/ LogCollision(s) \/ Retry(s)
               \/ Succeed(s) \/ Schedule(s) \/ FailStep(s)
        PROVE  disk'.rekeyed = {}
    <2>1. touched = {} /\ disk.rekeyed = {}
      BY <1>7 DEF Block, DryRun, LogCollision, Retry, Succeed, Schedule,
                  FailStep, envVars, KeysOK
    <2>2. disk'.rekeyed = disk.rekeyed
      BY <1>1, <1>7 DEF Block, DryRun, LogCollision, Retry, Succeed, Schedule,
                  FailStep, Settle, Checkpoint
    <2> QED
      BY <2>1, <2>2
  <1>8. ASSUME NEW s \in Steps, Begin(s) PROVE disk'.rekeyed = {}
    <2>1. touched = {} /\ disk.rekeyed = {}
      BY <1>8 DEF Begin, envVars, KeysOK
    <2>2. Rekeyed(s) = {}
      BY <2>1, UntouchedInputs DEF Rekeyed, Ran, SameInputs
    <2>3. CASE Settle(s, "failed")
      BY <1>1, <2>1, <2>3 DEF Settle, Checkpoint
    <2>4. CASE disk' = [disk EXCEPT !.status[s] = "running",
                                    !.inputs[s] = HashesOf(Inputs[s]),
                                    !.rekeyed = @ \cup Rekeyed(s)]
      BY <1>1, <2>1, <2>2, <2>4 DEF Checkpoint
    <2> QED
      BY <1>8, <2>3, <2>4 DEF Begin
  <1> QED
    BY <1>3, <1>4, <1>5, <1>6, <1>7, <1>8 DEF Next, RunnerStep

(* A run killed between attempts can be taken up again: if nobody touched  *)
(* the workspace, _validate_checkpoint accepts what the runner wrote and   *)
(* _cache_completed_steps reuses every completed step, but for an optional *)
(* output that was left out and a mutable one.                             *)
THEOREM InterruptedRunsResume == Spec => []InterruptionIsResumable
PROOF
  <1>1. RInv /\ KeysOK => InterruptionIsResumable
    <2> SUFFICES ASSUME RInv, KeysOK, touched = {},
                        \A s \in Steps : Status(s) # "running"
                 PROVE  /\ Valid
                        /\ \A s \in Steps : Status(s) \in Completed =>
                              \/ Cacheable(s)
                              \/ \E a \in Outputs[s] :
                                    a \in Mutable \/ disk.outputs[s][a] = Missing
      BY DEF InterruptionIsResumable
    <2>1. files \in [Artifacts -> Contents \cup {Missing}]
      BY DEF RInv, TypeOK
    <2>2. ASSUME NEW s \in Steps, Ran(s) \/ Recorded(s)
          PROVE  SameInputs(s)
      BY <2>2, UntouchedInputs
    <2>3. \A s \in Steps : disk.attempts[s] <= MaxAttempts[s]
      <3> TAKE s \in Steps
      <3>1. /\ executions[s] >= disk.attempts[s] /\ executions[s] <= MaxAttempts[s]
            /\ disk.attempts[s] \in Nat /\ executions[s] \in Nat
            /\ MaxAttempts[s] \in Nat
        BY RowTypes, GraphFacts DEF RInv, Counted
      <3> QED
        BY <3>1
    <2>4. Valid
      BY <2>2, <2>3 DEF Valid, RInv, LogsOK, KeysOK
    <2>5. ASSUME NEW s \in Steps, Status(s) \in Completed,
                 \A a \in Outputs[s] :
                    a \notin Mutable /\ disk.outputs[s][a] # Missing
          PROVE  Cacheable(s)
      <3>1. disk.outputs[s] \in Hashes /\ RecordOK(s) /\ Outputs[s] \subseteq Artifacts
        BY RowTypes, GraphFacts DEF RInv
      <3>2. \A a \in Outputs[s] : Kept(s, a)
        BY <2>5, <3>1 DEF RecordOK
      <3>3. \A a \in Artifacts : Kept(s, a) =>
                /\ a \in Outputs[s] /\ Fit(a, disk.outputs[s][a])
                /\ files[a] = disk.outputs[s][a]
        BY <3>1 DEF RecordOK, RInv, MatchOK
      <3>4. Hashable(Outputs[s]) /\ disk.outputs[s] = HashesOf(Outputs[s])
        BY <2>1, <3>1, <3>2, <3>3, RecordedHashes DEF Kept
      <3>5. \A a \in Outputs[s] : files[a] # Missing
        BY <2>5, <3>1, <3>2, <3>3
      <3>6. SameInputs(s)
        BY <2>2, <2>5 DEF Ran, Completed
      <3> QED
        BY <2>5, <3>4, <3>5, <3>6 DEF Cacheable
    <2> QED
      BY <2>4, <2>5
  <1>2. Init => KeysOK
    BY DEF Init, KeysOK, NoCheckpoint, FreshCheckpoint
  <1> QED
    BY <1>1, <1>2, KeysStay, RunInductive, PTL DEF Spec
-----------------------------------------------------------------------------
(* What a step of the system may never do.                                 *)

\* Only the step at which the process is, pending or running, is executed or
\* decided; a resume caches what succeeded, a first run only writes its rows.
LEMMA OneRowAtATime ==
    ASSUME RInv, Next
    PROVE  \/ UNCHANGED <<disk, executions>>
           \/ ~disk.saved /\ UNCHANGED executions
           \/ \E s \in Steps :
                 /\ \A t \in Steps \ {s} : /\ disk'.status[t] = Status(t)
                                           /\ executions'[t] = executions[t]
                 /\ \/ Status(s) \in {"pending", "running"} /\ UNCHANGED executions
                    \/ Status(s) = "running" /\ pc = "attempt"
                    \/ /\ Status(s) \in Completed /\ disk'.status[s] = "cached"
                       /\ UNCHANGED executions
PROOF
  <1> DEFINE Moves(s) == \A t \in Steps \ {s} : disk'.status[t] = Status(t)
  <1>1. disk \in Checkpoint /\ executions \in [Steps -> Nat]
    BY DEF RInv, TypeOK
  <1>2. CASE \/ \E d \in BOOLEAN : Resume(d)
             \/ Skip \/ Complete \/ Refuse \/ Resumed \/ Crash
             \/ \E s \in Steps : WriteLogs(s)
             \/ \E a \in Artifacts, c \in Contents \cup {Missing} :
                   ChangeArtifact(a, c)
             \/ \E log \in Logs : ChangeLog(log)
    BY <1>2 DEF Resume, Skip, Complete, Refuse, Resumed, Crash, WriteLogs,
                ChangeArtifact, ChangeLog
  <1>3. CASE \E d \in BOOLEAN : Run(d)
    BY <1>3 DEF Run
  <1>4. ASSUME NEW s \in Steps, Block(s) \/ DryRun(s) \/ Begin(s) \/ Retry(s)
                                \/ LogCollision(s)
        PROVE  /\ Moves(s) /\ Status(s) \in {"pending", "running"}
               /\ UNCHANGED executions
    <2>1. Status(s) \in {"pending", "running"} /\ UNCHANGED executions
      BY <1>4 DEF Block, DryRun, Begin, Retry, LogCollision, Ready, Waits,
                  RInv, ProcessOK, Busy
    <2>2. CASE \E st \in StepStatus : disk' = [disk EXCEPT !.status[s] = st]
      BY <1>1, <2>1, <2>2 DEF Checkpoint, Status
    <2>3. CASE \E st \in StepStatus, in \in Hashes :
                  disk' = [disk EXCEPT !.status[s] = st, !.inputs[s] = in,
                                       !.rekeyed = @ \cup Rekeyed(s)]
      BY <1>1, <2>1, <2>3 DEF Checkpoint, Status
    <2>4. CASE Block(s) \/ DryRun(s) \/ LogCollision(s) \/ Retry(s)
      <3>1. {"blocked", "dry_run", "failed", "running"} \subseteq StepStatus
        BY DEF StepStatus
      <3>2. \E st \in {"blocked", "dry_run", "failed", "running"} :
                disk' = [disk EXCEPT !.status[s] = st]
        BY <2>4 DEF Block, DryRun, LogCollision, Retry, Settle
      <3> QED
        BY <2>2, <3>1, <3>2
    <2>5. CASE Begin(s)
      <3>1. HashesOf(Inputs[s]) \in Hashes
        BY HashesType DEF RInv, TypeOK
      <3>2. "running" \in StepStatus /\ "failed" \in StepStatus
        BY DEF StepStatus
      <3> QED
        BY <2>2, <2>3, <2>5, <3>1, <3>2 DEF Begin, Settle
    <2> QED
      BY <1>4, <2>1, <2>4, <2>5
  <1>5. ASSUME NEW s \in Steps, Succeed(s) \/ Schedule(s) \/ FailStep(s)
        PROVE  /\ Moves(s) /\ Status(s) = "running" /\ UNCHANGED executions
    <2>1. Status(s) = "running" /\ UNCHANGED executions
      BY <1>5, AtJudge DEF Succeed, Schedule, FailStep
    <2>2. CASE Schedule(s) \/ FailStep(s)
      <3>1. PICK st \in StepStatus :
                disk' = [disk EXCEPT !.status[s] = st, !.attempts[s] = @ + 1]
        BY <2>2 DEF Schedule, FailStep, StepStatus
      <3>2. RowBecomes(s, st, disk.attempts[s] + 1, disk.inputs[s],
                       disk.outputs[s])
        BY <1>1, <3>1, AttemptRow
      <3> QED
        BY <2>1, <3>2 DEF RowBecomes, Status
    <2>3. CASE Succeed(s)
      <3>1. HashesOf(Outputs[s]) \in Hashes
        BY HashesType DEF RInv, TypeOK
      <3>2. RowBecomes(s, "succeeded", disk.attempts[s] + 1, disk.inputs[s],
                       HashesOf(Outputs[s]))
        BY <1>1, <2>3, <3>1, SucceedRow DEF Succeed
      <3> QED
        BY <2>1, <3>2 DEF RowBecomes, Status
    <2> QED
      BY <1>5, <2>2, <2>3
  <1>6. ASSUME NEW s \in Steps, Attempt(s)
        PROVE  /\ Moves(s) /\ Status(s) = "running" /\ pc = "attempt"
               /\ \A t \in Steps \ {s} : executions'[t] = executions[t]
    BY <1>1, <1>6 DEF Attempt, RInv, ProcessOK, Busy, Status
  <1>7. ASSUME CacheNext, ~UNCHANGED disk
        PROVE  \E s \in Steps :
                  /\ Moves(s) /\ UNCHANGED executions
                  /\ Status(s) \in Completed /\ disk'.status[s] = "cached"
    <2>1. PICK s \in Steps : s = Current
      BY <1>7, AtCurrent DEF CacheNext
    <2>2. /\ disk' = [disk EXCEPT !.status[s] = "cached"] /\ UNCHANGED executions
          /\ Status(s) \in Completed
      BY <1>7, <2>1 DEF CacheNext
    <2> QED
      BY <1>1, <2>1, <2>2 DEF Checkpoint, Status
  <1> HIDE DEF Moves
  <1>8. \A s \in Steps : Moves(s) =>
            \A t \in Steps \ {s} : disk'.status[t] = Status(t)
    BY DEF Moves
  <1>9. CacheNext => UNCHANGED executions
    BY DEF CacheNext
  <1>10. CASE \E s \in Steps : Block(s) \/ DryRun(s) \/ Begin(s) \/ Retry(s)
                               \/ LogCollision(s)
    BY <1>4, <1>8, <1>10
  <1>11. CASE \E s \in Steps : Succeed(s) \/ Schedule(s) \/ FailStep(s)
    BY <1>5, <1>8, <1>11
  <1>12. CASE \E s \in Steps : Attempt(s)
    BY <1>6, <1>8, <1>12
  <1>13. CASE CacheNext
    BY <1>7, <1>8, <1>9, <1>13
  <1> QED
    BY <1>2, <1>3, <1>10, <1>11, <1>12, <1>13 DEF Next, RunnerStep

(* A decided step is never executed again nor decided otherwise, by this   *)
(* process or by one that resumes the run (_execute's status test).        *)
THEOREM DecisionsAreFinal == Spec => DecisionsStand
PROOF
  <1>1. ASSUME RInv, Next, NEW s \in Steps,
               Status(s) \in StepStatus \ {"pending", "running"}
        PROVE  /\ executions'[s] = executions[s]
               /\ disk'.status[s] # Status(s) =>
                     Status(s) = "succeeded" /\ disk'.status[s] = "cached"
    <2>1. disk.saved
      BY <1>1 DEF RInv, ProcessOK, NoCheckpoint, FreshCheckpoint, Status
    <2>2. CASE UNCHANGED <<disk, executions>>
      BY <2>2 DEF Status
    <2>3. ASSUME NEW r \in Steps,
                 \A t \in Steps \ {r} : /\ disk'.status[t] = Status(t)
                                        /\ executions'[t] = executions[t],
                 \/ Status(r) \in {"pending", "running"}
                 \/ /\ Status(r) \in Completed /\ disk'.status[r] = "cached"
                    /\ UNCHANGED executions
          PROVE  /\ executions'[s] = executions[s]
                 /\ disk'.status[s] # Status(s) =>
                       Status(s) = "succeeded" /\ disk'.status[s] = "cached"
      BY <1>1, <2>3 DEF Completed
    <2> QED
      BY <1>1, <2>1, <2>2, <2>3, OneRowAtATime
  <1>2. ASSUME RInv, [Next]_vars
        PROVE  [\A s \in Steps :
                   Status(s) \in StepStatus \ {"pending", "running"} =>
                      /\ executions'[s] = executions[s]
                      /\ disk'.status[s] # Status(s) =>
                            Status(s) = "succeeded" /\ disk'.status[s] = "cached"]_vars
    BY <1>1, <1>2
  <1> QED
    BY <1>2, RunInductive, PTL DEF Spec, DecisionsStand

(* Under fail_fast nothing runs after the first failure, whatever process  *)
(* goes on with the run (fail_fast_triggered, taken up again by resume).   *)
THEOREM FailFastHolds == Spec => FailFastStops
PROOF
  <1>1. ASSUME RInv, [Next]_vars
        PROVE  [Failing => executions' = executions]_vars
    <2> SUFFICES ASSUME Next, Failing PROVE executions' = executions
      BY <1>1
    <2>1. ~disk.saved => UNCHANGED executions
      BY <1>1 DEF Failing, RInv, ProcessOK, NoCheckpoint, FreshCheckpoint, Status
    <2>2. pc # "attempt"
      BY <1>1 DEF RInv, StoppingOK, Up, Busy
    <2> QED
      BY <1>1, <2>1, <2>2, OneRowAtATime
  <1> QED
    BY <1>1, RunInductive, PTL DEF Spec, FailFastStops

-----------------------------------------------------------------------------
Places == {"decide", "aside", "attempt", "promote", "database", "register",
           "publish", "rename", "resumed", "told", "told-again"}
Calls == [pc : Places, preview : Nat, now : 0 .. MaxClock]
Receipts == [state : {"none", "registering", "recoverable_failure", "completed"},
             attempts : Seq({"registering", "failed", "completed"})]
PreviewFiles == [plan : Plans, expires : Nat]
Entries == Directory \cup {None}

\* The shape of the state, with a call of a preview that was shown.
RegShape ==
    /\ clock \in 0 .. MaxClock /\ source \in Editions
    /\ previews \in Seq(PreviewFiles)
    /\ receipts \in [Plans -> Receipts]
    /\ stage \in [Plans -> Entries] /\ target \in [Plans -> Entries]
    /\ failed \in [Plans -> Seq(Directory)]
    /\ lock \in Procs \cup {Nobody}
    /\ ctl \in [Procs -> Calls \cup {Idle}]
    /\ \A p \in Procs : ctl[p] # Idle <=> lock = p
    /\ \A p \in Procs : lock = p => ctl[p].preview \in DOMAIN previews

\* A plan was shown, by a preview that was valid at that tick.
Shown(a, t) ==
    \E i \in DOMAIN previews : previews[i].plan = a /\ t < previews[i].expires
Present(directory) == IF directory = None THEN 0 ELSE 1

\* What is so of an account whoever has the lock: of its stage s, its target t,
\* what was put aside f and its receipt r.
AccountIs(a, s, t, f, r) ==
    /\ t # None => t.state = "published" /\ t.definition = a
    /\ s # None => s.at < Start /\ Shown(a, s.at)
    /\ t # None => t.at < Start /\ Shown(a, t.at)
    /\ \A i \in DOMAIN f : f[i].state \notin Whole
    /\ s = None \/ t = None
    /\ Len(f) + Present(s) + Present(t) <= Len(r.attempts)
    /\ r.state = "completed" => t # None

\* What a call knows of its account at each of its steps.
Confirmed == {"aside", "attempt", "promote", "database", "register", "publish",
              "rename"}
CallIs(c, s, t, f, r) ==
    /\ c.pc \in Confirmed => c.now < previews[c.preview].expires /\ t = None
    /\ c.pc = "aside" => s.state \notin Whole
    /\ c.pc \in {"attempt", "promote"} => s = None
    /\ c.pc = "promote" => Len(f) < Len(r.attempts)
    /\ c.pc \in {"database", "register", "publish", "rename", "resumed"} =>
          s # None
    /\ c.pc = "resumed" => t = None
    /\ c.pc \in {"told", "told-again"} => t # None

AccountsOK ==
    \A a \in Plans : AccountIs(a, stage[a], target[a], failed[a], receipts[a])
CallsOK ==
    \A p \in Procs : lock = p =>
        CallIs(ctl[p], stage[Account(p)], target[Account(p)],
               failed[Account(p)], receipts[Account(p)])

RegInv == RegShape /\ AccountsOK /\ CallsOK

-----------------------------------------------------------------------------
LEMMA SessionsGrow ==
  ASSUME NEW t \in 0 .. MaxClock
  PROVE  t \div Session \in 0 .. MaxClock \div Session
<1>1. Session \in Nat /\ Session > 0 /\ MaxClock \in Nat /\ t \in Nat
  BY RegistrationAssumption
<1>2. PICK q \in Nat, r \in 0 .. Session - 1 :
        q = t \div Session /\ t = Session * q + r
  BY <1>1
<1>3. PICK n \in Nat, m \in 0 .. Session - 1 :
        n = MaxClock \div Session /\ MaxClock = Session * n + m
  BY <1>1
<1>4. q <= n
  <2> SUFFICES ASSUME q >= n + 1 PROVE FALSE
    BY <1>2, <1>3
  <2>1. Session * q >= Session * (n + 1)
    BY <1>1, <1>2, <1>3
  <2>2. Session * (n + 1) = Session * n + Session
    BY <1>1, <1>3
  <2>3. t >= Session * n + Session
    BY <1>1, <1>2, <1>3, <2>1, <2>2
  <2> QED BY <1>1, <1>2, <1>3, <2>3
<1> QED BY <1>2, <1>3, <1>4

LEMMA PlanIsPlan ==
  ASSUME NEW e \in Editions, NEW t \in 0 .. MaxClock, e # Broken
  PROVE  Plan(e, t) \in Plans
BY SessionsGrow DEF Plan, Plans

LEMMA NoneIsNot ==
  /\ None.state = "none" /\ None \notin Directory /\ None \in Entries
  /\ \A d \in Entries : d # None => d \in Directory
  /\ \A d \in Entries : d.state \notin Kinds => d = None
BY DEF None, Directory, Kinds, Entries

LEMMA RegStarts == RegInit => RegInv
<1> SUFFICES ASSUME RegInit PROVE RegInv
  OBVIOUS
<1>1. clock \in 0 .. MaxClock
  BY RegistrationAssumption DEF RegInit
<1>2. NoReceipt \in Receipts /\ Len(NoReceipt.attempts) = 0
      /\ NoReceipt.state = "none"
  BY DEF NoReceipt, Receipts
<1>3. RegShape
  BY <1>1, <1>2, NoneIsNot, RegistrationAssumption DEF RegInit, RegShape
<1>4. AccountsOK
  BY <1>2 DEF RegInit, AccountsOK, AccountIs, Present
<1>5. CallsOK
  BY RegistrationAssumption DEF RegInit, CallsOK
<1> QED BY <1>3, <1>4, <1>5 DEF RegInv

\* Whoever has the lock is in a call of an account.
LEMMA WhoHolds ==
  ASSUME RegInv, NEW p \in Procs, lock = p
  PROVE  /\ ctl[p] \in Calls /\ Account(p) \in Plans
         /\ ctl[p].preview \in DOMAIN previews
         /\ previews[ctl[p].preview] \in PreviewFiles
         /\ previews[ctl[p].preview].plan = Account(p)
         /\ CallIs(ctl[p], stage[Account(p)], target[Account(p)],
                   failed[Account(p)], receipts[Account(p)])
         /\ AccountIs(Account(p), stage[Account(p)], target[Account(p)],
                      failed[Account(p)], receipts[Account(p)])
<1>1. ctl[p] \in Calls /\ ctl[p].preview \in DOMAIN previews
  BY DEF RegInv, RegShape
<1>2. previews[ctl[p].preview] \in PreviewFiles
  BY <1>1 DEF RegInv, RegShape
<1>3. Account(p) \in Plans
  BY <1>2 DEF Account, PreviewFiles
<1> QED BY <1>1, <1>2, <1>3 DEF RegInv, AccountsOK, CallsOK, Account

\* A step of a call changes the files of its account and nobody else's.
LEMMA StepKeeps ==
  ASSUME RegInv, NEW p \in Procs, lock = p, NEW a \in Plans, a = Account(p),
         UNCHANGED <<clock, source, previews>>,
         NEW s \in Entries, NEW t \in Entries,
         NEW f \in Seq(Directory), NEW r \in Receipts,
         stage' = [stage EXCEPT ![a] = s], target' = [target EXCEPT ![a] = t],
         failed' = [failed EXCEPT ![a] = f],
         receipts' = [receipts EXCEPT ![a] = r],
         AccountIs(a, s, t, f, r),
         \/ Release(p)
         \/ \E where \in Places :
               Goto(p, where) /\ CallIs([ctl[p] EXCEPT !.pc = where], s, t, f, r)
  PROVE  RegInv'
<1>1. /\ stage' \in [Plans -> Entries] /\ target' \in [Plans -> Entries]
      /\ failed' \in [Plans -> Seq(Directory)]
      /\ receipts' \in [Plans -> Receipts]
      /\ stage'[a] = s /\ target'[a] = t /\ failed'[a] = f /\ receipts'[a] = r
      /\ \A b \in Plans \ {a} :
            /\ stage'[b] = stage[b] /\ target'[b] = target[b]
            /\ failed'[b] = failed[b] /\ receipts'[b] = receipts[b]
  BY DEF RegInv, RegShape
<1>2. AccountsOK'
  <2> SUFFICES ASSUME NEW b \in Plans
               PROVE  AccountIs(b, stage[b], target[b], failed[b], receipts[b])'
    BY DEF AccountsOK
  <2>1. CASE b = a
    BY <1>1, <2>1 DEF AccountIs, Shown
  <2>2. CASE b # a
    BY <1>1, <2>2 DEF RegInv, AccountsOK, AccountIs, Shown
  <2> QED BY <2>1, <2>2
<1>3. ctl \in [Procs -> Calls \cup {Idle}] /\ ctl[p] \in Calls
      /\ ctl[p].preview \in DOMAIN previews /\ Nobody \notin Procs
      /\ \A q \in Procs : ctl[q] # Idle <=> lock = q
  BY WhoHolds, RegistrationAssumption DEF RegInv, RegShape
<1>4. CASE Release(p)
  <2>1. lock' = Nobody /\ ctl' \in [Procs -> Calls \cup {Idle}]
        /\ \A q \in Procs : ctl'[q] = Idle
    BY <1>3, <1>4 DEF Release
  <2>2. RegShape'
    BY <1>1, <1>3, <2>1 DEF RegInv, RegShape
  <2>3. CallsOK'
    BY <1>3, <2>1 DEF CallsOK
  <2> QED BY <1>2, <2>2, <2>3 DEF RegInv
<1>5. ASSUME NEW where \in Places, Goto(p, where),
             CallIs([ctl[p] EXCEPT !.pc = where], s, t, f, r)
      PROVE  RegInv'
  <2> DEFINE c == [ctl[p] EXCEPT !.pc = where]
  <2>1. c \in Calls /\ c.preview = ctl[p].preview
    BY <1>3 DEF Calls
  <2>2. CallIs(c, s, t, f, r)
    BY <1>5
  <2>3. ctl' = [ctl EXCEPT ![p] = c] /\ lock' = lock
    BY <1>3, <1>5 DEF Goto
  <2> HIDE DEF c
  <2>4. c # Idle
    BY <2>1 DEF Calls, Places, Idle
  <2>5. RegShape'
    BY <1>1, <1>3, <2>1, <2>3, <2>4 DEF RegInv, RegShape
  <2>6. Account(p)' = a /\ ctl'[p] = c
    BY <1>3, <2>1, <2>3 DEF Account
  <2>7. CallsOK'
    <3> SUFFICES ASSUME NEW q \in Procs, lock' = q
                 PROVE  CallIs(ctl[q], stage[Account(q)], target[Account(q)],
                               failed[Account(q)], receipts[Account(q)])'
      BY DEF CallsOK
    <3>1. q = p
      BY <2>3
    <3> QED BY <1>1, <2>2, <2>6, <3>1 DEF CallIs
  <2> QED BY <1>2, <2>5, <2>7 DEF RegInv
<1> QED BY <1>4, <1>5

LEMMA StepEnds ==
  ASSUME RegInv, NEW p \in Procs, lock = p, NEW a \in Plans, a = Account(p),
         UNCHANGED <<clock, source, previews>>,
         NEW s \in Entries, NEW t \in Entries,
         NEW f \in Seq(Directory), NEW r \in Receipts,
         stage' = [stage EXCEPT ![a] = s], target' = [target EXCEPT ![a] = t],
         failed' = [failed EXCEPT ![a] = f],
         receipts' = [receipts EXCEPT ![a] = r],
         AccountIs(a, s, t, f, r),
         Release(p)
  PROVE  RegInv'
BY StepKeeps

LEMMA StepGoes ==
  ASSUME RegInv, NEW p \in Procs, lock = p, NEW a \in Plans, a = Account(p),
         UNCHANGED <<clock, source, previews>>,
         NEW s \in Entries, NEW t \in Entries,
         NEW f \in Seq(Directory), NEW r \in Receipts,
         stage' = [stage EXCEPT ![a] = s], target' = [target EXCEPT ![a] = t],
         failed' = [failed EXCEPT ![a] = f],
         receipts' = [receipts EXCEPT ![a] = r],
         AccountIs(a, s, t, f, r),
         NEW where \in Places, Goto(p, where),
         CallIs([ctl[p] EXCEPT !.pc = where], s, t, f, r)
  PROVE  RegInv'
BY StepKeeps

-----------------------------------------------------------------------------
(* What is left alone of an account is what it was.                        *)
LEMMA LeftAlone ==
  ASSUME RegInv, NEW a \in Plans
  PROVE  /\ stage[a] \in Entries /\ target[a] \in Entries
         /\ failed[a] \in Seq(Directory) /\ receipts[a] \in Receipts
         /\ stage = [stage EXCEPT ![a] = stage[a]]
         /\ target = [target EXCEPT ![a] = target[a]]
         /\ failed = [failed EXCEPT ![a] = failed[a]]
         /\ receipts = [receipts EXCEPT ![a] = receipts[a]]
         /\ Len(failed[a]) \in Nat /\ Len(receipts[a].attempts) \in Nat
         /\ receipts[a].attempts = <<>> => Len(receipts[a].attempts) = 0
         /\ Present(stage[a]) \in {0, 1} /\ Present(target[a]) \in {0, 1}
BY DEF RegInv, RegShape, Receipts, Present

LEMMA CallFields ==
  ASSUME NEW c \in Calls, NEW where \in Places
  PROVE  LET d == [c EXCEPT !.pc = where] IN
         /\ d \in Calls /\ d.pc = where /\ d.preview = c.preview /\ d.now = c.now
BY DEF Calls

LEMMA ReceiptSaved ==
  ASSUME RegInv, NEW p \in Procs, lock = p,
         NEW state \in {"none", "registering", "recoverable_failure", "completed"},
         SaveReceipt(p, state)
  PROVE  \E r \in Receipts :
            /\ receipts' = [receipts EXCEPT ![Account(p)] = r]
            /\ r.state = state /\ r.attempts = Receipt(p).attempts
<1> DEFINE r == [Receipt(p) EXCEPT !.state = state]
<1>1. Receipt(p) \in Receipts
  BY WhoHolds, LeftAlone DEF Receipt
<1>2. r \in Receipts /\ r.state = state /\ r.attempts = Receipt(p).attempts
  BY <1>1 DEF Receipts
<1>3. receipts' = [receipts EXCEPT ![Account(p)] = r]
  BY DEF SaveReceipt, Receipt
<1> QED BY <1>2, <1>3

LEMMA ReceiptNoted ==
  ASSUME RegInv, NEW p \in Procs, lock = p,
         NEW state \in {"recoverable_failure", "completed"},
         NEW ending \in {"failed", "completed"}, Note(p, state, ending)
  PROVE  \E r \in Receipts :
            /\ receipts' = [receipts EXCEPT ![Account(p)] = r]
            /\ r.state = state /\ Len(r.attempts) = Len(Receipt(p).attempts)
<1>1. Receipt(p) \in Receipts
  BY WhoHolds, LeftAlone DEF Receipt
<1> DEFINE log == Receipt(p).attempts
           new == IF log = <<>> THEN log ELSE [log EXCEPT ![Len(log)] = ending]
           r == [state |-> state, attempts |-> new]
<1>2. log \in Seq({"registering", "failed", "completed"})
  BY <1>1 DEF Receipts
<1>3. new \in Seq({"registering", "failed", "completed"}) /\ Len(new) = Len(log)
  BY <1>2
<1>4. receipts' = [receipts EXCEPT ![Account(p)] = r]
  BY DEF Note
<1> HIDE DEF log, new
<1>5. r \in Receipts /\ r.state = state /\ r.attempts = new
  BY <1>3 DEF Receipts
<1> QED BY <1>3, <1>4, <1>5 DEF log

LEMMA RegRecognise ==
  ASSUME RegInv, NEW p \in Procs, Recognise(p)
  PROVE  RegInv'
<1> DEFINE a == Account(p)
<1>1. /\ lock = p /\ target[a] # None /\ Release(p)
      /\ UNCHANGED <<clock, source, previews, stage, target, failed>>
      /\ SaveReceipt(p, "completed") \/ UNCHANGED receipts
  BY DEF Recognise, At, world
<1>2. /\ a \in Plans
      /\ AccountIs(a, stage[a], target[a], failed[a], receipts[a])
  BY <1>1, WhoHolds
<1>3. PICK r \in Receipts :
        /\ receipts' = [receipts EXCEPT ![a] = r]
        /\ r.state = receipts[a].state \/ r.state = "completed"
        /\ r.attempts = receipts[a].attempts
  BY <1>1, <1>2, ReceiptSaved, LeftAlone DEF Receipt
<1>4. AccountIs(a, stage[a], target[a], failed[a], r)
  BY <1>1, <1>2, <1>3 DEF AccountIs
<1> HIDE DEF a
<1>5. a = Account(p)
  BY DEF a
<1>6. /\ stage' = [stage EXCEPT ![a] = stage[a]]
      /\ target' = [target EXCEPT ![a] = target[a]]
      /\ failed' = [failed EXCEPT ![a] = failed[a]]
  BY <1>1, <1>2, LeftAlone
<1>7. /\ lock = p /\ Release(p) /\ UNCHANGED <<clock, source, previews>>
      /\ receipts' = [receipts EXCEPT ![a] = r]
      /\ stage[a] \in Entries /\ target[a] \in Entries
      /\ failed[a] \in Seq(Directory)
  BY <1>1, <1>2, <1>3, LeftAlone
<1> QED BY <1>2, <1>4, <1>5, <1>6, <1>7, StepEnds

LEMMA RegResume ==
  ASSUME RegInv, NEW p \in Procs, ResumePublish(p)
  PROVE  RegInv'
<1> DEFINE a == Account(p)
<1>1. /\ lock = p /\ ctl[p].pc = "decide" /\ target[a] = None
      /\ Registered(stage[a])
      /\ UNCHANGED <<clock, source, previews, receipts, target, failed>>
      /\ \/ /\ stage' = [stage EXCEPT ![a].state = "published"]
            /\ Goto(p, "resumed")
         \/ UNCHANGED stage /\ Release(p)
  BY DEF ResumePublish, Interrupted, At, Stage, world
<1>2. /\ a \in Plans /\ ctl[p] \in Calls
      /\ AccountIs(a, stage[a], target[a], failed[a], receipts[a])
  BY <1>1, WhoHolds
<1>3. stage[a] \in Directory /\ stage[a] # None
  BY <1>1, <1>2, NoneIsNot, LeftAlone DEF Registered
<1> DEFINE s == [stage[a] EXCEPT !.state = "published"]
<1>4. s \in Entries /\ s # None /\ s.at = stage[a].at
  BY <1>3, NoneIsNot DEF Directory, Kinds, Entries
<1>5. stage' = [stage EXCEPT ![a] = s] \/ stage' = stage
  BY <1>1
<1> HIDE DEF s, a
<1>6. a = Account(p)
  BY DEF a
<1>7. CASE UNCHANGED stage /\ Release(p)
  BY <1>1, <1>2, <1>6, <1>7, LeftAlone, StepEnds
<1>8. CASE stage' = [stage EXCEPT ![a].state = "published"] /\ Goto(p, "resumed")
  <2>1. AccountIs(a, s, target[a], failed[a], receipts[a])
    BY <1>1, <1>2, <1>3, <1>4 DEF AccountIs, Present
  <2>2. CallIs([ctl[p] EXCEPT !.pc = "resumed"], s, target[a], failed[a],
               receipts[a])
    BY <1>1, <1>2, <1>4, CallFields DEF CallIs, Confirmed, Places
  <2>3. stage' = [stage EXCEPT ![a] = s]
    BY <1>8 DEF s
  <2> QED BY <1>1, <1>2, <1>4, <1>6, <1>8, <2>1, <2>2, <2>3, LeftAlone,
             StepGoes DEF Places
<1> QED BY <1>1, <1>7, <1>8

LEMMA RegConfirm ==
  ASSUME RegInv, NEW p \in Procs, Confirm(p)
  PROVE  RegInv'
<1> DEFINE a == Account(p)
<1>1. /\ lock = p /\ ctl[p].pc = "decide" /\ target[a] = None
      /\ receipts[a].attempts = <<>> \/ ~Registered(stage[a])
      /\ UNCHANGED <<clock, source, previews, receipts, stage, target, failed>>
      /\ \/ ctl[p].now < previews[ctl[p].preview].expires /\ Goto(p, "aside")
         \/ Release(p)
  BY DEF Confirm, Interrupted, Fresh, At, Stage, Receipt, world
<1>2. /\ a \in Plans /\ ctl[p] \in Calls
      /\ AccountIs(a, stage[a], target[a], failed[a], receipts[a])
  BY <1>1, WhoHolds
<1>3. stage[a].state \notin Whole
  <2>1. stage[a] = None => stage[a].state \notin Whole
    BY NoneIsNot DEF Whole
  <2>2. receipts[a].attempts = <<>> => stage[a] = None
    <3>1. Len(failed[a]) + Present(stage[a]) + Present(target[a])
            <= Len(receipts[a].attempts)
      BY <1>2 DEF AccountIs
    <3>2. Present(stage[a]) = 1 => receipts[a].attempts # <<>>
      BY <1>2, <3>1, LeftAlone
    <3> QED BY <3>2 DEF Present
  <2> QED BY <1>1, <2>1, <2>2 DEF Registered, Whole
<1> HIDE DEF a
<1>4. a = Account(p)
  BY DEF a
<1>5. CASE Release(p)
  BY <1>1, <1>2, <1>4, <1>5, LeftAlone, StepEnds
<1>6. CASE ctl[p].now < previews[ctl[p].preview].expires /\ Goto(p, "aside")
  <2>1. CallIs([ctl[p] EXCEPT !.pc = "aside"], stage[a], target[a], failed[a],
               receipts[a])
    BY <1>1, <1>2, <1>3, <1>6, CallFields DEF CallIs, Confirmed, Places
  <2> QED BY <1>1, <1>2, <1>4, <1>6, <2>1, LeftAlone, StepGoes DEF Places
<1> QED BY <1>1, <1>5, <1>6

LEMMA RegMoveAside ==
  ASSUME RegInv, NEW p \in Procs, MoveAside(p)
  PROVE  RegInv'
<1> DEFINE a == Account(p)
<1>1. /\ lock = p /\ ctl[p].pc = "aside" /\ Goto(p, "attempt")
      /\ UNCHANGED <<clock, source, previews, receipts, target>>
      /\ \/ stage[a] = None /\ UNCHANGED <<stage, failed>>
         \/ /\ stage[a] # None
            /\ failed' = [failed EXCEPT ![a] = Append(failed[a], stage[a])]
            /\ stage' = [stage EXCEPT ![a] = None]
  BY DEF MoveAside, At, Stage, world
<1>2. /\ a \in Plans /\ ctl[p] \in Calls
      /\ AccountIs(a, stage[a], target[a], failed[a], receipts[a])
      /\ CallIs(ctl[p], stage[a], target[a], failed[a], receipts[a])
  BY <1>1, WhoHolds
<1>3. PICK f \in Seq(Directory) :
        /\ failed' = [failed EXCEPT ![a] = f]
        /\ stage' = [stage EXCEPT ![a] = None]
        /\ \A i \in DOMAIN f : f[i].state \notin Whole
        /\ Len(f) = Len(failed[a]) + Present(stage[a])
  <2>1. CASE stage[a] = None /\ UNCHANGED <<stage, failed>>
    BY <1>2, <2>1, LeftAlone DEF AccountIs, Present
  <2>2. CASE /\ stage[a] # None
             /\ failed' = [failed EXCEPT ![a] = Append(failed[a], stage[a])]
             /\ stage' = [stage EXCEPT ![a] = None]
    <3>1. stage[a] \in Directory /\ stage[a].state \notin Whole
          /\ failed[a] \in Seq(Directory)
      BY <1>1, <1>2, <2>2, LeftAlone, NoneIsNot DEF CallIs
    <3> DEFINE f == Append(failed[a], stage[a])
    <3>2. f \in Seq(Directory) /\ Len(f) = Len(failed[a]) + 1
          /\ \A i \in DOMAIN f : f[i].state \notin Whole
      BY <1>2, <3>1 DEF AccountIs
    <3> QED BY <2>2, <3>2 DEF Present
  <2> QED BY <1>1, <2>1, <2>2
<1>4. target[a] = None /\ ctl[p].now < previews[ctl[p].preview].expires
  BY <1>1, <1>2 DEF CallIs, Confirmed
<1>5. AccountIs(a, None, target[a], f, receipts[a])
  <2>1. Len(f) + Present(None) + Present(target[a]) <= Len(receipts[a].attempts)
    <3>1. Len(failed[a]) + Present(stage[a]) + Present(target[a])
            <= Len(receipts[a].attempts)
      BY <1>2 DEF AccountIs
    <3>2. Present(None) = 0
      BY DEF Present
    <3> QED BY <1>2, <1>3, <3>1, <3>2, LeftAlone
  <2> QED BY <1>2, <1>3, <1>4, <2>1 DEF AccountIs
<1>6. CallIs([ctl[p] EXCEPT !.pc = "attempt"], None, target[a], f, receipts[a])
  BY <1>2, <1>4, CallFields DEF CallIs, Places
<1> HIDE DEF a
<1>7. a = Account(p)
  BY DEF a
<1> QED BY <1>1, <1>2, <1>3, <1>5, <1>6, <1>7, LeftAlone, NoneIsNot, StepGoes
        DEF Places

LEMMA RegAttempt ==
  ASSUME RegInv, NEW p \in Procs, BeginAttempt(p)
  PROVE  RegInv'
<1> DEFINE a == Account(p)
           r == [state |-> "registering",
                 attempts |-> Append(receipts[a].attempts, "registering")]
<1>1. /\ lock = p /\ ctl[p].pc = "attempt" /\ Goto(p, "promote")
      /\ UNCHANGED <<clock, source, previews, stage, target, failed>>
      /\ receipts' = [receipts EXCEPT ![a] = r]
  BY DEF BeginAttempt, At, world
<1>2. /\ a \in Plans /\ ctl[p] \in Calls
      /\ AccountIs(a, stage[a], target[a], failed[a], receipts[a])
      /\ CallIs(ctl[p], stage[a], target[a], failed[a], receipts[a])
  BY <1>1, WhoHolds
<1>3. /\ r \in Receipts /\ r.state = "registering"
      /\ Len(r.attempts) = Len(receipts[a].attempts) + 1
      /\ Len(receipts[a].attempts) \in Nat
  BY <1>2, LeftAlone DEF Receipts
<1>4. /\ target[a] = None /\ stage[a] = None
      /\ ctl[p].now < previews[ctl[p].preview].expires
  BY <1>1, <1>2 DEF CallIs, Confirmed
<1> HIDE DEF r
<1>5. AccountIs(a, stage[a], target[a], failed[a], r)
  BY <1>2, <1>3, <1>4, LeftAlone DEF AccountIs, Present
<1>6. CallIs([ctl[p] EXCEPT !.pc = "promote"], stage[a], target[a], failed[a], r)
  <2>1. Len(failed[a]) < Len(r.attempts)
    <3>1. Len(failed[a]) + Present(stage[a]) + Present(target[a])
            <= Len(receipts[a].attempts)
      BY <1>2 DEF AccountIs
    <3> QED BY <1>2, <1>3, <3>1, LeftAlone
  <2> QED BY <1>2, <1>4, <2>1, CallFields DEF CallIs, Places
<1> HIDE DEF a
<1>7. a = Account(p)
  BY DEF a
<1> QED BY <1>1, <1>2, <1>3, <1>5, <1>6, <1>7, LeftAlone, StepGoes DEF Places

LEMMA RegPromote ==
  ASSUME RegInv, NEW p \in Procs, Promote(p)
  PROVE  RegInv'
<1> DEFINE a == Account(p)
           s == [state |-> "directory", definition |-> Plan(source, ctl[p].now),
                 at |-> ctl[p].now]
<1>1. /\ lock = p /\ ctl[p].pc = "promote" /\ Goto(p, "database")
      /\ UNCHANGED <<clock, source, previews, receipts, target, failed>>
      /\ stage' = [stage EXCEPT ![a] = s]
      /\ source # Broken /\ ctl[p].now < Start
  BY DEF Promote, At, Fill, Sound, world
<1>2. /\ a \in Plans /\ ctl[p] \in Calls /\ ctl[p].preview \in DOMAIN previews
      /\ previews[ctl[p].preview].plan = a
      /\ AccountIs(a, stage[a], target[a], failed[a], receipts[a])
      /\ CallIs(ctl[p], stage[a], target[a], failed[a], receipts[a])
  BY <1>1, WhoHolds
<1>3. ctl[p].now \in 0 .. MaxClock /\ source \in Editions
  BY <1>2 DEF Calls, RegInv, RegShape
<1>4. Plan(source, ctl[p].now) \in Plans
  BY <1>1, <1>3, PlanIsPlan
<1>5. s \in Entries /\ s # None /\ s.at = ctl[p].now
  BY <1>3, <1>4, NoneIsNot DEF Directory, Kinds, Entries
<1> HIDE DEF s
<1>6. /\ target[a] = None /\ stage[a] = None
      /\ ctl[p].now < previews[ctl[p].preview].expires
      /\ Len(failed[a]) < Len(receipts[a].attempts)
  BY <1>1, <1>2 DEF CallIs, Confirmed
<1>7. AccountIs(a, s, target[a], failed[a], receipts[a])
  <2>1. Shown(a, s.at)
    BY <1>2, <1>5, <1>6 DEF Shown
  <2>2. Len(failed[a]) \in Nat /\ Len(receipts[a].attempts) \in Nat
    BY <1>2, LeftAlone DEF Receipts
  <2> QED BY <1>1, <1>2, <1>5, <1>6, <2>1, <2>2 DEF AccountIs, Present
<1>8. CallIs([ctl[p] EXCEPT !.pc = "database"], s, target[a], failed[a],
             receipts[a])
  BY <1>2, <1>5, <1>6, CallFields DEF CallIs, Places
<1> HIDE DEF a
<1>9. a = Account(p)
  BY DEF a
<1> QED BY <1>1, <1>2, <1>5, <1>7, <1>8, <1>9, LeftAlone, StepGoes DEF Places

\* The three steps after the first, each of which only marks the stage.
LEMMA RegAdvance ==
  ASSUME RegInv, NEW p \in Procs,
         NEW from \in {"database", "register", "publish"},
         NEW state \in Kinds, NEW to \in {"register", "publish", "rename"},
         Advance(p, from, state, to)
  PROVE  RegInv'
<1> DEFINE a == Account(p)
           s == [stage[a] EXCEPT !.state = state]
<1>1. /\ lock = p /\ ctl[p].pc = from /\ Goto(p, to)
      /\ UNCHANGED <<clock, source, previews, receipts, target, failed>>
      /\ stage' = [stage EXCEPT ![a] = s]
  BY DEF Advance, At, Fill, Stage, world
<1>2. /\ a \in Plans /\ ctl[p] \in Calls
      /\ AccountIs(a, stage[a], target[a], failed[a], receipts[a])
      /\ CallIs(ctl[p], stage[a], target[a], failed[a], receipts[a])
  BY <1>1, WhoHolds
<1>3. /\ target[a] = None /\ stage[a] # None
      /\ ctl[p].now < previews[ctl[p].preview].expires
  BY <1>1, <1>2 DEF CallIs, Confirmed
<1>4. s \in Entries /\ s # None /\ s.at = stage[a].at
  BY <1>2, <1>3, LeftAlone, NoneIsNot DEF Directory, Entries
<1> HIDE DEF s
<1>5. AccountIs(a, s, target[a], failed[a], receipts[a])
  BY <1>2, <1>3, <1>4 DEF AccountIs, Present
<1>6. CallIs([ctl[p] EXCEPT !.pc = to], s, target[a], failed[a], receipts[a])
  BY <1>2, <1>3, <1>4, CallFields DEF CallIs, Places
<1> HIDE DEF a
<1>7. a = Account(p)
  BY DEF a
<1> QED BY <1>1, <1>2, <1>4, <1>5, <1>6, <1>7, LeftAlone, StepGoes DEF Places

LEMMA RegFails ==
  ASSUME RegInv, NEW p \in Procs, lock = p, Fails(p)
  PROVE  RegInv'
<1> DEFINE a == Account(p)
<1>1. /\ Release(p) /\ Note(p, "recoverable_failure", "failed")
      /\ UNCHANGED <<clock, source, previews, stage, target, failed>>
  BY DEF Fails, world
<1>2. /\ a \in Plans
      /\ AccountIs(a, stage[a], target[a], failed[a], receipts[a])
  BY WhoHolds
<1>3. PICK r \in Receipts :
        /\ receipts' = [receipts EXCEPT ![a] = r]
        /\ r.state = "recoverable_failure"
        /\ Len(r.attempts) = Len(receipts[a].attempts)
  BY <1>1, ReceiptNoted DEF Receipt
<1>4. AccountIs(a, stage[a], target[a], failed[a], r)
  BY <1>2, <1>3 DEF AccountIs
<1> HIDE DEF a
<1>5. a = Account(p)
  BY DEF a
<1>6. /\ stage' = [stage EXCEPT ![a] = stage[a]]
      /\ target' = [target EXCEPT ![a] = target[a]]
      /\ failed' = [failed EXCEPT ![a] = failed[a]]
  BY <1>1, <1>2, LeftAlone
<1>7. /\ lock = p /\ Release(p) /\ UNCHANGED <<clock, source, previews>>
      /\ receipts' = [receipts EXCEPT ![a] = r]
      /\ stage[a] \in Entries /\ target[a] \in Entries
      /\ failed[a] \in Seq(Directory)
  BY <1>1, <1>2, <1>3, LeftAlone
<1> QED BY <1>2, <1>4, <1>5, <1>6, <1>7, StepEnds

LEMMA RegRename ==
  ASSUME RegInv, NEW p \in Procs, Rename(p)
  PROVE  RegInv'
<1> DEFINE a == Account(p)
           to == IF At(p, "rename") THEN "told" ELSE "told-again"
<1>1. /\ lock = p /\ ctl[p].pc \in {"rename", "resumed"} /\ Goto(p, to)
      /\ UNCHANGED <<clock, source, previews, receipts, failed>>
      /\ target' = [target EXCEPT ![a] = stage[a]]
      /\ stage' = [stage EXCEPT ![a] = None]
      /\ stage[a].state = "published" /\ stage[a].definition = a
  BY DEF Rename, MayRename, Verified, At, Stage, world
<1>2. /\ a \in Plans /\ ctl[p] \in Calls
      /\ AccountIs(a, stage[a], target[a], failed[a], receipts[a])
      /\ CallIs(ctl[p], stage[a], target[a], failed[a], receipts[a])
  BY <1>1, WhoHolds
<1>3. target[a] = None /\ stage[a] # None
  BY <1>1, <1>2 DEF CallIs, Confirmed
<1>4. AccountIs(a, None, stage[a], failed[a], receipts[a])
  BY <1>1, <1>2, <1>3 DEF AccountIs, Present
<1>5. to \in {"told", "told-again"}
  OBVIOUS
<1> HIDE DEF to
<1>6. CallIs([ctl[p] EXCEPT !.pc = to], None, stage[a], failed[a], receipts[a])
  BY <1>2, <1>3, <1>5, CallFields DEF CallIs, Confirmed, Places
<1> HIDE DEF a
<1>7. a = Account(p)
  BY DEF a
<1> QED BY <1>1, <1>2, <1>4, <1>5, <1>6, <1>7, LeftAlone, NoneIsNot, StepGoes
        DEF Places

LEMMA RegConclude ==
  ASSUME RegInv, NEW p \in Procs, Conclude(p)
  PROVE  RegInv'
<1> DEFINE a == Account(p)
<1>1. /\ lock = p /\ ctl[p].pc \in {"told", "told-again"} /\ Release(p)
      /\ Note(p, "completed", "completed") \/ SaveReceipt(p, "completed")
      /\ UNCHANGED <<clock, source, previews, stage, target, failed>>
  BY DEF Conclude, At, world
<1>2. /\ a \in Plans
      /\ AccountIs(a, stage[a], target[a], failed[a], receipts[a])
      /\ CallIs(ctl[p], stage[a], target[a], failed[a], receipts[a])
  BY <1>1, WhoHolds
<1>3. PICK r \in Receipts :
        /\ receipts' = [receipts EXCEPT ![a] = r] /\ r.state = "completed"
        /\ Len(r.attempts) = Len(receipts[a].attempts)
  BY <1>1, ReceiptNoted, ReceiptSaved DEF Receipt
<1>4. AccountIs(a, stage[a], target[a], failed[a], r)
  BY <1>1, <1>2, <1>3 DEF AccountIs, CallIs
<1> HIDE DEF a
<1>5. a = Account(p)
  BY DEF a
<1>6. /\ stage' = [stage EXCEPT ![a] = stage[a]]
      /\ target' = [target EXCEPT ![a] = target[a]]
      /\ failed' = [failed EXCEPT ![a] = failed[a]]
  BY <1>1, <1>2, LeftAlone
<1>7. /\ lock = p /\ Release(p) /\ UNCHANGED <<clock, source, previews>>
      /\ receipts' = [receipts EXCEPT ![a] = r]
      /\ stage[a] \in Entries /\ target[a] \in Entries
      /\ failed[a] \in Seq(Directory)
  BY <1>1, <1>2, <1>3, LeftAlone
<1> QED BY <1>2, <1>4, <1>5, <1>6, <1>7, StepEnds

LEMMA RegKilled ==
  ASSUME RegInv, NEW p \in Procs, Killed(p)
  PROVE  RegInv'
<1> DEFINE a == Account(p)
<1>1. /\ lock = p /\ Release(p)
      /\ UNCHANGED <<clock, source, previews, receipts, stage, target, failed>>
  BY DEF Killed, world
<1>2. /\ a \in Plans
      /\ AccountIs(a, stage[a], target[a], failed[a], receipts[a])
  BY <1>1, WhoHolds
<1> HIDE DEF a
<1>3. a = Account(p)
  BY DEF a
<1> QED BY <1>1, <1>2, <1>3, LeftAlone, StepEnds

LEMMA RegRefused ==
  ASSUME RegInv, NEW p \in Procs, Refused(p) \/ Fault(p)
  PROVE  RegInv'
BY RegFails DEF Refused, Fault, At

\* A step outside of every call adds a preview at most.
LEMMA RegQuiet ==
  ASSUME RegInv, UNCHANGED <<receipts, stage, target, failed, lock, ctl>>,
         clock' \in 0 .. MaxClock, source' \in Editions,
         previews' \in Seq(PreviewFiles),
         \A i \in DOMAIN previews :
            i \in DOMAIN previews' /\ previews'[i] = previews[i]
  PROVE  RegInv'
<1>1. RegShape'
  BY DEF RegInv, RegShape
<1>2. AccountsOK'
  BY DEF RegInv, AccountsOK, AccountIs, Shown
<1>3. CallsOK'
  <2> SUFFICES ASSUME NEW p \in Procs, lock = p
               PROVE  CallIs(ctl[p], stage[Account(p)], target[Account(p)],
                             failed[Account(p)], receipts[Account(p)])'
    BY DEF CallsOK
  <2>1. ctl[p].preview \in DOMAIN previews
        /\ CallIs(ctl[p], stage[Account(p)], target[Account(p)],
                  failed[Account(p)], receipts[Account(p)])
    BY WhoHolds
  <2>2. Account(p)' = Account(p)
    BY <2>1 DEF Account
  <2> QED BY <2>1, <2>2 DEF CallIs
<1> QED BY <1>1, <1>2, <1>3 DEF RegInv

LEMMA RegPreview ==
  ASSUME RegInv, Preview
  PROVE  RegInv'
<1> DEFINE new == [plan |-> Plan(source, clock), expires |-> clock + Ttl]
<1>1. /\ clock \in 0 .. MaxClock /\ source \in Editions /\ source # Broken
      /\ previews \in Seq(PreviewFiles)
  BY DEF Preview, Sound, RegInv, RegShape
<1>2. new \in PreviewFiles
  BY <1>1, PlanIsPlan, RegistrationAssumption DEF PreviewFiles
<1>3. previews' = Append(previews, new)
  BY DEF Preview
<1> HIDE DEF new
<1>4. previews' \in Seq(PreviewFiles)
      /\ \A i \in DOMAIN previews :
            i \in DOMAIN previews' /\ previews'[i] = previews[i]
  BY <1>1, <1>2, <1>3
<1> QED BY <1>1, <1>4, RegQuiet DEF Preview

LEMMA RegCall ==
  ASSUME RegInv, NEW p \in Procs, NEW i \in DOMAIN previews, Call(p, i)
  PROVE  RegInv'
<1> DEFINE c == [pc |-> "decide", preview |-> i, now |-> clock]
<1>1. /\ lock = Nobody /\ lock' = p /\ ctl' = [ctl EXCEPT ![p] = c]
      /\ UNCHANGED <<clock, source, previews, receipts, stage, target, failed>>
  BY DEF Call, world
<1>2. c \in Calls /\ c # Idle /\ c.pc = "decide" /\ c.preview = i
  BY DEF RegInv, RegShape, Calls, Places, Idle
<1> HIDE DEF c
<1>3. Nobody \notin Procs /\ \A q \in Procs : ctl[q] = Idle
  BY <1>1, RegistrationAssumption DEF RegInv, RegShape
<1>4. RegShape'
  BY <1>1, <1>2, <1>3 DEF RegInv, RegShape
<1>5. AccountsOK'
  BY <1>1 DEF RegInv, AccountsOK, AccountIs, Shown
<1>6. CallsOK'
  <2> SUFFICES ASSUME NEW q \in Procs, lock' = q
               PROVE  CallIs(ctl[q], stage[Account(q)], target[Account(q)],
                             failed[Account(q)], receipts[Account(q)])'
    BY DEF CallsOK
  <2>1. q = p /\ ctl'[q] = c
    BY <1>1, <1>3 DEF RegInv, RegShape
  <2> QED BY <1>2, <2>1 DEF CallIs, Confirmed
<1> QED BY <1>4, <1>5, <1>6 DEF RegInv

LEMMA RegStep ==
  ASSUME RegInv, NEW p \in Procs, Step(p)
  PROVE  RegInv'
<1>1. CASE CreateDatabase(p) \/ Register(p) \/ Publish(p)
  BY <1>1, RegAdvance DEF CreateDatabase, Register, Publish, Kinds
<1> QED BY <1>1, RegRecognise, RegResume, RegConfirm, RegMoveAside, RegAttempt,
           RegPromote, RegRefused, RegRename, RegConclude DEF Step

LEMMA RegKeeps ==
  ASSUME RegInv, [RegNext]_regVars
  PROVE  RegInv'
<1>1. CASE Preview
  BY <1>1, RegPreview
<1>2. CASE Tick \/ Edit \/ UNCHANGED regVars
  BY <1>2, RegQuiet, RegistrationAssumption
     DEF Tick, Edit, regVars, RegInv, RegShape
<1>3. ASSUME NEW p \in Procs,
             \/ \E i \in DOMAIN previews : Call(p, i)
             \/ Step(p) \/ Fault(p) \/ Killed(p)
      PROVE  RegInv'
  BY <1>3, RegCall, RegStep, RegRefused, RegKilled
<1> QED BY <1>1, <1>2, <1>3 DEF RegNext

LEMMA RegInvariant == RegSpec => []RegInv
<1>1. RegInv /\ [RegNext]_regVars => RegInv'
  BY RegKeeps
<1> QED BY RegStarts, <1>1, PTL DEF RegSpec

-----------------------------------------------------------------------------
LEMMA CountIs ==
  ASSUME NEW a \in Plans, stage[a] = None \/ target[a] = None
  PROVE  Count(a) = Len(failed[a]) + (Present(stage[a]) + Present(target[a]))
<1> DEFINE S == {f \in {<<1, stage[a]>>, <<2, target[a]>>} : f[2] # None}
<1>1. Count(a) = Len(failed[a]) + Cardinality(S)
  BY DEF Count
<1>2. CASE stage[a] = None /\ target[a] = None
  <2>1. S = {}
    BY <1>2
  <2>2. Cardinality(S) = 0
    BY <2>1, FS_EmptySet
  <2>3. Present(stage[a]) = 0 /\ Present(target[a]) = 0
    BY <1>2 DEF Present
  <2> HIDE DEF S
  <2>4. Present(stage[a]) + Present(target[a]) = Cardinality(S)
    BY <2>2, <2>3
  <2> QED BY <1>1, <2>4
<1>3. CASE stage[a] # None
  <2>1. S = {<<1, stage[a]>>}
    BY <1>3
  <2>2. Cardinality(S) = 1
    BY <2>1, FS_Singleton
  <2>3. Present(stage[a]) = 1 /\ Present(target[a]) = 0
    BY <1>3 DEF Present
  <2> HIDE DEF S
  <2>4. Present(stage[a]) + Present(target[a]) = Cardinality(S)
    BY <2>2, <2>3
  <2> QED BY <1>1, <2>4
<1>4. CASE target[a] # None
  <2>1. S = {<<2, target[a]>>}
    BY <1>4
  <2>2. Cardinality(S) = 1
    BY <2>1, FS_Singleton
  <2>3. Present(stage[a]) = 0 /\ Present(target[a]) = 1
    BY <1>4 DEF Present
  <2> HIDE DEF S
  <2>4. Present(stage[a]) + Present(target[a]) = Cardinality(S)
    BY <2>2, <2>3
  <2> QED BY <1>1, <2>4
<1> QED BY <1>2, <1>3, <1>4

\* Whatever was previewed, confirmed, edited, failed or killed: an account is
\* the plan that was shown and was registered in time, a plan is registered at
\* most once, and the receipt counts every directory an attempt made.
THEOREM RegistrationStaysSound == RegSpec => []RegistrationIsSound
<1>1. RegInv => RegistrationIsSound
  <2> SUFFICES ASSUME RegInv PROVE RegistrationIsSound
    OBVIOUS
  <2>1. RegTypeOK
    <3>1. \A i \in DOMAIN previews : previews[i].plan \in Plans
      <4>1. previews \in Seq(PreviewFiles)
        BY DEF RegInv, RegShape
      <4>2. \A i \in DOMAIN previews : previews[i] \in PreviewFiles
        BY <4>1
      <4> QED BY <4>2 DEF PreviewFiles
    <3>2. ASSUME NEW a \in Plans
          PROVE  Made(a) \subseteq Directory
                 /\ receipts[a].state \in
                      {"none", "registering", "recoverable_failure", "completed"}
      BY LeftAlone, NoneIsNot DEF Made, Receipts
    <3> QED BY <3>1, <3>2 DEF RegTypeOK, RegInv, RegShape
  <2>2. AccountIsPreviewed
    BY DEF AccountIsPreviewed, RegInv, AccountsOK, AccountIs, Shown
  <2>3. RegisteredOnce
    BY DEF RegisteredOnce, RegInv, AccountsOK, AccountIs
  <2>4. ReceiptsAreTrue
    <3> SUFFICES ASSUME NEW a \in Plans
                 PROVE  /\ Count(a) <= Len(receipts[a].attempts)
                        /\ receipts[a].state = "completed" => target[a] # None
      BY DEF ReceiptsAreTrue
    <3>1. AccountIs(a, stage[a], target[a], failed[a], receipts[a])
      BY DEF RegInv, AccountsOK
    <3>2. Len(failed[a]) + Present(stage[a]) + Present(target[a])
            <= Len(receipts[a].attempts)
      BY <3>1 DEF AccountIs
    <3>3. Count(a) = Len(failed[a]) + (Present(stage[a]) + Present(target[a]))
      BY <3>1, CountIs DEF AccountIs
    <3>4. Count(a) <= Len(receipts[a].attempts)
      BY <3>2, <3>3, LeftAlone
    <3> QED BY <3>1, <3>4 DEF AccountIs
  <2> QED BY <2>1, <2>2, <2>3, <2>4 DEF RegistrationIsSound
<1> QED BY <1>1, RegInvariant, PTL

\* What a step may do to the directories of an account.
EvidenceOf(a) ==
    /\ target[a] # None => target'[a] = target[a]
    /\ Len(failed[a]) <= Len(failed'[a])
    /\ \A i \in DOMAIN failed[a] : failed'[a][i] = failed[a][i]
    /\ stage[a] # None /\ stage'[a] = None =>
          target'[a] = stage[a]
              \/ (failed'[a] # <<>> /\ failed'[a][Len(failed'[a])] = stage[a])

LEMMA EvidenceKept ==
  ASSUME RegInv, [RegNext]_regVars, NEW a \in Plans
  PROVE  EvidenceOf(a)
<1> USE LeftAlone
<1>1. CASE UNCHANGED <<stage, target, failed>>
  BY <1>1 DEF EvidenceOf
<1>2. ASSUME NEW p \in Procs, ResumePublish(p)
      PROVE  EvidenceOf(a)
  <2>1. UNCHANGED <<target, failed>>
        /\ \/ UNCHANGED stage
           \/ stage' = [stage EXCEPT ![Account(p)].state = "published"]
    BY <1>2 DEF ResumePublish
  <2>2. stage'[a] # stage[a] => stage'[a].state = "published"
    <3>1. lock = p /\ Registered(stage[Account(p)]) /\ Account(p) \in Plans
      BY <1>2, WhoHolds DEF ResumePublish, At, Interrupted, Stage
    <3>2. stage[Account(p)] \in Directory
      BY <3>1, NoneIsNot DEF Registered
    <3> QED BY <2>1, <3>1, <3>2 DEF RegInv, RegShape, Directory
  <2>3. stage'[a] = None => stage[a] = None
    BY <2>2, NoneIsNot
  <2> QED BY <2>1, <2>3 DEF EvidenceOf
<1>3. ASSUME NEW p \in Procs, MoveAside(p)
      PROVE  EvidenceOf(a)
  <2>1. UNCHANGED target
        /\ \/ UNCHANGED <<stage, failed>>
           \/ /\ stage' = [stage EXCEPT ![Account(p)] = None]
              /\ failed' = [failed EXCEPT ![Account(p)] =
                              Append(failed[Account(p)], stage[Account(p)])]
              /\ stage[Account(p)] # None
    BY <1>3 DEF MoveAside, Stage
  <2>2. lock = p /\ Account(p) \in Plans
    BY <1>3, WhoHolds DEF MoveAside, At
  <2>3. CASE a # Account(p)
    BY <2>1, <2>2, <2>3 DEF EvidenceOf, RegInv, RegShape
  <2>4. CASE a = Account(p)
    <3>1. \/ UNCHANGED <<stage, failed>>
          \/ failed'[a] = Append(failed[a], stage[a]) /\ stage[a] # None
      BY <2>1, <2>2, <2>4 DEF RegInv, RegShape
    <3>2. CASE failed'[a] = Append(failed[a], stage[a]) /\ stage[a] # None
      <4>1. stage[a] \in Directory /\ failed[a] \in Seq(Directory)
        BY <3>2, NoneIsNot
      <4> QED BY <2>1, <3>2, <4>1 DEF EvidenceOf
    <3> QED BY <1>1, <2>1, <3>1, <3>2
  <2> QED BY <2>3, <2>4
<1>4. ASSUME NEW p \in Procs, Rename(p)
      PROVE  EvidenceOf(a)
  <2>1. /\ lock = p /\ UNCHANGED failed
        /\ target' = [target EXCEPT ![Account(p)] = stage[Account(p)]]
        /\ stage' = [stage EXCEPT ![Account(p)] = None]
        /\ ctl[p].pc \in {"rename", "resumed"}
    BY <1>4 DEF Rename, At, Stage
  <2>2. Account(p) \in Plans /\ target[Account(p)] = None
    BY <2>1, WhoHolds DEF CallIs, Confirmed
  <2> QED BY <2>1, <2>2 DEF EvidenceOf, RegInv, RegShape
<1>5. ASSUME NEW p \in Procs, NEW d, UNCHANGED <<target, failed>>,
             stage' = [stage EXCEPT ![Account(p)] = d], d # None
      PROVE  EvidenceOf(a)
  BY <1>5 DEF EvidenceOf, RegInv, RegShape
<1>6. ASSUME NEW p \in Procs, Promote(p)
      PROVE  EvidenceOf(a)
  <2>1. PICK d : /\ d.state = "directory" /\ UNCHANGED <<target, failed>>
                 /\ stage' = [stage EXCEPT ![Account(p)] = d]
    BY <1>6 DEF Promote, Fill
  <2> QED BY <1>5, <2>1, NoneIsNot
<1>7. ASSUME NEW p \in Procs, CreateDatabase(p) \/ Register(p) \/ Publish(p)
      PROVE  EvidenceOf(a)
  <2>1. PICK state \in Kinds :
           /\ lock = p /\ UNCHANGED <<target, failed>>
           /\ ctl[p].pc \in {"database", "register", "publish"}
           /\ stage' = [stage EXCEPT ![Account(p)] =
                          [stage[Account(p)] EXCEPT !.state = state]]
    BY <1>7 DEF CreateDatabase, Register, Publish, Advance, At, Fill, Stage, Kinds
  <2>2. Account(p) \in Plans /\ stage[Account(p)] # None
    BY <2>1, WhoHolds DEF CallIs
  <2>3. stage[Account(p)] \in Directory
    BY <2>2, NoneIsNot
  <2>4. [stage[Account(p)] EXCEPT !.state = state] # None
    BY <2>3, NoneIsNot DEF Directory, Kinds, None
  <2> QED BY <1>5, <2>1, <2>4
<1>8. ASSUME NEW p \in Procs, Step(p)
      PROVE  EvidenceOf(a)
  BY <1>1, <1>2, <1>3, <1>4, <1>6, <1>7, <1>8
     DEF Step, Recognise, Confirm, BeginAttempt, Refused, Fails, Conclude
<1>9. ASSUME NEW p \in Procs, (\E i \in DOMAIN previews : Call(p, i))
                              \/ Fault(p) \/ Killed(p)
      PROVE  EvidenceOf(a)
  BY <1>1, <1>9 DEF Call, Fault, Fails, Killed
<1>10. CASE Preview \/ Tick \/ Edit \/ UNCHANGED regVars
  BY <1>1, <1>10 DEF Preview, Tick, Edit, regVars
<1> QED BY <1>8, <1>9, <1>10 DEF RegNext

\* Nothing of an attempt is erased by any step, a recovery included.
THEOREM EvidenceAlwaysStands == RegSpec => EvidenceStands
<1>1. RegInv /\ [RegNext]_regVars => \A a \in Plans : EvidenceOf(a)
  BY EvidenceKept
<1>2. RegInv /\ [RegNext]_regVars =>
        [\A a \in Plans :
          /\ target[a] # None => target'[a] = target[a]
          /\ Len(failed[a]) <= Len(failed'[a])
          /\ \A i \in DOMAIN failed[a] : failed'[a][i] = failed[a][i]
          /\ stage[a] # None /\ stage'[a] = None =>
                target'[a] = stage[a]
                    \/ (failed'[a] # <<>> /\ failed'[a][Len(failed'[a])] = stage[a])
        ]_regVars
  BY <1>1 DEF EvidenceOf
<1> QED BY <1>2, RegInvariant, PTL DEF RegSpec, EvidenceStands
=============================================================================
