------------------------------ MODULE Isolation ------------------------------
(***************************************************************************)
(* run_isolated of isolation.py: one command is run in one container and   *)
(* the outcome is kept in isolation.json.  Five actors interleave: the     *)
(* host (run_isolated itself), the client `docker exec` it watches in      *)
(* _bounded with the two threads that drain its streams, the Docker        *)
(* daemon, which may carry out a request whose client has given up, the    *)
(* processes of the command inside the container, and the collector of     *)
(* isolation_collect.py, which stops those processes and archives /work.   *)
(* A cancellation may be asked, Ctrl-C pressed and the host killed at any  *)
(* step.  Docker, the kernel and the payload are external.                 *)
(***************************************************************************)
EXTENDS Naturals, Sequences, FiniteSets

CONSTANTS
  Main,           \* the process that `docker exec` starts for argv
  Others,         \* processes it may leave behind
  Limit,          \* pieces of the command's output that _bounded keeps
  MaxMade,        \* pieces the command may print
  Files,          \* files of /work the collector reads one after the other
  MaxWrites,      \* changes the payload may make to /work
  MaxRounds,      \* rounds the collector gets before its deadline
  MaxInterrupts,  \* times Ctrl-C is pressed
  NoRecord,       \* isolation.json is not written
  NoReason,       \* _bounded has no reason to give up
  NoCode          \* the command has no return code yet

ASSUME IsolationBounds ==
  /\ Main \notin Others
  /\ Limit \in Nat /\ MaxMade \in Nat /\ MaxWrites \in Nat
  /\ Files \in Nat \ {0} /\ MaxRounds \in Nat \ {0} /\ MaxInterrupts \in Nat

VARIABLES
  host,       \* run_isolated: where it is and the result it builds; not in
              \* the file: drained, the joins saw the streams end; escapes,
              \* an exception that nobody catches is on its way out
  saved,      \* isolation.json
  cancel,     \* what cancelled() answers
  interrupts, \* Ctrl-C pressed so far
  container,  \* the container as the daemon has it
  late,       \* requests whose client gave up, the daemon may still do them
  client,     \* the docker exec clients, one per phase, and what they print
  procs,      \* the processes of the command
  work,       \* the version of the files under /work
  coll        \* the collector

hostVars == <<host, saved>>
payload == <<procs, work>>
vars == <<host, saved, cancel, interrupts, container, late, client, procs,
          work, coll>>

Phases == {"exec", "collect"}
Pids == {Main} \cup Others
Reasons == {"cancelled", "stream_limit", "timeout"}

ASSUME NoReasonIsNone == NoReason \notin Reasons

Alive == {p \in Pids : procs[p] \in {"running", "stopping", "stopped"}}
AtMost(a, b) == IF a <= b THEN a ELSE b

NewClient == [pc |-> "none", made |-> 0, read |-> 0, over |-> FALSE,
              code |-> 0, reason |-> NoReason]
NewCollector == [pc |-> "none", round |-> 0, pids |-> {}, left |-> {},
                 live |-> {}, stopped |-> TRUE, read |-> <<>>]

IsoInit ==
  /\ host = [pc |-> "preflight", phase |-> "exec", attempted |-> FALSE,
             evidence |-> "not_executed", status |-> "blocked", rc |-> NoCode,
             cleanup |-> "unknown", logs |-> 0, outputs |-> <<>>,
             drained |-> TRUE, escapes |-> FALSE]
  /\ saved = NoRecord
  /\ cancel = FALSE
  /\ interrupts = 0
  /\ container = "none"
  /\ late = {}
  /\ client = [f \in Phases |-> NewClient]
  /\ procs = [p \in Pids |-> "none"]
  /\ work = 0
  /\ coll = NewCollector

------------------------------------------------------------------------------
(* The exception handler and the way into the finally block.               *)

After(h) == IF h.attempted THEN "rm" ELSE "save"

Handled(h, kind) ==
  [h EXCEPT !.pc = After(h),
            !.status = IF kind = "interrupt" THEN "cancelled"
                       ELSE IF h.evidence = "not_executed" THEN "blocked"
                       ELSE "failed"]

(* An exception of a class that is not listed: it passes the handler, and  *)
(* the finally block saves the result as it was.                           *)
Escapes(h) == [h EXCEPT !.pc = After(h), !.escapes = TRUE]

Raise == host' \in {Handled(host, "error"), Escapes(host)}

(* A failing or refused step of the host: nothing else changes.            *)
Fails ==
  /\ Raise
  /\ UNCHANGED <<saved, cancel, interrupts, container, late, client, payload,
                 coll>>

Goes(pc) ==
  /\ host' = [host EXCEPT !.pc = pc]
  /\ UNCHANGED <<saved, cancel, interrupts, container, late, client, payload,
                 coll>>

Preflight == host.pc = "preflight" /\ (Goes("stage") \/ Fails)

Stage == host.pc = "stage" /\ (Goes("check") \/ Fails)

Check ==
  /\ host.pc = "check"
  /\ \/ /\ cancel
        /\ host' = [host EXCEPT !.status = "cancelled", !.cleanup = "yes",
                                !.pc = "unstage"]
     \/ /\ ~cancel
        /\ host' = [host EXCEPT !.attempted = TRUE, !.pc = "create"]
     \/ Raise
  /\ UNCHANGED <<saved, cancel, interrupts, container, late, client, payload,
                 coll>>

(* Docker.call: the daemon does it, refuses it, or the client gives up     *)
(* after 30 seconds and the daemon may do it later.                        *)
GivesUp(request) ==
  /\ Raise
  /\ late' = late \cup {request}
  /\ UNCHANGED <<saved, cancel, interrupts, container, client, payload, coll>>

Create ==
  /\ host.pc = "create"
  /\ \/ /\ container' = "created"
        /\ host' = [host EXCEPT !.pc = "start"]
        /\ UNCHANGED <<saved, cancel, interrupts, late, client, payload, coll>>
     \/ Fails
     \/ GivesUp("create")

Start ==
  /\ host.pc = "start"
  /\ \/ /\ container' = "running"
        /\ host' = [host EXCEPT !.pc = "inspect",
                                !.evidence = "container-execution"]
        /\ UNCHANGED <<saved, cancel, interrupts, late, client, payload, coll>>
     \/ Fails
     \/ GivesUp("start")

Inspect == host.pc = "inspect" /\ (Goes("exec") \/ Fails)

------------------------------------------------------------------------------
(* _bounded, once for the command and once for the collector.              *)

(* Popen starts the client; its threads may then fail to start.            *)
Exec ==
  /\ host.pc = "exec"
  /\ \/ /\ client' = [client EXCEPT ![host.phase].pc = "run"]
        /\ host' = [host EXCEPT !.pc = "poll"] \/ Raise
        /\ IF host.phase = "exec"
             THEN /\ procs' = [procs EXCEPT ![Main] = "running"]
                  /\ UNCHANGED coll
             ELSE coll' = [coll EXCEPT !.pc = "scan"] /\ UNCHANGED procs
        /\ UNCHANGED <<saved, cancel, interrupts, container, late, work>>
     \/ Fails

Watched == client[host.phase]

(* Mutant: there is no deadline.                                           *)
PollWithoutDeadline ==
  /\ host.pc = "poll"
  /\ \/ /\ cancel \/ Watched.over
        /\ client' = [client EXCEPT ![host.phase].reason = "cancelled",
                                    ![host.phase].pc = "exited"]
     \/ Watched.pc = "exited" /\ UNCHANGED client
  /\ host' = [host EXCEPT !.pc = "join"]
  /\ UNCHANGED <<saved, cancel, interrupts, container, late, payload, coll>>

Killed(reason) ==
  client' = [client EXCEPT
    ![host.phase].reason = reason,
    ![host.phase].code = IF Watched.pc = "exited" THEN @ ELSE 9,
    ![host.phase].pc = "exited"]

(* The loop sees a reason to stop, and kills the client; the client may    *)
(* have ended since the loop looked.  Or the loop sees that it has ended.  *)
(* Or cancelled() raises, or the wait times out: the client is killed too. *)
Poll ==
  /\ host.pc = "poll"
  /\ \/ /\ \E reason \in Reasons :
             /\ reason = "cancelled" <=> cancel
             /\ reason = "stream_limit" <=> ~cancel /\ Watched.over
             /\ Killed(reason)
        /\ host' = [host EXCEPT !.pc = "join"]
     \/ /\ Watched.pc = "exited" /\ UNCHANGED client
        /\ host' = [host EXCEPT !.pc = "join"]
     \/ Killed(NoReason) /\ Raise
  /\ UNCHANGED <<saved, cancel, interrupts, container, late, payload, coll>>

Drained == Watched.read = Watched.made

(* Mutant: the overflow is not looked at again after the join.             *)
NoLookAfterJoin == Watched.reason

(* What _bounded returns as the reason, once its threads are joined.       *)
FinalReason ==
  IF Watched.over /\ Watched.reason = NoReason THEN "stream_limit"
  ELSE Watched.reason

(* What the threads keep of what they have read.                           *)
Kept(read) == AtMost(read, Limit)

(* The command's client: logs, return code and status; outputs are only    *)
(* collected when nothing cut the execution short.  The threads are joined *)
(* for ten seconds each: when they are not done by then, what they have    *)
(* read is taken for all.                                                  *)
Executed ==
  /\ host.pc = "join" /\ host.phase = "exec"
  /\ \/ host' = [host EXCEPT
          !.logs = Kept(Watched.read),
          !.drained = Drained,
          !.rc = Watched.code,
          !.status = IF FinalReason # NoReason THEN FinalReason
                     ELSE IF Watched.code = 0 THEN "succeeded" ELSE "failed",
          !.phase = IF FinalReason = NoReason THEN "collect" ELSE @,
          !.pc = IF FinalReason = NoReason THEN "exec" ELSE "unstage"]
     \/ Raise
  /\ UNCHANGED <<saved, cancel, interrupts, container, late, client, payload,
                 coll>>

(* The collector's client: anything but a clean end is an error; so is an  *)
(* archive that _extract refuses, or that has nothing in it.  One that was *)
(* cut between two of its files is taken for whole.                        *)
Collected ==
  /\ host.pc = "join" /\ host.phase = "collect"
  /\ \/ /\ Watched.code = 0 /\ FinalReason = NoReason /\ Watched.read > 0
        /\ host' = [host EXCEPT
             !.outputs = [i \in 1..Watched.read |-> coll.read[i]],
             !.drained = @ /\ Drained, !.pc = "unstage"]
     \/ Raise
  /\ UNCHANGED <<saved, cancel, interrupts, container, late, client, payload,
                 coll>>

(* The staging directory is removed on the way out of the with block.      *)
Unstage == host.pc = "unstage" /\ (Goes(After(host)) \/ Fails)

------------------------------------------------------------------------------
(* The finally block.                                                      *)

Empty ==
  /\ procs' = [p \in Pids |-> IF procs[p] = "none" THEN "none" ELSE "gone"]
  /\ coll' = [coll EXCEPT !.pc = "none"]

Uncertain(h) == [h EXCEPT !.status = "cleanup_failed", !.cleanup = "no",
                          !.pc = "save"]

(* rm is called with check=False: its exit status is not looked at.        *)
Remove ==
  /\ host.pc = "rm"
  /\ \/ /\ container' = "none" /\ Empty
        /\ host' = [host EXCEPT !.pc = "ps"]
        /\ UNCHANGED <<late, client, work>>
     \/ /\ host' = [host EXCEPT !.pc = "ps"]
        /\ UNCHANGED <<container, late, client, payload, coll>>
     \/ /\ host' = Uncertain(host)
        /\ late' = late \cup {"rm"}
        /\ UNCHANGED <<container, client, payload, coll>>
  /\ UNCHANGED <<saved, cancel, interrupts>>

Verify ==
  /\ host.pc = "ps"
  /\ host' \in {IF container = "none"
                  THEN [host EXCEPT !.cleanup = "yes", !.pc = "save"]
                  ELSE Uncertain(host),
                Uncertain(host)}
  /\ UNCHANGED <<saved, cancel, interrupts, container, late, client, payload,
                 coll>>

(* The result is returned, unless an exception is on its way out.          *)
Save ==
  /\ host.pc = "save"
  /\ \/ /\ saved' = host
        /\ host' = [host EXCEPT !.pc = IF host.escapes THEN "escaped"
                                       ELSE "done"]
     \/ host' = [host EXCEPT !.pc = "raised"] /\ UNCHANGED saved
  /\ UNCHANGED <<cancel, interrupts, container, late, client, payload, coll>>

------------------------------------------------------------------------------
(* The user: cancellation, Ctrl-C and kill.                                *)

Ended == {"done", "escaped", "raised", "dead"}

Cancel ==
  /\ ~cancel /\ host.pc \notin Ended
  /\ cancel' = TRUE
  /\ UNCHANGED <<hostVars, interrupts, container, late, client, payload, coll>>

(* The client of the step Ctrl-C falls in is killed with it; the daemon    *)
(* may already have its request.                                           *)
Request == CASE host.pc = "create" -> {"create"}
             [] host.pc = "start" -> {"start"}
             [] host.pc = "rm" -> {"rm"}
             [] OTHER -> {}

Interrupt ==
  /\ interrupts < MaxInterrupts /\ host.pc \notin Ended
  /\ interrupts' = interrupts + 1
  /\ host' = IF host.pc \in {"rm", "ps", "save"}
               THEN [host EXCEPT !.pc = "raised"]
               ELSE Handled(host, "interrupt")
  /\ late' \in {late, late \cup Request}
  /\ client' = [client EXCEPT ![host.phase].pc =
                  IF @ = "run" THEN "exited" ELSE @]
  /\ UNCHANGED <<saved, cancel, container, payload, coll>>

KillHost ==
  /\ host.pc \notin Ended
  /\ host' = [host EXCEPT !.pc = "dead"]
  /\ client' = [client EXCEPT ![host.phase].pc =
                  IF @ = "run" THEN "exited" ELSE @]
  /\ UNCHANGED <<saved, cancel, interrupts, container, late, payload, coll>>

(* The daemon gets to a request nobody waits for, or drops it.             *)
Daemon(request) ==
  /\ request \in late
  /\ late' = late \ {request}
  /\ \/ /\ request = "create" /\ container = "none"
        /\ container' = "created" /\ UNCHANGED <<payload, coll>>
     \/ /\ request = "start" /\ container = "created"
        /\ container' = "running" /\ UNCHANGED <<payload, coll>>
     \/ /\ request = "rm" /\ container' = "none"
        /\ Empty /\ UNCHANGED work
     \/ UNCHANGED <<container, payload, coll>>
  /\ UNCHANGED <<hostVars, cancel, interrupts, client>>

------------------------------------------------------------------------------
(* The command and the threads that drain its client.                      *)

Says ==
  /\ procs[Main] = "running" /\ client["exec"].pc = "run"
  /\ client["exec"].made < MaxMade
  /\ client' = [client EXCEPT !["exec"].made = @ + 1]
  /\ UNCHANGED <<hostVars, cancel, interrupts, container, late, payload, coll>>

(* The collector's client may pass on all that the collector lets through. *)
Bound(f) == IF f = "exec" THEN Limit ELSE Files

(* What a thread reads after the joins gave up on it nobody looks at.      *)
Drain(f) ==
  /\ host.phase = f /\ host.pc \in {"poll", "join"}
  /\ client[f].read < client[f].made
  /\ client' = [client EXCEPT ![f].read = @ + 1,
                              ![f].over = @ \/ client[f].read + 1 > Bound(f)]
  /\ UNCHANGED <<hostVars, cancel, interrupts, container, late, payload, coll>>

Fork(p) ==
  /\ procs[p] = "none" /\ p # Main
  /\ \E q \in Pids : procs[q] = "running"
  /\ procs' = [procs EXCEPT ![p] = "running"]
  /\ UNCHANGED <<hostVars, cancel, interrupts, container, late, client, work,
                 coll>>

Write ==
  /\ \E q \in Pids : procs[q] \in {"running", "stopping"}
  /\ work < MaxWrites
  /\ work' = work + 1
  /\ UNCHANGED <<hostVars, cancel, interrupts, container, late, client, procs,
                 coll>>

(* The client of the command ends with Main, whatever Main leaves behind.  *)
Exit(p) ==
  /\ procs[p] = "running"
  /\ procs' = [procs EXCEPT ![p] = "gone"]
  /\ \E code \in {0, 1} :
       client' = IF p = Main /\ client["exec"].pc = "run"
                   THEN [client EXCEPT !["exec"].pc = "exited",
                                       !["exec"].code = code]
                   ELSE client
  /\ UNCHANGED <<hostVars, cancel, interrupts, container, late, work, coll>>

(* The client of the command loses the daemon; the command runs on.        *)
LosesDaemon ==
  /\ client["exec"].pc = "run"
  /\ client' = [client EXCEPT !["exec"].pc = "exited", !["exec"].code = 1]
  /\ UNCHANGED <<hostVars, cancel, interrupts, container, late, payload, coll>>

(* A process that was sent SIGSTOP forks no more, and stops in its time.   *)
Stopped(p) ==
  /\ procs[p] = "stopping"
  /\ procs' = [procs EXCEPT ![p] = "stopped"]
  /\ UNCHANGED <<hostVars, cancel, interrupts, container, late, client, work,
                 coll>>

------------------------------------------------------------------------------
(* isolation_collect.collect.                                              *)

Collector(c) ==
  /\ coll' = c
  /\ UNCHANGED <<hostVars, cancel, interrupts, container, late, work>>

(* /proc is listed in one step; what a fork adds while it is listed counts *)
(* as added after it, for pids do not come back within a round.            *)
Scan ==
  /\ coll.pc = "scan"
  /\ Collector([coll EXCEPT !.pc = "signal", !.pids = Alive, !.left = Alive])
  /\ UNCHANGED <<client, procs>>

Signal(p) ==
  /\ coll.pc = "signal" /\ p \in coll.left
  /\ procs' = [procs EXCEPT ![p] = IF @ = "running" THEN "stopping" ELSE @]
  /\ Collector([coll EXCEPT !.left = @ \ {p}])
  /\ UNCHANGED client

Look ==
  /\ coll.pc = "signal" /\ coll.left = {}
  /\ Collector([coll EXCEPT !.pc = "look", !.live = Alive, !.left = Alive,
                            !.stopped = TRUE])
  /\ UNCHANGED <<client, procs>>

LookAt(p) ==
  /\ coll.pc = "look" /\ p \in coll.left
  /\ Collector([coll EXCEPT
       !.left = @ \ {p},
       !.stopped = @ /\ procs[p] \notin {"running", "stopping"}])
  /\ UNCHANGED <<client, procs>>

(* Mutant: a process that came after the signals is not missed.            *)
StoppedIsEnough == coll.stopped

Quiet == coll.live \subseteq coll.pids /\ coll.stopped

(* Quiescent, or another round, or past the deadline.                      *)
JudgeQuiet ==
  /\ coll.pc = "look" /\ coll.left = {}
  /\ \/ Quiet /\ Collector([coll EXCEPT !.pc = "read"])
     \/ /\ ~Quiet /\ coll.round + 1 < MaxRounds
        /\ Collector([coll EXCEPT !.pc = "scan", !.round = @ + 1])
     \/ ~Quiet /\ Collector([coll EXCEPT !.pc = "failed"])
  /\ UNCHANGED <<client, procs>>

(* One file after the other goes to stdout; a file or a total that is not  *)
(* allowed raises.                                                         *)
Archive ==
  /\ coll.pc = "read"
  /\ \/ /\ Len(coll.read) < Files
        /\ Collector([coll EXCEPT !.read = Append(@, work)])
        /\ client' = [client EXCEPT !["collect"].made =
                        IF client["collect"].pc = "run" THEN @ + 1 ELSE @]
     \/ /\ Len(coll.read) < Files
        /\ Collector([coll EXCEPT !.pc = "failed"]) /\ UNCHANGED client
     \/ /\ Len(coll.read) = Files
        /\ Collector([coll EXCEPT !.pc = "done"]) /\ UNCHANGED client
  /\ UNCHANGED procs

(* The collector's client ends with the collector, or loses the daemon.    *)
CollectorEnds ==
  /\ client["collect"].pc = "run"
  /\ client' = [client EXCEPT !["collect"].pc = "exited",
                              !["collect"].code = IF coll.pc = "done" THEN 0
                                                  ELSE 1]
  /\ UNCHANGED <<hostVars, cancel, interrupts, container, late, payload, coll>>

------------------------------------------------------------------------------
HostStep ==
  \/ Preflight \/ Stage \/ Check \/ Create \/ Start \/ Inspect
  \/ Exec \/ Poll \/ Executed \/ Collected \/ Unstage
  \/ Remove \/ Verify \/ Save

InContainer ==
  \/ Says \/ Write \/ LosesDaemon
  \/ \E p \in Pids : Fork(p) \/ Exit(p) \/ Stopped(p)
  \/ Scan \/ Look \/ JudgeQuiet \/ Archive \/ CollectorEnds
  \/ \E p \in Pids : Signal(p) \/ LookAt(p)

IsoNext ==
  \/ HostStep \/ InContainer
  \/ Cancel \/ Interrupt \/ KillHost
  \/ \E request \in {"create", "start", "rm"} : Daemon(request)
  \/ \E f \in Phases : Drain(f)

IsoSpec == IsoInit /\ [][IsoNext]_vars

(* Every step of the host is bounded by a timeout of its own.  Nothing is   *)
(* assumed of the command, of the daemon or of the streams.                *)
Fairness == WF_vars(HostStep)

LiveSpec == IsoSpec /\ Fairness

------------------------------------------------------------------------------
Statuses == Reasons \cup {"blocked", "failed", "succeeded", "cleanup_failed"}
HostPcs == Ended \cup {"preflight", "stage", "check", "create", "start",
                       "inspect", "exec", "poll", "join", "unstage", "rm",
                       "ps", "save"}
Results == [pc : HostPcs, phase : Phases, attempted : BOOLEAN,
            evidence : {"not_executed", "container-execution"},
            status : Statuses, rc : {NoCode, 0, 1, 9},
            cleanup : {"unknown", "yes", "no"}, logs : 0..Limit,
            outputs : UNION {[1..n -> 0..MaxWrites] : n \in 0..Files},
            drained : BOOLEAN, escapes : BOOLEAN]

(* The shape of the state: the host's result, the containers and clients.  *)
IsoTypeOK ==
  /\ host \in Results
  /\ saved \in Results \cup {NoRecord}
  /\ cancel \in BOOLEAN /\ interrupts \in 0..MaxInterrupts
  /\ container \in {"none", "created", "running"}
  /\ late \subseteq {"create", "start", "rm"}
  /\ \A f \in Phases : /\ client[f].pc \in {"none", "run", "exited"}
                       /\ client[f].read <= client[f].made
                       /\ client[f].reason \in Reasons \cup {NoReason}
  /\ procs \in [Pids -> {"none", "running", "stopping", "stopped", "gone"}]
  /\ work \in 0..MaxWrites
  /\ coll.pc \in {"none", "scan", "signal", "look", "read", "done", "failed"}

Recorded(statuses) == saved # NoRecord /\ saved.status \in statuses

(* A success is the whole story: the command ended with 0, and when the    *)
(* streams ended before their joins none of what it printed was cut off,   *)
(* although the threads may notice the overflow only after the client has  *)
(* ended by itself (isolation.py 284); and a success that is returned has  *)
(* the outputs that were collected after it.                               *)
SuccessIsComplete ==
  Recorded({"succeeded"}) =>
    /\ saved.rc = 0
    /\ saved.drained => saved.logs = client["exec"].made
    /\ host.pc = "done" => saved.outputs # <<>>

(* The archive is one snapshot: all of the files it holds are of the same  *)
(* moment, while what the command left behind forks, writes and is stopped *)
(* (isolation_collect.py 18-38, docs/research-isolation.md:84-86); and none*)
(* is missing, when the streams ended before their joins.                  *)
OutputsAreOneSnapshot ==
  Recorded(Statuses) /\ saved.outputs # <<>> =>
    /\ \A i, j \in 1..Len(saved.outputs) : saved.outputs[i] = saved.outputs[j]
    /\ saved.drained => Len(saved.outputs) = Files

(* A success leaves no container behind, not even one that a request the   *)
(* daemon was slow to do makes after the run has ended.                    *)
SuccessLeavesNothing ==
  Recorded({"succeeded"}) => container = "none" /\ saved.cleanup = "yes"

(* When cleanup was verified nothing of the command runs any more, whatever*)
(* happened to the client that was watching it (isolation.py 274, 484-494).*)
VerifiedMeansStopped ==
  saved # NoRecord /\ saved.cleanup = "yes" =>
    container # "running" /\ Alive = {}

(* A result whose evidence is not_executed, or that is returned as blocked,*)
(* is of a run in which no process of the command was ever started.        *)
BlockedMeansNotRun ==
  saved # NoRecord /\ (\/ saved.evidence = "not_executed"
                       \/ saved.status = "blocked" /\ host.pc = "done") =>
    procs[Main] = "none"

(* What the saved result says of the command, its output and its container *)
(* is so, when it was saved and ever after.                                *)
ResultIsTrue ==
  /\ IsoTypeOK /\ SuccessIsComplete /\ SuccessLeavesNothing
  /\ VerifiedMeansStopped /\ BlockedMeansNotRun

(* Every run ends, with a command that never does and streams that are     *)
(* never closed, by the deadline of _bounded and the timeout of its joins. *)
RunEnds == <>(host.pc \in Ended)
==============================================================================
