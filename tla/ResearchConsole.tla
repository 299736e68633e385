--------------------------- MODULE ResearchConsole ---------------------------
(***************************************************************************)
(* The research console of src/quant_pipeline/research_web.py: recipes     *)
(* that callers save and submit under one mutation lock, the queue, the    *)
(* worker thread that freezes a request and starts the CLI on it, and the  *)
(* server that is closed, killed and started again over one workspace.     *)
(*                                                                         *)
(* A study has one job.  Files can be edited by hand beside the console;   *)
(* load_recipe of a damaged file raises ValueError, or YAMLError, which    *)
(* the worker thread does not survive.  What a study computes, notes,      *)
(* comparisons and the accounts (ForwardLedger) are left out.              *)
(***************************************************************************)
EXTENDS Naturals, Sequences, FiniteSets

CONSTANTS
    Callers,        \* requests that mutate, each in its thread
    NoCaller,
    Studies,
    Versions,       \* 1 .. n: what a recipe can say
    MaxFileEdits,   \* bound: changes of files by hand
    MaxSubmits,     \* bound: requests to run or to resume
    MaxStops        \* bound: kills, closings and failing writes

Absent == 0
Torn == Cardinality(Versions) + 1   \* a file that is no recipe

ASSUME ConsoleAssumption ==
    /\ NoCaller \notin Callers
    /\ IsFiniteSet(Versions) /\ Versions = 1 .. Cardinality(Versions)
    /\ MaxFileEdits \in Nat /\ MaxSubmits \in Nat /\ MaxStops \in Nat

VARIABLES
    recipes,        \* recipes/<study>.yaml
    requests,       \* requests/<job>.yaml
    jobs,           \* the jobs table, one row for each study
    order,          \* its studies by created_at
    studies,        \* runs/<study>/study.json
    server,         \* "up", "closing", "joining", or how the last one ended
    worker,         \* the worker thread
    holder,         \* mutation_lock
    calls,          \* what each caller is doing
    children,       \* CLI processes that have not ended
    fileEdits, submits, stops

files == <<recipes, requests, studies>>
table == <<jobs, order>>
bounds == <<fileEdits, submits, stops>>
consoleVars == <<files, table, server, worker, holder, calls, children, bounds>>
-----------------------------------------------------------------------------
NoCall == [pc |-> "idle"]
NoJob == [status |-> "none", recipe |-> Absent]
WorkerAt(where) == worker.pc = where
Job == jobs[worker.study]

ConsoleInit ==
    /\ recipes = [s \in Studies |-> Absent] /\ requests = recipes
    /\ studies = recipes
    /\ jobs = [s \in Studies |-> NoJob] /\ order = <<>>
    /\ server = "closed" /\ worker = [pc |-> "gone"]
    /\ holder = NoCaller /\ calls = [c \in Callers |-> NoCall]
    /\ children = {} /\ fileEdits = 0 /\ submits = 0 /\ stops = 0

Serving == server \in {"up", "closing", "joining"}

\* __init__, in the workspace nobody else holds.
\* Mutant of Start: what ran goes on by itself.
StartAgain ==
    /\ ~Serving /\ server' = "up" /\ worker' = [pc |-> "claim"]
    /\ jobs' = [s \in Studies |-> IF jobs[s].status = "running"
                THEN [jobs[s] EXCEPT !.status = "queued"] ELSE jobs[s]]
    /\ UNCHANGED <<files, order, holder, calls, children, bounds>>
Start ==
    /\ ~Serving /\ server' = "up"
    /\ jobs' = [s \in Studies |-> IF jobs[s].status = "running"
                THEN [jobs[s] EXCEPT !.status = "interrupted"] ELSE jobs[s]]
    /\ worker' = [pc |-> "claim"]
    /\ children' = {[child EXCEPT !.own = FALSE] : child \in children}
    /\ UNCHANGED <<files, order, holder, calls, bounds>>
-----------------------------------------------------------------------------
(* save_recipe, clone and submit.                                          *)

Enter(c, call) ==
    /\ Serving /\ calls[c] = NoCall /\ holder = NoCaller
    /\ holder' = c /\ calls' = [calls EXCEPT ![c] = call]
Leave(c) ==
    /\ holder' = NoCaller /\ calls' = [calls EXCEPT ![c] = NoCall]

\* Nothing registered is saved over.
SaveCheck(c, s, v) ==
    /\ jobs[s] = NoJob
    /\ Enter(c, [pc |-> "save", study |-> s, recipe |-> v])
    /\ UNCHANGED <<files, table, server, worker, children, bounds>>
Clone(c, from, s) ==
    /\ recipes[s] = Absent /\ recipes[from] \in Versions
    /\ SaveCheck(c, s, recipes[from])
Save(c) ==
    /\ calls[c].pc = "save"
    /\ recipes' = [recipes EXCEPT ![calls[c].study] = calls[c].recipe]
    /\ Leave(c)
    /\ UNCHANGED <<requests, studies, table, server, worker, children, bounds>>

SubmitLoad(c, s) ==
    /\ submits < MaxSubmits /\ submits' = submits + 1
    /\ recipes[s] \in Versions
    /\ Enter(c, [pc |-> "submit", study |-> s, recipe |-> recipes[s]])
    /\ UNCHANGED <<files, table, server, worker, children, fileEdits, stops>>

\* The transaction: a new row, the same one again, or a refusal.
Submit(c) ==
    LET s == calls[c].study IN
    /\ calls[c].pc = "submit"
    /\ \/ /\ jobs[s] = NoJob
          /\ jobs' = [jobs EXCEPT ![s] =
                [status |-> "queued", recipe |-> calls[c].recipe]]
          /\ order' = Append(order, s)
       \/ /\ jobs[s].recipe = calls[c].recipe
          /\ jobs[s].status \in {"failed", "interrupted"}
          /\ jobs' = [jobs EXCEPT ![s].status = "queued"]
          /\ UNCHANGED order
       \/ /\ jobs[s] # NoJob
          /\ jobs[s].recipe = calls[c].recipe =>
                jobs[s].status \notin {"failed", "interrupted"}
          /\ UNCHANGED table
    /\ Leave(c)
    /\ UNCHANGED <<files, server, worker, children, bounds>>
-----------------------------------------------------------------------------
(* _work.                                                                  *)

\* The oldest row that is queued, unless the server is stopping.
\* Mutant of Claim: the oldest row, if it is queued.
ClaimOldest ==
    /\ WorkerAt("claim") /\ server = "up" /\ order # <<>>
    /\ jobs[order[1]].status = "queued"
    /\ jobs' = [jobs EXCEPT ![order[1]].status = "running"]
    /\ worker' = [pc |-> "check", study |-> order[1]]
    /\ UNCHANGED <<files, order, server, holder, calls, children, bounds>>
Claim ==
    /\ WorkerAt("claim") /\ server = "up"
    /\ \E s \in Studies :
          /\ jobs[s].status = "queued"
          /\ s = SelectSeq(order, LAMBDA t : jobs[t].status = "queued")[1]
          /\ jobs' = [jobs EXCEPT ![s].status = "running"]
          /\ worker' = [pc |-> "check", study |-> s]
    /\ UNCHANGED <<files, order, server, holder, calls, children, bounds>>
StopWorking ==
    /\ WorkerAt("claim") /\ server # "up"
    /\ worker' = [pc |-> "gone"]
    /\ UNCHANGED <<files, table, server, holder, calls, children, bounds>>

GoOn(where) == worker' = [worker EXCEPT !.pc = where] /\ UNCHANGED jobs
Ends(status, next) ==
    /\ jobs' = [jobs EXCEPT ![worker.study].status = status]
    /\ worker' = [pc |-> next]

\* What loading a file does: the same recipe, an exception the worker
\* expects, or one it does not survive.
LoadsFile(file, next) ==
    IF file = Job.recipe THEN GoOn(next)
    ELSE Ends("failed", "claim") \/ (file = Torn /\ Ends("failed", "dead"))

CheckRecipe ==
    /\ WorkerAt("check")
    /\ LoadsFile(recipes[worker.study], "request")
    /\ UNCHANGED <<files, order, server, holder, calls, children, bounds>>

Request ==
    /\ WorkerAt("request")
    /\ IF requests[worker.study] = Absent
       THEN /\ requests' = [requests EXCEPT ![worker.study] = Torn]
            /\ GoOn("write")
       ELSE LoadsFile(requests[worker.study], "spawn") /\ UNCHANGED requests
    /\ UNCHANGED <<recipes, studies, order, server, holder, calls, children, bounds>>

Write ==
    /\ WorkerAt("write")
    /\ requests' = [requests EXCEPT ![worker.study] = Job.recipe]
    /\ GoOn("spawn")
    /\ UNCHANGED <<recipes, studies, order, server, holder, calls, children, bounds>>
WriteFails ==
    /\ WorkerAt("write") /\ stops < MaxStops /\ stops' = stops + 1
    /\ Ends("failed", "claim")
    /\ UNCHANGED <<files, order, server, holder, calls, children, fileEdits, submits>>

\* Popen, which is also what self.process is from here on.
Mine == [study |-> worker.study, expected |-> Job.recipe,
         recipe |-> Absent, own |-> TRUE]
Spawn ==
    /\ WorkerAt("spawn") /\ children' = children \cup {Mine}
    /\ GoOn("wait")
    /\ UNCHANGED <<files, order, server, holder, calls, bounds>>

\* wait() and, of exit code 0, load_study.
Own(child) == WorkerAt("wait") /\ child.own
Answers(child, code) ==
    IF ~Own(child) THEN UNCHANGED <<jobs, worker>>
    ELSE IF code = 0 THEN GoOn("load") ELSE Ends("failed", "claim")

\* Mutant of Load: exit code 0 is enough.
LoadNothing ==
    /\ WorkerAt("load") /\ Ends("completed", "claim")
    /\ UNCHANGED <<files, order, server, holder, calls, children, bounds>>
Load ==
    /\ WorkerAt("load")
    /\ Ends(IF studies[worker.study] = Job.recipe THEN "completed" ELSE "failed",
            "claim")
    /\ UNCHANGED <<files, order, server, holder, calls, children, bounds>>
-----------------------------------------------------------------------------
(* research_workbench.main in the child: the request must still be the     *)
(* recipe whose digest it was started with.                                *)

Accepts(child) == requests[child.study] = child.expected

ChildStarts(child) ==
    /\ child.recipe = Absent /\ Accepts(child)
    /\ children' = (children \ {child})
                      \cup {[child EXCEPT !.recipe = requests[child.study]]}
    /\ UNCHANGED <<files, table, server, worker, holder, calls, bounds>>
ChildRefuses(child) ==
    /\ child.recipe = Absent /\ ~Accepts(child)
    /\ children' = children \ {child} /\ Answers(child, 2)
    /\ UNCHANGED <<files, order, server, holder, calls, bounds>>
ChildEnds(child) ==
    /\ child.recipe # Absent
    /\ children' = children \ {child}
    /\ \/ studies' = [studies EXCEPT ![child.study] = child.recipe]
          /\ \E code \in {0, 2} : Answers(child, code)
       \/ UNCHANGED studies /\ Answers(child, 2)
    /\ UNCHANGED <<recipes, requests, order, server, holder, calls, bounds>>
-----------------------------------------------------------------------------
(* close, in the thread that served, and a kill.                           *)

Close ==
    /\ server = "up" /\ stops < MaxStops /\ stops' = stops + 1
    /\ server' = "closing"
    /\ UNCHANGED <<files, table, worker, holder, calls, children, fileEdits, submits>>
\* One look at self.process.
Terminate ==
    /\ server = "closing" /\ server' = "joining"
    /\ children' = {child \in children : ~child.own}
    /\ IF WorkerAt("wait") THEN Ends("failed", "claim") ELSE UNCHANGED <<jobs, worker>>
    /\ UNCHANGED <<files, order, holder, calls, bounds>>

Down(how) ==
    /\ server' = how /\ worker' = [pc |-> "gone"]
    /\ holder' = NoCaller /\ calls' = [c \in Callers |-> NoCall]
    /\ UNCHANGED <<files, table>>

\* join: the worker has gone, or it has not within its ten seconds.
Joined == worker.pc \in {"gone", "dead"}
Closed ==
    /\ server = "joining" /\ Joined /\ Down("closed")
    /\ UNCHANGED <<children, bounds>>
CloseFails ==
    /\ server = "joining" /\ worker.pc \notin {"gone", "dead"}
    /\ Down("left")
    /\ UNCHANGED <<children, bounds>>

KillServer ==
    /\ Serving /\ stops < MaxStops /\ stops' = stops + 1
    /\ Down("killed")
    /\ UNCHANGED <<children, fileEdits, submits>>

\* Somebody edits a file of the workspace.
EditByHand(s) ==
    /\ fileEdits < MaxFileEdits /\ fileEdits' = fileEdits + 1
    /\ \E v \in Versions \cup {Torn} :
          \/ recipes' = [recipes EXCEPT ![s] = v] /\ UNCHANGED <<requests, studies>>
          \/ /\ requests[s] # Absent
             /\ requests' = [requests EXCEPT ![s] = v]
             /\ UNCHANGED <<recipes, studies>>
          \/ /\ studies[s] # Absent
             /\ studies' = [studies EXCEPT ![s] = v]
             /\ UNCHANGED <<recipes, requests>>
    /\ UNCHANGED <<table, server, worker, holder, calls, children,
                   submits, stops>>

WorkerStep ==
    \/ Claim \/ StopWorking \/ CheckRecipe \/ Request \/ Write \/ Spawn \/ Load
Child == \E child \in children :
    ChildStarts(child) \/ ChildRefuses(child) \/ ChildEnds(child)
Call(c) == Save(c) \/ Submit(c)

ConsoleNext ==
    \/ Start \/ Close \/ Terminate \/ Closed \/ CloseFails \/ KillServer
    \/ WorkerStep \/ WriteFails \/ Child
    \/ \E s \in Studies : EditByHand(s)
    \/ \E c \in Callers :
          \/ Call(c)
          \/ \E s \in Studies :
                \/ SubmitLoad(c, s)
                \/ \E v \in Versions : SaveCheck(c, s, v)
                \/ \E t \in Studies : Clone(c, t, s)

ConsoleSpec == ConsoleInit /\ [][ConsoleNext]_consoleVars

\* Threads and child processes go on.
Fairness ==
    WF_consoleVars(WorkerStep) /\ WF_consoleVars(Child)
LiveSpec == ConsoleSpec /\ Fairness
-----------------------------------------------------------------------------
\* Every variable holds a value of its kind.
ConsoleTypeOK ==
    /\ \A s \in Studies :
          /\ {recipes[s], requests[s], studies[s]} \subseteq Versions \cup {Absent, Torn}
          /\ jobs[s].status \in {"none", "queued", "running", "completed",
                                 "failed", "interrupted"}
    /\ server \in {"up", "closing", "joining", "closed", "left", "killed"}
    /\ worker.pc # "gone" => Serving
    /\ \A c \in Callers : calls[c] # NoCall <=> holder = c

\* What a research process works on is the recipe its job was registered with,
\* whoever edits which file while it starts
\* (docs/research-workbench-v2.md: an independent request and its digest).
RunsWhatWasRegistered ==
    \A child \in children :
        child.recipe # Absent => child.recipe = jobs[child.study].recipe

\* A job is completed only over a study of its recipe, whatever happened to
\* that file since the process ended.
CompletedHasItsStudy ==
    [][\A s \in Studies :
          jobs'[s].status = "completed" /\ jobs[s].status # "completed" =>
              studies[s] = jobs[s].recipe]_consoleVars

\* The console itself never brings a registered recipe and its file apart,
\* however saving, cloning and submitting are interleaved.
RegisteredIsFrozen ==
    fileEdits = 0 =>
        \A s \in Studies : jobs[s] # NoJob => recipes[s] = jobs[s].recipe

\* A row that says running is the worker's own, so that nothing is claimed
\* twice and nothing hangs: its process died with the server otherwise.
RunningIsWorkedOn ==
    server = "up" =>
        \A s \in Studies :
            jobs[s].status = "running" <=> (worker.pc \notin {"claim", "gone", "dead"}
                                            /\ worker.study = s)

\* A close that returns has left no process of this server behind.
CloseStops == server = "closed" => \A child \in children : ~child.own

\* Work that was interrupted goes on only when somebody asks for it.
ResumedOnlyWhenAsked ==
    [][\A s \in Studies :
          jobs'[s].status = "queued" /\ jobs[s].status # "queued" =>
              \E c \in Callers : calls[c].pc = "submit" /\ calls[c].study = s
      ]_consoleVars

\* A queued job is taken up while its server and worker live.
QueueIsServed ==
    \A s \in Studies : jobs[s].status = "queued" ~>
        (jobs[s].status # "queued" \/ server # "up" \/ WorkerAt("dead"))

\* A study is the work of the recipe that was registered for it, at any
\* moment of a save, a clone, an edit by hand or a server that died.
StudiesAreRegistered ==
    [](ConsoleTypeOK /\ RunsWhatWasRegistered /\ RegisteredIsFrozen) /\ CompletedHasItsStudy

\* Nothing runs that nobody asked for: not twice, not after a close, and not
\* again after an interruption.
NothingRunsUnasked ==
    [](RunningIsWorkedOn /\ CloseStops) /\ ResumedOnlyWhenAsked
=============================================================================
