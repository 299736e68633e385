---------------------------- MODULE SelectedPath ----------------------------
(***************************************************************************)
(* replay_selected_path of continuous_validation.py: the parameters chosen *)
(* per fold are replayed as one account, once, and the evidence is kept in *)
(* a directory that later calls verify and reuse.  Processes call it under *)
(* a lock that none waits for and that is free when its holder dies; each  *)
(* step can fail, any process can be killed, and files under the published *)
(* directory can be edited.  A directory is a number with a place; what    *)
(* was executed in it is known by that number.  execute_study and          *)
(* study_lock of quant_lab and the executor are external.                  *)
(***************************************************************************)
EXTENDS Naturals

CONSTANTS
  Procs, Nobody,
  Requests,    \* recipe, decisions and study definition, by their digest
  Incomplete,  \* those whose candidate family is incomplete
  MaxDirs,     \* attempt directories that mkdtemp may make
  MaxEdits,    \* edits of published files
  NoSummary    \* there is no selected-path.json

ASSUME PathBounds ==
  /\ Nobody \notin Procs /\ Incomplete \subseteq Requests
  /\ MaxDirs \in Nat /\ MaxEdits \in Nat

VARIABLES
  lock,   \* study_lock beside the output
  call,   \* what each process is doing
  place,  \* where each directory is
  dir,    \* what each directory holds
  edits,  \* edits so far
  given   \* evidence that calls have returned, with the files it is about

vars == <<lock, call, place, dir, edits, given>>

Legacy == 0             \* an output left unfinished by an older program
Edited == MaxDirs + 1   \* what an edit puts in the place of a value
Dirs == 0..MaxDirs
Values == 0..Edited
Summaries == [request : Requests, metrics : Values, hashes : Values,
              sealed : BOOLEAN]

ASSUME NoSummaryIsNone == NoSummary \notin Summaries

Pcs == {"idle", "check", "archive", "make", "execute", "record", "describe",
        "publish", "fail", "unlock"}

Idle == [pc |-> "idle", request |-> Nobody, id |-> Legacy]

(* art, metrics and hashes are the number of the execution they are of.    *)
Fresh(r) == [request |-> r, art |-> Legacy, covered |-> FALSE,
             recorded |-> FALSE, summary |-> NoSummary]

Init ==
  /\ lock = Nobody
  /\ call = [p \in Procs |-> Idle]
  /\ \E found \in {"none", "output"} :
       place = [d \in Dirs |-> IF d = Legacy THEN found ELSE "none"]
  /\ dir = [d \in Dirs |-> Fresh(Nobody)]
  /\ edits = 0
  /\ given = {}

Output == {d \in Dirs : place[d] = "output"}
Cached == {d \in Output : dir[d].summary # NoSummary}

At(p, pc) == call[p].pc = pc
Goto(p, pc) == call' = [call EXCEPT ![p].pc = pc]

------------------------------------------------------------------------------
Free == lock = Nobody

(* A family that is incomplete, or a lock that is held, ends the call.     *)
Begin(p, r) ==
  /\ At(p, "idle") /\ r \notin Incomplete /\ Free
  /\ lock' = p
  /\ call' = [call EXCEPT ![p] = [pc |-> "check", request |-> r,
                                  id |-> Legacy]]
  /\ UNCHANGED <<place, dir, edits, given>>

(* Mutant: the files are not compared with the hashes of the summary.      *)
TrustsFiles(d, r) ==
  LET s == dir[d].summary IN
    s.sealed /\ s.request = r /\ dir[d].recorded

(* _load_selected: the digest, the request, the files and the metrics have *)
(* to agree, the metrics with those of the files.                          *)
Loads(d, r) ==
  LET s == dir[d].summary IN
    /\ s.sealed
    /\ s.request = r
    /\ s.hashes = dir[d].art
    /\ s.metrics = dir[d].art
    /\ dir[d].recorded

Gives(d, metrics) ==
  given' = given \cup {[dir |-> d, request |-> dir[d].summary.request,
                        art |-> dir[d].art, metrics |-> metrics]}

Check(p) ==
  /\ At(p, "check")
  /\ \/ \E d \in Cached :
          /\ Goto(p, "unlock")
          /\ IF Loads(d, call[p].request)
               THEN Gives(d, dir[d].summary.metrics)
               ELSE UNCHANGED given
     \/ /\ Cached = {}
        /\ Goto(p, IF Output = {} THEN "make" ELSE "archive")
        /\ UNCHANGED given
  /\ UNCHANGED <<lock, place, dir, edits>>

(* Mutant: the unfinished output is removed.                               *)
Discard(p) ==
  /\ At(p, "archive")
  /\ place' = [d \in Dirs |-> IF d \in Output THEN "none" ELSE place[d]]
  /\ Goto(p, "make")
  /\ UNCHANGED <<lock, dir, edits, given>>

Archive(p) ==
  /\ At(p, "archive")
  /\ place' = [d \in Dirs |-> IF d \in Output THEN "archived" ELSE place[d]]
  /\ Goto(p, "make")
  /\ UNCHANGED <<lock, dir, edits, given>>

(* mkdtemp makes a directory nobody has, or fails.                         *)
Make(p) ==
  /\ At(p, "make")
  /\ \/ \E d \in Dirs \ {Legacy} :
          /\ place[d] = "none" /\ \A e \in 1..(d - 1) : place[e] # "none"
          /\ place' = [place EXCEPT ![d] = "attempt"]
          /\ dir' = [dir EXCEPT ![d] = Fresh(call[p].request)]
          /\ call' = [call EXCEPT ![p].pc = "execute", ![p].id = d]
     \/ Goto(p, "unlock") /\ UNCHANGED <<place, dir>>
  /\ UNCHANGED <<lock, edits, given>>

------------------------------------------------------------------------------
(* A step of the attempt that raises leaves failure.json in its directory. *)
Fails(p) == Goto(p, "fail") /\ UNCHANGED <<place, dir, given>>

(* The executor replays the path; its returns cover the folds or not.      *)
Execute(p) ==
  /\ At(p, "execute")
  /\ \/ \E covered \in BOOLEAN :
          dir' = [dir EXCEPT ![call[p].id].art = call[p].id,
                             ![call[p].id].covered = covered]
        /\ Goto(p, "record") /\ UNCHANGED <<place, given>>
     \/ Fails(p)
  /\ UNCHANGED <<lock, edits>>

Record(p) ==
  /\ At(p, "record")
  /\ \/ /\ dir' = [dir EXCEPT ![call[p].id].recorded = TRUE]
        /\ Goto(p, "describe") /\ UNCHANGED <<place, given>>
     \/ Fails(p)
  /\ UNCHANGED <<lock, edits>>

Covers(d) == dir[d].covered

(* Metrics from the returns, hashes of the files, then selected-path.json. *)
Describe(p) ==
  LET d == call[p].id IN
  /\ At(p, "describe")
  /\ \/ /\ Covers(d)
        /\ dir' = [dir EXCEPT ![d].summary =
             [request |-> call[p].request, metrics |-> dir[d].art,
              hashes |-> dir[d].art, sealed |-> TRUE]]
        /\ Goto(p, "publish") /\ UNCHANGED <<place, given>>
     \/ Fails(p)
  /\ UNCHANGED <<lock, edits>>

(* rename does not replace a directory that holds files.                   *)
Publish(p) ==
  /\ At(p, "publish")
  /\ \/ /\ Output = {}
        /\ place' = [place EXCEPT ![call[p].id] = "output"]
        /\ Gives(call[p].id, dir[call[p].id].summary.metrics)
        /\ Goto(p, "unlock") /\ UNCHANGED dir
     \/ Fails(p)
  /\ UNCHANGED <<lock, edits>>

Fail(p) ==
  /\ At(p, "fail") /\ Goto(p, "unlock")
  /\ UNCHANGED <<lock, place, dir, edits, given>>

Unlock(p) ==
  /\ At(p, "unlock")
  /\ lock' = Nobody
  /\ call' = [call EXCEPT ![p] = Idle]
  /\ UNCHANGED <<place, dir, edits, given>>

Kill(p) ==
  /\ ~At(p, "idle")
  /\ lock' = IF lock = p THEN Nobody ELSE lock
  /\ call' = [call EXCEPT ![p] = Idle]
  /\ UNCHANGED <<place, dir, edits, given>>

(* One value under the published directory is changed; the digest of the   *)
(* summary may be recomputed with it.                                      *)
Edit ==
  /\ edits < MaxEdits
  /\ edits' = edits + 1
  /\ \E d \in Cached, sealed \in BOOLEAN :
       \/ dir' = [dir EXCEPT ![d].art = Edited]
       \/ dir' = [dir EXCEPT ![d].summary.metrics = Edited,
                             ![d].summary.sealed = sealed]
       \/ dir' = [dir EXCEPT ![d].summary.hashes = Edited,
                             ![d].summary.sealed = sealed]
       \/ \E r \in Requests :
            dir' = [dir EXCEPT ![d].summary.request = r,
                               ![d].summary.sealed = FALSE]
  /\ UNCHANGED <<lock, call, place, given>>

------------------------------------------------------------------------------
Step(p) ==
  \/ Check(p) \/ Archive(p) \/ Make(p) \/ Execute(p) \/ Record(p)
  \/ Describe(p) \/ Publish(p) \/ Fail(p) \/ Unlock(p)

Next ==
  \/ \E p \in Procs : Step(p) \/ Kill(p) \/ \E r \in Requests : Begin(p, r)
  \/ Edit

Spec == Init /\ [][Next]_vars

------------------------------------------------------------------------------
(* The shape of the state; the lock is held exactly while a call is on.    *)
TypeOK ==
  /\ lock \in Procs \cup {Nobody}
  /\ call \in [Procs -> [pc : Pcs, request : Requests \cup {Nobody},
                         id : Dirs]]
  /\ \A p \in Procs : lock = p <=> ~At(p, "idle")
  /\ place \in [Dirs -> {"none", "attempt", "output", "archived"}]
  /\ dir \in [Dirs -> [request : Requests \cup {Nobody}, art : Values,
                       covered : BOOLEAN, recorded : BOOLEAN,
                       summary : Summaries \cup {NoSummary}]]
  /\ \A d, e \in Output : d = e

(* The ledger is executed by one call at a time.                           *)
OneExecution ==
  \A p, q \in Procs :
    call[p].id # Legacy /\ call[q].id # Legacy => p = q

(* What stands at the output is an unfinished legacy directory or an       *)
(* attempt with all of its files, at every step and after every kill.      *)
PublishedIsWhole ==
  \A d \in Output \ {Legacy} :
    dir[d].covered /\ dir[d].recorded /\ dir[d].summary # NoSummary

OutputIsSound == TypeOK /\ OneExecution /\ PublishedIsWhole

(* No directory is ever lost, and one that was completed is never moved    *)
(* (continuous_validation.py 150-156, 174-176).                            *)
NothingIsLost ==
  [][\A d \in Dirs :
       /\ place[d] # "none" => place'[d] # "none"
       /\ d \in Cached => place'[d] = "output"]_vars

(* The work of one call at a time is published whole and never lost,       *)
(* whichever calls are killed or fail and whatever is edited.              *)
WorkStands == []OutputIsSound /\ NothingIsLost

(* Evidence is of a whole execution of the request it names, that covers   *)
(* the planned folds, and of the files as they were executed: an edit is   *)
(* never handed on (continuous_validation.py 217-237).                     *)
GivenIsGenuine ==
  \A g \in given :
    /\ g.art = g.dir /\ g.metrics = g.dir
    /\ g.request = dir[g.dir].request /\ dir[g.dir].covered

(* Whatever the calls, kills and edits, every call that returns evidence   *)
(* for an output returns the same, genuine evidence                        *)
(* (test_concurrent_replay_cannot_move_or_replace_completed_output).       *)
OneAnswer == GivenIsGenuine /\ \A g, h \in given : g = h
==============================================================================
