---------------------------- MODULE ResearchProofs ----------------------------
(***************************************************************************)
(* What the two modules around single research requests guarantee.         *)
(*                                                                         *)
(* The selected path, for any number of processes, requests, attempts and  *)
(* edits: the account is replayed by one process at a time, a directory is *)
(* at the output only with all of its files, and all of the evidence       *)
(* handed out is the same.  The invariant says what an attempt holds at    *)
(* each step of its call.                                                  *)
(*                                                                         *)
(* The console, for any number of callers, studies, edits by hand and      *)
(* servers that are closed or killed: the invariant ties the row that is   *)
(* running to the thread, the thread to the process it waits for, and a    *)
(* process to what its job was registered for.                             *)
(***************************************************************************)
EXTENDS SelectedPath, ResearchConsole, FiniteSetTheorems, TLAPS


InAttempt == {"execute", "record", "describe", "publish", "fail"}

(* What the call knows of its directory.                                   *)
CallOK(c) ==
  /\ c.pc \in InAttempt => c.id # Legacy /\ place[c.id] = "attempt"
  /\ c.pc \in {"idle", "check", "archive", "make"} => c.id = Legacy
  /\ c.pc # "idle" => c.request \in Requests
  /\ c.pc \in {"describe", "publish"} => dir[c.id].recorded
  /\ c.pc = "publish" =>
       dir[c.id].covered /\ dir[c.id].summary # NoSummary

PathInv ==
  /\ TypeOK
  /\ \A p \in Procs : CallOK(call[p])
  /\ PublishedIsWhole

------------------------------------------------------------------------------
LEMMA PathInit == Init => PathInv
<1> SUFFICES ASSUME Init PROVE PathInv
  OBVIOUS
<1>1. Legacy \in Dirs /\ Legacy \in Values
  BY PathBounds DEF Dirs, Values, Legacy, Edited
<1>2. PICK found \in {"none", "output"} :
        place = [d \in Dirs |-> IF d = Legacy THEN found ELSE "none"]
  BY DEF Init
<1>3. Output \subseteq {Legacy}
  BY <1>2 DEF Output
<1>4. \A p \in Procs : lock = p <=> ~At(p, "idle")
  BY PathBounds DEF Init, At, Idle
<1>5. TypeOK
  <2>1. lock \in Procs \cup {Nobody}
        /\ call \in [Procs -> [pc : Pcs, request : Requests \cup {Nobody},
                               id : Dirs]]
    BY <1>1 DEF Init, Idle, Pcs
  <2>2. place \in [Dirs -> {"none", "attempt", "output", "archived"}]
    BY <1>2
  <2>3. dir \in [Dirs -> [request : Requests \cup {Nobody}, art : Values,
                       covered : BOOLEAN, recorded : BOOLEAN,
                       summary : Summaries \cup {NoSummary}]]
    BY <1>1 DEF Init, Fresh
  <2> QED BY <2>1, <2>2, <2>3, <1>3, <1>4 DEF TypeOK
<1>6. \A p \in Procs : CallOK(call[p])
  BY DEF Init, Idle, CallOK, InAttempt
<1> QED BY <1>3, <1>5, <1>6 DEF PathInv, PublishedIsWhole

(* Directories are of one shape.                                           *)
Holdings == [request : Requests \cup {Nobody}, art : Values,
             covered : BOOLEAN, recorded : BOOLEAN,
             summary : Summaries \cup {NoSummary}]
Calls == [pc : Pcs, request : Requests \cup {Nobody}, id : Dirs]

LEMMA LockIsExclusive ==
  ASSUME TypeOK, NEW p \in Procs, NEW q \in Procs,
         ~At(p, "idle"), ~At(q, "idle")
  PROVE  p = q
BY DEF TypeOK

(* Whoever is not in the call that holds the lock has no directory.        *)
LEMMA OthersAreIdle ==
  ASSUME PathInv, NEW p \in Procs, ~At(p, "idle"), NEW q \in Procs, q # p
  PROVE  call[q].pc = "idle" /\ call[q].id = Legacy
<1>1. At(q, "idle")
  BY LockIsExclusive DEF PathInv
<1> QED BY <1>1 DEF PathInv, CallOK, At

(* A step that changes what its call is at, and nothing on disk.           *)
LEMMA StepOfCall ==
  ASSUME PathInv, NEW p \in Procs, ~At(p, "idle"), NEW c \in Calls,
         call' = [call EXCEPT ![p] = c], c.pc # "idle", CallOK(c),
         UNCHANGED <<lock, place, dir>>
  PROVE  PathInv'
<1>1. TypeOK
  BY DEF PathInv
<1>2. \A q \in Procs : At(q, "idle")' <=> At(q, "idle")
  BY <1>1 DEF TypeOK, At
<1>3. call' \in [Procs -> Calls]
  BY <1>1 DEF TypeOK, Calls
<1>4. TypeOK'
  BY <1>1, <1>2, <1>3 DEF TypeOK, Calls, Output
<1>5. \A q \in Procs : CallOK(call[q])'
  BY <1>1 DEF PathInv, CallOK, TypeOK
<1>6. PublishedIsWhole'
  BY DEF PathInv, PublishedIsWhole, Output
<1> QED BY <1>4, <1>5, <1>6 DEF PathInv

(* A step that changes what its call is at and what its own directory      *)
(* holds, which is not the one at the output.                              *)
LEMMA StepInAttempt ==
  ASSUME PathInv, NEW p \in Procs, ~At(p, "idle"), NEW c \in Calls,
         call' = [call EXCEPT ![p] = c], c.pc # "idle",
         NEW d \in Dirs, NEW h \in Holdings,
         d \notin Output \/ (h.covered /\ h.recorded /\ h.summary # NoSummary),
         dir' = [dir EXCEPT ![d] = h], CallOK(c)',
         UNCHANGED <<lock, place>>
  PROVE  PathInv'
<1>1. TypeOK
  BY DEF PathInv
<1>2. \A q \in Procs : At(q, "idle")' <=> At(q, "idle")
  BY <1>1 DEF TypeOK, At
<1>3. call' \in [Procs -> Calls] /\ dir' \in [Dirs -> Holdings]
  BY <1>1 DEF TypeOK, Calls, Holdings
<1>4. TypeOK'
  BY <1>1, <1>2, <1>3 DEF TypeOK, Calls, Holdings, Output
<1>5. \A q \in Procs : CallOK(call[q])'
  <2> TAKE q \in Procs
  <2>1. CASE q = p
    BY <1>1, <2>1 DEF TypeOK, CallOK
  <2>2. CASE q # p
    <3>1. call'[q].pc = "idle" /\ call'[q].id = Legacy
      BY <1>1, <2>2, OthersAreIdle DEF TypeOK
    <3> QED BY <3>1 DEF CallOK, InAttempt
  <2> QED BY <2>1, <2>2
<1>6. PublishedIsWhole'
  BY <1>1 DEF PathInv, PublishedIsWhole, Output, TypeOK
<1> QED BY <1>4, <1>5, <1>6 DEF PathInv

(* The end of a call, by itself or by a kill.                              *)
LEMMA StepOut ==
  ASSUME PathInv, NEW p \in Procs, ~At(p, "idle"),
         call' = [call EXCEPT ![p] = Idle], lock' = Nobody,
         UNCHANGED <<place, dir>>
  PROVE  PathInv'
<1>1. TypeOK
  BY DEF PathInv
<1>2. Idle \in Calls
  BY PathBounds DEF Idle, Calls, Pcs, Dirs, Legacy
<1>3. \A q \in Procs : call'[q].pc = "idle" /\ call'[q].id = Legacy
  BY <1>1, OthersAreIdle DEF TypeOK, Idle
<1>4. call' \in [Procs -> Calls]
  BY <1>1, <1>2 DEF TypeOK, Calls
<1>5. \A q \in Procs : lock' = q <=> ~At(q, "idle")'
  BY <1>3, PathBounds DEF At
<1>6. TypeOK'
  BY <1>1, <1>4, <1>5 DEF TypeOK, Calls, Output
<1>7. \A q \in Procs : CallOK(call[q])'
  BY <1>3 DEF CallOK, InAttempt
<1>8. PublishedIsWhole'
  BY DEF PathInv, PublishedIsWhole, Output
<1> QED BY <1>6, <1>7, <1>8 DEF PathInv

------------------------------------------------------------------------------
LEMMA BeginPreserves ==
  ASSUME PathInv, NEW p \in Procs, NEW r \in Requests, Begin(p, r)
  PROVE  PathInv'
<1> DEFINE c == [pc |-> "check", request |-> r, id |-> Legacy]
<1>1. TypeOK
  BY DEF PathInv
<1>2. c \in Calls
  BY PathBounds DEF Calls, Pcs, Dirs, Legacy
<1>3. call' = [call EXCEPT ![p] = c] /\ lock = Nobody /\ lock' = p
      /\ UNCHANGED <<place, dir, edits>>
  BY DEF Begin, Free
<1>4. \A q \in Procs : call[q].pc = "idle" /\ call[q].id = Legacy
  BY <1>1, <1>3, PathBounds DEF PathInv, TypeOK, CallOK, At
<1>5. call' \in [Procs -> Calls]
  BY <1>1, <1>2, <1>3 DEF TypeOK, Calls
<1>6. \A q \in Procs : lock' = q <=> ~At(q, "idle")'
  BY <1>1, <1>3, <1>4 DEF At, TypeOK
<1>7. TypeOK'
  BY <1>1, <1>3, <1>5, <1>6 DEF TypeOK, Calls, Output
<1>8. \A q \in Procs : CallOK(call[q])'
  BY <1>1, <1>3, <1>4 DEF CallOK, InAttempt, TypeOK
<1>9. PublishedIsWhole'
  BY <1>3 DEF PathInv, PublishedIsWhole, Output
<1> QED BY <1>7, <1>8, <1>9 DEF PathInv

(* A step within a call leaves its request and, but for Make, its          *)
(* directory as they are.                                                  *)
LEMMA GotoIsStep ==
  ASSUME TypeOK, NEW p \in Procs, NEW pc \in Pcs, Goto(p, pc)
  PROVE  /\ [call[p] EXCEPT !.pc = pc] \in Calls
         /\ [call[p] EXCEPT !.pc = pc].pc = pc
         /\ [call[p] EXCEPT !.pc = pc].id = call[p].id
         /\ [call[p] EXCEPT !.pc = pc].request = call[p].request
         /\ call' = [call EXCEPT ![p] = [call[p] EXCEPT !.pc = pc]]
<1>1. call[p] \in Calls
  BY DEF TypeOK, Calls
<1>2. call' = [call EXCEPT ![p] = [call[p] EXCEPT !.pc = pc]]
  BY DEF Goto
<1> QED BY <1>1, <1>2 DEF Calls

LEMMA FailsPreserves ==
  ASSUME PathInv, NEW p \in Procs, call[p].pc \in InAttempt, Fails(p),
         UNCHANGED lock
  PROVE  PathInv'
<1> DEFINE c == [call[p] EXCEPT !.pc = "fail"]
<1>1. c \in Calls /\ c.pc = "fail" /\ c.id = call[p].id /\ c.request = call[p].request
      /\ call' = [call EXCEPT ![p] = c] /\ UNCHANGED <<place, dir>>
  BY GotoIsStep DEF PathInv, Fails, Pcs
<1>2. CallOK(c)
  BY <1>1 DEF PathInv, CallOK, InAttempt
<1>3. ~At(p, "idle")
  BY DEF At, InAttempt
<1> HIDE DEF c
<1> QED BY <1>1, <1>2, <1>3, StepOfCall

LEMMA CheckPreserves ==
  ASSUME PathInv, NEW p \in Procs, Check(p)
  PROVE  PathInv'
<1>1. PICK pc \in {"unlock", "make", "archive"} : Goto(p, pc)
  BY DEF Check
<1> DEFINE c == [call[p] EXCEPT !.pc = pc]
<1>0. pc \in Pcs
  BY DEF Pcs
<1>2. c \in Calls /\ c.pc = pc /\ c.id = call[p].id /\ c.request = call[p].request
      /\ call' = [call EXCEPT ![p] = c]
  BY <1>0, <1>1, GotoIsStep DEF PathInv
<1>3. CallOK(c)
  BY <1>1, <1>2 DEF PathInv, CallOK, InAttempt, Check, At
<1>4. ~At(p, "idle") /\ UNCHANGED <<lock, place, dir>>
  BY DEF At, Check
<1> HIDE DEF c
<1> QED BY <1>1, <1>2, <1>3, <1>4, StepOfCall

(* The output is put aside, or a whole attempt put in its place.           *)
LEMMA PlacePreserves ==
  ASSUME PathInv, NEW p \in Procs, ~At(p, "idle"), NEW pc \in {"make", "unlock"},
         Goto(p, pc), UNCHANGED <<lock, dir>>, pc = "make" => call[p].id = Legacy,
         place' \in [Dirs -> {"none", "attempt", "output", "archived"}],
         \A d, e \in Dirs : place'[d] = "output" /\ place'[e] = "output" => d = e,
         \A d \in Dirs \ {Legacy} : place'[d] = "output" =>
            dir[d].covered /\ dir[d].recorded /\ dir[d].summary # NoSummary
  PROVE  PathInv'
<1> DEFINE c == [call[p] EXCEPT !.pc = pc]
<1>1. TypeOK
  BY DEF PathInv
<1>0. pc \in Pcs
  BY DEF Pcs
<1>2. c \in Calls /\ c.pc = pc /\ c.id = call[p].id /\ c.request = call[p].request
      /\ call' = [call EXCEPT ![p] = c]
  BY <1>0, <1>1, GotoIsStep
<1> HIDE DEF c
<1>3. \A q \in Procs : At(q, "idle")' <=> At(q, "idle")
  BY <1>1, <1>2 DEF TypeOK, At
<1>4. call' \in [Procs -> Calls]
  BY <1>1, <1>2 DEF TypeOK, Calls
<1>5. TypeOK'
  BY <1>1, <1>3, <1>4 DEF TypeOK, Calls, Output
<1>6. \A q \in Procs : CallOK(call[q])'
  <2> TAKE q \in Procs
  <2>1. CASE q = p
    BY <1>1, <1>2, <2>1 DEF PathInv, TypeOK, CallOK, InAttempt, At
  <2>2. CASE q # p
    <3>1. call'[q].pc = "idle" /\ call'[q].id = Legacy
      BY <1>1, <1>2, <2>2, OthersAreIdle DEF TypeOK
    <3> QED BY <3>1 DEF CallOK, InAttempt
  <2> QED BY <2>1, <2>2
<1>7. PublishedIsWhole'
  BY DEF PublishedIsWhole, Output
<1> QED BY <1>5, <1>6, <1>7 DEF PathInv

LEMMA ArchivePreserves ==
  ASSUME PathInv, NEW p \in Procs, Archive(p)
  PROVE  PathInv'
<1>1. TypeOK
  BY DEF PathInv
<1>2. place' = [d \in Dirs |-> IF d \in Output THEN "archived" ELSE place[d]]
      /\ Goto(p, "make") /\ UNCHANGED <<lock, dir>> /\ ~At(p, "idle")
  BY DEF Archive, At
<1>3. call[p].id = Legacy
  BY DEF Archive, At, PathInv, CallOK
<1>4. \A d \in Dirs : place'[d] # "output"
  BY <1>2 DEF Output
<1>5. place' \in [Dirs -> {"none", "attempt", "output", "archived"}]
  BY <1>1, <1>2 DEF TypeOK
<1> QED BY <1>2, <1>3, <1>4, <1>5, PlacePreserves

LEMMA MakePreserves ==
  ASSUME PathInv, NEW p \in Procs, Make(p)
  PROVE  PathInv'
<1>1. TypeOK /\ ~At(p, "idle") /\ call[p].id = Legacy
  BY DEF PathInv, Make, At, CallOK
<1>2. CASE Goto(p, "unlock") /\ UNCHANGED <<place, dir>>
  <2> DEFINE c == [call[p] EXCEPT !.pc = "unlock"]
  <2>1. c \in Calls /\ c.pc = "unlock" /\ c.id = call[p].id /\ c.request = call[p].request
        /\ call' = [call EXCEPT ![p] = c] /\ UNCHANGED lock
    BY <1>1, <1>2, GotoIsStep DEF Pcs, Make
  <2>2. CallOK(c)
    BY <1>1, <2>1 DEF PathInv, CallOK, InAttempt, At
  <2> HIDE DEF c
  <2> QED BY <1>1, <1>2, <2>1, <2>2, StepOfCall
<1>3. ASSUME NEW d \in Dirs \ {Legacy},
             place[d] = "none",
             place' = [place EXCEPT ![d] = "attempt"],
             dir' = [dir EXCEPT ![d] = Fresh(call[p].request)],
             call' = [call EXCEPT ![p].pc = "execute", ![p].id = d],
             UNCHANGED lock
      PROVE  PathInv'
  <2>1. call[p] \in Calls /\ call[p].request \in Requests \cup {Nobody}
    BY <1>1 DEF TypeOK, Calls
  <2>2. Fresh(call[p].request) \in Holdings
    BY <2>1, PathBounds DEF Fresh, Holdings, Values, Edited, Legacy
  <2>3. /\ call' \in [Procs -> Calls] /\ call'[p].pc = "execute"
        /\ call'[p].id = d /\ call'[p].request = call[p].request
    BY <1>1, <1>3 DEF TypeOK, Calls, Pcs
  <2>0. call[p].request \in Requests
    BY <1>1 DEF PathInv, CallOK, At
  <2>4. \A q \in Procs : q # p => call'[q] = call[q]
    BY <1>1, <1>3 DEF TypeOK
  <2>5. \A q \in Procs : At(q, "idle")' <=> At(q, "idle")
    BY <1>1, <2>3, <2>4 DEF At
  <2>6. dir' \in [Dirs -> Holdings]
    BY <1>1, <1>3, <2>2 DEF TypeOK, Holdings
  <2>7. place' \in [Dirs -> {"none", "attempt", "output", "archived"}]
        /\ Output' = Output /\ d \notin Output /\ place'[d] = "attempt"
    BY <1>1, <1>3 DEF TypeOK, Output
  <2>8. TypeOK'
    BY <1>1, <1>3, <2>3, <2>5, <2>6, <2>7 DEF TypeOK, Calls, Holdings
  <2>9. \A q \in Procs : CallOK(call[q])'
    <3> TAKE q \in Procs
    <3>1. CASE q = p
      BY <1>3, <2>0, <2>3, <2>7, <3>1 DEF CallOK, InAttempt
    <3>2. CASE q # p
      <4>1. call'[q].pc = "idle" /\ call'[q].id = Legacy
        BY <1>1, <2>4, <3>2, OthersAreIdle
      <4> QED BY <4>1 DEF CallOK, InAttempt
    <3> QED BY <3>1, <3>2
  <2>10. PublishedIsWhole'
    BY <1>1, <1>3, <2>7 DEF PathInv, PublishedIsWhole, TypeOK
  <2> QED BY <2>8, <2>9, <2>10 DEF PathInv
<1> QED BY <1>2, <1>3 DEF Make

(* The attempt of a call in one of its steps is not at the output.         *)
LEMMA AttemptIsApart ==
  ASSUME PathInv, NEW p \in Procs, call[p].pc \in InAttempt
  PROVE  /\ call[p] \in Calls /\ call[p].id \in Dirs
         /\ call[p].id \notin Output /\ call[p].id # Legacy
         /\ dir[call[p].id] \in Holdings
         /\ place[call[p].id] = "attempt" /\ ~At(p, "idle")
BY DEF PathInv, TypeOK, Calls, Holdings, CallOK, InAttempt, Output, At

(* A step of an attempt that goes on, with other things in its directory.  *)
LEMMA AttemptPreserves ==
  ASSUME PathInv, NEW p \in Procs, call[p].pc \in InAttempt,
         NEW pc \in InAttempt, Goto(p, pc), NEW h \in Holdings,
         dir' = [dir EXCEPT ![call[p].id] = h],
         pc \in {"describe", "publish"} => h.recorded,
         pc = "publish" => h.covered /\ h.summary # NoSummary,
         UNCHANGED <<lock, place>>
  PROVE  PathInv'
<1>0. pc \in Pcs /\ pc # "idle"
  BY DEF Pcs, InAttempt
<1>1. PICK c \in Calls : c.pc = pc /\ c.id = call[p].id /\ c.request = call[p].request
                         /\ call' = [call EXCEPT ![p] = c]
  <2> DEFINE e == [call[p] EXCEPT !.pc = pc]
  <2>1. e \in Calls /\ e.pc = pc /\ e.id = call[p].id /\ e.request = call[p].request
        /\ call' = [call EXCEPT ![p] = e]
    BY <1>0, GotoIsStep DEF PathInv
  <2> HIDE DEF e
  <2> QED BY <2>1
<1>2. call[p].id \in Dirs \ Output /\ call[p].id # Legacy
      /\ place[call[p].id] = "attempt" /\ ~At(p, "idle")
  BY AttemptIsApart
<1>3. dir'[call[p].id] = h
  BY <1>2 DEF PathInv, TypeOK
<1>5. call[p].request \in Requests
  BY <1>2 DEF PathInv, CallOK, At
<1>4. CallOK(c)'
  BY <1>1, <1>2, <1>3, <1>5 DEF CallOK, InAttempt
<1> QED BY <1>0, <1>1, <1>2, <1>4, StepInAttempt

LEMMA ExecutePreserves ==
  ASSUME PathInv, NEW p \in Procs, Execute(p)
  PROVE  PathInv'
<1>0. call[p].pc \in InAttempt /\ UNCHANGED lock
  BY DEF Execute, At, InAttempt
<1>1. CASE Fails(p)
  BY <1>0, <1>1, FailsPreserves
<1>2. ASSUME NEW covered \in BOOLEAN,
             dir' = [dir EXCEPT ![call[p].id].art = call[p].id,
                                ![call[p].id].covered = covered],
             Goto(p, "record"), UNCHANGED place
      PROVE  PathInv'
  <2> DEFINE h == [dir[call[p].id] EXCEPT !.art = call[p].id,
                                          !.covered = covered]
  <2>1. call[p].id \in Dirs /\ dir[call[p].id] \in Holdings
    BY <1>0, AttemptIsApart
  <2>2. call[p].id \in Values
    BY <2>1, PathBounds DEF Dirs, Values, Edited
  <2>3. h \in Holdings
    BY <2>1, <2>2 DEF Holdings
  <2>4. dir' = [dir EXCEPT ![call[p].id] = h]
    BY <1>2
  <2> HIDE DEF h
  <2> QED BY <1>0, <1>2, <2>3, <2>4, AttemptPreserves DEF InAttempt
<1> QED BY <1>1, <1>2 DEF Execute

LEMMA RecordPreserves ==
  ASSUME PathInv, NEW p \in Procs, Record(p)
  PROVE  PathInv'
<1>0. call[p].pc \in InAttempt /\ UNCHANGED lock
  BY DEF Record, At, InAttempt
<1>1. CASE Fails(p)
  BY <1>0, <1>1, FailsPreserves
<1>2. CASE /\ dir' = [dir EXCEPT ![call[p].id].recorded = TRUE]
           /\ Goto(p, "describe") /\ UNCHANGED place
  <2> DEFINE h == [dir[call[p].id] EXCEPT !.recorded = TRUE]
  <2>1. dir[call[p].id] \in Holdings
    BY <1>0, AttemptIsApart
  <2>2. h \in Holdings /\ h.recorded
    BY <2>1 DEF Holdings
  <2>3. dir' = [dir EXCEPT ![call[p].id] = h]
    BY <1>2
  <2> HIDE DEF h
  <2> QED BY <1>0, <1>2, <2>2, <2>3, AttemptPreserves DEF InAttempt
<1> QED BY <1>1, <1>2 DEF Record

LEMMA DescribePreserves ==
  ASSUME PathInv, NEW p \in Procs, Describe(p)
  PROVE  PathInv'
<1> DEFINE d == call[p].id
<1>0. call[p].pc \in InAttempt /\ UNCHANGED lock /\ dir[d].recorded
  BY DEF Describe, At, InAttempt, PathInv, CallOK
<1>1. CASE Fails(p)
  BY <1>0, <1>1, FailsPreserves
<1>2. CASE /\ Covers(d)
           /\ dir' = [dir EXCEPT ![d].summary =
                [request |-> call[p].request, metrics |-> dir[d].art,
                 hashes |-> dir[d].art, sealed |-> TRUE]]
           /\ Goto(p, "publish") /\ UNCHANGED place
  <2> DEFINE m == [request |-> call[p].request, metrics |-> dir[d].art,
                   hashes |-> dir[d].art, sealed |-> TRUE]
             h == [dir[d] EXCEPT !.summary = m]
  <2>0. dir[d] \in Holdings
    BY <1>0, AttemptIsApart
  <2>1. dir[d] \in Holdings /\ call[p].request \in Requests
        /\ dir[d].art \in Values
    BY <2>0, <1>0 DEF PathInv, CallOK, Holdings, InAttempt
  <2>5. m \in Summaries
    BY <2>1 DEF Summaries
  <2>2. m \in Summaries /\ m # NoSummary
    BY <2>5, NoSummaryIsNone
  <2>3. h \in Holdings /\ h.recorded /\ h.covered /\ h.summary # NoSummary
    BY <2>1, <2>2, <1>0, <1>2 DEF Holdings, Covers
  <2>4. dir' = [dir EXCEPT ![call[p].id] = h]
    BY <1>2
  <2> HIDE DEF h, d, m
  <2> QED BY <1>0, <1>2, <2>3, <2>4, AttemptPreserves DEF InAttempt
<1> QED BY <1>1, <1>2 DEF Describe

LEMMA PublishPreserves ==
  ASSUME PathInv, NEW p \in Procs, Publish(p)
  PROVE  PathInv'
<1>0. /\ call[p].pc \in InAttempt /\ UNCHANGED lock
      /\ dir[call[p].id].recorded /\ dir[call[p].id].covered
      /\ dir[call[p].id].summary # NoSummary
  BY DEF Publish, At, InAttempt, PathInv, CallOK
<1>1. CASE Fails(p)
  BY <1>0, <1>1, FailsPreserves
<1>2. CASE /\ Output = {}
           /\ place' = [place EXCEPT ![call[p].id] = "output"]
           /\ Goto(p, "unlock") /\ UNCHANGED dir
  <2>1. call[p].id \in Dirs /\ ~At(p, "idle")
    BY <1>0, AttemptIsApart
  <2>2. \A e \in Dirs : place'[e] = "output" <=> e = call[p].id
    BY <1>2, <2>1 DEF PathInv, TypeOK, Output
  <2>3. place' \in [Dirs -> {"none", "attempt", "output", "archived"}]
    BY <1>2 DEF PathInv, TypeOK
  <2> QED BY <1>0, <1>2, <2>1, <2>2, <2>3, PlacePreserves
<1> QED BY <1>1, <1>2 DEF Publish

LEMMA FailPreserves ==
  ASSUME PathInv, NEW p \in Procs, Fail(p)
  PROVE  PathInv'
<1> DEFINE c == [call[p] EXCEPT !.pc = "unlock"]
<1>1. c \in Calls /\ c.pc = "unlock" /\ c.request = call[p].request
      /\ call' = [call EXCEPT ![p] = c]
  BY GotoIsStep DEF PathInv, Fail, Pcs
<1>2. CallOK(c)
  BY <1>1 DEF PathInv, CallOK, InAttempt, Fail, At
<1>3. ~At(p, "idle") /\ UNCHANGED <<lock, place, dir>>
  BY DEF Fail, At
<1> HIDE DEF c
<1> QED BY <1>1, <1>2, <1>3, StepOfCall

LEMMA OutPreserves ==
  ASSUME PathInv, NEW p \in Procs, Unlock(p) \/ Kill(p)
  PROVE  PathInv'
<1>1. ~At(p, "idle") /\ call' = [call EXCEPT ![p] = Idle]
      /\ UNCHANGED <<place, dir>>
  BY DEF Unlock, Kill, At
<1>2. lock' = Nobody
  BY <1>1 DEF Unlock, Kill, PathInv, TypeOK
<1> QED BY <1>1, <1>2, StepOut

(* An edit leaves a summary where there is one.                            *)
(* What an edit may make of a directory.                                   *)
EditOf(h, o) ==
  /\ h.request = o.request
  /\ h.covered = o.covered /\ h.recorded = o.recorded
  /\ \/ h.art = Edited /\ h.summary = o.summary
     \/ /\ h.art = o.art /\ h.summary \in Summaries
        /\ \/ /\ h.summary.metrics = Edited
              /\ h.summary.hashes = o.summary.hashes
              /\ h.summary.request = o.summary.request
           \/ /\ h.summary.hashes = Edited
              /\ h.summary.metrics = o.summary.metrics
              /\ h.summary.request = o.summary.request
           \/ /\ h.summary.metrics = o.summary.metrics
              /\ h.summary.hashes = o.summary.hashes
              /\ ~h.summary.sealed

LEMMA EditIs ==
  ASSUME TypeOK, Edit
  PROVE  \E d \in Cached, h \in Holdings :
           /\ dir' = [dir EXCEPT ![d] = h]
           /\ EditOf(h, dir[d]) /\ h.summary # NoSummary
<1>1. Edited \in Values
  BY PathBounds DEF Values, Edited
<1>2. PICK d \in Cached, sealed \in BOOLEAN :
        \/ dir' = [dir EXCEPT ![d].art = Edited]
        \/ dir' = [dir EXCEPT ![d].summary.metrics = Edited,
                              ![d].summary.sealed = sealed]
        \/ dir' = [dir EXCEPT ![d].summary.hashes = Edited,
                              ![d].summary.sealed = sealed]
        \/ \E r \in Requests :
             dir' = [dir EXCEPT ![d].summary.request = r,
                                ![d].summary.sealed = FALSE]
  BY DEF Edit
<1>3. /\ dir[d] \in Holdings /\ dir[d].summary \in Summaries
      /\ dir[d].summary # NoSummary
  BY DEF TypeOK, Holdings, Cached, Output
<1>4. ASSUME NEW m \in Summaries,
             dir' = [dir EXCEPT ![d] = [dir[d] EXCEPT !.summary = m]],
             \/ /\ m.metrics = Edited /\ m.hashes = dir[d].summary.hashes
                /\ m.request = dir[d].summary.request
             \/ /\ m.hashes = Edited /\ m.metrics = dir[d].summary.metrics
                /\ m.request = dir[d].summary.request
             \/ /\ m.metrics = dir[d].summary.metrics
                /\ m.hashes = dir[d].summary.hashes /\ ~m.sealed
      PROVE  \E h \in Holdings :
               /\ dir' = [dir EXCEPT ![d] = h]
               /\ EditOf(h, dir[d]) /\ h.summary # NoSummary
  <2> DEFINE h == [dir[d] EXCEPT !.summary = m]
  <2>1. /\ h \in Holdings /\ dir' = [dir EXCEPT ![d] = h]
        /\ h.covered = dir[d].covered /\ h.recorded = dir[d].recorded
        /\ h.request = dir[d].request /\ h.art = dir[d].art
        /\ h.summary = m
    BY <1>3, <1>4 DEF Holdings
  <2>2. m # NoSummary
    BY NoSummaryIsNone
  <2> HIDE DEF h
  <2>3. EditOf(h, dir[d])
    BY <1>4, <2>1 DEF EditOf
  <2> QED BY <2>1, <2>2, <2>3
<1>5. CASE dir' = [dir EXCEPT ![d].art = Edited]
  <2> DEFINE h == [dir[d] EXCEPT !.art = Edited]
  <2>1. /\ h \in Holdings /\ dir' = [dir EXCEPT ![d] = h]
        /\ h.covered = dir[d].covered /\ h.recorded = dir[d].recorded
        /\ h.request = dir[d].request /\ h.art = Edited
        /\ h.summary = dir[d].summary
    BY <1>1, <1>3, <1>5 DEF Holdings
  <2> HIDE DEF h
  <2> QED BY <1>3, <2>1 DEF EditOf
<1>6. CASE dir' = [dir EXCEPT ![d].summary.metrics = Edited,
                              ![d].summary.sealed = sealed]
  <2> DEFINE m == [dir[d].summary EXCEPT !.metrics = Edited, !.sealed = sealed]
  <2>1. /\ m \in Summaries
        /\ m.metrics = Edited /\ m.hashes = dir[d].summary.hashes
        /\ m.request = dir[d].summary.request
    BY <1>1, <1>3 DEF Summaries
  <2>2. dir' = [dir EXCEPT ![d] = [dir[d] EXCEPT !.summary = m]]
    BY <1>6
  <2> HIDE DEF m
  <2> QED BY <1>4, <2>1, <2>2
<1>7. CASE dir' = [dir EXCEPT ![d].summary.hashes = Edited,
                              ![d].summary.sealed = sealed]
  <2> DEFINE m == [dir[d].summary EXCEPT !.hashes = Edited, !.sealed = sealed]
  <2>1. /\ m \in Summaries
        /\ m.hashes = Edited /\ m.metrics = dir[d].summary.metrics
        /\ m.request = dir[d].summary.request
    BY <1>1, <1>3 DEF Summaries
  <2>2. dir' = [dir EXCEPT ![d] = [dir[d] EXCEPT !.summary = m]]
    BY <1>7
  <2> HIDE DEF m
  <2> QED BY <1>4, <2>1, <2>2
<1>8. ASSUME NEW r \in Requests,
             dir' = [dir EXCEPT ![d].summary.request = r,
                                ![d].summary.sealed = FALSE]
      PROVE  \E h \in Holdings :
               /\ dir' = [dir EXCEPT ![d] = h]
               /\ EditOf(h, dir[d]) /\ h.summary # NoSummary
  <2> DEFINE m == [dir[d].summary EXCEPT !.request = r, !.sealed = FALSE]
  <2>1. /\ m \in Summaries
        /\ m.metrics = dir[d].summary.metrics
        /\ m.hashes = dir[d].summary.hashes /\ ~m.sealed
    BY <1>1, <1>3 DEF Summaries
  <2>2. dir' = [dir EXCEPT ![d] = [dir[d] EXCEPT !.summary = m]]
    BY <1>8
  <2> HIDE DEF m
  <2> QED BY <1>4, <2>1, <2>2
<1> QED BY <1>2, <1>5, <1>6, <1>7, <1>8

LEMMA EditPreserves ==
  ASSUME PathInv, Edit
  PROVE  PathInv'
<1>1. TypeOK
  BY DEF PathInv
<1>2. PICK d \in Cached, h \in Holdings :
        /\ dir' = [dir EXCEPT ![d] = h]
        /\ h.covered = dir[d].covered /\ h.recorded = dir[d].recorded
        /\ h.summary # NoSummary
  BY <1>1, EditIs DEF EditOf
<1>3. UNCHANGED <<lock, call, place>>
  BY DEF Edit
<1>4. d \in Dirs /\ dir'[d] = h /\ \A e \in Dirs : e # d => dir'[e] = dir[e]
  BY <1>1, <1>2 DEF Cached, Output, TypeOK
<1>5. TypeOK'
  BY <1>1, <1>2, <1>3, <1>4 DEF TypeOK, Holdings, Output, At
<1>6. \A q \in Procs : CallOK(call[q])'
  BY <1>1, <1>2, <1>3, <1>4 DEF PathInv, CallOK, TypeOK
<1>7. PublishedIsWhole'
  BY <1>1, <1>2, <1>3, <1>4 DEF PathInv, PublishedIsWhole, Output
<1> QED BY <1>5, <1>6, <1>7 DEF PathInv

------------------------------------------------------------------------------
LEMMA PathInvariant == Spec => []PathInv
<1>1. PathInv /\ UNCHANGED vars => PathInv'
  BY DEF PathInv, vars, TypeOK, CallOK, PublishedIsWhole, Output, At
<1>2. PathInv /\ Next => PathInv'
  <2> SUFFICES ASSUME PathInv, Next PROVE PathInv'
    OBVIOUS
  <2>1. CASE Edit
    BY <2>1, EditPreserves
  <2>2. ASSUME NEW p \in Procs, NEW r \in Requests, Begin(p, r)
        PROVE  PathInv'
    BY <2>2, BeginPreserves
  <2>3. ASSUME NEW p \in Procs, Kill(p) PROVE PathInv'
    BY <2>3, OutPreserves
  <2>4. ASSUME NEW p \in Procs, Step(p) PROVE PathInv'
    BY <2>4, CheckPreserves, ArchivePreserves, MakePreserves,
       ExecutePreserves, RecordPreserves, DescribePreserves,
       PublishPreserves, FailPreserves, OutPreserves DEF Step
  <2> QED BY <2>1, <2>2, <2>3, <2>4 DEF Next
<1> QED BY <1>1, <1>2, PathInit, PTL DEF Spec

(* The state keeps its shape and the lock is held exactly during a call.   *)
THEOREM PathTyped == Spec => []TypeOK
<1>1. PathInv => TypeOK
  BY DEF PathInv
<1> QED BY <1>1, PathInvariant, PTL

(* One call at a time has an attempt: the ledger is never executed twice   *)
(* at once, however many processes call and die.                           *)
THEOREM OneExecutionAtATime == Spec => []OneExecution
<1>1. PathInv => OneExecution
  <2> SUFFICES ASSUME PathInv, NEW p \in Procs, NEW q \in Procs,
                      call[p].id # Legacy, call[q].id # Legacy
               PROVE  p = q
    BY DEF OneExecution
  <2>1. ~At(p, "idle") /\ ~At(q, "idle")
    BY DEF PathInv, CallOK, At
  <2> QED BY <2>1, LockIsExclusive DEF PathInv
<1> QED BY <1>1, PathInvariant, PTL

(* What stands at the output has all of its files and covers the folds,    *)
(* after any kills, failures and edits.                                    *)
THEOREM OutputIsWhole == Spec => []PublishedIsWhole
<1>1. PathInv => PublishedIsWhole
  BY DEF PathInv
<1> QED BY <1>1, PathInvariant, PTL

------------------------------------------------------------------------------
(* Whoever is about to move the output aside knows that it holds no        *)
(* summary, and nobody can put one there meanwhile.                        *)
ArchiveKnows == \A p \in Procs : At(p, "archive") => Cached = {}

LEMMA KnowsPreserved == PathInv /\ ArchiveKnows /\ [Next]_vars => ArchiveKnows'
<1> SUFFICES ASSUME PathInv, ArchiveKnows, [Next]_vars,
                    NEW q \in Procs, At(q, "archive")'
             PROVE  Cached' = {}
  BY DEF ArchiveKnows
<1>1. TypeOK
  BY DEF PathInv
<1>2. CASE UNCHANGED vars \/ Edit
  <2>1. At(q, "archive") /\ UNCHANGED <<place, call>>
    BY <1>2 DEF At, vars, Edit
  <2>2. Cached = {}
    BY <2>1 DEF ArchiveKnows
  <2>3. dir' = dir
    BY <1>2, <2>2 DEF Edit, vars
  <2> QED BY <2>1, <2>2, <2>3 DEF Cached, Output
<1>3. ASSUME NEW p \in Procs, NEW r \in Requests, Begin(p, r)
      PROVE  FALSE
  <2>1. \A x \in Procs : call[x].pc = "idle"
    BY <1>1, <1>3, PathBounds DEF Begin, Free, TypeOK, At
  <2> QED BY <1>1, <1>3, <2>1 DEF Begin, At, TypeOK
<1>4. ASSUME NEW p \in Procs, Kill(p) \/ Step(p)
      PROVE  Cached' = {}
  <2>1. ~At(p, "idle")
    BY <1>4 DEF Kill, Step, Check, Archive, Make, Execute, Record, Describe,
                Publish, Fail, Unlock, At
  <2>2. q = p
    <3>1. SUFFICES ASSUME q # p PROVE FALSE
      OBVIOUS
    <3>2. call[q].pc = "idle"
      BY <2>1, <3>1, OthersAreIdle
    <3>3. call'[q] = call[q]
      BY <1>1, <1>4, <3>1 DEF TypeOK, Kill, Step, Check, Archive, Make,
           Execute, Record, Describe, Publish, Fail, Unlock, Goto, Fails
    <3> QED BY <3>2, <3>3 DEF At
  <2>3. Check(p)
    <3>1. call'[p].pc = "archive"
      BY <2>2 DEF At
    <3>2. ASSUME NEW pc \in Pcs, Goto(p, pc)
          PROVE  pc = "archive"
      BY <1>1, <3>1, <3>2 DEF Goto, TypeOK
    <3>3. ~Kill(p) /\ ~Unlock(p) /\ ~Make(p)
      BY <1>1, <3>1, <3>2 DEF Kill, Unlock, Make, TypeOK, Idle, Pcs
    <3>4. ~Archive(p) /\ ~Execute(p) /\ ~Record(p) /\ ~Describe(p)
          /\ ~Publish(p) /\ ~Fail(p)
      BY <3>2 DEF Archive, Execute, Record, Describe, Publish, Fail, Fails, Pcs
    <3> QED BY <1>4, <3>3, <3>4 DEF Step
  <2>4. Cached = {}
    BY <1>1, <2>2, <2>3 DEF Check, Goto, At, TypeOK
  <2> QED BY <2>3, <2>4 DEF Check, Cached, Output
<1> QED BY <1>2, <1>3, <1>4 DEF Next

LEMMA KnowsInvariant == Spec => []ArchiveKnows
<1>1. Init => ArchiveKnows
  BY DEF Init, Idle, ArchiveKnows, At
<1> QED BY <1>1, KnowsPreserved, PathInvariant, PTL DEF Spec

(* Of one step: directories stay, and finished ones stay where they are.   *)
LEMMA StepLosesNothing ==
  ASSUME PathInv, ArchiveKnows, [Next]_vars, NEW d \in Dirs
  PROVE  /\ place[d] # "none" => place'[d] # "none"
         /\ d \in Cached => place'[d] = "output"
<1>1. TypeOK
  BY DEF PathInv
<1>2. CASE place' = place
  BY <1>2 DEF Cached, Output
<1>3. ASSUME NEW p \in Procs, Archive(p)
      PROVE  /\ place[d] # "none" => place'[d] # "none"
             /\ d \in Cached => place'[d] = "output"
  <2>1. Cached = {}
    BY <1>3 DEF Archive, ArchiveKnows
  <2> QED BY <1>3, <2>1 DEF Archive
<1>4. ASSUME NEW p \in Procs, Make(p), place' # place
      PROVE  /\ place[d] # "none" => place'[d] # "none"
             /\ d \in Cached => place'[d] = "output"
  BY <1>1, <1>4 DEF Make, Cached, Output, TypeOK
<1>5. ASSUME NEW p \in Procs, Publish(p), place' # place
      PROVE  /\ place[d] # "none" => place'[d] # "none"
             /\ d \in Cached => place'[d] = "output"
  BY <1>1, <1>5 DEF Publish, Fails, Cached, Output, TypeOK
<1>6. place' = place \/ \E p \in Procs :
        Archive(p) \/ (Make(p) /\ place' # place) \/ (Publish(p) /\ place' # place)
  BY DEF Next, vars, Edit, Begin, Kill, Step, Check, Execute, Record,
         Describe, Fail, Unlock, Fails
<1> QED BY <1>2, <1>3, <1>4, <1>5, <1>6

(* One execution at a time, published whole, whatever is killed, fails or  *)
(* is edited, and no step loses a directory or moves a finished one.       *)
THEOREM WorkIsNeverLost == Spec => WorkStands
<1>1. Spec => []ArchiveKnows
  BY KnowsInvariant
<1>2. PathInv /\ ArchiveKnows /\ [Next]_vars =>
        [\A d \in Dirs : /\ place[d] # "none" => place'[d] # "none"
                         /\ d \in Cached => place'[d] = "output"]_vars
  BY StepLosesNothing
<1>3. Spec => NothingIsLost
  BY <1>1, <1>2, PathInvariant, PTL DEF Spec, NothingIsLost
<1>4. TypeOK /\ OneExecution /\ PublishedIsWhole => OutputIsSound
  BY DEF OutputIsSound
<1>5. Spec => []OutputIsSound
  BY <1>4, PathTyped, OneExecutionAtATime, OutputIsWhole, PTL
<1> QED BY <1>3, <1>5 DEF WorkStands

------------------------------------------------------------------------------
(* What an attempt knows of the directory it works in.                     *)
WorkingOK(c) ==
  /\ c.pc \in InAttempt => dir[c.id].request = c.request
  /\ c.pc \in {"record", "describe", "publish"} => dir[c.id].art = c.id
  /\ c.pc \in {"execute", "record", "describe"} =>
       dir[c.id].summary = NoSummary
  /\ c.pc = "publish" =>
       dir[c.id].summary = [request |-> c.request, metrics |-> c.id,
                            hashes |-> c.id, sealed |-> TRUE]

Replaced(v) == IF v = Edited THEN 1 ELSE 0

(* A summary is the one that was described, but for what edits replaced;   *)
(* a request is only replaced with the digest, which fits again only when  *)
(* the metrics or the hashes were replaced too.                            *)
SummaryOK(d) ==
  dir[d].summary # NoSummary =>
    /\ dir[d].covered
    /\ dir[d].art \in {d, Edited}
    /\ dir[d].summary.metrics \in {d, Edited}
    /\ dir[d].summary.hashes \in {d, Edited}
    /\ \/ ~dir[d].summary.sealed
       \/ dir[d].summary.metrics = Edited
       \/ dir[d].summary.hashes = Edited
       \/ dir[d].summary.request = dir[d].request
    /\ Replaced(dir[d].art) + Replaced(dir[d].summary.metrics)
         + Replaced(dir[d].summary.hashes) <= edits

Evidence(d) == [dir |-> d, request |-> dir[d].request, art |-> d, metrics |-> d]

GivenOK == \A g \in given : g.dir \in Cached /\ g = Evidence(g.dir)

AnswerInv ==
  /\ edits \in 0..MaxEdits
  /\ \A p \in Procs : WorkingOK(call[p])
  /\ \A d \in Dirs : SummaryOK(d)
  /\ GivenOK

LEMMA AnswerInit == Init => AnswerInv
<1> SUFFICES ASSUME Init PROVE AnswerInv
  OBVIOUS
<1>1. \A p \in Procs : WorkingOK(call[p])
  BY DEF Init, Idle, WorkingOK, InAttempt
<1>2. \A d \in Dirs : SummaryOK(d)
  BY DEF Init, Fresh, SummaryOK
<1> QED BY <1>1, <1>2, PathBounds DEF Init, AnswerInv, GivenOK

(* A directory whose summary loads is as it was described, unless all of   *)
(* the three values were replaced.                                         *)
LEMMA LoadedIsGenuine ==
  ASSUME MaxEdits <= 2, PathInv, AnswerInv, NEW d \in Cached,
         NEW r \in Requests, Loads(d, r)
  PROVE  /\ dir[d].art = d /\ dir[d].summary.metrics = d
         /\ dir[d].summary.request = dir[d].request
<1>1. d \in Dirs /\ dir[d].summary # NoSummary
  BY DEF Cached, Output
<1>2. d # Edited
  BY <1>1, PathBounds DEF Dirs, Edited
<1>3. SummaryOK(d) /\ edits \in 0..MaxEdits
  BY <1>1 DEF AnswerInv
<1>4. dir[d].art # Edited
  BY <1>1, <1>3, PathBounds DEF Loads, SummaryOK, Replaced
<1> QED BY <1>1, <1>2, <1>3, <1>4 DEF Loads, SummaryOK

(* The attempt of a call is in no finished directory.                      *)
LEMMA AttemptNotCached ==
  ASSUME PathInv, NEW p \in Procs, call[p].pc \in InAttempt
  PROVE  call[p].id \notin Cached /\ call[p].id \in Dirs /\ ~At(p, "idle")
BY AttemptIsApart DEF Cached

(* No step takes a finished directory away or gives it another request.    *)
LEMMA CachedStays ==
  ASSUME PathInv, ArchiveKnows, [Next]_vars, NEW d \in Cached
  PROVE  d \in Cached' /\ dir'[d].request = dir[d].request
<1>1. /\ d \in Dirs /\ d \in Output /\ dir[d].summary # NoSummary
      /\ dir \in [Dirs -> Holdings]
  BY DEF PathInv, TypeOK, Holdings, Cached, Output
<1>2. place'[d] = "output"
  BY <1>1, StepLosesNothing
<1>3. SUFFICES dir'[d].summary # NoSummary /\ dir'[d].request = dir[d].request
  BY <1>1, <1>2 DEF Cached, Output
<1>4. CASE dir'[d] = dir[d]
  BY <1>1, <1>4
<1>5. CASE Edit
  <2>1. PICK e \in Cached, h \in Holdings :
          /\ dir' = [dir EXCEPT ![e] = h]
          /\ EditOf(h, dir[e]) /\ h.summary # NoSummary
    BY <1>5, EditIs DEF PathInv
  <2> QED BY <1>1, <2>1 DEF EditOf
<1>6. ASSUME NEW p \in Procs, Make(p)
      PROVE  dir'[d] = dir[d]
  BY <1>1, <1>6 DEF Make, Output
<1>7. ASSUME NEW p \in Procs, Execute(p) \/ Record(p) \/ Describe(p)
      PROVE  dir'[d] = dir[d]
  <2>1. call[p].id \notin Cached
    BY <1>7, AttemptNotCached DEF Execute, Record, Describe, At, InAttempt
  <2> QED BY <1>1, <1>7, <2>1 DEF Execute, Record, Describe, Fails
<1>8. \/ dir' = dir \/ Edit
      \/ \E p \in Procs : Make(p) \/ Execute(p) \/ Record(p) \/ Describe(p)
  BY DEF Next, vars, Begin, Kill, Step, Check, Archive, Publish, Fail, Unlock,
         Fails
<1> QED BY <1>4, <1>5, <1>6, <1>7, <1>8

(* What has been given stands when nothing more is given.                  *)
LEMMA GivenStays ==
  ASSUME PathInv, ArchiveKnows, [Next]_vars, AnswerInv,
         \A g \in given' \ given : g.dir \in Cached' /\ g = Evidence(g.dir)'
  PROVE  GivenOK'
<1>1. SUFFICES ASSUME NEW g \in given', g \in given
               PROVE  g.dir \in Cached' /\ g = Evidence(g.dir)'
  BY DEF GivenOK
<1>2. g.dir \in Cached /\ g = Evidence(g.dir)
  BY <1>1 DEF AnswerInv, GivenOK
<1> QED BY <1>2, CachedStays DEF Evidence

(* A step of the call of p.                                                *)
LEMMA CallStep ==
  ASSUME PathInv, ArchiveKnows, [Next]_vars, AnswerInv,
         NEW p \in Procs, ~At(p, "idle"), NEW c,
         call' = [call EXCEPT ![p] = c], WorkingOK(c)',
         edits' = edits, \A d \in Dirs : SummaryOK(d)',
         \A g \in given' \ given : g.dir \in Cached' /\ g = Evidence(g.dir)'
  PROVE  AnswerInv'
<1>1. GivenOK'
  BY GivenStays
<1>2. ASSUME NEW q \in Procs PROVE WorkingOK(call[q])'
  <2>1. CASE q = p
    BY <2>1 DEF PathInv, TypeOK, WorkingOK
  <2>2. CASE q # p
    <3>1. call'[q].pc = "idle"
      BY <2>2, OthersAreIdle DEF PathInv, TypeOK
    <3> QED BY <3>1 DEF WorkingOK, InAttempt
  <2> QED BY <2>1, <2>2
<1> QED BY <1>1, <1>2 DEF AnswerInv

(* A step that writes nothing in any directory.                            *)
LEMMA QuietStep ==
  ASSUME PathInv, ArchiveKnows, [Next]_vars, AnswerInv,
         NEW p \in Procs, ~At(p, "idle"), NEW c,
         call' = [call EXCEPT ![p] = c], c.pc \notin InAttempt \/ c.pc = "fail",
         c.pc = "fail" => dir[c.id].request = c.request,
         edits' = edits, dir' = dir,
         \A g \in given' \ given : g.dir \in Cached' /\ g = Evidence(g.dir)'
  PROVE  AnswerInv'
<1>1. \A d \in Dirs : SummaryOK(d)'
  BY DEF AnswerInv, SummaryOK
<1>2. WorkingOK(c)'
  BY DEF WorkingOK, InAttempt
<1> QED BY <1>1, <1>2, CallStep

LEMMA GotoSets ==
  ASSUME PathInv, NEW p \in Procs, NEW pc, Goto(p, pc)
  PROVE  \E c : /\ call' = [call EXCEPT ![p] = c] /\ c.pc = pc
                /\ c.id = call[p].id /\ c.request = call[p].request
<1> DEFINE c == [call[p] EXCEPT !.pc = pc]
<1>1. call' = [call EXCEPT ![p] = c]
  BY DEF Goto
<1>2. c.pc = pc /\ c.id = call[p].id /\ c.request = call[p].request
  BY DEF PathInv, TypeOK
<1> HIDE DEF c
<1> QED BY <1>1, <1>2

LEMMA AnswerCheck ==
  ASSUME MaxEdits <= 2, PathInv, ArchiveKnows, [Next]_vars, AnswerInv,
         NEW p \in Procs, Check(p)
  PROVE  AnswerInv'
<1>1. PICK pc \in {"unlock", "make", "archive"} : Goto(p, pc)
  BY DEF Check
<1>2. PICK c : /\ call' = [call EXCEPT ![p] = c] /\ c.pc = pc
  BY <1>1, GotoSets
<1>3. /\ ~At(p, "idle") /\ edits' = edits /\ dir' = dir /\ Cached' = Cached
      /\ call[p].request \in Requests
  BY DEF Check, At, Cached, Output, PathInv, CallOK, TypeOK
<1>4. ASSUME NEW g \in given' \ given
      PROVE  g.dir \in Cached' /\ g = Evidence(g.dir)'
  <2>1. PICK d \in Cached :
          /\ Loads(d, call[p].request) /\ Gives(d, dir[d].summary.metrics)
    BY <1>4 DEF Check
  <2>2. g = [dir |-> d, request |-> dir[d].summary.request,
             art |-> dir[d].art, metrics |-> dir[d].summary.metrics]
    BY <1>4, <2>1 DEF Gives
  <2>3. g = Evidence(d)
    BY <1>3, <2>1, <2>2, LoadedIsGenuine DEF Evidence
  <2> QED BY <1>3, <2>2, <2>3 DEF Evidence
<1> QED BY <1>1, <1>2, <1>3, <1>4, QuietStep DEF InAttempt

LEMMA AnswerQuiet ==
  ASSUME PathInv, ArchiveKnows, [Next]_vars, AnswerInv,
         NEW p \in Procs, Archive(p) \/ Fail(p) \/ Unlock(p) \/ Kill(p)
  PROVE  AnswerInv'
<1>1. /\ ~At(p, "idle") /\ edits' = edits /\ dir' = dir /\ given' = given
  BY DEF Archive, Fail, Unlock, Kill, At
<1>2. PICK c : /\ call' = [call EXCEPT ![p] = c]
               /\ c.pc \in {"idle", "make", "unlock"}
  <2>1. CASE \E pc \in {"make", "unlock"} : Goto(p, pc)
    BY <2>1, GotoSets
  <2>2. CASE call' = [call EXCEPT ![p] = Idle]
    <3>1. Idle.pc = "idle"
      BY DEF Idle
    <3> QED BY <2>2, <3>1
  <2>3. Archive(p) => Goto(p, "make")
    BY DEF Archive
  <2>4. Fail(p) => Goto(p, "unlock")
    BY DEF Fail
  <2>5. Unlock(p) \/ Kill(p) => call' = [call EXCEPT ![p] = Idle]
    BY DEF Unlock, Kill
  <2> QED BY <2>1, <2>2, <2>3, <2>4, <2>5
<1> QED BY <1>1, <1>2, QuietStep DEF InAttempt

LEMMA AnswerFails ==
  ASSUME PathInv, ArchiveKnows, [Next]_vars, AnswerInv, NEW p \in Procs,
         call[p].pc \in InAttempt, Fails(p), edits' = edits
  PROVE  AnswerInv'
<1>1. PICK c : /\ call' = [call EXCEPT ![p] = c] /\ c.pc = "fail"
               /\ c.id = call[p].id /\ c.request = call[p].request
  BY GotoSets DEF Fails
<1>2. /\ ~At(p, "idle") /\ dir[c.id].request = c.request
      /\ given' = given /\ dir' = dir
  BY <1>1, AttemptNotCached DEF AnswerInv, WorkingOK, Fails
<1> QED BY <1>1, <1>2, QuietStep

LEMMA AnswerMake ==
  ASSUME PathInv, ArchiveKnows, [Next]_vars, AnswerInv,
         NEW p \in Procs, Make(p)
  PROVE  AnswerInv'
<1>1. ~At(p, "idle") /\ edits' = edits /\ given' = given
  BY DEF Make, At
<1>2. CASE Goto(p, "unlock") /\ dir' = dir
  BY <1>1, <1>2, GotoSets, QuietStep DEF InAttempt
<1>3. ASSUME NEW d \in Dirs,
             dir' = [dir EXCEPT ![d] = Fresh(call[p].request)],
             call' = [call EXCEPT ![p].pc = "execute", ![p].id = d]
      PROVE  AnswerInv'
  <2>1. PICK c : /\ call' = [call EXCEPT ![p] = c]
                 /\ c.pc = "execute" /\ c.id = d
                 /\ c.request = call[p].request
    <3> DEFINE c == [call[p] EXCEPT !.pc = "execute", !.id = d]
    <3>1. call' = [call EXCEPT ![p] = c]
      BY <1>3
    <3>2. c.pc = "execute" /\ c.id = d /\ c.request = call[p].request
      BY DEF PathInv, TypeOK
    <3> HIDE DEF c
    <3> QED BY <3>1, <3>2
  <2>2. /\ dir'[d] = Fresh(call[p].request)
        /\ \A e \in Dirs : e # d => dir'[e] = dir[e]
    BY <1>3 DEF PathInv, TypeOK
  <2>3. \A e \in Dirs : SummaryOK(e)'
    BY <1>1, <2>2 DEF AnswerInv, SummaryOK, Fresh
  <2>4. WorkingOK(c)'
    BY <2>1, <2>2 DEF WorkingOK, Fresh
  <2> QED BY <1>1, <2>1, <2>3, <2>4, CallStep
<1> QED BY <1>2, <1>3 DEF Make

(* What an attempt writes is in its own directory.                         *)
LEMMA WritingStep ==
  ASSUME PathInv, ArchiveKnows, [Next]_vars, AnswerInv,
         NEW p \in Procs, call[p].pc \in InAttempt,
         NEW pc \in InAttempt, Goto(p, pc), given' = given, edits' = edits,
         NEW h \in Holdings, dir' = [dir EXCEPT ![call[p].id] = h],
         h.request = dir[call[p].id].request,
         pc \in {"record", "describe", "publish"} => h.art = call[p].id,
         pc = "publish" =>
           /\ h.covered
           /\ h.summary = [request |-> call[p].request,
                           metrics |-> call[p].id, hashes |-> call[p].id,
                           sealed |-> TRUE],
         pc = "publish" \/ h.summary = NoSummary
  PROVE  AnswerInv'
<1>1. PICK c : /\ call' = [call EXCEPT ![p] = c] /\ c.pc = pc
               /\ c.id = call[p].id /\ c.request = call[p].request
  BY GotoSets
<1>2. /\ ~At(p, "idle") /\ call[p].id \in Dirs
      /\ dir'[call[p].id] = h
      /\ \A e \in Dirs : e # call[p].id => dir'[e] = dir[e]
      /\ dir[c.id].request = call[p].request
  BY <1>1, AttemptNotCached DEF PathInv, TypeOK, AnswerInv, WorkingOK
<1>3. WorkingOK(c)'
  BY <1>1, <1>2 DEF WorkingOK
<1>4. call[p].id # Edited
  BY <1>2, PathBounds DEF Dirs, Edited
<1>5. ASSUME NEW e \in Dirs PROVE SummaryOK(e)'
  <2>1. CASE e # call[p].id
    BY <1>2, <2>1 DEF AnswerInv, SummaryOK
  <2>2. CASE e = call[p].id /\ h.summary = NoSummary
    BY <1>2, <2>2 DEF SummaryOK
  <2>3. CASE e = call[p].id /\ pc = "publish"
    <3>1. /\ dir'[e].covered /\ dir'[e].art = e
          /\ dir'[e].summary.metrics = e /\ dir'[e].summary.hashes = e
          /\ dir'[e].summary.request = dir'[e].request
      BY <1>1, <1>2, <2>3
    <3>2. 0 <= edits' /\ e # Edited
      BY <1>4, <2>3 DEF AnswerInv
    <3> QED BY <3>1, <3>2 DEF SummaryOK, Replaced
  <2> QED BY <2>1, <2>2, <2>3
<1> QED BY <1>1, <1>2, <1>3, <1>5, CallStep

(* The steps of an attempt that write in its directory.                    *)
LEMMA AnswerExecute ==
  ASSUME PathInv, ArchiveKnows, [Next]_vars, AnswerInv,
         NEW p \in Procs, Execute(p)
  PROVE  AnswerInv'
<1>0. call[p].pc = "execute" /\ call[p].pc \in InAttempt /\ edits' = edits
  BY DEF Execute, At, InAttempt
<1>1. CASE Fails(p)
  BY <1>0, <1>1, AnswerFails
<1>2. ASSUME NEW covered \in BOOLEAN,
             dir' = [dir EXCEPT ![call[p].id].art = call[p].id,
                                ![call[p].id].covered = covered],
             Goto(p, "record"), given' = given
      PROVE  AnswerInv'
  <2> DEFINE h == [dir[call[p].id] EXCEPT !.art = call[p].id,
                                          !.covered = covered]
  <2>1. call[p].id \in Dirs /\ dir[call[p].id] \in Holdings
    BY <1>0, AttemptIsApart
  <2>2. call[p].id \in Values
    BY <2>1, PathBounds DEF Dirs, Values, Edited
  <2>3. dir[call[p].id].summary = NoSummary
    BY <1>0 DEF AnswerInv, WorkingOK
  <2>4. /\ h \in Holdings /\ h.request = dir[call[p].id].request
        /\ h.art = call[p].id /\ h.summary = NoSummary
    BY <2>1, <2>2, <2>3 DEF Holdings
  <2>5. dir' = [dir EXCEPT ![call[p].id] = h]
    BY <1>2
  <2> HIDE DEF h
  <2> QED BY <1>0, <1>2, <2>4, <2>5, WritingStep DEF InAttempt
<1> QED BY <1>1, <1>2 DEF Execute

LEMMA AnswerRecord ==
  ASSUME PathInv, ArchiveKnows, [Next]_vars, AnswerInv,
         NEW p \in Procs, Record(p)
  PROVE  AnswerInv'
<1>0. call[p].pc = "record" /\ call[p].pc \in InAttempt /\ edits' = edits
  BY DEF Record, At, InAttempt
<1>1. CASE Fails(p)
  BY <1>0, <1>1, AnswerFails
<1>2. CASE /\ dir' = [dir EXCEPT ![call[p].id].recorded = TRUE]
           /\ Goto(p, "describe") /\ given' = given
  <2> DEFINE h == [dir[call[p].id] EXCEPT !.recorded = TRUE]
  <2>1. dir[call[p].id] \in Holdings
    BY <1>0, AttemptIsApart
  <2>2. dir[call[p].id].summary = NoSummary /\ dir[call[p].id].art = call[p].id
    BY <1>0 DEF AnswerInv, WorkingOK
  <2>3. /\ h \in Holdings /\ h.request = dir[call[p].id].request
        /\ h.art = call[p].id /\ h.summary = NoSummary
    BY <2>1, <2>2 DEF Holdings
  <2>4. dir' = [dir EXCEPT ![call[p].id] = h]
    BY <1>2
  <2> HIDE DEF h
  <2> QED BY <1>0, <1>2, <2>3, <2>4, WritingStep DEF InAttempt
<1> QED BY <1>1, <1>2 DEF Record

LEMMA AnswerDescribe ==
  ASSUME PathInv, ArchiveKnows, [Next]_vars, AnswerInv,
         NEW p \in Procs, Describe(p)
  PROVE  AnswerInv'
<1> DEFINE d == call[p].id
<1>0. call[p].pc = "describe" /\ call[p].pc \in InAttempt /\ edits' = edits
  BY DEF Describe, At, InAttempt
<1>1. CASE Fails(p)
  BY <1>0, <1>1, AnswerFails
<1>2. CASE /\ Covers(d)
           /\ dir' = [dir EXCEPT ![d].summary =
                [request |-> call[p].request, metrics |-> dir[d].art,
                 hashes |-> dir[d].art, sealed |-> TRUE]]
           /\ Goto(p, "publish") /\ given' = given
  <2> DEFINE m == [request |-> call[p].request, metrics |-> d,
                   hashes |-> d, sealed |-> TRUE]
             h == [dir[d] EXCEPT !.summary = m]
  <2>1. /\ dir[d] \in Holdings /\ d \in Values
        /\ call[p].request \in Requests
    BY <1>0, AttemptIsApart, PathBounds
       DEF PathInv, CallOK, TypeOK, Dirs, Values, Edited
  <2>2. dir[d].art = d
    BY <1>0 DEF AnswerInv, WorkingOK
  <2>3. m \in Summaries
    BY <2>1 DEF Summaries
  <2>4. /\ h \in Holdings /\ h.request = dir[d].request
        /\ h.art = d /\ h.summary = m /\ h.covered
    BY <2>1, <2>2, <2>3, <1>2 DEF Holdings, Covers
  <2>5. dir' = [dir EXCEPT ![d] = h]
    BY <1>2, <2>2
  <2> HIDE DEF h
  <2> QED BY <1>0, <1>2, <2>4, <2>5, WritingStep DEF InAttempt
<1> QED BY <1>1, <1>2 DEF Describe

(* What is published is given as it was executed.                          *)
LEMMA AnswerPublish ==
  ASSUME PathInv, ArchiveKnows, [Next]_vars, AnswerInv,
         NEW p \in Procs, Publish(p)
  PROVE  AnswerInv'
<1>0. /\ call[p].pc = "publish" /\ call[p].pc \in InAttempt /\ edits' = edits
      /\ ~At(p, "idle")
  BY DEF Publish, At, InAttempt
<1>1. CASE Fails(p)
  BY <1>0, <1>1, AnswerFails
<1>2. CASE /\ place' = [place EXCEPT ![call[p].id] = "output"]
           /\ Gives(call[p].id, dir[call[p].id].summary.metrics)
           /\ Goto(p, "unlock") /\ dir' = dir
  <2>1. /\ call[p].id \in Dirs
        /\ dir[call[p].id].art = call[p].id
        /\ dir[call[p].id].summary.metrics = call[p].id
        /\ dir[call[p].id].summary.request = dir[call[p].id].request
        /\ dir[call[p].id].summary # NoSummary
    <3>1. WorkingOK(call[p]) /\ CallOK(call[p])
      BY DEF AnswerInv, PathInv
    <3>2. /\ dir[call[p].id].summary # NoSummary /\ call[p].id \in Dirs
      BY <1>0, <3>1, AttemptNotCached DEF CallOK
    <3>3. /\ dir[call[p].id].art = call[p].id
          /\ dir[call[p].id].request = call[p].request
          /\ dir[call[p].id].summary =
               [request |-> call[p].request, metrics |-> call[p].id,
                hashes |-> call[p].id, sealed |-> TRUE]
      BY <1>0, <3>1 DEF WorkingOK
    <3> QED BY <3>2, <3>3
  <2>2. call[p].id \in Cached'
    BY <1>2, <2>1 DEF Cached, Output, PathInv, TypeOK
  <2>3. ASSUME NEW g \in given' \ given
        PROVE  g.dir \in Cached' /\ g = Evidence(g.dir)'
    <3>1. g = [dir |-> call[p].id, request |-> dir[call[p].id].summary.request,
               art |-> dir[call[p].id].art,
               metrics |-> dir[call[p].id].summary.metrics]
      BY <1>2, <2>3 DEF Gives
    <3> QED BY <1>2, <2>1, <2>2, <3>1 DEF Evidence
  <2>4. PICK c : call' = [call EXCEPT ![p] = c] /\ c.pc = "unlock"
    BY <1>2, GotoSets
  <2> QED BY <1>0, <1>2, <2>3, <2>4, QuietStep DEF InAttempt
<1> QED BY <1>1, <1>2 DEF Publish

(* An edit replaces one value more.                                        *)
LEMMA AnswerEdit ==
  ASSUME PathInv, ArchiveKnows, [Next]_vars, AnswerInv, Edit
  PROVE  AnswerInv'
<1>1. PICK d \in Cached, h \in Holdings :
        /\ dir' = [dir EXCEPT ![d] = h]
        /\ EditOf(h, dir[d]) /\ h.summary # NoSummary
  BY EditIs DEF PathInv
<1>2. /\ edits' = edits + 1 /\ edits' \in 0..MaxEdits /\ edits \in Nat
      /\ call' = call /\ given' = given
  BY PathBounds DEF Edit, AnswerInv
<1>3. /\ d \in Dirs /\ dir[d].summary # NoSummary /\ dir'[d] = h
      /\ \A e \in Dirs : e # d => dir'[e] = dir[e]
      /\ d # Edited
  BY <1>1, PathBounds DEF PathInv, TypeOK, Cached, Output, Dirs, Edited
<1>4. \A v : Replaced(v) \in {0, 1} /\ Replaced(v)' = Replaced(v)
  BY DEF Replaced
<1>5. SummaryOK(d)'
  <2>1. SummaryOK(d)
    BY <1>3 DEF AnswerInv
  <2>2. /\ h.covered /\ h.request = dir[d].request
        /\ h.art \in {d, Edited} /\ h.summary.metrics \in {d, Edited}
        /\ h.summary.hashes \in {d, Edited}
    BY <1>1, <1>3, <2>1 DEF EditOf, SummaryOK
  <2>3. \/ ~h.summary.sealed
        \/ h.summary.metrics = Edited \/ h.summary.hashes = Edited
        \/ h.summary.request = h.request
    BY <1>1, <1>3, <2>1 DEF EditOf, SummaryOK
  <2>4. Replaced(h.art) + Replaced(h.summary.metrics)
          + Replaced(h.summary.hashes) <= edits + 1
    BY <1>1, <1>2, <1>3, <1>4, <2>1 DEF EditOf, SummaryOK
  <2> QED BY <1>2, <1>3, <1>4, <2>2, <2>3, <2>4 DEF SummaryOK
<1>6. \A e \in Dirs : SummaryOK(e)'
  BY <1>2, <1>3, <1>4, <1>5 DEF AnswerInv, SummaryOK
<1>7. ASSUME NEW q \in Procs PROVE WorkingOK(call[q])'
  <2>1. CASE call[q].pc \in InAttempt
    BY <1>1, <1>2, <1>3, <2>1, AttemptNotCached DEF AnswerInv, WorkingOK
  <2>2. CASE call[q].pc \notin InAttempt
    BY <1>2, <2>2 DEF WorkingOK, InAttempt
  <2> QED BY <2>1, <2>2
<1>8. GivenOK'
  BY <1>2, GivenStays
<1> QED BY <1>2, <1>6, <1>7, <1>8 DEF AnswerInv

LEMMA AnswerBegin ==
  ASSUME PathInv, ArchiveKnows, [Next]_vars, AnswerInv,
         NEW p \in Procs, NEW r \in Requests, Begin(p, r)
  PROVE  AnswerInv'
<1>1. /\ UNCHANGED <<dir, edits, given>>
      /\ \A q \in Procs : q # p => call'[q] = call[q]
      /\ call'[p].pc = "check"
  BY DEF Begin, PathInv, TypeOK
<1>2. \A q \in Procs : WorkingOK(call[q])'
  BY <1>1 DEF AnswerInv, WorkingOK, InAttempt
<1>3. \A d \in Dirs : SummaryOK(d)'
  BY <1>1 DEF AnswerInv, SummaryOK
<1>4. GivenOK'
  BY <1>1, GivenStays
<1> QED BY <1>1, <1>2, <1>3, <1>4 DEF AnswerInv

LEMMA AnswerPreserves ==
  ASSUME MaxEdits <= 2, PathInv, ArchiveKnows, AnswerInv, [Next]_vars
  PROVE  AnswerInv'
<1>1. CASE UNCHANGED vars
  <2>1. UNCHANGED <<dir, edits, given, call, place>>
    BY <1>1 DEF vars
  <2> QED BY <2>1 DEF AnswerInv, GivenOK, SummaryOK, WorkingOK, Evidence,
                      Cached, Output
<1>2. CASE Edit
  BY <1>2, AnswerEdit
<1>3. ASSUME NEW p \in Procs, NEW r \in Requests, Begin(p, r)
      PROVE  AnswerInv'
  BY <1>3, AnswerBegin
<1>4. ASSUME NEW p \in Procs, Step(p) \/ Kill(p)
      PROVE  AnswerInv'
  BY <1>4, AnswerCheck, AnswerQuiet, AnswerMake, AnswerExecute, AnswerRecord,
     AnswerDescribe, AnswerPublish DEF Step
<1> QED BY <1>1, <1>2, <1>3, <1>4 DEF Next

(* As long as at most two of the values that a finished directory compares *)
(* with each other (its files, their metrics, their hashes) are replaced,  *)
(* with or without the digest, every call that returns evidence returns    *)
(* the same evidence: that of the one execution that was published.  Three *)
(* replacements that agree are a consistent directory, so that the bound   *)
(* is what _load_selected can tell and not a bound of the model.           *)
THEOREM AnswersAgree == ASSUME MaxEdits <= 2 PROVE Spec => []OneAnswer
<1>1. PathInv /\ AnswerInv => OneAnswer
  <2> SUFFICES ASSUME PathInv, AnswerInv PROVE OneAnswer
    OBVIOUS
  <2>1. \A g \in given : /\ g.dir \in Cached /\ g.dir \in Dirs
                         /\ g = Evidence(g.dir) /\ dir[g.dir].covered
    BY DEF AnswerInv, GivenOK, SummaryOK, Cached, Output
  <2>2. GivenIsGenuine
    BY <2>1 DEF GivenIsGenuine, Evidence
  <2>3. \A g, h \in given : g.dir = h.dir
    BY <2>1 DEF PathInv, TypeOK, Cached
  <2>4. \A g, h \in given : g = h
    BY <2>1, <2>3
  <2> QED BY <2>2, <2>4 DEF OneAnswer
<1>2. Spec => []ArchiveKnows
  BY KnowsInvariant
<1>3. Spec => []AnswerInv
  BY <1>2, AnswerInit, AnswerPreserves, PathInvariant, PTL DEF Spec
<1> QED BY <1>1, <1>3, PathInvariant, PTL

-----------------------------------------------------------------------------
(* The research console.                                                   *)
Contents == Versions \cup {Absent, Torn}
Registrations ==
    [status : {"queued", "running", "completed", "failed", "interrupted"},
     recipe : Versions]
AtWork == {"check", "request", "write", "spawn", "wait", "load"}
Threads == [pc : {"gone", "dead", "claim"}] \cup [pc : AtWork, study : Studies]
Requesting == [pc : {"save", "submit"}, study : Studies, recipe : Versions]
Processes == [study : Studies, expected : Versions, recipe : Contents, own : BOOLEAN]
Servers == {"up", "closing", "joining", "closed", "left", "killed"}

ConsoleShape ==
    /\ recipes \in [Studies -> Contents] /\ requests \in [Studies -> Contents]
    /\ studies \in [Studies -> Contents] /\ fileEdits \in Nat
    /\ jobs \in [Studies -> {NoJob} \cup Registrations]
    /\ server \in Servers /\ worker \in Threads
    /\ worker.pc # "gone" => Serving
    /\ calls \in [Callers -> {NoCall} \cup Requesting]
    /\ \A c \in Callers : calls[c] # NoCall <=> holder = c
    /\ children \subseteq Processes

\* What the holder of the mutation lock has seen is still so.
RequestsOK ==
    \A c \in Callers :
        /\ calls[c].pc = "save" => jobs[calls[c].study] = NoJob
        /\ calls[c].pc = "submit" /\ fileEdits = 0 =>
              recipes[calls[c].study] = calls[c].recipe

\* A process is started for what its job says; one of a server that lives is
\* waited for, and there is one.
ProcessesOK ==
    /\ \A x \in children :
          /\ jobs[x.study] # NoJob /\ x.expected = jobs[x.study].recipe
          /\ x.recipe \in {Absent, x.expected}
          /\ x.own => \/ Serving /\ WorkerAt("wait")
                      \/ server \in {"left", "killed"}
    /\ \A x, y \in children : x.own /\ y.own => x = y

\* The row that says running is the one the thread works on.
ThreadOK ==
    Serving =>
        \A s \in Studies :
            jobs[s].status = "running" <=> worker.pc \in AtWork /\ worker.study = s

ConsoleInv ==
    /\ ConsoleShape /\ RequestsOK /\ ProcessesOK /\ ThreadOK /\ RegisteredIsFrozen
-----------------------------------------------------------------------------
LEMMA ConsoleStarts == ConsoleInit => ConsoleInv
PROOF
  <1> SUFFICES ASSUME ConsoleInit PROVE ConsoleInv
    OBVIOUS
  <1>1. ConsoleShape
    BY ConsoleAssumption DEF ConsoleInit, ConsoleShape, Contents, Threads, Servers, Serving,
       NoCall
  <1>2. RequestsOK /\ ProcessesOK /\ ThreadOK /\ RegisteredIsFrozen
    BY DEF ConsoleInit, RequestsOK, ProcessesOK, ThreadOK, RegisteredIsFrozen,
           Serving, NoCall
  <1> QED
    BY <1>1, <1>2 DEF ConsoleInv

\* What the rows and the files of the requests in flight are.
LEMMA RowsAre ==
    ASSUME ConsoleShape, NEW s \in Studies
    PROVE  /\ jobs[s] = NoJob \/ jobs[s] \in Registrations
           /\ jobs[s] # NoJob => jobs[s].recipe \in Versions /\ jobs[s].status # "none"
           /\ recipes[s] \in Contents /\ requests[s] \in Contents
           /\ studies[s] \in Contents
BY DEF ConsoleShape, Registrations, NoJob

LEMMA ContentsAre ==
    /\ Absent \notin Versions /\ Torn \notin Versions /\ Absent # Torn
    /\ Versions \subseteq Nat
PROOF
  <1>1. Cardinality(Versions) \in Nat
    BY ConsoleAssumption, FS_CardinalityType
  <1> QED
    BY <1>1, ConsoleAssumption DEF Absent, Torn

LEMMA CallIs ==
    ASSUME ConsoleShape, NEW c \in Callers, calls[c].pc \in {"save", "submit"}
    PROVE  /\ calls[c] \in Requesting /\ holder = c /\ calls[c] # NoCall
           /\ calls[c].study \in Studies /\ calls[c].recipe \in Versions
           /\ \A d \in Callers \ {c} : calls[d] = NoCall
PROOF
  <1>1. calls[c] # NoCall /\ calls[c] \in Requesting
    BY DEF ConsoleShape, NoCall
  <1>2. holder = c /\ \A d \in Callers \ {c} : calls[d] = NoCall
    BY <1>1 DEF ConsoleShape
  <1> QED
    BY <1>1, <1>2 DEF Requesting

\* The thread at work: its study has the row that is running.
LEMMA ThreadIs ==
    ASSUME ConsoleInv, worker.pc \in AtWork
    PROVE  /\ worker \in [pc : AtWork, study : Studies] /\ worker.study \in Studies
           /\ Serving /\ Job = jobs[worker.study] /\ Job.status = "running"
           /\ Job \in Registrations /\ Job # NoJob /\ Job.recipe \in Versions
           /\ \A s \in Studies \ {worker.study} : jobs[s].status # "running"
PROOF
  <1>1. worker \in [pc : AtWork, study : Studies]
    BY DEF ConsoleInv, ConsoleShape, Threads, AtWork
  <1>2. Serving /\ worker.study \in Studies
    BY <1>1 DEF ConsoleInv, ConsoleShape, AtWork
  <1>3. Job.status = "running"
        /\ \A s \in Studies \ {worker.study} : jobs[s].status # "running"
    BY <1>1, <1>2 DEF ConsoleInv, ThreadOK, Job
  <1>4. Job # NoJob
    BY <1>3 DEF NoJob
  <1> QED
    BY <1>1, <1>2, <1>3, <1>4, RowsAre DEF ConsoleInv, Job
-----------------------------------------------------------------------------
(* Steps that leave the rows, the thread and its processes alone.          *)

LEMMA Untouched ==
    ASSUME ConsoleInv, UNCHANGED <<jobs, worker, children>>,
           server' = server \/ (Serving /\ Serving' /\ server' \in Servers)
    PROVE  ProcessesOK' /\ ThreadOK'
PROOF
  <1>1. ProcessesOK'
    BY DEF ConsoleInv, ProcessesOK, Serving, Servers, WorkerAt
  <1>2. ThreadOK'
    BY DEF ConsoleInv, ThreadOK, Serving
  <1> QED
    BY <1>1, <1>2
\* A row keeps the recipe it was registered with.
RowsStand ==
    \A s \in Studies : /\ jobs'[s] = NoJob <=> jobs[s] = NoJob
                       /\ jobs[s] # NoJob => jobs'[s].recipe = jobs[s].recipe

LEMMA CallsStand ==
    ASSUME ConsoleInv, RowsStand, UNCHANGED <<recipes, calls>>,
           fileEdits' = 0 => fileEdits = 0
    PROVE  RequestsOK' /\ RegisteredIsFrozen'
PROOF
  <1>1. ASSUME NEW c \in Callers
        PROVE  /\ calls'[c].pc = "save" => jobs'[calls'[c].study] = NoJob
               /\ calls'[c].pc = "submit" /\ fileEdits' = 0 =>
                     recipes'[calls'[c].study] = calls'[c].recipe
    BY <1>1, CallIs DEF ConsoleInv, RequestsOK, RowsStand
  <1>2. RegisteredIsFrozen'
    BY DEF ConsoleInv, RegisteredIsFrozen, RowsStand
  <1> QED
    BY <1>1, <1>2 DEF RequestsOK

\* The thread goes on with its study, or is done with it.
LEMMA ThreadGoesOn ==
    ASSUME ConsoleInv, worker.pc \in AtWork, NEW next \in AtWork, GoOn(next),
           UNCHANGED <<server, holder, calls, recipes, fileEdits>>,
           requests' \in [Studies -> Contents], studies' \in [Studies -> Contents],
           children' \subseteq Processes
    PROVE  /\ ConsoleShape' /\ RequestsOK' /\ ThreadOK' /\ RegisteredIsFrozen'
           /\ RowsStand /\ worker'.pc = next /\ worker'.study = worker.study
           /\ UNCHANGED jobs
PROOF
  <1>1. /\ worker' \in [pc : AtWork, study : Studies] /\ worker'.pc = next
        /\ worker'.study = worker.study /\ UNCHANGED jobs /\ Serving
    BY ThreadIs DEF GoOn
  <1>2. ConsoleShape'
    BY <1>1 DEF ConsoleInv, ConsoleShape, Threads, Serving
  <1>3. RowsStand
    BY <1>1 DEF RowsStand
  <1>4. ThreadOK'
    BY <1>1 DEF ConsoleInv, ThreadOK, Serving
  <1> QED
    BY <1>1, <1>2, <1>3, <1>4, CallsStand

LEMMA ThreadIsDone ==
    ASSUME ConsoleInv, worker.pc \in AtWork, NEW status \in {"failed", "completed"},
           NEW next \in {"claim", "dead"}, Ends(status, next),
           server' = server \/ (Serving /\ Serving' /\ server' \in Servers),
           UNCHANGED <<holder, calls, recipes, fileEdits>>,
           requests' \in [Studies -> Contents], studies' \in [Studies -> Contents],
           children' \subseteq Processes
    PROVE  /\ ConsoleShape' /\ RequestsOK' /\ ThreadOK' /\ RegisteredIsFrozen'
           /\ RowsStand
PROOF
  <1>1. /\ worker' \in [pc : {"gone", "dead", "claim"}] /\ worker'.pc \notin AtWork
        /\ jobs' = [jobs EXCEPT ![worker.study].status = status]
    BY DEF Ends, AtWork
  <1>2. /\ jobs \in [Studies -> {NoJob} \cup Registrations] /\ worker.study \in Studies
        /\ jobs[worker.study] \in Registrations /\ jobs[worker.study] # NoJob
        /\ Serving
    BY ThreadIs DEF ConsoleInv, ConsoleShape
  <1>3. /\ jobs'[worker.study] \in Registrations
        /\ jobs'[worker.study].status = status
        /\ jobs'[worker.study].recipe = jobs[worker.study].recipe
        /\ \A s \in Studies \ {worker.study} : jobs'[s] = jobs[s]
        /\ jobs' \in [Studies -> {NoJob} \cup Registrations]
    BY <1>1, <1>2 DEF Registrations
  <1>4. jobs'[worker.study] # NoJob
    BY <1>3 DEF NoJob
  <1>5. ConsoleShape'
    BY <1>1, <1>2, <1>3 DEF ConsoleInv, ConsoleShape, Threads, Serving, Servers
  <1>6. RowsStand
    BY <1>2, <1>3, <1>4 DEF RowsStand
  <1>7. ThreadOK'
    BY <1>1, <1>3, ThreadIs DEF ThreadOK
  <1> QED
    BY <1>5, <1>6, <1>7, CallsStand

\* Processes whose rows stand, when the thread is not where it waits.
LEMMA ProcessesStand ==
    ASSUME ConsoleInv, RowsStand, children' \subseteq children,
           \A x \in children' : x.own =>
              \/ Serving' /\ WorkerAt("wait")'
              \/ server' \in {"left", "killed"}
    PROVE  ProcessesOK'
PROOF
  <1>1. \A x \in children : x.study \in Studies
    BY DEF ConsoleInv, ConsoleShape, Processes
  <1> QED
    BY <1>1 DEF ConsoleInv, ProcessesOK, RowsStand

\* While a server lives and its thread does not wait, no process is its own.
LEMMA NobodyWaitedFor ==
    ASSUME ConsoleInv, Serving, ~WorkerAt("wait"), NEW x \in children
    PROVE  ~x.own
BY DEF ConsoleInv, ProcessesOK, Serving
-----------------------------------------------------------------------------
(* The callers.                                                            *)

LEMMA CallEnters ==
    ASSUME ConsoleInv, NEW c \in Callers, NEW asked \in Requesting, Enter(c, asked),
           asked.pc = "save" => jobs[asked.study] = NoJob,
           asked.pc = "submit" => recipes[asked.study] = asked.recipe,
           UNCHANGED <<files, table, server, worker, children, fileEdits>>
    PROVE  ConsoleInv'
PROOF
  <1>1. /\ calls \in [Callers -> {NoCall} \cup Requesting] /\ NoCaller \notin Callers
        /\ \A d \in Callers : calls[d] # NoCall <=> holder = d
        /\ asked # NoCall /\ holder = NoCaller /\ holder' = c
        /\ calls' = [calls EXCEPT ![c] = asked]
    BY ConsoleAssumption DEF ConsoleInv, ConsoleShape, Enter, Requesting, NoCall
  <1>2. /\ calls' \in [Callers -> {NoCall} \cup Requesting] /\ calls'[c] = asked
        /\ \A d \in Callers \ {c} : calls'[d] = NoCall
    BY <1>1
  <1>3. ConsoleShape'
    BY <1>1, <1>2 DEF ConsoleInv, ConsoleShape, files, table, Serving
  <1>4. RequestsOK'
    BY <1>2 DEF RequestsOK, files, table, NoCall
  <1>5. ProcessesOK' /\ ThreadOK'
    BY Untouched DEF table
  <1>6. RegisteredIsFrozen'
    BY DEF ConsoleInv, RegisteredIsFrozen, files, table
  <1> QED
    BY <1>3, <1>4, <1>5, <1>6 DEF ConsoleInv

LEMMA SaveChecks ==
    ASSUME ConsoleInv, NEW c \in Callers, NEW s \in Studies, NEW v \in Versions,
           SaveCheck(c, s, v)
    PROVE  ConsoleInv'
PROOF
  <1> DEFINE asked == [pc |-> "save", study |-> s, recipe |-> v]
  <1>1. asked \in Requesting /\ asked.pc = "save" /\ asked.study = s
    BY DEF Requesting
  <1> QED
    BY <1>1, CallEnters DEF SaveCheck, bounds

LEMMA CloneChecks ==
    ASSUME ConsoleInv, NEW c \in Callers, NEW t \in Studies, NEW s \in Studies,
           Clone(c, t, s)
    PROVE  ConsoleInv'
BY SaveChecks DEF Clone

LEMMA SubmitLoads ==
    ASSUME ConsoleInv, NEW c \in Callers, NEW s \in Studies, SubmitLoad(c, s)
    PROVE  ConsoleInv'
PROOF
  <1> DEFINE asked == [pc |-> "submit", study |-> s, recipe |-> recipes[s]]
  <1>1. asked \in Requesting /\ asked.pc = "submit" /\ asked.study = s
        /\ asked.recipe = recipes[s]
    BY DEF Requesting, SubmitLoad
  <1> QED
    BY <1>1, CallEnters DEF SubmitLoad

\* The request is answered and its lock is free.
LEMMA CallLeaves ==
    ASSUME ConsoleInv, NEW c \in Callers, calls[c].pc \in {"save", "submit"}, Leave(c)
    PROVE  /\ calls' \in [Callers -> {NoCall} \cup Requesting]
           /\ \A d \in Callers : calls'[d] = NoCall /\ holder' # d
PROOF
  <1>1. calls \in [Callers -> {NoCall} \cup Requesting] /\ NoCaller \notin Callers
    BY ConsoleAssumption DEF ConsoleInv, ConsoleShape
  <1>2. \A d \in Callers \ {c} : calls[d] = NoCall
    BY CallIs DEF ConsoleInv
  <1> QED
    BY <1>1, <1>2 DEF Leave

LEMMA SaveKeeps ==
    ASSUME ConsoleInv, NEW c \in Callers, Save(c)
    PROVE  ConsoleInv'
PROOF
  <1>1. /\ calls[c].study \in Studies /\ calls[c].recipe \in Versions
        /\ jobs[calls[c].study] = NoJob
        /\ recipes' = [recipes EXCEPT ![calls[c].study] = calls[c].recipe]
        /\ UNCHANGED <<requests, studies, jobs, server, worker, children, fileEdits>>
    BY CallIs DEF ConsoleInv, Save, RequestsOK, table, bounds
  <1>2. /\ calls' \in [Callers -> {NoCall} \cup Requesting]
        /\ \A d \in Callers : calls'[d] = NoCall /\ holder' # d
    BY CallLeaves DEF Save
  <1>3. recipes \in [Studies -> Contents]
    BY DEF ConsoleInv, ConsoleShape
  <1>4. recipes' \in [Studies -> Contents]
        /\ \A s \in Studies \ {calls[c].study} : recipes'[s] = recipes[s]
    BY <1>1, <1>3 DEF Contents
  <1>5. ConsoleShape'
    BY <1>1, <1>2, <1>4 DEF ConsoleInv, ConsoleShape, Serving
  <1>6. RequestsOK'
    BY <1>2 DEF RequestsOK, NoCall
  <1>7. ProcessesOK' /\ ThreadOK'
    BY <1>1, Untouched
  <1>8. RegisteredIsFrozen'
    BY <1>1, <1>4 DEF ConsoleInv, RegisteredIsFrozen
  <1> QED
    BY <1>5, <1>6, <1>7, <1>8 DEF ConsoleInv

LEMMA SubmitKeeps ==
    ASSUME ConsoleInv, NEW c \in Callers, Submit(c)
    PROVE  ConsoleInv'
PROOF
  <1> DEFINE s == calls[c].study
  <1>1. /\ calls[c].pc = "submit" /\ s \in Studies /\ calls[c].recipe \in Versions
        /\ fileEdits = 0 => recipes[s] = calls[c].recipe
        /\ UNCHANGED <<recipes, requests, studies, server, worker, children, fileEdits>>
    BY CallIs DEF ConsoleInv, Submit, RequestsOK, files, bounds
  <1>2. /\ calls' \in [Callers -> {NoCall} \cup Requesting]
        /\ \A d \in Callers : calls'[d] = NoCall /\ holder' # d
    BY CallLeaves DEF Submit
  <1>3. /\ jobs \in [Studies -> {NoJob} \cup Registrations]
        /\ jobs[s] = NoJob \/ jobs[s] \in Registrations
        /\ jobs[s] # NoJob <=> jobs[s].status # "none"
    BY <1>1, RowsAre DEF ConsoleInv, ConsoleShape, NoJob
  <1>4. \/ /\ jobs[s] = NoJob
           /\ jobs' = [jobs EXCEPT ![s] =
                 [status |-> "queued", recipe |-> calls[c].recipe]]
        \/ /\ jobs[s].status \in {"failed", "interrupted"}
           /\ jobs' = [jobs EXCEPT ![s].status = "queued"]
        \/ UNCHANGED jobs
    BY DEF Submit, table
  <1>5. /\ jobs' \in [Studies -> {NoJob} \cup Registrations]
        /\ \A t \in Studies \ {s} : jobs'[t] = jobs[t]
        /\ jobs'[s].status # "running" <=> jobs[s].status # "running"
        /\ jobs[s] # NoJob => jobs'[s] # NoJob /\ jobs'[s].recipe = jobs[s].recipe
        /\ jobs[s] = NoJob /\ jobs'[s] # NoJob =>
              jobs'[s].recipe = calls[c].recipe
    <2>1. CASE /\ jobs[s] = NoJob
               /\ jobs' = [jobs EXCEPT ![s] =
                     [status |-> "queued", recipe |-> calls[c].recipe]]
      BY <1>1, <1>3, <2>1 DEF NoJob, Registrations
    <2>2. CASE /\ jobs[s].status \in {"failed", "interrupted"}
               /\ jobs' = [jobs EXCEPT ![s].status = "queued"]
      BY <1>1, <1>3, <2>2 DEF NoJob, Registrations
    <2>3. CASE UNCHANGED jobs
      BY <1>1, <1>3, <2>3
    <2> QED
      BY <1>4, <2>1, <2>2, <2>3
  <1> HIDE DEF s
  <1>6. ConsoleShape'
    BY <1>1, <1>2, <1>5 DEF ConsoleInv, ConsoleShape, Serving
  <1>7. RequestsOK'
    BY <1>2 DEF RequestsOK, NoCall
  <1>8. ThreadOK'
    BY <1>1, <1>5 DEF ConsoleInv, ThreadOK, Serving
  <1>9. ProcessesOK'
    <2>1. \A x \in children : x.study \in Studies
      BY DEF ConsoleInv, ConsoleShape, Processes
    <2> QED
      BY <1>1, <1>5, <2>1 DEF ConsoleInv, ProcessesOK, Serving, WorkerAt
  <1>10. RegisteredIsFrozen'
    BY <1>1, <1>5 DEF ConsoleInv, RegisteredIsFrozen
  <1> QED
    BY <1>6, <1>7, <1>8, <1>9, <1>10 DEF ConsoleInv
-----------------------------------------------------------------------------
(* The worker thread.                                                      *)

LEMMA ClaimKeeps ==
    ASSUME ConsoleInv, Claim
    PROVE  ConsoleInv'
PROOF
  <1>1. PICK s \in Studies :
           /\ jobs[s].status = "queued"
           /\ jobs' = [jobs EXCEPT ![s].status = "running"]
           /\ worker' = [pc |-> "check", study |-> s]
    BY DEF Claim
  <1>2. /\ WorkerAt("claim") /\ Serving
        /\ UNCHANGED <<recipes, requests, studies, server, holder, calls, children, fileEdits>>
    BY DEF Claim, files, bounds, Serving
  <1>3. jobs \in [Studies -> {NoJob} \cup Registrations] /\ jobs[s] \in Registrations
    BY <1>1, RowsAre DEF ConsoleInv, ConsoleShape, NoJob
  <1>4. /\ jobs' \in [Studies -> {NoJob} \cup Registrations]
        /\ jobs'[s].status = "running" /\ jobs'[s].recipe = jobs[s].recipe
        /\ \A t \in Studies \ {s} : jobs'[t] = jobs[t]
    BY <1>1, <1>3 DEF Registrations
  <1>5. RowsStand
    BY <1>1, <1>4 DEF RowsStand, NoJob
  <1>6. /\ worker' \in [pc : AtWork, study : Studies] /\ worker'.pc = "check"
        /\ worker'.study = s /\ worker'.pc \in AtWork
    BY <1>1 DEF AtWork
  <1>7. ConsoleShape'
    BY <1>2, <1>4, <1>6 DEF ConsoleInv, ConsoleShape, Threads, Serving
  <1>8. RequestsOK' /\ RegisteredIsFrozen'
    BY <1>2, <1>5, CallsStand
  <1>9. \A t \in Studies : jobs[t].status # "running"
    BY <1>2 DEF ConsoleInv, ThreadOK, WorkerAt, AtWork
  <1>10. ThreadOK'
    BY <1>4, <1>6, <1>9 DEF ThreadOK
  <1>11. ProcessesOK'
    BY <1>2, <1>5, NobodyWaitedFor, ProcessesStand DEF WorkerAt
  <1> QED
    BY <1>7, <1>8, <1>10, <1>11 DEF ConsoleInv

LEMMA StopKeeps ==
    ASSUME ConsoleInv, StopWorking
    PROVE  ConsoleInv'
PROOF
  <1>1. /\ WorkerAt("claim") /\ worker' = [pc |-> "gone"]
        /\ UNCHANGED <<recipes, requests, studies, jobs, server, holder, calls,
                       children, fileEdits>>
    BY DEF StopWorking, files, table, bounds
  <1>2. worker' \in Threads /\ worker'.pc = "gone"
    BY <1>1 DEF Threads
  <1>3. Serving
    BY <1>1 DEF ConsoleInv, ConsoleShape, WorkerAt
  <1>4. ConsoleShape'
    BY <1>1, <1>2 DEF ConsoleInv, ConsoleShape, Serving
  <1>5. RowsStand
    BY <1>1 DEF RowsStand
  <1>6. RequestsOK' /\ RegisteredIsFrozen'
    BY <1>1, <1>5, CallsStand
  <1>7. ThreadOK'
    BY <1>1, <1>2, <1>3 DEF ConsoleInv, ThreadOK, WorkerAt, AtWork
  <1>8. ProcessesOK'
    BY <1>1, <1>3, <1>5, NobodyWaitedFor, ProcessesStand DEF WorkerAt
  <1> QED
    BY <1>4, <1>6, <1>7, <1>8 DEF ConsoleInv

\* What loading a file leads to.
LEMMA LoadingIs ==
    ASSUME NEW file, NEW next, LoadsFile(file, next)
    PROVE  GoOn(next) \/ \E n \in {"claim", "dead"} : Ends("failed", n)
BY DEF LoadsFile

\* A step of the thread that is not waiting and starts no process.
LEMMA ThreadMoves ==
    ASSUME ConsoleInv, worker.pc \in AtWork \ {"wait"},
           \/ \E next \in AtWork \ {"wait"} : GoOn(next)
           \/ \E status \in {"failed", "completed"}, next \in {"claim", "dead"} :
                 Ends(status, next),
           UNCHANGED <<recipes, studies, server, holder, calls, children, fileEdits>>,
           requests' \in [Studies -> Contents]
    PROVE  ConsoleInv'
PROOF
  <1>1. studies' \in [Studies -> Contents] /\ children' \subseteq Processes
    BY DEF ConsoleInv, ConsoleShape
  <1>2. Serving /\ ~WorkerAt("wait")
    BY ThreadIs DEF WorkerAt
  <1>3. ConsoleShape' /\ RequestsOK' /\ ThreadOK' /\ RegisteredIsFrozen' /\ RowsStand
    <2>1. CASE \E next \in AtWork \ {"wait"} : GoOn(next)
      BY <1>1, <2>1, ThreadGoesOn
    <2>2. CASE \E status \in {"failed", "completed"}, next \in {"claim", "dead"} :
                  Ends(status, next)
      BY <1>1, <2>2, ThreadIsDone
    <2> QED
      BY <2>1, <2>2
  <1>4. ProcessesOK'
    BY <1>2, <1>3, NobodyWaitedFor, ProcessesStand
  <1> QED
    BY <1>3, <1>4 DEF ConsoleInv

LEMMA CheckKeeps ==
    ASSUME ConsoleInv, CheckRecipe
    PROVE  ConsoleInv'
PROOF
  <1>1. /\ worker.pc \in AtWork \ {"wait"} /\ requests' \in [Studies -> Contents]
        /\ UNCHANGED <<recipes, studies, server, holder, calls, children, fileEdits>>
    BY DEF CheckRecipe, WorkerAt, AtWork, files, bounds, ConsoleInv, ConsoleShape
  <1>2. GoOn("request") \/ \E n \in {"claim", "dead"} : Ends("failed", n)
    BY LoadingIs DEF CheckRecipe
  <1> QED
    BY <1>1, <1>2, ThreadMoves DEF AtWork

LEMMA RequestKeeps ==
    ASSUME ConsoleInv, Request
    PROVE  ConsoleInv'
PROOF
  <1>1. /\ worker.pc \in AtWork \ {"wait"} /\ worker.study \in Studies
        /\ UNCHANGED <<recipes, studies, server, holder, calls, children, fileEdits>>
    BY ThreadIs DEF Request, WorkerAt, AtWork, bounds
  <1>2. requests' \in [Studies -> Contents]
    BY <1>1 DEF Request, ConsoleInv, ConsoleShape, Contents
  <1>3. \/ GoOn("write") \/ GoOn("spawn")
        \/ \E n \in {"claim", "dead"} : Ends("failed", n)
    BY LoadingIs DEF Request
  <1> QED
    BY <1>1, <1>2, <1>3, ThreadMoves DEF AtWork

LEMMA WriteKeeps ==
    ASSUME ConsoleInv, Write
    PROVE  ConsoleInv'
PROOF
  <1>1. /\ worker.pc \in AtWork \ {"wait"}
        /\ UNCHANGED <<recipes, studies, server, holder, calls, children, fileEdits>>
    BY DEF Write, WorkerAt, AtWork, bounds
  <1>2. worker.study \in Studies /\ Job.recipe \in Versions
    BY <1>1, ThreadIs
  <1>3. requests' \in [Studies -> Contents]
    BY <1>2 DEF Write, ConsoleInv, ConsoleShape, Contents
  <1> QED
    BY <1>1, <1>3, ThreadMoves DEF Write, AtWork

LEMMA WriteFailKeeps ==
    ASSUME ConsoleInv, WriteFails
    PROVE  ConsoleInv'
PROOF
  <1>1. /\ worker.pc \in AtWork \ {"wait"} /\ requests' \in [Studies -> Contents]
        /\ UNCHANGED <<recipes, studies, server, holder, calls, children, fileEdits>>
    BY DEF WriteFails, WorkerAt, AtWork, files, ConsoleInv, ConsoleShape
  <1> QED
    BY <1>1, ThreadMoves DEF WriteFails

LEMMA LoadKeeps ==
    ASSUME ConsoleInv, Load
    PROVE  ConsoleInv'
PROOF
  <1>1. /\ worker.pc \in AtWork \ {"wait"} /\ requests' \in [Studies -> Contents]
        /\ UNCHANGED <<recipes, studies, server, holder, calls, children, fileEdits>>
    BY DEF Load, WorkerAt, AtWork, files, bounds, ConsoleInv, ConsoleShape
  <1> QED
    BY <1>1, ThreadMoves DEF Load

LEMMA SpawnKeeps ==
    ASSUME ConsoleInv, Spawn
    PROVE  ConsoleInv'
PROOF
  <1>1. PICK m : m = Mine
    OBVIOUS
  <1>2. /\ WorkerAt("spawn") /\ GoOn("wait") /\ children' = children \cup {m}
        /\ worker.pc \in AtWork /\ "wait" \in AtWork
        /\ UNCHANGED <<recipes, requests, studies, server, holder, calls, fileEdits>>
    BY <1>1 DEF Spawn, WorkerAt, AtWork, files, bounds
  <1>3. /\ worker.study \in Studies /\ Job.recipe \in Versions /\ Job # NoJob
        /\ Job = jobs[worker.study] /\ Serving
    BY <1>2, ThreadIs
  <1>4. /\ m \in Processes /\ m.study = worker.study /\ m.expected = Job.recipe
        /\ m.recipe = Absent /\ m.own
    BY <1>1, <1>3 DEF Mine, Processes, Contents
  <1>5. /\ children' \subseteq Processes /\ requests' \in [Studies -> Contents]
        /\ studies' \in [Studies -> Contents]
    BY <1>2, <1>4 DEF ConsoleInv, ConsoleShape
  <1>6. /\ ConsoleShape' /\ RequestsOK' /\ ThreadOK' /\ RegisteredIsFrozen'
        /\ worker'.pc = "wait" /\ UNCHANGED jobs
    BY <1>2, <1>5, ThreadGoesOn
  <1>7. \A x \in children : ~x.own
    BY <1>2, <1>3, NobodyWaitedFor DEF WorkerAt
  <1>8. ProcessesOK'
    BY <1>2, <1>3, <1>4, <1>6, <1>7 DEF ConsoleInv, ProcessesOK, Serving, WorkerAt
  <1> QED
    BY <1>6, <1>8 DEF ConsoleInv
-----------------------------------------------------------------------------
(* The research processes.                                                 *)

LEMMA ChildStartsKeeps ==
    ASSUME ConsoleInv, NEW child \in children, ChildStarts(child)
    PROVE  ConsoleInv'
PROOF
  <1>1. PICK new : new = [child EXCEPT !.recipe = requests[child.study]]
    OBVIOUS
  <1>2. /\ child \in Processes /\ child.recipe = Absent
        /\ requests[child.study] = child.expected
        /\ children' = (children \ {child}) \cup {new}
        /\ UNCHANGED <<recipes, requests, studies, jobs, server, worker, holder,
                       calls, fileEdits>>
    BY <1>1 DEF ChildStarts, Accepts, files, table, bounds, ConsoleInv, ConsoleShape
  <1>3. /\ new \in Processes /\ new.study = child.study /\ new.own = child.own
        /\ new.expected = child.expected /\ new.recipe = child.expected
    BY <1>1, <1>2 DEF Processes, Contents
  <1>4. ConsoleShape'
    BY <1>2, <1>3 DEF ConsoleInv, ConsoleShape, Serving
  <1>5. RowsStand
    BY <1>2 DEF RowsStand
  <1>6. RequestsOK' /\ RegisteredIsFrozen'
    BY <1>2, <1>5, CallsStand
  <1>7. ThreadOK'
    BY <1>2 DEF ConsoleInv, ThreadOK, Serving
  <1>8. ProcessesOK'
    BY <1>2, <1>3 DEF ConsoleInv, ProcessesOK, Serving, WorkerAt
  <1> QED
    BY <1>4, <1>6, <1>7, <1>8 DEF ConsoleInv

LEMMA ChildAnswers ==
    ASSUME ConsoleInv, NEW child \in children, NEW code, Answers(child, code),
           children' = children \ {child}, studies' \in [Studies -> Contents],
           UNCHANGED <<recipes, requests, server, holder, calls, fileEdits>>
    PROVE  ConsoleInv'
PROOF
  <1>1. children' \subseteq Processes /\ requests' \in [Studies -> Contents]
    BY DEF ConsoleInv, ConsoleShape
  <1>2. CASE ~Own(child)
    <2>1. UNCHANGED <<jobs, worker>>
      BY <1>2 DEF Answers
    <2>2. ConsoleShape' /\ ThreadOK'
      BY <1>1, <2>1 DEF ConsoleInv, ConsoleShape, ThreadOK, Serving
    <2>3. RowsStand
      BY <2>1 DEF RowsStand
    <2>4. RequestsOK' /\ RegisteredIsFrozen'
      BY <2>3, CallsStand
    <2>5. ProcessesOK'
      BY <2>1 DEF ConsoleInv, ProcessesOK, Serving, WorkerAt
    <2> QED
      BY <2>2, <2>4, <2>5 DEF ConsoleInv
  <1>3. CASE Own(child)
    <2>1. worker.pc \in AtWork /\ child.own
      BY <1>3 DEF Own, WorkerAt, AtWork
    <2>2. \A x \in children' : ~x.own
      BY <2>1 DEF ConsoleInv, ProcessesOK
    <2>3. GoOn("load") \/ Ends("failed", "claim")
      BY <1>3 DEF Answers
    <2>4. ConsoleShape' /\ RequestsOK' /\ ThreadOK' /\ RegisteredIsFrozen' /\ RowsStand
      <3>1. CASE GoOn("load")
        BY <1>1, <2>1, <3>1, ThreadGoesOn DEF AtWork
      <3>2. CASE Ends("failed", "claim")
        BY <1>1, <2>1, <3>2, ThreadIsDone
      <3> QED
        BY <2>3, <3>1, <3>2
    <2>5. ProcessesOK'
      BY <2>2, <2>4, ProcessesStand
    <2> QED
      BY <2>4, <2>5 DEF ConsoleInv
  <1> QED
    BY <1>2, <1>3

LEMMA ChildRefusesKeeps ==
    ASSUME ConsoleInv, NEW child \in children, ChildRefuses(child)
    PROVE  ConsoleInv'
PROOF
  <1>1. studies' \in [Studies -> Contents]
        /\ UNCHANGED <<recipes, requests, server, holder, calls, fileEdits>>
    BY DEF ChildRefuses, files, bounds, ConsoleInv, ConsoleShape
  <1> QED
    BY <1>1, ChildAnswers DEF ChildRefuses

LEMMA ChildEndsKeeps ==
    ASSUME ConsoleInv, NEW child \in children, ChildEnds(child)
    PROVE  ConsoleInv'
PROOF
  <1>1. child.study \in Studies /\ child.recipe \in Contents
    BY DEF ConsoleInv, ConsoleShape, Processes
  <1>2. studies' \in [Studies -> Contents]
        /\ UNCHANGED <<recipes, requests, server, holder, calls, fileEdits>>
    BY <1>1 DEF ChildEnds, bounds, ConsoleInv, ConsoleShape
  <1>3. \E code \in {0, 2} : Answers(child, code)
    BY DEF ChildEnds
  <1> QED
    BY <1>2, <1>3, ChildAnswers DEF ChildEnds
-----------------------------------------------------------------------------
(* The server, and files edited by hand.                                   *)

LEMMA StartKeeps ==
    ASSUME ConsoleInv, Start
    PROVE  ConsoleInv'
PROOF
  <1>1. /\ ~Serving /\ Serving' /\ server' \in Servers /\ worker' \in Threads
        /\ worker'.pc = "claim"
        /\ UNCHANGED <<recipes, requests, studies, holder, calls, fileEdits>>
        /\ children' = {[child EXCEPT !.own = FALSE] : child \in children}
    BY DEF Start, Serving, Servers, Threads, files, bounds
  <1>2. \A s \in Studies :
           jobs'[s] = IF jobs[s].status = "running"
                      THEN [jobs[s] EXCEPT !.status = "interrupted"] ELSE jobs[s]
    BY DEF Start
  <1>3. ASSUME NEW s \in Studies
        PROVE  /\ jobs'[s] \in {NoJob} \cup Registrations
               /\ jobs'[s].status # "running"
               /\ jobs'[s] = NoJob <=> jobs[s] = NoJob
               /\ jobs[s] # NoJob => jobs'[s].recipe = jobs[s].recipe
    <2>1. CASE jobs[s].status = "running"
      <3>1. jobs[s] \in Registrations /\ jobs[s] # NoJob
        BY <2>1, RowsAre DEF ConsoleInv, NoJob
      <3>2. jobs'[s] = [jobs[s] EXCEPT !.status = "interrupted"]
        BY <1>2, <2>1
      <3> QED
        BY <3>1, <3>2 DEF Registrations, NoJob
    <2>2. CASE jobs[s].status # "running"
      BY <1>2, <2>2, RowsAre DEF ConsoleInv
    <2> QED
      BY <2>1, <2>2
  <1>4. jobs' \in [Studies -> {NoJob} \cup Registrations]
    BY <1>3 DEF Start
  <1>5. RowsStand
    BY <1>3 DEF RowsStand
  <1>6. \A x \in children' : \E y \in children :
           x \in Processes /\ ~x.own /\ x.study = y.study
           /\ x.expected = y.expected /\ x.recipe = y.recipe /\ y.study \in Studies
    <2> SUFFICES ASSUME NEW y \in children, NEW x, x = [y EXCEPT !.own = FALSE]
                 PROVE  /\ x \in Processes /\ ~x.own /\ x.study = y.study
                        /\ x.expected = y.expected /\ x.recipe = y.recipe
                        /\ y.study \in Studies
      BY <1>1
    <2>1. y \in Processes
      BY DEF ConsoleInv, ConsoleShape
    <2> QED
      BY <2>1 DEF Processes
  <1>7. ConsoleShape'
    BY <1>1, <1>4, <1>6 DEF ConsoleInv, ConsoleShape
  <1>8. RequestsOK' /\ RegisteredIsFrozen'
    BY <1>1, <1>5, CallsStand
  <1>9. ThreadOK'
    BY <1>1, <1>3 DEF ThreadOK, AtWork
  <1>10. ProcessesOK'
    <2>1. ASSUME NEW x \in children'
          PROVE  /\ jobs'[x.study] # NoJob /\ x.expected = jobs'[x.study].recipe
                 /\ x.recipe \in {Absent, x.expected} /\ ~x.own
      <3>1. PICK y \in children :
               ~x.own /\ x.study = y.study /\ x.expected = y.expected
               /\ x.recipe = y.recipe /\ y.study \in Studies
        BY <1>6
      <3> QED
        BY <1>5, <3>1 DEF ConsoleInv, ProcessesOK, RowsStand
    <2> QED
      BY <2>1 DEF ProcessesOK
  <1> QED
    BY <1>7, <1>8, <1>9, <1>10 DEF ConsoleInv

LEMMA CloseKeeps ==
    ASSUME ConsoleInv, Close
    PROVE  ConsoleInv'
PROOF
  <1>1. /\ Serving /\ Serving' /\ server' \in Servers
        /\ UNCHANGED <<recipes, requests, studies, jobs, worker, holder, calls,
                       children, fileEdits>>
    BY DEF Close, Serving, Servers, files, table
  <1>2. ConsoleShape'
    BY <1>1 DEF ConsoleInv, ConsoleShape
  <1>3. RowsStand
    BY <1>1 DEF RowsStand
  <1>4. RequestsOK' /\ RegisteredIsFrozen'
    BY <1>1, <1>3, CallsStand
  <1>5. ProcessesOK' /\ ThreadOK'
    BY <1>1, Untouched
  <1> QED
    BY <1>2, <1>4, <1>5 DEF ConsoleInv

LEMMA TerminateKeeps ==
    ASSUME ConsoleInv, Terminate
    PROVE  ConsoleInv'
PROOF
  <1>1. /\ Serving /\ Serving' /\ server' \in Servers
        /\ UNCHANGED <<recipes, requests, studies, holder, calls, fileEdits>>
        /\ children' = {child \in children : ~child.own}
    BY DEF Terminate, Serving, Servers, files, bounds
  <1>2. /\ children' \subseteq Processes /\ requests' \in [Studies -> Contents]
        /\ studies' \in [Studies -> Contents]
    BY <1>1 DEF ConsoleInv, ConsoleShape
  <1>3. ConsoleShape' /\ RequestsOK' /\ ThreadOK' /\ RegisteredIsFrozen' /\ RowsStand
    <2>1. CASE WorkerAt("wait")
      <3>1. Ends("failed", "claim") /\ worker.pc \in AtWork
        BY <2>1 DEF Terminate, WorkerAt, AtWork
      <3> QED
        BY <1>1, <1>2, <3>1, ThreadIsDone
    <2>2. CASE ~WorkerAt("wait")
      <3>1. UNCHANGED <<jobs, worker>>
        BY <2>2 DEF Terminate
      <3>2. ConsoleShape' /\ ThreadOK'
        BY <1>1, <1>2, <3>1 DEF ConsoleInv, ConsoleShape, ThreadOK
      <3>3. RowsStand
        BY <3>1 DEF RowsStand
      <3> QED
        BY <1>1, <3>2, <3>3, CallsStand
    <2> QED
      BY <2>1, <2>2
  <1>4. ProcessesOK'
    BY <1>1, <1>3, ProcessesStand
  <1> QED
    BY <1>3, <1>4 DEF ConsoleInv

\* A server that ends: closed only once its thread has gone.
LEMMA DownKeeps ==
    ASSUME ConsoleInv, Serving, NEW how \in {"closed", "left", "killed"}, Down(how),
           how = "closed" => ~WorkerAt("wait"), UNCHANGED <<children, fileEdits>>
    PROVE  ConsoleInv'
PROOF
  <1>1. /\ ~Serving' /\ server' = how /\ server' \in Servers
        /\ worker' \in Threads /\ worker'.pc = "gone"
        /\ UNCHANGED <<recipes, requests, studies, jobs, children, fileEdits>>
        /\ calls' \in [Callers -> {NoCall} \cup Requesting]
        /\ \A d \in Callers : calls'[d] = NoCall /\ holder' # d
    BY ConsoleAssumption DEF Down, Serving, Servers, Threads, files, table
  <1>2. ConsoleShape'
    BY <1>1 DEF ConsoleInv, ConsoleShape
  <1>3. RequestsOK'
    BY <1>1 DEF RequestsOK, NoCall
  <1>4. RegisteredIsFrozen' /\ ThreadOK'
    BY <1>1 DEF ConsoleInv, RegisteredIsFrozen, ThreadOK
  <1>5. RowsStand
    BY <1>1 DEF RowsStand
  <1>6. \A x \in children' : x.own => server' \in {"left", "killed"}
    BY <1>1, NobodyWaitedFor
  <1>7. ProcessesOK'
    BY <1>1, <1>5, <1>6, ProcessesStand
  <1> QED
    BY <1>2, <1>3, <1>4, <1>7 DEF ConsoleInv

LEMMA EndKeeps ==
    ASSUME ConsoleInv, Closed \/ CloseFails \/ KillServer
    PROVE  ConsoleInv'
PROOF
  <1>1. CASE Closed
    BY <1>1, DownKeeps DEF Closed, Joined, Serving, WorkerAt, bounds
  <1>2. CASE CloseFails
    BY <1>2, DownKeeps DEF CloseFails, Serving, bounds
  <1>3. CASE KillServer
    BY <1>3, DownKeeps DEF KillServer
  <1> QED
    BY <1>1, <1>2, <1>3

LEMMA EditKeeps ==
    ASSUME ConsoleInv, NEW s \in Studies, EditByHand(s)
    PROVE  ConsoleInv'
PROOF
  <1>1. /\ fileEdits \in Nat /\ fileEdits' = fileEdits + 1
        /\ UNCHANGED <<jobs, server, worker, holder, calls, children>>
    BY DEF EditByHand, table, ConsoleInv, ConsoleShape
  <1>2. fileEdits' \in Nat /\ fileEdits' # 0
    BY <1>1
  <1>3. /\ recipes' \in [Studies -> Contents] /\ requests' \in [Studies -> Contents]
        /\ studies' \in [Studies -> Contents]
    BY DEF EditByHand, ConsoleInv, ConsoleShape, Contents
  <1>4. ConsoleShape'
    BY <1>1, <1>2, <1>3 DEF ConsoleInv, ConsoleShape, Serving
  <1>5. RequestsOK' /\ RegisteredIsFrozen'
    BY <1>1, <1>2 DEF ConsoleInv, RequestsOK, RegisteredIsFrozen
  <1>6. ProcessesOK' /\ ThreadOK'
    BY <1>1, Untouched
  <1> QED
    BY <1>4, <1>5, <1>6 DEF ConsoleInv

LEMMA ConsoleKeeps == ConsoleInv /\ [ConsoleNext]_consoleVars => ConsoleInv'
PROOF
  <1> SUFFICES ASSUME ConsoleInv, [ConsoleNext]_consoleVars
               PROVE  ConsoleInv'
    OBVIOUS
  <1>1. CASE Start \/ Close \/ Terminate \/ Closed \/ CloseFails \/ KillServer
    BY <1>1, StartKeeps, CloseKeeps, TerminateKeeps, EndKeeps
  <1>2. CASE WorkerStep \/ WriteFails
    BY <1>2, ClaimKeeps, StopKeeps, CheckKeeps, RequestKeeps, WriteKeeps, SpawnKeeps,
       LoadKeeps, WriteFailKeeps DEF WorkerStep
  <1>3. CASE Child
    BY <1>3, ChildStartsKeeps, ChildRefusesKeeps, ChildEndsKeeps DEF Child
  <1>4. CASE \E s \in Studies : EditByHand(s)
    BY <1>4, EditKeeps
  <1>5. CASE \E c \in Callers : Call(c)
    BY <1>5, SaveKeeps, SubmitKeeps DEF Call
  <1>6. CASE \E c \in Callers, s \in Studies : SubmitLoad(c, s)
    BY <1>6, SubmitLoads
  <1>7. CASE \E c \in Callers, s \in Studies, v \in Versions : SaveCheck(c, s, v)
    BY <1>7, SaveChecks
  <1>8. CASE \E c \in Callers, s \in Studies, t \in Studies : Clone(c, t, s)
    BY <1>8, CloneChecks
  <1>9. CASE UNCHANGED consoleVars
    <2>1. UNCHANGED <<recipes, requests, studies, jobs, server, worker, holder, calls,
                      children, fileEdits>>
      BY <1>9 DEF consoleVars, files, table, bounds
    <2>2. ConsoleShape' /\ RequestsOK' /\ RegisteredIsFrozen'
      BY <2>1 DEF ConsoleInv, ConsoleShape, Serving, RequestsOK, RegisteredIsFrozen
    <2>3. ProcessesOK' /\ ThreadOK'
      BY <2>1, Untouched
    <2> QED
      BY <2>2, <2>3 DEF ConsoleInv
  <1> QED
    BY <1>1, <1>2, <1>3, <1>4, <1>5, <1>6, <1>7, <1>8, <1>9 DEF ConsoleNext

LEMMA ConsoleInvariant == ConsoleSpec => []ConsoleInv
PROOF
  <1> QED
    BY ConsoleStarts, ConsoleKeeps, PTL DEF ConsoleSpec
-----------------------------------------------------------------------------
\* How a row comes to be queued again or for the first time, and to be
\* completed.
LEMMA StatusChanges ==
    ASSUME ConsoleInv, [ConsoleNext]_consoleVars, NEW s \in Studies,
           jobs'[s].status # jobs[s].status
    PROVE  /\ jobs'[s].status = "queued" =>
                 \E c \in Callers : calls[c].pc = "submit" /\ calls[c].study = s
           /\ jobs'[s].status = "completed" => studies[s] = jobs[s].recipe
PROOF
  <1>1. jobs \in [Studies -> {NoJob} \cup Registrations] /\ ~UNCHANGED jobs
    BY DEF ConsoleInv, ConsoleShape
  <1>2. ASSUME NEW status, NEW next, Ends(status, next), worker.pc \in AtWork
        PROVE  jobs'[s].status = status /\ s = worker.study
    BY <1>1, <1>2, ThreadIs DEF Ends, Registrations
  <1>3. CASE Start
    BY <1>1, <1>3, RowsAre DEF Start, ConsoleInv, Registrations
  <1>4. CASE \E c \in Callers : Submit(c)
    <2>1. PICK c \in Callers : Submit(c)
      BY <1>4
    <2>2. calls[c].pc = "submit" /\ calls[c].study \in Studies
      BY <2>1, CallIs DEF Submit, ConsoleInv
    <2>3. s = calls[c].study
      BY <1>1, <2>1, <2>2 DEF Submit, table
    <2>4. jobs'[s].status = "queued"
      <3>1. \/ jobs' = [jobs EXCEPT ![s] =
                  [status |-> "queued", recipe |-> calls[c].recipe]]
            \/ jobs[s].status \in {"failed", "interrupted"}
               /\ jobs' = [jobs EXCEPT ![s].status = "queued"]
        BY <1>1, <2>1, <2>3 DEF Submit, table
      <3>2. jobs[s].status \in {"failed", "interrupted"} => jobs[s] \in Registrations
        BY RowsAre DEF ConsoleInv, NoJob
      <3> QED
        BY <1>1, <3>1, <3>2 DEF Registrations
    <2> QED
      BY <2>2, <2>3, <2>4
  <1>5. CASE Claim
    BY <1>1, <1>5, RowsAre DEF Claim, ConsoleInv, Registrations, NoJob
  <1>6. CASE CheckRecipe \/ Request
    <2>1. worker.pc \in AtWork
      BY <1>6 DEF CheckRecipe, Request, WorkerAt, AtWork
    <2>2. \E n \in {"claim", "dead"} : Ends("failed", n)
      BY <1>1, <1>6, LoadingIs DEF CheckRecipe, Request, GoOn
    <2> QED
      BY <1>2, <2>1, <2>2
  <1>7. CASE WriteFails
    BY <1>2, <1>7 DEF WriteFails, WorkerAt, AtWork
  <1>8. CASE Load
    <2>1. worker.pc \in AtWork
      BY <1>8 DEF Load, WorkerAt, AtWork
    <2>2. Ends(IF studies[worker.study] = Job.recipe THEN "completed" ELSE "failed",
               "claim")
      BY <1>8 DEF Load
    <2>3. s = worker.study /\ (jobs'[s].status = "completed" \/ jobs'[s].status = "failed")
      BY <1>2, <2>1, <2>2
    <2>4. jobs'[s].status = "completed" => studies[s] = jobs[s].recipe
      BY <1>2, <2>1, <2>2, <2>3 DEF Job
    <2> QED
      BY <2>3, <2>4
  <1>9. CASE Child
    <2>1. PICK child \in children : ChildStarts(child) \/ ChildRefuses(child)
                                    \/ ChildEnds(child)
      BY <1>9 DEF Child
    <2>2. \E code \in {0, 2} : Answers(child, code)
      BY <1>1, <2>1 DEF ChildStarts, ChildRefuses, ChildEnds, table
    <2>3. Own(child) /\ Ends("failed", "claim")
      BY <1>1, <2>2 DEF Answers, GoOn
    <2> QED
      BY <1>2, <2>3 DEF Own, WorkerAt, AtWork
  <1>10. CASE Terminate
    <2>1. WorkerAt("wait") /\ Ends("failed", "claim")
      BY <1>1, <1>10 DEF Terminate
    <2> QED
      BY <1>2, <2>1 DEF WorkerAt, AtWork
  <1> QED
    BY <1>1, <1>3, <1>4, <1>5, <1>6, <1>7, <1>8, <1>9, <1>10
       DEF ConsoleNext, WorkerStep, Call, consoleVars, table, StopWorking, Write, Spawn,
           GoOn, Close, Closed, CloseFails, KillServer, Down, EditByHand, Save, SubmitLoad,
           SaveCheck, Clone

\* A study is the work of the recipe that was registered for it
\* (StudiesAreRegistered), at any moment of a save, a clone, an edit by hand or
\* a server that died (_work, submit, research_workbench.main).
THEOREM StudiesStayRegistered == ConsoleSpec => StudiesAreRegistered
PROOF
  <1>1. ASSUME ConsoleInv
        PROVE  ConsoleTypeOK /\ RunsWhatWasRegistered /\ RegisteredIsFrozen
    <2>1. ConsoleTypeOK
      <3>1. \A s \in Studies :
               /\ {recipes[s], requests[s], studies[s]} \subseteq
                     Versions \cup {Absent, Torn}
               /\ jobs[s].status \in {"none", "queued", "running", "completed",
                                      "failed", "interrupted"}
        BY <1>1, RowsAre DEF ConsoleInv, Contents, Registrations, NoJob
      <3> QED
        BY <1>1, <3>1 DEF ConsoleInv, ConsoleShape, ConsoleTypeOK, Servers
    <2>2. RunsWhatWasRegistered /\ RegisteredIsFrozen
      BY <1>1 DEF ConsoleInv, ProcessesOK, RunsWhatWasRegistered
    <2> QED
      BY <2>1, <2>2
  <1>2. ConsoleInv /\ [ConsoleNext]_consoleVars =>
           [\A s \in Studies :
               jobs'[s].status = "completed" /\ jobs[s].status # "completed" =>
                  studies[s] = jobs[s].recipe]_consoleVars
    BY StatusChanges
  <1> QED
    BY <1>1, <1>2, ConsoleInvariant, PTL
       DEF ConsoleSpec, StudiesAreRegistered, CompletedHasItsStudy

\* Nothing runs that nobody asked for (NothingRunsUnasked): what says running is
\* the thread's own, a close that returned left no process behind, and only a
\* request queues a row again (_work, close, __init__).
THEOREM NothingEverRunsUnasked == ConsoleSpec => NothingRunsUnasked
PROOF
  <1>1. ASSUME ConsoleInv
        PROVE  RunningIsWorkedOn /\ CloseStops
    <2>1. RunningIsWorkedOn
      BY <1>1 DEF ConsoleInv, ConsoleShape, ThreadOK, RunningIsWorkedOn, Serving, Threads,
                  AtWork
    <2>2. CloseStops
      BY <1>1 DEF ConsoleInv, ProcessesOK, CloseStops, Serving
    <2> QED
      BY <2>1, <2>2
  <1>2. ConsoleInv /\ [ConsoleNext]_consoleVars =>
           [\A s \in Studies :
               jobs'[s].status = "queued" /\ jobs[s].status # "queued" =>
                  \E c \in Callers : calls[c].pc = "submit" /\ calls[c].study = s
           ]_consoleVars
    BY StatusChanges
  <1> QED
    BY <1>1, <1>2, ConsoleInvariant, PTL
       DEF ConsoleSpec, NothingRunsUnasked, ResumedOnlyWhenAsked
=============================================================================
