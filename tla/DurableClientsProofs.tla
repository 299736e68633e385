------------------------- MODULE DurableClientsProofs -------------------------
(***************************************************************************)
(* What the two clients of the job store guarantee on top of it, each of   *)
(* them around the same transactions.                                      *)
(*                                                                         *)
(* Batches, for any batches, candidates, documents, workers and research   *)
(* clients: the store's inductive invariant is kept by transactions that   *)
(* touch many jobs because they move each of them as one of the store's    *)
(* own operations would; on top of it the batch tables agree with the      *)
(* jobs, and pins are ahead of what is visible.                            *)
(*                                                                         *)
(* The workers: they keep to the store's operations, so the store's        *)
(* theorems hold under them; and no completion is committed over a running *)
(* process, for any number of workers and jobs.                            *)
(***************************************************************************)
EXTENDS DurableBatches, DurableWorker, DurableJobsProofs

\* The inputs a call will need are pinned before its transaction.
CallIsPinned(call) ==
    /\ call.of = NoBatch =>
          /\ call.document \in Documents
          /\ \A c \in NamesIn(call.document) :
                <<call.key, call.document.asks[c]>> \in pins
    /\ call.of # NoBatch =>
          /\ Submitted(call.of) /\ call.names \in Selections
          /\ \A c \in call.names \cap NamesIn(batches[call.of].document) :
                <<call.key, batches[call.of].document.asks[c]>> \in pins

\* What a client got an answer for is there, with its inputs pinned.
AnswerIsPinned(b) ==
    /\ Submitted(b)
    /\ \A c \in NamesIn(batches[b].document) :
          <<b, batches[b].document.asks[c]>> \in pins

PinsAreAhead ==
    /\ \A call \in calls : CallIsPinned(call)
    /\ \A b \in answered : AnswerIsPinned(b)

BInv ==
    /\ IInv
    /\ BTypeOK
    /\ NoHalfBatch
    /\ LineageIsSettled
    /\ PinsAreAhead
-----------------------------------------------------------------------------
(* Documents and derived keys.                                             *)

LEMMA DocumentNames ==
    ASSUME NEW d \in Document
    PROVE  /\ NamesIn(d) \subseteq Candidates
           /\ d.asks \in [NamesIn(d) -> Requests]
           /\ \A c \in NamesIn(d) : d.asks[c] \in Requests
PROOF
  <1>1. PICK names \in SUBSET Candidates : d.asks \in [names -> Requests]
    BY DEF Document, Asks
  <1> QED
    BY <1>1 DEF NamesIn

LEMMA NoDocumentNames == NoDocument \in Document /\ NamesIn(NoDocument) = {}
PROOF
  <1>1. <<>> \in [{} -> Requests]
    OBVIOUS
  <1>2. <<>> \in Asks
    BY <1>1 DEF Asks
  <1> QED
    BY <1>1, <1>2 DEF NoDocument, Document, NamesIn

LEMMA DocumentsHaveNames ==
    ASSUME NEW d \in Documents
    PROVE  d \in Document /\ NamesIn(d) # {}
PROOF BY BatchAssumption DEF NamesIn

LEMMA SelectionNames ==
    ASSUME NEW d \in Document, NEW names, names \subseteq NamesIn(d)
    PROVE  /\ Selection(d, names) \in Document
           /\ NamesIn(Selection(d, names)) = names
           /\ \A c \in names : Selection(d, names).asks[c] = d.asks[c]
PROOF
  <1> DEFINE chosen == [c \in names |-> d.asks[c]]
  <1>1. names \in SUBSET Candidates /\ \A c \in names : d.asks[c] \in Requests
    BY DocumentNames
  <1>2. chosen \in [names -> Requests]
    BY <1>1
  <1>3. chosen \in Asks /\ DOMAIN chosen = names
    BY <1>1, <1>2 DEF Asks
  <1>4. Selection(d, names) = [asks |-> chosen, rest |-> d.rest]
    BY DEF Selection, Document
  <1> HIDE DEF chosen
  <1>5. Selection(d, names) \in Document /\ NamesIn(Selection(d, names)) = names
    BY <1>3, <1>4 DEF Document, NamesIn
  <1>6. \A c \in names : Selection(d, names).asks[c] = d.asks[c]
    BY <1>4 DEF chosen
  <1> QED
    BY <1>5, <1>6

LEMMA KeysAreDistinct ==
    ASSUME NEW a \in Batches, NEW b \in Batches,
           NEW c \in Candidates, NEW d \in Candidates
    PROVE  /\ ChildKey[a, c] \in Jobs
           /\ ChildKey[a, c] = ChildKey[b, d] => a = b /\ c = d
PROOF BY BatchAssumption

\* Within one batch the key decides the candidate.
LEMMA KeyDecides ==
    ASSUME NEW a \in Batches, NEW c \in Candidates, NEW n \in Candidates
    PROVE  ChildKey[a, c] = ChildKey[a, n] => c = n
PROOF
  <1>1. ChildKey[a, c] = ChildKey[a, n] => a = a /\ c = n
    BY KeysAreDistinct
  <1> QED
    BY <1>1

\* So a key is among those of some candidates only when its own is.
LEMMA KeyNamesCandidate ==
    ASSUME NEW a \in Batches, NEW c \in Candidates,
           NEW names \in SUBSET Candidates
    PROVE  ChildKey[a, c] \in {ChildKey[a, n] : n \in names} <=> c \in names
PROOF
  <1>1. ASSUME NEW n \in names, ChildKey[a, c] = ChildKey[a, n]
        PROVE  c = n
    BY <1>1, KeyDecides
  <1>2. ASSUME ChildKey[a, c] \in {ChildKey[a, n] : n \in names}
        PROVE  c \in names
    BY <1>1, <1>2
  <1> QED
    BY <1>2

LEMMA CandidateOfKey ==
    ASSUME NEW b \in Batches, NEW c \in Candidates
    PROVE  CandidateOf(b, ChildKey[b, c]) = c
PROOF
  <1>1. \A d \in Candidates : ChildKey[b, d] = ChildKey[b, c] => d = c
    BY KeyDecides
  <1> QED
    BY <1>1 DEF CandidateOf
-----------------------------------------------------------------------------
(* A batch transaction moves each job as Submit or Cancel would, or not.   *)

Inserted(j) ==
    /\ ~Exists(j)
    /\ \E r \in Requests, created \in Nat : jobs'[j] = NewJob(r, created)

Cancelled(j) ==
    /\ jobs[j].status \in {"queued", "running"} /\ ~jobs[j].cancel_requested
    /\ jobs'[j] = [jobs[j] EXCEPT !.cancel_requested = TRUE,
                                  !.status = IF @ = "queued" THEN "cancelled"
                                             ELSE @]

Moved(j) == jobs'[j] = jobs[j] \/ Inserted(j) \/ Cancelled(j)

\* The fields of a row that is inserted, and of one that is cancelled.
LEMMA InsertedRow ==
    ASSUME IInv, NEW j \in Jobs, Inserted(j)
    PROVE  /\ jobs'[j] \in Job
           /\ jobs[j].status = "absent" /\ jobs[j].token = 0
           /\ jobs[j].cancel_requested = FALSE
           /\ jobs'[j].status = "queued" /\ jobs'[j].token = 0
           /\ jobs'[j].request \in Requests
           /\ jobs'[j].cancel_requested = FALSE
           /\ jobs'[j].result = 0 /\ jobs'[j].outputs = FALSE
PROOF
  <1>1. PICK r \in Requests, created \in Nat : jobs'[j] = NewJob(r, created)
    BY DEF Inserted
  <1>2. NewJob(r, created) \in Job
    BY ConstantTypes DEF NewJob, Job, JobStatus
  <1>3. jobs[j] \in Job /\ JobOK(jobs[j], attempts[j]) /\ jobs[j].status = "absent"
    BY DEF IInv, TypeOK, Inserted, Exists
  <1>4. jobs[j].token = 0 /\ jobs[j].cancel_requested = FALSE
    BY <1>3 DEF JobOK, WithinRequest, Job
  <1>5. /\ jobs'[j].status = "queued" /\ jobs'[j].token = 0
        /\ jobs'[j].request = r /\ jobs'[j].cancel_requested = FALSE
        /\ jobs'[j].result = 0 /\ jobs'[j].outputs = FALSE
    BY <1>1 DEF NewJob
  <1> QED
    BY <1>1, <1>2, <1>3, <1>4, <1>5

LEMMA CancelledRow ==
    ASSUME IInv, NEW j \in Jobs, Cancelled(j)
    PROVE  /\ jobs'[j] \in Job
           /\ jobs[j].status \in {"queued", "running"}
           /\ jobs[j].cancel_requested = FALSE
           /\ jobs'[j].status = IF jobs[j].status = "queued" THEN "cancelled"
                                ELSE "running"
           /\ jobs'[j].cancel_requested = TRUE
           /\ jobs'[j].token = jobs[j].token
           /\ jobs'[j].request = jobs[j].request
           /\ jobs'[j].result = jobs[j].result
           /\ jobs'[j].outputs = jobs[j].outputs
PROOF
  <1> DEFINE s == IF jobs[j].status = "queued" THEN "cancelled" ELSE "running"
  <1>1. /\ jobs[j] \in Job
        /\ jobs[j].status \in {"queued", "running"}
        /\ jobs[j].cancel_requested = FALSE
        /\ jobs'[j] = [jobs[j] EXCEPT !.cancel_requested = TRUE, !.status = s]
    BY DEF IInv, TypeOK, Cancelled, Job
  <1>2. s \in JobStatus
    BY DEF JobStatus, Terminal
  <1> HIDE DEF s
  <1>3. /\ jobs'[j] \in Job
        /\ jobs'[j].status = s
        /\ jobs'[j].cancel_requested = TRUE
        /\ jobs'[j].token = jobs[j].token
        /\ jobs'[j].request = jobs[j].request
        /\ jobs'[j].result = jobs[j].result
        /\ jobs'[j].outputs = jobs[j].outputs
    BY <1>1, <1>2 DEF Job
  <1> QED
    BY <1>1, <1>3 DEF s

\* What a move leaves: a row that agrees with its attempts, a decided row as
\* it was, an existing row with its request, and one step of the lifecycle.
LEMMA MoveKeepsRow ==
    ASSUME IInv, NEW j \in Jobs, Moved(j)
    PROVE  jobs'[j] \in Job /\ JobOK(jobs'[j], attempts[j])
PROOF
  <1>1. jobs[j] \in Job /\ JobOK(jobs[j], attempts[j])
    BY DEF IInv, TypeOK
  <1>2. CASE jobs'[j] = jobs[j]
    BY <1>1, <1>2
  <1>3. CASE Inserted(j)
    <2>1. /\ jobs'[j] \in Job
          /\ jobs[j].status = "absent" /\ jobs[j].token = 0
          /\ jobs'[j].status = "queued" /\ jobs'[j].token = 0
          /\ jobs'[j].request \in Requests
          /\ jobs'[j].cancel_requested = FALSE
          /\ jobs'[j].result = 0 /\ jobs'[j].outputs = FALSE
      BY <1>3, InsertedRow
    <2>2. \A t \in Tokens : attempts[j][t].status = "none"
      BY <1>1, <2>1, ConstantTypes DEF JobOK, RowsAgree, Tokens
    <2>3. RowsAgree(jobs'[j], attempts[j])
      BY <2>1, <2>2, ConstantTypes DEF RowsAgree, Tokens
    <2>4. WithinRequest(jobs'[j])
      BY <2>1, ConstantTypes DEF WithinRequest
    <2>5. ResultAgrees(jobs'[j], attempts[j])
      BY <2>1, <2>2, ConstantTypes DEF ResultAgrees, Terminal, Tokens
    <2> QED
      BY <2>1, <2>3, <2>4, <2>5 DEF JobOK
  <1>4. CASE Cancelled(j)
    <2>1. /\ jobs'[j] \in Job
          /\ jobs[j].status \in {"queued", "running"}
          /\ jobs'[j].status = IF jobs[j].status = "queued" THEN "cancelled"
                               ELSE "running"
          /\ jobs'[j].token = jobs[j].token
          /\ jobs'[j].request = jobs[j].request
          /\ jobs'[j].result = jobs[j].result
          /\ jobs'[j].outputs = jobs[j].outputs
      BY <1>4, CancelledRow
    <2>2. RowsAgree(jobs'[j], attempts[j])
      BY <1>1, <2>1 DEF JobOK, RowsAgree
    <2>3. WithinRequest(jobs'[j])
      BY <1>1, <2>1, ConstantTypes DEF JobOK, WithinRequest
    <2>4. ResultAgrees(jobs'[j], attempts[j])
      BY <1>1, <2>1 DEF JobOK, ResultAgrees
    <2> QED
      BY <2>1, <2>2, <2>3, <2>4 DEF JobOK
  <1> QED
    BY <1>2, <1>3, <1>4 DEF Moved

LEMMA MoveIsLifeStep ==
    ASSUME IInv, NEW j \in Jobs, Moved(j)
    PROVE  LifeStep(j)
PROOF
  <1>1. CASE jobs'[j] = jobs[j]
    BY <1>1 DEF LifeStep
  <1>2. CASE Inserted(j)
    BY <1>2, InsertedRow DEF LifeStep
  <1>3. CASE Cancelled(j)
    BY <1>3, CancelledRow DEF LifeStep
  <1> QED
    BY <1>1, <1>2, <1>3 DEF Moved

LEMMA MoveKeepsTerminal ==
    ASSUME IInv, NEW j \in Jobs, Moved(j), jobs[j].status \in Terminal
    PROVE  jobs'[j] = jobs[j]
PROOF
  BY DEF Moved, Inserted, Cancelled, Exists, Terminal

\* A transaction of moves keeps the store's inductive invariant.
LEMMA MovesKeepStore ==
    ASSUME IInv, NEW rows, jobs' = [j \in Jobs |-> rows[j]],
           events' \in [Jobs -> Seq(Event)], UNCHANGED <<attempts, skew>>,
           \A j \in Jobs : Moved(j)
    PROVE  IInv'
PROOF
  <1>1. \A j \in Jobs : jobs'[j] \in Job /\ JobOK(jobs'[j], attempts[j])
    BY MoveKeepsRow
  <1>2. jobs' \in [Jobs -> Job]
    BY <1>1
  <1>3. TypeOK' /\ LeaseBounds'
    BY <1>2 DEF IInv, TypeOK, LeaseBounds
  <1> QED
    BY <1>1, <1>3 DEF IInv

\* Every step of the lifecycle keeps the request of a row that exists.
LEMMA LifeKeepsRequest ==
    ASSUME NEW j \in Jobs, LifeStep(j), Exists(j)
    PROVE  Exists(j)' /\ jobs'[j].request = jobs[j].request
PROOF
  BY DEF LifeStep, Exists, Terminal
-----------------------------------------------------------------------------
(* What the transactions do to the tables.                                 *)

\* An insert's own facts: what its document may be and where it comes from.
InsertIsSound(b, d, of, source) ==
    /\ Insert(b, d, of, source)
    /\ d \in Document /\ NamesIn(d) # {}
    /\ of \in Batches \cup {NoBatch}
    /\ source \in [Candidates -> Jobs \cup {NoSource}]
    /\ of = NoBatch => source = NoSources
    /\ of # NoBatch => \A c \in NamesIn(d) :
          /\ c \in NamesIn(batches[of].document)
          /\ source[c] = ChildKey[of, c]
          /\ jobs[ChildKey[of, c]].status \in {"failed", "cancelled"}
          /\ d.asks[c] = batches[of].document.asks[c]

\* Every member's job is new, and every other job is left alone.
MakesMembers(b, d) ==
    \A c \in NamesIn(d) :
        /\ c \in Candidates
        /\ ~Exists(ChildKey[b, c])
        /\ \E created \in Nat :
              jobs'[ChildKey[b, c]] = NewJob(d.asks[c], created)
LeavesOthers(b, d) ==
    \A j \in Jobs :
        j \notin {ChildKey[b, c] : c \in NamesIn(d)} => jobs'[j] = jobs[j]

\* No derived job of a batch that is not there exists, so an insert makes
\* every one of them and touches no other job.
LEMMA InsertShape ==
    ASSUME BInv, NEW b \in Batches, NEW d, NEW of, NEW source,
           InsertIsSound(b, d, of, source)
    PROVE  /\ ~Submitted(b)
           /\ MakesMembers(b, d)
           /\ LeavesOthers(b, d)
           /\ \E rows : jobs' = [j \in Jobs |-> rows[j]]
           /\ batches' = [batches EXCEPT ![b] =
                  [document |-> d, retry_of |-> of, source |-> source]]
           /\ UNCHANGED <<attempts, skew>>
PROOF
  <1> DEFINE new == {ChildKey[b, c] : c \in NamesIn(d)}
             RequestFor(j) == d.asks[CandidateOf(b, j)]
  <1>1. ~Submitted(b) /\ NamesIn(d) \subseteq Candidates
    BY DocumentNames DEF InsertIsSound, Insert
  <1>2. ASSUME NEW c \in NamesIn(d)
        PROVE  /\ c \in Candidates /\ ~Exists(ChildKey[b, c])
               /\ ChildKey[b, c] \in Jobs /\ ChildKey[b, c] \in new
               /\ RequestFor(ChildKey[b, c]) = d.asks[c]
    <2>1. c \in Candidates /\ c \notin NamesIn(batches[b].document)
      BY <1>1 DEF Submitted
    <2>2. ~Exists(ChildKey[b, c])
      BY <2>1 DEF BInv, NoHalfBatch
    <2> QED
      BY <2>1, <2>2, KeysAreDistinct, CandidateOfKey
  <1>3. PICK created \in 1 .. Cardinality(Jobs) :
           jobs' = [j \in Jobs |-> IF j \in new /\ ~Exists(j)
                                  THEN NewJob(RequestFor(j), created)
                                  ELSE jobs[j]]
    BY DEF InsertIsSound, Insert
  <1>4. created \in Nat
    BY ConstantTypes
  <1>5. ASSUME NEW c \in NamesIn(d)
        PROVE  jobs'[ChildKey[b, c]] = NewJob(d.asks[c], created)
    BY <1>2, <1>3
  <1>6. MakesMembers(b, d) /\ LeavesOthers(b, d)
    BY <1>2, <1>3, <1>4, <1>5 DEF MakesMembers, LeavesOthers
  <1>7. \E rows : jobs' = [j \in Jobs |-> rows[j]]
    BY <1>3
  <1>8. /\ batches' = [batches EXCEPT ![b] =
               [document |-> d, retry_of |-> of, source |-> source]]
        /\ UNCHANGED <<attempts, skew>>
    BY DEF InsertIsSound, Insert
  <1> QED
    BY <1>1, <1>6, <1>7, <1>8

LEMMA InsertMoves ==
    ASSUME BInv, NEW b \in Batches, NEW d, NEW of, NEW source,
           InsertIsSound(b, d, of, source), NEW j \in Jobs
    PROVE  Moved(j)
PROOF
  <1>1. CASE j \in {ChildKey[b, c] : c \in NamesIn(d)}
    <2>1. PICK c \in NamesIn(d) : j = ChildKey[b, c]
      BY <1>1
    <2>2. MakesMembers(b, d)
      BY InsertShape
    <2>3. d.asks[c] \in Requests
      BY DocumentNames DEF InsertIsSound
    <2> QED
      BY <2>1, <2>2, <2>3 DEF Moved, Inserted, MakesMembers
  <1>2. CASE j \notin {ChildKey[b, c] : c \in NamesIn(d)}
    <2>1. LeavesOthers(b, d)
      BY InsertShape
    <2> QED
      BY <1>2, <2>1 DEF Moved, LeavesOthers
  <1> QED
    BY <1>1, <1>2

LEMMA InsertKeepsStore ==
    ASSUME BInv, NEW b \in Batches, NEW d, NEW of, NEW source,
           InsertIsSound(b, d, of, source)
    PROVE  IInv'
PROOF
  <1> DEFINE new == {ChildKey[b, c] : c \in NamesIn(d)}
             told(j) == IF j \notin new THEN events[j]
                        ELSE IF Exists(j)
                        THEN Append(events[j], Row("batch_member", 0, ""))
                        ELSE events[j] \o <<Row("submitted", 0, ""),
                                            Row("batch_member", 0, "")>>
  <1>1. /\ Row("submitted", 0, "") \in Event
        /\ Row("batch_member", 0, "") \in Event
    BY ConstantTypes DEF Row, Event, EventNames, StoreEvents
  <1>2. \A j \in Jobs : told(j) \in Seq(Event)
    <2> DEFINE first == Row("submitted", 0, "")
               last == Row("batch_member", 0, "")
    <2>1. first \in Event /\ last \in Event
      BY <1>1
    <2>2. \A j \in Jobs : events[j] \in Seq(Event)
      BY DEF BInv, IInv, TypeOK
    <2> HIDE DEF first, last
    <2>3. <<first, last>> \in Seq(Event)
      BY <2>1
    <2>4. \A j \in Jobs : /\ Append(events[j], last) \in Seq(Event)
                          /\ events[j] \o <<first, last>> \in Seq(Event)
      BY <2>1, <2>2, <2>3
    <2>5. \A j \in Jobs :
             told(j) = IF j \notin new THEN events[j]
                       ELSE IF Exists(j) THEN Append(events[j], last)
                       ELSE events[j] \o <<first, last>>
      BY DEF first, last
    <2> QED
      BY <2>2, <2>4, <2>5
  <1>3. events' = [j \in Jobs |-> told(j)]
    BY DEF InsertIsSound, Insert
  <1> HIDE DEF told
  <1>4. events' \in [Jobs -> Seq(Event)]
    BY <1>2, <1>3
  <1>5. \A j \in Jobs : Moved(j)
    BY InsertMoves
  <1>6. IInv /\ UNCHANGED <<attempts, skew>>
    BY InsertShape DEF BInv
  <1>7. PICK rows : jobs' = [j \in Jobs |-> rows[j]]
    BY InsertShape
  <1> QED
    BY <1>4, <1>5, <1>6, <1>7, MovesKeepStore

LEMMA CancelMoves ==
    ASSUME BInv, NEW b \in Batches, CancelBatch(b)
    PROVE  /\ \A j \in Jobs : Moved(j)
           /\ \A j \in Jobs : Exists(j)' = Exists(j)
           /\ IInv'
PROOF
  <1> DEFINE hit == {j \in Members(b) : jobs[j].status \in {"queued", "running"}
                                        /\ ~jobs[j].cancel_requested}
             told(j) == IF j \in hit
                        THEN Append(events[j],
                                    Row("cancel_requested", jobs[j].token, ""))
                        ELSE events[j]
             row(j) == [jobs[j] EXCEPT !.cancel_requested = TRUE,
                                       !.status = IF @ = "queued"
                                                  THEN "cancelled" ELSE @]
  <1>1. jobs' = [j \in Jobs |-> IF j \in hit THEN row(j) ELSE jobs[j]]
    BY DEF CancelBatch
  <1>2. events' = [j \in Jobs |-> told(j)]
    BY DEF CancelBatch
  <1>3. IInv
    BY DEF BInv
  <1>4. ASSUME NEW j \in Jobs
        PROVE  Moved(j) /\ (Exists(j)' = Exists(j))
    <2>1. CASE j \in hit
      <3>1. Cancelled(j)
        BY <1>1, <2>1 DEF Cancelled
      <3>2. /\ jobs'[j].status \in {"cancelled", "running"}
            /\ jobs[j].status \in {"queued", "running"}
        BY <1>3, <3>1, CancelledRow
      <3> QED
        BY <3>1, <3>2 DEF Moved, Exists
    <2>2. CASE j \notin hit
      <3>1. jobs'[j] = jobs[j]
        BY <1>1, <2>2
      <3> QED
        BY <3>1 DEF Moved, Exists
    <2> QED
      BY <2>1, <2>2
  <1>5. \A j \in Jobs : told(j) \in Seq(Event)
    <2>1. TAKE j \in Jobs
    <2>2. events[j] \in Seq(Event) /\ jobs[j].token \in 0 .. AttemptLimit
      BY <1>3 DEF IInv, TypeOK, Job
    <2>3. Row("cancel_requested", jobs[j].token, "") \in Event
      BY <2>2 DEF Row, Event, EventNames, StoreEvents
    <2> QED
      BY <2>2, <2>3, AppendToJournal
  <1> HIDE DEF told, row, hit
  <1>6. events' \in [Jobs -> Seq(Event)]
    BY <1>2, <1>5
  <1>7. \E rows : jobs' = [j \in Jobs |-> rows[j]]
    <2> DEFINE rows == [j \in Jobs |-> IF j \in hit THEN row(j) ELSE jobs[j]]
    <2>1. jobs' = [j \in Jobs |-> rows[j]]
      BY <1>1
    <2> QED
      BY <2>1
  <1>8. PICK rows : jobs' = [j \in Jobs |-> rows[j]]
    BY <1>7
  <1>9. UNCHANGED <<attempts, skew>>
    BY DEF CancelBatch
  <1>10. IInv'
    BY <1>3, <1>4, <1>6, <1>8, <1>9, MovesKeepStore
  <1> QED
    BY <1>4, <1>10
-----------------------------------------------------------------------------
(* The tables agree with the jobs after every step.                        *)

\* A step that leaves the batches alone: it makes or removes no derived job,
\* keeps what each asks for, and changes nothing that is decided.
Quiet ==
    /\ UNCHANGED batches
    /\ \A j \in Children : Exists(j)' = Exists(j)
    /\ \A j \in Jobs : /\ Exists(j) => jobs'[j].request = jobs[j].request
                       /\ jobs[j].status \in Terminal => jobs'[j] = jobs[j]

LEMMA ChildKeysAreJobs == Children \subseteq Jobs
PROOF BY BatchAssumption DEF Children

LEMMA QuietFromLife ==
    ASSUME UNCHANGED batches, \A j \in Children : Exists(j)' = Exists(j),
           \A j \in Jobs : LifeStep(j),
           \A j \in Jobs : jobs[j].status \in Terminal => jobs'[j] = jobs[j]
    PROVE  Quiet
PROOF
  <1>1. ASSUME NEW j \in Jobs, Exists(j)
        PROVE  jobs'[j].request = jobs[j].request
    BY <1>1, LifeKeepsRequest
  <1> QED
    BY <1>1 DEF Quiet

LEMMA StoreStepIsQuiet ==
    ASSUME IInv, StoreOperation
    PROVE  Quiet
PROOF
  <1>1. Next /\ UNCHANGED batches /\ \A j \in Children : Exists(j)' = Exists(j)
    BY DEF StoreOperation, batchVars
  <1>2. \A j \in Jobs : LifeStep(j)
    BY <1>1, StepIsLifeStep
  <1>3. \A j \in Jobs : jobs[j].status \in Terminal => jobs'[j] = jobs[j]
    BY <1>1, StepKeepsTerminal
  <1> QED
    BY <1>1, <1>2, <1>3, QuietFromLife

LEMMA CancelIsQuiet ==
    ASSUME BInv, NEW b \in Batches, CancelBatch(b)
    PROVE  Quiet
PROOF
  <1>1. IInv /\ UNCHANGED batches
    BY DEF BInv, CancelBatch
  <1>2. \A j \in Jobs : Moved(j) /\ (Exists(j)' = Exists(j))
    BY CancelMoves
  <1>3. \A j \in Jobs : LifeStep(j)
    BY <1>1, <1>2, MoveIsLifeStep
  <1>4. \A j \in Jobs : jobs[j].status \in Terminal => jobs'[j] = jobs[j]
    BY <1>1, <1>2, MoveKeepsTerminal
  <1>5. \A j \in Children : Exists(j)' = Exists(j)
    BY <1>2, ChildKeysAreJobs
  <1> QED
    BY <1>1, <1>3, <1>4, <1>5, QuietFromLife

\* What one batch's part of the tables says, and of one retried member.
MemberOK(b, c) ==
    /\ Exists(ChildKey[b, c]) <=> c \in NamesIn(batches[b].document)
    /\ Exists(ChildKey[b, c]) =>
          jobs[ChildKey[b, c]].request = batches[b].document.asks[c]
LineageOK(b, c) ==
    LET a == batches[b].retry_of
        source == batches[b].source[c]
    IN  /\ a = NoBatch => source = NoSource
        /\ a # NoBatch =>
              /\ source = ChildKey[a, c]
              /\ c \in NamesIn(batches[a].document)
              /\ jobs[source].status \in {"failed", "cancelled"}
              /\ jobs[source].request = jobs[ChildKey[b, c]].request

\* LineageIsSettled speaks of Members: the candidate is the same because
\* derived keys differ.
EveryLineageOK ==
    \A b \in Batches : \A c \in NamesIn(batches[b].document) : LineageOK(b, c)

LEMMA LineageByCandidate == BTypeOK => (LineageIsSettled <=> EveryLineageOK)
PROOF
  <1> SUFFICES ASSUME BTypeOK,
                      NEW b \in Batches,
                      NEW c \in NamesIn(batches[b].document),
                      batches[b].retry_of # NoBatch,
                      batches[b].source[c] = ChildKey[batches[b].retry_of, c]
               PROVE  ChildKey[batches[b].retry_of, c] \in Members(batches[b].retry_of)
                         <=> c \in NamesIn(batches[batches[b].retry_of].document)
    BY DEF LineageIsSettled, LineageOK, EveryLineageOK
  <1> DEFINE a == batches[b].retry_of
  <1>1. a \in Batches /\ batches[b].document \in Document
        /\ batches[a].document \in Document
    BY DEF BTypeOK
  <1>2. c \in Candidates
    BY <1>1, DocumentNames
  <1> HIDE DEF a
  <1>3. NamesIn(batches[a].document) \subseteq Candidates
    BY <1>1, DocumentNames
  <1>4. a \in Batches
    BY <1>1
  <1>5. ChildKey[a, c] \in {ChildKey[a, n] : n \in NamesIn(batches[a].document)}
           <=> c \in NamesIn(batches[a].document)
    BY <1>2, <1>3, <1>4, KeyNamesCandidate
  <1>6. ChildKey[a, c] \in Members(a) <=> c \in NamesIn(batches[a].document)
    BY <1>5 DEF Members
  <1> QED
    BY <1>6 DEF a

LEMMA QuietKeepsTables ==
    ASSUME BInv, BTypeOK', Quiet
    PROVE  NoHalfBatch' /\ LineageIsSettled'
PROOF
  <1>1. BTypeOK /\ NoHalfBatch /\ LineageIsSettled /\ batches' = batches
    BY DEF BInv, Quiet
  <1>2. ASSUME NEW b \in Batches, NEW c \in Candidates
        PROVE  /\ ChildKey[b, c] \in Jobs
               /\ Exists(ChildKey[b, c])' = Exists(ChildKey[b, c])
    <2>1. ChildKey[b, c] \in Children
      BY DEF Children
    <2> QED
      BY <2>1, ChildKeysAreJobs DEF Quiet
  <1>3. NoHalfBatch'
    <2> SUFFICES ASSUME NEW b \in Batches, NEW c \in Candidates
                 PROVE  MemberOK(b, c)'
      BY DEF NoHalfBatch, MemberOK
    <2>1. MemberOK(b, c)
      BY <1>1 DEF NoHalfBatch, MemberOK
    <2>2. /\ Exists(ChildKey[b, c])' = Exists(ChildKey[b, c])
          /\ Exists(ChildKey[b, c]) =>
                jobs'[ChildKey[b, c]].request = jobs[ChildKey[b, c]].request
      BY <1>2 DEF Quiet
    <2> QED
      BY <1>1, <2>1, <2>2 DEF MemberOK
  <1>4. ASSUME NEW b \in Batches, NEW c \in NamesIn(batches[b].document)
        PROVE  LineageOK(b, c)'
    <2> DEFINE a == batches[b].retry_of
    <2>1. /\ c \in Candidates /\ a \in Batches \cup {NoBatch}
          /\ batches[b].document \in Document
      BY <1>1, DocumentNames DEF BTypeOK
    <2>2. LineageOK(b, c)
      BY <1>1, LineageByCandidate DEF EveryLineageOK
    <2>3. CASE a = NoBatch
      BY <1>1, <2>2, <2>3 DEF LineageOK
    <2>4. CASE a # NoBatch
      <3>1. a \in Batches /\ ChildKey[a, c] \in Jobs /\ ChildKey[b, c] \in Jobs
        BY <1>2, <2>1, <2>4
      <3>2. /\ batches[b].source[c] = ChildKey[a, c]
            /\ jobs[ChildKey[a, c]].status \in {"failed", "cancelled"}
            /\ jobs[ChildKey[a, c]].request = jobs[ChildKey[b, c]].request
            /\ c \in NamesIn(batches[a].document)
        BY <2>2, <2>4 DEF LineageOK
      <3>3. Exists(ChildKey[b, c])
        BY <1>1, <2>1 DEF NoHalfBatch
      <3>4. /\ jobs'[ChildKey[a, c]] = jobs[ChildKey[a, c]]
            /\ jobs'[ChildKey[b, c]].request = jobs[ChildKey[b, c]].request
        BY <3>1, <3>2, <3>3 DEF Quiet, Terminal
      <3> QED
        BY <1>1, <2>4, <3>2, <3>4 DEF LineageOK
    <2> QED
      BY <2>3, <2>4
  <1>5. LineageIsSettled'
    <2>1. EveryLineageOK'
      BY <1>1, <1>4 DEF EveryLineageOK
    <2>2. (BTypeOK => (LineageIsSettled <=> EveryLineageOK))'
      BY LineageByCandidate, PTL
    <2> QED
      BY <2>1, <2>2
  <1> QED
    BY <1>3, <1>5

\* An insert leaves every job there was, and every other batch's keys.
LEMMA InsertLeaves ==
    ASSUME BInv, NEW b \in Batches, NEW d, NEW of, NEW source,
           InsertIsSound(b, d, of, source)
    PROVE  /\ \A j \in Jobs : Exists(j) => jobs'[j] = jobs[j]
           /\ \A a \in Batches, c \in Candidates :
                 (a # b \/ c \notin NamesIn(d)) =>
                     jobs'[ChildKey[a, c]] = jobs[ChildKey[a, c]]
PROOF
  <1>1. MakesMembers(b, d) /\ LeavesOthers(b, d)
    BY InsertShape
  <1>2. \A j \in Jobs : Exists(j) => jobs'[j] = jobs[j]
    BY <1>1 DEF MakesMembers, LeavesOthers
  <1>3. ASSUME NEW a \in Batches, NEW c \in Candidates, a # b \/ c \notin NamesIn(d)
        PROVE  jobs'[ChildKey[a, c]] = jobs[ChildKey[a, c]]
    <2>1. NamesIn(d) \subseteq Candidates
      BY DocumentNames DEF InsertIsSound
    <2>2. ASSUME NEW n \in Candidates, ChildKey[b, n] = ChildKey[a, c]
          PROVE  a = b /\ n = c
      BY <2>2, BatchAssumption
    <2>3. ChildKey[a, c] \notin {ChildKey[b, n] : n \in NamesIn(d)}
      BY <1>3, <2>1, <2>2
    <2>4. ChildKey[a, c] \in Jobs
      BY KeysAreDistinct
    <2> QED
      BY <1>1, <2>3, <2>4 DEF LeavesOthers
  <1> QED
    BY <1>2, <1>3

LEMMA InsertTypes ==
    ASSUME BInv, NEW b \in Batches, NEW d, NEW of, NEW source,
           InsertIsSound(b, d, of, source)
    PROVE  /\ batches' \in
                 [Batches -> [document : Document,
                              retry_of : Batches \cup {NoBatch},
                              source : [Candidates -> Jobs \cup {NoSource}]]]
           /\ batches'[b].document = d
           /\ batches'[b].retry_of = of
           /\ batches'[b].source = source
           /\ \A a \in Batches \ {b} : batches'[a] = batches[a]
PROOF
  <1> DEFINE r == [document |-> d, retry_of |-> of, source |-> source]
             Record == [document : Document,
                        retry_of : Batches \cup {NoBatch},
                        source : [Candidates -> Jobs \cup {NoSource}]]
  <1>1. r \in Record /\ r.document = d /\ r.retry_of = of /\ r.source = source
    BY DEF InsertIsSound
  <1>2. batches \in [Batches -> Record]
    BY DEF BInv, BTypeOK
  <1>3. batches' = [batches EXCEPT ![b] = r]
    BY InsertShape
  <1> HIDE DEF r, Record
  <1>4. /\ batches' \in [Batches -> Record]
        /\ batches'[b] = r
        /\ \A a \in Batches \ {b} : batches'[a] = batches[a]
    BY <1>1, <1>2, <1>3
  <1> QED
    BY <1>1, <1>4 DEF Record

LEMMA InsertKeepsMembers ==
    ASSUME BInv, NEW b \in Batches, NEW d, NEW of, NEW source,
           InsertIsSound(b, d, of, source)
    PROVE  NoHalfBatch'
PROOF
  <1> SUFFICES ASSUME NEW a \in Batches, NEW c \in Candidates
               PROVE  MemberOK(a, c)'
    BY DEF NoHalfBatch, MemberOK
  <1>1. MemberOK(a, c)
    BY DEF BInv, NoHalfBatch, MemberOK
  <1>2. CASE a # b
    <2>1. jobs'[ChildKey[a, c]] = jobs[ChildKey[a, c]]
      BY <1>2, InsertLeaves
    <2>2. batches'[a] = batches[a]
      BY <1>2, InsertTypes
    <2> QED
      BY <1>1, <2>1, <2>2 DEF MemberOK, Exists
  <1>3. CASE a = b
    <2>1. batches'[b].document = d
      BY InsertTypes
    <2>2. CASE c \in NamesIn(d)
      <3>1. PICK created \in Nat :
               jobs'[ChildKey[b, c]] = NewJob(d.asks[c], created)
        <4>1. MakesMembers(b, d)
          BY InsertShape
        <4> QED
          BY <2>2, <4>1 DEF MakesMembers
      <3>2. /\ NewJob(d.asks[c], created).status = "queued"
            /\ NewJob(d.asks[c], created).request = d.asks[c]
        BY DEF NewJob
      <3> QED
        BY <1>3, <2>1, <2>2, <3>1, <3>2 DEF MemberOK, Exists
    <2>3. CASE c \notin NamesIn(d)
      <3>1. jobs'[ChildKey[b, c]] = jobs[ChildKey[b, c]]
        BY <2>3, InsertLeaves
      <3>2. NamesIn(batches[b].document) = {}
        BY InsertShape DEF Submitted
      <3>3. ~Exists(ChildKey[b, c])
        BY <1>1, <1>3, <3>2 DEF MemberOK
      <3> QED
        BY <1>3, <2>1, <2>3, <3>1, <3>3 DEF MemberOK, Exists
    <2> QED
      BY <2>2, <2>3
  <1> QED
    BY <1>2, <1>3

LEMMA InsertKeepsLineage ==
    ASSUME BInv, NEW b \in Batches, NEW d, NEW of, NEW source,
           InsertIsSound(b, d, of, source)
    PROVE  EveryLineageOK'
PROOF
  <1> SUFFICES ASSUME NEW e \in Batches, NEW c \in NamesIn(batches'[e].document)
               PROVE  LineageOK(e, c)'
    BY DEF EveryLineageOK
  <1>1. /\ batches'[b].document = d /\ batches'[b].retry_of = of
        /\ batches'[b].source = source
        /\ \A a \in Batches \ {b} : batches'[a] = batches[a]
    BY InsertTypes
  <1>2. BTypeOK /\ NoHalfBatch /\ EveryLineageOK /\ ~Submitted(b)
    BY LineageByCandidate, InsertShape DEF BInv
  <1>3. \A j \in Jobs : Exists(j) => jobs'[j] = jobs[j]
    BY InsertLeaves
  \* A batch that is retried is there, and its decided jobs stay.
  <1>4. ASSUME NEW a \in Batches, c \in NamesIn(batches[a].document),
               jobs[ChildKey[a, c]].status \in {"failed", "cancelled"}
        PROVE  /\ a # b /\ batches'[a] = batches[a]
               /\ jobs'[ChildKey[a, c]] = jobs[ChildKey[a, c]]
               /\ jobs[ChildKey[a, c]].request = batches[a].document.asks[c]
    <2>1. a # b
      BY <1>2, <1>4 DEF Submitted
    <2>2. c \in Candidates
      BY <1>2, <1>4, DocumentNames DEF BTypeOK
    <2>3. ChildKey[a, c] \in Jobs /\ Exists(ChildKey[a, c])
      BY <1>4, <2>2, KeysAreDistinct DEF Exists
    <2>4. jobs[ChildKey[a, c]].request = batches[a].document.asks[c]
      BY <1>2, <2>2, <2>3 DEF NoHalfBatch
    <2> QED
      BY <1>1, <1>3, <2>1, <2>3, <2>4
  <1>5. CASE e # b
    <2> DEFINE a == batches[e].retry_of
    <2>1. batches'[e] = batches[e] /\ c \in NamesIn(batches[e].document)
      BY <1>1, <1>5
    <2>2. /\ c \in Candidates /\ a \in Batches \cup {NoBatch}
      BY <1>2, <2>1, DocumentNames DEF BTypeOK
    <2>3. LineageOK(e, c)
      BY <1>2, <2>1 DEF EveryLineageOK
    <2>4. CASE a = NoBatch
      BY <2>1, <2>3, <2>4 DEF LineageOK
    <2>5. CASE a # NoBatch
      <3>1. /\ a \in Batches
            /\ batches[e].source[c] = ChildKey[a, c]
            /\ c \in NamesIn(batches[a].document)
            /\ jobs[ChildKey[a, c]].status \in {"failed", "cancelled"}
            /\ jobs[ChildKey[a, c]].request = jobs[ChildKey[e, c]].request
        BY <2>2, <2>3, <2>5 DEF LineageOK
      <3>2. /\ batches'[a] = batches[a]
            /\ jobs'[ChildKey[a, c]] = jobs[ChildKey[a, c]]
        BY <1>4, <3>1
      <3>3. jobs'[ChildKey[e, c]] = jobs[ChildKey[e, c]]
        BY <1>5, <2>2, InsertLeaves
      <3> QED
        BY <2>1, <2>5, <3>1, <3>2, <3>3 DEF LineageOK
    <2> QED
      BY <2>4, <2>5
  <1>6. CASE e = b
    <2>1. c \in NamesIn(d) /\ c \in Candidates
      <3>1. NamesIn(d) \subseteq Candidates
        BY DocumentNames DEF InsertIsSound
      <3> QED
        BY <1>1, <1>6, <3>1
    <2>2. CASE of = NoBatch
      BY <1>1, <1>6, <2>1, <2>2 DEF LineageOK, InsertIsSound, NoSources
    <2>3. CASE of # NoBatch
      <3>1. /\ of \in Batches
            /\ c \in NamesIn(batches[of].document)
            /\ source[c] = ChildKey[of, c]
            /\ jobs[ChildKey[of, c]].status \in {"failed", "cancelled"}
            /\ d.asks[c] = batches[of].document.asks[c]
        BY <2>1, <2>3 DEF InsertIsSound
      <3>2. /\ batches'[of] = batches[of]
            /\ jobs'[ChildKey[of, c]] = jobs[ChildKey[of, c]]
            /\ jobs[ChildKey[of, c]].request = batches[of].document.asks[c]
        BY <1>4, <3>1
      <3>3. jobs'[ChildKey[b, c]].request = d.asks[c]
        <4>1. MakesMembers(b, d)
          BY InsertShape
        <4>2. PICK created \in Nat :
                 jobs'[ChildKey[b, c]] = NewJob(d.asks[c], created)
          BY <2>1, <4>1 DEF MakesMembers
        <4>3. NewJob(d.asks[c], created).request = d.asks[c]
          BY DEF NewJob
        <4> QED
          BY <4>2, <4>3
      <3> QED
        BY <1>1, <1>6, <2>3, <3>1, <3>2, <3>3 DEF LineageOK
    <2> QED
      BY <2>2, <2>3
  <1> QED
    BY <1>5, <1>6
-----------------------------------------------------------------------------
(* Pins.                                                                   *)

\* What is there stays as it is, what is pinned stays pinned.
Growing ==
    /\ \A a \in Batches : Submitted(a) => batches'[a] = batches[a]
    /\ pins \subseteq pins'

LEMMA GrowingKeepsPins ==
    ASSUME BInv, Growing
    PROVE  /\ \A call \in calls : CallIsPinned(call)'
           /\ \A b \in answered : AnswerIsPinned(b)'
PROOF
  <1>1. ASSUME NEW a \in Batches, Submitted(a)
        PROVE  batches'[a] = batches[a] /\ Submitted(a)'
    BY <1>1 DEF Growing, Submitted
  <1>2. ASSUME NEW call \in calls
        PROVE  CallIsPinned(call)'
    <2>1. CallIsPinned(call) /\ call.of \in Batches \cup {NoBatch}
      BY DEF BInv, PinsAreAhead, BTypeOK
    <2>2. CASE call.of = NoBatch
      BY <2>1, <2>2 DEF CallIsPinned, Growing
    <2>3. CASE call.of # NoBatch
      <3>1. call.of \in Batches /\ Submitted(call.of)
        BY <2>1, <2>3 DEF CallIsPinned
      <3>2. batches'[call.of] = batches[call.of] /\ Submitted(call.of)'
        BY <1>1, <3>1
      <3> QED
        BY <2>1, <2>3, <3>2 DEF CallIsPinned, Growing
    <2> QED
      BY <2>2, <2>3
  <1>3. ASSUME NEW b \in answered
        PROVE  AnswerIsPinned(b)'
    <2>1. b \in Batches /\ AnswerIsPinned(b)
      BY DEF BInv, PinsAreAhead, BTypeOK
    <2>2. batches'[b] = batches[b] /\ Submitted(b)'
      BY <1>1, <2>1 DEF AnswerIsPinned
    <2> QED
      BY <2>1, <2>2 DEF AnswerIsPinned, Growing
  <1> QED
    BY <1>2, <1>3
-----------------------------------------------------------------------------
(* One lemma per kind of step: the tables hold after it, and it is orderly *)
(* for every job and every batch that was there.                           *)

BatchRecord == [document : Document,
                retry_of : Batches \cup {NoBatch},
                source : [Candidates -> Jobs \cup {NoSource}]]

TablesHold ==
    /\ IInv
    /\ batches \in [Batches -> BatchRecord]
    /\ NoHalfBatch
    /\ EveryLineageOK

Orderly ==
    /\ \A j \in Jobs : LifeStep(j)
    /\ \A j \in Jobs : jobs[j].status \in Terminal =>
          jobs'[j] = jobs[j] /\ attempts'[j] = attempts[j]
    /\ \A a \in Batches : Submitted(a) => batches'[a] = batches[a]

LEMMA TablesOfInv == BInv => TablesHold
PROOF
  BY LineageByCandidate DEF BInv, BTypeOK, TablesHold, BatchRecord

ClientsTyped ==
    /\ calls \subseteq [key : Batches, of : Batches \cup {NoBatch},
                        document : Documents \cup {NoDocument},
                        names : SUBSET Candidates]
    /\ pins \subseteq Batches \X Requests
    /\ answered \subseteq Batches

\* The invariant from its parts.
LEMMA InvOfTables == TablesHold /\ ClientsTyped /\ PinsAreAhead => BInv
PROOF
  <1> SUFFICES ASSUME TablesHold, ClientsTyped, PinsAreAhead PROVE BInv
    OBVIOUS
  <1>1. BTypeOK
    BY DEF TablesHold, ClientsTyped, BatchRecord, BTypeOK, IInv
  <1> QED
    BY <1>1, LineageByCandidate DEF TablesHold, BInv

LEMMA InsertSteps ==
    ASSUME BInv, NEW b \in Batches, NEW d, NEW of, NEW source,
           InsertIsSound(b, d, of, source)
    PROVE  TablesHold' /\ Orderly
PROOF
  <1>1. TablesHold'
    <2>1. batches' \in [Batches -> BatchRecord]
      BY InsertTypes DEF BatchRecord
    <2>2. IInv' /\ NoHalfBatch' /\ EveryLineageOK'
      BY InsertKeepsStore, InsertKeepsMembers, InsertKeepsLineage
    <2> QED
      BY <2>1, <2>2 DEF TablesHold
  <1>2. IInv /\ UNCHANGED attempts /\ ~Submitted(b)
    BY InsertShape DEF BInv
  <1>3. \A j \in Jobs : Moved(j)
    BY InsertMoves
  <1>4. \A j \in Jobs : LifeStep(j)
    BY <1>2, <1>3, MoveIsLifeStep
  <1>5. \A j \in Jobs : jobs[j].status \in Terminal => jobs'[j] = jobs[j]
    BY <1>2, <1>3, MoveKeepsTerminal
  <1>6. \A a \in Batches \ {b} : batches'[a] = batches[a]
    BY InsertTypes
  <1> QED
    BY <1>1, <1>2, <1>4, <1>5, <1>6 DEF Orderly

LEMMA QuietSteps ==
    ASSUME BInv, Quiet, IInv', UNCHANGED <<calls, pins, answered>>,
           \A j \in Jobs : LifeStep(j),
           \A j \in Jobs : jobs[j].status \in Terminal =>
                              attempts'[j] = attempts[j]
    PROVE  TablesHold' /\ Orderly
PROOF
  <1>1. BTypeOK'
    BY DEF BInv, BTypeOK, Quiet, IInv
  <1>2. NoHalfBatch' /\ LineageIsSettled'
    BY <1>1, QuietKeepsTables
  <1>3. (BTypeOK => (LineageIsSettled <=> EveryLineageOK))'
    BY LineageByCandidate, PTL
  <1>4. TablesHold'
    BY <1>1, <1>2, <1>3 DEF BTypeOK, BatchRecord, TablesHold
  <1> QED
    BY <1>4 DEF Orderly, Quiet

LEMMA StoreSteps ==
    ASSUME BInv, StoreOperation
    PROVE  TablesHold' /\ Orderly
PROOF
  <1>1. IInv /\ Next /\ UNCHANGED <<calls, pins, answered>>
    BY DEF BInv, StoreOperation, batchVars
  <1>2. IInv' /\ Quiet
    BY <1>1, NextIInv, StoreStepIsQuiet
  <1>3. \A j \in Jobs : LifeStep(j)
    BY <1>1, StepIsLifeStep
  <1>4. \A j \in Jobs : jobs[j].status \in Terminal => attempts'[j] = attempts[j]
    BY <1>1, StepKeepsTerminal
  <1> QED
    BY <1>1, <1>2, <1>3, <1>4, QuietSteps

LEMMA CancelSteps ==
    ASSUME BInv, NEW b \in Batches, CancelBatch(b)
    PROVE  TablesHold' /\ Orderly
PROOF
  <1>1. IInv /\ UNCHANGED <<attempts, calls, pins, answered>>
    BY DEF BInv, CancelBatch
  <1>2. IInv' /\ Quiet /\ \A j \in Jobs : Moved(j)
    BY CancelMoves, CancelIsQuiet
  <1>3. \A j \in Jobs : LifeStep(j)
    BY <1>1, <1>2, MoveIsLifeStep
  <1> QED
    BY <1>1, <1>2, <1>3, QuietSteps

\* A step of the clients alone.
LEMMA IdleSteps ==
    ASSUME BInv, UNCHANGED <<vars, batches>>
    PROVE  TablesHold' /\ Orderly
PROOF
  <1>1. TablesHold
    BY TablesOfInv
  <1>2. IInv'
    BY NextIInv DEF BInv
  <1>3. TablesHold'
    BY <1>1, <1>2 DEF TablesHold, vars, NoHalfBatch, EveryLineageOK, LineageOK,
                      Exists
  <1> QED
    BY <1>3 DEF Orderly, vars, LifeStep

\* The pins after a step that adds no call and no answer.
LEMMA SamePins ==
    ASSUME BInv, TablesHold', Orderly,
           calls' \subseteq calls, UNCHANGED <<pins, answered>>
    PROVE  BInv'
PROOF
  <1>1. \A call \in calls : CallIsPinned(call)'
    BY GrowingKeepsPins DEF Orderly, Growing
  <1>2. \A b \in answered : AnswerIsPinned(b)'
    BY GrowingKeepsPins DEF Orderly, Growing
  <1>3. PinsAreAhead'
    BY <1>1, <1>2 DEF PinsAreAhead
  <1>4. ClientsTyped'
    BY DEF BInv, BTypeOK, ClientsTyped
  <1>5. (TablesHold /\ ClientsTyped /\ PinsAreAhead => BInv)'
    BY InvOfTables, PTL
  <1> QED
    BY <1>3, <1>4, <1>5

\* The transactions that clients make without a pin.
LEMMA SubmitBatchStep ==
    ASSUME BInv, NEW b \in Batches, NEW d \in Documents, SubmitBatch(b, d)
    PROVE  BInv' /\ Orderly
PROOF
  <1>1. InsertIsSound(b, d, NoBatch, NoSources)
    BY DocumentsHaveNames DEF SubmitBatch, InsertIsSound, NoSources
  <1>2. TablesHold' /\ Orderly
    BY <1>1, InsertSteps
  <1> QED
    BY <1>2, SamePins DEF SubmitBatch

LEMMA SelectionsAreSets ==
    ASSUME NEW names \in Selections
    PROVE  names # {} /\ names \subseteq Candidates
PROOF BY DEF Selections

\* A retry's document is sound: it asks again for what was asked.
LEMMA RetryIsSound ==
    ASSUME BInv, NEW a \in Batches, NEW b \in Batches, NEW names \in Selections,
           Retriable(a, names),
           Insert(b, Selection(batches[a].document, names), a, Sources(a, names))
    PROVE  InsertIsSound(b, Selection(batches[a].document, names), a,
                         Sources(a, names))
PROOF
  <1> DEFINE old == batches[a].document
             d == Selection(old, names)
             source == Sources(a, names)
  <1>1. old \in Document /\ names \subseteq NamesIn(old)
    BY DEF BInv, BTypeOK, Retriable
  <1>2. /\ d \in Document /\ NamesIn(d) = names
        /\ \A c \in names : d.asks[c] = old.asks[c]
    BY <1>1, SelectionNames
  <1>3. names # {} /\ names \subseteq Candidates /\ a # NoBatch
    <2>1. names # {} /\ names \subseteq Candidates
      BY SelectionsAreSets
    <2>2. a # NoBatch
      BY BatchAssumption
    <2> QED
      BY <2>1, <2>2
  <1>4. /\ source \in [Candidates -> Jobs \cup {NoSource}]
        /\ \A c \in names : source[c] = ChildKey[a, c]
    <2>1. \A c \in Candidates : ChildKey[a, c] \in Jobs
      BY KeysAreDistinct
    <2> QED
      BY <1>3, <2>1 DEF Sources
  <1>5. \A c \in names : jobs[ChildKey[a, c]].status \in {"failed", "cancelled"}
    BY DEF Retriable
  <1>6. Insert(b, d, a, source)
    OBVIOUS
  <1> HIDE DEF old, d, source
  <1>7. InsertIsSound(b, d, a, source)
    BY <1>1, <1>2, <1>3, <1>4, <1>5, <1>6 DEF InsertIsSound, old
  <1> QED
    BY <1>7 DEF old, d, source

LEMMA RetryBatchStep ==
    ASSUME BInv, NEW a \in Batches, NEW b \in Batches, NEW names \in Selections,
           RetryBatch(a, b, names)
    PROVE  BInv' /\ Orderly
PROOF
  <1>1. InsertIsSound(b, Selection(batches[a].document, names), a,
                      Sources(a, names))
    BY RetryIsSound DEF RetryBatch
  <1>2. TablesHold' /\ Orderly
    BY <1>1, InsertSteps
  <1> QED
    BY <1>2, SamePins DEF RetryBatch

LEMMA UnpinnedStep ==
    ASSUME BInv,
           \/ StoreOperation
           \/ \E b \in Batches : CancelBatch(b)
           \/ \E call \in calls : GiveUp(call)
           \/ UNCHANGED bvars
    PROVE  BInv' /\ Orderly
PROOF
  <1>1. TablesHold' /\ Orderly
    BY StoreSteps, CancelSteps, IdleSteps DEF GiveUp, bvars, batchVars
  <1>2. calls' \subseteq calls /\ UNCHANGED <<pins, answered>>
    BY DEF StoreOperation, CancelBatch, GiveUp, bvars, batchVars
  <1> QED
    BY <1>1, <1>2, SamePins

\* The invariant after a step that pins or answers.
LEMMA PinningStep ==
    ASSUME BInv, TablesHold', Orderly, ClientsTyped', pins \subseteq pins',
           \A call \in calls' \ calls : CallIsPinned(call)',
           \A b \in answered' \ answered : AnswerIsPinned(b)'
    PROVE  BInv'
PROOF
  <1>1. Growing
    BY DEF Orderly, Growing
  <1>2. /\ \A call \in calls : CallIsPinned(call)'
        /\ \A b \in answered : AnswerIsPinned(b)'
    BY <1>1, GrowingKeepsPins
  <1>3. PinsAreAhead'
    BY <1>2 DEF PinsAreAhead
  <1>4. (TablesHold /\ ClientsTyped /\ PinsAreAhead => BInv)'
    BY InvOfTables, PTL
  <1> QED
    BY <1>3, <1>4

LEMMA PinSubmitStep ==
    ASSUME BInv, NEW b \in Batches, NEW d \in Documents, PinSubmit(b, d)
    PROVE  BInv' /\ Orderly
PROOF
  <1> DEFINE call == Call(b, NoBatch, d, {})
             needed == {<<b, d.asks[c]>> : c \in NamesIn(d)}
  <1>1. TablesHold' /\ Orderly
    BY IdleSteps DEF PinSubmit
  <1>2. ClientsTyped
    BY DEF BInv, BTypeOK, ClientsTyped
  <1>3. /\ calls' = calls \cup {call} /\ pins' = pins \cup needed
        /\ answered' = answered
    BY DEF PinSubmit
  <1>4. needed \subseteq Batches \X Requests
    BY DocumentsHaveNames, DocumentNames
  <1>5. call \in [key : Batches, of : Batches \cup {NoBatch},
                  document : Documents \cup {NoDocument},
                  names : SUBSET Candidates]
    BY DEF Call
  <1>6. ClientsTyped'
    BY <1>2, <1>3, <1>4, <1>5 DEF ClientsTyped
  <1>7. call.key = b /\ call.of = NoBatch /\ call.document = d
    BY DEF Call
  <1> HIDE DEF call
  <1>8. CallIsPinned(call)'
    BY <1>3, <1>7 DEF CallIsPinned
  <1> QED
    BY <1>1, <1>3, <1>6, <1>8, PinningStep

LEMMA PinRetryStep ==
    ASSUME BInv, NEW a \in Batches, NEW b \in Batches, NEW names \in Selections,
           PinRetry(a, b, names)
    PROVE  BInv' /\ Orderly
PROOF
  <1> DEFINE call == Call(b, a, NoDocument, names)
             old == batches[a].document
             needed == {<<b, r>> : r \in RetryInputs(a, names)}
  <1>1. TablesHold' /\ Orderly
    BY IdleSteps DEF PinRetry
  <1>2. ClientsTyped /\ old \in Document
    BY DEF BInv, BTypeOK, ClientsTyped
  <1>3. /\ calls' = calls \cup {call} /\ pins' = pins \cup needed
        /\ answered' = answered /\ batches' = batches /\ Submitted(a)
    BY DEF PinRetry
  <1>4. \A c \in names \cap NamesIn(old) :
           /\ jobs[ChildKey[a, c]].request = old.asks[c]
           /\ old.asks[c] \in Requests
    <2>1. NamesIn(old) \subseteq Candidates /\ \A c \in NamesIn(old) : old.asks[c] \in Requests
      BY <1>2, DocumentNames
    <2> QED
      BY <2>1 DEF BInv, NoHalfBatch
  <1>5. needed \subseteq Batches \X Requests
    <2>1. RetryInputs(a, names) \subseteq Requests
      BY <1>4 DEF RetryInputs
    <2> QED
      BY <2>1
  <1>6. call \in [key : Batches, of : Batches \cup {NoBatch},
                  document : Documents \cup {NoDocument},
                  names : SUBSET Candidates]
    BY DEF Call, Selections
  <1>7. ClientsTyped'
    BY <1>2, <1>3, <1>5, <1>6 DEF ClientsTyped
  <1>8. /\ call.key = b /\ call.of = a /\ call.names = names
        /\ a # NoBatch
    BY BatchAssumption DEF Call
  <1>9. \A c \in names \cap NamesIn(old) : <<b, old.asks[c]>> \in needed
    BY <1>4 DEF RetryInputs
  <1>10. Submitted(a)'
    BY <1>3 DEF Submitted
  <1> HIDE DEF call, needed
  <1>11. CallIsPinned(call)'
    BY <1>3, <1>8, <1>9, <1>10 DEF CallIsPinned
  <1> QED
    BY <1>1, <1>3, <1>7, <1>11, PinningStep

\* The transaction after the pin inserts what the call pinned, or answers
\* with a stored batch that asks for the same.
LEMMA TransactStep ==
    ASSUME BInv, NEW call \in calls, Transact(call)
    PROVE  BInv' /\ Orderly
PROOF
  <1> DEFINE b == call.key
             a == call.of
             d == IF a = NoBatch THEN call.document
                  ELSE Selection(batches[a].document, call.names)
             source == IF a = NoBatch THEN NoSources ELSE Sources(a, call.names)
  <1>1. /\ a # NoBatch => Retriable(a, call.names)
        /\ \/ Insert(b, d, a, source)
           \/ Repeats(b, d, a) /\ UNCHANGED <<vars, batches>>
        /\ calls' = calls \ {call} /\ answered' = answered \cup {b}
        /\ pins' = pins
    BY DEF Transact
  <1>2. /\ b \in Batches /\ a \in Batches \cup {NoBatch} /\ ClientsTyped
        /\ CallIsPinned(call)
    BY DEF BInv, BTypeOK, PinsAreAhead, ClientsTyped
  <1>3. /\ d \in Document /\ NamesIn(d) # {}
        /\ \A c \in NamesIn(d) : <<b, d.asks[c]>> \in pins
        /\ Insert(b, d, a, source) => InsertIsSound(b, d, a, source)
    <2>1. CASE a = NoBatch
      <3>1. /\ d = call.document /\ source = NoSources /\ d \in Documents
            /\ \A c \in NamesIn(d) : <<b, d.asks[c]>> \in pins
        BY <1>2, <2>1 DEF CallIsPinned
      <3>2. d \in Document /\ NamesIn(d) # {}
        BY <3>1, DocumentsHaveNames
      <3>3. source \in [Candidates -> Jobs \cup {NoSource}]
        BY <3>1 DEF NoSources
      <3> HIDE DEF d, source
      <3> QED
        BY <2>1, <3>1, <3>2, <3>3 DEF InsertIsSound
    <2>2. CASE a # NoBatch
      <3> DEFINE old == batches[a].document
                 names == call.names
      <3>1. /\ a \in Batches /\ old \in Document /\ names \in Selections
            /\ d = Selection(old, names) /\ source = Sources(a, names)
            /\ Retriable(a, names) /\ names \subseteq NamesIn(old)
        BY <1>1, <1>2, <2>2 DEF CallIsPinned, BInv, BTypeOK, Retriable
      <3>2. \A c \in names : <<b, old.asks[c]>> \in pins
        BY <1>2, <2>2, <3>1 DEF CallIsPinned
      <3>3. Insert(b, d, a, source) => InsertIsSound(b, d, a, source)
        BY <1>2, <3>1, RetryIsSound
      <3>4. /\ Selection(old, names) \in Document
            /\ NamesIn(Selection(old, names)) = names
            /\ \A c \in names : Selection(old, names).asks[c] = old.asks[c]
        BY <3>1, SelectionNames
      <3>5. names # {}
        BY <3>1, SelectionsAreSets
      <3> HIDE DEF d, source, old, names
      <3> QED
        BY <3>1, <3>2, <3>3, <3>4, <3>5
    <2> QED
      BY <2>1, <2>2
  <1> HIDE DEF b, a, d, source
  <1>4. TablesHold' /\ Orderly /\ batches'[b].document = d
    <2>1. CASE Insert(b, d, a, source)
      <3>1. InsertIsSound(b, d, a, source)
        BY <1>3, <2>1
      <3> QED
        BY <1>2, <3>1, InsertSteps, InsertTypes
    <2>2. CASE Repeats(b, d, a) /\ UNCHANGED <<vars, batches>>
      BY <2>2, IdleSteps DEF Repeats
    <2> QED
      BY <1>1, <2>1, <2>2
  <1>5. AnswerIsPinned(b)'
    BY <1>1, <1>3, <1>4 DEF AnswerIsPinned, Submitted
  <1>6. ClientsTyped'
    BY <1>1, <1>2 DEF ClientsTyped
  <1> QED
    BY <1>1, <1>4, <1>5, <1>6, PinningStep

LEMMA BInitInv == BInit => BInv
PROOF
  <1> SUFFICES ASSUME BInit PROVE BInv
    OBVIOUS
  <1>1. IInv
    BY InitIInv DEF BInit
  <1>2. \A b \in Batches : batches[b] = NoRecord /\ NoRecord.document = NoDocument
    BY DEF BInit, NoRecord
  <1>3. NoRecord \in BatchRecord
    BY NoDocumentNames DEF NoRecord, BatchRecord
  <1>4. batches \in [Batches -> BatchRecord]
    BY <1>3 DEF BInit
  <1>5. \A b \in Batches : NamesIn(batches[b].document) = {}
    BY <1>2, NoDocumentNames
  <1>6. \A b \in Batches, c \in Candidates : ~Exists(ChildKey[b, c])
    <2>1. \A j \in Jobs : ~Exists(j)
      BY DEF BInit, Init, NoJob, Exists
    <2> QED
      BY <2>1, KeysAreDistinct
  <1>7. TablesHold
    BY <1>1, <1>4, <1>5, <1>6 DEF TablesHold, NoHalfBatch, EveryLineageOK
  <1>8. ClientsTyped /\ PinsAreAhead
    BY DEF BInit, ClientsTyped, PinsAreAhead
  <1> QED
    BY <1>7, <1>8, InvOfTables

LEMMA BNextInv == BInv /\ [BNext]_bvars => BInv' /\ Orderly
PROOF
  <1> SUFFICES ASSUME BInv, [BNext]_bvars PROVE BInv' /\ Orderly
    OBVIOUS
  <1>1. CASE \E b \in Batches, d \in Documents : SubmitBatch(b, d) \/ PinSubmit(b, d)
    BY <1>1, SubmitBatchStep, PinSubmitStep
  <1>2. CASE \E a, b \in Batches, names \in Selections :
                RetryBatch(a, b, names) \/ PinRetry(a, b, names)
    BY <1>2, RetryBatchStep, PinRetryStep
  <1>3. CASE \E call \in calls : Transact(call)
    BY <1>3, TransactStep
  <1>4. CASE \/ StoreOperation
             \/ \E b \in Batches : CancelBatch(b)
             \/ \E call \in calls : GiveUp(call)
             \/ UNCHANGED bvars
    BY <1>4, UnpinnedStep
  <1> QED
    BY <1>1, <1>2, <1>3, <1>4 DEF BNext
-----------------------------------------------------------------------------
(* The batch tables, the store and the pins agree in every reachable state *)
(* of any number of clients, workers and batches.                          *)
THEOREM BatchInductive == BSpec => []BInv
PROOF
  <1>1. BInv /\ [BNext]_bvars => BInv'
    BY BNextInv
  <1> QED
    BY <1>1, BInitInv, PTL DEF BSpec

LEMMA StatusShownIsTrue == BInv => StatusMatchesTerminal
PROOF
  <1> SUFFICES ASSUME BInv, NEW b \in Batches, Submitted(b)
               PROVE  BatchStatus(b) \in Terminal <=> Over(b)
    BY DEF StatusMatchesTerminal
  <1>1. Statuses(b) \subseteq {"queued", "running"} \cup Terminal
    <2>1. ASSUME NEW j \in Members(b)
          PROVE  jobs[j].status \in {"queued", "running"} \cup Terminal
      <3>1. PICK c \in NamesIn(batches[b].document) : j = ChildKey[b, c]
        BY DEF Members
      <3>2. c \in Candidates
        BY DocumentNames DEF BInv, BTypeOK
      <3>3. j \in Jobs /\ Exists(j)
        BY <3>1, <3>2, KeysAreDistinct DEF BInv, NoHalfBatch
      <3> QED
        BY <3>3 DEF BInv, IInv, TypeOK, Job, JobStatus, Exists
    <2> QED
      BY <2>1 DEF Statuses
  <1>2. Over(b) <=> "running" \notin Statuses(b) /\ "queued" \notin Statuses(b)
    BY <1>1 DEF Over, Terminal
  <1> QED
    BY <1>2 DEF BatchStatus, Terminal

(* Half a batch is never visible, the status shown is over exactly when    *)
(* every member is, and every retry leads back to decided members, for any *)
(* batches, documents and interleaving of clients and workers.             *)
THEOREM BatchesHold == BSpec => []BatchInvariant
PROOF
  <1>1. BInv => BatchInvariant
    BY StatusShownIsTrue DEF BInv, BatchInvariant
  <1> QED
    BY <1>1, BatchInductive, PTL

(* Whoever got a batch from a research client has its inputs pinned.       *)
THEOREM PinsComeFirst == BSpec => []PinnedBeforeVisible
PROOF
  <1>1. BInv => PinnedBeforeVisible
    <2> SUFFICES ASSUME BInv, NEW b \in answered, NEW j \in Members(b)
                 PROVE  <<b, jobs[j].request>> \in pins
      BY DEF PinnedBeforeVisible
    <2>1. PICK c \in NamesIn(batches[b].document) : j = ChildKey[b, c]
      BY DEF Members
    <2>2. b \in Batches /\ AnswerIsPinned(b)
      BY DEF BInv, BTypeOK, PinsAreAhead
    <2>3. c \in Candidates
      BY <2>2, DocumentNames DEF BInv, BTypeOK
    <2>4. jobs[j].request = batches[b].document.asks[c]
      BY <2>1, <2>2, <2>3 DEF BInv, NoHalfBatch
    <2> QED
      BY <2>2, <2>4 DEF AnswerIsPinned
  <1> QED
    BY <1>1, BatchInductive, PTL

(* A batch that is there never changes, and one that is over keeps every   *)
(* member and attempt as it was.                                           *)
THEOREM BatchHistoryStands == BSpec => BatchesStand
PROOF
  <1>1. BInv /\ [BNext]_bvars =>
          [\A b \in Batches : Submitted(b) =>
              /\ batches'[b] = batches[b]
              /\ Over(b) => \A j \in Members(b) : /\ jobs'[j] = jobs[j]
                                                  /\ attempts'[j] = attempts[j]
          ]_bvars
    <2> SUFFICES ASSUME BInv, [BNext]_bvars, NEW b \in Batches, Submitted(b)
                 PROVE  /\ batches'[b] = batches[b]
                        /\ Over(b) => \A j \in Members(b) :
                              jobs'[j] = jobs[j] /\ attempts'[j] = attempts[j]
      OBVIOUS
    <2>1. Orderly
      BY BNextInv
    <2>2. NamesIn(batches[b].document) \subseteq Candidates
      BY DocumentNames DEF BInv, BTypeOK
    <2>3. Members(b) \subseteq Jobs
      BY <2>2, KeysAreDistinct DEF Members
    <2> QED
      BY <2>1, <2>3 DEF Orderly, Over, Statuses
  <1> QED
    BY <1>1, BatchInductive, PTL DEF BSpec, BatchesStand

(* Every job follows the abstract lifecycle through batch transactions     *)
(* too, however many jobs one of them moves.                               *)
THEOREM LifecycleUnderBatches == BSpec => EveryJobFollowsLifecycle
PROOF
  <1>1. BInit => \A j \in Jobs : Life(j)!Init
    BY InitRefines DEF BInit
  <1>2. BInv /\ [BNext]_bvars =>
          [\A j \in Jobs : [Life(j)!Next]_(Life(j)!jobVars)]_vars
    <2> SUFFICES ASSUME BInv, [BNext]_bvars, NEW j \in Jobs
                 PROVE  [Life(j)!Next]_(Life(j)!jobVars)
      OBVIOUS
    <2>1. IInv /\ LifeStep(j)
      BY BNextInv DEF BInv, Orderly
    <2> QED
      BY <2>1, LifeStepRefines
  <1> QED
    BY <1>1, <1>2, BatchInductive, PTL DEF BSpec, EveryJobFollowsLifecycle

(* And the store's own invariant holds under batches and their clients.    *)
THEOREM StoreHoldsUnderBatches == BSpec => []StoreInvariant
PROOF
  <1>1. BInv => StoreInvariant
    BY StoreOfIInv DEF BInv
  <1> QED
    BY <1>1, BatchInductive, PTL
-----------------------------------------------------------------------------
\* One worker's record against the tables: what it holds and what it knows of
\* its child.
Busy(x) == x.pc \notin {"idle", "down"}

Attached(x, jb, rows) ==
    /\ x.job \in Jobs
    /\ x.token \in Tokens
    /\ x.token <= jb[x.job].token
    /\ rows[x.job][x.token].status \in {"running", "expired"}

ChildKnown(x, ch) ==
    /\ x.pc \in {"prepare", "preflight", "start"} => ch[x.job][x.token] = "none"
    /\ x.pc \in {"check", "finish", "acknowledge"} =>
          ch[x.job][x.token] # "running"
    /\ x.pc = "join" /\ ~x.lost => ch[x.job][x.token] # "running"

WorkerOK(x, jb, rows, ch) == Busy(x) => Attached(x, jb, rows) /\ ChildKnown(x, ch)

\* No two workers see the same attempt through.
Distinct ==
    \A v, w \in Workers :
        /\ Busy(worker[v]) /\ Busy(worker[w])
        /\ worker[v].job = worker[w].job /\ worker[v].token = worker[w].token
        => v = w

\* An attempt that was never opened has no process.
Unopened ==
    \A j \in Jobs, t \in Tokens : t > jobs[j].token => child[j][t] = "none"

WInv ==
    /\ IInv
    /\ WTypeOK
    /\ \A w \in Workers : WorkerOK(worker[w], jobs, attempts, child)
    /\ Distinct
    /\ Unopened
    /\ AcknowledgedMeansStopped

\* What every store operation but a completion does to the attempt rows.
RowsAge ==
    \A j \in Jobs :
        /\ jobs'[j].token >= jobs[j].token
        /\ \A t \in Tokens :
              /\ attempts'[j][t].status \in Terminal
                    <=> attempts[j][t].status \in Terminal
              /\ attempts[j][t].status \in {"running", "expired"} =>
                    attempts'[j][t].status \in {"running", "expired"}
-----------------------------------------------------------------------------
LEMMA ExpireAges ==
    ASSUME IInv, NEW j \in Jobs, NEW t \in Tokens
    PROVE  /\ ExpiredRows(j)[t].status \in Terminal
                 <=> attempts[j][t].status \in Terminal
           /\ attempts[j][t].status \in {"running", "expired"} =>
                 ExpiredRows(j)[t].status \in {"running", "expired"}
PROOF
  <1>1. attempts[j] \in [Tokens -> AttemptRow]
    BY DEF IInv, TypeOK
  <1>2. CASE Lapsed(j)
    <2>1. attempts[j][jobs[j].token].status = "running"
      BY <1>2 DEF Lapsed
    <2> QED
      BY <1>1, <1>2, <2>1 DEF ExpiredRows, Terminal
  <1>3. CASE ~Lapsed(j)
    BY <1>3 DEF ExpiredRows
  <1> QED
    BY <1>2, <1>3

LEMMA ClaimAges ==
    ASSUME IInv, NEW w \in Workers, NEW k \in Jobs, Claim(w, k)
    PROVE  /\ RowsAge
           /\ jobs'[k].token = jobs[k].token + 1 /\ jobs'[k].token \in Tokens
           /\ attempts'[k][jobs'[k].token].status = "running"
           /\ \A j \in Jobs \ {k} : jobs'[j].token = jobs[j].token
PROOF
  <1> DEFINE t == jobs[k].token + 1
  <1>1. t \in Tokens /\ jobs \in [Jobs -> Job]
        /\ \A j \in Jobs : ExpiredRows(j) \in [Tokens -> AttemptRow]
    BY ExpireType DEF Claim, IInv, TypeOK
  <1>2. \A j \in Jobs : jobs'[j].token = IF j = k THEN t ELSE jobs[j].token
    BY <1>1 DEF Claim, Job
  <1>3. \A j \in Jobs :
           attempts'[j] = IF j = k
                          THEN [ExpiredRows(j) EXCEPT ![t] =
                                  [status |-> "running", lease |-> Lease]]
                          ELSE ExpiredRows(j)
    BY DEF Claim
  <1>4. \A j \in Jobs : jobs[j].token \in Nat
    BY <1>1 DEF Job
  <1>5. attempts[k][t].status = "none"
    <2>1. JobOK(jobs[k], attempts[k])
      BY DEF IInv
    <2> QED
      BY <1>1, <1>4, <2>1 DEF JobOK, RowsAgree
  <1> HIDE DEF t
  <1>6. attempts'[k][t].status = "running"
    <2>1. attempts'[k] = [ExpiredRows(k) EXCEPT ![t] =
                             [status |-> "running", lease |-> Lease]]
      BY <1>3
    <2>2. ExpiredRows(k) \in [Tokens -> AttemptRow] /\ t \in Tokens
      BY <1>1
    <2> QED
      BY <2>1, <2>2
  <1>7. ASSUME NEW j \in Jobs, NEW u \in Tokens
        PROVE  /\ attempts'[j][u].status \in Terminal
                     <=> attempts[j][u].status \in Terminal
               /\ attempts[j][u].status \in {"running", "expired"} =>
                     attempts'[j][u].status \in {"running", "expired"}
    <2>1. CASE j = k /\ u = t
      BY <1>5, <1>6, <2>1 DEF Terminal
    <2>2. CASE ~(j = k /\ u = t)
      <3>1. attempts'[j][u] = ExpiredRows(j)[u]
        BY <1>1, <1>3, <2>2
      <3> QED
        BY <3>1, ExpireAges
    <2> QED
      BY <2>1, <2>2
  <1>8. \A j \in Jobs : jobs'[j].token >= jobs[j].token
    BY <1>2, <1>4 DEF t
  <1>9. RowsAge
    BY <1>7, <1>8 DEF RowsAge
  <1>10. jobs'[k].token = t
    BY <1>2
  <1>11. jobs'[k].token = jobs[k].token + 1
    BY <1>10 DEF t
  <1> QED
    BY <1>1, <1>2, <1>6, <1>9, <1>10, <1>11

LEMMA ClaimNoneAges ==
    ASSUME IInv, NEW w \in Workers, ClaimNone(w)
    PROVE  RowsAge /\ \A j \in Jobs : jobs'[j].token = jobs[j].token
PROOF
  <1>1. \A j \in Jobs : /\ jobs'[j].token = jobs[j].token
                        /\ jobs[j].token \in Nat
                        /\ attempts'[j] = ExpiredRows(j)
    BY DEF ClaimNone, IInv, TypeOK, Job
  <1> QED
    BY <1>1, ExpireAges DEF RowsAge

LEMMA HeartbeatAges ==
    ASSUME IInv, NEW k \in Jobs, NEW u \in Tokens, Heartbeat(k, u)
    PROVE  RowsAge /\ UNCHANGED jobs
PROOF
  <1>1. /\ attempts \in [Jobs -> [Tokens -> AttemptRow]]
        /\ \A j \in Jobs : jobs[j].token \in Nat
    BY DEF IInv, TypeOK, Job
  <1>2. \A j \in Jobs, t \in Tokens :
           attempts'[j][t].status = attempts[j][t].status
    BY <1>1 DEF Heartbeat, AttemptRow
  <1> QED
    BY <1>1, <1>2 DEF RowsAge, Heartbeat

LEMMA ClockAges ==
    ASSUME IInv, Tick \/ SetClockBack
    PROVE  RowsAge /\ UNCHANGED jobs
PROOF
  <1>1. /\ attempts \in [Jobs -> [Tokens -> AttemptRow]]
        /\ \A j \in Jobs : jobs[j].token \in Nat
    BY DEF IInv, TypeOK, Job
  <1>2. PICK d \in {-1, 1} : MoveClock(d)
    BY DEF Tick, SetClockBack
  <1>3. \A j \in Jobs, t \in Tokens :
           attempts'[j][t].status = attempts[j][t].status
    BY <1>1, <1>2 DEF MoveClock, AttemptRow
  <1> QED
    BY <1>1, <1>3 DEF RowsAge, Tick, SetClockBack

LEMMA ClientAges ==
    ASSUME IInv, ClientStep
    PROVE  RowsAge /\ \A j \in Jobs : jobs'[j].token = jobs[j].token
PROOF
  <1>1. /\ jobs \in [Jobs -> Job]
        /\ \A j \in Jobs : jobs[j].token \in Nat
    BY DEF IInv, TypeOK, Job
  <1>2. UNCHANGED attempts
    BY DEF ClientStep, Submit, Cancel
  <1>3. \A j \in Jobs : jobs'[j].token = jobs[j].token
    <2>1. CASE \E j \in Jobs, r \in Requests : Submit(j, r)
      <3>1. PICK j \in Jobs, r \in Requests : Submit(j, r)
        BY <2>1
      <3>2. PICK c : jobs' = [jobs EXCEPT ![j] = NewJob(r, c)]
        BY <3>1 DEF Submit
      <3>3. jobs[j].token = 0
        <4>1. JobOK(jobs[j], attempts[j]) /\ jobs[j].status = "absent"
          BY <3>1 DEF IInv, Submit, Exists
        <4> QED
          BY <4>1 DEF JobOK, WithinRequest
      <3>4. NewJob(r, c).token = 0
        BY DEF NewJob
      <3> QED
        BY <1>1, <3>2, <3>3, <3>4
    <2>2. CASE \E j \in Jobs : Cancel(j)
      <3>1. PICK j \in Jobs : Cancel(j)
        BY <2>2
      <3>2. jobs[j] \in Job /\ \A k \in Jobs \ {j} : jobs'[k] = jobs[k]
        BY <1>1, <3>1 DEF Cancel
      <3>3. jobs'[j].token = jobs[j].token
        BY <1>1, <3>1, <3>2 DEF Cancel, Job
      <3> QED
        BY <3>2, <3>3
    <2> QED
      BY <2>1, <2>2 DEF ClientStep
  <1> QED
    BY <1>1, <1>2, <1>3 DEF RowsAge

\* A worker that does not move keeps what it holds while rows age.
LEMMA AgingKeepsWorker ==
    ASSUME WInv, RowsAge, NEW x \in WorkerState, NEW ch,
           Busy(x) => Attached(x, jobs, attempts) /\ ChildKnown(x, ch),
           \A j \in Jobs : jobs[j].token \in Nat /\ jobs'[j].token \in Nat
    PROVE  WorkerOK(x, jobs', attempts', ch)
PROOF
  BY DEF WorkerOK, Attached, RowsAge, Tokens

LEMMA TokensAreNat ==
    (IInv => \A j \in Jobs : jobs[j].token \in Nat)
PROOF BY DEF IInv, TypeOK, Job
-----------------------------------------------------------------------------
(* The store under the workers.                                            *)

LEMMA BusyHolds ==
    ASSUME WInv, NEW w \in Workers, Busy(worker[w])
    PROVE  Job_(w) \in Jobs /\ Token_(w) \in Tokens
PROOF BY DEF WInv, WorkerOK, Attached, Job_, Token_

LEMMA MainStepStore ==
    ASSUME WInv, NEW w \in Workers, MainStep(w)
    PROVE  [Next]_vars
PROOF
  <1>1. Busy(worker[w])
    BY DEF Busy, At, MainStep, Prepare, Preflight, Start, RecordStart, Poll,
           Check, Abort, Join, Complete, Acknowledge
  <1>2. Job_(w) \in Jobs /\ Token_(w) \in Tokens
    BY <1>1, BusyHolds
  <1>3. CASE Prepare(w) \/ Start(w) \/ Poll(w) \/ Check(w) \/ Abort(w) \/ Join(w)
    BY <1>3 DEF Prepare, Start, Poll, Check, Abort, Join, StoreIdle
  <1>4. CASE Preflight(w)
    BY <1>2, <1>4 DEF Preflight, StoreIdle, Next
  <1>5. CASE RecordStart(w)
    BY <1>2, <1>5, StartAssumption DEF RecordStart, StoreIdle, Next
  <1>6. CASE Complete(w)
    <2>1. worker[w].outcome \in Terminal
      BY DEF WInv, WTypeOK, WorkerState
    <2> DEFINE r == worker[w].outcome = "failed"
               p == worker[w].outcome = "succeeded"
    <2>2. \/ Finish(Job_(w), Token_(w), worker[w].outcome, r, p)
          \/ UNCHANGED vars
      BY <1>6 DEF Complete, StoreIdle
    <2>3. r \in BOOLEAN /\ p \in BOOLEAN
      OBVIOUS
    <2> HIDE DEF r, p
    <2> QED
      BY <1>2, <2>1, <2>2, <2>3 DEF Next
  <1>7. CASE Acknowledge(w)
    <2>1. Finish(Job_(w), Token_(w), "cancelled", FALSE, FALSE) \/ UNCHANGED vars
      BY <1>7 DEF Acknowledge, StoreIdle
    <2>2. "cancelled" \in Terminal
      BY DEF Terminal
    <2> QED
      BY <1>2, <2>1, <2>2 DEF Next
  <1> QED
    BY <1>3, <1>4, <1>5, <1>6, <1>7 DEF MainStep

LEMMA StoreStep ==
    ASSUME WInv, [WNext]_wvars
    PROVE  [Next]_vars
PROOF
  <1>1. CASE \E w \in Workers : Take(w) \/ TakeNothing(w)
    BY <1>1 DEF Take, TakeNothing, Next
  <1>2. CASE \E w \in Workers : MainStep(w)
    BY <1>2, MainStepStore
  <1>3. CASE \E w \in Workers : Beat(w) \/ SetFlag(w)
    <2>1. PICK w \in Workers : Beat(w) \/ SetFlag(w)
      BY <1>3
    <2>2. CASE SetFlag(w)
      BY <2>2 DEF SetFlag, StoreIdle
    <2>3. CASE Beat(w)
      <3>1. Busy(worker[w])
        BY <2>3 DEF Beat, WInv, WTypeOK, Idle, Busy
      <3> QED
        BY <2>3, <3>1, BusyHolds DEF Beat, StoreIdle, Next
    <2> QED
      BY <2>1, <2>2, <2>3
  <1>4. CASE \E w \in Workers : Crash(w) \/ Restart(w)
    BY <1>4 DEF Crash, Restart, StoreIdle
  <1>5. CASE \E j \in Jobs, t \in Tokens : LateBeat(j, t) \/ ChildExits(j, t)
    BY <1>5 DEF LateBeat, ChildExits, StoreIdle, Next
  <1>6. CASE ClientStep
    BY <1>6 DEF ClientStep, Next
  <1>7. CASE ClockStep
    BY <1>7 DEF ClockStep, Next
  <1>8. CASE UNCHANGED wvars
    BY <1>8 DEF wvars
  <1> QED
    BY <1>1, <1>2, <1>3, <1>4, <1>5, <1>6, <1>7, <1>8 DEF WNext

LEMMA StepKeepsIInv ==
    ASSUME WInv, [WNext]_wvars
    PROVE  /\ IInv'
           /\ \A j \in Jobs : jobs[j].token \in Nat /\ jobs'[j].token \in Nat
PROOF
  <1>1. IInv /\ IInv'
    BY StoreStep, NextIInv DEF WInv
  <1> QED
    BY <1>1 DEF IInv, TypeOK, Job
-----------------------------------------------------------------------------
(* What a step of one worker may do, in general.                           *)

\* A step that ages rows, moves at most worker w, and touches at most the
\* child of the attempt w sees through.
LEMMA MoveKeepsWInv ==
    ASSUME WInv, IInv', RowsAge, NEW w \in Workers, NEW x \in WorkerState,
           \A j \in Jobs : jobs[j].token \in Nat /\ jobs'[j].token \in Nat,
           worker' = [worker EXCEPT ![w] = x],
           child' \in [Jobs -> [Tokens -> ChildState]],
           \A j \in Jobs, t \in Tokens : child'[j][t] # child[j][t] =>
               Busy(worker[w]) /\ j = worker[w].job /\ t = worker[w].token,
           Busy(x) => /\ Busy(worker[w])
                      /\ x.job = worker[w].job /\ x.token = worker[w].token
                      /\ ChildKnown(x, child'),
           Idle(x),
           inputsKept' \subseteq Jobs, outputsKept' \subseteq Jobs \X Tokens,
           late' \subseteq Jobs \X Tokens
    PROVE  WInv'
PROOF
  <1>1. /\ worker' \in [Workers -> WorkerState] /\ worker'[w] = x
        /\ \A v \in Workers \ {w} : worker'[v] = worker[v]
        /\ worker \in [Workers -> WorkerState]
    BY DEF WInv, WTypeOK
  <1>2. \A v \in Workers : WorkerOK(worker[v], jobs, attempts, child)
    BY DEF WInv
  <1>3. WTypeOK'
    <2>1. \A v \in Workers : Idle(worker[v])
      BY DEF WInv, WTypeOK
    <2>2. \A v \in Workers : Idle(worker'[v])
      BY <1>1, <2>1
    <2> QED
      BY <1>1, <2>2 DEF WTypeOK
  <1>4. ASSUME NEW v \in Workers
        PROVE  WorkerOK(worker'[v], jobs', attempts', child')
    <2>1. CASE v = w
      BY <1>1, <1>2, <2>1, AgingKeepsWorker DEF WorkerOK, Attached
    <2>2. CASE v # w /\ Busy(worker[v])
      <3>1. worker'[v] = worker[v] /\ Attached(worker[v], jobs, attempts)
            /\ ChildKnown(worker[v], child)
        BY <1>1, <1>2, <2>2 DEF WorkerOK
      <3>2. child'[worker[v].job][worker[v].token]
              = child[worker[v].job][worker[v].token]
        BY <2>2, <3>1 DEF WInv, Distinct, Attached
      <3>3. ChildKnown(worker[v], child')
        BY <3>1, <3>2 DEF ChildKnown
      <3> QED
        BY <1>1, <3>1, <3>3, AgingKeepsWorker
    <2>3. CASE v # w /\ ~Busy(worker[v])
      BY <1>1, <2>3 DEF WorkerOK
    <2> QED
      BY <2>1, <2>2, <2>3
  <1>5. Distinct'
    BY <1>1 DEF WInv, Distinct
  <1>6. Unopened'
    <2> SUFFICES ASSUME NEW j \in Jobs, NEW t \in Tokens, t > jobs'[j].token
                 PROVE  child'[j][t] = "none"
      BY DEF Unopened
    <2>1. t > jobs[j].token
      BY DEF RowsAge, Tokens
    <2>2. child[j][t] = "none"
      BY <2>1 DEF WInv, Unopened
    <2>3. ~(Busy(worker[w]) /\ j = worker[w].job /\ t = worker[w].token)
      BY <1>2, <2>1 DEF WorkerOK, Attached, Tokens
    <2> QED
      BY <2>2, <2>3
  <1>7. AcknowledgedMeansStopped'
    <2> SUFFICES ASSUME NEW j \in Jobs, NEW t \in Tokens,
                        attempts'[j][t].status \in Terminal
                 PROVE  child'[j][t] # "running"
      BY DEF AcknowledgedMeansStopped
    <2>1. attempts[j][t].status \in Terminal
      BY DEF RowsAge
    <2>2. child[j][t] # "running"
      BY <2>1 DEF WInv, AcknowledgedMeansStopped
    <2>3. ~(Busy(worker[w]) /\ j = worker[w].job /\ t = worker[w].token)
      BY <1>2, <2>1 DEF WorkerOK, Attached, Terminal
    <2> QED
      BY <2>2, <2>3
  <1> QED
    BY <1>3, <1>4, <1>5, <1>6, <1>7 DEF WInv
-----------------------------------------------------------------------------
(* The updates of a worker's record that the steps are written with.       *)

\* Worker w's record becomes x, which holds the same attempt.
Becomes(w, x) ==
    /\ x \in WorkerState
    /\ worker' = [worker EXCEPT ![w] = x]
    /\ x.job = worker[w].job /\ x.token = worker[w].token

LEMMA GotoBecomes ==
    ASSUME WTypeOK, NEW w \in Workers, NEW p \in WorkerPc, Goto(w, p)
    PROVE  \E x : /\ Becomes(w, x) /\ x.pc = p /\ x.lost = worker[w].lost
                  /\ x.thread = worker[w].thread
PROOF
  <1> DEFINE x == [worker[w] EXCEPT !.pc = p]
  <1>1. worker \in [Workers -> WorkerState]
    BY DEF WTypeOK
  <1>2. /\ Becomes(w, x) /\ x.pc = p /\ x.lost = worker[w].lost
        /\ x.thread = worker[w].thread
    BY <1>1 DEF Becomes, Goto, WorkerState
  <1> HIDE DEF x
  <1> QED
    BY <1>2

LEMMA FailBecomes ==
    ASSUME WTypeOK, NEW w \in Workers, NEW p \in WorkerPc, Fail(w, p)
    PROVE  \E x : Becomes(w, x) /\ x.pc = p /\ x.lost = worker[w].lost
PROOF
  <1> DEFINE y == [worker[w] EXCEPT !.pc = p]
             x == [y EXCEPT !.outcome = "failed"]
  <1>1. worker \in [Workers -> WorkerState] /\ "failed" \in Terminal
    BY DEF WTypeOK, Terminal
  <1>2. y \in WorkerState /\ y.job = worker[w].job /\ y.token = worker[w].token
        /\ y.pc = p /\ y.lost = worker[w].lost
    BY <1>1 DEF WorkerState
  <1>3. worker' = [worker EXCEPT ![w] = x]
    BY <1>1 DEF Fail
  <1> HIDE DEF y
  <1>4. Becomes(w, x) /\ x.pc = p /\ x.lost = worker[w].lost
    BY <1>1, <1>2, <1>3 DEF Becomes, WorkerState
  <1> HIDE DEF x
  <1> QED
    BY <1>4

LEMMA LoseBecomes ==
    ASSUME WTypeOK, NEW w \in Workers, NEW p \in WorkerPc,
           worker' = [worker EXCEPT ![w].pc = p, ![w].lost = TRUE]
    PROVE  \E x : Becomes(w, x) /\ x.pc = p /\ x.lost = TRUE
PROOF
  <1> DEFINE y == [worker[w] EXCEPT !.pc = p]
             x == [y EXCEPT !.lost = TRUE]
  <1>1. worker \in [Workers -> WorkerState]
    BY DEF WTypeOK
  <1>2. y \in WorkerState /\ y.job = worker[w].job /\ y.token = worker[w].token
        /\ y.pc = p
    BY <1>1 DEF WorkerState
  <1>3. worker' = [worker EXCEPT ![w] = x]
    BY <1>1
  <1> HIDE DEF y
  <1>4. Becomes(w, x) /\ x.pc = p /\ x.lost = TRUE
    BY <1>2, <1>3 DEF Becomes, WorkerState
  <1> HIDE DEF x
  <1> QED
    BY <1>4

LEMMA RestBecomes ==
    ASSUME WTypeOK, NEW w \in Workers, NEW p \in {"idle", "down"}, Rest(w, p)
    PROVE  \E x \in WorkerState : /\ worker' = [worker EXCEPT ![w] = x]
                                   /\ ~Busy(x) /\ Idle(x)
PROOF
  <1>1. Resting(p) \in WorkerState
    BY ConstantTypes DEF Resting, WorkerState, WorkerPc, Terminal, ThreadState
  <1>2. ~Busy(Resting(p)) /\ Idle(Resting(p))
    BY DEF Resting, Busy, Idle
  <1> QED
    BY <1>1, <1>2 DEF Rest

LEMMA QuietAges ==
    ASSUME \A j \in Jobs : jobs[j].token \in Nat, UNCHANGED <<jobs, attempts>>
    PROVE  RowsAge
PROOF BY DEF RowsAge

\* A worker that comes to rest without touching the store.
LEMMA RestKeepsWInv ==
    ASSUME WInv, IInv', NEW w \in Workers, NEW p \in {"idle", "down"}, Rest(w, p),
           StoreIdle, UNCHANGED <<child, inputsKept, outputsKept>>,
           late' \subseteq Jobs \X Tokens
    PROVE  WInv'
PROOF
  <1>1. WTypeOK /\ \A j \in Jobs : jobs[j].token \in Nat /\ jobs'[j].token \in Nat
    BY DEF WInv, IInv, TypeOK, Job
  <1>2. PICK x \in WorkerState : /\ worker' = [worker EXCEPT ![w] = x]
                                 /\ ~Busy(x) /\ Idle(x)
    BY <1>1, RestBecomes
  <1>3. RowsAge
    BY <1>1, QuietAges DEF StoreIdle, vars
  <1>4. /\ child' \in [Jobs -> [Tokens -> ChildState]]
        /\ inputsKept' \subseteq Jobs /\ outputsKept' \subseteq Jobs \X Tokens
    BY <1>1 DEF WTypeOK
  <1> QED
    BY <1>1, <1>2, <1>3, <1>4, MoveKeepsWInv

\* A worker that moves on with its attempt: rows may age, and its own child
\* may change, as long as the new program counter is honest about it.
LEMMA GoOnKeepsWInv ==
    ASSUME WInv, IInv', RowsAge, NEW w \in Workers, NEW x,
           Becomes(w, x), Busy(worker[w]), Busy(x),
           \A j \in Jobs : jobs[j].token \in Nat /\ jobs'[j].token \in Nat,
           child' = child \/ \E s \in ChildState : SetChild(w, s),
           ChildKnown(x, child'),
           inputsKept' \subseteq Jobs, outputsKept' \subseteq Jobs \X Tokens,
           late' \subseteq Jobs \X Tokens
    PROVE  WInv'
PROOF
  <1>1. Job_(w) \in Jobs /\ Token_(w) \in Tokens
        /\ child \in [Jobs -> [Tokens -> ChildState]]
    BY BusyHolds DEF WInv, WTypeOK
  <1>2. /\ child' \in [Jobs -> [Tokens -> ChildState]]
        /\ \A j \in Jobs, t \in Tokens : child'[j][t] # child[j][t] =>
               j = worker[w].job /\ t = worker[w].token
    <2>1. CASE child' = child
      BY <1>1, <2>1
    <2>2. CASE \E s \in ChildState : SetChild(w, s)
      <3>1. PICK s \in ChildState :
               child' = [child EXCEPT ![Job_(w)][Token_(w)] = s]
        BY <2>2 DEF SetChild
      <3>2. child' \in [Jobs -> [Tokens -> ChildState]]
            /\ \A j \in Jobs, t \in Tokens : child'[j][t] # child[j][t] =>
                   j = Job_(w) /\ t = Token_(w)
        BY <1>1, <3>1
      <3> QED
        BY <3>2 DEF Job_, Token_
    <2> QED
      BY <2>1, <2>2
  <1>3. Idle(x)
    BY DEF Busy, Idle
  <1> QED
    BY <1>2, <1>3, MoveKeepsWInv DEF Becomes
-----------------------------------------------------------------------------
(* The steps of the main thread.                                           *)

LEMMA StepFacts ==
    ASSUME WInv, IInv'
    PROVE  /\ WTypeOK /\ IInv
           /\ \A j \in Jobs : jobs[j].token \in Nat /\ jobs'[j].token \in Nat
           /\ child \in [Jobs -> [Tokens -> ChildState]]
           /\ inputsKept \subseteq Jobs /\ outputsKept \subseteq Jobs \X Tokens
           /\ late \subseteq Jobs \X Tokens
PROOF
  <1>1. WTypeOK /\ IInv
    BY DEF WInv
  <1>2. \A j \in Jobs : jobs[j].token \in Nat /\ jobs'[j].token \in Nat
    BY <1>1 DEF IInv, TypeOK, Job
  <1> QED
    BY <1>1, <1>2 DEF WTypeOK

LEMMA PrepareWInv ==
    ASSUME WInv, IInv', NEW w \in Workers, Prepare(w)
    PROVE  WInv'
PROOF
  <1>1. Busy(worker[w]) /\ RowsAge /\ UNCHANGED <<child, outputsKept, late>>
    BY StepFacts, QuietAges DEF Prepare, At, Busy, StoreIdle, vars
  <1>2. Job_(w) \in Jobs
    BY <1>1, BusyHolds
  <1>3. child[worker[w].job][worker[w].token] = "none"
    BY DEF WInv, WorkerOK, ChildKnown, Busy, Prepare, At
  <1>4. inputsKept' \subseteq Jobs
    BY <1>2, StepFacts DEF Prepare
  <1>5. PICK x : Becomes(w, x) /\ x.pc \in {"preflight", "join"}
    <2>1. CASE Goto(w, "preflight")
      BY <2>1, StepFacts, GotoBecomes DEF WorkerPc
    <2>2. CASE Fail(w, "join")
      BY <2>2, StepFacts, FailBecomes DEF WorkerPc
    <2> QED
      BY <2>1, <2>2 DEF Prepare
  <1>6. Busy(x) /\ ChildKnown(x, child')
    BY <1>1, <1>3, <1>5 DEF Becomes, Busy, ChildKnown
  <1> QED
    BY <1>1, <1>4, <1>5, <1>6, StepFacts, GoOnKeepsWInv

LEMMA PreflightWInv ==
    ASSUME WInv, IInv', NEW w \in Workers, Preflight(w)
    PROVE  WInv'
PROOF
  <1>1. Busy(worker[w]) /\ UNCHANGED <<child, inputsKept, outputsKept, late>>
    BY DEF Preflight, At, Busy, Keeps
  <1>2. Job_(w) \in Jobs /\ Token_(w) \in Tokens
    BY <1>1, BusyHolds
  <1>3. child[worker[w].job][worker[w].token] = "none"
    BY DEF WInv, WorkerOK, ChildKnown, Busy, Preflight, At
  <1>4. RowsAge
    BY <1>2, StepFacts, HeartbeatAges, QuietAges DEF Preflight, StoreIdle, vars
  <1>5. PICK x : Becomes(w, x) /\ x.pc \in {"start", "join"}
    <2>1. CASE worker' = [worker EXCEPT ![w].pc = "start",
                 ![w].cancelled = @ \/ jobs[Job_(w)].cancel_requested]
      <3> DEFINE c == worker[w].cancelled \/ jobs[Job_(w)].cancel_requested
                 y == [worker[w] EXCEPT !.pc = "start"]
                 x == [y EXCEPT !.cancelled = c]
      <3>1. worker \in [Workers -> WorkerState] /\ c \in BOOLEAN
            /\ "start" \in WorkerPc
        BY StepFacts DEF WTypeOK, WorkerPc
      <3>2. worker' = [worker EXCEPT ![w] = x]
        BY <2>1, <3>1
      <3> HIDE DEF c
      <3>3. /\ y \in WorkerState /\ y.job = worker[w].job
            /\ y.token = worker[w].token /\ y.pc = "start"
        BY <3>1 DEF WorkerState
      <3> HIDE DEF y
      <3>4. Becomes(w, x) /\ x.pc = "start"
        BY <3>1, <3>2, <3>3 DEF Becomes, WorkerState
      <3> HIDE DEF x
      <3> QED
        BY <3>4
    <2>2. "join" \in WorkerPc
      BY DEF WorkerPc
    <2>3. CASE worker' = [worker EXCEPT ![w].pc = "join", ![w].lost = TRUE]
      BY <2>3, <2>2, StepFacts, LoseBecomes
    <2>4. CASE Fail(w, "join")
      BY <2>4, <2>2, StepFacts, FailBecomes
    <2>5. \/ worker' = [worker EXCEPT ![w].pc = "start",
                 ![w].cancelled = @ \/ jobs[Job_(w)].cancel_requested]
          \/ worker' = [worker EXCEPT ![w].pc = "join", ![w].lost = TRUE]
          \/ Fail(w, "join")
      BY DEF Preflight
    <2> QED
      BY <2>1, <2>3, <2>4, <2>5
  <1>6. Busy(x) /\ ChildKnown(x, child')
    BY <1>1, <1>3, <1>5 DEF Becomes, Busy, ChildKnown
  <1> QED
    BY <1>1, <1>4, <1>5, <1>6, StepFacts, GoOnKeepsWInv

LEMMA StartWInv ==
    ASSUME WInv, IInv', NEW w \in Workers, Start(w)
    PROVE  WInv'
PROOF
  <1>1. /\ Busy(worker[w]) /\ RowsAge
        /\ UNCHANGED <<inputsKept, outputsKept, late>>
    BY StepFacts, QuietAges DEF Start, At, Busy, StoreIdle, vars, Keeps
  <1>2. child[worker[w].job][worker[w].token] = "none"
    BY DEF WInv, WorkerOK, ChildKnown, Busy, Start, At
  <1>3. CASE Goto(w, "record") /\ SetChild(w, "running")
    <2>1. PICK x : Becomes(w, x) /\ x.pc = "record"
      BY <1>3, StepFacts, GotoBecomes DEF WorkerPc
    <2>2. Busy(x) /\ ChildKnown(x, child') /\ "running" \in ChildState
      BY <2>1 DEF Busy, ChildKnown, ChildState
    <2> QED
      BY <1>1, <1>3, <2>1, <2>2, StepFacts, GoOnKeepsWInv
  <1>4. CASE (Goto(w, "join") \/ Fail(w, "join")) /\ UNCHANGED child
    <2>1. PICK x : Becomes(w, x) /\ x.pc = "join"
      <3>1. "join" \in WorkerPc
        BY DEF WorkerPc
      <3> QED
        BY <1>4, <3>1, StepFacts, GotoBecomes, FailBecomes
    <2>2. Busy(x) /\ ChildKnown(x, child')
      BY <1>2, <1>4, <2>1 DEF Becomes, Busy, ChildKnown
    <2> QED
      BY <1>1, <1>4, <2>1, <2>2, StepFacts, GoOnKeepsWInv
  <1> QED
    BY <1>3, <1>4 DEF Start

LEMMA RecordStartWInv ==
    ASSUME WInv, IInv', NEW w \in Workers, RecordStart(w)
    PROVE  WInv'
PROOF
  <1>1. /\ Busy(worker[w]) /\ UNCHANGED <<child, inputsKept, outputsKept, late>>
        /\ UNCHANGED <<jobs, attempts>>
    BY DEF RecordStart, At, Busy, Keeps, StoreIdle, vars, RecordEvent
  <1>2. RowsAge
    BY <1>1, StepFacts, QuietAges
  <1>3. PICK x : Becomes(w, x) /\ x.pc \in {"poll", "abort"}
    <2>1. \/ Goto(w, "poll") \/ Fail(w, "abort")
          \/ worker' = [worker EXCEPT ![w].pc = "abort", ![w].lost = TRUE]
      BY DEF RecordStart
    <2>2. "poll" \in WorkerPc /\ "abort" \in WorkerPc
      BY DEF WorkerPc
    <2>3. CASE Goto(w, "poll")
      BY <2>2, <2>3, StepFacts, GotoBecomes
    <2>4. CASE Fail(w, "abort")
      BY <2>2, <2>4, StepFacts, FailBecomes
    <2>5. CASE worker' = [worker EXCEPT ![w].pc = "abort", ![w].lost = TRUE]
      BY <2>2, <2>5, StepFacts, LoseBecomes
    <2> QED
      BY <2>1, <2>3, <2>4, <2>5
  <1>4. Busy(x) /\ ChildKnown(x, child')
    BY <1>3 DEF Busy, ChildKnown
  <1> QED
    BY <1>1, <1>2, <1>3, <1>4, StepFacts, GoOnKeepsWInv

LEMMA PollWInv ==
    ASSUME WInv, IInv', NEW w \in Workers, Poll(w)
    PROVE  WInv'
PROOF
  <1>1. /\ Busy(worker[w]) /\ RowsAge
        /\ UNCHANGED <<inputsKept, outputsKept, late>>
    BY StepFacts, QuietAges DEF Poll, At, Busy, StoreIdle, vars, Keeps
  <1>2. Job_(w) \in Jobs /\ Token_(w) \in Tokens
        /\ child \in [Jobs -> [Tokens -> ChildState]]
    BY <1>1, BusyHolds, StepFacts
  <1>3. {"check", "join", "abort"} \subseteq WorkerPc /\ "killed" \in ChildState
    BY DEF WorkerPc, ChildState
  <1>4. CASE Goto(w, "check") /\ Child(w) # "running" /\ UNCHANGED child
    <2>1. PICK x : Becomes(w, x) /\ x.pc = "check"
      BY <1>3, <1>4, StepFacts, GotoBecomes
    <2>2. Busy(x) /\ ChildKnown(x, child')
      BY <1>4, <2>1 DEF Becomes, Busy, ChildKnown, Child, Job_, Token_
    <2> QED
      BY <1>1, <1>4, <2>1, <2>2, StepFacts, GoOnKeepsWInv
  <1>5. CASE (Goto(w, "check") \/ Fail(w, "join")) /\ SetChild(w, "killed")
    <2>1. PICK x : Becomes(w, x) /\ x.pc \in {"check", "join"}
      BY <1>3, <1>5, StepFacts, GotoBecomes, FailBecomes
    <2>2. child'[Job_(w)][Token_(w)] = "killed"
      BY <1>2, <1>5 DEF SetChild
    <2>3. Busy(x) /\ ChildKnown(x, child')
      BY <2>1, <2>2 DEF Becomes, Busy, ChildKnown, Job_, Token_
    <2> QED
      BY <1>1, <1>3, <1>5, <2>1, <2>3, StepFacts, GoOnKeepsWInv
  <1>6. CASE Fail(w, "abort") /\ UNCHANGED child
    <2>1. PICK x : Becomes(w, x) /\ x.pc = "abort"
      BY <1>3, <1>6, StepFacts, FailBecomes
    <2>2. Busy(x) /\ ChildKnown(x, child')
      BY <2>1 DEF Busy, ChildKnown
    <2> QED
      BY <1>1, <1>6, <2>1, <2>2, StepFacts, GoOnKeepsWInv
  <1> QED
    BY <1>4, <1>5, <1>6 DEF Poll

LEMMA CheckWInv ==
    ASSUME WInv, IInv', NEW w \in Workers, Check(w)
    PROVE  WInv'
PROOF
  <1>1. Busy(worker[w]) /\ RowsAge /\ UNCHANGED <<child, inputsKept, late>>
    BY StepFacts, QuietAges DEF Check, At, Busy, StoreIdle, vars
  <1>2. child[worker[w].job][worker[w].token] # "running"
    BY DEF WInv, WorkerOK, ChildKnown, Busy, Check, At
  <1>3. outputsKept' \subseteq Jobs \X Tokens
    BY <1>1, BusyHolds, StepFacts DEF Check
  <1>4. PICK x : Becomes(w, x) /\ x.pc = "join"
    <2>1. "join" \in WorkerPc /\ "succeeded" \in Terminal
      BY DEF WorkerPc, Terminal
    <2>2. CASE Goto(w, "join") \/ Fail(w, "join")
      BY <2>1, <2>2, StepFacts, GotoBecomes, FailBecomes
    <2>3. CASE worker' = [worker EXCEPT ![w].pc = "join",
                                        ![w].outcome = "succeeded"]
      <3> DEFINE y == [worker[w] EXCEPT !.pc = "join"]
                 x == [y EXCEPT !.outcome = "succeeded"]
      <3>1. worker \in [Workers -> WorkerState]
        BY StepFacts DEF WTypeOK
      <3>2. worker' = [worker EXCEPT ![w] = x]
        BY <2>3, <3>1
      <3>3. /\ y \in WorkerState /\ y.job = worker[w].job
            /\ y.token = worker[w].token /\ y.pc = "join"
        BY <2>1, <3>1 DEF WorkerState
      <3> HIDE DEF y
      <3>4. Becomes(w, x) /\ x.pc = "join"
        BY <2>1, <3>2, <3>3 DEF Becomes, WorkerState
      <3> HIDE DEF x
      <3> QED
        BY <3>4
    <2> QED
      BY <2>2, <2>3 DEF Check
  <1>5. Busy(x) /\ ChildKnown(x, child')
    BY <1>1, <1>2, <1>4 DEF Becomes, Busy, ChildKnown
  <1> QED
    BY <1>1, <1>3, <1>4, <1>5, StepFacts, GoOnKeepsWInv

LEMMA AbortWInv ==
    ASSUME WInv, IInv', NEW w \in Workers, Abort(w)
    PROVE  WInv'
PROOF
  <1>1. /\ Busy(worker[w]) /\ RowsAge
        /\ UNCHANGED <<inputsKept, outputsKept, late>>
    BY StepFacts, QuietAges DEF Abort, At, Busy, StoreIdle, vars, Keeps
  <1>2. Job_(w) \in Jobs /\ Token_(w) \in Tokens /\ "join" \in WorkerPc
        /\ child \in [Jobs -> [Tokens -> ChildState]]
    BY <1>1, BusyHolds, StepFacts DEF WorkerPc
  <1> DEFINE s == IF Child(w) = "running" THEN "killed" ELSE Child(w)
  <1>3. s \in ChildState /\ s # "running"
    BY <1>2 DEF Child, ChildState
  <1> HIDE DEF s
  <1>4. CASE Goto(w, "join") /\ SetChild(w, s)
    <2>1. PICK x : Becomes(w, x) /\ x.pc = "join"
      BY <1>2, <1>4, StepFacts, GotoBecomes
    <2>2. child'[Job_(w)][Token_(w)] = s
      BY <1>2, <1>4 DEF SetChild
    <2>3. Busy(x) /\ ChildKnown(x, child')
      BY <1>3, <2>1, <2>2 DEF Becomes, Busy, ChildKnown, Job_, Token_
    <2> QED
      BY <1>1, <1>3, <1>4, <2>1, <2>3, StepFacts, GoOnKeepsWInv
  <1>5. CASE worker' = [worker EXCEPT ![w].pc = "join", ![w].lost = TRUE]
             /\ UNCHANGED child
    <2>1. PICK x : Becomes(w, x) /\ x.pc = "join" /\ x.lost = TRUE
      BY <1>2, <1>5, StepFacts, LoseBecomes
    <2>2. Busy(x) /\ ChildKnown(x, child')
      BY <2>1 DEF Busy, ChildKnown
    <2> QED
      BY <1>1, <1>5, <2>1, <2>2, StepFacts, GoOnKeepsWInv
  <1> QED
    BY <1>4, <1>5 DEF Abort, s

LEMMA JoinWInv ==
    ASSUME WInv, IInv', NEW w \in Workers, Join(w)
    PROVE  WInv'
PROOF
  <1>1. /\ Busy(worker[w]) /\ RowsAge /\ StoreIdle
        /\ UNCHANGED <<child, inputsKept, outputsKept>>
    BY StepFacts, QuietAges DEF Join, At, Busy, StoreIdle, vars
  <1>2. late' \subseteq Jobs \X Tokens
    BY <1>1, BusyHolds, StepFacts DEF Join
  <1>3. CASE Rest(w, "idle")
    BY <1>1, <1>2, <1>3, RestKeepsWInv
  <1>4. CASE /\ ~worker[w].lost
             /\ worker' = [worker EXCEPT ![w].pc = "finish",
                                         ![w].thread = "off",
                                         ![w].outcome = IF worker[w].cancelled
                                                        THEN "cancelled" ELSE @]
    <2> DEFINE o == IF worker[w].cancelled THEN "cancelled" ELSE worker[w].outcome
               y == [worker[w] EXCEPT !.pc = "finish"]
               z == [y EXCEPT !.thread = "off"]
               x == [z EXCEPT !.outcome = o]
    <2>1. worker \in [Workers -> WorkerState] /\ worker[w] \in WorkerState
          /\ "finish" \in WorkerPc /\ "off" \in ThreadState
      BY StepFacts DEF WTypeOK, WorkerPc, ThreadState
    <2>2. worker' = [worker EXCEPT ![w] = x]
      BY <1>4, <2>1
    <2>3. o \in Terminal
      BY <2>1 DEF WorkerState, Terminal
    <2> HIDE DEF o
    <2>4. /\ y \in WorkerState /\ y.job = worker[w].job
          /\ y.token = worker[w].token /\ y.pc = "finish"
      BY <2>1 DEF WorkerState
    <2> HIDE DEF y
    <2>5. /\ z \in WorkerState /\ z.job = worker[w].job
          /\ z.token = worker[w].token /\ z.pc = "finish"
      BY <2>1, <2>4 DEF WorkerState
    <2> HIDE DEF z
    <2>6. Becomes(w, x) /\ x.pc = "finish"
      BY <2>2, <2>3, <2>5 DEF Becomes, WorkerState
    <2> HIDE DEF x
    <2>7. child[worker[w].job][worker[w].token] # "running"
      BY <1>4 DEF WInv, WorkerOK, ChildKnown, Busy, Join, At
    <2>8. Busy(x) /\ ChildKnown(x, child')
      BY <1>1, <2>6, <2>7 DEF Becomes, Busy, ChildKnown
    <2> QED
      BY <1>1, <1>2, <2>6, <2>8, StepFacts, GoOnKeepsWInv
  <1> QED
    BY <1>3, <1>4 DEF Join

\* A completion by the worker that holds the attempt, its child being gone.
LEMMA FinishWInv ==
    ASSUME WInv, IInv', NEW w \in Workers, Busy(worker[w]), Rest(w, "idle"),
           Child(w) # "running", NEW status \in Terminal, NEW r, NEW p,
           Finish(Job_(w), Token_(w), status, r, p), UNCHANGED child, Keeps
    PROVE  WInv'
PROOF
  <1> DEFINE k == Job_(w)
             u == Token_(w)
  <1>1. /\ k \in Jobs /\ u \in Tokens /\ WTypeOK
        /\ jobs \in [Jobs -> Job]
        /\ attempts \in [Jobs -> [Tokens -> AttemptRow]]
    BY BusyHolds DEF WInv, IInv, TypeOK
  <1>2. PICK x \in WorkerState : /\ worker' = [worker EXCEPT ![w] = x]
                                 /\ ~Busy(x) /\ Idle(x)
    BY <1>1, RestBecomes
  <1>3. /\ worker \in [Workers -> WorkerState]
        /\ worker' \in [Workers -> WorkerState] /\ worker'[w] = x
        /\ \A v \in Workers \ {w} : worker'[v] = worker[v]
    BY <1>1, <1>2 DEF WTypeOK
  <1>4. \A j \in Jobs : jobs'[j].token = jobs[j].token
    <2>1. PICK s, o : jobs' = [jobs EXCEPT ![k].status = s, ![k].result = u,
                                           ![k].outputs = o]
      BY DEF Finish
    <2>2. \A j \in Jobs \ {k} : jobs'[j] = jobs[j]
      BY <1>1, <2>1
    <2>3. jobs'[k].token = jobs[k].token
      BY <1>1, <2>1 DEF Job
    <2> QED
      BY <2>2, <2>3
  <1>5. /\ attempts' = [attempts EXCEPT ![k][u] =
                            [status |-> status, lease |-> 0]]
        /\ child' = child /\ child[k][u] # "running"
        /\ inputsKept' = inputsKept /\ outputsKept' = outputsKept
        /\ late' = late
    BY DEF Finish, Child, Keeps
  <1>6. \A j \in Jobs, t \in Tokens :
           ~(j = k /\ t = u) => attempts'[j][t] = attempts[j][t]
    BY <1>1, <1>5
  <1>7. WTypeOK'
    <2>1. \A v \in Workers : Idle(worker'[v])
      BY <1>1, <1>2, <1>3 DEF WTypeOK
    <2> QED
      BY <1>1, <1>3, <1>5, <2>1 DEF WTypeOK
  <1>8. ASSUME NEW v \in Workers
        PROVE  WorkerOK(worker'[v], jobs', attempts', child')
    <2>1. CASE v = w \/ ~Busy(worker[v])
      BY <1>2, <1>3, <2>1 DEF WorkerOK
    <2>2. CASE v # w /\ Busy(worker[v])
      <3>1. worker'[v] = worker[v] /\ Attached(worker[v], jobs, attempts)
            /\ ChildKnown(worker[v], child)
        BY <1>3, <2>2 DEF WInv, WorkerOK
      <3>2. ~(worker[v].job = k /\ worker[v].token = u)
        BY <2>2 DEF WInv, Distinct, Job_, Token_
      <3>3. Attached(worker[v], jobs', attempts')
        BY <1>4, <1>6, <3>1, <3>2 DEF Attached
      <3> QED
        BY <1>5, <3>1, <3>3 DEF WorkerOK
    <2> QED
      BY <2>1, <2>2
  <1>9. Distinct'
    BY <1>2, <1>3 DEF WInv, Distinct
  <1>10. Unopened'
    BY <1>4, <1>5 DEF WInv, Unopened
  <1>11. AcknowledgedMeansStopped'
    <2> SUFFICES ASSUME NEW j \in Jobs, NEW t \in Tokens,
                        attempts'[j][t].status \in Terminal
                 PROVE  child[j][t] # "running"
      BY <1>5 DEF AcknowledgedMeansStopped
    <2>1. CASE j = k /\ t = u
      BY <1>5, <2>1
    <2>2. CASE ~(j = k /\ t = u)
      BY <1>6, <2>2 DEF WInv, AcknowledgedMeansStopped
    <2> QED
      BY <2>1, <2>2
  <1> QED
    BY <1>7, <1>8, <1>9, <1>10, <1>11 DEF WInv

LEMMA CompleteWInv ==
    ASSUME WInv, IInv', NEW w \in Workers, Complete(w) \/ Acknowledge(w)
    PROVE  WInv'
PROOF
  <1>1. Busy(worker[w]) /\ UNCHANGED child /\ Keeps
        /\ worker[w].pc \in {"finish", "acknowledge"}
    BY DEF Complete, Acknowledge, At, Busy
  <1>2. child[worker[w].job][worker[w].token] # "running"
    BY <1>1 DEF WInv, WorkerOK, ChildKnown
  <1>3. CASE Rest(w, "idle") /\ StoreIdle
    BY <1>1, <1>3, StepFacts, RestKeepsWInv DEF Keeps
  <1>4. CASE Rest(w, "idle") /\ ~StoreIdle
    <2>1. PICK status, r, p :
             status \in Terminal /\ Finish(Job_(w), Token_(w), status, r, p)
      <3>1. worker[w].outcome \in Terminal /\ "cancelled" \in Terminal
        BY DEF WInv, WTypeOK, WorkerState, Terminal
      <3>2. \/ Finish(Job_(w), Token_(w), worker[w].outcome,
                      worker[w].outcome = "failed",
                      worker[w].outcome = "succeeded")
            \/ Finish(Job_(w), Token_(w), "cancelled", FALSE, FALSE)
        BY <1>4 DEF Complete, Acknowledge
      <3> QED
        BY <3>1, <3>2
    <2> QED
      BY <1>1, <1>2, <1>4, <2>1, FinishWInv DEF Child, Job_, Token_
  <1>5. CASE Goto(w, "acknowledge") /\ StoreIdle
    <2>1. "acknowledge" \in WorkerPc /\ RowsAge
      BY <1>5, StepFacts, QuietAges DEF WorkerPc, StoreIdle, vars
    <2>2. PICK x : Becomes(w, x) /\ x.pc = "acknowledge"
      BY <1>5, <2>1, StepFacts, GotoBecomes
    <2>3. Busy(x) /\ ChildKnown(x, child')
      BY <1>1, <1>2, <2>2 DEF Becomes, Busy, ChildKnown
    <2>4. UNCHANGED <<child, inputsKept, outputsKept, late>>
      BY <1>1 DEF Keeps
    <2> QED
      BY <1>1, <2>1, <2>2, <2>3, <2>4, StepFacts, GoOnKeepsWInv
  <1> QED
    BY <1>3, <1>4, <1>5 DEF Complete, Acknowledge
-----------------------------------------------------------------------------
(* The other steps.                                                        *)

LEMMA TakeWInv ==
    ASSUME WInv, IInv', NEW w \in Workers, Take(w)
    PROVE  WInv'
PROOF
  <1>1. PICK k \in Jobs : /\ Claim(w, k)
                          /\ worker' = [worker EXCEPT
                                           ![w] = Begun(k, jobs[k].token + 1)]
    BY DEF Take
  <1> DEFINE t == jobs[k].token + 1
             x == Begun(k, t)
  <1>2. /\ WTypeOK /\ IInv /\ ~Busy(worker[w])
        /\ child' = child /\ inputsKept' = inputsKept
        /\ outputsKept' = outputsKept /\ late' = late
        /\ \A j \in Jobs : jobs[j].token \in Nat /\ jobs'[j].token \in Nat
    BY StepFacts DEF Take, At, Busy, Keeps
  <1>3. /\ RowsAge /\ t \in Tokens /\ jobs'[k].token = t
        /\ attempts'[k][t].status = "running"
    BY <1>1, <1>2, ClaimAges
  <1>4. worker' = [worker EXCEPT ![w] = x]
    BY <1>1
  <1>5. t > jobs[k].token
    BY <1>2
  <1> HIDE DEF t
  <1>6. x = [pc |-> "prepare", job |-> k, token |-> t, outcome |-> "failed",
             cancelled |-> FALSE, lost |-> FALSE, thread |-> "waiting"]
    BY DEF Begun
  <1> HIDE DEF x
  <1>7. x \in WorkerState /\ Idle(x)
    <2>1. "prepare" \in WorkerPc /\ "failed" \in Terminal
          /\ "waiting" \in ThreadState /\ t \in 0 .. AttemptLimit
      BY <1>3 DEF WorkerPc, Terminal, ThreadState, Tokens
    <2> QED
      BY <1>6, <2>1 DEF WorkerState, Idle
  <1>8. /\ worker \in [Workers -> WorkerState]
        /\ worker' \in [Workers -> WorkerState] /\ worker'[w] = x
        /\ \A v \in Workers \ {w} : worker'[v] = worker[v]
    BY <1>2, <1>4, <1>7 DEF WTypeOK
  <1>9. WTypeOK'
    <2>1. \A v \in Workers : Idle(worker'[v])
      BY <1>2, <1>7, <1>8 DEF WTypeOK
    <2> QED
      BY <1>2, <1>8, <2>1 DEF WTypeOK
  <1>10. ASSUME NEW v \in Workers
         PROVE  WorkerOK(worker'[v], jobs', attempts', child')
    <2>1. CASE v = w
      <3>1. child[k][t] = "none"
        BY <1>3, <1>5 DEF WInv, Unopened
      <3>2. Attached(x, jobs', attempts')
        BY <1>2, <1>3, <1>6 DEF Attached
      <3>3. ChildKnown(x, child')
        BY <1>2, <1>6, <3>1 DEF ChildKnown
      <3> QED
        BY <1>8, <2>1, <3>2, <3>3 DEF WorkerOK
    <2>2. CASE v # w
      BY <1>2, <1>3, <1>8, <2>2, AgingKeepsWorker DEF WInv, WorkerOK
    <2> QED
      BY <2>1, <2>2
  <1>11. Distinct'
    <2>1. ASSUME NEW v \in Workers \ {w}, Busy(worker[v])
          PROVE  ~(worker[v].job = k /\ worker[v].token = t)
      <3>1. worker[v].token \in Nat /\ t \in Nat
            /\ (worker[v].job \in Jobs => jobs[worker[v].job].token \in Nat)
        BY <1>2, <1>3, <2>1 DEF WInv, WorkerOK, Attached, Tokens
      <3>2. worker[v].token <= jobs[worker[v].job].token
        BY <2>1 DEF WInv, WorkerOK, Attached
      <3> QED
        BY <1>2, <1>5, <3>1, <3>2
    <2>2. x.job = k /\ x.token = t
      BY <1>6
    <2>3. Distinct
      BY DEF WInv
    <2> QED
      BY <1>8, <2>1, <2>2, <2>3 DEF Distinct
  <1>12. Unopened' /\ AcknowledgedMeansStopped'
    <2>1. \A j \in Jobs, u \in Tokens :
             u > jobs'[j].token => u > jobs[j].token
      BY <1>2, <1>3 DEF RowsAge, Tokens
    <2> QED
      BY <1>2, <1>3, <2>1
         DEF WInv, Unopened, AcknowledgedMeansStopped, RowsAge
  <1> QED
    BY <1>9, <1>10, <1>11, <1>12 DEF WInv

\* A step in which rows may age and no worker and no child moves.
LEMMA StandKeepsWInv ==
    ASSUME WInv, IInv', RowsAge,
           UNCHANGED <<worker, child, inputsKept, outputsKept>>,
           late' \subseteq Jobs \X Tokens
    PROVE  WInv'
PROOF
  <1>1. /\ worker' = worker /\ child' = child /\ WTypeOK
        /\ \A j \in Jobs : jobs[j].token \in Nat /\ jobs'[j].token \in Nat
    BY StepFacts
  <1>2. WTypeOK'
    BY <1>1 DEF WTypeOK
  <1>3. ASSUME NEW v \in Workers
        PROVE  WorkerOK(worker'[v], jobs', attempts', child')
    BY <1>1, AgingKeepsWorker DEF WInv, WorkerOK, WTypeOK
  <1>4. Unopened' /\ AcknowledgedMeansStopped'
    <2>1. \A j \in Jobs, u \in Tokens :
             u > jobs'[j].token => u > jobs[j].token
      BY <1>1 DEF RowsAge, Tokens
    <2> QED
      BY <1>1, <2>1 DEF WInv, Unopened, AcknowledgedMeansStopped, RowsAge
  <1>5. Distinct'
    BY <1>1 DEF WInv, Distinct
  <1> QED
    BY <1>2, <1>3, <1>4, <1>5 DEF WInv

LEMMA BeatWInv ==
    ASSUME WInv, IInv', NEW w \in Workers, Beat(w)
    PROVE  WInv'
PROOF
  <1>1. /\ Busy(worker[w]) /\ UNCHANGED <<child, inputsKept, outputsKept, late>>
        /\ worker \in [Workers -> WorkerState]
    BY DEF WInv, WTypeOK, Idle, Busy, Beat, Keeps
  <1>2. Job_(w) \in Jobs /\ Token_(w) \in Tokens
    BY <1>1, BusyHolds
  <1>3. RowsAge
    BY <1>2, StepFacts, HeartbeatAges, QuietAges DEF Beat, StoreIdle, vars
  <1>4. PICK s \in ThreadState : worker' = [worker EXCEPT ![w].thread = s]
    <2> DEFINE c == jobs[Job_(w)].cancel_requested
    <2>1. {AfterTurn(w), "saw_cancel", "saw_loss"} \subseteq ThreadState
      BY DEF ThreadState, AfterTurn
    <2>2. \/ worker' = [worker EXCEPT ![w].thread =
                           IF c THEN "saw_cancel" ELSE AfterTurn(w)]
          \/ worker' = [worker EXCEPT ![w].thread = "saw_loss"]
      BY <1>1 DEF Beat
    <2> HIDE DEF c
    <2> QED
      BY <2>1, <2>2
  <1> DEFINE x == [worker[w] EXCEPT !.thread = s]
  <1>5. Becomes(w, x) /\ x.pc = worker[w].pc /\ x.lost = worker[w].lost
    BY <1>1, <1>4 DEF Becomes, WorkerState
  <1> HIDE DEF x
  <1>6. Busy(x) /\ ChildKnown(x, child')
    BY <1>1, <1>5 DEF WInv, WorkerOK, Becomes, Busy, ChildKnown
  <1> QED
    BY <1>1, <1>3, <1>5, <1>6, StepFacts, GoOnKeepsWInv

LEMMA SetFlagWInv ==
    ASSUME WInv, IInv', NEW w \in Workers, SetFlag(w)
    PROVE  WInv'
PROOF
  <1>1. /\ Busy(worker[w]) /\ UNCHANGED <<child, inputsKept, outputsKept, late>>
        /\ worker \in [Workers -> WorkerState]
    BY DEF WInv, WTypeOK, Idle, Busy, SetFlag, Keeps
  <1>2. RowsAge
    BY StepFacts, QuietAges DEF SetFlag, StoreIdle, vars
  <1>3. PICK x : /\ Becomes(w, x) /\ x.pc = worker[w].pc
                 /\ worker[w].lost => x.lost
    <2>1. AfterTurn(w) \in ThreadState /\ "off" \in ThreadState
      BY DEF ThreadState, AfterTurn
    <2>2. CASE worker' = [worker EXCEPT ![w].thread = AfterTurn(w),
                                        ![w].cancelled = TRUE]
      <3> DEFINE y == [worker[w] EXCEPT !.thread = AfterTurn(w)]
                 x == [y EXCEPT !.cancelled = TRUE]
      <3>1. worker' = [worker EXCEPT ![w] = x]
        BY <1>1, <2>2
      <3>2. /\ y \in WorkerState /\ y.job = worker[w].job
            /\ y.token = worker[w].token /\ y.pc = worker[w].pc
            /\ y.lost = worker[w].lost
        BY <1>1, <2>1 DEF WorkerState
      <3> HIDE DEF y
      <3>3. Becomes(w, x) /\ x.pc = worker[w].pc /\ (worker[w].lost => x.lost)
        BY <3>1, <3>2 DEF Becomes, WorkerState
      <3> HIDE DEF x
      <3> QED
        BY <3>3
    <2>3. CASE worker' = [worker EXCEPT ![w].thread = "off", ![w].lost = TRUE]
      <3> DEFINE y == [worker[w] EXCEPT !.thread = "off"]
                 x == [y EXCEPT !.lost = TRUE]
      <3>1. worker' = [worker EXCEPT ![w] = x]
        BY <1>1, <2>3
      <3>2. /\ y \in WorkerState /\ y.job = worker[w].job
            /\ y.token = worker[w].token /\ y.pc = worker[w].pc
        BY <1>1, <2>1 DEF WorkerState
      <3> HIDE DEF y
      <3>3. Becomes(w, x) /\ x.pc = worker[w].pc /\ (worker[w].lost => x.lost)
        BY <3>1, <3>2 DEF Becomes, WorkerState
      <3> HIDE DEF x
      <3> QED
        BY <3>3
    <2> QED
      BY <2>2, <2>3 DEF SetFlag
  <1>4. Busy(x) /\ ChildKnown(x, child')
    BY <1>1, <1>3 DEF WInv, WorkerOK, Becomes, Busy, ChildKnown
  <1> QED
    BY <1>1, <1>2, <1>3, <1>4, StepFacts, GoOnKeepsWInv

LEMMA ChildExitsWInv ==
    ASSUME WInv, IInv', NEW k \in Jobs, NEW u \in Tokens, ChildExits(k, u)
    PROVE  WInv'
PROOF
  <1>1. PICK s \in {"ok", "bad"} : child' = [child EXCEPT ![k][u] = s]
    BY DEF ChildExits
  <1>2. /\ worker' = worker /\ UNCHANGED <<jobs, attempts>>
        /\ inputsKept' = inputsKept /\ outputsKept' = outputsKept
        /\ late' = late /\ child[k][u] = "running"
        /\ child \in [Jobs -> [Tokens -> ChildState]] /\ WTypeOK
    BY StepFacts DEF ChildExits, StoreIdle, vars, Keeps
  <1>3. /\ child' \in [Jobs -> [Tokens -> ChildState]]
        /\ \A j \in Jobs, t \in Tokens :
              child'[j][t] = IF j = k /\ t = u THEN s ELSE child[j][t]
    BY <1>1, <1>2 DEF ChildState
  <1>4. WTypeOK'
    BY <1>2, <1>3 DEF WTypeOK
  <1>5. ASSUME NEW v \in Workers
        PROVE  WorkerOK(worker'[v], jobs', attempts', child')
    BY <1>2, <1>3 DEF WInv, WorkerOK, Attached, ChildKnown
  <1>6. Unopened' /\ AcknowledgedMeansStopped'
    BY <1>2, <1>3 DEF WInv, Unopened, AcknowledgedMeansStopped
  <1>7. Distinct'
    BY <1>2 DEF WInv, Distinct
  <1> QED
    BY <1>4, <1>5, <1>6, <1>7 DEF WInv
-----------------------------------------------------------------------------
LEMMA WInitWInv == WInit => WInv
PROOF
  <1> SUFFICES ASSUME WInit PROVE WInv
    OBVIOUS
  <1>1. IInv
    BY InitIInv DEF WInit
  <1>2. Resting("idle") \in WorkerState /\ ~Busy(Resting("idle"))
        /\ Idle(Resting("idle"))
    BY ConstantTypes
       DEF Resting, WorkerState, WorkerPc, Terminal, ThreadState, Busy, Idle
  <1>3. \A w \in Workers : worker[w] = Resting("idle")
    BY DEF WInit
  <1>4. WTypeOK
    <2>1. worker \in [Workers -> WorkerState]
      BY <1>2 DEF WInit
    <2>2. child \in [Jobs -> [Tokens -> ChildState]]
      BY DEF WInit, ChildState
    <2> QED
      BY <1>2, <1>3, <2>1, <2>2 DEF WTypeOK, WInit
  <1>5. /\ \A w \in Workers : WorkerOK(worker[w], jobs, attempts, child)
        /\ Distinct
    BY <1>2, <1>3 DEF WorkerOK, Distinct
  <1>6. Unopened /\ AcknowledgedMeansStopped
    BY DEF WInit, Unopened, AcknowledgedMeansStopped
  <1> QED
    BY <1>1, <1>4, <1>5, <1>6 DEF WInv

LEMMA WNextWInv == WInv /\ [WNext]_wvars => WInv'
PROOF
  <1> SUFFICES ASSUME WInv, [WNext]_wvars PROVE WInv'
    OBVIOUS
  <1>1. IInv' /\ IInv
        /\ \A j \in Jobs : jobs[j].token \in Nat /\ jobs'[j].token \in Nat
    BY StepKeepsIInv DEF WInv
  <1>2. CASE \E w \in Workers : Take(w) \/ TakeNothing(w)
    <2>1. PICK w \in Workers : Take(w) \/ TakeNothing(w)
      BY <1>2
    <2>2. CASE TakeNothing(w)
      BY <1>1, <2>2, ClaimNoneAges, StandKeepsWInv, StepFacts
         DEF TakeNothing, ownVars
    <2> QED
      BY <1>1, <2>1, <2>2, TakeWInv
  <1>3. CASE \E w \in Workers : MainStep(w)
    BY <1>1, <1>3, PrepareWInv, PreflightWInv, StartWInv, RecordStartWInv,
       PollWInv, CheckWInv, AbortWInv, JoinWInv, CompleteWInv DEF MainStep
  <1>4. CASE \E w \in Workers : Beat(w) \/ SetFlag(w)
    BY <1>1, <1>4, BeatWInv, SetFlagWInv
  <1>5. CASE \E w \in Workers : Crash(w) \/ Restart(w)
    BY <1>1, <1>5, RestKeepsWInv, StepFacts DEF Crash, Restart, Keeps
  <1>6. CASE \E j \in Jobs, t \in Tokens : LateBeat(j, t) \/ ChildExits(j, t)
    <2>1. PICK j \in Jobs, t \in Tokens : LateBeat(j, t) \/ ChildExits(j, t)
      BY <1>6
    <2>2. CASE LateBeat(j, t)
      <3>1. RowsAge
        BY <1>1, <2>2, HeartbeatAges, QuietAges DEF LateBeat, StoreIdle, vars
      <3> QED
        BY <1>1, <2>2, <3>1, StandKeepsWInv, StepFacts DEF LateBeat
    <2> QED
      BY <1>1, <2>1, <2>2, ChildExitsWInv
  <1>7. CASE ClientStep
    BY <1>1, <1>7, ClientAges, StandKeepsWInv, StepFacts DEF ClientStep, ownVars
  <1>8. CASE ClockStep
    BY <1>1, <1>8, ClockAges, StandKeepsWInv, StepFacts DEF ClockStep, ownVars
  <1>9. CASE UNCHANGED wvars
    BY <1>1, <1>9, QuietAges, StandKeepsWInv, StepFacts DEF wvars, ownVars, vars
  <1> QED
    BY <1>2, <1>3, <1>4, <1>5, <1>6, <1>7, <1>8, <1>9 DEF WNext
-----------------------------------------------------------------------------
(* The worker tables stay well formed and each attempt has one worker and  *)
(* one process, whatever crashes, is lost or is refused.                   *)
THEOREM WorkerInductive == WSpec => []WInv
PROOF BY WInitWInv, WNextWInv, PTL DEF WSpec

(* run_once keeps a resting worker's record clean.                         *)
THEOREM WorkersTyped == WSpec => []WTypeOK
PROOF
  <1>1. WInv => WTypeOK
    BY DEF WInv
  <1> QED
    BY <1>1, WorkerInductive, PTL

(* docs/durable-research.md: the process tree is gone before a completion  *)
(* is committed.  No completed attempt has a running process.              *)
THEOREM StoppedBeforeCommit == WSpec => []AcknowledgedMeansStopped
PROOF
  <1>1. WInv => AcknowledgedMeansStopped
    BY DEF WInv
  <1> QED
    BY <1>1, WorkerInductive, PTL

(* Workers, threads, crashes and clients only ever perform the store's     *)
(* operations: the composed system implements the store's specification.   *)
THEOREM WorkersFollowStore == WSpec => StoreIsFollowed
PROOF
  <1>1. WInit => Init
    BY DEF WInit
  <1>2. WInv /\ [WNext]_wvars => [Next]_vars
    BY StoreStep
  <1> QED
    BY <1>1, <1>2, WorkerInductive, PTL DEF WSpec, StoreIsFollowed, Spec

(* So what is proved of the store alone holds under the workers.           *)
THEOREM StoreHoldsUnderWorkers == WSpec => []StoreInvariant
PROOF
  <1>1. StoreIsFollowed => []StoreInvariant
    BY StoreHolds DEF StoreIsFollowed
  <1> QED
    BY <1>1, WorkersFollowStore, PTL

(* Whatever workers, threads and crashes do, a job's row and the end of    *)
(* each of its attempts can be read off the journal.                       *)
THEOREM JournalTellsOfWorkers == WSpec => []JournalTellsAll
PROOF
  <1>1. StoreIsFollowed => []JournalTellsAll
    BY JournalStaysTrue DEF StoreIsFollowed
  <1> QED
    BY <1>1, WorkersFollowStore, PTL
-----------------------------------------------------------------------------
(* Why every decision is earned: what a worker knows while it is busy.     *)

\* From the flags and the outcome of a worker's record follow facts about the
\* store and the artifacts: jb, ch, ik and ok are jobs, child, inputsKept and
\* outputsKept.
Knows(x, jb, ch, ik, ok) ==
    /\ x.pc \in {"preflight", "start", "record", "poll", "check"} => x.job \in ik
    /\ x.outcome = "succeeded" =>
          x.job \in ik /\ ch[x.job][x.token] = "ok" /\ <<x.job, x.token>> \in ok
    /\ x.cancelled => jb[x.job].cancel_requested
    /\ x.thread = "saw_cancel" => jb[x.job].cancel_requested
    /\ x.outcome = "cancelled" => jb[x.job].cancel_requested
    /\ x.pc = "acknowledge" => jb[x.job].cancel_requested

Decided == SuccessIsRetained /\ FailedOnlyWhenExhausted /\ CancelledOnlyIfAsked

EarnedInv ==
    /\ WInv
    /\ \A w \in Workers :
          Busy(worker[w]) => Knows(worker[w], jobs, child, inputsKept, outputsKept)
    /\ Decided

\* What is known stays true: artifacts are kept, a process that ended well has
\* ended well, and nobody withdraws a cancellation.
Grows ==
    /\ inputsKept \subseteq inputsKept'
    /\ outputsKept \subseteq outputsKept'
    /\ \A j \in Jobs, t \in Tokens : child[j][t] = "ok" => child'[j][t] = "ok"
    /\ \A j \in Jobs : jobs[j].cancel_requested => jobs'[j].cancel_requested

LEMMA KnowledgeLasts ==
    ASSUME Grows, NEW x, x.job \in Jobs, x.token \in Tokens,
           Knows(x, jobs, child, inputsKept, outputsKept)
    PROVE  Knows(x, jobs', child', inputsKept', outputsKept')
PROOF BY DEF Grows, Knows

LEMMA CancelStays ==
    ASSUME IInv, [Next]_vars, NEW j \in Jobs, jobs[j].cancel_requested
    PROVE  jobs'[j].cancel_requested
PROOF
  <1>1. jobs \in [Jobs -> Job] /\ jobs[j].status \in {"running", "cancelled"}
    BY DEF IInv, TypeOK, JobOK, WithinRequest
  <1>2. CASE jobs' = jobs
    BY <1>2
  <1>3. CASE \E k \in Jobs, r \in Requests : Submit(k, r)
    BY <1>1, <1>3 DEF Submit, Exists
  <1>4. CASE \E w \in Workers, k \in Jobs : Claim(w, k)
    <2>1. PICK w \in Workers, k \in Jobs : Claim(w, k)
      BY <1>4
    <2> DEFINE t == jobs[k].token + 1
    <2>2. jobs'[j] = IF j = k
                     THEN [jobs[j] EXCEPT !.status = "running", !.token = t]
                     ELSE [jobs[j] EXCEPT !.status = ExpiredStatus(j)]
      BY <2>1 DEF Claim
    <2>3. jobs'[j].cancel_requested = jobs[j].cancel_requested
      BY <1>1, <2>2 DEF Job
    <2> QED
      BY <2>3
  <1>5. CASE \E w \in Workers : ClaimNone(w)
    BY <1>1, <1>5 DEF ClaimNone, Job
  <1>6. CASE \E k \in Jobs : Cancel(k)
    BY <1>1, <1>6 DEF Cancel, Job
  <1>7. CASE \E k \in Jobs, t \in Tokens, status \in Terminal,
               retryable \in BOOLEAN, published \in BOOLEAN :
                  Finish(k, t, status, retryable, published)
    BY <1>1, <1>7 DEF Finish, Job
  <1> QED
    BY <1>2, <1>3, <1>4, <1>5, <1>6, <1>7
       DEF Next, vars, Heartbeat, RecordEvent, Tick, SetClockBack

\* Of the processes, only one that runs or does not exist yet is ever changed.
LEMMA ChildStaysOk ==
    ASSUME WInv, [WNext]_wvars, NEW j \in Jobs, NEW t \in Tokens,
           child[j][t] = "ok"
    PROVE  child'[j][t] = "ok"
PROOF
  <1>1. child \in [Jobs -> [Tokens -> ChildState]]
    BY DEF WInv, WTypeOK
  <1>2. CASE UNCHANGED child
    BY <1>2
  <1>3. ASSUME NEW k \in Jobs, NEW u \in Tokens, ChildExits(k, u)
        PROVE  child'[j][t] = "ok"
    BY <1>1, <1>3 DEF ChildExits
  <1>4. ASSUME NEW w \in Workers, NEW s, SetChild(w, s), Busy(worker[w]),
               Child(w) \in {"none", "running"} \/ s = Child(w)
        PROVE  child'[j][t] = "ok"
    <2>1. Job_(w) \in Jobs /\ Token_(w) \in Tokens
      BY <1>4, BusyHolds
    <2> QED
      BY <1>1, <1>4, <2>1 DEF SetChild, Child
  <1>5. ASSUME NEW w \in Workers, Start(w) \/ Poll(w) \/ Abort(w)
        PROVE  child'[j][t] = "ok"
    <2>1. Busy(worker[w])
      BY <1>5 DEF Start, Poll, Abort, At, Busy
    <2>2. CASE Start(w)
      <3>1. Child(w) = "none"
        BY <2>1, <2>2 DEF WInv, WorkerOK, ChildKnown, Start, At, Child, Job_, Token_
      <3> QED
        BY <1>2, <1>4, <2>1, <2>2, <3>1 DEF Start
    <2>3. CASE Poll(w)
      BY <1>2, <1>4, <2>1, <2>3 DEF Poll
    <2>4. CASE Abort(w)
      BY <1>2, <1>4, <2>1, <2>4 DEF Abort
    <2> QED
      BY <1>5, <2>2, <2>3, <2>4
  <1>6. \/ UNCHANGED child
        \/ \E k \in Jobs, u \in Tokens : ChildExits(k, u)
        \/ \E w \in Workers : Start(w) \/ Poll(w) \/ Abort(w)
    BY DEF WNext, wvars, ownVars, Take, TakeNothing, MainStep, Prepare,
           Preflight, RecordStart, Check, Join, Complete, Acknowledge, Beat,
           SetFlag, Crash, Restart, LateBeat, ClientStep, ClockStep
  <1> QED
    BY <1>2, <1>3, <1>5, <1>6

LEMMA StepGrows ==
    ASSUME WInv, [WNext]_wvars
    PROVE  Grows
PROOF
  <1>1. \A j \in Jobs : jobs[j].cancel_requested => jobs'[j].cancel_requested
    BY StoreStep, CancelStays DEF WInv
  <1>2. inputsKept \subseteq inputsKept' /\ outputsKept \subseteq outputsKept'
    BY DEF WNext, wvars, ownVars, Take, TakeNothing, MainStep, Prepare,
           Preflight, Start, RecordStart, Poll, Check, Abort, Join, Complete,
           Acknowledge, Beat, SetFlag, Crash, Restart, LateBeat, ChildExits,
           ClientStep, ClockStep, Keeps
  <1> QED
    BY <1>1, <1>2, ChildStaysOk DEF Grows
-----------------------------------------------------------------------------
(* What the worker that moves knows after its step.                        *)

KnowsNext(w) ==
    Busy(worker'[w]) =>
        Knows(worker'[w], jobs', child', inputsKept', outputsKept')

\* y is x but for what it may forget and for what needs no knowledge.
Forgets(x, y) ==
    /\ y.job = x.job /\ y.token = x.token
    /\ y.outcome \in {x.outcome, "failed"}
    /\ y.cancelled = x.cancelled
    /\ y.thread \in {x.thread, "waiting", "saw_loss", "off"}

LEMMA ForgettingKnows ==
    ASSUME NEW x, NEW y, NEW jb, NEW ch, NEW ik, NEW ok,
           Knows(x, jb, ch, ik, ok), Forgets(x, y),
           y.pc \in {"preflight", "start", "record", "poll", "check"} => x.job \in ik,
           y.pc = "acknowledge" => jb[x.job].cancel_requested
    PROVE  Knows(y, jb, ch, ik, ok)
PROOF BY DEF Knows, Forgets

\* Its own record and what it knew, carried over to the new tables.
LEMMA KnewBefore ==
    ASSUME EarnedInv, [WNext]_wvars, NEW w \in Workers, Busy(worker[w])
    PROVE  /\ Knows(worker[w], jobs', child', inputsKept', outputsKept')
           /\ worker[w] \in WorkerState /\ worker \in [Workers -> WorkerState]
           /\ worker[w].job \in Jobs /\ worker[w].token \in Tokens
PROOF
  <1>1. /\ WInv
        /\ worker[w].job \in Jobs /\ worker[w].token \in Tokens
        /\ worker \in [Workers -> WorkerState]
        /\ Knows(worker[w], jobs, child, inputsKept, outputsKept)
    BY BusyHolds DEF EarnedInv, WInv, WTypeOK, Job_, Token_
  <1> QED
    BY <1>1, StepGrows, KnowledgeLasts

LEMMA GotoForgets ==
    ASSUME worker \in [Workers -> WorkerState], NEW w \in Workers,
           NEW p \in WorkerPc, Goto(w, p) \/ Fail(w, p)
    PROVE  Forgets(worker[w], worker'[w]) /\ worker'[w].pc = p
PROOF
  <1>1. CASE Goto(w, p)
    BY <1>1 DEF Goto, Forgets, WorkerState
  <1>2. CASE Fail(w, p)
    BY <1>2 DEF Fail, Forgets, WorkerState
  <1> QED
    BY <1>1, <1>2

LEMMA LoseForgets ==
    ASSUME worker \in [Workers -> WorkerState], NEW w \in Workers,
           NEW p \in WorkerPc,
           worker' = [worker EXCEPT ![w].pc = p, ![w].lost = TRUE]
    PROVE  Forgets(worker[w], worker'[w]) /\ worker'[w].pc = p
PROOF BY DEF Forgets, WorkerState

LEMMA RestKnows ==
    ASSUME worker \in [Workers -> WorkerState], NEW w \in Workers,
           NEW p \in {"idle", "down"}, Rest(w, p)
    PROVE  KnowsNext(w)
PROOF BY DEF Rest, Resting, KnowsNext, Busy

LEMMA PreparedKnows ==
    ASSUME EarnedInv, [WNext]_wvars, NEW w \in Workers, Prepare(w)
    PROVE  KnowsNext(w)
PROOF
  <1>1. Busy(worker[w])
    BY DEF Prepare, At, Busy
  <1>2. worker[w].job \in inputsKept' \/ Fail(w, "join")
    BY DEF Prepare, Job_
  <1>3. Goto(w, "preflight") \/ Fail(w, "join")
    BY DEF Prepare
  <1>4. Forgets(worker[w], worker'[w])
        /\ worker'[w].pc \in {"preflight", "join"}
        /\ (Fail(w, "join") => worker'[w].pc = "join")
    BY <1>1, <1>3, KnewBefore, GotoForgets DEF WorkerPc
  <1> QED
    BY <1>1, <1>2, <1>4, KnewBefore, ForgettingKnows DEF KnowsNext

LEMMA PreflightKnows ==
    ASSUME EarnedInv, [WNext]_wvars, NEW w \in Workers, Preflight(w)
    PROVE  KnowsNext(w)
PROOF
  <1>1. Busy(worker[w]) /\ worker[w].pc = "preflight" /\ jobs' = jobs
    BY DEF Preflight, At, Busy, StoreIdle, vars, Heartbeat
  <1>2. worker[w].job \in inputsKept'
    BY <1>1, KnewBefore DEF Knows
  <1>3. CASE worker' = [worker EXCEPT ![w].pc = "start",
               ![w].cancelled = @ \/ jobs[Job_(w)].cancel_requested]
    <2> DEFINE c == worker[w].cancelled \/ jobs[Job_(w)].cancel_requested
               y == [[worker[w] EXCEPT !.pc = "start"] EXCEPT !.cancelled = c]
    <2>1. worker'[w] = y
      BY <1>1, <1>3, KnewBefore
    <2>2. c => jobs'[worker[w].job].cancel_requested
      BY <1>1, KnewBefore DEF Knows, Job_
    <2> HIDE DEF c
    <2>3. /\ y.job = worker[w].job /\ y.token = worker[w].token
          /\ y.outcome = worker[w].outcome /\ y.thread = worker[w].thread
          /\ y.pc = "start" /\ y.cancelled = c
      BY <1>1, KnewBefore DEF WorkerState
    <2> HIDE DEF y
    <2>4. Knows(y, jobs', child', inputsKept', outputsKept')
      BY <1>1, <1>2, <2>2, <2>3, KnewBefore DEF Knows
    <2> QED
      BY <2>1, <2>4 DEF KnowsNext
  <1>4. CASE \/ worker' = [worker EXCEPT ![w].pc = "join", ![w].lost = TRUE]
             \/ Fail(w, "join")
    <2>1. Forgets(worker[w], worker'[w]) /\ worker'[w].pc = "join"
      BY <1>1, <1>4, KnewBefore, GotoForgets, LoseForgets DEF WorkerPc
    <2> QED
      BY <1>1, <2>1, KnewBefore, ForgettingKnows DEF KnowsNext
  <1> QED
    BY <1>3, <1>4 DEF Preflight

LEMMA StartKnows ==
    ASSUME EarnedInv, [WNext]_wvars, NEW w \in Workers, Start(w)
    PROVE  KnowsNext(w)
PROOF
  <1>1. Busy(worker[w]) /\ worker[w].pc = "start"
    BY DEF Start, At, Busy
  <1>2. worker[w].job \in inputsKept'
    BY <1>1, KnewBefore DEF Knows
  <1>3. PICK p \in {"join", "record"} : Goto(w, p) \/ Fail(w, p)
    BY DEF Start
  <1>4. Forgets(worker[w], worker'[w]) /\ worker'[w].pc = p
    BY <1>1, <1>3, KnewBefore, GotoForgets DEF WorkerPc
  <1> QED
    BY <1>1, <1>2, <1>4, KnewBefore, ForgettingKnows DEF KnowsNext

LEMMA RecordKnows ==
    ASSUME EarnedInv, [WNext]_wvars, NEW w \in Workers, RecordStart(w)
    PROVE  KnowsNext(w)
PROOF
  <1>1. Busy(worker[w]) /\ worker[w].pc = "record"
    BY DEF RecordStart, At, Busy
  <1>2. worker[w].job \in inputsKept'
    BY <1>1, KnewBefore DEF Knows
  <1>3. PICK p \in {"poll", "abort"} :
           \/ Goto(w, p) \/ Fail(w, p)
           \/ worker' = [worker EXCEPT ![w].pc = p, ![w].lost = TRUE]
    BY DEF RecordStart
  <1>4. Forgets(worker[w], worker'[w]) /\ worker'[w].pc = p
    BY <1>1, <1>3, KnewBefore, GotoForgets, LoseForgets DEF WorkerPc
  <1> QED
    BY <1>1, <1>2, <1>4, KnewBefore, ForgettingKnows DEF KnowsNext

LEMMA PollKnows ==
    ASSUME EarnedInv, [WNext]_wvars, NEW w \in Workers, Poll(w)
    PROVE  KnowsNext(w)
PROOF
  <1>1. Busy(worker[w]) /\ worker[w].pc = "poll"
    BY DEF Poll, At, Busy
  <1>2. worker[w].job \in inputsKept'
    BY <1>1, KnewBefore DEF Knows
  <1>3. PICK p \in {"check", "join", "abort"} : Goto(w, p) \/ Fail(w, p)
    BY DEF Poll
  <1>4. Forgets(worker[w], worker'[w]) /\ worker'[w].pc = p
    BY <1>1, <1>3, KnewBefore, GotoForgets DEF WorkerPc
  <1> QED
    BY <1>1, <1>2, <1>4, KnewBefore, ForgettingKnows DEF KnowsNext

LEMMA CheckKnows ==
    ASSUME EarnedInv, [WNext]_wvars, NEW w \in Workers, Check(w)
    PROVE  KnowsNext(w)
PROOF
  <1>1. Busy(worker[w]) /\ worker[w].pc = "check" /\ child' = child
    BY DEF Check, At, Busy
  <1>2. worker[w].job \in inputsKept'
    BY <1>1, KnewBefore DEF Knows
  <1>3. CASE Goto(w, "join") \/ Fail(w, "join")
    <2>1. Forgets(worker[w], worker'[w]) /\ worker'[w].pc = "join"
      BY <1>1, <1>3, KnewBefore, GotoForgets DEF WorkerPc
    <2> QED
      BY <1>1, <2>1, KnewBefore, ForgettingKnows DEF KnowsNext
  <1>4. CASE /\ Child(w) = "ok"
             /\ outputsKept' = outputsKept \cup {<<Job_(w), Token_(w)>>}
             /\ worker' = [worker EXCEPT ![w].pc = "join",
                                         ![w].outcome = "succeeded"]
    <2> DEFINE x == worker[w]
               y == worker'[w]
    <2>1. /\ y.job = x.job /\ y.token = x.token /\ y.pc = "join"
          /\ y.outcome = "succeeded"
          /\ y.cancelled = x.cancelled /\ y.thread = x.thread
      BY <1>1, <1>4, KnewBefore DEF WorkerState
    <2>2. child'[x.job][x.token] = "ok" /\ <<x.job, x.token>> \in outputsKept'
      BY <1>1, <1>4 DEF Child, Job_, Token_
    <2> HIDE DEF y
    <2>3. Knows(y, jobs', child', inputsKept', outputsKept')
      BY <1>1, <1>2, <2>1, <2>2, KnewBefore DEF Knows
    <2> QED
      BY <2>3 DEF KnowsNext, y
  <1> QED
    BY <1>3, <1>4 DEF Check

LEMMA AbortKnows ==
    ASSUME EarnedInv, [WNext]_wvars, NEW w \in Workers, Abort(w)
    PROVE  KnowsNext(w)
PROOF
  <1>1. Busy(worker[w])
    BY DEF Abort, At, Busy
  <1>2. \/ Goto(w, "join")
        \/ worker' = [worker EXCEPT ![w].pc = "join", ![w].lost = TRUE]
    BY DEF Abort
  <1>3. Forgets(worker[w], worker'[w]) /\ worker'[w].pc = "join"
    BY <1>1, <1>2, KnewBefore, GotoForgets, LoseForgets DEF WorkerPc
  <1> QED
    BY <1>1, <1>3, KnewBefore, ForgettingKnows DEF KnowsNext

LEMMA JoinKnows ==
    ASSUME EarnedInv, [WNext]_wvars, NEW w \in Workers, Join(w)
    PROVE  KnowsNext(w)
PROOF
  <1>1. Busy(worker[w])
    BY DEF Join, At, Busy
  <1>2. CASE Rest(w, "idle")
    BY <1>1, <1>2, KnewBefore, RestKnows
  <1>3. CASE worker' = [worker EXCEPT ![w].pc = "finish", ![w].thread = "off",
               ![w].outcome = IF worker[w].cancelled THEN "cancelled" ELSE @]
    <2> DEFINE x == worker[w]
               y == worker'[w]
    <2>1. /\ y.job = x.job /\ y.token = x.token /\ y.pc = "finish"
          /\ y.outcome = (IF x.cancelled THEN "cancelled" ELSE x.outcome)
          /\ y.cancelled = x.cancelled /\ y.thread = "off"
      BY <1>1, <1>3, KnewBefore DEF WorkerState
    <2> HIDE DEF y
    <2>2. Knows(y, jobs', child', inputsKept', outputsKept')
      BY <1>1, <2>1, KnewBefore DEF Knows
    <2> QED
      BY <2>2 DEF KnowsNext, y
  <1> QED
    BY <1>2, <1>3 DEF Join

LEMMA CompleteKnows ==
    ASSUME EarnedInv, [WNext]_wvars, NEW w \in Workers,
           Complete(w) \/ Acknowledge(w)
    PROVE  KnowsNext(w)
PROOF
  <1>1. Busy(worker[w])
    BY DEF Complete, Acknowledge, At, Busy
  <1>2. CASE Rest(w, "idle")
    BY <1>1, <1>2, KnewBefore, RestKnows
  <1>3. CASE /\ Complete(w) /\ Goto(w, "acknowledge") /\ StoreIdle
             /\ jobs[Job_(w)].cancel_requested
    <2>1. Forgets(worker[w], worker'[w]) /\ worker'[w].pc = "acknowledge"
      BY <1>1, <1>3, KnewBefore, GotoForgets DEF WorkerPc
    <2>2. jobs'[worker[w].job].cancel_requested
      BY <1>3 DEF StoreIdle, vars, Job_
    <2> QED
      BY <1>1, <2>1, <2>2, KnewBefore, ForgettingKnows DEF KnowsNext
  <1> QED
    BY <1>2, <1>3 DEF Complete, Acknowledge

LEMMA TakeKnows ==
    ASSUME EarnedInv, NEW w \in Workers, Take(w)
    PROVE  KnowsNext(w)
PROOF
  <1>1. worker \in [Workers -> WorkerState]
    BY DEF EarnedInv, WInv, WTypeOK
  <1>2. PICK j \in Jobs : worker' = [worker EXCEPT ![w] = Begun(j, jobs[j].token + 1)]
    BY DEF Take
  <1> QED
    BY <1>1, <1>2 DEF Begun, KnowsNext, Knows

LEMMA BeatKnows ==
    ASSUME EarnedInv, [WNext]_wvars, NEW w \in Workers, Beat(w) \/ SetFlag(w)
    PROVE  KnowsNext(w)
PROOF
  <1>1. Busy(worker[w]) /\ jobs' = jobs
    BY DEF Beat, SetFlag, EarnedInv, WInv, WTypeOK, Idle, Busy, StoreIdle, vars,
           Heartbeat
  <1> DEFINE x == worker[w]
             y == worker'[w]
  <1>2. /\ Knows(x, jobs', child', inputsKept', outputsKept')
        /\ worker \in [Workers -> WorkerState] /\ x.job \in Jobs
    BY <1>1, KnewBefore
  <1>3. /\ y.job = x.job /\ y.token = x.token /\ y.pc = x.pc
        /\ y.outcome = x.outcome
    BY <1>2 DEF Beat, SetFlag, WorkerState
  <1>4. y.thread = "saw_cancel" => jobs'[x.job].cancel_requested
    <2>1. CASE Beat(w)
      BY <1>1, <1>2, <2>1 DEF Beat, WorkerState, Job_, Knows, AfterTurn
    <2>2. CASE SetFlag(w)
      BY <1>2, <2>2 DEF SetFlag, WorkerState, AfterTurn
    <2> QED
      BY <2>1, <2>2
  <1>5. y.cancelled => x.cancelled \/ x.thread = "saw_cancel"
    <2>1. CASE Beat(w)
      BY <1>2, <2>1 DEF Beat, WorkerState
    <2>2. CASE SetFlag(w)
      BY <1>2, <2>2 DEF SetFlag, WorkerState
    <2> QED
      BY <2>1, <2>2
  <1> HIDE DEF x, y
  <1>6. Knows(y, jobs', child', inputsKept', outputsKept')
    BY <1>2, <1>3, <1>4, <1>5 DEF Knows
  <1> QED
    BY <1>6 DEF KnowsNext, y
-----------------------------------------------------------------------------
(* Each operation of the store decides only what is earned.                *)

\* The new row of job j is as before, or is not decided, or is earned.
EarnedRow(j) ==
    \/ jobs'[j] = jobs[j]
    \/ jobs'[j].status \notin Terminal
    \/ /\ jobs'[j].status = "failed"
       /\ jobs'[j].token = MaxAttempts[jobs'[j].request]
    \/ jobs'[j].status = "cancelled" /\ jobs'[j].cancel_requested
    \/ /\ jobs'[j].status = "succeeded"
       /\ child'[j][jobs'[j].token] = "ok" /\ j \in inputsKept'
       /\ <<j, jobs'[j].token>> \in outputsKept'

LEMMA EarnedRowsDecide ==
    ASSUME IInv, Decided, Grows, \A j \in Jobs : EarnedRow(j)
    PROVE  Decided'
PROOF
  <1>1. \A j \in Jobs : jobs[j].status = "succeeded" => jobs[j].token \in Tokens
    BY DEF IInv, TypeOK, Job, JobOK, ResultAgrees, Tokens
  <1>2. SuccessIsRetained'
    BY <1>1 DEF Decided, SuccessIsRetained, EarnedRow, Grows, Terminal
  <1>3. FailedOnlyWhenExhausted'
    BY DEF Decided, FailedOnlyWhenExhausted, EarnedRow, Terminal, Budget
  <1>4. CancelledOnlyIfAsked'
    BY DEF Decided, CancelledOnlyIfAsked, EarnedRow, Terminal
  <1> QED
    BY <1>2, <1>3, <1>4 DEF Decided

\* The rows as a claim leaves them, but for the one it opens.
LEMMA LapseIsEarned ==
    ASSUME IInv, NEW j \in Jobs,
           jobs'[j] = [jobs[j] EXCEPT !.status = ExpiredStatus(j)]
    PROVE  EarnedRow(j)
PROOF
  <1>1. jobs[j] \in Job
    BY DEF IInv, TypeOK
  <1>2. CASE ~Lapsed(j)
    BY <1>1, <1>2 DEF ExpiredStatus, EarnedRow, Job
  <1>3. CASE Lapsed(j)
    <2>1. jobs[j].status = "running" /\ jobs[j].request \in Requests
          /\ jobs[j].token \in Nat
          /\ jobs[j].token <= MaxAttempts[jobs[j].request]
          /\ MaxAttempts[jobs[j].request] \in Nat
      BY <1>1, <1>3, LapseIsOfRunning, ConstantTypes
         DEF IInv, JobOK, WithinRequest, Job
    <2>2. /\ jobs'[j].status = AfterLapse(j) /\ jobs'[j].token = jobs[j].token
          /\ jobs'[j].request = jobs[j].request
          /\ jobs'[j].cancel_requested = jobs[j].cancel_requested
      BY <1>1, <1>3 DEF ExpiredStatus, Job
    <2> QED
      BY <2>1, <2>2 DEF AfterLapse, EarnedRow, Terminal, Budget
  <1> QED
    BY <1>2, <1>3

LEMMA ClaimIsEarned ==
    ASSUME IInv, NEW w \in Workers, (\E j \in Jobs : Claim(w, j)) \/ ClaimNone(w)
    PROVE  \A j \in Jobs : EarnedRow(j)
PROOF
  <1> TAKE j \in Jobs
  <1>1. jobs[j] \in Job
    BY DEF IInv, TypeOK
  <1>2. CASE ClaimNone(w)
    BY <1>2, LapseIsEarned DEF ClaimNone
  <1>3. ASSUME NEW k \in Jobs, Claim(w, k)
        PROVE  EarnedRow(j)
    <2>1. CASE j = k
      <3>1. jobs'[j].status = "running"
        BY <1>1, <1>3, <2>1 DEF Claim, Job
      <3> QED
        BY <3>1 DEF EarnedRow, Terminal
    <2>2. CASE j # k
      BY <1>3, <2>2, LapseIsEarned DEF Claim
    <2> QED
      BY <2>1, <2>2
  <1> QED
    BY <1>2, <1>3

LEMMA ClientIsEarned ==
    ASSUME IInv, ClientStep
    PROVE  \A j \in Jobs : EarnedRow(j)
PROOF
  <1> TAKE j \in Jobs
  <1>1. jobs \in [Jobs -> Job]
    BY DEF IInv, TypeOK
  <1>2. ASSUME NEW k \in Jobs, NEW r \in Requests, Submit(k, r)
        PROVE  EarnedRow(j)
    <2>1. PICK created : jobs' = [jobs EXCEPT ![k] = NewJob(r, created)]
      BY <1>2 DEF Submit
    <2>2. CASE j = k
      <3>1. jobs'[j].status = "queued"
        BY <1>1, <2>1, <2>2 DEF NewJob
      <3> QED
        BY <3>1 DEF EarnedRow, Terminal
    <2>3. CASE j # k
      BY <1>1, <2>1, <2>3 DEF EarnedRow
    <2> QED
      BY <2>2, <2>3
  <1>3. ASSUME NEW k \in Jobs, Cancel(k)
        PROVE  EarnedRow(j)
    <2>1. CASE j = k
      <3> DEFINE s == IF jobs[j].status = "queued" THEN "cancelled" ELSE "running"
                 y == [[jobs[j] EXCEPT !.cancel_requested = TRUE]
                          EXCEPT !.status = s]
      <3>1. jobs'[j] = y
        BY <1>1, <1>3, <2>1 DEF Cancel, Job
      <3>2. y.cancel_requested = TRUE /\ y.status \in {"cancelled", "running"}
        BY <1>1 DEF Job
      <3> HIDE DEF y
      <3> QED
        BY <3>1, <3>2 DEF EarnedRow, Terminal
    <2>2. CASE j # k
      BY <1>1, <1>3, <2>2 DEF Cancel, EarnedRow
    <2> QED
      BY <2>1, <2>2
  <1> QED
    BY <1>2, <1>3 DEF ClientStep

LEMMA FinishIsEarned ==
    ASSUME IInv, NEW j \in Jobs, NEW t \in Tokens, NEW status \in Terminal,
           NEW retryable, NEW published,
           Finish(j, t, status, retryable, published),
           status = "failed" => retryable,
           status = "succeeded" =>
               j \in inputsKept' /\ child'[j][t] = "ok" /\ <<j, t>> \in outputsKept',
           status = "cancelled" => jobs'[j].cancel_requested
    PROVE  \A k \in Jobs : EarnedRow(k)
PROOF
  <1>1. /\ jobs \in [Jobs -> Job]
        /\ t = jobs[j].token /\ jobs[j].status = "running"
        /\ retryable => status = "failed"
    BY DEF IInv, TypeOK, Finish, Owned
  <1>2. /\ jobs[j].request \in Requests /\ jobs[j].token \in Nat
        /\ jobs[j].token <= MaxAttempts[jobs[j].request]
        /\ MaxAttempts[jobs[j].request] \in Nat
    BY <1>1, ConstantTypes DEF IInv, JobOK, WithinRequest, Job
  <1>3. ASSUME NEW k \in Jobs, k # j
        PROVE  EarnedRow(k)
    BY <1>1, <1>3 DEF Finish, EarnedRow
  <1>4. /\ jobs'[j].status = CompletionTarget(j, t, status, retryable)
        /\ jobs'[j].token = t /\ jobs'[j].request = jobs[j].request
    BY <1>1 DEF Finish, Job
  <1>5. ASSUME status = "failed"
        PROVE  EarnedRow(j)
    BY <1>1, <1>2, <1>4, <1>5
       DEF CompletionTarget, EarnedRow, Terminal, Budget
  <1>6. ASSUME status # "failed"
        PROVE  EarnedRow(j)
    <2>1. jobs'[j].status = status
      BY <1>1, <1>4, <1>6 DEF CompletionTarget
    <2> QED
      BY <1>4, <1>6, <2>1 DEF EarnedRow, Terminal
  <1> QED
    BY <1>3, <1>5, <1>6

LEMMA CompleteIsEarned ==
    ASSUME EarnedInv, [WNext]_wvars, NEW w \in Workers,
           Complete(w) \/ Acknowledge(w)
    PROVE  \A j \in Jobs : EarnedRow(j)
PROOF
  <1>1. Busy(worker[w])
    BY DEF Complete, Acknowledge, At, Busy
  <1>2. /\ IInv /\ Job_(w) \in Jobs /\ Token_(w) \in Tokens
        /\ worker[w].outcome \in Terminal /\ "cancelled" \in Terminal
    BY <1>1, KnewBefore DEF EarnedInv, WInv, WorkerState, Job_, Token_, Terminal
  <1>3. Knows(worker[w], jobs', child', inputsKept', outputsKept')
    BY <1>1, KnewBefore
  <1>4. CASE UNCHANGED vars
    BY <1>4 DEF vars, EarnedRow
  <1>5. CASE Finish(Job_(w), Token_(w), "cancelled", FALSE, FALSE)
             /\ Acknowledge(w)
    <2>1. jobs'[Job_(w)].cancel_requested
      BY <1>3, <1>5 DEF Knows, Acknowledge, At, Job_
    <2> QED
      BY <1>2, <1>5, <2>1, FinishIsEarned
  <1>6. ASSUME NEW status, status = worker[w].outcome,
               Finish(Job_(w), Token_(w), status, status = "failed",
                      status = "succeeded")
        PROVE  \A j \in Jobs : EarnedRow(j)
    <2> DEFINE r == status = "failed"
               p == status = "succeeded"
    <2>1. /\ status = "succeeded" =>
                /\ Job_(w) \in inputsKept' /\ child'[Job_(w)][Token_(w)] = "ok"
                /\ <<Job_(w), Token_(w)>> \in outputsKept'
          /\ status = "cancelled" => jobs'[Job_(w)].cancel_requested
      BY <1>3, <1>6 DEF Knows, Job_, Token_
    <2>2. Finish(Job_(w), Token_(w), status, r, p) /\ (status = "failed" => r)
      BY <1>6
    <2> HIDE DEF r, p
    <2> QED
      BY <1>2, <1>6, <2>1, <2>2, FinishIsEarned
  <1> QED
    BY <1>4, <1>5, <1>6 DEF Complete, Acknowledge, StoreIdle

LEMMA StepIsEarned ==
    ASSUME EarnedInv, [WNext]_wvars
    PROVE  \A j \in Jobs : EarnedRow(j)
PROOF
  <1>1. IInv
    BY DEF EarnedInv, WInv
  <1>2. CASE jobs' = jobs
    BY <1>2 DEF EarnedRow
  <1>3. CASE \E w \in Workers : Take(w) \/ TakeNothing(w)
    BY <1>1, <1>3, ClaimIsEarned DEF Take, TakeNothing
  <1>4. CASE \E w \in Workers : Complete(w) \/ Acknowledge(w)
    BY <1>4, CompleteIsEarned
  <1>5. CASE ClientStep
    BY <1>1, <1>5, ClientIsEarned
  <1>6. \/ jobs' = jobs
        \/ \E w \in Workers : Take(w) \/ TakeNothing(w)
        \/ \E w \in Workers : Complete(w) \/ Acknowledge(w)
        \/ ClientStep
    BY DEF WNext, wvars, vars, MainStep, Prepare, Preflight, Start, RecordStart,
           Poll, Check, Abort, Join, Beat, SetFlag, Crash, Restart, LateBeat,
           ChildExits, ClockStep, StoreIdle, Heartbeat, RecordEvent, Tick,
           SetClockBack
  <1> QED
    BY <1>2, <1>3, <1>4, <1>5, <1>6

\* Whoever moves knows enough afterwards, and the others know what they knew.
LEMMA StepKnows ==
    ASSUME EarnedInv, [WNext]_wvars, NEW w \in Workers
    PROVE  KnowsNext(w)
PROOF
  <1>1. CASE worker'[w] = worker[w]
    BY <1>1, KnewBefore DEF KnowsNext
  <1>2. worker \in [Workers -> WorkerState]
    BY DEF EarnedInv, WInv, WTypeOK
  <1>3. CASE MainStep(w)
    BY <1>3, PreparedKnows, PreflightKnows, StartKnows, RecordKnows, PollKnows,
       CheckKnows, AbortKnows, JoinKnows, CompleteKnows DEF MainStep
  <1>4. CASE Take(w) \/ Beat(w) \/ SetFlag(w)
    BY <1>4, TakeKnows, BeatKnows
  <1>5. CASE Crash(w) \/ Restart(w)
    BY <1>2, <1>5, RestKnows DEF Crash, Restart
  <1>6. ASSUME NEW v \in Workers, v # w,
               MainStep(v) \/ Take(v) \/ Beat(v) \/ SetFlag(v) \/ Crash(v)
               \/ Restart(v)
        PROVE  worker'[w] = worker[w]
    BY <1>2, <1>6
       DEF MainStep, Prepare, Preflight, Start, RecordStart, Poll, Check, Abort,
           Join, Complete, Acknowledge, Take, Beat, SetFlag, Crash, Restart,
           Goto, Fail, Rest
  <1>7. \/ worker' = worker
        \/ \E v \in Workers : \/ MainStep(v) \/ Take(v) \/ Beat(v) \/ SetFlag(v)
                              \/ Crash(v) \/ Restart(v)
    BY DEF WNext, wvars, ownVars, TakeNothing, LateBeat, ChildExits, ClientStep,
           ClockStep
  <1> QED
    BY <1>1, <1>3, <1>4, <1>5, <1>6, <1>7

LEMMA WNextEarned == EarnedInv /\ [WNext]_wvars => EarnedInv'
PROOF
  <1> SUFFICES ASSUME EarnedInv, [WNext]_wvars
               PROVE  EarnedInv'
    OBVIOUS
  <1>1. WInv' /\ Grows /\ IInv /\ Decided
    BY WNextWInv, StepGrows DEF EarnedInv, WInv
  <1>2. Decided'
    BY <1>1, StepIsEarned, EarnedRowsDecide
  <1>3. \A w \in Workers : KnowsNext(w)
    BY StepKnows
  <1> QED
    BY <1>1, <1>2, <1>3 DEF EarnedInv, KnowsNext

LEMMA WInitEarned == WInit => EarnedInv
PROOF
  <1> SUFFICES ASSUME WInit PROVE EarnedInv
    OBVIOUS
  <1>1. \A w \in Workers : ~Busy(worker[w])
    BY DEF WInit, Busy, Resting
  <1>2. \A j \in Jobs : jobs[j].status = "absent"
    BY DEF WInit, Init, NoJob
  <1> QED
    BY <1>1, <1>2, WInitWInv DEF EarnedInv, Decided, SuccessIsRetained,
         FailedOnlyWhenExhausted, CancelledOnlyIfAsked

(* Every decision of the workers is earned: a success by the very attempt's *)
(* process and its retained artifacts, a failure by a used-up budget and a  *)
(* cancellation by somebody's wish, for any number of workers and jobs and  *)
(* through crashes, late threads, lost leases and setbacks of the clock.    *)
THEOREM EarnedDecisions == WSpec => []DecisionsAreEarned
PROOF
  <1>1. EarnedInv => DecisionsAreEarned
    BY DEF EarnedInv, WInv, Decided, DecisionsAreEarned
  <1> QED
    BY <1>1, WInitEarned, WNextEarned, PTL DEF WSpec
=============================================================================
