--------------------------- MODULE DurableBatches ---------------------------
(***************************************************************************)
(* Batches of durable jobs, src/quant_pipeline/durable_batches.py, and the *)
(* pinning clients of durable_research.py.  Batches live in the store's    *)
(* database: submit, cancel and retry are one transaction each, whatever   *)
(* number of jobs they touch.  The --research clients are not: they read   *)
(* the batch, pin inputs in the artifact store, then call submit or retry, *)
(* and other clients and workers act in between.                           *)
(***************************************************************************)
EXTENDS DurableJobs

CONSTANTS
    Batches,        \* the batches' idempotency keys
    NoBatch,        \* retry_of of a first submission
    Candidates,     \* candidate ids
    NoSource,       \* source_job_id of a first submission
    Documents,      \* batch requests that clients submit
    ChildKey,       \* [Batches \X Candidates -> Jobs], the derived job keys
    MaxCalls        \* bound: research calls under way at a time

(* A batch request: what each of its candidates asks for, and the rest of  *)
(* its text, which includes the order of the candidates.                   *)
Asks == UNION {[names -> Requests] : names \in SUBSET Candidates}
Document == [asks : Asks, rest : Nat]

ASSUME BatchAssumption ==
    /\ NoBatch \notin Batches
    /\ NoSource \notin Jobs
    /\ ChildKey \in [Batches \X Candidates -> Jobs]
    /\ \A p, q \in Batches \X Candidates : ChildKey[p] = ChildKey[q] => p = q
    /\ Documents \subseteq {d \in Document : DOMAIN d.asks # {}}

VARIABLES
    batches,        \* research_batches with research_batch_members
    calls,          \* research clients between the pin and the transaction
    pins,           \* <<batch key, request>> whose inputs are retained
    answered        \* history: batches a research client got an answer for

batchVars == <<batches, calls, pins, answered>>
bvars == <<vars, batchVars>>
-----------------------------------------------------------------------------
NoDocument == [asks |-> <<>>, rest |-> 0]
NoRecord == [document |-> NoDocument, retry_of |-> NoBatch,
             source |-> [c \in Candidates |-> NoSource]]

NamesIn(d) == DOMAIN d.asks
Submitted(b) == NamesIn(batches[b].document) # {}
Members(b) == {ChildKey[b, c] : c \in NamesIn(batches[b].document)}
Statuses(b) == {jobs[j].status : j \in Members(b)}
CandidateOf(b, j) == CHOOSE c \in Candidates : ChildKey[b, c] = j

\* A document with those of its candidates that a retry names.
Selection(d, names) == [d EXCEPT !.asks = [c \in names |-> d.asks[c]]]

\* _get: the state shown for a batch, and whether it is over.
BatchStatus(b) ==
    IF "running" \in Statuses(b) THEN "running"
    ELSE IF "queued" \in Statuses(b) THEN "queued"
    ELSE IF "failed" \in Statuses(b) THEN "failed"
    ELSE IF "cancelled" \in Statuses(b) THEN "cancelled"
    ELSE "succeeded"
Over(b) == Statuses(b) \subseteq Terminal
-----------------------------------------------------------------------------
BInit ==
    /\ Init
    /\ batches = [b \in Batches |-> NoRecord]
    /\ calls = {}
    /\ pins = {}
    /\ answered = {}

\* Mutant of Insert: a member's job may be missing when the batch commits.
InsertFirstOnly(b, d, of, source) ==
    LET c == CHOOSE c \in NamesIn(d) : TRUE
        j == ChildKey[b, c]
    IN  /\ ~Submitted(b)
        /\ ~Exists(j)
        /\ \E created \in 1 .. Cardinality(Jobs) :
              /\ SubmissionRank(created)
              /\ jobs' = [jobs EXCEPT ![j] = NewJob(d.asks[c], created)]
        /\ events' = [events EXCEPT ![j] = <<Row("submitted", 0, "")>>]
        /\ batches' = [batches EXCEPT ![b] =
              [document |-> d, retry_of |-> of, source |-> source]]
        /\ UNCHANGED <<attempts, skew>>
\* _submit's insert: the batch row, and every candidate's job, member row and
\* events.  The members' clock readings are one rank: ties go in any order.
Insert(b, d, of, source) ==
    LET new == {ChildKey[b, c] : c \in NamesIn(d)}
        RequestFor(j) == d.asks[CandidateOf(b, j)]
    IN  /\ ~Submitted(b)
        /\ \A j \in new : Exists(j) => jobs[j].request = RequestFor(j)
        /\ \E created \in 1 .. Cardinality(Jobs) :
              /\ SubmissionRank(created)
              /\ jobs' = [j \in Jobs |->
                            IF j \in new /\ ~Exists(j)
                            THEN NewJob(RequestFor(j), created) ELSE jobs[j]]
        /\ events' = [j \in Jobs |->
              IF j \notin new THEN events[j]
              ELSE IF Exists(j) THEN Append(events[j], Row("batch_member", 0, ""))
              ELSE events[j] \o <<Row("submitted", 0, ""),
                                  Row("batch_member", 0, "")>>]
        /\ batches' = [batches EXCEPT ![b] =
              [document |-> d, retry_of |-> of, source |-> source]]
        /\ UNCHANGED <<attempts, skew>>

\* A key already present is answered with the stored batch when the document
\* and retry_of agree, and refused otherwise.
Repeats(b, d, of) == batches[b].document = d /\ batches[b].retry_of = of

NoSources == [c \in Candidates |-> NoSource]
Sources(a, names) ==
    [c \in Candidates |-> IF c \in names THEN ChildKey[a, c] ELSE NoSource]

Retriable(a, names) ==
    /\ names \subseteq NamesIn(batches[a].document)
    /\ \A c \in names : jobs[ChildKey[a, c]].status \in {"failed", "cancelled"}

SubmitBatch(b, d) ==
    /\ Insert(b, d, NoBatch, NoSources)
    /\ UNCHANGED <<calls, pins, answered>>

\* Mutant of RetryBatch: the members are queued again in place.
RetryInPlace(a, b, names) ==
    /\ Retriable(a, names)
    /\ jobs' = [j \in Jobs |-> IF j \in {ChildKey[a, c] : c \in names}
                              THEN [jobs[j] EXCEPT !.status = "queued"]
                              ELSE jobs[j]]
    /\ UNCHANGED <<attempts, events, skew, batchVars>>
RetryBatch(a, b, names) ==
    /\ Retriable(a, names)
    /\ Insert(b, Selection(batches[a].document, names), a, Sources(a, names))
    /\ UNCHANGED <<calls, pins, answered>>

\* Mutant of CancelBatch: what runs is cancelled at once.
CancelAtOnce(b) ==
    /\ Submitted(b)
    /\ jobs' = [j \in Jobs |->
          IF j \in Members(b) /\ jobs[j].status \in {"queued", "running"}
          THEN [jobs[j] EXCEPT !.cancel_requested = TRUE, !.status = "cancelled"]
          ELSE jobs[j]]
    /\ UNCHANGED <<attempts, events, skew, batches, calls, pins, answered>>
\* cancel(): JobStore._cancel of every member, in one transaction.
CancelBatch(b) ==
    /\ Submitted(b)
    /\ LET hit == {j \in Members(b) : jobs[j].status \in {"queued", "running"}
                                      /\ ~jobs[j].cancel_requested}
       IN  /\ jobs' = [j \in Jobs |->
                 IF j \in hit
                 THEN [jobs[j] EXCEPT !.cancel_requested = TRUE,
                                      !.status = IF @ = "queued"
                                                 THEN "cancelled" ELSE @]
                 ELSE jobs[j]]
           /\ events' = [j \in Jobs |->
                 IF j \in hit
                 THEN Append(events[j],
                             Row("cancel_requested", jobs[j].token, ""))
                 ELSE events[j]]
    /\ UNCHANGED <<attempts, skew, batches, calls, pins, answered>>
-----------------------------------------------------------------------------
(* The research clients.  A call waits in calls while its client is        *)
(* between retain_artifacts and the transaction.                           *)

Call(b, of, d, names) == [key |-> b, of |-> of, document |-> d, names |-> names]

PinSubmit(b, d) ==
    /\ Cardinality(calls) < MaxCalls
    /\ pins' = pins \cup {<<b, d.asks[c]>> : c \in NamesIn(d)}
    /\ calls' = calls \cup {Call(b, NoBatch, d, {})}
    /\ UNCHANGED <<vars, batches, answered>>

\* Mutant of RetryInputs: only members that can be retried already.
RetryInputsNow(a, names) ==
    {jobs[ChildKey[a, c]].request :
        c \in {n \in names \cap NamesIn(batches[a].document) :
                  jobs[ChildKey[a, n]].status \in {"failed", "cancelled"}}}
\* The inputs of the named members, as a first, separate read shows them.
RetryInputs(a, names) ==
    {jobs[ChildKey[a, c]].request :
        c \in names \cap NamesIn(batches[a].document)}

PinRetry(a, b, names) ==
    /\ Submitted(a) /\ Cardinality(calls) < MaxCalls
    /\ pins' = pins \cup {<<b, r>> : r \in RetryInputs(a, names)}
    /\ calls' = calls \cup {Call(b, a, NoDocument, names)}
    /\ UNCHANGED <<vars, batches, answered>>

\* The transaction after the pin: an insert, or the stored batch again.
Transact(call) ==
    LET b == call.key
        a == call.of
        d == IF a = NoBatch THEN call.document
             ELSE Selection(batches[a].document, call.names)
    IN  /\ call \in calls
        /\ a # NoBatch => Retriable(a, call.names)
        /\ \/ Insert(b, d, a, IF a = NoBatch THEN NoSources
                              ELSE Sources(a, call.names))
           \/ Repeats(b, d, a) /\ UNCHANGED <<vars, batches>>
        /\ calls' = calls \ {call}
        /\ answered' = answered \cup {b}
        /\ UNCHANGED pins

\* The call is refused, or its client goes away; the pins stay.
GiveUp(call) ==
    /\ call \in calls
    /\ calls' = calls \ {call}
    /\ UNCHANGED <<vars, batches, pins, answered>>
-----------------------------------------------------------------------------
Children == {ChildKey[p] : p \in Batches \X Candidates}

\* Workers and clients of single jobs, whose keys are never derived ones.
StoreOperation ==
    /\ Next
    /\ \A j \in Children : Exists(j)' = Exists(j)
    /\ UNCHANGED batchVars

Selections == (SUBSET Candidates) \ {{}}

BNext ==
    \/ StoreOperation
    \/ \E b \in Batches, d \in Documents : SubmitBatch(b, d) \/ PinSubmit(b, d)
    \/ \E b \in Batches : CancelBatch(b)
    \/ \E a, b \in Batches, names \in Selections :
          RetryBatch(a, b, names) \/ PinRetry(a, b, names)
    \/ \E call \in calls : Transact(call) \/ GiveUp(call)

BSpec == BInit /\ [][BNext]_bvars
-----------------------------------------------------------------------------
(* The batch tables are well formed.                                       *)
BTypeOK ==
    /\ TypeOK
    /\ batches \in
          [Batches -> [document : Document,
                       retry_of : Batches \cup {NoBatch},
                       source : [Candidates -> Jobs \cup {NoSource}]]]
    /\ calls \subseteq [key : Batches, of : Batches \cup {NoBatch},
                        document : Documents \cup {NoDocument},
                        names : SUBSET Candidates]
    /\ pins \subseteq Batches \X Requests
    /\ answered \subseteq Batches

(* Half a batch is never visible: a derived job exists exactly when its    *)
(* batch does and names the candidate, and it runs the request the batch   *)
(* document gives it, through retries of retries.                          *)
NoHalfBatch ==
    \A b \in Batches, c \in Candidates :
        /\ Exists(ChildKey[b, c]) <=> c \in NamesIn(batches[b].document)
        /\ Exists(ChildKey[b, c]) =>
              jobs[ChildKey[b, c]].request = batches[b].document.asks[c]

(* The status shown is terminal exactly when every member is, and an       *)
(* active mixed batch stays active.                                        *)
StatusMatchesTerminal ==
    \A b \in Batches : Submitted(b) =>
        (BatchStatus(b) \in Terminal <=> Over(b))

(* Retry lineage: every member of a retry comes from the same candidate of *)
(* the batch it retries, with the same request, and that job has failed or *)
(* been cancelled, then and ever after; first submissions have no source.  *)
LineageIsSettled ==
    \A b \in Batches : \A c \in NamesIn(batches[b].document) :
        LET a == batches[b].retry_of
            source == batches[b].source[c]
        IN  IF a = NoBatch THEN source = NoSource
            ELSE /\ source = ChildKey[a, c]
                 /\ source \in Members(a)
                 /\ jobs[source].status \in {"failed", "cancelled"}
                 /\ jobs[source].request = jobs[ChildKey[b, c]].request

(* The batch tables are well formed, never show half a batch, show a       *)
(* status that is over exactly when every member is, and lead every retry  *)
(* back to members that have failed or been cancelled.                     *)
BatchInvariant ==
    /\ BTypeOK
    /\ NoHalfBatch
    /\ StatusMatchesTerminal
    /\ LineageIsSettled

(* What a batch is never changes once it is there, whoever repeats its key *)
(* with whatever document, and a batch that is over stays over with every  *)
(* member as it was: retries do not reset history.                         *)
BatchesStand ==
    [][\A b \in Batches : Submitted(b) =>
          /\ batches'[b] = batches[b]
          /\ Over(b) => \A j \in Members(b) : /\ jobs'[j] = jobs[j]
                                              /\ attempts'[j] = attempts[j]
      ]_bvars

(* A research client that got its batch has its inputs pinned for every    *)
(* member, although the members were read, pinned and inserted in separate *)
(* steps while workers finished and other clients submitted.               *)
PinnedBeforeVisible ==
    \A b \in answered : \A j \in Members(b) : <<b, jobs[j].request>> \in pins
=============================================================================
