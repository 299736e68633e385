---------------------------- MODULE EtfEvidence ----------------------------
(***************************************************************************)
(* What etf_operations.py derives from evidence: classify() decides from a *)
(* chain of exceptions whether a failure may be tried again, acceptance()  *)
(* counts consecutive sessions with natural credit from the receipts.      *)
(***************************************************************************)
EXTENDS Naturals, Sequences, FiniteSets, FiniteSetsExt, SequencesExt

(* classify.  A failure is its stage, its chain of exceptions and whether  *)
(* the provider's publication is late, which _publication_delay only finds *)
(* for a plain error that nothing caused.  Types and messages of the chain *)
(* are looked at separately.                                               *)

Types == {"certificate", "ssl", "ssl_eof", "transport", "other"}
Messages == {"certificate", "fill", "identity", "record", "plain"}
Stages == {"master_refresh", "collection", "observe"}
Exceptions == [type : Types, message : Messages]
Plain == [type |-> "other", message |-> "plain"]

TypesOf(rows) == {r.type : r \in rows}
Says(rows, m) == \E r \in rows : r.message = m
Fetching(stage) == stage \in {"master_refresh", "collection"}

Classify(rows, stage, delay) ==
    IF stage = "collection" /\ delay THEN "publication_delay"
    ELSE IF "certificate" \in TypesOf(rows) \/ Says(rows, "certificate")
    THEN "certificate_invalid"
    ELSE IF Says(rows, "fill") THEN "historical_fill_blocked"
    ELSE IF Says(rows, "identity") THEN "identity_changed"
    ELSE IF ~Fetching(stage) THEN "native_check_failed"
    ELSE IF "ssl" \in TypesOf(rows) /\ ~Says(rows, "record")
    THEN "tls_unverified"
    ELSE IF \/ TypesOf(rows) \cap {"transport", "ssl_eof"} # {}
            \/ "ssl" \in TypesOf(rows) /\ Says(rows, "record")
    THEN "transport_temporary"
    ELSE "native_check_failed"

TriedAgain(rows, stage, delay) ==
    Classify(rows, stage, delay) \in {"transport_temporary", "publication_delay"}
-----------------------------------------------------------------------------
(* acceptance of the receipts, oldest first, on a day.                     *)

Current(receipts) ==
    {r \in ToSet(receipts) : r.version = receipts[Len(receipts)].version}
Credited(receipts) == {r.day : r \in {x \in Current(receipts) : x.credit}}

\* The sessions from the first attempt on, until the expected one.
Counted(receipts, sessions, today) ==
    IF receipts = <<>> THEN <<>>
    ELSE SetToSortSeq({s \in sessions :
             Min({r.day : r \in Current(receipts)}) <= s /\ s <= today}, <)

\* The loop over the days: the segment under way, and those it has closed.
Walk(credited, state, day) ==
    IF day \in credited
    THEN [state EXCEPT !.current = Append(@, day)]
    ELSE [current |-> <<>>, gaps |-> Append(state.gaps, day),
          segments |-> IF state.current = <<>> THEN state.segments
                       ELSE Append(state.segments, state.current)]

Walked(receipts, sessions, today) ==
    FoldLeft(LAMBDA state, day : Walk(Credited(receipts), state, day),
             [current |-> <<>>, gaps |-> <<>>, segments |-> <<>>],
             Counted(receipts, sessions, today))

Segments(walked) ==
    IF walked.current = <<>> THEN walked.segments
    ELSE Append(walked.segments, walked.current)

Longest(receipts, sessions, today) ==
    Max({0} \cup {Len(s) :
                  s \in ToSet(Segments(Walked(receipts, sessions, today)))})
Passed(receipts, sessions, today, required) ==
    Longest(receipts, sessions, today) >= required
-----------------------------------------------------------------------------
\* The milestone is reached exactly when some required sessions in a row were
\* each credited under the software that is in use, whatever was recorded
\* between, before or twice.
PassedMeansInARow(receipts, sessions, today, required) ==
    LET InARow(S) == \A s \in sessions :
                        Min(S) <= s /\ s <= Max(S) => s \in S
    IN  Passed(receipts, sessions, today, required) <=>
            \E S \in SUBSET sessions :
               /\ Cardinality(S) = required /\ InARow(S)
               /\ receipts # <<>> /\ S \subseteq Credited(receipts)

\* No session is lost: every one since the first attempt is in one segment or
\* in the gaps.
SessionsAreAccounted(receipts, sessions, today) ==
    LET walked == Walked(receipts, sessions, today)
        counted == Counted(receipts, sessions, today)
    IN  /\ ToSet(counted) = ToSet(walked.gaps)
              \cup UNION {ToSet(s) : s \in ToSet(Segments(walked))}
        /\ Len(counted) = Len(walked.gaps)
              + FoldLeft(LAMBDA n, s : n + Len(s), 0, Segments(walked))
=============================================================================
