--------------------------- MODULE ForwardAccount ---------------------------
(***************************************************************************)
(* What a forward paper account promises, with attempts, inputs, files and *)
(* writers abstracted away: its record only grows, session after session,  *)
(* every replay repeats the returns already recorded, and it is evaluated  *)
(* once, over the whole registered interval.                               *)
(***************************************************************************)
EXTENDS Naturals, Sequences

CONSTANTS Interval,     \* the exchange sessions of the registered interval
          Gains         \* what one session can return

VARIABLES
    record,     \* one entry per observation: returns of every session so far
    evaluated   \* 0, or the number of observations when it was sealed

vars == <<record, evaluated>>

Day(entry) == CHOOSE d \in DOMAIN entry : \A e \in DOMAIN entry : e <= d

Extends(new, old) ==
    DOMAIN old \subseteq DOMAIN new /\ \A d \in DOMAIN old : new[d] = old[d]

Init == record = <<>> /\ evaluated = 0

\* The account is replayed from its start through a later session.
Observe ==
    /\ evaluated = 0
    /\ \E d \in Interval :
       \E entry \in [{e \in Interval : e <= d} -> Gains] :
          /\ record # <<>> =>
                /\ Day(record[Len(record)]) < d
                /\ Extends(entry, record[Len(record)])
          /\ record' = Append(record, entry)
    /\ UNCHANGED evaluated

\* The interval is over and the latest replay covers all of it.
Evaluate ==
    /\ evaluated = 0
    /\ record # <<>> /\ DOMAIN record[Len(record)] = Interval
    /\ evaluated' = Len(record)
    /\ UNCHANGED record

Next == Observe \/ Evaluate

Spec == Init /\ [][Next]_vars
=============================================================================
