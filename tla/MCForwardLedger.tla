-------------------------- MODULE MCForwardLedger --------------------------
(***************************************************************************)
(* Two processes over an account of two sessions with a holiday between,   *)
(* from before its registration to after its last day.                     *)
(***************************************************************************)
EXTENDS ForwardLedger, TLC

CONSTANTS p1, p2

MCDays == 1 .. 5
MCSessions == {1, 2, 4}
Symmetry == Permutations({p1, p2})

\* bound: account.json is not published any more once an observation began.
\* Promotions that overlap each other, crash and repeat are all here.
PromotionsAreEarly ==
    attempts # <<>> =>
        \A p \in Procs : op[p].pc \notin {"account", "write", "rename"}
=============================================================================
