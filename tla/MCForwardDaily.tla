--------------------------- MODULE MCForwardDaily ---------------------------
(***************************************************************************)
(* Two runs over one session and the one after it, while a bundle is       *)
(* changed and changed back.                                               *)
(***************************************************************************)
EXTENDS ForwardDaily, TLC

CONSTANTS p1, p2

MCDays == 1 .. 3
MCSessions == {1, 2, 3}
Symmetry == Permutations({p1, p2})

\* bound: the first change of a bundle is to contents no row ever had, and
\* the second brings back contents of old.
ChangesAreUndone ==
    /\ rewrites = 1 => restored = {}
    /\ rewrites = 2 => \A b \in DOMAIN bundles, s \in Sessions :
                          bundles[b].rows[s] <= 1 + MaxBundles
=============================================================================
