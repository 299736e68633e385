------------------------- MODULE MCResearchConsole -------------------------
(* Instances of ResearchConsole for TLC. *)
EXTENDS ResearchConsole, TLC

OneVersion == {1}
TwoVersions == {1, 2}

Interchangeable == Permutations(Callers)
=============================================================================
