--------------------------- MODULE MCSelectedPath ---------------------------
(* SelectedPath for TLC: two processes, two complete requests and one that *)
(* is not, three attempts and two edits.                                   *)
EXTENDS SelectedPath, TLC

Symmetry == Permutations(Procs)
==============================================================================
