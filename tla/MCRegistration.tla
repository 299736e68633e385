--------------------------- MODULE MCRegistration ---------------------------
(* Instances of Registration for TLC. *)
EXTENDS Registration, TLC

TwoEditions == {0, 1, 2}

Interchangeable == Permutations(Procs)
=============================================================================
