----------------------------- MODULE MCEtfDaily -----------------------------
(***************************************************************************)
(* Two evenings of two slots each, two processes, three profiles of which  *)
(* the second has no account, with and without a schedule.                *)
(***************************************************************************)
EXTENDS EtfDaily, TLC

OneDay == 1 .. 1
TwoDays == 1 .. 2
ThreeEditions == 1 .. 3
Symmetry == Permutations(Procs)
=============================================================================
