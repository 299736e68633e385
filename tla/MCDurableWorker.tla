-------------------------- MODULE MCDurableWorker --------------------------
(***************************************************************************)
(* Two workers over one job with two attempts.                             *)
(***************************************************************************)
EXTENDS DurableWorker, TLC

CONSTANTS r1, kA, w1, w2

MCKindOf == r1 :> kA
MCMaxAttempts == r1 :> 2
MCServes == w1 :> {kA} @@ w2 :> {kA}

=============================================================================
