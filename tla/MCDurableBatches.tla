-------------------------- MODULE MCDurableBatches --------------------------
(***************************************************************************)
(* A small instance of DurableBatches: two batch keys, two candidates.     *)
(* The only worker serves the first candidate's kind; the other's job      *)
(* waits in the queue or is cancelled.                                     *)
(***************************************************************************)
EXTENDS DurableBatches, TLC

CONSTANTS r1, r2, kA, kB, w1, b1, b2, c1, c2

MCKindOf == r1 :> kA @@ r2 :> kB
MCMaxAttempts == r1 :> 1 @@ r2 :> 1
MCServes == w1 :> {kA}
MCJobs == Batches \X Candidates
MCChildKey == [p \in Batches \X Candidates |-> p]
MCDocuments == {[asks |-> c1 :> r1 @@ c2 :> r2, rest |-> 0]}
Symmetry == Permutations(Batches)

\* Bound: three of the four jobs there could be.
FewJobs == Cardinality({j \in Jobs : Exists(j)}) <= 3
=============================================================================
