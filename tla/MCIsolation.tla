----------------------------- MODULE MCIsolation -----------------------------
(* Isolation for TLC: the command and two processes it may leave behind, a *)
(* limit of one piece of output that it may pass, two files under /work    *)
(* that may change once while they are being read, and Ctrl-C once.  Pids  *)
(* are numbers, Main is 0.                                                 *)
EXTENDS Isolation

(* What the constraints leave unexplored: what becomes of a run that has   *)
(* ended without a result, forks that are the same but for the pids, and   *)
(* the second fork, but for the one that decides something: while the      *)
(* collector works, with nothing else disturbing the run.                  *)
SavedMatters == host.pc \in Ended => saved # NoRecord

InOrder == \A p, q \in Others : p < q /\ procs[q] # "none" => procs[p] # "none"

SecondForkIsUndisturbed ==
  procs[2] # "none" => /\ ~cancel /\ interrupts = 0 /\ coll.pc # "none"
                       /\ client["exec"].made = 0
==============================================================================
