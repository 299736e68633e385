----------------------------- MODULE MCDagSchema -----------------------------
(* Three steps and an artifact that any of them may read, write or claim,  *)
(* the second path being the checkpoint's.  A need may repeat, close a     *)
(* cycle, or be of no step.                                                *)
EXTENDS DagSchema

CONSTANTS a, p, checkpoint

MCSteps == {1, 2, 3}
MCNeedLists ==
  {<<>>, <<1>>, <<2>>, <<3>>, <<4>>, <<1, 2>>, <<2, 3>>, <<3, 1>>, <<1, 1>>}
==============================================================================
