------------------------------ MODULE Topology ------------------------------
(***************************************************************************)
(* deterministic_topology of dag_schema.py: Kahn's algorithm with a heap,  *)
(* one pop of the heap a step.  Step ids are numbers in their lexical      *)
(* order.  A step's needs are the list of its file: they may repeat an id  *)
(* or name one that no step has, for the function runs on files that       *)
(* validate_pipeline_spec is about to refuse.                              *)
(***************************************************************************)
EXTENDS Naturals, Sequences, FiniteSets

CONSTANTS
  Steps,      \* the ids of the steps, no two alike
  NeedLists   \* the lists that a step may have for its needs

ASSUME TopologyAssumption ==
  /\ Steps \subseteq Nat /\ IsFiniteSet(Steps)
  /\ NeedLists \subseteq Seq(Nat)

VARIABLES
  needs,     \* the needs of each step
  indegree,  \* what each step still waits for
  ready,     \* the heap
  ordered    \* the steps popped so far

topologyVars == <<needs, indegree, ready, ordered>>

(* The places in the needs of s that name a step at all, or the step d.    *)
Known(s) == {i \in DOMAIN needs[s] : needs[s][i] \in Steps}
Uses(s, d) == {i \in DOMAIN needs[s] : needs[s][i] = d}

Count(s) == Cardinality(Known(s))

TInit ==
  /\ needs \in [Steps -> NeedLists]
  /\ indegree = [s \in Steps |-> Count(s)]
  /\ ready = {s \in Steps : Count(s) = 0}
  /\ ordered = <<>>

(* Mutant: any step that is ready may come next.                           *)
AnyOf(x) == x \in ready

IsNext(x) == x \in ready /\ \A y \in ready : x <= y

(* The children whose last need x was.                                     *)
Pushed(x) == {s \in Steps : /\ Uses(s, x) # {}
                            /\ indegree[s] = Cardinality(Uses(s, x))}

Pop ==
  \E x \in ready :
    /\ IsNext(x)
    /\ ordered' = Append(ordered, x)
    /\ indegree' = [s \in Steps |-> indegree[s] - Cardinality(Uses(s, x))]
    /\ ready' = (ready \ {x}) \cup Pushed(x)
    /\ UNCHANGED needs

TSpec == TInit /\ [][Pop]_topologyVars

Popped == {ordered[i] : i \in DOMAIN ordered}
Done == ready = {}

(* What is returned: all of the steps, or nothing.                         *)
Returned ==
  IF Len(ordered) = Cardinality(Steps) THEN ordered ELSE <<>>

------------------------------------------------------------------------------
(* The shape of the state.                                                 *)
TopologyTypeOK ==
  /\ needs \in [Steps -> NeedLists]
  /\ indegree \in [Steps -> Nat]
  /\ ready \subseteq Steps
  /\ ordered \in Seq(Steps)

(* No step comes before a step it needs, at any point of the loop.         *)
NeedsComeFirst ==
  \A i \in DOMAIN ordered : \A k \in Known(ordered[i]) :
    \E j \in 1..(i - 1) : ordered[j] = needs[ordered[i]][k]

(* No step is popped twice, so that the length tells whether all were.     *)
NoStepTwice ==
  \A i, j \in DOMAIN ordered : ordered[i] = ordered[j] => i = j

(* When the loop ends without all of the steps, each of those left needs   *)
(* another of them: the empty tuple is only returned for a cycle.          *)
StuckMeansCycle ==
  Done => \A s \in Steps \ Popped :
            \E k \in Known(s) : needs[s][k] \notin Popped

OrderIsSound ==
  TopologyTypeOK /\ NeedsComeFirst /\ NoStepTwice /\ StuckMeansCycle

(* The reference: of all orders that respect the needs, the lexically      *)
(* least; none is returned when there are none.                            *)
Orders ==
  {f \in [1..Cardinality(Steps) -> Steps] :
     /\ \A i, j \in DOMAIN f : i # j => f[i] # f[j]
     /\ \A i \in DOMAIN f : \A k \in Known(f[i]) :
          \E j \in 1..(i - 1) : f[j] = needs[f[i]][k]}
Before(f, g) ==
  \E i \in DOMAIN f : f[i] < g[i] /\ \A j \in 1..(i - 1) : f[j] = g[j]

(* The README's "lexicographically deterministic topology ordering"        *)
(* (README.md:139), and a DAG_CYCLE exactly when no order exists.          *)
LeastOrder ==
  Done => IF Orders = {} THEN Returned = <<>>
          ELSE /\ Returned \in Orders
               /\ \A g \in Orders : g = Returned \/ Before(Returned, g)
==============================================================================
