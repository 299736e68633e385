------------------------------ MODULE DagSchema ------------------------------
(***************************************************************************)
(* validate_pipeline_spec of dag_schema.py, for what concerns steps and    *)
(* artifacts: which files are refused, together with the topology that a   *)
(* file which is not refused is run in.  A file is chosen once; commands,  *)
(* retries, timeouts, hashes and the spelling of ids are left out, and ids *)
(* are taken to be distinct.                                               *)
(***************************************************************************)
EXTENDS Topology

CONSTANTS
  Artifacts,
  Paths,      \* where an artifact may be
  Reserved,   \* those at the checkpoint or under the log directory
  NoStep      \* producer: null

ASSUME SchemaAssumption == Reserved \subseteq Paths /\ NoStep \notin Nat

VARIABLE file   \* inputs and outputs of the steps, producer and path

schemaVars == <<needs, indegree, ready, ordered, file>>

SInit ==
  /\ TInit
  /\ file \in [inputs : [Steps -> SUBSET Artifacts],
               outputs : [Steps -> SUBSET Artifacts],
               producer : [Artifacts -> Steps \cup {NoStep}],
               path : [Artifacts -> Paths]]

SNext == Pop /\ UNCHANGED file

SSpec == SInit /\ [][SNext]_schemaVars

------------------------------------------------------------------------------
(* SELF_DEPENDENCY, UNKNOWN_DEPENDENCY, DUPLICATE_REFERENCE.               *)
NeedsStand ==
  \A s \in Steps :
    /\ Known(s) = DOMAIN needs[s]
    /\ Uses(s, s) = {}
    /\ \A d \in Steps : Cardinality(Uses(s, d)) <= 1

(* INPUT_OUTPUT_CONFLICT.                                                  *)
NoneIsBoth == \A s \in Steps : file.inputs[s] \cap file.outputs[s] = {}

Owners(a) == {s \in Steps : a \in file.outputs[s]}

(* PRODUCER_MISMATCH, PRODUCER_CONFLICT, PRODUCER_OUTPUT_MISSING.          *)
ProducersAgree ==
  \A a \in Artifacts :
    /\ \A s \in Owners(a) : file.producer[a] = s
    /\ Cardinality(Owners(a)) <= 1
    /\ file.producer[a] # NoStep => Owners(a) = {file.producer[a]}

(* Mutant: a need between the two steps is enough, whichever has it.       *)
NeedEitherWay ==
  \A s \in Steps : \A a \in file.inputs[s] :
    file.producer[a] \in Steps \ {s} =>
      Uses(s, file.producer[a]) # {} \/ Uses(file.producer[a], s) # {}

(* UNDECLARED_ARTIFACT_DEPENDENCY.                                         *)
InputsDeclared ==
  \A s \in Steps : \A a \in file.inputs[s] :
    file.producer[a] \in Steps \ {s} => Uses(s, file.producer[a]) # {}

(* OUTPUT_PATH_CONFLICT.                                                   *)
PathsApart ==
  \A s, t \in Steps : \A a \in file.outputs[s], b \in file.outputs[t] :
    file.path[a] = file.path[b] => s = t /\ a = b

(* RESERVED_PATH.                                                          *)
NotReserved == \A a \in Artifacts : file.path[a] \notin Reserved

(* No issue: the topology, once it is there, is not empty (DAG_CYCLE).     *)
Valid ==
  /\ NeedsStand /\ NoneIsBoth /\ ProducersAgree /\ InputsDeclared
  /\ PathsApart /\ NotReserved
  /\ Returned # <<>>

------------------------------------------------------------------------------
Precedes(s, t) ==
  \E i, j \in DOMAIN ordered : i < j /\ ordered[i] = s /\ ordered[j] = t

(* When a step has its turn, the producer of each of its inputs has had    *)
(* its own and lists the artifact among its outputs (assumed by            *)
(* dag_runner.py 339-372).                                                 *)
InputsAreProducedFirst ==
  \A s \in Steps : \A a \in file.inputs[s] :
    file.producer[a] # NoStep =>
      /\ Precedes(file.producer[a], s)
      /\ a \in file.outputs[file.producer[a]]

(* ArtifactAssumption of DagRunner: no two steps share an output, and what *)
(* a step reads of another's outputs it reads from a step that it needs.   *)
ArtifactsHaveOwners ==
  \A s, t \in Steps :
    /\ s # t => file.outputs[s] \cap file.outputs[t] = {}
    /\ file.inputs[s] \cap file.outputs[t] # {} => Uses(s, t) # {}

(* The order gives every step its turn, after all that it needs.           *)
EveryStepHasItsTurn ==
  /\ Popped = Steps
  /\ \A s \in Steps : \A i \in DOMAIN needs[s] : Precedes(needs[s][i], s)

(* What the runner takes for granted of the order of any file, and of the  *)
(* steps and artifacts of one that validates.                              *)
RunnerMayAssume ==
  /\ OrderIsSound
  /\ Done /\ Valid =>
       InputsAreProducedFirst /\ ArtifactsHaveOwners /\ EveryStepHasItsTurn
==============================================================================
