--------------------------- MODULE RunFrameProofs ---------------------------
(***************************************************************************)
(* What frames the steps of a pipeline run: the order of its file, the     *)
(* lock of its day and the container that a command runs in.               *)
(*   First the file: deterministic_topology, for any steps and any lists   *)
(* of needs, orders them by their needs, has no step twice, and falls      *)
(* short of the steps only for a cycle; the invariant says what the        *)
(* in-degree and the heap are in terms of the steps popped so far.  That   *)
(* every pop is the least of the free steps makes the order the least of   *)
(* all.  Then what the runner may assume of any file that                  *)
(* validate_pipeline_spec accepts.                                         *)
(*   Second the close-of-day run, which takes its lock before it does      *)
(* anything: its pointer and its notification stay honest for any number   *)
(* of processes and runs, because the newest run is the only one that has  *)
(* not ended and nothing publishes for it once its producer has ended.     *)
(*   Third run_isolated: what isolation.json says is true, and an archive  *)
(* it keeps is one snapshot, for any number of processes, because until    *)
(* its finally block the host has left the daemon no request, and because  *)
(* what the collector saw stopped was all there was to fork.               *)
(***************************************************************************)
EXTENDS DagSchema, DailyRun, Isolation, FiniteSetTheorems, WellFoundedInduction,
        TLAPS

(* The needs of s that name a step which has not been popped.              *)
Open(s) == {k \in Known(s) : needs[s][k] \notin Popped}

DegreesCount == \A s \in Steps : indegree[s] = Cardinality(Open(s))
HeapIsFree ==
  \A s \in Steps : s \in ready <=> s \notin Popped /\ indegree[s] = 0
PoppedAreFree == \A s \in Steps : s \in Popped => indegree[s] = 0

LoopInv ==
  /\ TopologyTypeOK /\ DegreesCount /\ HeapIsFree /\ PoppedAreFree
  /\ NeedsComeFirst /\ NoStepTwice

------------------------------------------------------------------------------
(* The places of a list of needs are finitely many.                        *)
LEMMA KnownFinite ==
  ASSUME TopologyTypeOK, NEW s \in Steps
  PROVE  IsFiniteSet(Known(s)) /\ Known(s) \subseteq DOMAIN needs[s]
<1>1. needs[s] \in Seq(Nat)
  BY TopologyAssumption DEF TopologyTypeOK
<1>2. IsFiniteSet(DOMAIN needs[s])
  <2>1. DOMAIN needs[s] = 1..Len(needs[s]) /\ Len(needs[s]) \in Nat
    BY <1>1
  <2>2. IsFiniteSet(1..Len(needs[s]))
    BY <2>1, FS_Interval
  <2> QED BY <2>1, <2>2
<1>3. Known(s) \in SUBSET DOMAIN needs[s]
  BY DEF Known
<1> QED BY <1>2, <1>3, FS_Subset

LEMMA OpenFinite ==
  ASSUME TopologyTypeOK, NEW s \in Steps
  PROVE  /\ IsFiniteSet(Open(s))
         /\ Cardinality(Open(s)) \in Nat
         /\ Cardinality(Open(s)) = 0 <=> Open(s) = {}
<1>1. Open(s) \in SUBSET Known(s)
  BY DEF Open
<1>2. IsFiniteSet(Open(s))
  BY <1>1, KnownFinite, FS_Subset
<1> QED BY <1>2, FS_CardinalityType, FS_EmptySet

(* Popping x takes its places out of what each step waits for.             *)
LEMMA OpenShrinks ==
  ASSUME TopologyTypeOK, NEW s \in Steps, NEW x \in Steps, x \notin Popped
  PROVE  /\ Uses(s, x) \subseteq Open(s)
         /\ IsFiniteSet(Uses(s, x))
         /\ Cardinality(Uses(s, x)) \in Nat
         /\ Cardinality(Open(s) \ Uses(s, x))
              = Cardinality(Open(s)) - Cardinality(Uses(s, x))
         /\ Cardinality(Open(s)) = Cardinality(Uses(s, x))
              => Open(s) = Uses(s, x)
         /\ Cardinality(Uses(s, x)) = 0 <=> Uses(s, x) = {}
<1>1. Uses(s, x) \in SUBSET Open(s)
  BY DEF Uses, Open, Known
<1>2. IsFiniteSet(Open(s))
  BY OpenFinite
<1>3. IsFiniteSet(Uses(s, x))
  BY <1>1, <1>2, FS_Subset
<1>4. Cardinality(Open(s) \ Uses(s, x))
        = Cardinality(Open(s)) - Cardinality(Open(s) \cap Uses(s, x))
  BY <1>2, FS_Difference
<1>5. Open(s) \cap Uses(s, x) = Uses(s, x)
  BY <1>1
<1>6. Cardinality(Open(s)) = Cardinality(Uses(s, x)) => Open(s) = Uses(s, x)
  BY <1>1, <1>2, FS_Subset
<1>7. Cardinality(Uses(s, x)) \in Nat
      /\ (Cardinality(Uses(s, x)) = 0 <=> Uses(s, x) = {})
  BY <1>3, FS_CardinalityType, FS_EmptySet
<1> QED BY <1>1, <1>3, <1>4, <1>5, <1>6, <1>7

------------------------------------------------------------------------------
LEMMA InitEstablishes == TInit => LoopInv
<1> SUFFICES ASSUME TInit PROVE LoopInv
  OBVIOUS
<1>1. Popped = {} /\ ordered \in Seq(Steps) /\ DOMAIN ordered = {}
  BY DEF TInit, Popped
<1>2. \A s \in Steps : Open(s) = Known(s)
  BY <1>1 DEF Open
<1>3. \A s \in Steps : Cardinality(Known(s)) \in Nat
  <2> TAKE s \in Steps
  <2>1. needs[s] \in Seq(Nat)
    BY TopologyAssumption DEF TInit
  <2>2. DOMAIN needs[s] = 1..Len(needs[s]) /\ Len(needs[s]) \in Nat
    BY <2>1
  <2>3. IsFiniteSet(DOMAIN needs[s])
    BY <2>2, FS_Interval
  <2>4. Known(s) \in SUBSET DOMAIN needs[s]
    BY DEF Known
  <2> QED BY <2>3, <2>4, FS_Subset, FS_CardinalityType
<1>4. TopologyTypeOK
  BY <1>1, <1>3 DEF TInit, TopologyTypeOK, Count
<1>5. DegreesCount
  BY <1>2 DEF TInit, DegreesCount, Count
<1>6. HeapIsFree /\ PoppedAreFree
  BY <1>1 DEF TInit, HeapIsFree, PoppedAreFree, Count
<1>7. NeedsComeFirst /\ NoStepTwice
  BY <1>1 DEF NeedsComeFirst, NoStepTwice
<1> QED BY <1>4, <1>5, <1>6, <1>7 DEF LoopInv

(* What a pop does to the order, for the step x it takes from the heap.    *)
LEMMA PopAppends ==
  ASSUME LoopInv, NEW x \in ready, ordered' = Append(ordered, x)
  PROVE  /\ x \in Steps /\ x \notin Popped /\ indegree[x] = 0
         /\ ordered' \in Seq(Steps)
         /\ DOMAIN ordered' = DOMAIN ordered \cup {Len(ordered) + 1}
         /\ DOMAIN ordered = 1..Len(ordered) /\ Len(ordered) \in Nat
         /\ \A i \in DOMAIN ordered : ordered'[i] = ordered[i]
         /\ ordered'[Len(ordered) + 1] = x
         /\ Popped' = Popped \cup {x}
<1>1. x \in Steps /\ x \notin Popped /\ indegree[x] = 0
  BY DEF LoopInv, TopologyTypeOK, HeapIsFree
<1>2. ordered \in Seq(Steps)
  BY DEF LoopInv, TopologyTypeOK
<1>3. /\ ordered' \in Seq(Steps)
      /\ DOMAIN ordered' = DOMAIN ordered \cup {Len(ordered) + 1}
      /\ DOMAIN ordered = 1..Len(ordered) /\ Len(ordered) \in Nat
      /\ \A i \in DOMAIN ordered : ordered'[i] = ordered[i]
      /\ ordered'[Len(ordered) + 1] = x
  BY <1>1, <1>2
<1>4. Popped' = Popped \cup {x}
  BY <1>3 DEF Popped
<1> QED BY <1>1, <1>3, <1>4

LEMMA PopPreserves == LoopInv /\ Pop => LoopInv'
<1> SUFFICES ASSUME LoopInv, Pop PROVE LoopInv'
  OBVIOUS
<1>0. PICK x \in ready :
        /\ ordered' = Append(ordered, x)
        /\ indegree' = [s \in Steps |-> indegree[s] - Cardinality(Uses(s, x))]
        /\ ready' = (ready \ {x}) \cup Pushed(x)
        /\ needs' = needs
  BY DEF Pop
<1>1. /\ x \in Steps /\ x \notin Popped /\ indegree[x] = 0
      /\ ordered' \in Seq(Steps)
      /\ DOMAIN ordered' = DOMAIN ordered \cup {Len(ordered) + 1}
      /\ DOMAIN ordered = 1..Len(ordered) /\ Len(ordered) \in Nat
      /\ \A i \in DOMAIN ordered : ordered'[i] = ordered[i]
      /\ ordered'[Len(ordered) + 1] = x
      /\ Popped' = Popped \cup {x}
  BY <1>0, PopAppends
<1>2. TopologyTypeOK /\ DegreesCount /\ HeapIsFree /\ PoppedAreFree
  BY DEF LoopInv
<1>3. \A s \in Steps : Open(s)' = Open(s) \ Uses(s, x)
  BY <1>0, <1>1 DEF Open, Known, Uses
<1>4. \A s \in Steps : indegree'[s] = Cardinality(Open(s)') /\ indegree'[s] \in Nat
  <2> TAKE s \in Steps
  <2>1. Cardinality(Open(s) \ Uses(s, x))
          = Cardinality(Open(s)) - Cardinality(Uses(s, x))
    BY <1>1, <1>2, OpenShrinks
  <2>2. indegree'[s] = Cardinality(Open(s)) - Cardinality(Uses(s, x))
    BY <1>0, <1>2 DEF DegreesCount
  <2>3. Cardinality(Open(s) \ Uses(s, x)) \in Nat
    <3>1. Open(s) \ Uses(s, x) \in SUBSET Open(s)
      OBVIOUS
    <3> QED BY <3>1, <1>2, OpenFinite, FS_Subset, FS_CardinalityType
  <2> QED BY <2>1, <2>2, <2>3, <1>3
<1>5. TopologyTypeOK'
  <2>1. indegree' \in [Steps -> Nat]
    BY <1>0, <1>4
  <2>2. ready' \subseteq Steps
    BY <1>0, <1>2 DEF Pushed, TopologyTypeOK
  <2> QED BY <1>0, <1>1, <1>2, <2>1, <2>2 DEF TopologyTypeOK
<1>6. DegreesCount'
  BY <1>4 DEF DegreesCount
<1>7. ASSUME NEW s \in Steps
      PROVE  /\ s \in ready' <=> s \notin Popped' /\ indegree'[s] = 0
             /\ s \in Popped' => indegree'[s] = 0
  <2>1. /\ indegree'[s] = indegree[s] - Cardinality(Uses(s, x))
        /\ indegree[s] = Cardinality(Open(s))
        /\ indegree[s] \in Nat
    BY <1>0, <1>2 DEF DegreesCount, TopologyTypeOK
  <2>2. /\ Uses(s, x) \subseteq Open(s)
        /\ Cardinality(Uses(s, x)) \in Nat
        /\ Cardinality(Uses(s, x)) = 0 <=> Uses(s, x) = {}
    BY <1>1, <1>2, OpenShrinks
  <2>3. Open(s) = {} <=> indegree[s] = 0
    BY <2>1, <1>2, OpenFinite
  <2>4. s \in Pushed(x) <=> Uses(s, x) # {} /\ indegree'[s] = 0
    BY <2>1, <2>2 DEF Pushed
  <2>5. s \in ready <=> s \notin Popped /\ indegree[s] = 0
    BY <1>2 DEF HeapIsFree
  <2>6. s \in Popped => indegree[s] = 0
    BY <1>2 DEF PoppedAreFree
  <2>7. CASE Uses(s, x) = {}
    <3>1. indegree'[s] = indegree[s]
      BY <2>1, <2>2, <2>7
    <3>2. s \in ready' <=> s \in ready /\ s # x
      BY <1>0, <2>4, <2>7
    <3> QED BY <3>1, <3>2, <2>5, <2>6, <1>1
  <2>8. CASE Uses(s, x) # {}
    <3>1. indegree[s] # 0
      BY <2>2, <2>3, <2>8
    <3>2. s # x /\ s \notin Popped
      BY <3>1, <2>6, <1>1
    <3> QED BY <3>1, <3>2, <2>4, <2>5, <2>8, <1>0, <1>1
  <2> QED BY <2>7, <2>8
<1>8. HeapIsFree' /\ PoppedAreFree'
  BY <1>7 DEF HeapIsFree, PoppedAreFree
<1>9. NeedsComeFirst'
  <2>0. ASSUME NEW i \in DOMAIN ordered', NEW s \in Steps, ordered'[i] = s,
               NEW k \in Known(s)
        PROVE  \E j \in 1..(i - 1) : ordered'[j] = needs[s][k]
    <3>1. CASE i \in DOMAIN ordered
      <4>1. ordered[i] = s
        BY <2>0, <3>1, <1>1
      <4>2. PICK j \in 1..(i - 1) : ordered[j] = needs[s][k]
        BY <4>1, <3>1 DEF LoopInv, NeedsComeFirst
      <4>3. j \in DOMAIN ordered
        BY <3>1, <1>1
      <4> QED BY <4>2, <4>3, <1>1
    <3>2. CASE i = Len(ordered) + 1
      <4>1. s = x
        BY <2>0, <3>2, <1>1
      <4>2. Open(x) = {}
        BY <1>1, <1>2, OpenFinite DEF DegreesCount
      <4>3. needs[s][k] \in Popped
        BY <4>1, <4>2 DEF Open
      <4>4. PICK j \in DOMAIN ordered : ordered[j] = needs[s][k]
        BY <4>3 DEF Popped
      <4>5. j \in 1..(i - 1)
        BY <3>2, <1>1
      <4> QED BY <4>4, <4>5, <1>1
    <3> QED BY <3>1, <3>2, <1>1
  <2>1. \A i \in DOMAIN ordered' : ordered'[i] \in Steps
    <3>1. ordered' \in Seq(Steps)
      BY <1>1
    <3> QED BY <3>1
  <2>2. \A s : Known(s)' = Known(s)
    BY <1>0 DEF Known
  <2>3. needs' = needs
    BY <1>0
  <2> QED BY <2>0, <2>1, <2>2, <2>3, Zenon DEF NeedsComeFirst
<1>10. NoStepTwice'
  <2>1. \A i \in DOMAIN ordered : ordered[i] # x
    BY <1>1 DEF Popped
  <2> QED BY <2>1, <1>1 DEF LoopInv, NoStepTwice
<1> QED BY <1>5, <1>6, <1>8, <1>9, <1>10 DEF LoopInv

LEMMA LoopInvariant == TSpec => []LoopInv
<1>1. LoopInv /\ UNCHANGED topologyVars => LoopInv'
  BY DEF LoopInv, topologyVars, TopologyTypeOK, DegreesCount, HeapIsFree,
         PoppedAreFree, NeedsComeFirst, NoStepTwice, Open, Known, Popped
<1>2. LoopInv /\ [Pop]_topologyVars => LoopInv'
  BY <1>1, PopPreserves
<1> QED BY <1>2, InitEstablishes, PTL DEF TSpec

------------------------------------------------------------------------------
(* The in-degrees never fall below zero, and the heap and the order hold   *)
(* steps only.                                                             *)
THEOREM TopologyTyped == TSpec => []TopologyTypeOK
<1>1. LoopInv => TopologyTypeOK
  BY DEF LoopInv
<1> QED BY <1>1, LoopInvariant, PTL

(* No step comes before a step it needs.                                   *)
THEOREM OrderRespectsNeeds == TSpec => []NeedsComeFirst
<1>1. LoopInv => NeedsComeFirst
  BY DEF LoopInv
<1> QED BY <1>1, LoopInvariant, PTL

(* No step has two turns.                                                  *)
THEOREM OrderHasNoStepTwice == TSpec => []NoStepTwice
<1>1. LoopInv => NoStepTwice
  BY DEF LoopInv
<1> QED BY <1>1, LoopInvariant, PTL

(* A step that never had its turn waits for another of that kind, so the   *)
(* empty tuple is returned only for a file with a cycle.                   *)
THEOREM OnlyCyclesAreRefused == TSpec => []StuckMeansCycle
<1>1. LoopInv => StuckMeansCycle
  <2> SUFFICES ASSUME LoopInv, Done, NEW s \in Steps \ Popped
               PROVE  \E k \in Known(s) : needs[s][k] \notin Popped
    BY DEF StuckMeansCycle
  <2>1. indegree[s] # 0
    BY DEF LoopInv, HeapIsFree, Done
  <2>2. Open(s) # {}
    BY <2>1, OpenFinite DEF LoopInv, DegreesCount
  <2> QED BY <2>2 DEF Open
<1> QED BY <1>1, LoopInvariant, PTL

(* So the order is sound at every pop, for any steps and any needs.        *)
THEOREM OrderHolds == TSpec => []OrderIsSound
<1>1. TopologyTypeOK /\ NeedsComeFirst /\ NoStepTwice /\ StuckMeansCycle
        => OrderIsSound
  BY DEF OrderIsSound
<1> QED
  BY <1>1, TopologyTyped, OrderRespectsNeeds, OrderHasNoStepTwice,
     OnlyCyclesAreRefused, PTL

------------------------------------------------------------------------------
(* What the heap adds: no step that was free at a pop is smaller than the  *)
(* step that was popped.                                                   *)
FreeAt(s, i) ==
  /\ \A j \in 1..(i - 1) : ordered[j] # s
  /\ \A k \in Known(s) : \E j \in 1..(i - 1) : ordered[j] = needs[s][k]

LeastAtEachPop ==
  \A i \in DOMAIN ordered : \A s \in Steps : FreeAt(s, i) => ordered[i] <= s

LEMMA PopIsLeast ==
  ASSUME LoopInv, LeastAtEachPop, Pop
  PROVE  LeastAtEachPop'
<1>1. PICK x \in ready :
        /\ \A y \in ready : x <= y
        /\ ordered' = Append(ordered, x)
        /\ needs' = needs
  BY DEF Pop, IsNext
<1>2. /\ ordered \in Seq(Steps) /\ x \in Steps /\ Len(ordered) \in Nat
      /\ DOMAIN ordered = 1..Len(ordered)
      /\ DOMAIN ordered' = 1..(Len(ordered) + 1)
      /\ \A i \in DOMAIN ordered : ordered'[i] = ordered[i]
      /\ ordered'[Len(ordered) + 1] = x
  BY <1>1 DEF LoopInv, TopologyTypeOK
<1>3. SUFFICES ASSUME NEW i \in DOMAIN ordered', NEW s \in Steps,
                      FreeAt(s, i)'
               PROVE  ordered'[i] <= s
  BY DEF LeastAtEachPop
<1>4. /\ i \in 1..(Len(ordered) + 1)
      /\ \A j \in 1..(i - 1) : j \in DOMAIN ordered /\ ordered'[j] = ordered[j]
  BY <1>2
<1>5. Known(s)' = Known(s)
  BY <1>1 DEF Known
<1>6. /\ \A j \in 1..(i - 1) : ordered[j] # s
      /\ \A k \in Known(s) : \E j \in 1..(i - 1) : ordered[j] = needs[s][k]
  BY <1>1, <1>3, <1>4, <1>5 DEF FreeAt
<1>7. CASE i \in DOMAIN ordered
  BY <1>2, <1>6, <1>7 DEF LeastAtEachPop, FreeAt
<1>8. CASE i = Len(ordered) + 1
  <2>1. s \notin Popped
    BY <1>2, <1>6, <1>8 DEF Popped
  <2>2. Open(s) = {}
    BY <1>2, <1>4, <1>6 DEF Open, Popped
  <2>3. s \in ready
    BY <2>1, <2>2, OpenFinite DEF LoopInv, HeapIsFree, DegreesCount
  <2> QED BY <1>1, <1>2, <1>8, <2>3
<1> QED BY <1>2, <1>4, <1>7, <1>8

(* A set of numbers that is not empty has a least one.                     *)
LEMMA LeastNumber ==
  ASSUME NEW T, T \subseteq Nat, T # {}
  PROVE  \E i \in T : \A j \in T : i <= j
<1>1. PICK i \in T : \A j \in T : ~(<<j, i>> \in OpToRel(<, Nat))
  BY WFMin, NatLessThanWellFounded, Zenon
<1>2. \A j \in T : ~(j < i)
  BY <1>1 DEF OpToRel
<1> QED BY <1>2

(* A numbering of as many places as there are steps, none of them twice,   *)
(* leaves no step out.                                                     *)
LEMMA OrdersHaveAll ==
  ASSUME NEW f \in Orders, NEW s \in Steps
  PROVE  \E i \in DOMAIN f : f[i] = s
<1> DEFINE n == Cardinality(Steps)
           image == {f[i] : i \in 1..n}
<1>1. /\ n \in Nat /\ IsFiniteSet(Steps)
      /\ f \in [1..n -> Steps]
      /\ \A i, j \in 1..n : i # j => f[i] # f[j]
  BY TopologyAssumption, FS_CardinalityType DEF Orders
<1>2. f \in Bijection(1..n, image)
  BY <1>1 DEF Bijection, Injection, Surjection, IsInjective
<1>3. Cardinality(image) = n
  BY <1>1, <1>2, FS_CountingElements DEF ExistsBijection
<1>4. image \subseteq Steps
  BY <1>1
<1>5. image = Steps
  BY <1>1, <1>3, <1>4, FS_Subset
<1> QED BY <1>1, <1>5

(* A loop that ends has popped every step of a file that has an order: the *)
(* first step of the order that was left would need an earlier one.        *)
LEMMA OrderIsReached ==
  ASSUME LoopInv, StuckMeansCycle, Done, NEW f \in Orders
  PROVE  Popped = Steps
<1>1. /\ Cardinality(Steps) \in Nat
      /\ f \in [1..Cardinality(Steps) -> Steps]
      /\ \A i \in 1..Cardinality(Steps) : \A k \in Known(f[i]) :
           \E j \in 1..(i - 1) : f[j] = needs[f[i]][k]
  BY TopologyAssumption, FS_CardinalityType DEF Orders
<1>2. Popped \subseteq Steps
  BY DEF Popped, LoopInv, TopologyTypeOK
<1>3. SUFFICES ASSUME NEW s \in Steps, s \notin Popped PROVE FALSE
  BY <1>2
<1> DEFINE Left(m) == m \in 1..Cardinality(Steps) /\ f[m] \notin Popped
<1>4. \E m \in Nat : Left(m)
  BY <1>1, <1>3, OrdersHaveAll
<1> HIDE DEF Left
<1>5. PICK i \in {m \in Nat : Left(m)} : \A j \in {m \in Nat : Left(m)} : i <= j
  BY <1>4, LeastNumber, Zenon
<1>6. PICK k \in Known(f[i]) : needs[f[i]][k] \notin Popped
  BY <1>1, <1>5 DEF StuckMeansCycle, Left
<1>7. PICK j \in 1..(i - 1) : f[j] = needs[f[i]][k]
  BY <1>1, <1>5, <1>6 DEF Left
<1>8. Left(j)
  BY <1>1, <1>5, <1>6, <1>7 DEF Left
<1>9. j \in Nat /\ j < i
  BY <1>5, <1>7
<1> QED BY <1>5, <1>8, <1>9

(* There are as many places in the order as steps popped.                  *)
LEMMA PoppedAreCounted ==
  ASSUME LoopInv
  PROVE  Cardinality(Popped) = Len(ordered)
<1>1. /\ DOMAIN ordered = 1..Len(ordered) /\ Len(ordered) \in Nat
      /\ \A i \in DOMAIN ordered : ordered[i] \in Steps
  BY DEF LoopInv, TopologyTypeOK
<1> DEFINE f == [i \in 1..Len(ordered) |-> ordered[i]]
<1>2. f \in Bijection(1..Len(ordered), Popped)
  <2>1. f \in [1..Len(ordered) -> Popped]
    BY <1>1 DEF Popped
  <2>2. \A i, j \in 1..Len(ordered) : f[i] = f[j] => i = j
    BY <1>1 DEF LoopInv, NoStepTwice
  <2>3. \A s \in Popped : \E i \in 1..Len(ordered) : f[i] = s
    BY <1>1 DEF Popped
  <2> HIDE DEF f
  <2> QED BY <2>1, <2>2, <2>3 DEF Bijection, Injection, Surjection, IsInjective
<1> QED BY <1>1, <1>2, FS_CountingElements DEF ExistsBijection

(* Of a numbering that respects the needs, the first place where it is not *)
(* the order of the loop holds a step that was free when the loop popped,  *)
(* so that the loop popped a smaller one.                                  *)
LEMMA FirstDifference ==
  ASSUME LoopInv, LeastAtEachPop, Len(ordered) = Cardinality(Steps),
         NEW g \in Orders, g # ordered
  PROVE  Before(ordered, g)
<1> DEFINE n == Cardinality(Steps)
           Differ(m) == m \in 1..n /\ ordered[m] # g[m]
<1>1. /\ n \in Nat
      /\ g \in [1..n -> Steps]
      /\ \A i, j \in 1..n : i # j => g[i] # g[j]
      /\ \A i \in 1..n : \A k \in Known(g[i]) :
           \E j \in 1..(i - 1) : g[j] = needs[g[i]][k]
  BY TopologyAssumption, FS_CardinalityType DEF Orders
<1>2. ordered \in [1..n -> Steps] /\ DOMAIN ordered = 1..n
  BY <1>1 DEF LoopInv, TopologyTypeOK
<1>3. \E m \in Nat : Differ(m)
  BY <1>1, <1>2
<1> HIDE DEF Differ
<1>4. PICK i \in {m \in Nat : Differ(m)} :
        \A j \in {m \in Nat : Differ(m)} : i <= j
  BY <1>3, LeastNumber, Zenon
<1>5. i \in 1..n /\ ordered[i] # g[i]
  BY <1>4 DEF Differ
<1>6. \A j \in 1..(i - 1) : ordered[j] = g[j]
  <2> TAKE j \in 1..(i - 1)
  <2>1. j \in Nat /\ j \in 1..n /\ ~(i <= j)
    BY <1>1, <1>5
  <2>2. ~Differ(j)
    BY <1>4, <2>1
  <2> QED BY <2>1, <2>2 DEF Differ
<1>7. FreeAt(g[i], i)
  <2>1. \A j \in 1..(i - 1) : ordered[j] # g[i]
    BY <1>1, <1>5, <1>6
  <2>2. \A k \in Known(g[i]) :
          \E j \in 1..(i - 1) : ordered[j] = needs[g[i]][k]
    BY <1>1, <1>5, <1>6
  <2> QED BY <2>1, <2>2 DEF FreeAt
<1>8. ordered[i] <= g[i]
  BY <1>1, <1>2, <1>5, <1>7 DEF LeastAtEachPop
<1>9. ordered[i] \in Nat /\ g[i] \in Nat
  BY <1>1, <1>2, <1>5, TopologyAssumption
<1>10. ordered[i] < g[i]
  BY <1>5, <1>8, <1>9
<1> QED BY <1>2, <1>5, <1>6, <1>10 DEF Before

LEMMA LoopIsLeast == LoopInv /\ StuckMeansCycle /\ LeastAtEachPop => LeastOrder
<1> SUFFICES ASSUME LoopInv, StuckMeansCycle, LeastAtEachPop, Done
             PROVE  IF Orders = {} THEN Returned = <<>>
                    ELSE /\ Returned \in Orders
                         /\ \A g \in Orders : g = Returned \/ Before(Returned, g)
  BY DEF LeastOrder
<1>1. Len(ordered) = Cardinality(Steps) => ordered \in Orders
  <2> SUFFICES ASSUME Len(ordered) = Cardinality(Steps)
               PROVE  ordered \in Orders
    OBVIOUS
  <2>1. ordered \in [1..Cardinality(Steps) -> Steps]
        /\ DOMAIN ordered = 1..Cardinality(Steps)
    BY DEF LoopInv, TopologyTypeOK
  <2>2. \A i, j \in DOMAIN ordered : i # j => ordered[i] # ordered[j]
    BY DEF LoopInv, NoStepTwice
  <2>3. \A i \in DOMAIN ordered : \A k \in Known(ordered[i]) :
          \E j \in 1..(i - 1) : ordered[j] = needs[ordered[i]][k]
    BY DEF LoopInv, NeedsComeFirst
  <2> QED BY <2>1, <2>2, <2>3 DEF Orders
<1>2. Orders # {} => Len(ordered) = Cardinality(Steps)
  <2> SUFFICES ASSUME Orders # {} PROVE Len(ordered) = Cardinality(Steps)
    OBVIOUS
  <2>1. Popped = Steps
    BY OrderIsReached
  <2> QED BY <2>1, PoppedAreCounted
<1>3. Orders = {} => Returned = <<>>
  BY <1>1 DEF Returned
<1>4. Orders # {} => Returned = ordered /\ ordered \in Orders
  BY <1>1, <1>2 DEF Returned
<1>5. Orders # {} => \A g \in Orders : g = ordered \/ Before(ordered, g)
  BY <1>2, FirstDifference
<1> QED BY <1>3, <1>4, <1>5

(* deterministic_topology returns the lexically least of all orders that   *)
(* respect the needs when there is one, and nothing when there is none:    *)
(* the order of a pipeline is a function of its file alone.                *)
THEOREM OrderIsLeast == TSpec => []LeastOrder
<1>1. TInit => LeastAtEachPop
  BY DEF TInit, LeastAtEachPop
<1>2. LoopInv /\ LeastAtEachPop /\ [Pop]_topologyVars => LeastAtEachPop'
  <2>1. LeastAtEachPop /\ UNCHANGED topologyVars => LeastAtEachPop'
    BY DEF LeastAtEachPop, FreeAt, Known, topologyVars
  <2> QED BY <2>1, PopIsLeast
<1> QED BY <1>1, <1>2, LoopInvariant, OnlyCyclesAreRefused, LoopIsLeast, PTL
        DEF TSpec

------------------------------------------------------------------------------
FileOK ==
  file \in [inputs : [Steps -> SUBSET Artifacts],
            outputs : [Steps -> SUBSET Artifacts],
            producer : [Artifacts -> Steps \cup {NoStep}],
            path : [Artifacts -> Paths]]

(* Validating files adds nothing to the ordering of their steps.           *)
LEMMA SchemaOrders == SSpec => TSpec /\ []FileOK
<1>1. SInit => TInit /\ FileOK
  BY DEF SInit, FileOK
<1>2. [SNext]_schemaVars => [Pop]_topologyVars
  BY DEF SNext, schemaVars, topologyVars
<1>3. FileOK /\ [SNext]_schemaVars => FileOK'
  BY DEF SNext, schemaVars, FileOK
<1> QED BY <1>1, <1>2, <1>3, PTL DEF SSpec, TSpec

(* An order of as many entries as there are steps has all of them, since   *)
(* it has none twice.                                                      *)
LEMMA FullOrderHasAll ==
  ASSUME LoopInv, Len(ordered) = Cardinality(Steps)
  PROVE  Popped = Steps
<1>1. Popped \in SUBSET Steps /\ IsFiniteSet(Steps)
  BY TopologyAssumption DEF LoopInv, TopologyTypeOK, Popped
<1> QED BY <1>1, PoppedAreCounted, FS_Subset

(* A step whose turn has come follows each step that its needs name.       *)
LEMMA NeedPrecedes ==
  ASSUME LoopInv, NEW s \in Popped, NEW k \in Known(s)
  PROVE  Precedes(needs[s][k], s)
<1>1. ordered \in Seq(Steps)
  BY DEF LoopInv, TopologyTypeOK
<1>2. DOMAIN ordered = 1..Len(ordered) /\ Len(ordered) \in Nat
  BY <1>1
<1>3. PICK j \in DOMAIN ordered : ordered[j] = s
  BY DEF Popped
<1>4. PICK i \in 1..(j - 1) : ordered[i] = needs[ordered[j]][k]
  BY <1>3 DEF LoopInv, NeedsComeFirst
<1> QED BY <1>2, <1>3, <1>4 DEF Precedes

(* Every step of a valid file has its turn, after all that it needs.       *)
LEMMA TurnsOfValid ==
  ASSUME LoopInv, FileOK, Valid
  PROVE  EveryStepHasItsTurn
<1>1. Popped = Steps
  BY FullOrderHasAll DEF Valid, Returned
<1>2. \A s \in Steps : Known(s) = DOMAIN needs[s]
  BY DEF Valid, NeedsStand
<1> QED BY <1>1, <1>2, NeedPrecedes DEF EveryStepHasItsTurn

(* What a step of a valid file reads of another's outputs is of a step     *)
(* that it needs, and no output has two owners.                            *)
LEMMA OwnersOfValid ==
  ASSUME FileOK, Valid
  PROVE  ArtifactsHaveOwners
<1>1. ASSUME NEW s \in Steps, NEW t \in Steps, s # t
      PROVE  file.outputs[s] \cap file.outputs[t] = {}
  <2> SUFFICES ASSUME NEW a \in file.outputs[s], a \in file.outputs[t]
               PROVE  FALSE
    OBVIOUS
  <2>1. a \in Artifacts
    BY DEF FileOK
  <2>2. file.producer[a] = s /\ file.producer[a] = t
    BY <2>1 DEF Valid, ProducersAgree, Owners
  <2> QED BY <1>1, <2>2
<1>2. ASSUME NEW s \in Steps, NEW t \in Steps,
             file.inputs[s] \cap file.outputs[t] # {}
      PROVE  Uses(s, t) # {}
  <2>1. PICK a \in file.inputs[s] : a \in file.outputs[t]
    BY <1>2
  <2>2. a \in Artifacts
    BY DEF FileOK
  <2>3. file.producer[a] = t
    BY <2>1, <2>2 DEF Valid, ProducersAgree, Owners
  <2>4. s # t
    BY <2>1 DEF Valid, NoneIsBoth
  <2> QED BY <2>3, <2>4 DEF Valid, InputsDeclared
<1> QED BY <1>1, <1>2 DEF ArtifactsHaveOwners

(* And what it reads was produced by a step whose turn was before its own. *)
LEMMA InputsOfValid ==
  ASSUME LoopInv, FileOK, Valid
  PROVE  InputsAreProducedFirst
<1> SUFFICES ASSUME NEW s \in Steps, NEW a \in file.inputs[s],
                    file.producer[a] # NoStep
             PROVE  /\ Precedes(file.producer[a], s)
                    /\ a \in file.outputs[file.producer[a]]
  BY DEF InputsAreProducedFirst
<1> DEFINE t == file.producer[a]
<1>1. a \in Artifacts /\ t \in Steps
  BY DEF FileOK
<1>2. a \in file.outputs[t]
  <2>1. Owners(a) = {t}
    BY <1>1 DEF Valid, ProducersAgree
  <2> QED BY <2>1 DEF Owners
<1>3. t # s
  BY <1>2 DEF Valid, NoneIsBoth
<1>4. Uses(s, t) # {}
  BY <1>1, <1>3 DEF Valid, InputsDeclared
<1>5. PICK i \in DOMAIN needs[s] : needs[s][i] = t
  BY <1>4 DEF Uses
<1>6. Precedes(needs[s][i], s)
  BY TurnsOfValid DEF EveryStepHasItsTurn
<1> QED BY <1>2, <1>5, <1>6

(* What dag_runner.py takes for granted of a file that validates, for any  *)
(* steps, needs, artifacts and paths: every step has one turn, after those *)
(* that it needs and those whose outputs it reads.                         *)
THEOREM AcceptedFilesRun == SSpec => []RunnerMayAssume
<1>1. LoopInv /\ FileOK /\ OrderIsSound => RunnerMayAssume
  BY TurnsOfValid, OwnersOfValid, InputsOfValid DEF RunnerMayAssume
<1> QED BY <1>1, SchemaOrders, LoopInvariant, OrderHolds, PTL

------------------------------------------------------------------------------
(* The close-of-day run.                                                   *)

\* Nothing is newer than the run that got the lock last.
NoneIsNewer ==
    /\ latest.run <= count /\ operation.run <= count
    /\ notification.run <= count /\ producers \subseteq {count}
    /\ lock = Nobody => producers = {}

\* What stands while the newest run is where it is.
RunOK(p) ==
    /\ lock = p /\ Run(p) = count
    /\ ctl[p].pc = "deciding" \/ producers = {}
    /\ ctl[p].pc \in {"inputs", "decision"} =>
          latest.run < count /\ ~ctl[p].decided
    /\ ctl[p].pc \in {"deciding", "judge"} =>
          /\ ctl[p].decided /\ ctl[p].old.run < count
          /\ latest = ctl[p].old \/ latest.run = count
    /\ ctl[p].pc = "read" => ctl[p].decided
    /\ /\ ctl[p].decided
       /\ ctl[p].pc \in {"read", "rest", "save", "notify", "unlock"}
       => latest.run = count
    /\ ctl[p].status = "ready" =>
          /\ latest.run = count /\ latest.status = "ready"
          /\ ctl[p].pc \in {"rest", "save", "notify", "unlock"}
    /\ ctl[p].pc # "unlock" => notification.run < count
    /\ ctl[p].pc = "notify" =>
          operation.run = count
            /\ (Completed(p) => operation.status = "completed")

DailyInv ==
    /\ TypeOK /\ NoneIsNewer
    /\ \A p \in Procs : At(p, "idle") \/ RunOK(p)
    /\ OldPointerIsNotReused /\ QuietMeansCompleted

-----------------------------------------------------------------------------
LEMMA NobodyIsNone == Nobody \notin Procs
  BY NoSetContainsEverything DEF Nobody

LEMMA DailyInit == Init => DailyInv
<1> USE DEF Init, TypeOK, Cards, Idle, At
<1>1. Init => TypeOK
  OBVIOUS
<1>2. Init => NoneIsNewer
  BY DEF NoneIsNewer
<1> QED
  BY <1>1, <1>2 DEF DailyInv, OldPointerIsNotReused, QuietMeansCompleted

\* At most one run has not ended: the one that has the lock.
LEMMA OneRun ==
  ASSUME DailyInv, NEW p \in Procs, ~At(p, "idle")
  PROVE  /\ RunOK(p) /\ ctl[p] \in Runs
         /\ \A q \in Procs \ {p} : At(q, "idle") /\ ctl[q] = Idle
<1>1. RunOK(p)
  BY DEF DailyInv
<1>2. \A q \in Procs : ctl[q] \in Runs \/ ctl[q] = Idle
  BY DEF DailyInv, TypeOK
<1>3. ASSUME NEW q \in Procs \ {p} PROVE At(q, "idle")
  BY <1>1 DEF DailyInv, RunOK
<1>4. \A q \in Procs : At(q, "idle") => ctl[q] = Idle
  BY <1>2 DEF At, Runs, Pcs
<1> QED BY <1>1, <1>2, <1>3, <1>4 DEF Idle, At
-----------------------------------------------------------------------------
(* One lemma for each action: the types, the bounds by the newest run, the *)
(* run that acts and the ones that do not, and what is told.               *)

LEMMA Advance ==
  ASSUME TypeOK, NEW p \in Procs, ctl[p] \in Runs, NEW where \in Pcs,
         NEW good \in BOOLEAN, Goto(p, where, good)
  PROVE  ctl' \in [Procs -> Runs \cup {Idle}]
<1> DEFINE still == ctl[p].good /\ good
<1>1. still \in BOOLEAN
  BY Zenon
<1>2. ctl' = [ctl EXCEPT ![p] = [ctl[p] EXCEPT !.pc = where, !.good = still]]
  BY DEF Goto, TypeOK
<1> HIDE DEF still
<1> QED BY <1>1, <1>2 DEF TypeOK, Runs

LEMMA InputsStep ==
  ASSUME DailyInv, NEW p \in Procs, Inputs(p)
  PROVE  DailyInv'
<1> USE DEF Inputs, Goto, told
<1>0. ~At(p, "idle")
  BY DEF At
<1>1. /\ RunOK(p) /\ ctl[p] \in Runs
      /\ \A q \in Procs \ {p} : At(q, "idle") /\ ctl[q] = Idle
  BY <1>0, OneRun
<1>2. TypeOK'
  BY <1>1 DEF DailyInv, TypeOK, Runs, Pcs, Cards, Idle, At, Run
<1>3. NoneIsNewer'
  BY <1>1 DEF DailyInv, TypeOK, NoneIsNewer, RunOK, At, Run, Runs, Pcs
<1>4. At(p, "idle")' \/ RunOK(p)'
  BY <1>1 DEF DailyInv, TypeOK, NoneIsNewer, RunOK, At, Run, Runs, Pcs, Cards, Idle, Completed
<1>5. \A q \in Procs \ {p} : At(q, "idle")'
  BY <1>1 DEF DailyInv, TypeOK, At
<1>6. OldPointerIsNotReused' /\ QuietMeansCompleted'
  BY <1>1 DEF DailyInv, TypeOK, NoneIsNewer, RunOK, OldPointerIsNotReused, QuietMeansCompleted, At, Run, Runs, Cards, Pcs, Completed
<1> QED BY <1>2, <1>3, <1>4, <1>5, <1>6 DEF DailyInv

LEMMA DecideStep ==
  ASSUME DailyInv, NEW p \in Procs, Decide(p)
  PROVE  DailyInv'
<1> USE DEF Decide, Goto, told
<1>0. ~At(p, "idle")
  BY DEF At
<1>1. /\ RunOK(p) /\ ctl[p] \in Runs
      /\ \A q \in Procs \ {p} : At(q, "idle") /\ ctl[q] = Idle
  BY <1>0, OneRun
<1>2. TypeOK'
  BY <1>1 DEF DailyInv, TypeOK, Runs, Pcs, Cards, Idle, At, Run
<1>3. NoneIsNewer'
  BY <1>1 DEF DailyInv, TypeOK, NoneIsNewer, RunOK, At, Run, Runs, Pcs
<1>4. At(p, "idle")' \/ RunOK(p)'
  BY <1>1 DEF DailyInv, TypeOK, NoneIsNewer, RunOK, At, Run, Runs, Pcs, Cards, Idle, Completed
<1>5. \A q \in Procs \ {p} : At(q, "idle")'
  BY <1>1 DEF DailyInv, TypeOK, At
<1>6. OldPointerIsNotReused' /\ QuietMeansCompleted'
  BY <1>1 DEF DailyInv, TypeOK, NoneIsNewer, RunOK, OldPointerIsNotReused, QuietMeansCompleted, At, Run, Runs, Cards, Pcs, Completed
<1> QED BY <1>2, <1>3, <1>4, <1>5, <1>6 DEF DailyInv

LEMMA JudgeStep ==
  ASSUME DailyInv, NEW p \in Procs, Judge(p)
  PROVE  DailyInv'
<1> USE DEF Judge, Goto, told
<1>0. ~At(p, "idle")
  BY DEF At
<1>1. /\ RunOK(p) /\ ctl[p] \in Runs
      /\ \A q \in Procs \ {p} : At(q, "idle") /\ ctl[q] = Idle
  BY <1>0, OneRun
<1>a. ctl' \in [Procs -> Runs \cup {Idle}]
  BY <1>1, Advance DEF DailyInv, Pcs
<1>2. TypeOK'
  BY <1>1, <1>a DEF DailyInv, TypeOK, Runs, Pcs, Cards, Idle, At, Run, Published
<1>3. NoneIsNewer'
  BY <1>1 DEF DailyInv, TypeOK, NoneIsNewer, RunOK, At, Run, Runs, Pcs, Published
<1>4. At(p, "idle")' \/ RunOK(p)'
  BY <1>1 DEF DailyInv, TypeOK, NoneIsNewer, RunOK, At, Run, Runs, Pcs, Cards, Idle, Completed, Published
<1>5. \A q \in Procs \ {p} : At(q, "idle")'
  BY <1>1 DEF DailyInv, TypeOK, At
<1>6. OldPointerIsNotReused' /\ QuietMeansCompleted'
  BY <1>1 DEF DailyInv, TypeOK, NoneIsNewer, RunOK, OldPointerIsNotReused, QuietMeansCompleted, At, Run, Runs, Cards, Pcs, Completed, Published
<1> QED BY <1>2, <1>3, <1>4, <1>5, <1>6 DEF DailyInv

LEMMA ReadStep ==
  ASSUME DailyInv, NEW p \in Procs, Read(p)
  PROVE  DailyInv'
<1> USE DEF Read, Goto, told
<1>0. ~At(p, "idle")
  BY DEF At
<1>1. /\ RunOK(p) /\ ctl[p] \in Runs
      /\ \A q \in Procs \ {p} : At(q, "idle") /\ ctl[q] = Idle
  BY <1>0, OneRun
<1>2. TypeOK'
  BY <1>1 DEF DailyInv, TypeOK, Runs, Pcs, Cards, Idle, At, Run
<1>3. NoneIsNewer'
  BY <1>1 DEF DailyInv, TypeOK, NoneIsNewer, RunOK, At, Run, Runs, Pcs
<1>4. At(p, "idle")' \/ RunOK(p)'
  BY <1>1 DEF DailyInv, TypeOK, NoneIsNewer, RunOK, At, Run, Runs, Pcs, Cards, Idle, Completed
<1>5. \A q \in Procs \ {p} : At(q, "idle")'
  BY <1>1 DEF DailyInv, TypeOK, At
<1>6. OldPointerIsNotReused' /\ QuietMeansCompleted'
  BY <1>1 DEF DailyInv, TypeOK, NoneIsNewer, RunOK, OldPointerIsNotReused, QuietMeansCompleted, At, Run, Runs, Cards, Pcs, Completed
<1> QED BY <1>2, <1>3, <1>4, <1>5, <1>6 DEF DailyInv

LEMMA RestStep ==
  ASSUME DailyInv, NEW p \in Procs, Rest(p)
  PROVE  DailyInv'
<1> USE DEF Rest, Goto, told
<1>0. ~At(p, "idle")
  BY DEF At
<1>1. /\ RunOK(p) /\ ctl[p] \in Runs
      /\ \A q \in Procs \ {p} : At(q, "idle") /\ ctl[q] = Idle
  BY <1>0, OneRun
<1>a. ctl' \in [Procs -> Runs \cup {Idle}]
  BY <1>1, Advance DEF DailyInv, Pcs
<1>2. TypeOK'
  BY <1>1, <1>a DEF DailyInv, TypeOK, Runs, Pcs, Cards, Idle, At, Run
<1>3. NoneIsNewer'
  BY <1>1 DEF DailyInv, TypeOK, NoneIsNewer, RunOK, At, Run, Runs, Pcs
<1>4. At(p, "idle")' \/ RunOK(p)'
  BY <1>1 DEF DailyInv, TypeOK, NoneIsNewer, RunOK, At, Run, Runs, Pcs, Cards, Idle, Completed
<1>5. \A q \in Procs \ {p} : At(q, "idle")'
  BY <1>1 DEF DailyInv, TypeOK, At
<1>6. OldPointerIsNotReused' /\ QuietMeansCompleted'
  BY <1>1 DEF DailyInv, TypeOK, NoneIsNewer, RunOK, OldPointerIsNotReused, QuietMeansCompleted, At, Run, Runs, Cards, Pcs, Completed
<1> QED BY <1>2, <1>3, <1>4, <1>5, <1>6 DEF DailyInv

LEMMA SaveStep ==
  ASSUME DailyInv, NEW p \in Procs, SaveOperation(p)
  PROVE  DailyInv'
<1> USE DEF SaveOperation, Goto, told
<1>0. ~At(p, "idle")
  BY DEF At
<1>1. /\ RunOK(p) /\ ctl[p] \in Runs
      /\ \A q \in Procs \ {p} : At(q, "idle") /\ ctl[q] = Idle
  BY <1>0, OneRun
<1>2. TypeOK'
  BY <1>1 DEF DailyInv, TypeOK, Runs, Pcs, Cards, Idle, At, Run
<1>3. NoneIsNewer'
  BY <1>1 DEF DailyInv, TypeOK, NoneIsNewer, RunOK, At, Run, Runs, Pcs
<1>4. At(p, "idle")' \/ RunOK(p)'
  BY <1>1 DEF DailyInv, TypeOK, NoneIsNewer, RunOK, At, Run, Runs, Pcs, Cards, Idle, Completed
<1>5. \A q \in Procs \ {p} : At(q, "idle")'
  BY <1>1 DEF DailyInv, TypeOK, At
<1>6. OldPointerIsNotReused' /\ QuietMeansCompleted'
  BY <1>1 DEF DailyInv, TypeOK, NoneIsNewer, RunOK, OldPointerIsNotReused, QuietMeansCompleted, At, Run, Runs, Cards, Pcs, Completed
<1> QED BY <1>2, <1>3, <1>4, <1>5, <1>6 DEF DailyInv

LEMMA NotifyStep ==
  ASSUME DailyInv, NEW p \in Procs, Notify(p)
  PROVE  DailyInv'
<1> USE DEF Notify, Goto, told
<1>0. ~At(p, "idle")
  BY DEF At
<1>1. /\ RunOK(p) /\ ctl[p] \in Runs
      /\ \A q \in Procs \ {p} : At(q, "idle") /\ ctl[q] = Idle
  BY <1>0, OneRun
<1>a. ctl' \in [Procs -> Runs \cup {Idle}]
  BY <1>1, Advance DEF DailyInv, Pcs
<1>2. TypeOK'
  BY <1>1, <1>a DEF DailyInv, TypeOK, Runs, Pcs, Cards, Idle, At, Run
<1>3. NoneIsNewer'
  BY <1>1 DEF DailyInv, TypeOK, NoneIsNewer, RunOK, At, Run, Runs, Pcs
<1>4. At(p, "idle")' \/ RunOK(p)'
  BY <1>1 DEF DailyInv, TypeOK, NoneIsNewer, RunOK, At, Run, Runs, Pcs, Cards, Idle, Completed
<1>5. \A q \in Procs \ {p} : At(q, "idle")'
  BY <1>1 DEF DailyInv, TypeOK, At
<1>b. /\ notification'.run = Run(p)
      /\ ~notification'.notify => Completed(p)
  <2>1. PICK alerts \in BOOLEAN :
          notification' = [run |-> Run(p), notify |-> ~Completed(p) \/ alerts]
    OBVIOUS
  <2>2. notification'.notify = (~Completed(p) \/ alerts)
    BY <2>1
  <2> QED BY <2>1, <2>2, Zenon
<1>6. OldPointerIsNotReused' /\ QuietMeansCompleted'
  BY <1>1, <1>b DEF DailyInv, TypeOK, NoneIsNewer, RunOK, OldPointerIsNotReused, QuietMeansCompleted, At, Run, Runs, Cards, Pcs, Completed
<1> QED BY <1>2, <1>3, <1>4, <1>5, <1>6 DEF DailyInv

LEMMA SaveFailsStep ==
  ASSUME DailyInv, NEW p \in Procs, SaveFails(p)
  PROVE  DailyInv'
<1> USE DEF SaveFails, Goto, told
<1>0. ~At(p, "idle")
  BY DEF At
<1>1. /\ RunOK(p) /\ ctl[p] \in Runs
      /\ \A q \in Procs \ {p} : At(q, "idle") /\ ctl[q] = Idle
  BY <1>0, OneRun
<1>2. TypeOK'
  BY <1>1 DEF DailyInv, TypeOK, Runs, Pcs, Cards, Idle, At, Run
<1>3. NoneIsNewer'
  BY <1>1 DEF DailyInv, TypeOK, NoneIsNewer, RunOK, At, Run, Runs, Pcs
<1>4. At(p, "idle")' \/ RunOK(p)'
  BY <1>1 DEF DailyInv, TypeOK, NoneIsNewer, RunOK, At, Run, Runs, Pcs, Cards, Idle, Completed
<1>5. \A q \in Procs \ {p} : At(q, "idle")'
  BY <1>1 DEF DailyInv, TypeOK, At
<1>6. OldPointerIsNotReused' /\ QuietMeansCompleted'
  BY <1>1 DEF DailyInv, TypeOK, NoneIsNewer, RunOK, OldPointerIsNotReused, QuietMeansCompleted, At, Run, Runs, Cards, Pcs, Completed
<1> QED BY <1>2, <1>3, <1>4, <1>5, <1>6 DEF DailyInv

LEMMA UnlockStep ==
  ASSUME DailyInv, NEW p \in Procs, Unlock(p)
  PROVE  DailyInv'
<1> USE DEF Unlock, Goto, told
<1>0. ~At(p, "idle")
  BY DEF At
<1>1. /\ RunOK(p) /\ ctl[p] \in Runs
      /\ \A q \in Procs \ {p} : At(q, "idle") /\ ctl[q] = Idle
  BY <1>0, OneRun
<1>2. TypeOK'
  BY <1>1 DEF DailyInv, TypeOK, Runs, Pcs, Cards, Idle, At, Run
<1>3. NoneIsNewer'
  BY <1>1 DEF DailyInv, TypeOK, NoneIsNewer, RunOK, At, Run, Runs, Pcs
<1>4. At(p, "idle")' \/ RunOK(p)'
  BY <1>1 DEF DailyInv, TypeOK, NoneIsNewer, RunOK, At, Run, Runs, Pcs, Cards, Idle, Completed
<1>5. \A q \in Procs \ {p} : At(q, "idle")'
  BY <1>1 DEF DailyInv, TypeOK, At
<1>6. OldPointerIsNotReused' /\ QuietMeansCompleted'
  BY <1>1 DEF DailyInv, TypeOK, NoneIsNewer, RunOK, OldPointerIsNotReused, QuietMeansCompleted, At, Run, Runs, Cards, Pcs, Completed
<1> QED BY <1>2, <1>3, <1>4, <1>5, <1>6 DEF DailyInv

LEMMA KillStep ==
  ASSUME DailyInv, NEW p \in Procs, Kill(p)
  PROVE  DailyInv'
<1> USE DEF Kill, Goto, told
<1>0. ~At(p, "idle")
  BY DEF At
<1>1. /\ RunOK(p) /\ ctl[p] \in Runs
      /\ \A q \in Procs \ {p} : At(q, "idle") /\ ctl[q] = Idle
  BY <1>0, OneRun
<1>2. TypeOK'
  BY <1>1 DEF DailyInv, TypeOK, Runs, Pcs, Cards, Idle, At, Run
<1>3. NoneIsNewer'
  BY <1>1 DEF DailyInv, TypeOK, NoneIsNewer, RunOK, At, Run, Runs, Pcs
<1>4. At(p, "idle")' \/ RunOK(p)'
  BY <1>1 DEF DailyInv, TypeOK, NoneIsNewer, RunOK, At, Run, Runs, Pcs, Cards, Idle, Completed
<1>5. \A q \in Procs \ {p} : At(q, "idle")'
  BY <1>1 DEF DailyInv, TypeOK, At
<1>6. OldPointerIsNotReused' /\ QuietMeansCompleted'
  BY <1>1 DEF DailyInv, TypeOK, NoneIsNewer, RunOK, OldPointerIsNotReused, QuietMeansCompleted, At, Run, Runs, Cards, Pcs, Completed
<1> QED BY <1>2, <1>3, <1>4, <1>5, <1>6 DEF DailyInv

LEMMA BeginStep ==
  ASSUME DailyInv, NEW p \in Procs, Begin(p)
  PROVE  DailyInv'
<1> USE DEF Begin, told
<1>1. \A q \in Procs : At(q, "idle")
  BY NobodyIsNone DEF DailyInv, RunOK, At
<1>2. TypeOK'
  BY DEF DailyInv, TypeOK, Runs, Pcs, Cards
<1>3. NoneIsNewer'
  BY NobodyIsNone DEF DailyInv, TypeOK, NoneIsNewer, Cards
<1>4. RunOK(p)'
  BY DEF DailyInv, TypeOK, NoneIsNewer, RunOK, Run, Cards, Completed
<1>5. \A q \in Procs \ {p} : At(q, "idle")'
  BY <1>1 DEF DailyInv, TypeOK, At
<1>6. OldPointerIsNotReused' /\ QuietMeansCompleted'
  BY DEF DailyInv, OldPointerIsNotReused, QuietMeansCompleted
<1> QED BY <1>2, <1>3, <1>4, <1>5, <1>6 DEF DailyInv

(* A producer works for the run that waits, or for one that was killed.    *)
LEMMA ProduceStep ==
  ASSUME DailyInv, NEW r \in Nat, Produce(r)
  PROVE  DailyInv'
<1> USE DEF Produce, told
<1>1. r = count /\ producers = {count}
  BY DEF DailyInv, NoneIsNewer
<1>2. TypeOK'
  BY DEF DailyInv, TypeOK, Cards
<1>3. NoneIsNewer'
  BY <1>1 DEF DailyInv, TypeOK, NoneIsNewer
<1>4. ASSUME NEW p \in Procs, ~At(p, "idle") PROVE RunOK(p)'
  <2>1. RunOK(p) /\ ctl[p].pc = "deciding"
    BY <1>1, <1>4 DEF DailyInv, RunOK
  <2> QED BY <1>1, <2>1 DEF DailyInv, TypeOK, RunOK, Run, Completed
<1>5. OldPointerIsNotReused' /\ QuietMeansCompleted'
  BY <1>1 DEF DailyInv, TypeOK, NoneIsNewer, OldPointerIsNotReused, QuietMeansCompleted
<1> QED BY <1>2, <1>3, <1>4, <1>5 DEF DailyInv, At

LEMMA ProducerEndsStep ==
  ASSUME DailyInv, NEW r \in Nat, ProducerEnds(r)
  PROVE  DailyInv'
<1> USE DEF ProducerEnds, told
<1>1. r = count /\ producers' = {}
  BY DEF DailyInv, NoneIsNewer
<1>2. PICK good \in BOOLEAN :
        ctl' = [p \in Procs |->
                  IF Waits(p, r)
                  THEN [ctl[p] EXCEPT !.pc = "judge", !.good = @ /\ good]
                  ELSE ctl[p]]
  OBVIOUS
<1>3. ASSUME NEW p \in Procs
      PROVE  \/ ctl'[p] = ctl[p] /\ ctl[p].pc # "deciding"
             \/ /\ ctl[p].pc = "deciding" /\ ctl[p] \in Runs /\ RunOK(p)
                /\ \E still \in BOOLEAN :
                      ctl'[p] = [ctl[p] EXCEPT !.pc = "judge", !.good = still]
  <2>1. CASE ~Waits(p, r)
    <3>1. ctl'[p] = ctl[p]
      BY <1>2, <2>1
    <3> QED BY <1>1, <2>1, <3>1 DEF Waits, At, DailyInv, RunOK
  <2>2. CASE Waits(p, r)
    <3> DEFINE still == ctl[p].good /\ good
    <3>1. ctl'[p] = [ctl[p] EXCEPT !.pc = "judge", !.good = still]
      BY <1>2, <2>2
    <3>2. still \in BOOLEAN
      BY Zenon
    <3>3. ~At(p, "idle")
      BY <2>2 DEF Waits, At
    <3>4. ctl[p] \in Runs /\ RunOK(p)
      BY <3>3, OneRun
    <3> HIDE DEF still
    <3> QED BY <2>2, <3>1, <3>2, <3>4 DEF Waits, At
  <2> QED BY <2>1, <2>2
<1>4. ctl' \in [Procs -> Runs \cup {Idle}]
  <2>1. DOMAIN ctl' = Procs /\ ctl' = [p \in Procs |-> ctl'[p]]
    BY <1>2
  <2>2. ASSUME NEW p \in Procs PROVE ctl'[p] \in Runs \cup {Idle}
    <3>1. CASE ctl'[p] = ctl[p]
      BY <3>1 DEF DailyInv, TypeOK
    <3>2. CASE ctl[p] \in Runs /\ \E still \in BOOLEAN :
                 ctl'[p] = [ctl[p] EXCEPT !.pc = "judge", !.good = still]
      BY <3>2 DEF Runs, Pcs
    <3> QED BY <1>3, <3>1, <3>2
  <2> QED BY <2>1, <2>2
<1>5. TypeOK'
  BY <1>4 DEF DailyInv, TypeOK
<1>6. NoneIsNewer'
  BY <1>1 DEF DailyInv, NoneIsNewer
<1>7. ASSUME NEW p \in Procs PROVE (At(p, "idle") \/ RunOK(p))'
  <2>1. CASE ctl'[p] = ctl[p] /\ ctl[p].pc # "deciding"
    BY <1>1, <2>1 DEF DailyInv, RunOK, Run, At, Completed
  <2>2. CASE /\ ctl[p].pc = "deciding" /\ ctl[p] \in Runs /\ RunOK(p)
             /\ \E still \in BOOLEAN :
                   ctl'[p] = [ctl[p] EXCEPT !.pc = "judge", !.good = still]
    BY <1>1, <2>2 DEF RunOK, Run, Runs
  <2> QED BY <1>3, <2>1, <2>2
<1>8. OldPointerIsNotReused' /\ QuietMeansCompleted'
  BY DEF DailyInv, OldPointerIsNotReused, QuietMeansCompleted
<1> QED BY <1>5, <1>6, <1>7, <1>8 DEF DailyInv

(* The operator removes a lock only when nothing is left of its run.       *)
LEMMA RemoveLockStep == DailyInv /\ RemoveLock => DailyInv'
  BY DEF DailyInv, TypeOK, NoneIsNewer, RunOK, At, Run, Completed, RemoveLock,
         MayRemove, told, OldPointerIsNotReused, QuietMeansCompleted

LEMMA DailyStutter == DailyInv /\ UNCHANGED runVars => DailyInv'
  BY DEF DailyInv, TypeOK, NoneIsNewer, RunOK, At, Run, Completed, runVars,
         OldPointerIsNotReused, QuietMeansCompleted

LEMMA DailyNext == DailyInv /\ [Next]_runVars => DailyInv'
<1> SUFFICES ASSUME DailyInv, [Next]_runVars PROVE DailyInv'
  OBVIOUS
<1>1. ASSUME NEW p \in Procs, Begin(p) \/ Step(p) \/ SaveFails(p) \/ Kill(p)
      PROVE  DailyInv'
  BY <1>1, BeginStep, InputsStep, DecideStep, JudgeStep, ReadStep, RestStep,
     SaveStep, NotifyStep, SaveFailsStep, UnlockStep, KillStep DEF Step
<1>2. ASSUME NEW r \in 1 .. MaxRuns, Produce(r) \/ ProducerEnds(r)
      PROVE  DailyInv'
  BY <1>2, ProduceStep, ProducerEndsStep
<1> QED
  BY <1>1, <1>2, RemoveLockStep, DailyStutter DEF Next

LEMMA DailyInductive == Spec => []DailyInv
  BY DailyInit, DailyNext, PTL DEF Spec
-----------------------------------------------------------------------------
(* Whatever is killed or left behind, a run that reached its decision does *)
(* not leave the pointer of an older one.                                  *)
THEOREM PointerIsOfTheRun == Spec => []OldPointerIsNotReused
<1>1. DailyInv => OldPointerIsNotReused
  BY DEF DailyInv
<1> QED BY <1>1, DailyInductive, PTL

(* Nobody is told nothing of a newest run that was not completed.          *)
THEOREM SilenceMeansCompleted == Spec => []QuietMeansCompleted
<1>1. DailyInv => QuietMeansCompleted
  BY DEF DailyInv
<1> QED BY <1>1, DailyInductive, PTL

(* A completed run says of its decision what its own producer decided.     *)
THEOREM CompletedRunsDecided == Spec => CompletedIsItsOwn
<1>1. DailyInv /\ [Next]_runVars =>
        [operation' # operation /\ operation'.status = "completed" =>
           latest = [run |-> operation'.run, status |-> "ready"]]_runVars
  <2> SUFFICES ASSUME DailyInv, Next, operation' # operation,
                      operation'.status = "completed"
               PROVE  latest = [run |-> operation'.run, status |-> "ready"]
    OBVIOUS
  <2>1. PICK p \in Procs : SaveOperation(p)
    BY DEF Next, Step, RemoveLock, Begin, Inputs, Decide, Judge, Read, Rest,
           Notify, Unlock, SaveFails, Kill, Produce, ProducerEnds, told
  <2>2. RunOK(p) /\ ctl[p] \in Runs
    BY <2>1, OneRun DEF SaveOperation, At
  <2>3. Completed(p) /\ operation'.run = Run(p)
    BY <2>1 DEF SaveOperation
  <2>4. latest \in Cards
    BY DEF DailyInv, TypeOK
  <2> QED BY <2>2, <2>3, <2>4 DEF RunOK, Runs, Cards, Completed, Run
<1> QED BY <1>1, DailyInductive, PTL DEF Spec, CompletedIsItsOwn

------------------------------------------------------------------------------
(* run_isolated.  The parts of the invariant: the shape of the state, what *)
(* the draining threads have read, what the host knows at each of its      *)
(* steps, what its result says, what the collector knows of the processes, *)
(* and what of the collector the host may take.                            *)
Versions == 0..MaxWrites
Reads == UNION {[1..n -> Versions] : n \in 0..Files}
Clients == [pc : {"none", "run", "exited"}, made : Nat, read : Nat,
            over : BOOLEAN, code : {0, 1, 9},
            reason : Reasons \cup {NoReason}]
Collectors == [pc : {"none", "scan", "signal", "look", "read", "done", "failed"},
               round : Nat, pids : SUBSET Pids, left : SUBSET Pids,
               live : SUBSET Pids, stopped : BOOLEAN, read : Reads]
Conditions == {"none", "running", "stopping", "stopped", "gone"}
Requests == {"create", "start", "rm"}

(* The shape of the state.                                                 *)
IsoShape ==
  /\ host \in Results
  /\ saved \in Results \cup {NoRecord}
  /\ cancel \in BOOLEAN /\ interrupts \in 0..MaxInterrupts
  /\ container \in {"none", "created", "running"}
  /\ late \subseteq Requests
  /\ client \in [Phases -> Clients]
  /\ procs \in [Pids -> Conditions]
  /\ work \in Versions
  /\ coll \in Collectors

(* A stream is over its bound when more than that was read, and no more is *)
(* read than was printed.                                                  *)
StreamsOK ==
  \A f \in Phases : /\ client[f].read <= client[f].made
                    /\ client[f].over <=> client[f].read > Bound(f)

Opening == {"preflight", "stage", "check"}
Making == {"create", "start"}
Inside == {"inspect", "exec", "poll", "join"}
Closing == {"rm", "ps", "save", "done", "escaped"}

(* Nothing of the command runs, or will.                                   *)
Inert == container # "running" /\ ("start" \in late => "create" \notin late
                                                    /\ container = "none")

(* What the host knows at each of its steps of container and command.      *)
PathOK ==
  /\ host.pc \in Opening => ~host.attempted
  /\ host.pc \in Opening \cup {"create"} => container = "none"
  /\ host.pc = "start" => container = "created"
  /\ host.pc \in Making \cup Inside => host.attempted
  /\ host.pc \in Inside => /\ container = "running"
                           /\ host.evidence = "container-execution"
  /\ host.pc \in Opening \cup Making \cup Inside =>
       late = {} /\ host.cleanup # "yes"
  /\ host.pc = "unstage" => late = {}
  /\ ~("create" \in late /\ "start" \in late)
  /\ container # "running" => Alive = {}
  /\ host.evidence = "not_executed" => procs[Main] = "none"
  /\ host.pc \in Opening \cup Making \cup {"inspect"} => host.phase = "exec"
  /\ host.phase = "exec" /\ host.pc \in Opening \cup Making \cup Inside =>
       host.status = "blocked"
  /\ host.pc = "poll" => client[host.phase].pc \in {"run", "exited"}
  /\ host.pc = "join" => client[host.phase].pc = "exited"

(* What the result says, and what is then so.                              *)
SaysOK ==
  /\ host.phase = "collect" /\ host.pc \in Inside => host.status # "blocked"
  /\ host.status = "blocked" /\ host.pc \in Closing \cup {"unstage"} =>
       host.evidence = "not_executed" \/ host.escapes
  /\ host.status = "succeeded" =>
       /\ host.rc = 0 /\ host.attempted /\ host.phase = "collect"
       /\ client["exec"].pc = "exited"
       /\ host.drained => host.logs = client["exec"].made
  /\ host.status = "succeeded" /\ host.pc \in Closing \cup {"unstage"} =>
       host.outputs # <<>> \/ host.escapes
  /\ host.status = "succeeded" /\ host.pc \in Closing => late = {}
  /\ host.status = "succeeded" /\ host.pc \in {"save", "done", "escaped"} =>
       container = "none" /\ host.cleanup = "yes"
  /\ host.cleanup = "yes" /\ host.pc \notin {"raised", "dead"} => Inert
  /\ host.pc = "done" => ~host.escapes
  /\ saved # NoRecord => /\ host.pc \in {"done", "escaped"}
                         /\ saved = [host EXCEPT !.pc = "save"]

(* Nothing is running any more, and nothing can start.                     *)
Calm == \A p \in Pids : procs[p] \notin {"running", "stopping"}
Even(r) == \A i, j \in 1..Len(r) : r[i] = r[j]
Whole(r) == Len(r) = Files /\ Even(r)

(* What the collector knows of the processes.                              *)
CollectorOK ==
  /\ host.phase = "exec" => /\ coll.pc = "none" /\ coll.read = <<>>
                            /\ client["collect"].pc = "none"
  /\ host.phase = "collect" /\ host.pc = "exec" =>
       coll.pc = "none" /\ coll.read = <<>> /\ client["collect"].pc = "none"
  /\ client["collect"].pc = "none" => coll.pc = "none"
  /\ coll.pc \in {"scan", "signal", "look"} => coll.read = <<>>
  /\ coll.pc = "signal" =>
       \A p \in coll.pids : /\ procs[p] # "none"
                            /\ p \notin coll.left => procs[p] # "running"
  /\ coll.pc = "look" =>
       /\ \A p \in coll.pids : procs[p] \notin {"none", "running"}
       /\ coll.left \subseteq coll.live
       /\ \A p \in coll.live : procs[p] # "none"
       /\ coll.live \subseteq coll.pids => Alive \subseteq coll.live
       /\ coll.stopped => \A p \in coll.live \ coll.left :
                            procs[p] \in {"stopped", "gone"}
  /\ coll.pc = "read" =>
       Calm /\ \A i \in 1..Len(coll.read) : coll.read[i] = work
  /\ coll.pc = "done" => Whole(coll.read)

(* What the host may take from the collector's client.                     *)
ArchiveOK ==
  /\ client["collect"].pc # "exited" =>
       client["collect"].made = Len(coll.read)
  /\ host.phase = "collect" /\ host.pc \in {"poll", "join"} =>
       \/ client["collect"].pc # "exited" \/ client["collect"].code # 0
       \/ /\ Whole(coll.read) /\ coll.pc \in {"none", "done"}
          /\ client["collect"].made = Files
  /\ host.phase = "exec" => host.outputs = <<>>
  /\ Even(host.outputs)
  /\ host.outputs # <<>> /\ host.drained => Len(host.outputs) = Files

IsoInv == IsoShape /\ StreamsOK /\ PathOK /\ SaysOK /\ CollectorOK /\ ArchiveOK

------------------------------------------------------------------------------
(* There are two clients, and nothing hangs on which they are called.      *)
USE DEF Phases

LEMMA EmptyRead == <<>> \in Reads /\ Len(<<>>) = 0
<1>1. <<>> \in [1..0 -> Versions] /\ 0 \in 0..Files
  BY IsolationBounds
<1> QED BY <1>1 DEF Reads

LEMMA ReadsAre ==
  ASSUME NEW r \in Reads
  PROVE  /\ r \in Seq(Versions) /\ Len(r) \in 0..Files
         /\ \A w \in Versions : Len(r) < Files => Append(r, w) \in Reads
<1>1. PICK n \in 0..Files : r \in [1..n -> Versions]
  BY DEF Reads
<1>2. r \in Seq(Versions) /\ Len(r) = n
  BY <1>1, IsolationBounds
<1>3. ASSUME NEW w \in Versions, Len(r) < Files
      PROVE  Append(r, w) \in Reads
  <2>1. n + 1 \in 0..Files
    BY <1>2, <1>3, IsolationBounds
  <2>2. Append(r, w) \in [1..(n + 1) -> Versions]
    <3>1. Append(r, w) \in Seq(Versions) /\ Len(Append(r, w)) = n + 1
      BY <1>2, <1>3
    <3>2. \A s \in Seq(Versions) : s \in [1..Len(s) -> Versions]
      OBVIOUS
    <3> QED BY <3>1, <3>2, Zenon
  <2> QED BY <2>1, <2>2 DEF Reads
<1> QED BY <1>2, <1>3

LEMMA StartsWell == IsoInit => IsoInv
<1> SUFFICES ASSUME IsoInit PROVE IsoInv
  OBVIOUS
<1>1. IsoShape
  <2>1. host \in Results
    <3>1. /\ 0 \in 0..Limit
          /\ <<>> \in UNION {[1..n -> 0..MaxWrites] : n \in 0..Files}
      BY IsolationBounds, EmptyRead DEF Reads, Versions
    <3>2. "preflight" \in HostPcs /\ "blocked" \in Statuses
      BY DEF HostPcs, Statuses
    <3> HIDE DEF HostPcs, Statuses
    <3> QED BY <3>1, <3>2 DEF IsoInit, Results
  <2>2. client \in [Phases -> Clients]
    BY DEF IsoInit, NewClient, Clients
  <2>3. coll \in Collectors
    BY EmptyRead, IsolationBounds DEF IsoInit, NewCollector, Collectors
  <2>4. procs \in [Pids -> Conditions] /\ work \in Versions
    BY IsolationBounds DEF IsoInit, Conditions, Versions
  <2>5. /\ saved \in Results \cup {NoRecord} /\ cancel \in BOOLEAN
        /\ interrupts \in 0..MaxInterrupts
        /\ container \in {"none", "created", "running"}
        /\ late \subseteq Requests
    <3>1. /\ saved = NoRecord /\ cancel = FALSE /\ interrupts = 0
          /\ container = "none" /\ late = {}
      BY DEF IsoInit
    <3>2. cancel \in BOOLEAN
      BY <3>1, Zenon
    <3>3. interrupts \in 0..MaxInterrupts
      BY <3>1, IsolationBounds
    <3> QED BY <3>1, <3>2, <3>3
  <2> QED BY <2>1, <2>2, <2>3, <2>4, <2>5 DEF IsoShape
<1>2. StreamsOK
  BY IsolationBounds DEF IsoInit, StreamsOK, NewClient, Bound
<1>3. PathOK
  BY DEF IsoInit, PathOK, Opening, Making, Inside, Alive, Pids
<1>4. SaysOK
  BY DEF IsoInit, SaysOK, Inside, Closing
<1>5. CollectorOK
  BY DEF IsoInit, CollectorOK, NewCollector, NewClient
<1>6. ArchiveOK
  BY EmptyRead DEF IsoInit, ArchiveOK, NewClient, NewCollector, Even
<1> QED BY <1>1, <1>2, <1>3, <1>4, <1>5, <1>6 DEF IsoInv

(* A step of the host that does not start or end a client and does not     *)
(* touch what is inside of the container.                                  *)
LEMMA HostMoves ==
  ASSUME IsoInv, NEW h, host' = h, h.phase = host.phase,
         h.outputs = host.outputs, h.drained = host.drained,
         h.pc \notin {"poll", "join"},
         h.phase = "collect" => h.pc # "exec",
         UNCHANGED <<client, procs, work, coll>>
  PROVE  StreamsOK' /\ CollectorOK' /\ ArchiveOK'
<1>1. StreamsOK'
  BY DEF IsoInv, StreamsOK, Bound
<1>2. CollectorOK'
  BY DEF IsoInv, CollectorOK, Calm, Whole, Even, Alive
<1>3. ArchiveOK'
  BY DEF IsoInv, ArchiveOK, Whole, Even
<1> QED BY <1>1, <1>2, <1>3

(* An exception, handled or not: the host goes on in its finally block.    *)
Thrown(kind) ==
  /\ host' \in Results /\ host'.phase = host.phase
  /\ host'.outputs = host.outputs /\ host'.drained = host.drained
  /\ host'.attempted = host.attempted
  /\ host'.evidence = host.evidence /\ host'.cleanup = host.cleanup
  /\ host'.pc = IF host.attempted THEN "rm" ELSE "save"
  /\ \/ /\ host'.status \in {"cancelled", "blocked", "failed"}
        /\ host'.status = "blocked" => host.evidence = "not_executed"
     \/ /\ kind = "error" /\ host'.escapes
        /\ host'.status = host.status
        /\ host'.rc = host.rc /\ host'.logs = host.logs

LEMMA HandledIs ==
  ASSUME IsoShape, NEW kind \in {"error", "interrupt"},
         host' = Handled(host, kind)
  PROVE  Thrown(kind)
<1>1. PICK pc \in {"rm", "save"} :
        pc = After(host) /\ pc = IF host.attempted THEN "rm" ELSE "save"
  BY DEF After
<1>2. PICK status \in {"cancelled", "blocked", "failed"} :
        /\ status = IF kind = "interrupt" THEN "cancelled"
                    ELSE IF host.evidence = "not_executed" THEN "blocked"
                    ELSE "failed"
        /\ status = "blocked" => host.evidence = "not_executed"
  OBVIOUS
<1> DEFINE h == [host EXCEPT !.pc = pc, !.status = status]
<1>3. host' = h
  BY <1>1, <1>2 DEF Handled
<1>4. /\ h \in Results /\ h.phase = host.phase
      /\ h.outputs = host.outputs /\ h.drained = host.drained
      /\ h.escapes = host.escapes /\ h.attempted = host.attempted
      /\ h.evidence = host.evidence /\ h.cleanup = host.cleanup
      /\ h.pc = pc /\ h.status = status
  <2>1. pc \in HostPcs /\ status \in Statuses
    BY DEF HostPcs, Statuses, Reasons
  <2> QED BY <2>1 DEF IsoShape, Results
<1> HIDE DEF h
<1> QED BY <1>1, <1>2, <1>3, <1>4 DEF Thrown

LEMMA RaiseIs ==
  ASSUME IsoShape, Raise
  PROVE  Thrown("error")
<1>1. CASE host' = Handled(host, "error")
  BY <1>1, HandledIs
<1>2. CASE host' = Escapes(host)
  <2>1. PICK pc \in {"rm", "save"} :
          pc = After(host) /\ pc = IF host.attempted THEN "rm" ELSE "save"
    BY DEF After
  <2> DEFINE h == [host EXCEPT !.pc = pc, !.escapes = TRUE]
  <2>2. host' = h
    BY <1>2, <2>1 DEF Escapes
  <2>3. /\ h \in Results /\ h.phase = host.phase
        /\ h.outputs = host.outputs /\ h.attempted = host.attempted
        /\ h.evidence = host.evidence /\ h.cleanup = host.cleanup
        /\ h.drained = host.drained /\ h.pc = pc /\ h.status = host.status
        /\ h.rc = host.rc /\ h.logs = host.logs /\ h.escapes
    <3>1. pc \in HostPcs
      BY DEF HostPcs
    <3> QED BY <3>1 DEF IsoShape, Results
  <2> HIDE DEF h
  <2> QED BY <2>1, <2>2, <2>3 DEF Thrown
<1> QED BY <1>1, <1>2 DEF Raise

(* So it does with a result that is true, whatever request the daemon is   *)
(* left with and whatever the command does in the same step.               *)
LEMMA HandlerPreserves ==
  ASSUME IsoInv, NEW kind, Thrown(kind),
         host.pc \in Opening \cup Making \cup Inside \cup {"unstage"},
         late' \subseteq late \cup (IF host.pc \in Making THEN {host.pc} ELSE {}),
         host.phase = "collect" =>
           /\ client'["exec"].pc = client["exec"].pc
           /\ client'["exec"].made = client["exec"].made,
         procs' = procs \/ host.pc \in Inside,
         UNCHANGED <<saved, container>>
  PROVE  PathOK' /\ SaysOK'
<1>1. /\ host'.attempted = host.attempted
      /\ host'.evidence = host.evidence /\ host'.cleanup = host.cleanup
      /\ host'.pc \in {"rm", "save"}
      /\ host.attempted => host'.pc = "rm"
      /\ host'.phase = host.phase /\ host'.drained = host.drained
      /\ host'.outputs = host.outputs
  BY DEF Thrown
<1>2. \/ /\ host'.status \in {"cancelled", "blocked", "failed"}
         /\ host'.status = "blocked" => host.evidence = "not_executed"
      \/ /\ host'.escapes /\ host'.status = host.status
         /\ host'.rc = host.rc /\ host'.logs = host.logs
  BY DEF Thrown
<1>3. late = {} /\ late' \subseteq {"create", "start"}
      /\ ~("create" \in late' /\ "start" \in late')
      /\ host.pc \notin Making => late' = {}
  BY DEF IsoInv, PathOK, Making
<1>4. PathOK'
  BY <1>1, <1>3 DEF IsoInv, PathOK, Opening, Making, Inside, Alive
<1>5. host.cleanup = "yes" => Inert'
  BY <1>3 DEF IsoInv, PathOK, SaysOK, Inert, Making
<1>6. saved = NoRecord
  BY DEF IsoInv, SaysOK, Opening, Making, Inside
<1>7. CASE host'.status \in {"cancelled", "blocked", "failed"}
           /\ (host'.status = "blocked" => host.evidence = "not_executed")
  BY <1>1, <1>4, <1>5, <1>6, <1>7 DEF SaysOK, Inside, Closing
<1>8. CASE /\ host'.escapes /\ host'.status = host.status
           /\ host'.rc = host.rc /\ host'.logs = host.logs
  <2>1. host.status = "succeeded" => /\ host.phase = "collect" /\ late' = {}
                                     /\ host'.pc = "rm"
    BY <1>1, <1>3 DEF IsoInv, SaysOK, PathOK, Making
  <2> QED BY <1>1, <1>4, <1>5, <1>6, <1>8, <2>1
          DEF IsoInv, SaysOK, Inside, Closing
<1> QED BY <1>2, <1>4, <1>7, <1>8

LEMMA IsoFails ==
  ASSUME IsoInv, Fails \/ (host.pc \in Making /\ GivesUp(host.pc)),
         host.pc \in Opening \cup Making \cup Inside \cup {"unstage"}
  PROVE  IsoInv'
<1>1. /\ Raise
      /\ late' \subseteq late \cup (IF host.pc \in Making THEN {host.pc} ELSE {})
      /\ UNCHANGED <<saved, cancel, interrupts, container, client, procs, work,
                     coll>>
  BY DEF Fails, GivesUp, payload
<1>2. Thrown("error")
  BY <1>1, RaiseIs DEF IsoInv
<1>3. PathOK' /\ SaysOK'
  BY <1>1, <1>2, HandlerPreserves
<1>4. /\ host' \in Results /\ host'.phase = host.phase
      /\ host'.outputs = host.outputs /\ host'.drained = host.drained
      /\ host'.pc \in {"rm", "save"}
  BY <1>2 DEF Thrown
<1>5. StreamsOK' /\ CollectorOK' /\ ArchiveOK'
  BY <1>1, <1>4, HostMoves
<1>6. IsoShape'
  BY <1>1, <1>4 DEF IsoInv, IsoShape, Making, Requests
<1> QED BY <1>3, <1>5, <1>6 DEF IsoInv

(* What a step leaves of the invariant, when it changes the host alone.    *)
LEMMA HostAlone ==
  ASSUME IsoInv, NEW h \in Results, host' = h, h.phase = host.phase,
         h.outputs = host.outputs, h.drained = host.drained,
         h.pc \notin {"poll", "join"},
         h.phase = "collect" => h.pc # "exec",
         UNCHANGED <<cancel, interrupts, container, late, client, procs, work,
                     coll>>,
         saved' \in Results \cup {NoRecord}, PathOK', SaysOK'
  PROVE  IsoInv'
<1>1. IsoShape'
  BY DEF IsoInv, IsoShape
<1> QED BY <1>1, HostMoves DEF IsoInv

LEMMA IsoBefore ==
  ASSUME IsoInv, Preflight \/ Stage \/ Check \/ Inspect
  PROVE  IsoInv'
<1>1. CASE Fails \/ (Check /\ Raise)
  <2>1. host.pc \in Opening \cup Making \cup Inside \cup {"unstage"}
    BY <1>1 DEF Preflight, Stage, Check, Inspect, Opening, Making, Inside
  <2>2. Fails
    BY <1>1 DEF Check, Fails
  <2> QED BY <2>1, <2>2, IsoFails
<1>2. ASSUME NEW pc, Goes(pc),
             \/ host.pc = "preflight" /\ pc = "stage"
             \/ host.pc = "stage" /\ pc = "check"
             \/ host.pc = "inspect" /\ pc = "exec"
      PROVE  IsoInv'
  <2> DEFINE h == [host EXCEPT !.pc = pc]
  <2>1. /\ host' = h /\ saved' = saved
        /\ UNCHANGED <<cancel, interrupts, container, late, client, procs,
                       work, coll>>
    BY <1>2 DEF Goes, payload
  <2>2. /\ h \in Results /\ h.pc = pc /\ h.phase = host.phase
        /\ h.outputs = host.outputs /\ h.drained = host.drained
        /\ h.escapes = host.escapes /\ h.attempted = host.attempted
        /\ h.evidence = host.evidence /\ h.status = host.status
        /\ h.cleanup = host.cleanup /\ h.rc = host.rc /\ h.logs = host.logs
    BY <1>2 DEF IsoInv, IsoShape, Results, HostPcs
  <2> HIDE DEF h
  <2>3. PathOK'
    BY <1>2, <2>1, <2>2
       DEF IsoInv, PathOK, Opening, Making, Inside, Alive
  <2>4. SaysOK'
    BY <1>2, <2>1, <2>2
       DEF IsoInv, PathOK, SaysOK, Inert, Opening, Making, Inside, Closing
  <2>5. host.phase = "exec"
    BY <1>2 DEF IsoInv, PathOK, Opening, Making
  <2>6. saved' \in Results \cup {NoRecord} /\ h.pc \notin {"poll", "join"}
    BY <1>2, <2>1, <2>2 DEF IsoInv, IsoShape
  <2> QED BY <2>1, <2>2, <2>3, <2>4, <2>5, <2>6, HostAlone
<1>3. CASE Check /\ ~Raise
  <2> DEFINE h1 == [host EXCEPT !.status = "cancelled", !.cleanup = "yes",
                                !.pc = "unstage"]
             h2 == [host EXCEPT !.attempted = TRUE, !.pc = "create"]
  <2>1. /\ host.pc = "check" /\ saved' = saved /\ (host' = h1 \/ host' = h2)
        /\ UNCHANGED <<cancel, interrupts, container, late, client, procs,
                       work, coll>>
    BY <1>3 DEF Check, payload
  <2>2. /\ h1 \in Results /\ h1.pc = "unstage" /\ h1.phase = host.phase
        /\ h1.outputs = host.outputs /\ h1.drained = host.drained
        /\ h1.escapes = host.escapes /\ h1.attempted = host.attempted
        /\ h1.evidence = host.evidence /\ h1.status = "cancelled"
        /\ h1.cleanup = "yes"
    BY DEF IsoInv, IsoShape, Results, HostPcs, Statuses, Reasons
  <2>3. /\ h2 \in Results /\ h2.pc = "create" /\ h2.phase = host.phase
        /\ h2.outputs = host.outputs /\ h2.drained = host.drained
        /\ h2.escapes = host.escapes /\ h2.attempted
        /\ h2.evidence = host.evidence /\ h2.status = host.status
        /\ h2.cleanup = host.cleanup /\ h2.rc = host.rc /\ h2.logs = host.logs
    BY DEF IsoInv, IsoShape, Results, HostPcs
  <2> HIDE DEF h1, h2
  <2>4. /\ host.phase = "exec" /\ host.status = "blocked" /\ late = {}
        /\ container = "none" /\ host.cleanup # "yes" /\ saved = NoRecord
    BY <2>1 DEF IsoInv, PathOK, SaysOK, Opening
  <2>5. CASE host' = h1
    <3>1. PathOK'
      BY <2>1, <2>2, <2>4, <2>5
         DEF IsoInv, PathOK, Opening, Making, Inside, Alive
    <3>2. SaysOK'
      BY <2>1, <2>2, <2>4, <2>5 DEF SaysOK, Inert, Inside, Closing
    <3> QED BY <2>1, <2>2, <2>5, <3>1, <3>2, HostAlone DEF IsoInv, IsoShape
  <2>6. CASE host' = h2
    <3>1. PathOK'
      BY <2>1, <2>3, <2>4, <2>6
         DEF IsoInv, PathOK, Opening, Making, Inside, Alive
    <3>2. SaysOK'
      BY <2>1, <2>3, <2>4, <2>6 DEF SaysOK, Inert, Inside, Closing
    <3> QED BY <2>1, <2>3, <2>5, <2>6, <3>1, <3>2, HostAlone
            DEF IsoInv, IsoShape
  <2> QED BY <2>1, <2>5, <2>6
<1> QED BY <1>1, <1>2, <1>3 DEF Preflight, Stage, Inspect

(* The daemon's requests that the host waits for.                          *)
LEMMA IsoMaking ==
  ASSUME IsoInv, Create \/ Start
  PROVE  IsoInv'
<1>1. CASE Fails \/ GivesUp(host.pc)
  <2>1. host.pc \in Making
    BY DEF Create, Start, Making
  <2> QED BY <1>1, <2>1, IsoFails
<1>2. CASE ~Fails /\ ~GivesUp(host.pc)
  <2>1. PICK h :
          /\ host' = h /\ h \in Results /\ h.phase = host.phase
          /\ h.outputs = host.outputs /\ h.drained = host.drained
          /\ h.escapes = host.escapes /\ h.attempted = host.attempted
          /\ h.status = host.status
          /\ h.cleanup = host.cleanup /\ h.rc = host.rc /\ h.logs = host.logs
          /\ \/ /\ host.pc = "create" /\ h.pc = "start"
                /\ container' = "created" /\ h.evidence = host.evidence
             \/ /\ host.pc = "start" /\ h.pc = "inspect"
                /\ container' = "running"
                /\ h.evidence = "container-execution"
          /\ UNCHANGED <<saved, cancel, interrupts, late, client, procs, work,
                         coll>>
    <3> DEFINE h1 == [host EXCEPT !.pc = "start"]
               h2 == [host EXCEPT !.pc = "inspect",
                                  !.evidence = "container-execution"]
    <3>1. /\ h1 \in Results /\ h1.pc = "start" /\ h1.phase = host.phase
          /\ h1.outputs = host.outputs /\ h1.drained = host.drained
          /\ h1.escapes = host.escapes /\ h1.attempted = host.attempted
          /\ h1.evidence = host.evidence /\ h1.status = host.status
          /\ h1.cleanup = host.cleanup /\ h1.rc = host.rc
          /\ h1.logs = host.logs
      BY DEF IsoInv, IsoShape, Results, HostPcs
    <3>2. /\ h2 \in Results /\ h2.pc = "inspect" /\ h2.phase = host.phase
          /\ h2.outputs = host.outputs /\ h2.drained = host.drained
          /\ h2.escapes = host.escapes /\ h2.attempted = host.attempted
          /\ h2.evidence = "container-execution" /\ h2.status = host.status
          /\ h2.cleanup = host.cleanup /\ h2.rc = host.rc
          /\ h2.logs = host.logs
      BY DEF IsoInv, IsoShape, Results, HostPcs
    <3>3. \/ host.pc = "create" /\ host' = h1 /\ container' = "created"
          \/ host.pc = "start" /\ host' = h2 /\ container' = "running"
      BY <1>2 DEF Create, Start
    <3>4. UNCHANGED <<saved, cancel, interrupts, late, client, procs, work,
                      coll>>
      BY <1>2 DEF Create, Start, payload
    <3> HIDE DEF h1, h2
    <3> QED BY <3>1, <3>2, <3>3, <3>4
  <2>2. /\ host.phase = "exec" /\ host.status = "blocked" /\ late = {}
        /\ host.cleanup # "yes" /\ saved = NoRecord /\ host.attempted
    BY <2>1 DEF IsoInv, PathOK, SaysOK, Making
  <2>3. PathOK'
    BY <2>1, <2>2 DEF IsoInv, PathOK, Opening, Making, Inside, Alive
  <2>4. SaysOK'
    BY <2>1, <2>2 DEF SaysOK, Inside, Closing
  <2>5. IsoShape'
    BY <2>1 DEF IsoInv, IsoShape
  <2>6. StreamsOK' /\ CollectorOK' /\ ArchiveOK'
    BY <2>1, <2>2, HostMoves
  <2> QED BY <2>3, <2>4, <2>5, <2>6 DEF IsoInv
<1> QED BY <1>1, <1>2

------------------------------------------------------------------------------
(* The clients: what happens to one leaves the other alone.                *)
LEMMA IsoExec ==
  ASSUME IsoInv, Exec
  PROVE  IsoInv'
<1>1. CASE Fails
  <2>1. host.pc \in Inside
    BY <1>1 DEF Exec, Inside
  <2> QED BY <1>1, <2>1, IsoFails
<1>2. CASE ~Fails
  <2>1. PICK f \in Phases, c \in Clients :
          /\ f = host.phase /\ host.pc = "exec"
          /\ client' = [client EXCEPT ![f] = c] /\ c.pc = "run"
          /\ c.made = client[f].made /\ c.read = client[f].read
          /\ c.over = client[f].over
    <3> DEFINE f == host.phase
               c == [client[f] EXCEPT !.pc = "run"]
    <3>1. f \in Phases /\ client[f] \in Clients
      BY DEF IsoInv, IsoShape, Results
    <3>2. /\ c \in Clients /\ c.pc = "run"
          /\ c.made = client[f].made /\ c.read = client[f].read
          /\ c.over = client[f].over
      BY <3>1 DEF Clients
    <3>3. client' = [client EXCEPT ![f] = c] /\ host.pc = "exec"
      BY <1>2 DEF Exec
    <3> HIDE DEF f, c
    <3>4. f = host.phase
      BY DEF f
    <3> QED BY <3>1, <3>2, <3>3, <3>4
  <2>2. /\ UNCHANGED <<saved, cancel, interrupts, container, late, work>>
        /\ IF f = "exec"
             THEN /\ procs' = [procs EXCEPT ![Main] = "running"]
                  /\ UNCHANGED coll
             ELSE coll' = [coll EXCEPT !.pc = "scan"] /\ UNCHANGED procs
    BY <1>2, <2>1 DEF Exec
  <2>3. /\ saved = NoRecord /\ late = {} /\ container = "running"
        /\ host.attempted /\ host.cleanup # "yes"
        /\ host.evidence = "container-execution"
        /\ client'[f] = c
        /\ \A g \in Phases : g # f => client'[g] = client[g]
    BY <2>1 DEF IsoInv, PathOK, SaysOK, Inside, IsoShape
  <2>4. /\ host' \in Results /\ host'.phase = host.phase
        /\ host'.outputs = host.outputs /\ host'.drained = host.drained
        /\ host'.pc \in {"poll", "rm", "save"} /\ PathOK' /\ SaysOK'
    <3>1. CASE Raise
      <4>1. Thrown("error")
        BY <3>1, RaiseIs DEF IsoInv
      <4>2. PathOK' /\ SaysOK'
        BY <2>1, <2>2, <2>3, <4>1, HandlerPreserves DEF Inside
      <4> QED BY <4>1, <4>2 DEF Thrown
    <3>2. CASE ~Raise
      <4> DEFINE h == [host EXCEPT !.pc = "poll"]
      <4>1. /\ h \in Results /\ h.pc = "poll" /\ h.phase = host.phase
            /\ h.outputs = host.outputs /\ h.drained = host.drained
            /\ h.escapes = host.escapes /\ h.attempted = host.attempted
            /\ h.evidence = host.evidence /\ h.status = host.status
            /\ h.cleanup = host.cleanup /\ h.rc = host.rc
            /\ h.logs = host.logs
        BY DEF IsoInv, IsoShape, Results, HostPcs
      <4>2. host' = h
        BY <1>2, <3>2 DEF Exec
      <4> HIDE DEF h
      <4>3. /\ host'.pc = "poll" /\ host'.phase = f
            /\ host'.status = host.status /\ host'.attempted
            /\ host'.evidence = "container-execution"
            /\ host'.cleanup # "yes" /\ client'[f].pc = "run"
            /\ host'.rc = host.rc /\ host'.logs = host.logs
            /\ host'.drained = host.drained
        BY <2>1, <2>3, <4>1, <4>2
      <4>4. PathOK'
        BY <2>1, <2>2, <2>3, <4>3
           DEF IsoInv, PathOK, Opening, Making, Inside
      <4>5. f = "exec" => host.status = "blocked"
        BY <2>1 DEF IsoInv, PathOK, Inside
      <4>6. SaysOK'
        BY <2>1, <2>2, <2>3, <4>3, <4>5
           DEF IsoInv, SaysOK, Inside, Closing
      <4> QED BY <4>1, <4>2, <4>4, <4>6
    <3> QED BY <3>1, <3>2
  <2>5. IsoShape'
    <3>1. procs' \in [Pids -> Conditions]
      BY <2>2 DEF IsoInv, IsoShape, Conditions
    <3>2. coll' \in Collectors
      BY <2>2 DEF IsoInv, IsoShape, Collectors
    <3> QED BY <2>1, <2>2, <2>4, <3>1, <3>2 DEF IsoInv, IsoShape
  <2>6. StreamsOK'
    BY <2>1, <2>3 DEF IsoInv, StreamsOK, Bound
  <2>7. CASE f = "exec"
    <3>1. coll' = coll /\ coll.pc = "none"
          /\ client'["collect"] = client["collect"]
      BY <2>1, <2>2, <2>3, <2>7 DEF IsoInv, CollectorOK
    <3>2. CollectorOK'
      BY <2>1, <2>4, <2>7, <3>1 DEF IsoInv, CollectorOK
    <3>3. ArchiveOK'
      BY <2>1, <2>4, <2>7, <3>1 DEF IsoInv, ArchiveOK, Whole, Even
    <3> QED BY <2>4, <2>5, <2>6, <3>2, <3>3 DEF IsoInv
  <2>8. CASE f = "collect"
    <3>1. /\ coll' = [coll EXCEPT !.pc = "scan"] /\ coll.read = <<>>
          /\ coll'.pc = "scan" /\ coll'.read = coll.read
      BY <2>1, <2>2, <2>8 DEF IsoInv, CollectorOK, IsoShape, Collectors
    <3>2. CollectorOK'
      BY <2>1, <2>3, <2>4, <2>8, <3>1 DEF CollectorOK
    <3>3. client["collect"].pc = "none"
      BY <2>1, <2>8 DEF IsoInv, CollectorOK
    <3>4. ArchiveOK'
      BY <2>1, <2>3, <2>4, <2>8, <3>1, <3>3 DEF IsoInv, ArchiveOK, Whole, Even
    <3> QED BY <2>4, <2>5, <2>6, <3>2, <3>4 DEF IsoInv
  <2> QED BY <2>1, <2>7, <2>8
<1> QED BY <1>1, <1>2

LEMMA IsoPoll ==
  ASSUME IsoInv, Poll
  PROVE  IsoInv'
<1>1. PICK f \in Phases, c \in Clients :
        /\ f = host.phase /\ host.pc = "poll"
        /\ client' = [client EXCEPT ![f] = c] /\ c.pc = "exited"
        /\ c.made = client[f].made /\ c.read = client[f].read
        /\ c.over = client[f].over
        /\ c.code = 9 \/ (c.code = client[f].code /\ client[f].pc = "exited")
  <2>1. host.phase \in Phases /\ client[host.phase] \in Clients
        /\ client \in [Phases -> Clients] /\ host.pc = "poll"
    BY DEF IsoInv, IsoShape, Results, Poll
  <2>2. ASSUME NEW f \in Phases, f = host.phase
        PROVE  \E c \in Clients :
                 /\ client' = [client EXCEPT ![f] = c] /\ c.pc = "exited"
                 /\ c.made = client[f].made /\ c.read = client[f].read
                 /\ c.over = client[f].over
                 /\ \/ c.code = 9
                    \/ c.code = client[f].code /\ client[f].pc = "exited"
    <3>1. CASE client[f].pc = "exited" /\ UNCHANGED client
      BY <2>1, <2>2, <3>1
    <3>2. ASSUME NEW reason \in Reasons \cup {NoReason}, Killed(reason)
          PROVE  \E c \in Clients :
                   /\ client' = [client EXCEPT ![f] = c] /\ c.pc = "exited"
                   /\ c.made = client[f].made /\ c.read = client[f].read
                   /\ c.over = client[f].over
                   /\ \/ c.code = 9
                      \/ c.code = client[f].code /\ client[f].pc = "exited"
      <4>1. PICK code \in {0, 1, 9} :
              /\ code = IF Watched.pc = "exited" THEN client[f].code ELSE 9
              /\ code = 9 \/ (code = client[f].code /\ client[f].pc = "exited")
        BY <2>1, <2>2 DEF Watched, Clients
      <4> DEFINE c == [client[f] EXCEPT !.reason = reason, !.code = code,
                                        !.pc = "exited"]
      <4>2. client' = [client EXCEPT ![f] = c]
        BY <2>1, <2>2, <3>2, <4>1 DEF Killed
      <4>3. /\ c \in Clients /\ c.pc = "exited"
            /\ c.made = client[f].made /\ c.read = client[f].read
            /\ c.over = client[f].over /\ c.code = code
        BY <2>1, <2>2 DEF Clients
      <4> HIDE DEF c
      <4> QED BY <4>1, <4>2, <4>3
    <3> QED BY <2>2, <3>1, <3>2 DEF Poll, Watched
  <2> QED BY <2>1, <2>2
<1>2. UNCHANGED <<saved, cancel, interrupts, container, late, procs, work,
                  coll>>
  BY DEF Poll, payload
<1>3. /\ saved = NoRecord /\ client'[f] = c
      /\ \A g \in Phases : g # f => client'[g] = client[g]
  BY <1>1 DEF IsoInv, SaysOK, IsoShape
<1>4. /\ host' \in Results /\ host'.phase = host.phase
      /\ host'.outputs = host.outputs /\ host'.drained = host.drained
      /\ host'.pc \in {"join", "rm", "save"} /\ PathOK' /\ SaysOK'
  <2>1. CASE Raise
    <3>1. Thrown("error")
      BY <2>1, RaiseIs DEF IsoInv
    <3>2. late' \subseteq late \cup
                 (IF host.pc \in Making THEN {host.pc} ELSE {})
      BY <1>2
    <3>3. host.pc \in Inside
      BY <1>1 DEF Inside
    <3>4. host.phase = "collect" => client'["exec"] = client["exec"]
      BY <1>1, <1>3
    <3>5. PathOK' /\ SaysOK'
      BY <1>2, <3>1, <3>2, <3>3, <3>4, HandlerPreserves
    <3> QED BY <3>1, <3>5 DEF Thrown
  <2>2. CASE ~Raise
    <3> DEFINE h == [host EXCEPT !.pc = "join"]
    <3>1. /\ h \in Results /\ h.pc = "join" /\ h.phase = host.phase
          /\ h.outputs = host.outputs /\ h.drained = host.drained
          /\ h.escapes = host.escapes /\ h.attempted = host.attempted
          /\ h.evidence = host.evidence /\ h.status = host.status
          /\ h.cleanup = host.cleanup /\ h.rc = host.rc
          /\ h.logs = host.logs
      BY DEF IsoInv, IsoShape, Results, HostPcs
    <3>2. host' = h
      BY <2>2 DEF Poll
    <3> HIDE DEF h
    <3>3. PathOK'
      BY <1>1, <1>2, <1>3, <3>1, <3>2
         DEF IsoInv, PathOK, Opening, Making, Inside, Alive
    <3>4. SaysOK'
      BY <1>1, <1>2, <1>3, <3>1, <3>2
         DEF IsoInv, SaysOK, PathOK, Inert, Inside, Closing
    <3> QED BY <3>1, <3>2, <3>3, <3>4
  <2> QED BY <2>1, <2>2
<1>5. IsoShape'
  BY <1>1, <1>2, <1>4 DEF IsoInv, IsoShape
<1>6. StreamsOK'
  BY <1>1, <1>3 DEF IsoInv, StreamsOK, Bound
<1>7. CollectorOK'
  BY <1>1, <1>2, <1>3, <1>4 DEF IsoInv, CollectorOK, Calm, Whole, Even, Alive
<1>8. ArchiveOK'
  BY <1>1, <1>2, <1>3, <1>4 DEF IsoInv, ArchiveOK, Whole, Even
<1> QED BY <1>4, <1>5, <1>6, <1>7, <1>8 DEF IsoInv

LEMMA IsoExecuted ==
  ASSUME IsoInv, Executed
  PROVE  IsoInv'
<1>1. CASE Raise
  <2>1. host.pc \in Inside /\ Fails
    BY <1>1 DEF Executed, Inside, Fails
  <2> QED BY <2>1, IsoFails
<1>2. CASE ~Raise
  <2>1. PICK drained \in BOOLEAN : drained = Drained
    BY Zenon DEF Drained
  <2> DEFINE c == client["exec"]
             logs == Kept(c.read)
             status == IF FinalReason # NoReason THEN FinalReason
                       ELSE IF c.code = 0 THEN "succeeded" ELSE "failed"
             phase == IF FinalReason = NoReason THEN "collect" ELSE host.phase
             pc == IF FinalReason = NoReason THEN "exec" ELSE "unstage"
             h == [host EXCEPT !.logs = logs, !.drained = drained,
                               !.rc = c.code, !.status = status,
                               !.phase = phase, !.pc = pc]
  <2>2. /\ host.pc = "join" /\ host.phase = "exec"
        /\ drained => c.read = c.made
        /\ host' = h
        /\ UNCHANGED <<saved, cancel, interrupts, container, late, client,
                       procs, work, coll>>
    BY <1>2, <2>1 DEF Executed, Drained, Watched, payload
  <2>3. /\ c \in Clients /\ c.pc = "exited" /\ host \in Results
        /\ c.over <=> c.read > Limit
    BY <2>2 DEF IsoInv, IsoShape, PathOK, StreamsOK, Bound
  <2>4. /\ logs \in 0..Limit
        /\ ~c.over => logs = c.read
    BY <2>2, <2>3, IsolationBounds DEF Clients, Kept, AtMost
  <2>5. /\ FinalReason \in Reasons \cup {NoReason}
        /\ FinalReason = NoReason => ~c.over
    BY <2>2, <2>3, NoReasonIsNone DEF FinalReason, Watched, Clients, Reasons
  <2>6. /\ \/ pc = "exec" /\ phase = "collect"
           \/ pc = "unstage" /\ phase = "exec" /\ status # "succeeded"
        /\ status \in Reasons \cup {"succeeded", "failed"}
        /\ status = "succeeded" => /\ c.code = 0
                                   /\ drained => logs = c.made
                                   /\ phase = "collect"
    BY <2>2, <2>4, <2>5 DEF Reasons
  <2>7. c.code \in {0, 1, 9}
    BY <2>3 DEF Clients
  <2> HIDE DEF c, logs, status, phase, pc
  <2>8. /\ h \in Results /\ h.pc = pc /\ h.phase = phase /\ h.status = status
        /\ h.rc = c.code /\ h.logs = logs /\ h.drained = drained
        /\ h.outputs = host.outputs /\ h.escapes = host.escapes
        /\ h.attempted = host.attempted
        /\ h.evidence = host.evidence /\ h.cleanup = host.cleanup
    <3>1. /\ host \in Results /\ logs \in 0..Limit
          /\ c.code \in {NoCode, 0, 1, 9}
          /\ status \in Statuses /\ phase \in Phases /\ pc \in HostPcs
      BY <2>3, <2>4, <2>6, <2>7 DEF Statuses, HostPcs
    <3> QED BY <3>1 DEF Results
  <2> HIDE DEF h
  <2>9. /\ host.attempted /\ late = {} /\ host.cleanup # "yes"
        /\ container = "running" /\ host.evidence = "container-execution"
        /\ saved = NoRecord /\ host.outputs = <<>>
    BY <2>2 DEF IsoInv, PathOK, SaysOK, Inside, ArchiveOK
  <2>10. PathOK'
    BY <2>2, <2>6, <2>8, <2>9
       DEF IsoInv, PathOK, Opening, Making, Inside, Alive
  <2>11. SaysOK'
    <3>1. c = client["exec"]
      BY DEF c
    <3> QED BY <2>2, <2>3, <2>6, <2>8, <2>9, <3>1
            DEF SaysOK, Inside, Closing, Reasons
  <2>12. IsoShape'
    BY <2>2, <2>8 DEF IsoInv, IsoShape
  <2>13. StreamsOK'
    BY <2>2 DEF IsoInv, StreamsOK, Bound
  <2>14. CollectorOK'
    <3>1. coll.pc = "none" /\ coll.read = <<>> /\ client["collect"].pc = "none"
      BY <2>2 DEF IsoInv, CollectorOK
    <3> QED BY <2>2, <2>6, <2>8, <3>1 DEF CollectorOK
  <2>15. ArchiveOK'
    BY <2>2, <2>6, <2>8, <2>9 DEF IsoInv, ArchiveOK, Whole, Even
  <2> QED BY <2>10, <2>11, <2>12, <2>13, <2>14, <2>15 DEF IsoInv
<1> QED BY <1>1, <1>2

LEMMA IsoCollected ==
  ASSUME IsoInv, Collected
  PROVE  IsoInv'
<1>1. CASE Raise
  <2>1. host.pc \in Inside /\ Fails
    BY <1>1 DEF Collected, Inside, Fails
  <2> QED BY <2>1, IsoFails
<1>2. CASE ~Raise
  <2>1. PICK drained \in BOOLEAN : drained = (host.drained /\ Drained)
    BY Zenon
  <2> DEFINE c == client["collect"]
             outputs == [i \in 1..c.read |-> coll.read[i]]
             h == [host EXCEPT !.outputs = outputs, !.drained = drained,
                               !.pc = "unstage"]
  <2>2. /\ host.pc = "join" /\ host.phase = "collect" /\ host' = h
        /\ c.code = 0 /\ c.read > 0
        /\ drained => host.drained /\ c.read = c.made
        /\ UNCHANGED <<saved, cancel, interrupts, container, late, client,
                       procs, work, coll>>
    BY <1>2, <2>1 DEF Collected, Watched, Drained, payload
  <2>3. /\ c.pc = "exited" /\ Whole(coll.read) /\ c.made = Files
        /\ c \in Clients /\ c.read <= c.made /\ coll.read \in Reads
    BY <2>2 DEF IsoInv, PathOK, ArchiveOK, IsoShape, StreamsOK, Collectors
  <2>4. /\ coll.read \in Seq(Versions) /\ Len(coll.read) = Files
        /\ c.read \in 1..Files
    BY <2>2, <2>3, ReadsAre, IsolationBounds DEF Whole, Clients
  <2>5. /\ outputs \in [1..c.read -> Versions]
        /\ \A i \in 1..c.read : outputs[i] = coll.read[i]
    BY <2>4
  <2>6. outputs \in Reads
    BY <2>4, <2>5 DEF Reads
  <2>7. /\ Len(outputs) = c.read /\ outputs # <<>>
    BY <2>4, <2>5, IsolationBounds
  <2>8. Even(outputs)
    BY <2>3, <2>4, <2>5, <2>7, IsolationBounds DEF Even, Whole
  <2>9. drained => Len(outputs) = Files
    BY <2>2, <2>3, <2>7
  <2> HIDE DEF outputs, c
  <2>10. /\ h \in Results /\ h.pc = "unstage" /\ h.phase = host.phase
         /\ h.outputs = outputs /\ h.drained = drained
         /\ h.escapes = host.escapes /\ h.attempted = host.attempted
         /\ h.evidence = host.evidence /\ h.status = host.status
         /\ h.cleanup = host.cleanup /\ h.rc = host.rc /\ h.logs = host.logs
    <3>1. outputs \in UNION {[1..n -> 0..MaxWrites] : n \in 0..Files}
      BY <2>6 DEF Reads, Versions
    <3>2. "unstage" \in HostPcs /\ host \in Results
      BY DEF HostPcs, IsoInv, IsoShape
    <3> QED BY <3>1, <3>2 DEF Results
  <2> HIDE DEF h
  <2>11. /\ host.attempted /\ late = {} /\ host.cleanup # "yes"
         /\ container = "running" /\ host.evidence = "container-execution"
         /\ saved = NoRecord /\ host.status # "blocked"
    BY <2>2 DEF IsoInv, PathOK, SaysOK, Inside
  <2>12. PathOK'
    BY <2>2, <2>10, <2>11 DEF IsoInv, PathOK, Opening, Making, Inside, Alive
  <2>13. SaysOK'
    BY <2>2, <2>7, <2>10, <2>11 DEF IsoInv, SaysOK, Inside, Closing
  <2>14. IsoShape'
    BY <2>2, <2>10 DEF IsoInv, IsoShape
  <2>15. StreamsOK'
    BY <2>2 DEF IsoInv, StreamsOK, Bound
  <2>16. CollectorOK'
    BY <2>2, <2>10 DEF IsoInv, CollectorOK, Calm, Whole, Even, Alive
  <2>17. ArchiveOK'
    BY <2>2, <2>8, <2>9, <2>10 DEF IsoInv, ArchiveOK, Whole, Even
  <2> QED BY <2>12, <2>13, <2>14, <2>15, <2>16, <2>17 DEF IsoInv
<1> QED BY <1>1, <1>2

(* The way out of the with block, and what docker ps says.                 *)
LEMMA IsoUnstage ==
  ASSUME IsoInv, Unstage
  PROVE  IsoInv'
<1>1. CASE Fails
  BY <1>1, IsoFails DEF Unstage
<1>2. CASE Goes(After(host))
  <2>1. PICK pc \in {"rm", "save"} :
          /\ pc = IF host.attempted THEN "rm" ELSE "save"
          /\ pc = After(host)
    BY DEF After
  <2> DEFINE h == [host EXCEPT !.pc = pc]
  <2>2. /\ host.pc = "unstage" /\ host' = h
        /\ UNCHANGED <<saved, cancel, interrupts, container, late, client,
                       procs, work, coll>>
    BY <1>2, <2>1 DEF Unstage, Goes, payload
  <2>3. /\ h \in Results /\ h.pc = pc /\ h.phase = host.phase
        /\ h.outputs = host.outputs /\ h.drained = host.drained
        /\ h.escapes = host.escapes /\ h.attempted = host.attempted
        /\ h.evidence = host.evidence /\ h.status = host.status
        /\ h.cleanup = host.cleanup /\ h.rc = host.rc /\ h.logs = host.logs
    BY DEF IsoInv, IsoShape, Results, HostPcs
  <2> HIDE DEF h
  <2>4. late = {} /\ saved = NoRecord
    BY <2>2 DEF IsoInv, PathOK, SaysOK
  <2>5. PathOK'
    BY <2>2, <2>3, <2>4 DEF IsoInv, PathOK, Opening, Making, Inside, Alive
  <2>6. SaysOK'
    BY <2>1, <2>2, <2>3, <2>4 DEF IsoInv, SaysOK, Inert, Inside, Closing
  <2> QED BY <2>2, <2>3, <2>4, <2>5, <2>6, HostAlone DEF IsoInv, IsoShape
<1> QED BY <1>1, <1>2 DEF Unstage

LEMMA IsoVerify ==
  ASSUME IsoInv, Verify
  PROVE  IsoInv'
<1> DEFINE h1 == [host EXCEPT !.cleanup = "yes", !.pc = "save"]
           h2 == [host EXCEPT !.status = "cleanup_failed", !.cleanup = "no",
                              !.pc = "save"]
<1>1. /\ host.pc = "ps"
      /\ host' = h2 \/ (host' = h1 /\ container = "none")
      /\ UNCHANGED <<saved, cancel, interrupts, container, late, client,
                     procs, work, coll>>
  BY DEF Verify, Uncertain, payload
<1>2. /\ h1 \in Results /\ h1.pc = "save" /\ h1.phase = host.phase
      /\ h1.outputs = host.outputs /\ h1.drained = host.drained
      /\ h1.escapes = host.escapes /\ h1.attempted = host.attempted
      /\ h1.evidence = host.evidence /\ h1.status = host.status
      /\ h1.cleanup = "yes" /\ h1.rc = host.rc /\ h1.logs = host.logs
  BY DEF IsoInv, IsoShape, Results, HostPcs
<1>3. /\ h2 \in Results /\ h2.pc = "save" /\ h2.phase = host.phase
      /\ h2.outputs = host.outputs /\ h2.drained = host.drained
      /\ h2.escapes = host.escapes /\ h2.attempted = host.attempted
      /\ h2.evidence = host.evidence /\ h2.status = "cleanup_failed"
      /\ h2.cleanup = "no"
  BY DEF IsoInv, IsoShape, Results, HostPcs, Statuses
<1> HIDE DEF h1, h2
<1>4. saved = NoRecord /\ ~("create" \in late /\ "start" \in late)
  BY <1>1 DEF IsoInv, SaysOK, PathOK
<1>5. CASE host' = h1 /\ container = "none"
  <2>1. PathOK'
    BY <1>1, <1>2, <1>5 DEF IsoInv, PathOK, Opening, Making, Inside, Alive
  <2>2. SaysOK'
    BY <1>1, <1>2, <1>4, <1>5 DEF IsoInv, SaysOK, Inert, Inside, Closing
  <2> QED BY <1>1, <1>2, <1>5, <2>1, <2>2, HostAlone DEF IsoInv, IsoShape
<1>6. CASE host' = h2
  <2>1. PathOK'
    BY <1>1, <1>3, <1>6 DEF IsoInv, PathOK, Opening, Making, Inside, Alive
  <2>2. SaysOK'
    BY <1>1, <1>3, <1>4, <1>6 DEF SaysOK, Inside, Closing
  <2> QED BY <1>1, <1>3, <1>6, <2>1, <2>2, HostAlone DEF IsoInv, IsoShape
<1> QED BY <1>1, <1>5, <1>6

(* A container that is taken away takes its processes and the collector.   *)
LEMMA EmptyIs ==
  ASSUME IsoInv, Empty
  PROVE  /\ procs' \in [Pids -> Conditions] /\ coll' \in Collectors
         /\ \A p \in Pids : /\ procs'[p] \in {"none", "gone"}
                            /\ procs[p] = "none" => procs'[p] = "none"
         /\ coll'.pc = "none" /\ coll'.read = coll.read
BY DEF IsoInv, IsoShape, Empty, Collectors, Conditions

LEMMA Emptied ==
  ASSUME IsoInv, Empty, UNCHANGED client, host'.phase = host.phase,
         host'.outputs = host.outputs, host'.drained = host.drained,
         host'.pc = host.pc \/ host'.pc \notin {"exec", "poll", "join"}
  PROVE  StreamsOK' /\ CollectorOK' /\ ArchiveOK'
<1>1. StreamsOK'
  BY DEF IsoInv, StreamsOK, Bound
<1>2. coll'.pc = "none" /\ coll'.read = coll.read
  BY EmptyIs
<1>3. CollectorOK'
  BY <1>2 DEF IsoInv, CollectorOK
<1>4. ArchiveOK'
  BY <1>2 DEF IsoInv, ArchiveOK, Whole, Even
<1> QED BY <1>1, <1>3, <1>4

LEMMA IsoRemove ==
  ASSUME IsoInv, Remove
  PROVE  IsoInv'
<1> DEFINE h1 == [host EXCEPT !.pc = "ps"]
           h2 == [host EXCEPT !.status = "cleanup_failed", !.cleanup = "no",
                              !.pc = "save"]
<1>1. /\ h1 \in Results /\ h1.pc = "ps" /\ h1.phase = host.phase
      /\ h1.outputs = host.outputs /\ h1.drained = host.drained
      /\ h1.escapes = host.escapes /\ h1.attempted = host.attempted
      /\ h1.evidence = host.evidence /\ h1.status = host.status
      /\ h1.cleanup = host.cleanup /\ h1.rc = host.rc /\ h1.logs = host.logs
  BY DEF IsoInv, IsoShape, Results, HostPcs
<1>2. /\ h2 \in Results /\ h2.pc = "save" /\ h2.phase = host.phase
      /\ h2.outputs = host.outputs /\ h2.drained = host.drained
      /\ h2.escapes = host.escapes /\ h2.attempted = host.attempted
      /\ h2.evidence = host.evidence /\ h2.status = "cleanup_failed"
      /\ h2.cleanup = "no"
  BY DEF IsoInv, IsoShape, Results, HostPcs, Statuses
<1>3. /\ host.pc = "rm" /\ UNCHANGED <<saved, cancel, interrupts>>
      /\ \/ /\ container' = "none" /\ Empty /\ host' = h1
            /\ UNCHANGED <<late, client, work>>
         \/ /\ host' = h1
            /\ UNCHANGED <<container, late, client, procs, work, coll>>
         \/ /\ host' = h2 /\ late' = late \cup {"rm"}
            /\ UNCHANGED <<container, client, procs, work, coll>>
  BY DEF Remove, Uncertain, payload
<1> HIDE DEF h1, h2
<1>4. saved = NoRecord /\ ~("create" \in late /\ "start" \in late)
  BY <1>3 DEF IsoInv, SaysOK, PathOK
<1>5. CASE container' = "none" /\ Empty /\ host' = h1
           /\ UNCHANGED <<late, client, work>>
  <2>1. /\ procs' \in [Pids -> Conditions] /\ coll' \in Collectors
        /\ \A p \in Pids : /\ procs'[p] \in {"none", "gone"}
                           /\ procs[p] = "none" => procs'[p] = "none"
    BY <1>5, EmptyIs
  <2>2. PathOK'
    BY <1>1, <1>3, <1>4, <1>5, <2>1
       DEF IsoInv, PathOK, Opening, Making, Inside, Alive, Pids
  <2>3. SaysOK'
    BY <1>1, <1>3, <1>4, <1>5 DEF IsoInv, SaysOK, Inert, Inside, Closing
  <2>4. IsoShape'
    BY <1>1, <1>3, <1>5, <2>1 DEF IsoInv, IsoShape
  <2>5. StreamsOK' /\ CollectorOK' /\ ArchiveOK'
    BY <1>1, <1>5, Emptied
  <2> QED BY <2>2, <2>3, <2>4, <2>5 DEF IsoInv
<1>6. CASE /\ host' = h1
           /\ UNCHANGED <<container, late, client, procs, work, coll>>
  <2>1. PathOK'
    BY <1>1, <1>3, <1>6 DEF IsoInv, PathOK, Opening, Making, Inside, Alive
  <2>2. SaysOK'
    BY <1>1, <1>3, <1>4, <1>6 DEF IsoInv, SaysOK, Inert, Inside, Closing
  <2> QED BY <1>1, <1>3, <1>6, <2>1, <2>2, HostAlone DEF IsoInv, IsoShape
<1>7. CASE /\ host' = h2 /\ late' = late \cup {"rm"}
           /\ UNCHANGED <<container, client, procs, work, coll>>
  <2>1. PathOK'
    BY <1>2, <1>3, <1>7 DEF IsoInv, PathOK, Opening, Making, Inside, Alive
  <2>2. SaysOK'
    BY <1>2, <1>3, <1>4, <1>7 DEF SaysOK, Inside, Closing
  <2>3. IsoShape'
    BY <1>2, <1>3, <1>7 DEF IsoInv, IsoShape, Requests
  <2>4. StreamsOK' /\ CollectorOK' /\ ArchiveOK'
    BY <1>2, <1>7, HostMoves
  <2> QED BY <2>1, <2>2, <2>3, <2>4 DEF IsoInv
<1> QED BY <1>3, <1>5, <1>6, <1>7

LEMMA IsoSave ==
  ASSUME IsoInv, Save
  PROVE  IsoInv'
<1>1. PICK pc \in {"done", "escaped", "raised"} :
        /\ host' = [host EXCEPT !.pc = pc] /\ host.pc = "save"
        /\ saved' = IF pc = "raised" THEN saved ELSE host
        /\ pc = "done" => ~host.escapes
        /\ UNCHANGED <<cancel, interrupts, container, late, client, procs,
                       work, coll>>
  BY DEF Save, payload
<1> DEFINE h == [host EXCEPT !.pc = pc]
<1>2. /\ h \in Results /\ h.pc = pc /\ h.phase = host.phase
      /\ h.outputs = host.outputs /\ h.drained = host.drained
      /\ h.escapes = host.escapes /\ h.attempted = host.attempted
      /\ h.evidence = host.evidence /\ h.status = host.status
      /\ h.cleanup = host.cleanup /\ h.rc = host.rc /\ h.logs = host.logs
      /\ [h EXCEPT !.pc = "save"] = host
  BY <1>1 DEF IsoInv, IsoShape, Results, HostPcs, Ended
<1> HIDE DEF h
<1>3. host' = h /\ saved = NoRecord /\ saved' \in Results \cup {NoRecord}
  BY <1>1 DEF IsoInv, IsoShape, SaysOK, h
<1>4. PathOK'
  BY <1>1, <1>2, <1>3 DEF IsoInv, PathOK, Opening, Making, Inside, Alive
<1>5. SaysOK'
  <2>1. saved' # NoRecord =>
          /\ host'.pc \in {"done", "escaped"}
          /\ saved' = [host' EXCEPT !.pc = "save"]
    BY <1>1, <1>2, <1>3
  <2> QED BY <1>1, <1>2, <1>3, <2>1 DEF IsoInv, SaysOK, Inert, Inside, Closing
<1> QED BY <1>1, <1>2, <1>3, <1>4, <1>5, HostAlone

------------------------------------------------------------------------------
(* Ctrl-C and kill: the client the host watches may go with it.            *)
ClientGoes ==
  client' = [client EXCEPT ![host.phase].pc = IF @ = "run" THEN "exited" ELSE @]

LEMMA ClientGoesIs ==
  ASSUME IsoInv, ClientGoes
  PROVE  /\ client' \in [Phases -> Clients]
         /\ \A f \in Phases :
              /\ client'[f].made = client[f].made
              /\ client'[f].read = client[f].read
              /\ client'[f].over = client[f].over
              /\ \/ client'[f].pc = client[f].pc
                 \/ f = host.phase /\ client[f].pc = "run"
                                   /\ client'[f].pc = "exited"
<1>1. PICK f \in Phases : f = host.phase
  BY DEF IsoInv, IsoShape, Results
<1>2. client \in [Phases -> Clients] /\ client[f] \in Clients
  BY DEF IsoInv, IsoShape
<1>3. PICK pc \in {"none", "run", "exited"} :
        /\ pc = IF client[f].pc = "run" THEN "exited" ELSE client[f].pc
        /\ pc = client[f].pc \/ (client[f].pc = "run" /\ pc = "exited")
  BY <1>2 DEF Clients
<1> DEFINE c == [client[f] EXCEPT !.pc = pc]
<1>4. client' = [client EXCEPT ![f] = c]
  BY <1>1, <1>2, <1>3 DEF ClientGoes
<1>5. /\ c \in Clients /\ c.made = client[f].made /\ c.read = client[f].read
      /\ c.over = client[f].over /\ c.pc = pc
  BY <1>2 DEF Clients
<1> HIDE DEF c
<1> QED BY <1>1, <1>2, <1>3, <1>4, <1>5

LEMMA HostLeaves ==
  ASSUME IsoInv, ClientGoes, NEW h \in Results, host' = h,
         h.phase = host.phase, h.outputs = host.outputs,
         h.drained = host.drained,
         h.pc \notin {"exec", "poll", "join"},
         UNCHANGED <<procs, work, coll>>
  PROVE  StreamsOK' /\ CollectorOK' /\ ArchiveOK'
<1>1. StreamsOK'
  BY ClientGoesIs DEF IsoInv, StreamsOK, Bound
<1>2. CollectorOK'
  BY ClientGoesIs DEF IsoInv, CollectorOK, Calm, Whole, Even, Alive
<1>3. ArchiveOK'
  BY ClientGoesIs DEF IsoInv, ArchiveOK, Whole, Even
<1> QED BY <1>1, <1>2, <1>3

(* A host that is gone: it never says that it succeeded.                   *)
LEMMA HostIsGone ==
  ASSUME IsoInv, ClientGoes, NEW h, h \in Results, host' = h,
         h.pc \in {"raised", "dead"}, h.phase = host.phase,
         h.outputs = host.outputs, h.drained = host.drained,
         h.escapes = host.escapes, h.attempted = host.attempted,
         h.evidence = host.evidence, h.status = host.status,
         h.cleanup = host.cleanup, h.rc = host.rc, h.logs = host.logs,
         host.pc \notin Ended,
         late' = late \/ (host.pc \notin Making /\ late' = late \cup {"rm"}),
         interrupts' \in 0..MaxInterrupts,
         UNCHANGED <<saved, cancel, container, procs, work, coll>>
  PROVE  IsoInv'
<1>1. saved = NoRecord
  BY DEF IsoInv, SaysOK, Ended
<1>2. IsoShape'
  BY ClientGoesIs DEF IsoInv, IsoShape, Requests
<1>3. StreamsOK' /\ CollectorOK' /\ ArchiveOK'
  BY HostLeaves
<1>4. PathOK'
  BY DEF IsoInv, PathOK, Opening, Making, Inside, Alive
<1>5. client["exec"].pc = "exited" =>
        /\ client'["exec"].pc = "exited"
        /\ client'["exec"].made = client["exec"].made
  BY ClientGoesIs
<1>6. SaysOK'
  BY <1>1, <1>5 DEF IsoInv, SaysOK, Inert, Inside, Closing
<1> QED BY <1>2, <1>3, <1>4, <1>6 DEF IsoInv

LEMMA IsoKillHost ==
  ASSUME IsoInv, KillHost
  PROVE  IsoInv'
<1> DEFINE h == [host EXCEPT !.pc = "dead"]
<1>1. /\ h \in Results /\ h.pc = "dead" /\ h.phase = host.phase
      /\ h.outputs = host.outputs /\ h.drained = host.drained
      /\ h.escapes = host.escapes /\ h.attempted = host.attempted
      /\ h.evidence = host.evidence /\ h.status = host.status
      /\ h.cleanup = host.cleanup /\ h.rc = host.rc /\ h.logs = host.logs
  BY DEF IsoInv, IsoShape, Results, HostPcs, Ended
<1>2. /\ host' = h /\ host.pc \notin Ended /\ ClientGoes
      /\ UNCHANGED <<saved, cancel, interrupts, container, late, procs, work,
                     coll>>
  BY DEF KillHost, ClientGoes, payload
<1> HIDE DEF h
<1>3. interrupts' \in 0..MaxInterrupts
  BY <1>2 DEF IsoInv, IsoShape
<1> QED BY <1>1, <1>2, <1>3, HostIsGone

LEMMA IsoInterrupt ==
  ASSUME IsoInv, Interrupt
  PROVE  IsoInv'
<1>1. /\ host.pc \notin Ended /\ ClientGoes
      /\ interrupts' \in 0..MaxInterrupts
      /\ UNCHANGED <<saved, cancel, container, procs, work, coll>>
  <2>1. interrupts' \in 0..MaxInterrupts
    BY IsolationBounds DEF Interrupt, IsoInv, IsoShape
  <2>2. /\ host.pc \notin Ended /\ ClientGoes
        /\ UNCHANGED <<saved, cancel, container, procs, work, coll>>
    BY DEF Interrupt, ClientGoes, payload
  <2> QED BY <2>1, <2>2
<1>2. late' \subseteq late \cup (IF host.pc \in Making THEN {host.pc}
                                 ELSE IF host.pc = "rm" THEN {"rm"} ELSE {})
  BY DEF Interrupt, Request, Making
<1>3. CASE host.pc \in {"rm", "ps", "save"}
  <2> DEFINE h == [host EXCEPT !.pc = "raised"]
  <2>1. /\ h \in Results /\ h.pc = "raised" /\ h.phase = host.phase
        /\ h.outputs = host.outputs /\ h.drained = host.drained
        /\ h.escapes = host.escapes /\ h.attempted = host.attempted
        /\ h.evidence = host.evidence /\ h.status = host.status
        /\ h.cleanup = host.cleanup /\ h.rc = host.rc /\ h.logs = host.logs
    BY DEF IsoInv, IsoShape, Results, HostPcs, Ended
  <2>2. host' = h
    BY <1>3 DEF Interrupt
  <2> HIDE DEF h
  <2>3. late' = late \/ (host.pc \notin Making /\ late' = late \cup {"rm"})
    BY <1>3 DEF Interrupt, Request, Making
  <2> QED BY <1>1, <2>1, <2>2, <2>3, HostIsGone
<1>4. CASE host.pc \notin {"rm", "ps", "save"}
  <2>1. host.pc \in Opening \cup Making \cup Inside \cup {"unstage"}
    BY <1>1, <1>4 DEF IsoInv, IsoShape, Results, HostPcs, Ended, Opening,
                      Making, Inside
  <2>2. /\ host' = Handled(host, "interrupt")
        /\ late' \subseteq late \cup (IF host.pc \in Making THEN {host.pc}
                                      ELSE {})
    BY <1>2, <1>4 DEF Interrupt
  <2>3. Thrown("interrupt")
    BY <2>2, HandledIs DEF IsoInv
  <2>4. /\ host' \in Results /\ host'.phase = host.phase
        /\ host'.outputs = host.outputs /\ host'.drained = host.drained
        /\ host'.pc \in {"rm", "save"}
    BY <2>3 DEF Thrown
  <2>5. StreamsOK' /\ CollectorOK' /\ ArchiveOK'
    BY <1>1, <2>4, HostLeaves
  <2>6. IsoShape'
    BY <1>1, <2>2, <2>4, ClientGoesIs DEF IsoInv, IsoShape, Making, Requests
  <2>7. PathOK' /\ SaysOK'
    <3>1. host.phase = "collect" =>
            /\ client'["exec"].pc = client["exec"].pc
            /\ client'["exec"].made = client["exec"].made
      BY <1>1, ClientGoesIs
    <3> QED BY <1>1, <2>1, <2>2, <2>3, <3>1, HandlerPreserves
  <2> QED BY <2>5, <2>6, <2>7 DEF IsoInv
<1> QED BY <1>3, <1>4

LEMMA IsoCancel ==
  ASSUME IsoInv, Cancel
  PROVE  IsoInv'
<1>1. /\ cancel' = TRUE
      /\ UNCHANGED <<host, saved, interrupts, container, late, client, procs,
                     work, coll>>
  BY DEF Cancel, hostVars, payload
<1>2. cancel' \in BOOLEAN
  BY <1>1, Zenon
<1>3. IsoShape'
  BY <1>1, <1>2 DEF IsoInv, IsoShape
<1>4. StreamsOK' /\ ArchiveOK'
  BY <1>1 DEF IsoInv, StreamsOK, Bound, ArchiveOK, Whole, Even
<1>5. PathOK' /\ SaysOK'
  BY <1>1 DEF IsoInv, PathOK, SaysOK, Inert, Alive
<1>6. CollectorOK'
  BY <1>1 DEF IsoInv, CollectorOK, Calm, Whole, Even, Alive
<1> QED BY <1>3, <1>4, <1>5, <1>6 DEF IsoInv

(* What the daemon does late, it does to a run whose host knows nothing.   *)
LEMMA IsoDaemon ==
  ASSUME IsoInv, NEW request \in Requests, Daemon(request)
  PROVE  IsoInv'
<1>1. /\ request \in late /\ late' = late \ {request}
      /\ UNCHANGED <<host, saved, cancel, interrupts, client>>
      /\ \/ /\ request = "create" /\ container = "none"
            /\ container' = "created" /\ UNCHANGED <<procs, work, coll>>
         \/ /\ request = "start" /\ container = "created"
            /\ container' = "running" /\ UNCHANGED <<procs, work, coll>>
         \/ /\ request = "rm" /\ container' = "none"
            /\ Empty /\ UNCHANGED work
         \/ UNCHANGED <<container, procs, work, coll>>
  BY DEF Daemon, hostVars, payload
<1>2. host.pc \notin Opening \cup Making \cup Inside \cup {"unstage"}
  BY <1>1 DEF IsoInv, PathOK
<1>3. ~("create" \in late /\ "start" \in late)
  BY DEF IsoInv, PathOK
<1>4. CASE /\ request = "rm" /\ container' = "none"
           /\ Empty /\ UNCHANGED work
  <2>1. /\ procs' \in [Pids -> Conditions] /\ coll' \in Collectors
        /\ \A p \in Pids : /\ procs'[p] \in {"none", "gone"}
                           /\ procs[p] = "none" => procs'[p] = "none"
    BY <1>4, EmptyIs
  <2>2. PathOK'
    BY <1>1, <1>2, <1>3, <1>4, <2>1
       DEF IsoInv, PathOK, Opening, Making, Inside, Alive, Pids
  <2>3. SaysOK'
    BY <1>1, <1>2, <1>3, <1>4 DEF IsoInv, SaysOK, Inert, Inside, Closing
  <2>4. IsoShape'
    BY <1>1, <1>4, <2>1 DEF IsoInv, IsoShape
  <2>5. StreamsOK' /\ CollectorOK' /\ ArchiveOK'
    BY <1>1, <1>4, Emptied
  <2> QED BY <2>2, <2>3, <2>4, <2>5 DEF IsoInv
<1>5. CASE /\ UNCHANGED <<procs, work, coll>>
           /\ \/ container' = container
              \/ /\ request = "create" /\ container = "none"
                 /\ container' = "created"
              \/ /\ request = "start" /\ container = "created"
                 /\ container' = "running"
  <2>1. PathOK'
    BY <1>1, <1>2, <1>3, <1>5
       DEF IsoInv, PathOK, Opening, Making, Inside, Alive
  <2>2. SaysOK'
    BY <1>1, <1>2, <1>3, <1>5 DEF IsoInv, SaysOK, Inert, Inside, Closing
  <2>3. IsoShape'
    BY <1>1, <1>5 DEF IsoInv, IsoShape
  <2>4. StreamsOK' /\ ArchiveOK'
    BY <1>1, <1>5 DEF IsoInv, StreamsOK, Bound, ArchiveOK, Whole, Even
  <2>5. CollectorOK'
    BY <1>1, <1>5 DEF IsoInv, CollectorOK, Calm, Whole, Even, Alive
  <2> QED BY <2>1, <2>2, <2>3, <2>4, <2>5 DEF IsoInv
<1> QED BY <1>1, <1>4, <1>5

------------------------------------------------------------------------------
(* The steps that the host has no part in: streams only grow while their   *)
(* client runs, and no process comes to a container that has none.         *)
Inwards ==
  /\ UNCHANGED <<host, saved, cancel, interrupts, container, late>>
  /\ client' \in [Phases -> Clients] /\ procs' \in [Pids -> Conditions]
  /\ work' \in Versions /\ coll' \in Collectors
  /\ \A f \in Phases :
       \/ client'[f].pc = client[f].pc
       \/ client[f].pc = "run" /\ client'[f].pc = "exited"
  /\ client["exec"].pc = "exited" => client'["exec"].made = client["exec"].made
  /\ (\A q \in Pids : procs[q] \in {"none", "gone"}) =>
       \A p \in Pids : procs'[p] \in {"none", "gone"}
  /\ procs[Main] = "none" => procs'[Main] = "none"

LEMMA HostIsAside ==
  ASSUME IsoInv, Inwards
  PROVE  IsoShape' /\ PathOK' /\ SaysOK'
<1>1. IsoShape'
  BY DEF IsoInv, IsoShape, Inwards
<1>2. Alive = {} => Alive' = {}
  BY DEF Inwards, Alive, IsoInv, IsoShape, Conditions
<1>3. host.phase \in Phases
  BY DEF IsoInv, IsoShape, Results
<1>4. PathOK'
  BY <1>2, <1>3 DEF IsoInv, PathOK, Inwards
<1>5. SaysOK'
  BY DEF IsoInv, SaysOK, Inert, Inwards
<1> QED BY <1>1, <1>4, <1>5

LEMMA IsoSays ==
  ASSUME IsoInv, Says
  PROVE  IsoInv'
<1> DEFINE c == [client["exec"] EXCEPT !.made = client["exec"].made + 1]
<1>1. /\ c \in Clients /\ c.made = client["exec"].made + 1
      /\ c.read = client["exec"].read /\ c.over = client["exec"].over
      /\ c.pc = client["exec"].pc
  BY DEF IsoInv, IsoShape, Clients
<1>2. /\ client' = [client EXCEPT !["exec"] = c] /\ client["exec"].pc = "run"
      /\ UNCHANGED <<host, saved, cancel, interrupts, container, late, procs,
                     work, coll>>
  BY DEF Says, hostVars, payload, IsoInv, IsoShape
<1> HIDE DEF c
<1>3. client \in [Phases -> Clients] /\ client'["exec"] = c
      /\ client'["collect"] = client["collect"]
  BY <1>2 DEF IsoInv, IsoShape
<1>4. Inwards
  BY <1>1, <1>2, <1>3 DEF Inwards, IsoInv, IsoShape
<1>5. StreamsOK'
  BY <1>1, <1>3 DEF IsoInv, StreamsOK, Bound, Clients
<1>6. CollectorOK' /\ ArchiveOK'
  BY <1>2, <1>3 DEF IsoInv, CollectorOK, ArchiveOK, Calm, Whole, Even,
                          Alive
<1> QED BY <1>4, <1>5, <1>6, HostIsAside DEF IsoInv

LEMMA IsoDrain ==
  ASSUME IsoInv, NEW f \in Phases, Drain(f)
  PROVE  IsoInv'
<1>1. PICK over \in BOOLEAN :
        over = (client[f].over \/ client[f].read + 1 > Bound(f))
  BY Zenon
<1> DEFINE c == [client[f] EXCEPT !.read = client[f].read + 1, !.over = over]
<1>2. /\ c \in Clients /\ c.read = client[f].read + 1 /\ c.over = over
      /\ c.made = client[f].made /\ c.pc = client[f].pc
      /\ c.code = client[f].code
  <2>1. client[f] \in Clients /\ client[f].read + 1 \in Nat
    BY DEF IsoInv, IsoShape, Clients
  <2>2. PICK n \in Nat : n = client[f].read + 1
    BY <2>1
  <2>3. c = [client[f] EXCEPT !.read = n, !.over = over]
    BY <2>2
  <2>4. c \in Clients /\ c.over = over /\ c.read = n
    BY <2>1, <2>3 DEF Clients
  <2>5. c.made = client[f].made /\ c.pc = client[f].pc
        /\ c.code = client[f].code
    BY <2>1 DEF Clients
  <2> QED BY <2>2, <2>4, <2>5
<1>3. /\ client' = [client EXCEPT ![f] = c] /\ client[f].read < client[f].made
      /\ UNCHANGED <<host, saved, cancel, interrupts, container, late, procs,
                     work, coll>>
  BY <1>1 DEF Drain, hostVars, payload, IsoInv, IsoShape
<1> HIDE DEF c
<1>4. /\ client \in [Phases -> Clients] /\ client'[f] = c
      /\ \A g \in Phases : g # f => client'[g] = client[g]
  BY <1>3 DEF IsoInv, IsoShape
<1>5. Inwards
  BY <1>2, <1>3, <1>4 DEF Inwards, IsoInv, IsoShape
<1>6. StreamsOK'
  <2>1. Bound(f) \in Nat /\ client[f] \in Clients
    BY <1>4, IsolationBounds DEF Bound
  <2>2. c.read <= c.made /\ (c.over <=> c.read > Bound(f))
    BY <1>1, <1>2, <1>3, <2>1 DEF IsoInv, StreamsOK, Clients
  <2> QED BY <1>4, <2>2 DEF IsoInv, StreamsOK, Bound
<1>7. CollectorOK'
  BY <1>2, <1>3, <1>4 DEF IsoInv, CollectorOK, Calm, Whole, Even, Alive
<1>8. ArchiveOK'
  BY <1>2, <1>3, <1>4 DEF IsoInv, ArchiveOK, Whole, Even
<1> QED BY <1>5, <1>6, <1>7, <1>8, HostIsAside DEF IsoInv

LEMMA IsoFork ==
  ASSUME IsoInv, NEW p \in Pids, Fork(p)
  PROVE  IsoInv'
<1>1. /\ procs[p] = "none" /\ p # Main /\ procs \in [Pids -> Conditions]
      /\ procs' = [procs EXCEPT ![p] = "running"]
      /\ UNCHANGED <<host, saved, cancel, interrupts, container, late, client,
                     work, coll>>
  BY DEF Fork, hostVars, IsoInv, IsoShape
<1>2. PICK q \in Pids : procs[q] = "running"
  BY DEF Fork
<1>3. Inwards
  BY <1>1, <1>2 DEF Inwards, IsoInv, IsoShape, Conditions, Pids
<1>4. StreamsOK' /\ ArchiveOK'
  BY <1>1 DEF IsoInv, StreamsOK, Bound, ArchiveOK, Whole, Even
<1>5. coll \in Collectors
  BY DEF IsoInv, IsoShape
<1>6. coll.pc = "look" => ~(coll.live \subseteq coll.pids)
  BY <1>2 DEF IsoInv, CollectorOK, Alive
<1>7. coll.pc # "read"
  BY <1>2 DEF IsoInv, CollectorOK, Calm
<1>8. coll.pc = "signal" => p \notin coll.pids
  BY <1>1 DEF IsoInv, CollectorOK
<1>9. coll.pc = "look" => p \notin coll.pids /\ p \notin coll.live
  BY <1>1 DEF IsoInv, CollectorOK
<1>10. CollectorOK'
  BY <1>1, <1>5, <1>6, <1>7, <1>8, <1>9
     DEF IsoInv, CollectorOK, Collectors, Calm, Whole
<1> QED BY <1>3, <1>4, <1>10, HostIsAside DEF IsoInv

LEMMA IsoWrite ==
  ASSUME IsoInv, Write
  PROVE  IsoInv'
<1>1. /\ work' \in Versions
      /\ UNCHANGED <<host, saved, cancel, interrupts, container, late, client,
                     procs, coll>>
  <2>1. work \in 0..MaxWrites /\ work < MaxWrites /\ work' = work + 1
    BY DEF Write, IsoInv, IsoShape, Versions
  <2> QED BY <2>1, IsolationBounds DEF Write, hostVars, Versions
<1>2. coll.pc # "read"
  BY DEF Write, IsoInv, CollectorOK, Calm
<1>3. Inwards
  BY <1>1 DEF Inwards, IsoInv, IsoShape
<1>4. StreamsOK' /\ ArchiveOK'
  BY <1>1 DEF IsoInv, StreamsOK, Bound, ArchiveOK, Whole, Even
<1>5. CollectorOK'
  BY <1>1, <1>2 DEF IsoInv, CollectorOK, Calm, Whole, Even, Alive
<1> QED BY <1>3, <1>4, <1>5, HostIsAside DEF IsoInv

LEMMA IsoExit ==
  ASSUME IsoInv, NEW p \in Pids, Exit(p)
  PROVE  IsoInv'
<1>1. PICK code \in {0, 1} :
        client' = IF p = Main /\ client["exec"].pc = "run"
                  THEN [client EXCEPT !["exec"].pc = "exited",
                                      !["exec"].code = code]
                  ELSE client
  BY DEF Exit
<1>2. /\ procs[p] = "running" /\ procs \in [Pids -> Conditions]
      /\ procs' = [procs EXCEPT ![p] = "gone"]
      /\ UNCHANGED <<host, saved, cancel, interrupts, container, late, work,
                     coll>>
  BY DEF Exit, hostVars, IsoInv, IsoShape
<1> DEFINE c == [client["exec"] EXCEPT !.pc = "exited", !.code = code]
<1>3. /\ c \in Clients /\ c.made = client["exec"].made
      /\ c.read = client["exec"].read /\ c.over = client["exec"].over
      /\ c.pc = "exited"
  BY DEF IsoInv, IsoShape, Clients
<1>4. \/ client' = client
      \/ client["exec"].pc = "run" /\ client' = [client EXCEPT !["exec"] = c]
  BY <1>1 DEF IsoInv, IsoShape
<1> HIDE DEF c
<1>5. /\ client \in [Phases -> Clients] /\ client' \in [Phases -> Clients]
      /\ client'["collect"] = client["collect"]
      /\ client'["exec"].made = client["exec"].made
      /\ client'["exec"].read = client["exec"].read
      /\ client'["exec"].over = client["exec"].over
      /\ \/ client'["exec"].pc = client["exec"].pc
         \/ client["exec"].pc = "run" /\ client'["exec"].pc = "exited"
  BY <1>3, <1>4 DEF IsoInv, IsoShape
<1>6. Inwards
  BY <1>2, <1>5 DEF Inwards, IsoInv, IsoShape, Conditions, Pids
<1>7. StreamsOK'
  BY <1>5 DEF IsoInv, StreamsOK, Bound
<1>8. ArchiveOK'
  BY <1>2, <1>5 DEF IsoInv, ArchiveOK, Whole, Even
<1>9. coll.pc # "read"
  BY <1>2 DEF IsoInv, CollectorOK, Calm
<1>10. CollectorOK'
  BY <1>2, <1>5, <1>9 DEF IsoInv, CollectorOK, Whole, Even, Alive
<1> QED BY <1>6, <1>7, <1>8, <1>10, HostIsAside DEF IsoInv

LEMMA IsoLosesDaemon ==
  ASSUME IsoInv, LosesDaemon
  PROVE  IsoInv'
<1> DEFINE c == [client["exec"] EXCEPT !.pc = "exited", !.code = 1]
<1>1. /\ c \in Clients /\ c.made = client["exec"].made
      /\ c.read = client["exec"].read /\ c.over = client["exec"].over
      /\ c.pc = "exited"
  BY DEF IsoInv, IsoShape, Clients
<1>2. /\ client["exec"].pc = "run" /\ client' = [client EXCEPT !["exec"] = c]
      /\ UNCHANGED <<host, saved, cancel, interrupts, container, late, procs,
                     work, coll>>
  BY DEF LosesDaemon, hostVars, payload, IsoInv, IsoShape
<1> HIDE DEF c
<1>3. client \in [Phases -> Clients] /\ client'["exec"] = c
      /\ client'["collect"] = client["collect"]
  BY <1>2 DEF IsoInv, IsoShape
<1>4. Inwards
  BY <1>1, <1>2, <1>3 DEF Inwards, IsoInv, IsoShape
<1>5. StreamsOK'
  BY <1>1, <1>3 DEF IsoInv, StreamsOK, Bound
<1>6. CollectorOK' /\ ArchiveOK'
  BY <1>2, <1>3 DEF IsoInv, CollectorOK, ArchiveOK, Calm, Whole, Even, Alive
<1> QED BY <1>4, <1>5, <1>6, HostIsAside DEF IsoInv

LEMMA IsoStopped ==
  ASSUME IsoInv, NEW p \in Pids, Stopped(p)
  PROVE  IsoInv'
<1>1. /\ procs[p] = "stopping" /\ procs \in [Pids -> Conditions]
      /\ procs' = [procs EXCEPT ![p] = "stopped"]
      /\ UNCHANGED <<host, saved, cancel, interrupts, container, late, client,
                     work, coll>>
  BY DEF Stopped, hostVars, IsoInv, IsoShape
<1>2. Inwards
  BY <1>1 DEF Inwards, IsoInv, IsoShape, Conditions, Pids
<1>3. StreamsOK' /\ ArchiveOK'
  BY <1>1 DEF IsoInv, StreamsOK, Bound, ArchiveOK, Whole, Even
<1>4. coll.pc # "read"
  BY <1>1 DEF IsoInv, CollectorOK, Calm
<1>5. CollectorOK'
  BY <1>1, <1>4 DEF IsoInv, CollectorOK, Whole, Even, Alive
<1> QED BY <1>2, <1>3, <1>5, HostIsAside DEF IsoInv

------------------------------------------------------------------------------
(* The collector's own steps, that change no client.                       *)
LEMMA CollectorMoves ==
  ASSUME IsoInv, NEW c \in Collectors, coll' = c, c.read = coll.read,
         UNCHANGED <<host, saved, cancel, interrupts, container, late, client,
                     procs, work>>,
         coll.pc \notin {"none", "done"}, CollectorOK'
  PROVE  IsoInv'
<1>1. Inwards
  BY DEF Inwards, IsoInv, IsoShape
<1>2. StreamsOK'
  BY DEF IsoInv, StreamsOK, Bound
<1>3. ArchiveOK'
  BY DEF IsoInv, ArchiveOK, Whole, Even
<1> QED BY <1>1, <1>2, <1>3, HostIsAside DEF IsoInv

LEMMA IsoScan ==
  ASSUME IsoInv, Scan
  PROVE  IsoInv'
<1> DEFINE c == [coll EXCEPT !.pc = "signal", !.pids = Alive, !.left = Alive]
<1>1. /\ coll.pc = "scan" /\ coll' = c
      /\ UNCHANGED <<host, saved, cancel, interrupts, container, late, client,
                     procs, work>>
  BY DEF Scan, Collector, hostVars
<1>2. /\ c \in Collectors /\ c.pc = "signal" /\ c.pids = Alive
      /\ c.left = Alive /\ c.read = coll.read
  <2>1. Alive \subseteq Pids
    BY DEF Alive
  <2> HIDE DEF Alive
  <2> QED BY <2>1 DEF IsoInv, IsoShape, Collectors
<1> HIDE DEF c
<1>3. host.phase # "exec" /\ coll.read = <<>>
  BY <1>1 DEF IsoInv, CollectorOK
<1>4. CollectorOK'
  BY <1>1, <1>2, <1>3 DEF IsoInv, CollectorOK, Alive
<1> QED BY <1>1, <1>2, <1>4, CollectorMoves

LEMMA IsoSignal ==
  ASSUME IsoInv, NEW p \in Pids, Signal(p)
  PROVE  IsoInv'
<1> DEFINE c == [coll EXCEPT !.left = coll.left \ {p}]
<1>1. /\ coll.pc = "signal" /\ p \in coll.left /\ coll' = c
      /\ UNCHANGED <<host, saved, cancel, interrupts, container, late, client,
                     work>>
  BY DEF Signal, Collector, hostVars, IsoInv, IsoShape, Collectors
<1>2. /\ c \in Collectors /\ c.pc = "signal" /\ c.pids = coll.pids
      /\ c.left = coll.left \ {p} /\ c.read = coll.read
  BY <1>1 DEF IsoInv, IsoShape, Collectors
<1> HIDE DEF c
<1>3. PICK new \in Conditions :
        /\ procs' = [procs EXCEPT ![p] = new]
        /\ new = IF procs[p] = "running" THEN "stopping" ELSE procs[p]
  BY DEF Signal, IsoInv, IsoShape, Conditions
<1>4. procs \in [Pids -> Conditions]
  BY DEF IsoInv, IsoShape
<1>5. Inwards
  BY <1>1, <1>2, <1>3, <1>4 DEF Inwards, IsoInv, IsoShape, Conditions, Pids
<1>6. StreamsOK' /\ ArchiveOK'
  BY <1>1, <1>2 DEF IsoInv, StreamsOK, Bound, ArchiveOK, Whole, Even
<1>7. host.phase # "exec" /\ coll.read = <<>>
  BY <1>1 DEF IsoInv, CollectorOK
<1>8. CollectorOK'
  <2>1. ASSUME NEW q \in Pids, q \in coll.pids
        PROVE  procs'[q] # "none" /\ (q \notin c.left => procs'[q] # "running")
    BY <1>1, <1>2, <1>3, <1>4, <2>1 DEF IsoInv, CollectorOK
  <2>2. coll.pids \subseteq Pids
    BY DEF IsoInv, IsoShape, Collectors
  <2> QED BY <1>1, <1>2, <1>7, <2>1, <2>2 DEF IsoInv, CollectorOK
<1> QED BY <1>5, <1>6, <1>8, HostIsAside DEF IsoInv

LEMMA IsoLook ==
  ASSUME IsoInv, Look
  PROVE  IsoInv'
<1> DEFINE c == [coll EXCEPT !.pc = "look", !.live = Alive, !.left = Alive,
                             !.stopped = TRUE]
<1>1. /\ coll.pc = "signal" /\ coll.left = {} /\ coll' = c
      /\ UNCHANGED <<host, saved, cancel, interrupts, container, late, client,
                     procs, work>>
  BY DEF Look, Collector, hostVars
<1>2. /\ c \in Collectors /\ c.pc = "look" /\ c.pids = coll.pids
      /\ c.left = Alive /\ c.live = Alive /\ c.read = coll.read
  <2>1. Alive \subseteq Pids
    BY DEF Alive
  <2> HIDE DEF Alive
  <2> QED BY <2>1 DEF IsoInv, IsoShape, Collectors
<1> HIDE DEF c
<1>3. host.phase # "exec" /\ coll.read = <<>>
      /\ \A p \in coll.pids : procs[p] \notin {"none", "running"}
  BY <1>1 DEF IsoInv, CollectorOK
<1>4. /\ Alive' = Alive /\ \A p \in Alive : procs[p] # "none"
  BY <1>1 DEF Alive
<1>5. CollectorOK'
  BY <1>1, <1>2, <1>3, <1>4 DEF IsoInv, CollectorOK
<1> QED BY <1>1, <1>2, <1>5, CollectorMoves

LEMMA IsoLookAt ==
  ASSUME IsoInv, NEW p \in Pids, LookAt(p)
  PROVE  IsoInv'
<1>1. PICK stopped \in BOOLEAN :
        /\ coll' = [coll EXCEPT !.left = coll.left \ {p}, !.stopped = stopped]
        /\ stopped => coll.stopped /\ procs[p] \notin {"running", "stopping"}
  <2>1. coll' = [coll EXCEPT !.left = coll.left \ {p},
                   !.stopped = coll.stopped
                                 /\ procs[p] \notin {"running", "stopping"}]
    BY DEF LookAt, Collector, IsoInv, IsoShape, Collectors
  <2> QED BY <2>1, Zenon
<1> DEFINE c == [coll EXCEPT !.left = coll.left \ {p}, !.stopped = stopped]
<1>2. /\ coll.pc = "look" /\ p \in coll.left /\ coll' = c
      /\ UNCHANGED <<host, saved, cancel, interrupts, container, late, client,
                     procs, work>>
  BY <1>1 DEF LookAt, Collector, hostVars
<1>3. /\ c \in Collectors /\ c.pc = "look" /\ c.pids = coll.pids
      /\ c.left = coll.left \ {p} /\ c.live = coll.live
      /\ c.read = coll.read /\ c.stopped = stopped
  BY <1>2 DEF IsoInv, IsoShape, Collectors
<1> HIDE DEF c
<1>4. host.phase # "exec" /\ coll.read = <<>> /\ procs[p] \in Conditions
  BY <1>2 DEF IsoInv, CollectorOK, IsoShape
<1>5. procs[p] # "none"
  BY <1>2 DEF IsoInv, CollectorOK
<1>6. stopped => \A q \in coll.live \ (coll.left \ {p}) :
                   procs[q] \in {"stopped", "gone"}
  BY <1>1, <1>2, <1>4, <1>5 DEF IsoInv, CollectorOK, Conditions
<1>7. Alive' = Alive
  BY <1>2 DEF Alive
<1>8. CollectorOK'
  BY <1>2, <1>3, <1>4, <1>6, <1>7 DEF IsoInv, CollectorOK
<1> QED BY <1>2, <1>3, <1>8, CollectorMoves

(* When it is quiet nothing of the command runs: everything alive was seen *)
(* stopped, and only what runs can make something new.                     *)
LEMMA QuietIsCalm ==
  ASSUME IsoInv, coll.pc = "look", coll.left = {}, Quiet
  PROVE  Calm
<1>1. Alive \subseteq coll.live /\ coll.live \subseteq Pids
      /\ \A p \in coll.live : procs[p] \in {"stopped", "gone"}
  BY DEF IsoInv, CollectorOK, Quiet, IsoShape, Collectors
<1> QED BY <1>1 DEF Calm, Alive

LEMMA IsoJudgeQuiet ==
  ASSUME IsoInv, JudgeQuiet
  PROVE  IsoInv'
<1>1. PICK pc \in {"read", "scan", "failed"}, round \in Nat :
        /\ coll' = [coll EXCEPT !.pc = pc, !.round = round]
        /\ pc = "read" => Quiet
  <2>1. coll \in Collectors /\ coll.round \in Nat /\ coll.round + 1 \in Nat
    BY DEF IsoInv, IsoShape, Collectors
  <2>2. ASSUME NEW pc \in {"read", "failed"}, coll' = [coll EXCEPT !.pc = pc]
        PROVE  coll' = [coll EXCEPT !.pc = pc, !.round = coll.round]
    BY <2>1, <2>2 DEF Collectors
  <2>3. CASE Quiet /\ coll' = [coll EXCEPT !.pc = "read"]
    BY <2>1, <2>2, <2>3
  <2>4. CASE coll' = [coll EXCEPT !.pc = "failed"]
    BY <2>1, <2>2, <2>4
  <2>5. CASE coll' = [coll EXCEPT !.pc = "scan", !.round = coll.round + 1]
    BY <2>1, <2>5
  <2> QED BY <2>1, <2>3, <2>4, <2>5 DEF JudgeQuiet, Collector
<1> DEFINE c == [coll EXCEPT !.pc = pc, !.round = round]
<1>2. /\ coll.pc = "look" /\ coll.left = {} /\ coll' = c
      /\ UNCHANGED <<host, saved, cancel, interrupts, container, late, client,
                     procs, work>>
  BY <1>1 DEF JudgeQuiet, Collector, hostVars
<1>3. c \in Collectors /\ c.pc = pc /\ c.read = coll.read
  BY DEF IsoInv, IsoShape, Collectors
<1> HIDE DEF c
<1>4. host.phase # "exec" /\ coll.read = <<>>
  BY <1>2 DEF IsoInv, CollectorOK
<1>5. pc = "read" => Calm
  BY <1>1, <1>2, QuietIsCalm
<1>6. CollectorOK'
  BY <1>2, <1>3, <1>4, <1>5, EmptyRead DEF IsoInv, CollectorOK, Calm
<1> QED BY <1>2, <1>3, <1>6, CollectorMoves

LEMMA IsoArchive ==
  ASSUME IsoInv, Archive
  PROVE  IsoInv'
<1>1. /\ coll \in Collectors /\ coll.read \in Seq(Versions)
      /\ Len(coll.read) \in 0..Files /\ work \in Versions
      /\ coll.pc = "read" /\ Calm /\ host.phase # "exec"
      /\ \A i \in 1..Len(coll.read) : coll.read[i] = work
  BY ReadsAre DEF Archive, IsoInv, IsoShape, Collectors, CollectorOK
<1>2. UNCHANGED <<host, saved, cancel, interrupts, container, late, procs,
                  work>>
  BY DEF Archive, Collector, hostVars
<1>3. ASSUME NEW pc \in {"failed", "done"}, coll' = [coll EXCEPT !.pc = pc],
             pc = "done" => Len(coll.read) = Files, UNCHANGED client
      PROVE  IsoInv'
  <2> DEFINE c == [coll EXCEPT !.pc = pc]
  <2>1. c \in Collectors /\ c.pc = pc /\ c.read = coll.read
    BY <1>1 DEF Collectors
  <2> HIDE DEF c
  <2>2. coll' = c
    BY <1>3 DEF c
  <2>3. pc = "done" => Whole(coll.read)
    BY <1>1, <1>3 DEF Whole, Even
  <2>4. CollectorOK'
    BY <1>1, <1>2, <1>3, <2>1, <2>2, <2>3 DEF IsoInv, CollectorOK, Whole, Even
  <2> QED BY <1>1, <1>2, <1>3, <2>1, <2>2, <2>4, CollectorMoves
<1>4. ASSUME Len(coll.read) < Files,
             coll' = [coll EXCEPT !.read = Append(coll.read, work)],
             client' = [client EXCEPT !["collect"].made =
                          IF client["collect"].pc = "run" THEN @ + 1 ELSE @]
      PROVE  IsoInv'
  <2> DEFINE read == Append(coll.read, work)
             c == [coll EXCEPT !.read = read]
  <2>1. /\ read \in Reads /\ Len(read) = Len(coll.read) + 1
        /\ \A i \in 1..Len(read) : read[i] = work
    BY <1>1, <1>4, ReadsAre DEF Collectors
  <2> HIDE DEF read
  <2>2. coll' = c /\ c \in Collectors /\ c.pc = "read" /\ c.read = read
    BY <1>1, <1>4, <2>1 DEF Collectors, read
  <2>3. PICK made \in Nat :
          /\ made = IF client["collect"].pc = "run"
                    THEN client["collect"].made + 1 ELSE client["collect"].made
          /\ made >= client["collect"].made
    BY DEF IsoInv, IsoShape, Clients
  <2> DEFINE d == [client["collect"] EXCEPT !.made = made]
  <2>4. client' = [client EXCEPT !["collect"] = d]
    BY <1>4, <2>3 DEF IsoInv, IsoShape
  <2>5. /\ d \in Clients /\ d.made = made /\ d.pc = client["collect"].pc
        /\ d.read = client["collect"].read /\ d.over = client["collect"].over
        /\ d.code = client["collect"].code
    BY DEF IsoInv, IsoShape, Clients
  <2> HIDE DEF c, d
  <2>6. client \in [Phases -> Clients] /\ client'["collect"] = d
        /\ client'["exec"] = client["exec"]
    BY <2>4 DEF IsoInv, IsoShape
  <2>7. Inwards
    BY <1>1, <1>2, <2>2, <2>4, <2>5, <2>6 DEF Inwards, IsoInv, IsoShape
  <2>8. StreamsOK'
    BY <2>3, <2>5, <2>6 DEF IsoInv, StreamsOK, Bound, Clients
  <2>9. CollectorOK'
    BY <1>1, <1>2, <2>1, <2>2, <2>5, <2>6 DEF IsoInv, CollectorOK, Calm
  <2>10. ArchiveOK'
    <3>1. client'["collect"].pc # "exited" =>
            client'["collect"].made = Len(coll'.read)
      BY <1>1, <2>1, <2>2, <2>3, <2>5, <2>6
         DEF IsoInv, ArchiveOK, CollectorOK, IsoShape, Clients
    <3>2. host.phase = "collect" /\ host.pc \in {"poll", "join"} =>
            client'["collect"].pc # "exited" \/ client'["collect"].code # 0
      BY <1>1, <2>5, <2>6 DEF IsoInv, ArchiveOK
    <3> QED BY <1>2, <3>1, <3>2 DEF IsoInv, ArchiveOK, Even
  <2> QED BY <2>7, <2>8, <2>9, <2>10, HostIsAside DEF IsoInv
<1> QED BY <1>1, <1>3, <1>4 DEF Archive, Collector, Collectors

LEMMA IsoCollectorEnds ==
  ASSUME IsoInv, CollectorEnds
  PROVE  IsoInv'
<1>1. PICK code \in {0, 1} : code = IF coll.pc = "done" THEN 0 ELSE 1
  OBVIOUS
<1> DEFINE c == [client["collect"] EXCEPT !.pc = "exited", !.code = code]
<1>2. /\ c \in Clients /\ c.made = client["collect"].made
      /\ c.read = client["collect"].read /\ c.over = client["collect"].over
      /\ c.pc = "exited" /\ c.code = code
  BY DEF IsoInv, IsoShape, Clients
<1>3. /\ client["collect"].pc = "run"
      /\ client' = [client EXCEPT !["collect"] = c]
      /\ UNCHANGED <<host, saved, cancel, interrupts, container, late, procs,
                     work, coll>>
  BY <1>1 DEF CollectorEnds, hostVars, payload, IsoInv, IsoShape
<1> HIDE DEF c
<1>4. client \in [Phases -> Clients] /\ client'["collect"] = c
      /\ client'["exec"] = client["exec"]
  BY <1>3 DEF IsoInv, IsoShape
<1>5. Inwards
  BY <1>2, <1>3, <1>4 DEF Inwards, IsoInv, IsoShape
<1>6. StreamsOK'
  BY <1>2, <1>4 DEF IsoInv, StreamsOK, Bound
<1>7. host.phase # "exec"
  BY <1>3 DEF IsoInv, CollectorOK
<1>8. CollectorOK'
  BY <1>2, <1>3, <1>4, <1>7 DEF IsoInv, CollectorOK, Calm, Whole, Even, Alive
<1>9. code = 0 => coll.pc = "done" /\ Whole(coll.read)
  BY <1>1 DEF IsoInv, CollectorOK
<1>10. ArchiveOK'
  BY <1>2, <1>3, <1>4, <1>9 DEF IsoInv, ArchiveOK, Whole, Even
<1> QED BY <1>5, <1>6, <1>8, <1>10, HostIsAside DEF IsoInv

------------------------------------------------------------------------------
LEMMA IsoInvariant == IsoSpec => []IsoInv
<1>1. IsoInv /\ [IsoNext]_vars => IsoInv'
  <2> SUFFICES ASSUME IsoInv, [IsoNext]_vars PROVE IsoInv'
    OBVIOUS
  <2>1. CASE HostStep
    BY <2>1, IsoBefore, IsoMaking, IsoExec, IsoPoll, IsoExecuted, IsoCollected,
       IsoUnstage, IsoRemove, IsoVerify, IsoSave DEF HostStep
  <2>2. CASE InContainer
    <3>1. CASE \E p \in Pids : Fork(p) \/ Exit(p) \/ Stopped(p)
      BY <3>1, IsoFork, IsoExit, IsoStopped
    <3>2. CASE \E p \in Pids : Signal(p) \/ LookAt(p)
      BY <3>2, IsoSignal, IsoLookAt
    <3>3. CASE \/ Says \/ Write \/ LosesDaemon
               \/ Scan \/ Look \/ JudgeQuiet \/ Archive \/ CollectorEnds
      BY <3>3, IsoSays, IsoWrite, IsoLosesDaemon, IsoScan, IsoLook, IsoJudgeQuiet, IsoArchive,
         IsoCollectorEnds
    <3> QED BY <2>2, <3>1, <3>2, <3>3 DEF InContainer
  <2>3. CASE Cancel \/ Interrupt \/ KillHost
    BY <2>3, IsoCancel, IsoInterrupt, IsoKillHost
  <2>4. CASE \E request \in Requests : Daemon(request)
    BY <2>4, IsoDaemon
  <2>5. CASE \E f \in Phases : Drain(f)
    BY <2>5, IsoDrain
  <2>6. CASE UNCHANGED vars
    <3>1. UNCHANGED <<host, saved, cancel, interrupts, container, late, client,
                      procs, work, coll>>
      BY <2>6 DEF vars
    <3>2. Inwards
      BY <3>1 DEF Inwards, IsoInv, IsoShape
    <3>3. StreamsOK' /\ ArchiveOK'
      BY <3>1 DEF IsoInv, StreamsOK, Bound, ArchiveOK, Whole, Even
    <3>4. CollectorOK'
      BY <3>1 DEF IsoInv, CollectorOK, Calm, Whole, Even, Alive
    <3> QED BY <3>2, <3>3, <3>4, HostIsAside DEF IsoInv
  <2> QED BY <2>1, <2>2, <2>3, <2>4, <2>5, <2>6 DEF IsoNext, Requests
<1> QED BY <1>1, StartsWell, PTL DEF IsoSpec

(* What isolation.json says of the command, its output and its container is*)
(* so when it is saved and ever after, for any number of processes, any    *)
(* limit, however many times Ctrl-C is pressed and whatever exception comes*)
(* from any step (isolation.py 282-284, 460-505): a success is whole as far*)
(* as its streams were drained and leaves nothing behind, a verified       *)
(* cleanup means that nothing runs, a blocked run never started.           *)
THEOREM ResultsAreTrue == IsoSpec => []ResultIsTrue
<1>1. IsoInv => ResultIsTrue
  <2> SUFFICES ASSUME IsoInv PROVE ResultIsTrue
    OBVIOUS
  <2>1. IsoTypeOK
    BY DEF IsoInv, IsoShape, StreamsOK, IsoTypeOK, Clients, Collectors,
           Requests, Conditions, Versions
  <2>2. saved # NoRecord =>
          /\ host.pc \in {"done", "escaped"} /\ saved.status = host.status
          /\ saved.rc = host.rc /\ saved.logs = host.logs
          /\ saved.cleanup = host.cleanup /\ saved.evidence = host.evidence
          /\ saved.drained = host.drained /\ saved.outputs = host.outputs
    <3>1. saved # NoRecord => /\ host.pc \in {"done", "escaped"}
                              /\ saved = [host EXCEPT !.pc = "save"]
      BY DEF IsoInv, SaysOK
    <3>2. host \in Results
      BY DEF IsoInv, IsoShape
    <3> QED BY <3>1, <3>2 DEF Results
  <2>3. SuccessIsComplete /\ SuccessLeavesNothing
    BY <2>2 DEF IsoInv, SaysOK, Closing, SuccessIsComplete,
                SuccessLeavesNothing, Recorded
  <2>4. VerifiedMeansStopped
    BY <2>2 DEF IsoInv, SaysOK, PathOK, Inert, VerifiedMeansStopped
  <2>5. BlockedMeansNotRun
    BY <2>2 DEF IsoInv, SaysOK, PathOK, Closing, BlockedMeansNotRun
  <2> QED BY <2>1, <2>3, <2>4, <2>5 DEF ResultIsTrue
<1> QED BY <1>1, IsoInvariant, PTL

(* The files of an archive that a result keeps are all of the same moment, *)
(* although what the command left behind forks, writes and is stopped while*)
(* the collector looks for it (isolation_collect.py 18-38); and they are   *)
(* all there, unless a stream had not ended when its join gave up.         *)
THEOREM ArchivesAreOneSnapshot == IsoSpec => []OutputsAreOneSnapshot
<1>1. IsoInv => OutputsAreOneSnapshot
  <2> SUFFICES ASSUME IsoInv, saved # NoRecord, saved.outputs # <<>>
               PROVE  /\ Even(saved.outputs)
                      /\ saved.drained => Len(saved.outputs) = Files
    BY DEF OutputsAreOneSnapshot, Recorded, Even
  <2>1. saved = [host EXCEPT !.pc = "save"] /\ host \in Results
    BY DEF IsoInv, SaysOK, IsoShape
  <2>2. saved.outputs = host.outputs /\ saved.drained = host.drained
    BY <2>1 DEF Results
  <2> QED BY <2>2 DEF IsoInv, ArchiveOK
<1> QED BY <1>1, IsoInvariant, PTL
=============================================================================
