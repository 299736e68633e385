--------------------------- MODULE EtfDailyProofs ---------------------------
(***************************************************************************)
(* What the bounded daily operation guarantees for any calendar, any slots *)
(* and profiles, and any number of processes that overtake each other      *)
(* between clock reading and lock and are killed anywhere.  The records    *)
(* are made in one order and sorted in another: the invariant has a clock  *)
(* reading for each of them, by which both orders can be compared.         *)
(***************************************************************************)
EXTENDS EtfDaily, FiniteSetTheorems, WellFoundedInduction, TLAPS

Holding == {"collect", "check", "assess", "observe", "native"}
Reached == {"none", "worker_start", "master_refresh", "collection", "preflight",
            "frozen_identity", "observe", "verify"}
Causes == {"none", "transport", "conflict", "delay", "timeout", "data_missing",
           "identity", "native"}
Natives == {"none", "running", "failed", "completed"}
Records ==
    [day : Days, mode : Modes, rank : 1 .. MaxOps, slot : 0 .. Slots,
     edition : Editions, fetch : BOOLEAN, state : States, reached : Reached,
     cause : Causes, notify : BOOLEAN]
Looking == [pc : {"loaded"}, mode : Modes, at : Nat, edition : Editions,
            rank : 1 .. MaxOps]
Calling == [pc : Holding, op : Nat, edition : Editions, last : BOOLEAN]

\* The shape of the state; whoever holds the lock is in an operation.
EdShape ==
    /\ clock \in Nat /\ configured \in BOOLEAN /\ edition \in Editions
    /\ head \in 0 .. Cardinality(Days) /\ orphans \subseteq Days
    /\ native \in [Days -> Natives] /\ ops \in Seq(Records)
    /\ lock \in Procs \cup {Nobody}
    /\ ctl \in [Procs -> {Idle} \cup Looking \cup Calling]
    /\ \A p \in Procs : ctl[p].pc \in Holding <=> lock = p

\* What run has seen of the clock before it takes the lock.
Seen(mode, t) ==
    /\ configured => Trading(t) /\ WithinBudget(t)
    /\ mode = "tick" => Trading(t) /\ Due(t)
    /\ Expected(t) \in Sessions

\* Records are sorted as the clock readings they were made by.
Readings(m) ==
    /\ \A i \in DOMAIN ops :
          /\ m[i] \in 0 .. clock /\ Seen(ops[i].mode, m[i])
          /\ ops[i].day = Expected(m[i]) /\ ops[i].slot = Started(m[i])
    /\ \A i, j \in DOMAIN ops : ops[i].rank < ops[j].rank => m[i] <= m[j]
    /\ \A i \in DOMAIN ops, p \in Procs : At(p, "loaded") =>
          /\ ops[i].rank < ctl[p].rank => m[i] <= ctl[p].at
          /\ ctl[p].rank < ops[i].rank => ctl[p].at <= m[i]
ReadingsOK == \E m \in [DOMAIN ops -> 0 .. clock] : Readings(m)
RanksOK ==
    /\ \A i, j \in DOMAIN ops : ops[i].rank = ops[j].rank => i = j
    /\ \A p \in Procs : At(p, "loaded") =>
          /\ ctl[p].at <= clock /\ Seen(ctl[p].mode, ctl[p].at)
          /\ \A i \in DOMAIN ops : ops[i].rank # ctl[p].rank
          /\ \A q \in Procs : At(q, "loaded") /\ p # q =>
                /\ ctl[p].rank # ctl[q].rank
                /\ ctl[p].rank < ctl[q].rank => ctl[p].at <= ctl[q].at

\* The operation of the lock's holder is the last record and has no outcome.
HolderOK ==
    \A p \in Procs : lock = p =>
        /\ ctl[p].op = Len(ops) /\ Len(ops) > 0
        /\ Mine(p).state = "running" /\ ~Mine(p).notify
        /\ At(p, "native") => native[Mine(p).day] = "running"
        /\ At(p, "observe") /\ Mine(p).mode = "tick" =>
              native[Mine(p).day] \in {"none", "completed"}

EdInv ==
    /\ EdShape /\ ReadingsOK /\ RanksOK /\ HolderOK
    /\ SlotsFetchOnce /\ ConflictsStop
    /\ CompletedIsObserved /\ StateIsTold /\ CompletionIsTold
-----------------------------------------------------------------------------
(* Days, slots and the newest record.                                       *)

\* A bounded set of numbers has a greatest one.
LEMMA BoundedMax ==
    ASSUME NEW n \in Nat, NEW T \in SUBSET (0 .. n), T # {}
    PROVE  Max(T) \in T /\ \A y \in T : y <= Max(T)
PROOF
  <1> DEFINE U == {u \in Nat : \A y \in T : y <= u}
  <1>1. n \in U
    OBVIOUS
  <1>2. PICK m \in U : \A y \in U : ~(<<y, m>> \in OpToRel(<, Nat))
    <2>1. U \subseteq Nat /\ U # {}
      BY <1>1
    <2> HIDE DEF U
    <2> QED
      BY <2>1, WFMin, NatLessThanWellFounded, Zenon
  <1>3. \A y \in U : ~(y < m)
    BY <1>2 DEF OpToRel
  <1>4. m \in T
    <2>1. SUFFICES ASSUME m \notin T
                   PROVE  FALSE
      OBVIOUS
    <2>2. m \in Nat /\ \A y \in T : y <= m
      OBVIOUS
    <2>3. \A y \in T : y < m
      BY <2>1, <2>2
    <2>4. m # 0
      <3>1. PICK y \in T : TRUE
        OBVIOUS
      <3> QED
        BY <3>1, <2>2, <2>3
    <2>5. m - 1 \in U /\ m - 1 < m
      BY <2>2, <2>3, <2>4
    <2> QED
      BY <2>5, <1>3, Zenon
  <1>5. \E x \in T : \A y \in T : x >= y
    BY <1>4
  <1> QED
    BY <1>5 DEF Max

LEMMA DaysAreNumbers ==
    /\ Cardinality(Days) \in Nat /\ Days \subseteq 1 .. Cardinality(Days)
    /\ Sessions \subseteq Days /\ Slots \in Nat /\ Slots > 0 /\ MaxOps \in Nat
PROOF
  <1>1. Cardinality(Days) \in Nat
    BY EtfDailyAssumption, FS_CardinalityType
  <1> QED
    BY <1>1, EtfDailyAssumption

\* A moment has a day and a place in it.
LEMMA MomentIs ==
    ASSUME NEW t \in Nat
    PROVE  /\ Day(t) \in Nat /\ Position(t) \in 0 .. 2 * Slots
           /\ t = (2 * Slots + 1) * Day(t) + Position(t)
           /\ Started(t) \in 0 .. Slots
PROOF
  <1>1. Slots \in Nat
    BY DaysAreNumbers
  <1> DEFINE k == 2 * Slots + 1
  <1>2. k \in Nat /\ k > 0
    BY <1>1
  <1> HIDE DEF k
  <1>3. /\ t \div k \in Nat /\ t % k \in 0 .. k - 1
        /\ t = k * (t \div k) + (t % k)
    BY <1>2
  <1>4. Day(t) = t \div k /\ Position(t) = t % k
    BY DEF Day, Position, k
  <1>5. Position(t) \in 0 .. 2 * Slots
    BY <1>1, <1>3, <1>4 DEF k
  <1>6. Started(t) \in 0 .. Slots
    BY <1>1, <1>5 DEF Started
  <1> QED
    BY <1>3, <1>4, <1>5, <1>6 DEF k

\* On one day the slots pass with the clock, and the days do.
LEMMA SlotsPass ==
    ASSUME NEW t \in Nat, NEW u \in Nat, t <= u
    PROVE  Day(t) = Day(u) => Started(t) <= Started(u)
PROOF
  <1> SUFFICES ASSUME Day(t) = Day(u) PROVE Started(t) <= Started(u)
    OBVIOUS
  <1>1. PICK c \in Nat : c = (2 * Slots + 1) * Day(t)
    BY MomentIs, DaysAreNumbers
  <1>2. t = c + Position(t) /\ u = c + Position(u)
    BY <1>1, MomentIs
  <1>3. Position(t) \in Nat /\ Position(u) \in Nat /\ Position(t) <= Position(u)
    BY <1>1, <1>2, MomentIs, DaysAreNumbers
  <1> QED
    BY <1>3 DEF Started

\* closed_session is a session or nothing, and today once today is closed.
LEMMA ExpectedIs ==
    ASSUME NEW t \in Nat
    PROVE  /\ Expected(t) \in {0} \cup Sessions
           /\ Trading(t) /\ Due(t) => Expected(t) = Day(t)
PROOF
  <1> DEFINE T == {0} \cup {s \in Sessions : s < Day(t)}
                      \cup (IF Due(t) THEN Sessions \cap {Day(t)} ELSE {})
             n == Cardinality(Days)
  <1>1. n \in Nat /\ T \in SUBSET (0 .. n) /\ T # {} /\ T \subseteq {0} \cup Sessions
    BY DaysAreNumbers
  <1>2. Expected(t) = Max(T)
    BY DEF Expected
  <1>3. Day(t) \in Nat /\ \A y \in T : y <= Day(t)
    <2>1. Day(t) \in Nat
      BY MomentIs
    <2>2. Sessions \subseteq Nat
      <3>1. 1 .. Cardinality(Days) \subseteq Nat
        BY DaysAreNumbers
      <3> QED
        BY <3>1, DaysAreNumbers, Zenon
    <2>3. ASSUME NEW y \in T
          PROVE  \/ y = 0
                 \/ y \in Sessions /\ y < Day(t)
                 \/ y \in Sessions /\ y = Day(t)
      OBVIOUS
    <2> QED
      BY <2>1, <2>2, <2>3
  <1>4. Trading(t) /\ Due(t) => Day(t) \in T
    BY DEF Trading
  <1> HIDE DEF T, n
  <1>5. Max(T) \in T /\ \A y \in T : y <= Max(T)
    BY <1>1, BoundedMax
  <1>6. Max(T) \in Nat
    <2>1. Max(T) \in 0 .. n
      BY <1>1, <1>5, Zenon
    <2> QED
      BY <1>1, <2>1
  <1>7. Trading(t) /\ Due(t) => Max(T) = Day(t)
    BY <1>3, <1>4, <1>5, <1>6
  <1> QED
    BY <1>1, <1>2, <1>5, <1>7

\* Where the day is that of the clock, its slots pass with the readings.
LEMMA ReadingsOfADay ==
    ASSUME configured \in BOOLEAN,
           NEW m \in Modes, NEW t \in Nat, Seen(m, t),
           NEW n \in Modes, NEW u \in Nat, Seen(n, u),
           configured \/ (m = "tick" /\ n = "tick"),
           Expected(t) = Expected(u), t <= u
    PROVE  Started(t) <= Started(u)
PROOF
  <1>1. ASSUME NEW v \in Nat, WithinBudget(v)
        PROVE  Due(v)
    <2>1. Position(v) \in Nat /\ Position(v) % 2 = 1
      BY <1>1, MomentIs, DaysAreNumbers DEF WithinBudget
    <2> QED
      BY <2>1 DEF Due
  <1>2. Trading(t) /\ Due(t) /\ Trading(u) /\ Due(u)
    BY <1>1 DEF Seen
  <1> QED
    BY <1>2, ExpectedIs, SlotsPass

\* The newest of some records is one of them, and sorted last.
LEMMA NewestIs ==
    ASSUME ops \in Seq(Records), NEW S \in SUBSET DOMAIN ops, S # {}
    PROVE  Newest(S) \in S /\ \A j \in S : ops[j].rank <= ops[Newest(S)].rank
PROOF
  <1> DEFINE T == {ops[i].rank : i \in S}
  <1>1. MaxOps \in Nat /\ T \in SUBSET (0 .. MaxOps) /\ T # {}
    <2>1. MaxOps \in Nat
      BY DaysAreNumbers
    <2>2. \A i \in DOMAIN ops : ops[i] \in Records
      OBVIOUS
    <2>3. \A i \in S : ops[i].rank \in 1 .. MaxOps
      BY <2>2 DEF Records
    <2> QED
      BY <2>1, <2>3
  <1>2. PICK i \in S : \A j \in S : ops[j].rank <= ops[i].rank
    <2> HIDE DEF T
    <2>1. Max(T) \in T /\ \A y \in T : y <= Max(T)
      BY <1>1, BoundedMax
    <2> QED
      BY <2>1 DEF T
  <1> QED
    BY <1>2 DEF Newest

-----------------------------------------------------------------------------
(* What a step leaves as it was.                                           *)

LEMMA StatesOfOps ==
    ASSUME EdShape, NEW i \in DOMAIN ops
    PROVE  /\ ops[i] \in Records /\ i \in 1 .. Len(ops) /\ Len(ops) \in Nat
           /\ DOMAIN ops = 1 .. Len(ops)
           /\ ops[i].day \in Days /\ ops[i].mode \in Modes
           /\ ops[i].rank \in 1 .. MaxOps /\ ops[i].rank \in Nat
           /\ ops[i].slot \in 0 .. Slots /\ ops[i].slot \in Nat
           /\ ops[i].edition \in Editions /\ ops[i].state \in States
PROOF
  <1>1. ops \in Seq(Records)
    BY DEF EdShape
  <1>2. ops[i] \in Records /\ i \in 1 .. Len(ops) /\ Len(ops) \in Nat
        /\ DOMAIN ops = 1 .. Len(ops)
    BY <1>1
  <1> QED
    BY <1>2, DaysAreNumbers DEF Records

\* A process that has read the clock, and one that holds the lock.
LEMMA LoadedIs ==
    ASSUME EdShape, NEW p \in Procs, At(p, "loaded")
    PROVE  /\ ctl[p] \in Looking /\ ctl[p].at \in Nat /\ ctl[p].mode \in Modes
           /\ ctl[p].rank \in 1 .. MaxOps /\ ctl[p].edition \in Editions
           /\ lock # p
BY DEF EdShape, At, Looking, Calling, Holding, Idle

LEMMA HolderIs ==
    ASSUME EdInv, NEW p \in Procs, lock = p
    PROVE  /\ ctl[p] \in Calling /\ ctl[p].op = Len(ops) /\ Len(ops) \in DOMAIN ops
           /\ Mine(p) = ops[Len(ops)] /\ Mine(p) \in Records
           /\ Mine(p).state = "running" /\ ~Mine(p).notify
           /\ \A q \in Procs \ {p} : lock # q /\ ctl[q] \notin Calling
           /\ ~At(p, "loaded")
PROOF
  <1>1. ctl[p].pc \in Holding /\ ctl[p] \in {Idle} \cup Looking \cup Calling
        /\ ops \in Seq(Records)
    BY DEF EdInv, EdShape
  <1>2. ctl[p] \in Calling /\ ~At(p, "loaded")
    BY <1>1 DEF Looking, Holding, Idle, At
  <1>3. ctl[p].op = Len(ops) /\ Len(ops) > 0 /\ Mine(p).state = "running"
        /\ ~Mine(p).notify
    BY DEF EdInv, HolderOK
  <1>4. Len(ops) \in DOMAIN ops
    BY <1>1, <1>3
  <1>5. \A q \in Procs \ {p} : lock # q /\ ctl[q] \notin Calling
    BY DEF EdInv, EdShape, Calling
  <1> QED
    BY <1>1, <1>2, <1>3, <1>4, <1>5 DEF Mine

\* Records that keep their place, under a clock that only goes on, for
\* processes of which none has read it again.
LEMMA ReadingsStand ==
    ASSUME ReadingsOK, RanksOK, configured' = configured,
           clock \in Nat, clock' \in Nat, clock <= clock',
           DOMAIN ops' = DOMAIN ops,
           \A i \in DOMAIN ops :
              /\ ops'[i].day = ops[i].day /\ ops'[i].mode = ops[i].mode
              /\ ops'[i].rank = ops[i].rank /\ ops'[i].slot = ops[i].slot,
           \A q \in Procs : ctl'[q].pc = "loaded" =>
              ctl'[q] = ctl[q] /\ ctl[q].at \in Nat
    PROVE  ReadingsOK' /\ RanksOK'
PROOF
  <1>1. PICK m \in [DOMAIN ops -> 0 .. clock] : Readings(m)
    BY DEF ReadingsOK
  <1>2. m \in [DOMAIN ops' -> 0 .. clock']
    BY <1>1
  <1>3. \A x, t : Seen(x, t) => Seen(x, t)'
    BY DEF Seen
  <1>4. Readings(m)'
    BY <1>1, <1>2, <1>3 DEF Readings, At
  <1>5. RanksOK'
    BY <1>3 DEF RanksOK, At
  <1> QED
    BY <1>2, <1>4, <1>5 DEF ReadingsOK

\* What is said of the records alone.
Facts ==
    /\ SlotsFetchOnce /\ ConflictsStop
    /\ CompletedIsObserved /\ StateIsTold /\ CompletionIsTold

LEMMA FactsStand ==
    ASSUME Facts, EdShape, UNCHANGED <<ops, configured>>,
           \A d \in Days : native[d] = "completed" => native'[d] = "completed"
    PROVE  Facts'
PROOF
  <1>1. SlotsFetchOnce' /\ ConflictsStop' /\ CompletionIsTold'
    BY DEF Facts, SlotsFetchOnce, ConflictsStop, ByHandBetween, Overtaken, History,
           Before, CompletionIsTold
  <1>2. StateIsTold'
    BY DEF Facts, StateIsTold, InOrder, History, Before, Signature
  <1>3. CompletedIsObserved'
    BY StatesOfOps DEF Facts, CompletedIsObserved
  <1> QED
    BY <1>1, <1>2, <1>3 DEF Facts

LEMMA EdParts == EdInv <=> EdShape /\ ReadingsOK /\ RanksOK /\ HolderOK /\ Facts
BY DEF EdInv, Facts

LEMMA EdStarts == Init => EdInv
PROOF
  <1> SUFFICES ASSUME Init PROVE EdInv
    OBVIOUS
  <1>1. 1 \in Editions
    BY EtfDailyAssumption, FS_CardinalityType
  <1>2. clock \in Nat /\ 0 \in 0 .. clock
    BY DaysAreNumbers DEF Init
  <1>3. /\ ops = <<>> /\ lock = Nobody /\ DOMAIN ops = {} /\ Len(ops) = 0
        /\ \A p \in Procs : ctl[p] = Idle /\ ~At(p, "loaded")
    BY DEF Init, Idle, At
  <1>4. EdShape
    BY <1>1, <1>2, DaysAreNumbers, EtfDailyAssumption
       DEF Init, EdShape, Idle, Holding, Natives
  <1>5. ReadingsOK
    <2>1. [i \in DOMAIN ops |-> 0] \in [DOMAIN ops -> 0 .. clock]
      BY <1>2
    <2>2. Readings([i \in DOMAIN ops |-> 0])
      BY <1>3 DEF Readings
    <2> QED
      BY <2>1, <2>2 DEF ReadingsOK
  <1>6. RanksOK /\ HolderOK
    BY <1>3, EtfDailyAssumption DEF RanksOK, HolderOK
  <1>7. Facts
    BY <1>3 DEF Facts, SlotsFetchOnce, ConflictsStop, CompletedIsObserved,
                StateIsTold, CompletionIsTold
  <1> QED
    BY <1>4, <1>5, <1>6, <1>7, EdParts

\* The clock, the operator and orphaned collectors leave the records alone.
LEMMA EdQuiet ==
    ASSUME EdInv, UNCHANGED <<configured, native, ops, lock, ctl>>,
           clock' \in Nat, clock <= clock', edition' \in Editions,
           head' \in 0 .. Cardinality(Days), orphans' \subseteq Days
    PROVE  EdInv'
PROOF
  <1>1. EdShape'
    BY DEF EdInv, EdShape
  <1>2. ReadingsOK' /\ RanksOK'
    <2>1. \A q \in Procs : ctl'[q].pc = "loaded" =>
             ctl'[q] = ctl[q] /\ ctl[q].at \in Nat
      BY LoadedIs DEF EdInv, At
    <2> QED
      BY <2>1, ReadingsStand DEF EdInv, EdShape
  <1>3. HolderOK'
    BY DEF EdInv, HolderOK, Mine, At
  <1>4. Facts'
    BY EdParts, FactsStand
  <1> QED
    BY <1>1, <1>2, <1>3, <1>4 DEF EdInv, Facts
-----------------------------------------------------------------------------
(* Steps of a process that leave the records alone.                        *)

LEMMA EdLeaves ==
    ASSUME EdInv, NEW p \in Procs, ctl' = [ctl EXCEPT ![p] = Idle],
           UNCHANGED <<clock, operator, head, native, ops>>, orphans' \subseteq Days,
           lock' \in {lock, Nobody}, lock = p => lock' = Nobody,
           lock # p => lock' = lock
    PROVE  EdInv'
PROOF
  <1>1. /\ ctl \in [Procs -> {Idle} \cup Looking \cup Calling]
        /\ \A q \in Procs : ctl[q].pc \in Holding <=> lock = q
        /\ Nobody \notin Procs
    BY EtfDailyAssumption DEF EdInv, EdShape
  <1>2. /\ ctl'[p] = Idle /\ Idle.pc \notin Holding /\ Idle.pc # "loaded"
        /\ \A q \in Procs \ {p} : ctl'[q] = ctl[q]
    BY <1>1 DEF Idle, Holding
  <1>3. \A q \in Procs : ctl'[q].pc \in Holding <=> lock' = q
    BY <1>1, <1>2
  <1>4. EdShape'
    BY <1>1, <1>3 DEF EdInv, EdShape, operator
  <1>5. ReadingsOK' /\ RanksOK'
    <2>1. \A q \in Procs : ctl'[q].pc = "loaded" =>
             ctl'[q] = ctl[q] /\ ctl[q].at \in Nat
      BY <1>2, LoadedIs DEF EdInv, At
    <2> QED
      BY <2>1, ReadingsStand DEF EdInv, EdShape, operator
  <1>6. HolderOK'
    BY <1>1, <1>2 DEF EdInv, HolderOK, Mine, At
  <1>7. Facts'
    BY EdParts, FactsStand DEF operator
  <1> QED
    BY <1>4, <1>5, <1>6, <1>7, EdParts, Zenon DEF EdInv, Facts

LEMMA EdGoes ==
    ASSUME EdInv, NEW p \in Procs, lock = p, NEW where \in Holding, Goto(p, where),
           UNCHANGED <<clock, operator, orphans>>, head' \in 0 .. Cardinality(Days),
           native' \in [Days -> Natives],
           \A d \in Days : native[d] = "completed" => native'[d] = "completed",
           where = "native" => native'[Mine(p).day] = "running",
           where = "observe" /\ Mine(p).mode = "tick" =>
              native'[Mine(p).day] \in {"none", "completed"}
    PROVE  EdInv'
PROOF
  <1>1. /\ ctl \in [Procs -> {Idle} \cup Looking \cup Calling]
        /\ \A q \in Procs : ctl[q].pc \in Holding <=> lock = q
    BY DEF EdInv, EdShape
  <1>2. ctl[p] \in Calling /\ UNCHANGED <<ops, lock>>
        /\ ctl' = [ctl EXCEPT ![p].pc = where]
    BY HolderIs DEF Goto
  <1>3. /\ ctl'[p] \in Calling /\ ctl'[p].pc = where /\ ctl'[p].op = ctl[p].op
        /\ \A q \in Procs \ {p} : ctl'[q] = ctl[q]
        /\ ctl' \in [Procs -> {Idle} \cup Looking \cup Calling]
    BY <1>1, <1>2 DEF Calling
  <1>4. EdShape'
    BY <1>1, <1>2, <1>3 DEF EdInv, EdShape, operator
  <1>5. ReadingsOK' /\ RanksOK'
    <2>1. \A q \in Procs : ctl'[q].pc = "loaded" =>
             ctl'[q] = ctl[q] /\ ctl[q].at \in Nat
      BY <1>3, LoadedIs DEF EdInv, At, Holding
    <2> QED
      BY <1>2, <2>1, ReadingsStand DEF EdInv, EdShape, operator
  <1>6. HolderOK'
    <2> SUFFICES ASSUME NEW q \in Procs, lock' = q
                 PROVE  /\ ctl'[q].op = Len(ops') /\ Len(ops') > 0
                        /\ Mine(q)'.state = "running" /\ ~Mine(q)'.notify
                        /\ At(q, "native")' => native'[Mine(q)'.day] = "running"
                        /\ At(q, "observe")' /\ Mine(q)'.mode = "tick" =>
                              native'[Mine(q)'.day] \in {"none", "completed"}
      BY DEF HolderOK
    <2>1. q = p /\ Mine(q)' = Mine(p)
      BY <1>2, <1>3 DEF Mine
    <2> QED
      BY <1>2, <1>3, <2>1 DEF EdInv, HolderOK, At
  <1>7. Facts'
    BY <1>2, EdParts, FactsStand DEF operator
  <1> QED
    BY <1>4, <1>5, <1>6, <1>7, EdParts, Zenon DEF EdInv, Facts

\* A new reading of the clock is sorted behind all there are.
LEMMA EdLooks ==
    ASSUME EdInv, NEW p \in Procs, NEW mode \in Modes, Look(p, mode)
    PROVE  EdInv'
PROOF
  <1> DEFINE rank == 1 + Max({0} \cup Ranks)
             new == [pc |-> "loaded", mode |-> mode, at |-> clock,
                     edition |-> edition, rank |-> rank]
  <1>1. /\ At(p, "idle") /\ MayLook(mode) /\ Max({0} \cup Ranks) < MaxOps
        /\ ctl' = [ctl EXCEPT ![p] = new]
        /\ UNCHANGED <<clock, configured, edition, head, native, ops, lock, orphans>>
    BY DEF Look, operator
  <1>2. /\ ctl \in [Procs -> {Idle} \cup Looking \cup Calling] /\ clock \in Nat
        /\ \A q \in Procs : ctl[q].pc \in Holding <=> lock = q
        /\ edition \in Editions /\ configured \in BOOLEAN
    BY DEF EdInv, EdShape
  <1>3. /\ rank \in 1 .. MaxOps
        /\ \A i \in DOMAIN ops : ops[i].rank < rank
        /\ \A q \in Procs : At(q, "loaded") => ctl[q].rank < rank
    <2> DEFINE T == {0} \cup Ranks
    <2>1. MaxOps \in Nat
      BY DaysAreNumbers
    <2>2. \A i \in DOMAIN ops : ops[i].rank \in 1 .. MaxOps
      BY StatesOfOps DEF EdInv
    <2>3. \A q \in Procs : At(q, "loaded") => ctl[q].rank \in 1 .. MaxOps
      BY LoadedIs DEF EdInv
    <2>4. T \in SUBSET (0 .. MaxOps) /\ T # {}
      BY <2>1, <2>2, <2>3 DEF Ranks
    <2>5. \A i \in DOMAIN ops : ops[i].rank \in T
      BY DEF Ranks
    <2>6. \A q \in Procs : At(q, "loaded") => ctl[q].rank \in T
      BY DEF Ranks
    <2>7. Max(T) < MaxOps
      BY <1>1
    <2> HIDE DEF T
    <2>8. Max(T) \in T /\ \A y \in T : y <= Max(T)
      BY <2>1, <2>4, BoundedMax
    <2>9. Max(T) \in 0 .. MaxOps
      BY <2>4, <2>8, Zenon
    <2>10. 1 + Max(T) \in 1 .. MaxOps
      BY <2>1, <2>7, <2>9
    <2>11. \A i \in DOMAIN ops : ops[i].rank < 1 + Max(T)
      BY <2>1, <2>2, <2>5, <2>8, <2>9
    <2>12. \A q \in Procs : At(q, "loaded") => ctl[q].rank < 1 + Max(T)
      BY <2>1, <2>3, <2>6, <2>8, <2>9
    <2> QED
      BY <2>10, <2>11, <2>12 DEF T
  <1> HIDE DEF rank
  <1>4. Seen(mode, clock)
    BY <1>1, <1>2, ExpectedIs DEF MayLook, Seen
  <1>5. new \in Looking
    BY <1>2, <1>3 DEF Looking
  <1>6. /\ new.pc = "loaded" /\ new.mode = mode /\ new.at = clock /\ new.rank = rank
    OBVIOUS
  <1> HIDE DEF new
  <1>7. /\ ctl'[p] = new /\ \A q \in Procs \ {p} : ctl'[q] = ctl[q]
        /\ ctl' \in [Procs -> {Idle} \cup Looking \cup Calling]
    BY <1>1, <1>2, <1>5
  <1>8. lock # p
    BY <1>1, <1>2 DEF At, Holding
  <1>9. EdShape'
    BY <1>1, <1>2, <1>6, <1>7, <1>8 DEF EdInv, EdShape, Holding
  <1>10. \A x, t : Seen(x, t) => Seen(x, t)'
    BY <1>1 DEF Seen
  <1>11. ReadingsOK'
    <2>1. PICK m \in [DOMAIN ops -> 0 .. clock] : Readings(m)
      BY DEF EdInv, ReadingsOK
    <2>2. \A i \in DOMAIN ops : m[i] <= clock /\ ops[i].rank \in Nat
      BY <1>2, <2>1, StatesOfOps DEF EdInv
    <2>3. rank \in Nat
      BY <1>3
    <2>4. \A i \in DOMAIN ops, q \in Procs : At(q, "loaded")' =>
             /\ ops[i].rank < ctl'[q].rank => m[i] <= ctl'[q].at
             /\ ctl'[q].rank < ops[i].rank => ctl'[q].at <= m[i]
      <3> SUFFICES ASSUME NEW i \in DOMAIN ops, NEW q \in Procs, At(q, "loaded")'
                   PROVE  /\ ops[i].rank < ctl'[q].rank => m[i] <= ctl'[q].at
                          /\ ctl'[q].rank < ops[i].rank => ctl'[q].at <= m[i]
        OBVIOUS
      <3>1. CASE q = p
        BY <1>3, <1>6, <1>7, <2>2, <2>3, <3>1
      <3>2. CASE q # p
        BY <1>7, <2>1, <3>2 DEF Readings, At
      <3> QED
        BY <3>1, <3>2
    <2>5. Readings(m)'
      BY <1>1, <1>10, <2>1, <2>4 DEF Readings
    <2> QED
      BY <1>1, <2>1, <2>5 DEF ReadingsOK
  <1>12. RanksOK'
    <2>1. \A i, j \in DOMAIN ops : ops[i].rank = ops[j].rank => i = j
      BY DEF EdInv, RanksOK
    <2>2. ASSUME NEW q \in Procs, At(q, "loaded")'
          PROVE  /\ ctl'[q].at <= clock /\ Seen(ctl'[q].mode, ctl'[q].at)
                 /\ \A i \in DOMAIN ops : ops[i].rank # ctl'[q].rank
      <3>1. CASE q = p
        <4>1. \A i \in DOMAIN ops : ops[i].rank \in Nat
          BY StatesOfOps DEF EdInv
        <4> QED
          BY <1>2, <1>3, <1>4, <1>6, <1>7, <3>1, <4>1
      <3>2. CASE q # p
        BY <1>7, <2>2, <3>2 DEF EdInv, RanksOK, At
      <3> QED
        BY <3>1, <3>2
    <2>3. ASSUME NEW q \in Procs, NEW s \in Procs, At(q, "loaded")',
                 At(s, "loaded")', q # s
          PROVE  /\ ctl'[q].rank # ctl'[s].rank
                 /\ ctl'[q].rank < ctl'[s].rank => ctl'[q].at <= ctl'[s].at
      <3>1. \A x \in Procs : At(x, "loaded") =>
               ctl[x].rank \in Nat /\ ctl[x].at \in Nat /\ ctl[x].at <= clock
        BY LoadedIs DEF EdInv, RanksOK
      <3>2. rank \in Nat
        BY <1>3
      <3>3. CASE q = p
        BY <1>3, <1>6, <1>7, <2>3, <3>1, <3>2, <3>3 DEF At
      <3>4. CASE s = p
        BY <1>3, <1>6, <1>7, <2>3, <3>1, <3>2, <3>4 DEF At
      <3>5. CASE q # p /\ s # p
        BY <1>7, <2>3, <3>5 DEF EdInv, RanksOK, At
      <3> QED
        BY <3>3, <3>4, <3>5
    <2> QED
      BY <1>1, <1>10, <2>1, <2>2, <2>3 DEF RanksOK
  <1>13. HolderOK'
    BY <1>1, <1>7, <1>8 DEF EdInv, HolderOK, Mine, At
  <1>14. Facts'
    BY <1>1, EdParts, FactsStand
  <1> QED
    BY <1>9, <1>11, <1>12, <1>13, <1>14 DEF EdInv, Facts

-----------------------------------------------------------------------------
(* A command is admitted.                                                  *)

LEMMA EdAdmits ==
    ASSUME EdInv, NEW p \in Procs, Enter(p), lock' = p
    PROVE  EdInv'
PROOF
  <1> DEFINE L == Len(ops) + 1
             r == [day |-> AsOf(p), mode |-> ctl[p].mode, rank |-> ctl[p].rank,
                   slot |-> Started(ctl[p].at), edition |-> edition,
                   fetch |-> ctl[p].mode # "observe" /\ ~Reuses(p),
                   state |-> "running", reached |-> "none", cause |-> "none",
                   notify |-> FALSE]
             c == [pc |-> "collect", op |-> L, edition |-> edition,
                   last |-> LastSlot(ctl[p].at)]
  <1>1. /\ At(p, "loaded") /\ lock # p
        /\ UNCHANGED <<clock, configured, edition, head, native, orphans>>
    BY LoadedIs DEF Enter, EdInv, operator
  <1>2. /\ lock = Nobody /\ Admitted(p) /\ ops' = Append(ops, r)
        /\ ctl' = [ctl EXCEPT ![p] = c]
    BY <1>1 DEF Enter, Free
  <1>3. /\ ctl[p].at \in Nat /\ ctl[p].mode \in Modes /\ ctl[p].rank \in 1 .. MaxOps
        /\ ctl[p].at <= clock /\ Seen(ctl[p].mode, ctl[p].at)
    BY <1>1, LoadedIs DEF EdInv, RanksOK
  <1>4. /\ ctl \in [Procs -> {Idle} \cup Looking \cup Calling] /\ clock \in Nat
        /\ \A q \in Procs : ctl[q].pc \in Holding <=> lock = q
        /\ edition \in Editions /\ configured \in BOOLEAN /\ ops \in Seq(Records)
        /\ Nobody \notin Procs
    BY EtfDailyAssumption DEF EdInv, EdShape
  <1>5. /\ r.day = AsOf(p) /\ r.mode = ctl[p].mode /\ r.rank = ctl[p].rank
        /\ r.slot = Started(ctl[p].at) /\ r.edition = edition
        /\ (r.fetch <=> ctl[p].mode # "observe" /\ ~Reuses(p))
        /\ r.state = "running" /\ ~r.notify
    OBVIOUS
  <1>6. r \in Records
    <2>1. AsOf(p) \in Days
      BY <1>3, DaysAreNumbers DEF Seen, AsOf
    <2>2. Started(ctl[p].at) \in 0 .. Slots
      BY <1>3, MomentIs
    <2>3. (ctl[p].mode # "observe" /\ ~Reuses(p)) \in BOOLEAN
      OBVIOUS
    <2>4. "running" \in States /\ "none" \in Reached /\ "none" \in Causes
      BY DEF States, Reached, Causes
    <2> QED
      BY <1>3, <1>4, <2>1, <2>2, <2>3, <2>4 DEF Records
  <1>7. /\ c \in Calling /\ c.pc = "collect" /\ c.op = L
    <2>1. L \in Nat /\ LastSlot(ctl[p].at) \in BOOLEAN
      BY <1>4 DEF LastSlot
    <2> QED
      BY <1>4, <2>1 DEF Calling, Holding
  <1> HIDE DEF r, c
  <1>8. /\ ops' \in Seq(Records) /\ Len(ops) \in Nat /\ Len(ops') = L /\ L > 0
        /\ DOMAIN ops = 1 .. Len(ops) /\ DOMAIN ops' = 1 .. L
        /\ ops'[L] = r /\ L \notin DOMAIN ops
        /\ \A i \in DOMAIN ops : ops'[i] = ops[i] /\ i < L /\ i \in Nat
        /\ \A i \in DOMAIN ops' : i \in DOMAIN ops \/ i = L
    BY <1>2, <1>4, <1>6
  <1> HIDE DEF L
  <1>9. /\ ctl'[p] = c /\ \A q \in Procs \ {p} : ctl'[q] = ctl[q]
        /\ ctl' \in [Procs -> {Idle} \cup Looking \cup Calling]
    BY <1>2, <1>4, <1>7
  <1>10. /\ ~At(p, "loaded")'
         /\ \A q \in Procs : At(q, "loaded")' => q # p /\ At(q, "loaded")
    BY <1>7, <1>9 DEF At
  <1>11. EdShape'
    BY <1>1, <1>2, <1>4, <1>7, <1>8, <1>9 DEF EdInv, EdShape, Holding
  <1>12. \A x, t : Seen(x, t) => Seen(x, t)'
    BY <1>1 DEF Seen
  <1>13. PICK m \in [DOMAIN ops -> 0 .. clock] : Readings(m)
    BY DEF EdInv, ReadingsOK
  <1>14. ReadingsOK'
    <2>1. PICK n \in [DOMAIN ops' -> 0 .. clock'] :
             n[L] = ctl[p].at /\ \A i \in DOMAIN ops : n[i] = m[i]
      <3> DEFINE n == [i \in DOMAIN ops' |-> IF i = L THEN ctl[p].at ELSE m[i]]
      <3>1. /\ n \in [DOMAIN ops' -> 0 .. clock'] /\ n[L] = ctl[p].at
            /\ \A i \in DOMAIN ops : n[i] = m[i]
        BY <1>1, <1>3, <1>4, <1>8, <1>13
      <3> QED
        BY <3>1
    <2>2. ASSUME NEW i \in DOMAIN ops'
          PROVE  /\ n[i] \in 0 .. clock' /\ Seen(ops[i].mode, n[i])'
                 /\ ops'[i].day = Expected(n[i]) /\ ops'[i].slot = Started(n[i])
      <3>1. CASE i = L
        BY <1>3, <1>5, <1>8, <1>12, <2>1, <3>1 DEF AsOf
      <3>2. CASE i \in DOMAIN ops
        BY <1>8, <1>12, <1>13, <2>1, <3>2 DEF Readings
      <3> QED
        BY <1>8, <3>1, <3>2
    <2>3. ASSUME NEW i \in DOMAIN ops', NEW j \in DOMAIN ops',
                 ops'[i].rank < ops'[j].rank
          PROVE  n[i] <= n[j]
      <3>1. CASE i \in DOMAIN ops /\ j \in DOMAIN ops
        BY <1>8, <1>13, <2>1, <2>3, <3>1 DEF Readings
      <3>2. CASE i = L /\ j \in DOMAIN ops
        BY <1>1, <1>5, <1>8, <1>13, <2>1, <2>3, <3>2 DEF Readings
      <3>3. CASE i \in DOMAIN ops /\ j = L
        BY <1>1, <1>5, <1>8, <1>13, <2>1, <2>3, <3>3 DEF Readings
      <3>4. CASE i = L /\ j = L
        BY <1>3, <2>1, <3>4
      <3> QED
        BY <1>8, <3>1, <3>2, <3>3, <3>4
    <2>4. ASSUME NEW i \in DOMAIN ops', NEW q \in Procs, At(q, "loaded")'
          PROVE  /\ ops'[i].rank < ctl'[q].rank => n[i] <= ctl'[q].at
                 /\ ctl'[q].rank < ops'[i].rank => ctl'[q].at <= n[i]
      <3>1. q # p /\ At(q, "loaded") /\ ctl'[q] = ctl[q]
        BY <1>9, <1>10, <2>4
      <3>2. CASE i = L
        BY <1>1, <1>5, <1>8, <2>1, <3>1, <3>2 DEF EdInv, RanksOK
      <3>3. CASE i \in DOMAIN ops
        BY <1>8, <1>13, <2>1, <3>1, <3>3 DEF Readings
      <3> QED
        BY <1>8, <3>2, <3>3
    <2>5. Readings(n)'
      BY <2>2, <2>3, <2>4 DEF Readings
    <2> QED
      BY <2>1, <2>5 DEF ReadingsOK
  <1>15. RanksOK'
    <2>1. \A i, j \in DOMAIN ops' : ops'[i].rank = ops'[j].rank => i = j
      BY <1>1, <1>5, <1>8 DEF EdInv, RanksOK
    <2>2. ASSUME NEW q \in Procs, At(q, "loaded")'
          PROVE  /\ ctl'[q].at <= clock' /\ Seen(ctl[q].mode, ctl[q].at)'
                 /\ \A i \in DOMAIN ops' : ops'[i].rank # ctl'[q].rank
                 /\ \A s \in Procs : At(s, "loaded")' /\ q # s =>
                       /\ ctl'[q].rank # ctl'[s].rank
                       /\ ctl'[q].rank < ctl'[s].rank => ctl'[q].at <= ctl'[s].at
      <3>1. q # p /\ At(q, "loaded") /\ ctl'[q] = ctl[q]
        BY <1>9, <1>10, <2>2
      <3>2. \A i \in DOMAIN ops' : ops'[i].rank # ctl'[q].rank
        BY <1>1, <1>5, <1>8, <3>1 DEF EdInv, RanksOK
      <3>3. \A s \in Procs : At(s, "loaded")' => At(s, "loaded") /\ ctl'[s] = ctl[s]
        BY <1>9, <1>10
      <3> QED
        BY <1>1, <1>12, <3>1, <3>2, <3>3 DEF EdInv, RanksOK
    <2> QED
      BY <2>1, <2>2 DEF RanksOK
  <1>16. HolderOK'
    <2> SUFFICES ASSUME NEW q \in Procs, lock' = q
                 PROVE  /\ ctl'[q].op = Len(ops') /\ Len(ops') > 0
                        /\ Mine(q)'.state = "running" /\ ~Mine(q)'.notify
                        /\ ~At(q, "native")' /\ ~At(q, "observe")'
      BY DEF HolderOK
    <2>1. q = p
      OBVIOUS
    <2> QED
      BY <1>5, <1>7, <1>8, <1>9, <2>1 DEF Mine, At
  <1>17. edition = ctl[p].edition /\ ~AlreadyAttempted(p)
    BY <1>2 DEF Admitted, Unchanged
  <1>18. Today(p) \in SUBSET DOMAIN ops
    BY DEF Today, History
  <1>19. EdShape /\ Started(ctl[p].at) \in Nat
    <2>1. Slots \in Nat /\ Started(ctl[p].at) \in 0 .. Slots
      BY <1>3, MomentIs, DaysAreNumbers
    <2> QED
      BY <2>1 DEF EdInv
  <1>20. SlotsFetchOnce'
    <2> SUFFICES ASSUME configured, NEW i \in DOMAIN ops', NEW j \in DOMAIN ops',
                        i < j, ops'[i].edition = ops'[j].edition,
                        ops'[i].day = ops'[j].day, ops'[i].fetch, ops'[j].fetch
                 PROVE  ops'[i].slot < ops'[j].slot
      BY <1>1 DEF SlotsFetchOnce
    <2>1. CASE j \in DOMAIN ops
      <3>1. i \in DOMAIN ops
        BY <1>8, <2>1
      <3> QED
        BY <1>8, <2>1, <3>1 DEF EdInv, SlotsFetchOnce
    <2>2. CASE j = L
      <3>1. i \in DOMAIN ops
        BY <1>8, <2>2
      <3>2. i \in Today(p)
        BY <1>5, <1>8, <1>17, <2>2, <3>1 DEF Today, History
      <3>3. ctl[p].mode # "observe" /\ ~Reuses(p)
        BY <1>5, <1>8, <2>2
      <3>4. MayCollectAgain(p)
        BY <1>17, <3>2, <3>3 DEF AlreadyAttempted
      <3> DEFINE k == Newest(Today(p))
      <3>5. k \in Today(p) /\ ops[i].rank <= ops[k].rank
        BY <1>4, <1>18, <3>2, NewestIs
      <3>6. ops[k].slot < Started(ctl[p].at)
        <4>1. Started(ctl[p].at) > ops[k].slot
          BY <3>4 DEF MayCollectAgain, Later, Previous
        <4>2. ops[k].slot \in Nat /\ Started(ctl[p].at) \in Nat
          BY <1>18, <1>19, <3>5, StatesOfOps
        <4> QED
          BY <4>1, <4>2
      <3> HIDE DEF k
      <3>7. k \in DOMAIN ops /\ ops[k].day = ops[i].day
        BY <3>2, <3>5 DEF Today, History
      <3>8. ops[i].slot <= ops[k].slot
        <4>1. CASE i = k
          BY <3>1, <4>1, StatesOfOps DEF EdInv
        <4>2. CASE i # k
          <5>1. ops[i].rank < ops[k].rank
            BY <3>1, <3>5, <3>7, <4>2, StatesOfOps DEF EdInv, RanksOK
          <5>2. m[i] <= m[k] /\ m[i] \in Nat /\ m[k] \in Nat
            BY <1>4, <1>13, <3>1, <3>7, <5>1 DEF Readings
          <5>3. /\ Seen(ops[i].mode, m[i]) /\ Seen(ops[k].mode, m[k])
                /\ ops[i].day = Expected(m[i]) /\ ops[i].slot = Started(m[i])
                /\ ops[k].day = Expected(m[k]) /\ ops[k].slot = Started(m[k])
                /\ ops[i].mode \in Modes /\ ops[k].mode \in Modes
            BY <1>13, <3>1, <3>7, StatesOfOps DEF Readings, EdInv
          <5> QED
            BY <1>4, <3>7, <5>2, <5>3, ReadingsOfADay
        <4> QED
          BY <4>1, <4>2
      <3>9. ops[i].slot \in Nat /\ ops[k].slot \in Nat
            /\ Started(ctl[p].at) \in Nat
        BY <1>19, <3>1, <3>7, StatesOfOps
      <3> QED
        BY <1>5, <1>8, <2>2, <3>1, <3>6, <3>8, <3>9
    <2> QED
      BY <1>8, <2>1, <2>2
  <1>21. ConflictsStop'
    <2> SUFFICES ASSUME NEW i \in DOMAIN ops', NEW j \in DOMAIN ops',
                        i < j, ops'[i].edition = ops'[j].edition,
                        ops'[i].day = ops'[j].day, ~ByHandBetween(i, j)',
                        ops'[i].mode = "tick", ops'[i].state = "blocked",
                        ~Overtaken(i)', ops'[j].mode = "tick"
                 PROVE  FALSE
      BY DEF ConflictsStop
    <2>1. i \in DOMAIN ops /\ ops'[i] = ops[i]
      BY <1>8
    <2>2. ~Overtaken(i)
      <3> SUFFICES ASSUME NEW k \in DOMAIN ops, ops[k].edition = ops[i].edition,
                          k < i, ops[k].rank > ops[i].rank
                   PROVE  FALSE
        BY <1>4, <2>1, StatesOfOps DEF Overtaken, History, Before, EdInv
      <3>1. k \in DOMAIN ops' /\ ops'[k] = ops[k]
        BY <1>8
      <3>2. ops'[i].rank < ops'[k].rank
        BY <2>1, <3>1, StatesOfOps DEF EdInv
      <3> QED
        BY <2>1, <3>1, <3>2 DEF Overtaken, History, Before
    <2>3. ASSUME NEW k \in DOMAIN ops, i < k, k < j, k # j,
                 ops[k].edition = ops[i].edition
          PROVE  ops[k].mode = "tick"
      BY <1>8, <2>1, <2>3 DEF ByHandBetween, History
    <2>4. ASSUME NEW k \in DOMAIN ops, i < k, k <= j,
                 ops[k].edition = ops[i].edition, ops[k].day = ops[i].day
          PROVE  k = j /\ j = L
      <3>1. k = j \/ k < j
        BY <1>8, <2>4
      <3>2. ops[k].mode = "tick"
        BY <1>8, <2>3, <2>4, <3>1
      <3>3. ~ByHandBetween(i, k)
        <4> SUFFICES ASSUME NEW x \in History(ops[i].edition), i < x, x < k
                     PROVE  ops[x].mode = "tick"
          BY DEF ByHandBetween
        <4>1. x \in DOMAIN ops /\ ops[x].edition = ops[i].edition
          BY DEF History
        <4>2. x < j /\ x # j
          BY <1>8, <2>4, <4>1
        <4> QED
          BY <2>3, <4>1, <4>2
      <3> QED
        BY <2>1, <2>2, <2>4, <3>2, <3>3 DEF EdInv, ConflictsStop
    <2>5. j = L
      BY <1>8, <2>4
    <2>6. i \in Today(p)
      BY <1>5, <1>8, <1>17, <2>1, <2>5 DEF Today, History
    <2>7. ctl[p].mode = "tick"
      BY <1>5, <1>8, <2>5
    <2> DEFINE k == Newest(Today(p))
    <2>8. k \in Today(p) /\ ops[i].rank <= ops[k].rank
      BY <1>4, <1>18, <2>6, NewestIs
    <2>9. Previous(p) = ops[k]
      BY DEF Previous
    <2> HIDE DEF k
    <2>10. k \in DOMAIN ops /\ ops[k].day = ops[i].day
           /\ ops[k].edition = ops[i].edition
      BY <2>6, <2>8 DEF Today, History
    <2>11. k = i
      <3>1. k \in Nat /\ i \in Nat /\ k < L
        BY <1>8, <2>1, <2>10
      <3>2. ~(i < k)
        BY <1>8, <2>4, <2>5, <2>10, <3>1
      <3>3. CASE k < i
        <4>1. ~(ops[i].rank < ops[k].rank)
          BY <2>2, <2>10, <3>3 DEF Overtaken, History, Before
        <4>2. ops[i].rank = ops[k].rank
          BY <2>1, <2>8, <2>10, <4>1, StatesOfOps DEF EdInv
        <4> QED
          BY <2>1, <2>10, <4>2 DEF EdInv, RanksOK
      <3> QED
        BY <3>1, <3>2, <3>3
    <2>12. Previous(p).state = "blocked"
      BY <2>1, <2>9, <2>11
    <2> QED
      BY <1>17, <2>6, <2>7, <2>12 DEF AlreadyAttempted, MayCollectAgain, Reuses
  <1>22. CompletedIsObserved'
    BY <1>1, <1>5, <1>8 DEF EdInv, CompletedIsObserved
  <1>23. CompletionIsTold'
    <2> SUFFICES ASSUME NEW i \in DOMAIN ops', ops'[i].state = "completed"
                 PROVE  \E k \in DOMAIN ops' :
                           /\ ops'[k].edition = ops'[i].edition
                           /\ ops'[k].state = "completed"
                           /\ ops'[k].day = ops'[i].day /\ ops'[k].notify
      BY DEF CompletionIsTold, History
    <2>1. i \in DOMAIN ops
      BY <1>5, <1>8
    <2>2. PICK k \in DOMAIN ops :
             /\ ops[k].edition = ops[i].edition /\ ops[k].state = "completed"
             /\ ops[k].day = ops[i].day /\ ops[k].notify
      BY <1>8, <2>1 DEF EdInv, CompletionIsTold, History
    <2>3. k \in DOMAIN ops' /\ ops'[k] = ops[k] /\ ops'[i] = ops[i]
      BY <1>8, <2>1
    <2> QED
      BY <2>2, <2>3
  <1>24. StateIsTold'
    <2> SUFFICES ASSUME NEW i \in DOMAIN ops', InOrder(ops[i].edition)',
                        ops'[i].state \notin Quiet \cup {"running"}
                 PROVE  \E k \in DOMAIN ops' :
                           /\ ops'[k].edition = ops'[i].edition /\ ops'[k].notify
                           /\ Signature(ops'[k]) = Signature(ops'[i])
                           /\ \A j \in DOMAIN ops' :
                                 (/\ ops'[j].edition = ops'[i].edition
                                  /\ ops'[k].rank < ops'[j].rank
                                  /\ ops'[j].rank < ops'[i].rank)
                                 => Signature(ops'[j]) = Signature(ops'[i])
      BY DEF StateIsTold, History, Before, Signature
    <2>1. i \in DOMAIN ops /\ ops'[i] = ops[i]
      BY <1>5, <1>8
    <2>2. \A x, y \in DOMAIN ops' :
             (/\ ops'[x].edition = ops'[i].edition
              /\ ops'[y].edition = ops'[i].edition /\ x < y)
             => ops'[x].rank < ops'[y].rank
      BY DEF InOrder, History, Before
    <2>3. InOrder(ops[i].edition)
      BY <1>8, <2>1, <2>2 DEF InOrder, History, Before
    <2>4. PICK k \in DOMAIN ops :
             /\ ops[k].edition = ops[i].edition /\ ops[k].notify
             /\ Signature(ops[k]) = Signature(ops[i])
             /\ \A j \in DOMAIN ops :
                   (/\ ops[j].edition = ops[i].edition
                    /\ ops[k].rank < ops[j].rank /\ ops[j].rank < ops[i].rank)
                   => Signature(ops[j]) = Signature(ops[i])
      BY <2>1, <2>3 DEF EdInv, StateIsTold, History, Before
    <2>5. ops'[L].edition = ops[i].edition => ops[i].rank < ops'[L].rank
      BY <1>8, <2>1, <2>2
    <2>6. ops[i].rank \in Nat /\ ops'[L].rank \in Nat
      BY <1>3, <1>5, <1>8, <2>1, StatesOfOps DEF EdInv
    <2>7. ASSUME NEW j \in DOMAIN ops', ops'[j].edition = ops[i].edition,
                 ops[k].rank < ops'[j].rank, ops'[j].rank < ops[i].rank
          PROVE  Signature(ops'[j]) = Signature(ops[i])
      <3>1. j # L
        BY <2>5, <2>6, <2>7
      <3>2. j \in DOMAIN ops /\ ops'[j] = ops[j]
        BY <1>8, <3>1
      <3> QED
        BY <2>4, <2>7, <3>2
    <2>8. k \in DOMAIN ops' /\ ops'[k] = ops[k]
      BY <1>8
    <2> QED
      BY <2>1, <2>4, <2>7, <2>8
  <1> QED
    BY <1>11, <1>14, <1>15, <1>16, <1>20, <1>21, <1>22, <1>23, <1>24 DEF EdInv

-----------------------------------------------------------------------------
(* An operation ends.                                                      *)

LEMMA FinishIs ==
    ASSUME EdInv, NEW p \in Procs, lock = p,
           NEW state \in States, state # "running",
           NEW reached \in Reached, NEW cause \in Causes,
           Finish(p, state, reached, cause)
    PROVE  \E o \in Records, r \in Records :
              /\ ops' = [ops EXCEPT ![Len(ops)] = r]
              /\ lock' = Nobody /\ ctl' = [ctl EXCEPT ![p] = Idle]
              /\ r.day = Mine(p).day /\ r.mode = Mine(p).mode
              /\ r.rank = Mine(p).rank /\ r.slot = Mine(p).slot
              /\ r.edition = Mine(p).edition /\ r.fetch = Mine(p).fetch
              /\ r.state # "running" /\ (r.state = "completed" => state = "completed")
              /\ o.state = r.state /\ o.day = r.day /\ o.edition = r.edition
              /\ Signature(o) = Signature(r) /\ (r.notify <=> Notify(p, o))
PROOF
  <1> DEFINE ended == IF configured /\ ctl[p].last /\ state = "collection_retryable"
                      THEN "collection_exhausted" ELSE state
             o == [Mine(p) EXCEPT !.state = ended, !.reached = reached,
                                  !.cause = cause]
             r == [o EXCEPT !.notify = Notify(p, o)]
  <1>1. Mine(p) \in Records /\ ctl[p].op = Len(ops)
    BY HolderIs
  <1>2. /\ ended \in States /\ ended # "running"
        /\ ended = "completed" => state = "completed"
    BY DEF States
  <1>3. ops' = [ops EXCEPT ![Len(ops)] = r] /\ lock' = Nobody
        /\ ctl' = [ctl EXCEPT ![p] = Idle]
    BY <1>1 DEF Finish
  <1> HIDE DEF ended
  <1>4. /\ o \in Records /\ o.day = Mine(p).day /\ o.mode = Mine(p).mode
        /\ o.rank = Mine(p).rank /\ o.slot = Mine(p).slot /\ o.state = ended
        /\ o.edition = Mine(p).edition /\ o.fetch = Mine(p).fetch
    BY <1>1, <1>2 DEF Records
  <1>5. Notify(p, o) \in BOOLEAN
    BY DEF Notify, NewCompletion, Changed
  <1> HIDE DEF o
  <1> DEFINE n == Notify(p, o)
  <1>6. n \in BOOLEAN /\ r = [o EXCEPT !.notify = n]
    BY <1>5
  <1> HIDE DEF r, n
  <1>7. /\ r \in Records /\ r.day = o.day /\ r.mode = o.mode /\ r.rank = o.rank
        /\ r.slot = o.slot /\ r.edition = o.edition /\ r.fetch = o.fetch
        /\ r.state = o.state /\ r.reached = o.reached /\ r.cause = o.cause
        /\ r.notify = n
    BY <1>4, <1>6 DEF Records
  <1>8. Signature(o) = Signature(r)
    BY <1>7 DEF Signature
  <1>9. r.notify <=> Notify(p, o)
    BY <1>7 DEF n
  <1>10. PICK x \in Records : x = o /\ (r.notify <=> Notify(p, x))
    BY <1>4, <1>9
  <1>11. PICK y \in Records : y = r /\ (y.notify <=> Notify(p, x))
    BY <1>7, <1>10
  <1>12. /\ ops' = [ops EXCEPT ![Len(ops)] = y]
         /\ y.day = Mine(p).day /\ y.mode = Mine(p).mode
         /\ y.rank = Mine(p).rank /\ y.slot = Mine(p).slot
         /\ y.edition = Mine(p).edition /\ y.fetch = Mine(p).fetch
         /\ y.state # "running" /\ (y.state = "completed" => state = "completed")
         /\ x.state = y.state /\ x.day = y.day /\ x.edition = y.edition
         /\ Signature(x) = Signature(y)
    BY <1>2, <1>3, <1>4, <1>7, <1>8, <1>10, <1>11
  <1> QED
    BY <1>3, <1>11, <1>12, Zenon

LEMMA EdFinishes ==
    ASSUME EdInv, NEW p \in Procs, lock = p,
           NEW state \in States, state # "running",
           NEW reached \in Reached, NEW cause \in Causes,
           Finish(p, state, reached, cause),
           UNCHANGED <<clock, operator, orphans>>, head' \in 0 .. Cardinality(Days),
           native' \in [Days -> Natives],
           \A d \in Days : native[d] = "completed" => native'[d] = "completed",
           state = "completed" => native'[Mine(p).day] = "completed"
    PROVE  EdInv'
PROOF
  <1>1. PICK o \in Records, r \in Records :
              /\ ops' = [ops EXCEPT ![Len(ops)] = r]
              /\ lock' = Nobody /\ ctl' = [ctl EXCEPT ![p] = Idle]
              /\ r.day = Mine(p).day /\ r.mode = Mine(p).mode
              /\ r.rank = Mine(p).rank /\ r.slot = Mine(p).slot
              /\ r.edition = Mine(p).edition /\ r.fetch = Mine(p).fetch
              /\ r.state # "running" /\ (r.state = "completed" => state = "completed")
              /\ o.state = r.state /\ o.day = r.day /\ o.edition = r.edition
              /\ Signature(o) = Signature(r) /\ (r.notify <=> Notify(p, o))
    BY FinishIs
  <1>2. PICK L : L = Len(ops)
    OBVIOUS
  <1>3. /\ ops \in Seq(Records) /\ L \in DOMAIN ops /\ Mine(p) = ops[L]
        /\ ops[L].state = "running" /\ ~ops[L].notify /\ ctl[p].op = L
        /\ clock \in Nat /\ configured \in BOOLEAN
    BY <1>2, HolderIs DEF EdInv, EdShape
  <1>4. /\ ops' \in Seq(Records) /\ DOMAIN ops' = DOMAIN ops /\ Len(ops') = L
        /\ DOMAIN ops = 1 .. L /\ L \in Nat /\ ops'[L] = r
        /\ \A i \in DOMAIN ops \ {L} : ops'[i] = ops[i] /\ i < L
    BY <1>1, <1>2, <1>3
  <1>5. \A i \in DOMAIN ops :
           /\ ops'[i].day = ops[i].day /\ ops'[i].mode = ops[i].mode
           /\ ops'[i].rank = ops[i].rank /\ ops'[i].slot = ops[i].slot
           /\ ops'[i].edition = ops[i].edition /\ ops'[i].fetch = ops[i].fetch
    BY <1>1, <1>3, <1>4
  <1>6. /\ ctl \in [Procs -> {Idle} \cup Looking \cup Calling] /\ Nobody \notin Procs
        /\ \A q \in Procs : ctl[q].pc \in Holding <=> lock = q
        /\ Idle.pc \notin Holding /\ Idle.pc # "loaded"
    BY EtfDailyAssumption DEF EdInv, EdShape, Idle, Holding
  <1>7. ctl'[p] = Idle /\ \A q \in Procs \ {p} : ctl'[q] = ctl[q]
    BY <1>1, <1>6
  <1>8. EdShape'
    BY <1>1, <1>4, <1>6, <1>7 DEF EdInv, EdShape, operator
  <1>9. ReadingsOK' /\ RanksOK'
    <2>1. \A q \in Procs : ctl'[q].pc = "loaded" =>
             ctl'[q] = ctl[q] /\ ctl[q].at \in Nat
      BY <1>6, <1>7, LoadedIs DEF EdInv, At
    <2> QED
      BY <1>3, <1>4, <1>5, <2>1, ReadingsStand DEF EdInv, operator
  <1>10. HolderOK'
    BY <1>1, <1>6 DEF HolderOK
  <1>11. SlotsFetchOnce'
    BY <1>4, <1>5 DEF EdInv, SlotsFetchOnce, operator
  <1>12. ConflictsStop'
    <2> SUFFICES ASSUME NEW i \in DOMAIN ops', NEW j \in DOMAIN ops',
                        i < j, ops'[i].edition = ops'[j].edition,
                        ops'[i].day = ops'[j].day, ~ByHandBetween(i, j)',
                        ops'[i].mode = "tick", ops'[i].state = "blocked",
                        ~Overtaken(i)', ops'[j].mode = "tick"
                 PROVE  FALSE
      BY DEF ConflictsStop
    <2>1. i # L /\ i \in DOMAIN ops /\ j \in DOMAIN ops
      BY <1>4
    <2>2. ops'[i] = ops[i]
      BY <1>4, <2>1
    <2>3. ~ByHandBetween(i, j)
      BY <1>4, <1>5, <2>1 DEF ByHandBetween, History
    <2>4. ~Overtaken(i)
      BY <1>4, <1>5, <2>1 DEF Overtaken, History, Before
    <2> QED
      BY <1>5, <2>1, <2>2, <2>3, <2>4 DEF EdInv, ConflictsStop
  <1>13. CompletedIsObserved'
    <2> SUFFICES ASSUME NEW i \in DOMAIN ops', ops'[i].state = "completed"
                 PROVE  native'[ops'[i].day] = "completed"
      BY DEF CompletedIsObserved
    <2>1. CASE i = L
      BY <1>1, <1>4, <2>1
    <2>2. CASE i # L
      <3>1. i \in DOMAIN ops /\ ops'[i] = ops[i] /\ ops[i].day \in Days
        BY <1>4, <2>2, StatesOfOps DEF EdInv
      <3> QED
        BY <3>1 DEF EdInv, CompletedIsObserved
    <2> QED
      BY <2>1, <2>2
  <1>14. \A e : History(e)' = History(e)
    BY <1>4, <1>5 DEF History
  <1>15. CompletionIsTold'
    <2> SUFFICES ASSUME NEW i \in DOMAIN ops', ops'[i].state = "completed"
                 PROVE  \E k \in DOMAIN ops' :
                           /\ ops'[k].edition = ops'[i].edition
                           /\ ops'[k].state = "completed"
                           /\ ops'[k].day = ops'[i].day /\ ops'[k].notify
      BY DEF CompletionIsTold, History
    <2>1. ASSUME NEW x \in DOMAIN ops, x # L, ops[x].state = "completed",
                 ops[x].edition = ops'[i].edition, ops[x].day = ops'[i].day
          PROVE  \E k \in DOMAIN ops' :
                    /\ ops'[k].edition = ops'[i].edition
                    /\ ops'[k].state = "completed"
                    /\ ops'[k].day = ops'[i].day /\ ops'[k].notify
      <3>1. PICK k \in DOMAIN ops :
               /\ ops[k].edition = ops[x].edition /\ ops[k].state = "completed"
               /\ ops[k].day = ops[x].day /\ ops[k].notify
        BY <2>1 DEF EdInv, CompletionIsTold, History
      <3>2. k # L
        BY <1>3, <3>1
      <3> QED
        BY <1>4, <2>1, <3>1, <3>2
    <2>2. CASE i # L
      BY <1>4, <2>1, <2>2
    <2>3. CASE i = L
      <3>1. CASE r.notify
        BY <1>1, <1>4, <2>3, <3>1
      <3>2. CASE ~r.notify
        <4>1. ~NewCompletion(p, o)
          BY <1>1, <3>2 DEF Notify
        <4>2. PICK x \in History(o.edition) \ {L} :
                 ops[x].state = "completed" /\ ops[x].day = o.day
          BY <1>1, <1>3, <1>4, <2>3, <4>1 DEF NewCompletion
        <4>3. x \in DOMAIN ops /\ x # L /\ ops[x].edition = o.edition
          BY <4>2 DEF History
        <4> QED
          BY <1>1, <1>4, <2>1, <2>3, <4>2, <4>3
      <3> QED
        BY <3>1, <3>2
    <2> QED
      BY <2>2, <2>3
  <1>16. StateIsTold'
    <2> SUFFICES ASSUME NEW i \in DOMAIN ops', InOrder(ops[i].edition)',
                        ops'[i].state \notin Quiet \cup {"running"}
                 PROVE  \E k \in DOMAIN ops' :
                           /\ ops'[k].edition = ops'[i].edition /\ ops'[k].notify
                           /\ Signature(ops'[k]) = Signature(ops'[i])
                           /\ \A j \in DOMAIN ops' :
                                 (/\ ops'[j].edition = ops'[i].edition
                                  /\ ops'[k].rank < ops'[j].rank
                                  /\ ops'[j].rank < ops'[i].rank)
                                 => Signature(ops'[j]) = Signature(ops'[i])
      BY DEF StateIsTold, History, Before, Signature
    <2>1. PICK e : e = ops[i].edition /\ e = ops'[i].edition
      BY <1>4, <1>5
    <2>2. \A x, y \in DOMAIN ops :
             (ops[x].edition = e /\ ops[y].edition = e /\ x < y)
             => ops[x].rank < ops[y].rank
      BY <1>4, <1>5, <2>1 DEF InOrder, History, Before
    <2>3. \A x \in DOMAIN ops : ops[x].rank \in Nat
      BY StatesOfOps DEF EdInv
    \* What is told of another record holds with this one behind it.
    <2>4. ASSUME NEW x \in DOMAIN ops, x # L, ops[x].edition = e,
                 ops[x].state \notin Quiet \cup {"running"}
          PROVE  \E k \in DOMAIN ops' :
                    /\ k # L /\ ops'[k].edition = e /\ ops'[k].notify
                    /\ Signature(ops'[k]) = Signature(ops[x])
                    /\ \A j \in DOMAIN ops' :
                          (/\ ops'[j].edition = e /\ ops'[k].rank < ops'[j].rank
                           /\ ops'[j].rank < ops[x].rank)
                          => Signature(ops'[j]) = Signature(ops[x])
      <3>1. InOrder(ops[x].edition)
        BY <2>2, <2>4 DEF InOrder, History, Before
      <3>2. PICK k \in DOMAIN ops :
               /\ ops[k].edition = e /\ ops[k].notify
               /\ Signature(ops[k]) = Signature(ops[x])
               /\ \A j \in DOMAIN ops :
                     (/\ ops[j].edition = e /\ ops[k].rank < ops[j].rank
                      /\ ops[j].rank < ops[x].rank)
                     => Signature(ops[j]) = Signature(ops[x])
        BY <2>4, <3>1 DEF EdInv, StateIsTold, History, Before
      <3>3. k # L
        BY <1>3, <3>2
      <3>4. ASSUME NEW j \in DOMAIN ops', ops'[j].edition = e,
                   ops'[k].rank < ops'[j].rank, ops'[j].rank < ops[x].rank
            PROVE  Signature(ops'[j]) = Signature(ops[x])
        <4>1. j \in DOMAIN ops /\ ops[j].edition = e
              /\ ops[k].rank < ops[j].rank /\ ops[j].rank < ops[x].rank
          BY <1>4, <1>5, <3>3, <3>4
        <4>2. j # L
          <5>1. x < L
            BY <1>4, <2>4
          <5>2. ops[L].edition = e => ops[x].rank < ops[L].rank
            BY <1>3, <2>2, <2>4, <5>1
          <5> QED
            BY <1>3, <2>3, <2>4, <4>1, <5>2
        <4> QED
          BY <1>4, <3>2, <4>1, <4>2
      <3> QED
        BY <1>4, <1>5, <3>2, <3>3, <3>4
    <2>5. CASE i # L
      <3>1. i \in DOMAIN ops /\ ops'[i] = ops[i]
        BY <1>4, <2>5
      <3> QED
        BY <2>1, <2>4, <2>5, <3>1
    <2>6. CASE i = L /\ r.notify
      <3>1. ASSUME NEW j \in DOMAIN ops', ops'[i].rank < ops'[j].rank,
                   ops'[j].rank < ops'[i].rank
            PROVE  FALSE
        BY <1>4, <1>5, <2>3, <3>1
      <3> QED
        BY <1>4, <2>6, <3>1
    <2>7. CASE i = L /\ ~r.notify
      <3> DEFINE rest == History(o.edition) \ {L}
                 x == Newest(rest)
      <3>1. e = o.edition /\ r.state \notin Quiet \cup {"running"}
        BY <1>1, <1>4, <2>1, <2>7
      <3>2. rest # {} /\ ~Changed(ops[x], o)
        BY <1>1, <1>3, <2>7, <3>1 DEF Notify
      <3>3. rest \in SUBSET DOMAIN ops
        BY DEF History
      <3>4. x \in rest /\ \A j \in rest : ops[j].rank <= ops[x].rank
        BY <1>3, <3>2, <3>3, NewestIs
      <3>5. Signature(ops[x]) = Signature(r)
        BY <1>1, <3>2 DEF Changed
      <3> HIDE DEF x
      <3>6. x \in DOMAIN ops /\ x # L /\ ops[x].edition = e
        BY <3>1, <3>4 DEF History
      <3>7. ops[x].state = r.state
        BY <3>5 DEF Signature
      <3>8. PICK k \in DOMAIN ops' :
               /\ k # L /\ ops'[k].edition = e /\ ops'[k].notify
               /\ Signature(ops'[k]) = Signature(ops[x])
               /\ \A j \in DOMAIN ops' :
                     (/\ ops'[j].edition = e /\ ops'[k].rank < ops'[j].rank
                      /\ ops'[j].rank < ops[x].rank)
                     => Signature(ops'[j]) = Signature(ops[x])
        BY <2>4, <3>1, <3>6, <3>7
      <3>9. ASSUME NEW j \in DOMAIN ops', ops'[j].edition = e,
                   ops'[k].rank < ops'[j].rank, ops'[j].rank < ops'[L].rank
            PROVE  Signature(ops'[j]) = Signature(r)
        <4>1. j # L /\ j \in DOMAIN ops /\ ops[j].edition = e
              /\ ops'[j] = ops[j] /\ ops[j].rank \in Nat /\ ops[x].rank \in Nat
          BY <1>4, <1>5, <2>3, <3>6, <3>9
        <4>2. j \in rest
          BY <3>1, <4>1 DEF History
        <4>3. ops[j].rank <= ops[x].rank
          BY <3>4, <4>2
        <4>4. CASE ops[j].rank < ops[x].rank
          BY <3>5, <3>8, <3>9, <4>1, <4>4
        <4>5. CASE ops[j].rank = ops[x].rank
          <5>1. j = x
            BY <3>6, <4>1, <4>5 DEF EdInv, RanksOK
          <5> QED
            BY <3>5, <4>1, <5>1
        <4> QED
          BY <4>1, <4>3, <4>4, <4>5
      <3>10. Signature(ops'[k]) = Signature(r)
        BY <3>5, <3>8
      <3> QED
        BY <1>4, <2>1, <2>7, <3>8, <3>9, <3>10
    <2> QED
      BY <2>5, <2>6, <2>7
  <1> QED
    BY <1>8, <1>9, <1>10, <1>11, <1>12, <1>13, <1>15, <1>16 DEF EdInv

-----------------------------------------------------------------------------
(* Every step keeps the invariant.                                         *)

LEMMA HeadIs ==
    ASSUME EdInv, NEW p \in Procs, lock = p, NEW b \in BOOLEAN,
           head' \in {head} \cup (IF b THEN {Mine(p).day} ELSE {})
    PROVE  head' \in 0 .. Cardinality(Days)
PROOF
  <1>1. Mine(p).day \in Days
    BY HolderIs DEF Records
  <1> QED
    BY <1>1, DaysAreNumbers DEF EdInv, EdShape

LEMMA Holds ==
    ASSUME EdInv, NEW p \in Procs, NEW w \in Holding, At(p, w)
    PROVE  lock = p
BY DEF EdInv, EdShape, At

LEMMA EdWorld ==
    ASSUME EdInv, TickClock \/ Edit \/ \E d \in Days : OrphanEnds(d)
    PROVE  EdInv'
PROOF
  <1>1. clock \in Nat /\ edition \in Editions /\ head \in 0 .. Cardinality(Days)
        /\ orphans \subseteq Days
    BY DEF EdInv, EdShape
  <1>2. CASE TickClock
    BY <1>1, <1>2, EdQuiet DEF TickClock, operator
  <1>3. CASE Edit
    BY <1>1, <1>3, EdQuiet DEF Edit
  <1>4. CASE \E d \in Days : OrphanEnds(d)
    <2>1. PICK d \in Days : OrphanEnds(d)
      BY <1>4
    <2>2. head' \in 0 .. Cardinality(Days) /\ orphans' \subseteq Days
      BY <1>1, <2>1, DaysAreNumbers DEF OrphanEnds
    <2> QED
      BY <1>1, <2>1, <2>2, EdQuiet DEF OrphanEnds, operator
  <1> QED
    BY <1>2, <1>3, <1>4

LEMMA EdEnters ==
    ASSUME EdInv, NEW p \in Procs, Enter(p)
    PROVE  EdInv'
PROOF
  <1>1. At(p, "loaded") /\ lock # p
    BY LoadedIs DEF Enter, EdInv
  <1>2. CASE lock' = p
    BY <1>2, EdAdmits
  <1>3. CASE lock' # p
    BY <1>1, <1>3, EdLeaves DEF Enter, EdInv, EdShape
  <1> QED
    BY <1>2, <1>3

LEMMA EdCrashes ==
    ASSUME EdInv, NEW p \in Procs, Crash(p)
    PROVE  EdInv'
PROOF
  <1>1. Mine(p).day \in Days /\ orphans \subseteq Days
    BY HolderIs DEF Crash, Records, EdInv, EdShape
  <1>2. orphans' \subseteq Days
    BY <1>1 DEF Crash
  <1> QED
    BY <1>2, EdLeaves DEF Crash

LEMMA EdCollects ==
    ASSUME EdInv, NEW p \in Procs, Collected(p)
    PROVE  EdInv'
PROOF
  <1>1. lock = p
    BY Holds DEF Collected, Holding
  <1>2. Mine(p).fetch \in BOOLEAN
    BY <1>1, HolderIs DEF Records
  <1>3. head' \in 0 .. Cardinality(Days)
    BY <1>1, <1>2, HeadIs DEF Collected
  <1> QED
    BY <1>1, <1>3, EdGoes DEF Collected, Holding, EdInv, EdShape

LEMMA EdCollectFails ==
    ASSUME EdInv, NEW p \in Procs, NEW f \in Failures, CollectFails(p, f)
    PROVE  EdInv'
PROOF
  <1>1. lock = p
    BY Holds DEF CollectFails, Holding
  <1>2. (Mine(p).fetch /\ f.stage = "collection") \in BOOLEAN
    OBVIOUS
  <1>3. head' \in 0 .. Cardinality(Days)
    BY <1>1, <1>2, HeadIs DEF CollectFails
  <1>4. f.stage \in Reached /\ f.cause \in Causes
    BY DEF Failures, Reached, Causes
  <1>5. PICK s \in {"collection_retryable", "blocked"} :
           Finish(p, s, f.stage, f.cause)
    BY DEF CollectFails
  <1>6. s \in States /\ s # "running" /\ s # "completed"
    BY DEF States
  <1> QED
    BY <1>1, <1>3, <1>4, <1>5, <1>6, EdFinishes
       DEF CollectFails, EdInv, EdShape

LEMMA EdOverBudget ==
    ASSUME EdInv, NEW p \in Procs, BudgetOver(p)
    PROVE  EdInv'
PROOF
  <1>1. lock = p
    BY Holds DEF BudgetOver, Holding
  <1>2. Mine(p).fetch \in BOOLEAN
    BY <1>1, HolderIs DEF Records
  <1>3. head' \in 0 .. Cardinality(Days)
    BY <1>1, <1>2, HeadIs DEF BudgetOver
  <1>4. PICK stage \in {"worker_start", "master_refresh", "collection"},
             s \in {"collection_retryable", "blocked"} :
           Finish(p, s, stage, "timeout")
    BY DEF BudgetOver
  <1>5. s \in States /\ s # "running" /\ s # "completed" /\ stage \in Reached
        /\ "timeout" \in Causes
    BY DEF States, Reached, Causes
  <1> QED
    BY <1>1, <1>3, <1>4, <1>5, EdFinishes DEF BudgetOver, EdInv, EdShape

LEMMA EdChecks ==
    ASSUME EdInv, NEW p \in Procs, Check(p)
    PROVE  EdInv'
PROOF
  <1>1. lock = p
    BY Holds DEF Check, Holding
  <1>2. UNCHANGED <<clock, operator, head, native, orphans>>
        /\ head \in 0 .. Cardinality(Days) /\ native \in [Days -> Natives]
    BY DEF Check, EdInv, EdShape
  <1>3. \/ Goto(p, "assess")
        \/ \E s \in {"collection_retryable", "blocked", "preflight_blocked",
                     "research_ready", "candidate_required"},
              r \in {"collection", "preflight"},
              c \in {"data_missing", "conflict", "none", "identity"} :
                 Finish(p, s, r, c)
    BY DEF Check, Block
  <1>4. CASE Goto(p, "assess")
    BY <1>1, <1>2, <1>4, EdGoes DEF Holding
  <1>5. ASSUME NEW s \in {"collection_retryable", "blocked", "preflight_blocked",
                          "research_ready", "candidate_required"},
               NEW r \in {"collection", "preflight"},
               NEW c \in {"data_missing", "conflict", "none", "identity"},
               Finish(p, s, r, c)
        PROVE  EdInv'
    <2>1. s \in States /\ s # "running" /\ s # "completed" /\ r \in Reached
          /\ c \in Causes
      BY DEF States, Reached, Causes
    <2> QED
      BY <1>1, <1>2, <1>5, <2>1, EdFinishes
  <1> QED
    BY <1>3, <1>4, <1>5

LEMMA EdAssesses ==
    ASSUME EdInv, NEW p \in Procs, Assess(p)
    PROVE  EdInv'
PROOF
  <1>1. lock = p
    BY Holds DEF Assess, Holding
  <1>2. UNCHANGED <<clock, operator, head, native, orphans>>
        /\ head \in 0 .. Cardinality(Days) /\ native \in [Days -> Natives]
    BY DEF Assess, EdInv, EdShape
  <1>3. Mine(p).day \in Days /\ native[Mine(p).day] \in Natives
    BY <1>1, <1>2, HolderIs DEF Records
  <1>4. \/ native[Mine(p).day] = "none" /\ Plan(Mine(p).day) = "ready"
        \/ native[Mine(p).day] = "completed" /\ Plan(Mine(p).day) = "completed"
        \/ native[Mine(p).day] = "running" /\ Plan(Mine(p).day) = "interrupted"
        \/ native[Mine(p).day] = "failed" /\ Plan(Mine(p).day) = "retryable_failure"
    BY <1>3 DEF Natives, Plan
  <1>5. CASE Plan(Mine(p).day) \in Allowed(Mine(p).mode) /\ Goto(p, "observe")
    <2>1. Mine(p).mode = "tick" => native[Mine(p).day] \in {"none", "completed"}
      BY <1>4, <1>5 DEF Allowed
    <2> QED
      BY <1>1, <1>2, <1>5, <2>1, EdGoes DEF Holding
  <1>6. ASSUME NEW s \in {"refused", "blocked", "interrupted", "retryable_failure"},
               NEW c \in {"none", "identity"}, Finish(p, s, "frozen_identity", c)
        PROVE  EdInv'
    <2>1. s \in States /\ s # "running" /\ s # "completed"
          /\ "frozen_identity" \in Reached /\ c \in Causes
      BY DEF States, Reached, Causes
    <2> QED
      BY <1>1, <1>2, <1>6, <2>1, EdFinishes
  <1>7. \/ Plan(Mine(p).day) \in Allowed(Mine(p).mode) /\ Goto(p, "observe")
        \/ \E s \in {"refused", "blocked", "interrupted", "retryable_failure"},
              c \in {"none", "identity"} : Finish(p, s, "frozen_identity", c)
    BY <1>4 DEF Assess, Block, Allowed
  <1> QED
    BY <1>5, <1>6, <1>7

LEMMA EdNative ==
    ASSUME EdInv, NEW p \in Procs, NEW n \in {"running", "completed", "failed"},
           lock = p, native' = [native EXCEPT ![Mine(p).day] = n]
    PROVE  /\ native' \in [Days -> Natives] /\ native'[Mine(p).day] = n
           /\ (native[Mine(p).day] # "completed" \/ n = "completed") =>
                 \A d \in Days : native[d] = "completed" => native'[d] = "completed"
PROOF
  <1>1. Mine(p).day \in Days
    BY HolderIs DEF Records
  <1>2. native \in [Days -> Natives]
    BY DEF EdInv, EdShape
  <1> QED
    BY <1>1, <1>2 DEF Natives

LEMMA EdBegins ==
    ASSUME EdInv, NEW p \in Procs, NativeBegin(p)
    PROVE  EdInv'
PROOF
  <1>1. lock = p
    BY Holds DEF NativeBegin, Holding
  <1>2. /\ native' \in [Days -> Natives] /\ native'[Mine(p).day] = "running"
        /\ \A d \in Days : native[d] = "completed" => native'[d] = "completed"
    BY <1>1, EdNative DEF NativeBegin
  <1> QED
    BY <1>1, <1>2, EdGoes DEF NativeBegin, Holding, EdInv, EdShape

LEMMA EdCommits ==
    ASSUME EdInv, NEW p \in Procs, NativeCommit(p)
    PROVE  EdInv'
PROOF
  <1>1. lock = p
    BY Holds DEF NativeCommit, Holding
  <1>2. /\ native' \in [Days -> Natives] /\ native'[Mine(p).day] = "completed"
        /\ \A d \in Days : native[d] = "completed" => native'[d] = "completed"
    BY <1>1, EdNative DEF NativeCommit
  <1> QED
    BY <1>1, <1>2, EdGoes DEF NativeCommit, Holding, EdInv, EdShape

LEMMA EdFails ==
    ASSUME EdInv, NEW p \in Procs, NativeFail(p)
    PROVE  EdInv'
PROOF
  <1>1. lock = p
    BY Holds DEF NativeFail, Holding
  <1>2. native[Mine(p).day] # "completed"
    BY <1>1 DEF NativeFail, EdInv, HolderOK
  <1>3. /\ native' \in [Days -> Natives]
        /\ \A d \in Days : native[d] = "completed" => native'[d] = "completed"
    BY <1>1, <1>2, EdNative DEF NativeFail
  <1>4. "execution_failed" \in States /\ "observe" \in Reached /\ "native" \in Causes
    BY DEF States, Reached, Causes
  <1> QED
    BY <1>1, <1>3, <1>4, EdFinishes DEF NativeFail, EdInv, EdShape

LEMMA EdAnswers ==
    ASSUME EdInv, NEW p \in Procs, NativeAnswers(p)
    PROVE  EdInv'
PROOF
  <1>1. lock = p
    BY Holds DEF NativeAnswers, Holding
  <1>2. UNCHANGED <<clock, operator, head, native, orphans>>
        /\ head \in 0 .. Cardinality(Days) /\ native \in [Days -> Natives]
    BY DEF NativeAnswers, EdInv, EdShape
  <1>3. CASE native[Mine(p).day] = "completed"
             /\ Finish(p, "completed", "verify", "none")
    <2>1. "completed" \in States /\ "verify" \in Reached /\ "none" \in Causes
      BY DEF States, Reached, Causes
    <2> QED
      BY <1>1, <1>2, <1>3, <2>1, EdFinishes
  <1>4. CASE Finish(p, "execution_failed", "observe", "native")
    <2>1. "execution_failed" \in States /\ "observe" \in Reached
          /\ "native" \in Causes
      BY DEF States, Reached, Causes
    <2> QED
      BY <1>1, <1>2, <1>4, <2>1, EdFinishes
  <1> QED
    BY <1>3, <1>4 DEF NativeAnswers

LEMMA EdKeeps == EdInv /\ [Next]_vars => EdInv'
PROOF
  <1> SUFFICES ASSUME EdInv, [Next]_vars
               PROVE  EdInv'
    OBVIOUS
  <1>1. CASE TickClock \/ Edit \/ \E d \in Days : OrphanEnds(d)
    BY <1>1, EdWorld
  <1>2. CASE \E p \in Procs, mode \in Modes : Look(p, mode)
    BY <1>2, EdLooks
  <1>3. CASE \E p \in Procs : Step(p)
    BY <1>3, EdEnters, EdOverBudget, EdChecks, EdAssesses, EdBegins, EdCommits,
       EdFails, EdAnswers DEF Step
  <1>4. CASE \E p \in Procs : Crash(p)
    BY <1>4, EdCrashes
  <1>5. CASE \E p \in Procs : Collected(p)
    BY <1>5, EdCollects
  <1>6. CASE \E p \in Procs, f \in Failures : CollectFails(p, f)
    BY <1>6, EdCollectFails
  <1>7. CASE UNCHANGED vars
    BY <1>7, EdQuiet DEF vars, operator, EdInv, EdShape
  <1> QED
    BY <1>1, <1>2, <1>3, <1>4, <1>5, <1>6, <1>7 DEF Next

LEMMA EdInvariant == Spec => []EdInv
PROOF
  <1> QED
    BY EdStarts, EdKeeps, PTL DEF Spec
-----------------------------------------------------------------------------
(* What is guaranteed.                                                     *)

\* Under a schedule no slot of a day fetches twice (SlotsFetchOnce), whatever
\* the clock readings of the commands, and however they overtake each other
\* (run: today, slot).
THEOREM NoSlotFetchesTwice == Spec => []SlotsFetchOnce
PROOF
  <1>1. EdInv => SlotsFetchOnce
    BY DEF EdInv
  <1> QED
    BY <1>1, EdInvariant, PTL

\* What the operator is told is true and complete (OperatorIsTold): the type
\* invariant, a completion stands on a committed observation, and every failure
\* and completion is notified (_publish, _notification).
THEOREM TheOperatorIsTold == Spec => []OperatorIsTold
PROOF
  <1>1. ASSUME EdInv
        PROVE  TypeOK
    <2>1. \A i \in DOMAIN ops :
             ops[i].day \in Days /\ ops[i].slot \in 0 .. Slots
             /\ ops[i].state \in States
      BY <1>1, StatesOfOps DEF EdInv
    <2> QED
      BY <1>1, <2>1 DEF TypeOK, EdInv, EdShape, RanksOK, Holding, Natives
  <1>2. EdInv => OperatorIsTold
    BY <1>1 DEF OperatorIsTold, EdInv
  <1> QED
    BY <1>2, EdInvariant, PTL

\* An execution is begun by one step only.
LEMMA OnlyBegins ==
    ASSUME EdInv, [Next]_vars, NEW p \in Procs, At(p, "observe"),
           ctl'[p].pc = "native"
    PROVE  NativeBegin(p)
PROOF
  <1>1. /\ ctl \in [Procs -> {Idle} \cup Looking \cup Calling] /\ ctl[p].pc = "observe"
        /\ Idle.pc = "idle"
    BY DEF EdInv, EdShape, At, Idle
  <1>2. ~UNCHANGED ctl
    BY <1>1
  <1>3. ASSUME NEW q \in Procs, NEW s, NEW r, NEW c, Finish(q, s, r, c)
        PROVE  FALSE
    BY <1>1, <1>3 DEF Finish
  <1>4. ASSUME NEW q \in Procs, NEW w, Goto(q, w)
        PROVE  q = p /\ w = "native"
    <2>1. q = p
      BY <1>1, <1>4 DEF Goto
    <2>2. ctl[p] \in Calling
      BY <1>1 DEF Idle, Looking
    <2>3. ctl'[p].pc = w
      BY <1>1, <1>4, <2>1, <2>2 DEF Goto, Calling
    <2> QED
      BY <2>1, <2>3
  <1>5. ~(TickClock \/ Edit \/ \E d \in Days : OrphanEnds(d))
    BY <1>2 DEF TickClock, Edit, OrphanEnds
  <1>6. ~(\E q \in Procs, mode \in Modes : Look(q, mode))
    BY <1>1 DEF Look, At
  <1>7. ~(\E q \in Procs : Enter(q))
    <2> SUFFICES ASSUME NEW q \in Procs, Enter(q) PROVE FALSE
      OBVIOUS
    <2>1. At(q, "loaded")
      BY DEF Enter
    <2>2. q # p
      BY <1>1, <2>1 DEF At
    <2> QED
      BY <1>1, <2>2 DEF Enter
  <1>8. ~(\E q \in Procs : Crash(q) \/ Collected(q))
    <2> SUFFICES ASSUME NEW q \in Procs, Crash(q) \/ Collected(q) PROVE FALSE
      OBVIOUS
    <2>1. CASE Crash(q)
      BY <1>1, <2>1 DEF Crash
    <2>2. CASE Collected(q)
      BY <1>4, <2>2 DEF Collected
    <2> QED
      BY <2>1, <2>2
  <1>9. ~(\E q \in Procs, f \in Failures : CollectFails(q, f))
    BY <1>3 DEF CollectFails
  <1>10. ~(\E q \in Procs : BudgetOver(q))
    BY <1>3 DEF BudgetOver
  <1>11. ~(\E q \in Procs : Check(q))
    BY <1>3, <1>4 DEF Check, Block
  <1>12. ~(\E q \in Procs : Assess(q))
    BY <1>3, <1>4 DEF Assess, Block
  <1>13. ~(\E q \in Procs : NativeCommit(q))
    BY <1>4 DEF NativeCommit
  <1>14. ~(\E q \in Procs : NativeFail(q) \/ NativeAnswers(q))
    BY <1>3 DEF NativeFail, NativeAnswers
  <1>15. PICK q \in Procs : NativeBegin(q)
    BY <1>2, <1>5, <1>6, <1>7, <1>8, <1>9, <1>10, <1>11, <1>12, <1>13, <1>14
       DEF Next, Step, vars
  <1>16. q = p
    BY <1>4, <1>15 DEF NativeBegin
  <1> QED
    BY <1>15, <1>16

\* Only the operator's own command is followed up after a conflict, and takes
\* up an execution that died (OnlyByHand: run, forward_daily.assess).
THEOREM TheTimerStops == Spec => OnlyByHand
PROOF
  <1>1. EdInv => ConflictsStop
    BY DEF EdInv
  <1>2. ASSUME EdInv, [Next]_vars, NEW p \in Procs, At(p, "observe"),
               ctl'[p].pc = "native", Mine(p).mode = "tick"
        PROVE  native[Mine(p).day] = "none"
    <2>1. lock = p
      BY <1>2, Holds DEF Holding
    <2>2. native[Mine(p).day] \in {"none", "completed"}
      BY <1>2, <2>1 DEF EdInv, HolderOK
    <2>3. native[Mine(p).day] # "completed"
      BY <1>2, OnlyBegins DEF NativeBegin
    <2> QED
      BY <2>2, <2>3
  <1>3. EdInv /\ [Next]_vars =>
           [\A p \in Procs :
               At(p, "observe") /\ ctl'[p].pc = "native" /\ Mine(p).mode = "tick" =>
                  native[Mine(p).day] = "none"]_vars
    BY <1>2
  <1>4. Spec => RecoveryIsExplicit
    BY <1>3, EdInvariant, PTL DEF Spec, RecoveryIsExplicit
  <1> QED
    BY <1>1, <1>4, EdInvariant, PTL DEF OnlyByHand
=============================================================================
