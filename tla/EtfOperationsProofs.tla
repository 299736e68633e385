------------------------ MODULE EtfOperationsProofs ------------------------
(***************************************************************************)
(* The operations controller keeps orphans out, keeps its records true and *)
(* does what its previews announce, for any number of controllers, windows *)
(* and crashes.  What makes it so is that a worker which was ever marked   *)
(* belongs to the newest operation, and that nobody starts another while   *)
(* it lives.  Then what classify() promises of every chain of exceptions.  *)
(***************************************************************************)
EXTENDS EtfOperations, EtfEvidence, FiniteSetTheorems, WellFoundedInduction,
        TLAPS

-----------------------------------------------------------------------------
(* What stands while any number of controllers and orphans come and go.    *)

Tasks == {"collect", "prepare", "execute"}
Actions == {"tick", "retry", "resume", "reconcile"}
Recoveries == {"retry", "resume", "reconcile"}
Reading == {"admitted", "judged"}
Busy == {"keep", "resolve", "launch", "spawned", "marked", "waiting"}
WithChild == {"spawned", "marked", "waiting"}
Working == {"working", "planned", "native", "finishing"}
WorkerPoints == Working \cup {"started", "requested", "exited"}
Results == {"none", "collected", "temporary", "delay", "ready", "unready",
            "failed", "completed"}

Operation == [day : Days, slot : 1 .. Slots, state : OpStates,
              trigger : Triggers, action : Actions, forward : BOOLEAN,
              credit : BOOLEAN, previous : Nat, resolved : Nat]
PlanRow == [op : Nat \ {0}, row : Operation,
            action : Recoveries \cup {"pending"}, at : Nat,
            binding : [latest : Operation \cup {NoPlan}, enabled : BOOLEAN,
                       account : [Days -> NativeStates],
                       data : SUBSET Days, expected : Nat]]
ReadingRow == [pc : Reading, trigger : Triggers, shown : PlanRow \cup {NoPlan},
               previous : Nat, due : BOOLEAN, day : Nat, slot : 0 .. Slots,
               last : BOOLEAN]
BusyRow == [pc : Busy, op : Nat, last : BOOLEAN, task : Tasks]
WorkerRow == [op : Nat, task : Tasks, day : Days, owner : Procs \cup {Nobody},
              pc : WorkerPoints, launcher : BOOLEAN, own : BOOLEAN,
              slipped : BOOLEAN, fresh : BOOLEAN, result : Results]

Rows ==
    /\ clock \in Nat /\ Day(clock) >= 1
    /\ enabled \in BOOLEAN /\ switches \in 0 .. MaxSwitches
    /\ health \in Healths /\ torn \in BOOLEAN /\ elsewhere \in {0} \cup Days
    /\ native \in [Days -> NativeStates] /\ observer \in [Days -> Nat]
    /\ data \subseteq Days
    /\ ops \in Seq(Operation) /\ Len(ops) <= MaxOps
    /\ lock \in Procs \cup {Nobody}
    /\ ctl \in [Procs -> {Idle} \cup ReadingRow \cup BusyRow]
    /\ workers \subseteq WorkerRow
    /\ plan \in PlanRow \cup {NoPlan} /\ plan.op <= Len(ops)

\* The admission is held by the controller at work, and by nobody else.
HeldByTheBusy == \A p \in Procs : lock = p <=> ctl[p] # Idle

\* The window a controller read at its admission has begun, and no operation
\* is of a later one.
WindowRead(c) ==
    /\ c.day \in Sessions /\ c.slot \in 1 .. Slots
    /\ c.day <= Day(clock)
    /\ c.day = Day(clock) => c.slot <= Started(clock)
    /\ \A i \in DOMAIN ops :
          /\ ops[i].day <= c.day
          /\ ops[i].day = c.day => ops[i].slot <= c.slot /\ c.previous # 0

\* What it was shown speaks of that reading.
ShownRead(c) ==
    /\ c.shown.op \in DOMAIN ops /\ c.shown.action \in Recoveries
    /\ c.shown.binding.latest = ops[Len(ops)]
    /\ c.shown.binding.expected = c.day

\* What it decided is so for as long as it holds the admission.
Judged(c) ==
    /\ c.due \/ c.previous # 0
    /\ c.shown = NoPlan /\ c.previous # 0 =>
          ops[Len(ops)].state \in Retryable /\ ops[Len(ops)].slot < c.slot
    /\ c.shown # NoPlan =>
          /\ c.previous # 0
          /\ c.shown.action \in {"resume", "reconcile"} <=> ops[Len(ops)].forward
          /\ c.shown.action = "retry" => ops[Len(ops)].slot < c.slot
          /\ c.shown.action = "reconcile" => native[c.day] = "completed"

ReadingOK(c) ==
    /\ Len(ops) < MaxOps
    /\ c.previous \in {0, Len(ops)}
    /\ c.previous # 0 => ops[Len(ops)].day = c.day
    /\ c.due \/ c.previous # 0 => WindowRead(c)
    /\ c.shown # NoPlan => ShownRead(c)
    /\ c.pc = "admitted" => c.shown # NoPlan
    /\ c.pc = "judged" => Judged(c)

\* The operation of a controller at work is the newest one and unfinished.
BusyOK(p) ==
    /\ ctl[p].op = Len(ops) /\ ops # <<>>
    /\ ops[Len(ops)].state = "running"
    /\ ctl[p].pc \in {"keep", "resolve"} =>
          /\ Previous(p) \in 1 .. Len(ops) - 1
          /\ ops[Previous(p)].state = "running"
    /\ ctl[p].pc = "resolve" =>
          [op |-> Previous(p), state |-> "running"] \in originals
    /\ ctl[p].pc \in WithChild => \E w \in workers : w.owner = p

ControlOK(p) ==
    /\ ctl[p].pc \in Reading => ReadingOK(ctl[p])
    /\ ctl[p].pc \in Busy => BusyOK(p)

\* An orphan that did not slip is seen, and then nobody is at work.
Seen(w) == w.launcher \/ w.own
WorkerOK(w) ==
    /\ w.op \in DOMAIN ops /\ w.day = ops[w.op].day
    /\ w.pc \in Working => w.own
    /\ w.pc = "native" => native[w.day] = "running"
    /\ w.pc \in {"finishing", "exited"} /\ w.result = "completed" =>
          native[w.day] = "completed"
    /\ w.owner # Nobody =>
          /\ ~w.slipped /\ lock = w.owner /\ ctl[w.owner].pc \in WithChild
          /\ w.launcher <=> ctl[w.owner].pc # "spawned"
          /\ w.op = Len(ops)
          /\ ctl[w.owner].pc # "waiting" => w.pc \in {"started", "exited"}
          /\ w.fresh /\ native[w.day] = "completed" =>
                observer[w.day] = Len(ops)
    /\ w.owner = Nobody =>
          w.pc # "exited" /\ (~w.slipped => lock = Nobody /\ Seen(w))

WorkersOK ==
    /\ \A w \in workers : WorkerOK(w)
    /\ \A w, x \in workers : ~w.slipped /\ ~x.slipped => w = x

\* The account has one writer.
AccountOK ==
    /\ \A w, x \in workers : w.pc = "native" /\ x.pc = "native" => w = x
    /\ elsewhere # 0 =>
          /\ native[elsewhere] = "running"
          /\ \A w \in workers : w.pc # "native"

\* Operations are in the order of their windows, and none is of a later one.
WindowsPass ==
    /\ \A i \in DOMAIN ops :
          /\ ops[i].day \in Sessions /\ ops[i].day <= Day(clock)
          /\ ops[i].day = Day(clock) => ops[i].slot <= Started(clock)
    /\ \A i, j \in DOMAIN ops : i < j =>
          /\ ops[i].day <= ops[j].day
          /\ ops[i].day = ops[j].day => ops[i].slot <= ops[j].slot

RecordOK(i) ==
    /\ ops[i].previous < i
    /\ ops[i].action = "tick" /\ ops[i].previous # 0
          => ops[ops[i].previous].state \in Retryable
    /\ ops[i].credit =>
          /\ ops[i].trigger = "natural" /\ ops[i].action = "tick"
          /\ observer[ops[i].day] = i /\ native[ops[i].day] = "completed"
          /\ ops[i].state # "running"
    /\ ops[i].state = "completed" =>
          native[ops[i].day] = "completed" /\ observer[ops[i].day] <= i
    /\ ops[i].state = "interrupted" =>
          /\ [op |-> i, state |-> "running"] \in originals
          /\ ops[i].resolved \in DOMAIN ops
          /\ ops[ops[i].resolved].previous = i

RecordsOK ==
    /\ \A i \in DOMAIN ops : RecordOK(i)
    /\ \A d \in Days : observer[d] <= Len(ops)
    /\ \A i, j \in DOMAIN ops :
          i < j /\ ops[i].day = ops[j].day /\ Collecting(i) /\ Collecting(j)
             => ops[i].slot < ops[j].slot

EInv ==
    /\ Rows /\ HeldByTheBusy /\ WorkersOK /\ AccountOK
    /\ WindowsPass /\ RecordsOK
    /\ \A p \in Procs : ControlOK(p)
-----------------------------------------------------------------------------
(* Days, windows and the newest operation of the day.                      *)

\* A bounded set of numbers has a greatest one.
LEMMA BoundedMax ==
    ASSUME NEW n \in Nat, NEW T \in SUBSET (0 .. n), T # {}
    PROVE  Max(T) \in T /\ \A y \in T : y <= Max(T)
PROOF
  <1> DEFINE U == {u \in Nat : \A y \in T : y <= u}
  <1>1. n \in U
    OBVIOUS
  <1>2. PICK m \in U : \A y \in U : ~(<<y, m>> \in OpToRel(<, Nat))
    <2>1. U \subseteq Nat /\ U # {}
      BY <1>1
    <2> HIDE DEF U
    <2> QED
      BY <2>1, WFMin, NatLessThanWellFounded, Zenon
  <1>3. \A y \in U : ~(y < m)
    BY <1>2 DEF OpToRel
  <1>4. m \in T
    <2>1. SUFFICES ASSUME m \notin T
                   PROVE  FALSE
      OBVIOUS
    <2>2. m \in Nat /\ \A y \in T : y <= m
      OBVIOUS
    <2>3. \A y \in T : y < m
      BY <2>1, <2>2
    <2>4. m # 0
      <3>1. PICK y \in T : TRUE
        OBVIOUS
      <3> QED
        BY <3>1, <2>2, <2>3
    <2>5. m - 1 \in U /\ m - 1 < m
      BY <2>2, <2>3, <2>4
    <2> QED
      BY <2>5, <1>3, Zenon
  <1>5. \E x \in T : \A y \in T : x >= y
    BY <1>4
  <1> QED
    BY <1>5 DEF Max

LEMMA DaysAreNumbers == Days \subseteq Nat \ {0} /\ Sessions \subseteq Days
PROOF
  <1>1. Cardinality(Days) \in Nat
    BY EtfAssumption, FS_CardinalityType
  <1> QED
    BY <1>1, EtfAssumption

\* A window has a day and a place in it.
LEMMA WindowTypes ==
    ASSUME NEW t \in Nat
    PROVE  /\ Day(t) \in Nat /\ Position(t) \in 0 .. 2 * Slots
           /\ Started(t) \in 0 .. Slots
           /\ Position(t) # 0 => Started(t) # 0
PROOF
  <1> DEFINE N == 2 * Slots + 1
  <1>1. N \in Nat \ {0} /\ Slots \in Nat
    BY EtfAssumption
  <1> HIDE DEF N
  <1>2. t \div N \in Nat
    BY <1>1
  <1>3. t % N \in 0 .. (N - 1)
    BY <1>1
  <1>4. Day(t) \in Nat /\ Position(t) \in 0 .. 2 * Slots
    BY <1>1, <1>2, <1>3 DEF Day, Position, N
  <1> QED
    BY <1>1, <1>4 DEF Started

\* Time passes within a day or to the next one.
LEMMA WindowStep ==
    ASSUME NEW t \in Nat
    PROVE  \/ Day(t + 1) = Day(t) /\ Started(t) <= Started(t + 1)
           \/ Day(t + 1) = Day(t) + 1
PROOF
  <1> DEFINE N == 2 * Slots + 1
  <1>1. N \in Nat \ {0}
    BY EtfAssumption
  <1> HIDE DEF N
  <1>2. \/ (t + 1) \div N = t \div N /\ (t + 1) % N = (t % N) + 1
        \/ (t + 1) \div N = (t \div N) + 1
    BY <1>1
  <1>3. \/ Day(t + 1) = Day(t) /\ Position(t + 1) = Position(t) + 1
        \/ Day(t + 1) = Day(t) + 1
    BY <1>2 DEF Day, Position, N
  <1>4. Position(t) \in Nat /\ Position(t + 1) \in Nat
    <2>1. Slots \in Nat /\ t + 1 \in Nat
      BY EtfAssumption
    <2>2. Position(t) \in 0 .. 2 * Slots /\ Position(t + 1) \in 0 .. 2 * Slots
      BY <2>1, WindowTypes
    <2> QED
      BY <2>1, <2>2
  <1> QED
    BY <1>3, <1>4 DEF Started

LEMMA LatestOfToday ==
    ASSUME Rows
    PROVE  /\ Latest \in 0 .. Len(ops)
           /\ Latest # 0 => Latest \in Today
           /\ \A i \in Today : i <= Latest
PROOF
  <1>1. ops \in Seq(Operation) /\ Len(ops) \in Nat
    BY DEF Rows
  <1>2. {0} \cup Today \in SUBSET (0 .. Len(ops))
    BY <1>1 DEF Today
  <1>3. /\ Latest \in {0} \cup Today
        /\ \A i \in {0} \cup Today : i <= Latest
    BY <1>1, <1>2, BoundedMax DEF Latest
  <1> QED
    BY <1>2, <1>3

\* The session a frozen worker is for.
LEMMA ExpectedToday ==
    ASSUME Rows
    PROVE  /\ Expected \in {0} \cup Sessions
           /\ Day(clock) \in Sessions /\ Position(clock) # 0
                 <=> Expected = Day(clock)
PROOF
  <1> DEFINE known == {0} \cup {s \in Sessions : s < Day(clock)}
                          \cup (IF Position(clock) = 0 THEN {}
                                ELSE Sessions \cap {Day(clock)})
  <1>1. /\ Day(clock) \in Nat \ {0} /\ Sessions \subseteq Nat
    <2>1. clock \in Nat /\ Day(clock) >= 1
      BY DEF Rows
    <2>2. Day(clock) \in Nat
      BY <2>1, WindowTypes
    <2> QED
      BY <2>1, <2>2, DaysAreNumbers
  <1>2. known \in SUBSET (0 .. Day(clock)) /\ known # {}
    <2>1. \A s \in known : s \in 0 .. Day(clock)
      BY <1>1
    <2> QED
      BY <2>1
  <1>3. Expected \in known /\ \A s \in known : s <= Expected
    BY <1>1, <1>2, BoundedMax DEF Expected
  <1>4. \A s \in known : s = Day(clock)
            => Day(clock) \in Sessions /\ Position(clock) # 0
    BY <1>1
  <1>5. Day(clock) \in Sessions /\ Position(clock) # 0 => Day(clock) \in known
    BY <1>1
  <1>6. known \subseteq {0} \cup Sessions
    OBVIOUS
  <1>7. \A s \in known : s <= Day(clock) /\ s \in Nat
    BY <1>2, <1>1
  <1> HIDE DEF known
  <1> QED
    BY <1>1, <1>3, <1>4, <1>5, <1>6, <1>7
-----------------------------------------------------------------------------
(* What a step leaves alone keeps its part of the invariant.               *)

\* A day observed stays observed, by the same operation, and what is observed
\* now is credited to the newest one.
AccountMoves ==
    /\ native' \in [Days -> NativeStates] /\ observer' \in [Days -> Nat]
    /\ data' \subseteq Days /\ health' \in Healths
    /\ elsewhere' \in {0} \cup Days
    /\ \A d \in Days :
          /\ native[d] = "completed" =>
                native'[d] = "completed" /\ observer'[d] = observer[d]
          /\ native[d] # "completed" /\ native'[d] = "completed" =>
                observer'[d] = Len(ops)
          /\ observer'[d] <= Len(ops)

LEMMA AccountRests ==
    ASSUME EInv, UNCHANGED <<native, observer, elsewhere>>,
           data' \subseteq Days, health' \in Healths
    PROVE  AccountMoves
PROOF
  BY DEF EInv, Rows, RecordsOK, AccountMoves

LEMMA OpsAreRows ==
    ASSUME Rows, NEW i \in DOMAIN ops
    PROVE  ops[i] \in Operation /\ ops[i].day \in Days /\ i \in 1 .. Len(ops)
PROOF
  <1>1. ops[i] \in Operation /\ i \in 1 .. Len(ops)
    BY DEF Rows
  <1> QED
    BY <1>1 DEF Operation

LEMMA RecordsFrame ==
    ASSUME EInv, AccountMoves, UNCHANGED ops, originals \subseteq originals'
    PROVE  RecordsOK'
PROOF
  <1>1. ASSUME NEW i \in DOMAIN ops
        PROVE  RecordOK(i)'
    <2>1. RecordOK(i) /\ ops[i].day \in Days
      BY OpsAreRows DEF EInv, RecordsOK
    <2> QED
      BY <2>1 DEF RecordOK, AccountMoves
  <1>2. \A d \in Days : observer'[d] <= Len(ops')
    BY DEF AccountMoves
  <1>3. \A i \in DOMAIN ops : Collecting(i)' = Collecting(i)
    BY DEF Collecting
  <1> QED
    BY <1>1, <1>2, <1>3 DEF EInv, RecordsOK

LEMMA WindowsFrame ==
    ASSUME EInv, UNCHANGED <<ops, clock>>
    PROVE  WindowsPass'
PROOF
  BY DEF EInv, WindowsPass

\* What was read and judged stays so while time passes.
LEMMA ReadingFrame ==
    ASSUME EInv, AccountMoves, UNCHANGED ops, clock' \in {clock, clock + 1},
           NEW c \in ReadingRow, ReadingOK(c)
    PROVE  ReadingOK(c)'
PROOF
  <1>1. clock \in Nat /\ Slots \in Nat /\ ops \in Seq(Operation)
    BY EtfAssumption DEF EInv, Rows
  <1>2. WindowRead(c) => WindowRead(c)'
    <2> SUFFICES ASSUME WindowRead(c) PROVE WindowRead(c)'
      OBVIOUS
    <2>1. /\ c.day \in Nat /\ c.slot \in Nat
          /\ Day(clock) \in Nat /\ Started(clock) \in Nat
      <3>1. c.day \in Sessions /\ c.slot \in 1 .. Slots
        BY DEF WindowRead
      <3>2. c.day \in Nat
        BY <3>1, DaysAreNumbers
      <3>3. c.slot \in Nat
        BY <1>1, <3>1
      <3>4. Day(clock) \in Nat /\ Started(clock) \in 0 .. Slots
        BY <1>1, WindowTypes
      <3>5. Started(clock) \in Nat
        BY <1>1, <3>4
      <3> QED
        BY <3>2, <3>3, <3>4, <3>5
    <2>2. CASE clock' = clock
      BY <2>2 DEF WindowRead
    <2>3. CASE clock' = clock + 1
      <3>1. Day(clock') = Day(clock + 1) /\ Started(clock') = Started(clock + 1)
        BY <2>3
      <3>2. /\ Day(clock + 1) \in Nat /\ Started(clock + 1) \in Nat
            /\ \/ Day(clock + 1) = Day(clock) /\ Started(clock) <= Started(clock + 1)
               \/ Day(clock + 1) = Day(clock) + 1
        <4>1. clock + 1 \in Nat
          BY <1>1
        <4>2. /\ Day(clock + 1) \in Nat
              /\ Started(clock + 1) \in 0 .. Slots
          BY <4>1, WindowTypes
        <4>3. Started(clock + 1) \in Nat
          BY <1>1, <4>2
        <4>4. \/ Day(clock + 1) = Day(clock) /\ Started(clock) <= Started(clock + 1)
              \/ Day(clock + 1) = Day(clock) + 1
          BY <1>1, WindowStep
        <4> QED
          BY <4>2, <4>3, <4>4
      <3>3. /\ c.day <= Day(clock + 1)
            /\ c.day = Day(clock + 1) => c.slot <= Started(clock + 1)
        BY <2>1, <3>2 DEF WindowRead
      <3>4. Day(clock)' = Day(clock') /\ Started(clock)' = Started(clock')
        BY DEF Day, Started, Position
      <3> QED
        BY <3>1, <3>3, <3>4 DEF WindowRead
    <2> QED
      BY <2>2, <2>3
  <1>3. Judged(c) /\ (c.due \/ c.previous # 0 => WindowRead(c)) => Judged(c)'
    <2> SUFFICES ASSUME Judged(c), WindowRead(c) PROVE Judged(c)'
      BY DEF Judged
    <2>1. c.day \in Days
      BY DaysAreNumbers DEF WindowRead
    <2> QED
      BY <2>1 DEF Judged, AccountMoves
  <1>4. ShownRead(c) => ShownRead(c)'
    BY DEF ShownRead
  <1> QED
    BY <1>2, <1>3, <1>4 DEF ReadingOK

LEMMA ControlFrame ==
    ASSUME EInv, AccountMoves, UNCHANGED <<ops, ctl>>,
           clock' \in {clock, clock + 1}, originals \subseteq originals',
           \A p \in Procs : ctl[p].pc \in WithChild =>
              \E w \in workers' : w.owner = p,
           NEW p \in Procs
    PROVE  ControlOK(p)'
PROOF
  <1>1. ControlOK(p) /\ Previous(p)' = Previous(p)
    BY DEF EInv, Previous
  <1>2. BusyOK(p) => BusyOK(p)'
    BY <1>1 DEF BusyOK
  <1>3. ctl[p].pc \in Reading => ReadingOK(ctl[p])'
    <2> SUFFICES ASSUME ctl[p].pc \in Reading PROVE ReadingOK(ctl[p])'
      OBVIOUS
    <2>1. PICK c \in ReadingRow : c = ctl[p]
      BY DEF EInv, Rows, Idle, Reading, BusyRow, Busy
    <2>2. ReadingOK(c)'
      BY <1>1, <2>1, ReadingFrame DEF ControlOK
    <2>3. ctl'[p] = c
      BY <2>1
    <2> QED
      BY <2>2, <2>3 DEF ReadingOK, WindowRead, ShownRead, Judged
  <1> QED
    BY <1>1, <1>2, <1>3 DEF ControlOK

LEMMA WorkersFrame ==
    ASSUME EInv, AccountMoves, UNCHANGED <<ops, lock, ctl>>,
           NEW w \in workers,
           w.pc = "native" => native'[w.day] = native[w.day]
    PROVE  WorkerOK(w)'
PROOF
  <1>1. WorkerOK(w) /\ w.day \in Days /\ Seen(w)' = Seen(w)
    BY DEF EInv, WorkersOK, Rows, WorkerRow, Seen
  <1> QED
    BY <1>1 DEF WorkerOK, AccountMoves

\* The account is not written, and no process begins to.
LEMMA WriterRests ==
    ASSUME EInv, UNCHANGED elsewhere,
           elsewhere # 0 => native'[elsewhere] = native[elsewhere],
           \A x \in workers' : x.pc = "native" => x \in workers
    PROVE  AccountOK'
PROOF
  BY DEF EInv, AccountOK
-----------------------------------------------------------------------------
(* A worker's step changes that worker, and the account as it says.        *)

SameWorker(w, v) ==
    /\ v.op = w.op /\ v.task = w.task /\ v.day = w.day
    /\ v.owner = w.owner /\ v.launcher = w.launcher /\ v.slipped = w.slipped

WorkerMoves(w) ==
    \/ \E v \in WorkerRow :
          /\ SameWorker(w, v) /\ WorkerOK(v)'
          /\ workers' = (workers \ {w}) \cup {v}
    \/ w.owner = Nobody /\ workers' = workers \ {w}

LEMMA WorkerStep ==
    ASSUME EInv, NEW w \in workers, WorkerMoves(w), AccountMoves, AccountOK',
           UNCHANGED <<world, ops, originals, plan, lock, ctl>>,
           torn' \in BOOLEAN,
           \A x \in workers \ {w} :
              x.pc = "native" => native'[x.day] = native[x.day]
    PROVE  EInv'
PROOF
  <1> USE DEF world
  <1>1. Rows'
    <2>1. workers' \subseteq WorkerRow
      BY DEF EInv, Rows, WorkerMoves
    <2> QED
      BY <2>1 DEF EInv, Rows, AccountMoves
  <1>2. \A x \in workers \ {w} : WorkerOK(x)'
    BY WorkersFrame
  <1>3. WorkersOK'
    <2>1. CASE workers' = workers \ {w}
      BY <1>2, <2>1 DEF EInv, WorkersOK
    <2>2. ASSUME NEW v \in WorkerRow, SameWorker(w, v), WorkerOK(v)',
                 workers' = (workers \ {w}) \cup {v}
          PROVE  WorkersOK'
      <3>1. \A x \in workers' : WorkerOK(x)'
        BY <1>2, <2>2
      <3>2. \A x, y \in workers' : ~x.slipped /\ ~y.slipped => x = y
        BY <2>2 DEF EInv, WorkersOK, SameWorker
      <3> QED
        BY <3>1, <3>2 DEF WorkersOK
    <2> QED
      BY <2>1, <2>2 DEF WorkerMoves
  <1>4. ASSUME NEW p \in Procs, ctl[p].pc \in WithChild
        PROVE  \E x \in workers' : x.owner = p
    <2>1. PICK x \in workers : x.owner = p
      BY <1>4 DEF EInv, ControlOK, BusyOK, WithChild, Busy
    <2> QED
      BY <2>1, EtfAssumption DEF WorkerMoves, SameWorker
  <1>5. \A p \in Procs : ControlOK(p)'
    BY <1>4, ControlFrame
  <1>6. RecordsOK' /\ WindowsPass'
    BY RecordsFrame, WindowsFrame
  <1>7. HeldByTheBusy'
    BY DEF EInv, HeldByTheBusy
  <1> QED
    BY <1>1, <1>3, <1>5, <1>6, <1>7 DEF EInv

\* A worker whose answer is ready.
LEMMA FinishMoves ==
    ASSUME EInv, NEW w \in workers, NEW result \in Results,
           w.pc \in Working, Finish(w, result), UNCHANGED <<ops, lock, ctl>>,
           AccountMoves,
           result = "completed" => native'[w.day] = "completed"
    PROVE  WorkerMoves(w) /\ \A x \in workers' : x.pc = "native" => x \in workers
PROOF
  <1> DEFINE v == [w EXCEPT !.pc = "finishing", !.result = result]
  <1>1. w \in WorkerRow /\ WorkerOK(w)
    BY DEF EInv, Rows, WorkersOK
  <1>2. /\ v \in WorkerRow /\ SameWorker(w, v) /\ v.pc = "finishing"
        /\ v.own = w.own /\ v.result = result /\ v.fresh = w.fresh
    BY <1>1 DEF WorkerRow, SameWorker, WorkerPoints, Working
  <1>3. workers' = (workers \ {w}) \cup {v}
    BY DEF Finish, Becomes
  <1> HIDE DEF v
  <1>4. WorkerOK(v)'
    BY <1>1, <1>2 DEF WorkerOK, SameWorker, Working, Seen, AccountMoves,
                      WorkerRow
  <1> QED
    BY <1>2, <1>3, <1>4 DEF WorkerMoves

LEMMA GoneMoves ==
    ASSUME EInv, NEW w \in workers, NEW result \in Results,
           Gone(w, result), UNCHANGED <<native, observer, ops, lock, ctl>>,
           w.pc # "started" => w.owner = Nobody \/ ctl[w.owner].pc = "waiting",
           result = "completed" => native[w.day] = "completed"
    PROVE  WorkerMoves(w) /\ \A x \in workers' : x.pc = "native" => x \in workers
PROOF
  <1> DEFINE v == [w EXCEPT !.pc = "exited", !.own = FALSE,
                            !.result = result]
  <1>1. w \in WorkerRow /\ WorkerOK(w)
    BY DEF EInv, Rows, WorkersOK
  <1>2. /\ v \in WorkerRow /\ SameWorker(w, v) /\ v.pc = "exited"
        /\ v.own = FALSE /\ v.result = result /\ v.fresh = w.fresh
    BY <1>1 DEF WorkerRow, SameWorker, WorkerPoints
  <1>3. CASE w.owner = Nobody
    BY <1>3 DEF Gone, WorkerMoves
  <1>4. CASE w.owner # Nobody
    <2>1. workers' = (workers \ {w}) \cup {v}
      BY <1>4 DEF Gone
    <2> HIDE DEF v
    <2>2. WorkerOK(v)'
      BY <1>1, <1>2, <1>4 DEF WorkerOK, SameWorker, Working
    <2> QED
      BY <1>2, <2>1, <2>2 DEF WorkerMoves
  <1> QED
    BY <1>3, <1>4

\* The account's only writer is the worker that is at it.
LEMMA NativeIsAlone ==
    ASSUME EInv, NEW w \in workers, w.pc = "native"
    PROVE  elsewhere = 0 /\ \A x \in workers \ {w} : x.pc # "native"
PROOF
  BY DEF EInv, AccountOK

LEMMA WorkerKeeps ==
    ASSUME EInv, NEW w \in workers, Worker(w)
    PROVE  EInv'
PROOF
  <1>1. /\ w \in WorkerRow /\ WorkerOK(w) /\ w.day \in Days
        /\ UNCHANGED <<world, ops, originals, plan, lock, ctl, health>>
        /\ data' \subseteq Days
    BY DEF EInv, Rows, WorkersOK, WorkerRow, Worker, Mark, Exit, Die, Collect,
           Prepare, Plan, NativeBegin, NativeReuse, NativeRefused,
           NativeCommit, NativeFail, files, account
  <1>2. torn' \in BOOLEAN
    BY DEF EInv, Rows, Worker, Mark, Exit, Die, Collect,
           Prepare, Plan, NativeBegin, NativeReuse, NativeRefused,
           NativeCommit, NativeFail, files, Killed
  <1>3. UNCHANGED <<native, observer, elsewhere>> => AccountMoves
    BY <1>1, AccountRests DEF EInv, Rows
  <1>4. ASSUME UNCHANGED <<native, observer, elsewhere>>, WorkerMoves(w),
               \A x \in workers' : x.pc = "native" => x \in workers
        PROVE  EInv'
    <2>1. AccountOK'
      BY <1>4, WriterRests
    <2> QED
      BY <1>1, <1>2, <1>3, <1>4, <2>1, WorkerStep
  <1>5. ASSUME UNCHANGED <<native, observer, elsewhere>>, w.pc \in Working,
               NEW result \in Results, Finish(w, result),
               result = "completed" => native[w.day] = "completed"
        PROVE  EInv'
    <2>1. AccountMoves
      BY <1>3, <1>5
    <2>2. WorkerMoves(w) /\ \A x \in workers' : x.pc = "native" => x \in workers
      BY <1>1, <1>5, <2>1, FinishMoves
    <2> QED
      BY <1>4, <1>5, <2>2
  <1>6. ASSUME NEW result \in Results, Gone(w, result),
               UNCHANGED <<native, observer, elsewhere>>, w.pc # "exited",
               result = "completed" => native[w.day] = "completed"
        PROVE  EInv'
    <2>1. w.pc # "started" => w.owner = Nobody \/ ctl[w.owner].pc = "waiting"
      BY <1>1, <1>6 DEF WorkerOK
    <2>2. WorkerMoves(w) /\ \A x \in workers' : x.pc = "native" => x \in workers
      BY <1>1, <1>6, <2>1, GoneMoves
    <2> QED
      BY <1>4, <1>6, <2>2
  <1>7. ASSUME NEW v \in WorkerRow, SameWorker(w, v), v.own,
               v.pc \in {"working", "planned"}, w.pc \in {"requested", "working"},
               v.fresh => w.fresh \/ native[w.day] # "completed",
               workers' = (workers \ {w}) \cup {v},
               UNCHANGED <<native, observer, elsewhere>>
        PROVE  EInv'
    <2>1. WorkerOK(v)'
      BY <1>1, <1>7 DEF WorkerOK, SameWorker, Seen
    <2>2. WorkerMoves(w) /\ \A x \in workers' : x.pc = "native" => x \in workers
      BY <1>7, <2>1 DEF WorkerMoves
    <2> QED
      BY <1>4, <1>7, <2>2
  <1>8. CASE Mark(w)
    <2> DEFINE v == [w EXCEPT !.own = TRUE, !.pc = "working"]
    <2>1. /\ v \in WorkerRow /\ SameWorker(w, v) /\ v.pc = "working"
          /\ v.own = TRUE /\ v.fresh = w.fresh
      BY <1>1 DEF WorkerRow, SameWorker, WorkerPoints, Working
    <2>2. /\ workers' = (workers \ {w}) \cup {v} /\ w.pc = "requested"
          /\ UNCHANGED <<native, observer, elsewhere>>
      BY <1>8 DEF Mark, Becomes, account
    <2> HIDE DEF v
    <2> QED
      BY <1>7, <2>1, <2>2
  <1>9. CASE Exit(w)
    <2>1. /\ w.result \in Results
          /\ w.result = "completed" => native[w.day] = "completed"
      BY <1>1, <1>9 DEF WorkerRow, WorkerOK, Exit
    <2> QED
      BY <1>6, <1>9, <2>1 DEF Exit, account
  <1>10. CASE Die(w)
    BY <1>6, <1>10 DEF Die, account, Results
  <1>11. CASE Collect(w) \/ Prepare(w)
    <2>1. /\ w.pc \in Working /\ UNCHANGED <<native, observer, elsewhere>>
          /\ \E result \in Results \ {"completed"} : Finish(w, result)
      BY <1>11 DEF Collect, Prepare, Results, Working, account
    <2> QED
      BY <1>5, <2>1
  <1>12. CASE Plan(w)
    <2>1. w.pc = "working" /\ UNCHANGED <<native, observer, elsewhere>>
      BY <1>12 DEF Plan, account
    <2>2. CASE Finish(w, "failed")
      BY <1>5, <2>1, <2>2 DEF Results, Working
    <2>3. CASE Assessed(w.day) = "completed" /\ Finish(w, "completed")
      <3>1. native[w.day] = "completed"
        BY <2>3 DEF Assessed
      <3> QED
        BY <1>5, <2>1, <2>3, <3>1 DEF Results, Working
    <2>4. PICK first \in BOOLEAN : first = (native[w.day] = "none")
      OBVIOUS
    <2>5. CASE Becomes(w, [w EXCEPT !.pc = "planned", !.fresh = first])
      <3> DEFINE v == [w EXCEPT !.pc = "planned", !.fresh = first]
      <3>1. /\ v \in WorkerRow /\ SameWorker(w, v) /\ v.pc = "planned"
            /\ v.own = w.own /\ v.fresh = first
        BY <1>1 DEF WorkerRow, SameWorker, WorkerPoints, Working
      <3>2. workers' = (workers \ {w}) \cup {v} /\ w.own
        BY <1>1, <2>1, <2>5 DEF Becomes, WorkerOK, Working
      <3> HIDE DEF v
      <3>3. v.fresh => native[w.day] # "completed"
        BY <2>4, <3>1
      <3> QED
        BY <1>7, <2>1, <3>1, <3>2, <3>3
    <2> QED
      BY <1>12, <2>2, <2>3, <2>4, <2>5 DEF Plan
  <1>13. CASE NativeReuse(w) \/ NativeRefused(w)
    <2>1. /\ w.pc \in Working /\ UNCHANGED <<native, observer, elsewhere>>
          /\ \E result \in Results :
                /\ Finish(w, result)
                /\ result = "completed" => native[w.day] = "completed"
      BY <1>13 DEF NativeReuse, NativeRefused, Results, Working, account
    <2> QED
      BY <1>5, <2>1
  <1>14. CASE NativeBegin(w)
    <2> DEFINE v == [w EXCEPT !.pc = "native"]
    <2>1. /\ v \in WorkerRow /\ SameWorker(w, v) /\ v.pc = "native"
          /\ v.own = w.own /\ v.fresh = w.fresh
      BY <1>1 DEF WorkerRow, SameWorker, WorkerPoints, Working
    <2>2. /\ workers' = (workers \ {w}) \cup {v} /\ w.pc = "planned"
          /\ native[w.day] # "completed"
          /\ native' = [native EXCEPT ![w.day] = "running"]
          /\ UNCHANGED <<observer, elsewhere, data>>
          /\ elsewhere = 0 /\ \A x \in workers : x.pc # "native"
      BY <1>14 DEF NativeBegin, Becomes, AccountFree
    <2> HIDE DEF v
    <2>3. AccountMoves /\ native'[w.day] = "running"
      BY <1>1, <2>2 DEF EInv, Rows, RecordsOK, AccountMoves, NativeStates
    <2>4. WorkerOK(v)' /\ AccountOK'
      BY <1>1, <2>1, <2>2, <2>3
         DEF WorkerOK, SameWorker, Seen, Working, AccountOK
    <2> QED
      BY <1>1, <1>2, <2>1, <2>2, <2>3, <2>4, WorkerStep DEF WorkerMoves
  <1>15. CASE NativeCommit(w)
    <2>1. /\ w.pc = "native" /\ Finish(w, "completed")
          /\ native' = [native EXCEPT ![w.day] = "completed"]
          /\ observer' = [observer EXCEPT ![w.day] = Len(ops)]
          /\ UNCHANGED <<data, elsewhere>>
      BY <1>15 DEF NativeCommit
    <2>2. native[w.day] = "running" /\ Len(ops) \in Nat
      BY <1>1, <2>1 DEF WorkerOK, EInv, Rows
    <2>3. AccountMoves /\ native'[w.day] = "completed"
      BY <1>1, <2>1, <2>2 DEF EInv, Rows, RecordsOK, AccountMoves, NativeStates
    <2>4. WorkerMoves(w) /\ \A x \in workers' : x.pc = "native" => x \in workers
      BY <1>1, <2>1, <2>3, FinishMoves DEF Results, Working
    <2>5. elsewhere = 0 /\ \A x \in workers \ {w} : x.pc # "native"
      BY <2>1, NativeIsAlone
    <2>6. AccountOK'
      BY <2>1, <2>4, <2>5, WriterRests
    <2> QED
      BY <1>1, <1>2, <2>3, <2>4, <2>5, <2>6, WorkerStep
  <1>16. CASE NativeFail(w)
    <2>1. /\ w.pc = "native" /\ Finish(w, "failed")
          /\ native' = [native EXCEPT ![w.day] = "failed"]
          /\ UNCHANGED <<observer, data, elsewhere>>
      BY <1>16 DEF NativeFail
    <2>2. native[w.day] = "running"
      BY <1>1, <2>1 DEF WorkerOK
    <2>3. AccountMoves
      BY <1>1, <2>1, <2>2 DEF EInv, Rows, RecordsOK, AccountMoves, NativeStates
    <2>4. WorkerMoves(w) /\ \A x \in workers' : x.pc = "native" => x \in workers
      BY <1>1, <2>1, <2>3, FinishMoves DEF Results, Working
    <2>5. elsewhere = 0 /\ \A x \in workers \ {w} : x.pc # "native"
      BY <2>1, NativeIsAlone
    <2>6. AccountOK'
      BY <2>1, <2>4, <2>5, WriterRests
    <2> QED
      BY <1>1, <1>2, <2>3, <2>4, <2>5, <2>6, WorkerStep
  <1> QED
    BY <1>8, <1>9, <1>10, <1>11, <1>12, <1>13, <1>14, <1>15, <1>16 DEF Worker
\* The newest operation of today is the newest of all.
LEMMA LatestIsLast ==
    ASSUME Rows, WindowsPass, Latest # 0
    PROVE  /\ Latest = Len(ops) /\ Len(ops) \in DOMAIN ops
           /\ ops[Len(ops)].day = Day(clock)
PROOF
  <1>1. ops \in Seq(Operation) /\ Len(ops) \in Nat /\ Day(clock) \in Nat
    BY WindowTypes DEF Rows
  <1>2. Latest \in Today /\ Latest \in DOMAIN ops /\ Latest \in 1 .. Len(ops)
        /\ ops[Latest].day = Day(clock)
    BY <1>1, LatestOfToday DEF Today
  <1>3. Len(ops) \in DOMAIN ops
    BY <1>1, <1>2
  <1>4. ops[Len(ops)].day \in Nat
    BY <1>3, OpsAreRows, DaysAreNumbers
  <1>5. ops[Len(ops)].day = Day(clock)
    BY <1>1, <1>2, <1>3, <1>4 DEF WindowsPass
  <1>6. Len(ops) \in Today
    BY <1>3, <1>5 DEF Today
  <1> QED
    BY <1>1, <1>2, <1>3, <1>5, <1>6, LatestOfToday

LEMMA OpsAreNumbers ==
    ASSUME Rows, NEW i \in DOMAIN ops
    PROVE  ops[i].day \in Nat /\ ops[i].slot \in Nat /\ i \in 1 .. Len(ops)
PROOF
  <1>1. ops[i] \in Operation /\ ops[i].day \in Days /\ i \in 1 .. Len(ops)
    BY OpsAreRows
  <1>2. ops[i].slot \in 1 .. Slots /\ Slots \in Nat
    BY <1>1, EtfAssumption DEF Operation
  <1>3. ops[i].day \in Nat
    BY <1>1, DaysAreNumbers
  <1>4. ops[i].slot \in Nat
    BY <1>2
  <1> QED
    BY <1>1, <1>3, <1>4

\* A window is only open, and a recovery only offered, on the expected day.
LEMMA ReadyIsToday ==
    ASSUME Rows, Window(clock) = "ready"
    PROVE  Expected = Day(clock)
PROOF
  <1>1. Day(clock) \in Sessions
    BY DEF Window
  <1>2. Position(clock) \in Nat /\ clock \in Nat
    <2>1. clock \in Nat /\ Slots \in Nat
      BY EtfAssumption DEF Rows
    <2> QED
      BY <2>1, WindowTypes
  <1>3. Position(clock) # 0
    BY <1>1, <1>2 DEF Window
  <1> QED
    BY <1>1, <1>3, ExpectedToday

-----------------------------------------------------------------------------
(* A controller's step.                                                    *)

LEMMA HolderAlone ==
    ASSUME EInv, NEW p \in Procs, ctl[p] # Idle
    PROVE  /\ lock = p /\ p # Nobody /\ ctl \in [Procs -> {Idle} \cup ReadingRow \cup BusyRow]
           /\ \A q \in Procs \ {p} : ctl[q] = Idle
PROOF
  BY EtfAssumption DEF EInv, HeldByTheBusy, Rows

LEMMA BusyOne ==
    ASSUME EInv, NEW p \in Procs, ctl[p].pc \in Busy
    PROVE  /\ ctl[p] \in BusyRow /\ ctl[p] # Idle
           /\ lock = p /\ ctl[p].op = Len(ops) /\ Len(ops) \in DOMAIN ops
           /\ Len(ops) \in Nat /\ ops[Len(ops)].state = "running"
           /\ \A q \in Procs \ {p} : ctl[q] = Idle
PROOF
  <1>1. ops \in Seq(Operation) /\ ctl[p] \in {Idle} \cup ReadingRow \cup BusyRow
    BY DEF EInv, Rows
  <1>2. ctl[p] \in BusyRow /\ ctl[p] # Idle
    BY <1>1 DEF Idle, ReadingRow, Reading, Busy
  <1>3. BusyOK(p)
    BY DEF EInv, ControlOK
  <1> QED
    BY <1>1, <1>2, <1>3, HolderAlone DEF BusyOK

LEMMA ReadingOne ==
    ASSUME EInv, NEW p \in Procs, ctl[p].pc \in Reading
    PROVE  ctl[p] \in ReadingRow /\ ctl[p] # Idle /\ ReadingOK(ctl[p])
PROOF
  <1>1. ctl[p] \in {Idle} \cup ReadingRow \cup BusyRow
    BY DEF EInv, Rows
  <1> QED
    BY <1>1 DEF Idle, BusyRow, Reading, Busy, EInv, ControlOK

LEMMA ChildOfBusy ==
    ASSUME EInv, NEW p \in Procs, ctl[p].pc \in WithChild
    PROVE  /\ ctl[p].pc \in Busy
           /\ Child(p) \in workers /\ Child(p) \in WorkerRow
           /\ Child(p).owner = p /\ WorkerOK(Child(p))
           /\ \A w \in workers : w.owner = p => w = Child(p)
PROOF
  <1>1. ctl[p].pc \in Busy
    BY DEF WithChild, Busy
  <1>2. \E w \in workers : w.owner = p
    BY <1>1 DEF EInv, ControlOK, BusyOK
  <1>3. Child(p) \in workers /\ Child(p).owner = p
    BY <1>2 DEF Child
  <1>4. p # Nobody
    BY EtfAssumption
  <1> QED
    BY <1>1, <1>3, <1>4 DEF EInv, Rows, WorkersOK, WorkerOK

\* All the workers beside a controller's are orphans that slipped.
LEMMA OrphansBeside ==
    ASSUME EInv, NEW p \in Procs, ctl[p] # Idle, NEW w \in workers,
           ctl[p].pc \in WithChild => w # Child(p)
    PROVE  w.owner = Nobody /\ w.slipped /\ WorkerOK(w)
PROOF
  <1>1. lock = p /\ p # Nobody
    BY HolderAlone
  <1>2. WorkerOK(w)
    BY DEF EInv, WorkersOK
  <1>3. w.owner = Nobody
    BY <1>1, <1>2, ChildOfBusy DEF WorkerOK
  <1> QED
    BY <1>1, <1>2, <1>3 DEF WorkerOK

\* Their kind is not touched by any controller.
LEMMA OrphansStay ==
    ASSUME EInv, NEW w \in workers, w.slipped, UNCHANGED account,
           \A i \in DOMAIN ops : i \in DOMAIN ops' /\ ops'[i].day = ops[i].day
    PROVE  WorkerOK(w)'
PROOF
  <1>1. WorkerOK(w) /\ w.owner = Nobody
    BY DEF EInv, WorkersOK, WorkerOK
  <1> QED
    BY <1>1 DEF WorkerOK, account

LEMMA AccountSleeps ==
    ASSUME EInv, UNCHANGED account
    PROVE  /\ AccountMoves
           /\ (\A x \in workers' : x.pc = "native" => x \in workers) => AccountOK'
PROOF
  BY AccountRests, WriterRests DEF account, EInv, Rows

\* One record moves on from "running".
SameWindow(old, new) ==
    /\ new.day = old.day /\ new.slot = old.slot
    /\ new.trigger = old.trigger /\ new.action = old.action
    /\ new.previous = old.previous

RowOK(n, row) ==
    /\ row \in Operation /\ SameWindow(ops[n], row)
    /\ ops[n].state = "running"
    /\ row.credit =>
          /\ row.trigger = "natural" /\ row.action = "tick"
          /\ observer[row.day] = n /\ native[row.day] = "completed"
          /\ row.state # "running"
    /\ row.state = "completed" =>
          native[row.day] = "completed" /\ observer[row.day] <= n
    /\ row.state = "interrupted" =>
          /\ [op |-> n, state |-> "running"] \in originals
          /\ row.resolved \in DOMAIN ops
          /\ ops[row.resolved].previous = n

LEMMA RecordMoves ==
    ASSUME EInv, NEW n \in DOMAIN ops, NEW row, RowOK(n, row),
           ops' = [ops EXCEPT ![n] = row],
           UNCHANGED <<world, account, originals>>
    PROVE  /\ ops' \in Seq(Operation) /\ Len(ops') = Len(ops)
           /\ DOMAIN ops' = DOMAIN ops /\ ops'[n] = row
           /\ \A i \in DOMAIN ops : /\ SameWindow(ops[i], ops'[i])
                                    /\ i # n => ops'[i] = ops[i]
           /\ RecordsOK' /\ WindowsPass'
PROOF
  <1> USE DEF world, account
  <1>1. /\ ops \in Seq(Operation) /\ row \in Operation
        /\ \A i \in DOMAIN ops : RecordOK(i)
    BY DEF EInv, Rows, RecordsOK, RowOK
  <1>2. ops' \in Seq(Operation) /\ Len(ops') = Len(ops) /\ DOMAIN ops' = DOMAIN ops
    BY <1>1
  <1>3. ops'[n] = row /\ \A i \in DOMAIN ops : i # n => ops'[i] = ops[i]
    BY <1>1
  <1>4. \A i \in DOMAIN ops : SameWindow(ops[i], ops'[i])
    BY <1>3 DEF SameWindow, RowOK
  <1>5. ASSUME NEW i \in DOMAIN ops
        PROVE  RecordOK(i)'
    <2>1. RecordOK(i)
      BY <1>1
    <2>2. /\ ops'[i].previous < i
          /\ ops'[i].action = "tick" /\ ops'[i].previous # 0
                => ops'[ops'[i].previous].state \in Retryable
      <3>1. ops'[i].previous = ops[i].previous /\ ops'[i].action = ops[i].action
            /\ ops[i].previous < i
        BY <1>4, <2>1 DEF SameWindow, RecordOK
      <3>2. ASSUME ops[i].action = "tick", ops[i].previous # 0
            PROVE  ops'[ops[i].previous].state \in Retryable
        <4>1. ops[i].previous \in DOMAIN ops /\ ops[i].previous # n
          <5>1. ops[i].previous \in Nat /\ i \in 1 .. Len(ops) /\ Len(ops) \in Nat
            <6>1. ops[i] \in Operation /\ i \in 1 .. Len(ops)
              BY OpsAreRows DEF EInv
            <6> QED
              BY <1>1, <6>1 DEF Operation
          <5>2. ops[ops[i].previous].state \in Retryable
            BY <3>2, <2>1 DEF RecordOK
          <5> QED
            BY <1>1, <3>1, <3>2, <5>1, <5>2 DEF RowOK, Retryable
        <4> QED
          BY <1>3, <2>1, <3>2, <4>1 DEF RecordOK
      <3> QED
        BY <3>1, <3>2
    <2>3. CASE i = n
      <3>1. row.state = "interrupted" =>
               ops'[row.resolved].previous = ops[row.resolved].previous
        BY <1>4 DEF RowOK, SameWindow
      <3> QED
        BY <1>2, <1>3, <2>2, <2>3, <3>1 DEF RecordOK, RowOK
    <2>4. CASE i # n
      <3>1. ops'[i] = ops[i]
        BY <1>3, <2>4
      <3>2. ops[i].state = "interrupted" =>
               ops'[ops[i].resolved].previous = ops[ops[i].resolved].previous
        BY <1>4, <2>1 DEF RecordOK, SameWindow
      <3> QED
        BY <1>2, <2>1, <2>2, <3>1, <3>2 DEF RecordOK
    <2> QED
      BY <2>3, <2>4
  <1>6. \A i \in DOMAIN ops : Collecting(i)' = Collecting(i)
    BY <1>4 DEF Collecting, SameWindow
  <1>7. RecordsOK'
    BY <1>2, <1>4, <1>5, <1>6 DEF EInv, RecordsOK, SameWindow
  <1>8. WindowsPass'
    BY <1>2, <1>4 DEF EInv, WindowsPass, SameWindow
  <1> QED
    BY <1>2, <1>3, <1>4, <1>7, <1>8
LEMMA ConcludeKeeps ==
    ASSUME EInv, NEW p \in Procs, ctl[p].pc = "waiting",
           NEW state \in {"collection_retryable", "blocked", "completed"},
           NEW forward \in BOOLEAN, NEW credit \in BOOLEAN,
           Conclude(p, state, forward, credit),
           workers' = workers \ {Child(p)},
           UNCHANGED <<world, account, originals, plan>>, torn' \in BOOLEAN,
           state = "completed" => native[ops[Len(ops)].day] = "completed",
           credit =>
              /\ state = "completed"
              /\ ops[Len(ops)].trigger = "natural"
              /\ ops[Len(ops)].action = "tick"
              /\ observer[ops[Len(ops)].day] = Len(ops)
    PROVE  EInv'
PROOF
  <1> DEFINE n == Len(ops)
  <1>1. /\ ctl[p].pc \in WithChild /\ ctl[p] # Idle /\ ctl[p].op = n
        /\ n \in DOMAIN ops /\ ops[n].state = "running" /\ lock = p
        /\ \A q \in Procs \ {p} : ctl[q] = Idle
    <2>1. ctl[p].pc \in WithChild
      BY DEF WithChild
    <2> QED
      BY <2>1, ChildOfBusy, BusyOne
  <1>2. /\ ops \in Seq(Operation) /\ ops[n] \in Operation /\ ops[n].day \in Days
        /\ DOMAIN ctl = Procs /\ ctl = [q \in Procs |-> ctl[q]]
    BY <1>1, OpsAreRows DEF EInv, Rows
  <1>3. PICK told \in OpStates \ {"running", "interrupted"},
             row \in Operation :
           /\ SameWindow(ops[n], row) /\ row.credit = credit
           /\ row.state = told /\ ops' = [ops EXCEPT ![n] = row]
           /\ told = "completed" <=> state = "completed"
    <2>1. PICK told \in OpStates \ {"running", "interrupted"} :
             /\ told = IF ctl[p].last /\ state \in Retryable
                       THEN "collection_exhausted" ELSE state
             /\ told = "completed" <=> state = "completed"
      BY DEF OpStates, Retryable
    <2>2. PICK begun \in BOOLEAN : begun = (ops[n].forward \/ forward)
      BY <1>2 DEF Operation
    <2> DEFINE row == [ops[n] EXCEPT !.state = told, !.forward = begun,
                                     !.credit = credit]
    <2>3. /\ row \in Operation /\ SameWindow(ops[n], row)
          /\ row.credit = credit /\ row.state = told
      BY <1>2 DEF Operation, SameWindow
    <2> DEFINE m == ctl[p].op
               said == [ops[m] EXCEPT
                          !.state = IF ctl[p].last /\ state \in Retryable
                                    THEN "collection_exhausted" ELSE state,
                          !.forward = ops[m].forward \/ forward,
                          !.credit = credit]
    <2>4. ops' = [ops EXCEPT ![m] = said]
      BY Zenon DEF Conclude
    <2>5. m = n
      BY <1>1
    <2>6. said = row
      BY <2>1, <2>2, <2>5, Zenon
    <2> HIDE DEF m, said, row
    <2> QED
      BY <2>1, <2>3, <2>4, <2>5, <2>6, Zenon
  <1>4. RowOK(n, row)
    BY <1>1, <1>2, <1>3 DEF RowOK, SameWindow, EInv, RecordsOK
  <1> HIDE DEF n
  <1>5. /\ ops' \in Seq(Operation) /\ Len(ops') = Len(ops)
        /\ DOMAIN ops' = DOMAIN ops /\ RecordsOK' /\ WindowsPass'
        /\ \A i \in DOMAIN ops : ops'[i].day = ops[i].day
    BY <1>1, <1>3, <1>4, RecordMoves DEF SameWindow
  <1>6. lock' = Nobody /\ ctl' = [q \in Procs |-> Idle]
    BY <1>1, <1>2 DEF Conclude
  <1>7. Rows'
    BY <1>5, <1>6 DEF EInv, Rows, world, account
  <1>8. HeldByTheBusy' /\ \A q \in Procs : ControlOK(q)'
    BY <1>6, EtfAssumption DEF HeldByTheBusy, ControlOK, Idle, Reading, Busy
  <1>9. ASSUME NEW w \in workers'
        PROVE  w \in workers /\ WorkerOK(w)'
    <2>1. w \in workers /\ w.slipped
      BY <1>1, <1>9, OrphansBeside
    <2> QED
      BY <1>5, <2>1, OrphansStay
  <1>10. WorkersOK' /\ AccountOK'
    BY <1>9, AccountSleeps DEF EInv, WorkersOK
  <1> QED
    BY <1>5, <1>7, <1>8, <1>10 DEF EInv

LEMMA ReturnKeeps ==
    ASSUME EInv, NEW p \in Procs, Return(p)
    PROVE  EInv'
PROOF
  <1> DEFINE w == Child(p)
             n == Len(ops)
  <1>1. /\ ctl[p].pc = "waiting" /\ w.pc = "exited" /\ Follow(p, w)
        /\ workers' = workers \ {w}
        /\ UNCHANGED <<world, account, originals, plan, torn>>
    BY DEF Return, At
  <1>2. /\ ctl[p].pc \in WithChild /\ ctl[p].pc \in Busy /\ w \in workers
        /\ WorkerOK(w) /\ w.owner = p /\ w \in WorkerRow
    BY <1>1, ChildOfBusy DEF WithChild
  <1>3. /\ ctl[p].op = n /\ n \in DOMAIN ops /\ lock = p
        /\ ops[n].state = "running" /\ w.op = n /\ w.day = ops[n].day
        /\ ctl[p] \in BusyRow /\ ctl[p] # Idle
        /\ ctl \in [Procs -> {Idle} \cup ReadingRow \cup BusyRow]
        /\ ops \in Seq(Operation) /\ torn \in BOOLEAN
    BY <1>2, BusyOne, EtfAssumption DEF WorkerOK, EInv, Rows
  <1>4. \A x \in workers' : x \in workers /\ x.slipped
    BY <1>1, <1>2, <1>3, OrphansBeside
  <1>5. ASSUME NEW task \in Tasks,
               ctl' = [ctl EXCEPT ![p] = [@ EXCEPT !.pc = "launch",
                                                   !.task = task]],
               UNCHANGED <<ops, lock>>
        PROVE  EInv'
    <2>1. /\ ctl'[p] \in BusyRow
          /\ ctl'[p].pc = "launch" /\ ctl'[p].op = n
          /\ ctl' \in [Procs -> {Idle} \cup ReadingRow \cup BusyRow]
          /\ \A q \in Procs \ {p} : ctl'[q] = ctl[q]
      <3> DEFINE next == [ctl[p] EXCEPT !.pc = "launch", !.task = task]
      <3>1. next \in BusyRow /\ next.pc = "launch" /\ next.op = n
        BY <1>3 DEF BusyRow, Busy
      <3>2. ctl' = [ctl EXCEPT ![p] = next]
        BY <1>5
      <3> HIDE DEF next
      <3> QED
        BY <1>3, <3>1, <3>2
    <2>2. ctl'[p] # Idle
      BY <2>1 DEF Idle
    <2>3. Rows'
      BY <1>1, <1>5, <2>1 DEF EInv, Rows, world, account
    <2>4. HeldByTheBusy'
      BY <1>3, <1>5, <2>1, <2>2 DEF EInv, HeldByTheBusy
    <2>5. ControlOK(p)'
      BY <1>3, <1>5, <2>1 DEF ControlOK, BusyOK, WithChild, Reading
    <2>6. \A q \in Procs \ {p} : ControlOK(q)'
      BY <1>3, <2>1, HolderAlone DEF ControlOK, Idle, Reading, Busy
    <2>7. \A x \in workers' : WorkerOK(x)'
      BY <1>1, <1>4, <1>5, OrphansStay
    <2>8. WorkersOK' /\ AccountOK'
      BY <1>1, <1>4, <2>7, AccountSleeps DEF WorkersOK
    <2>9. RecordsOK' /\ WindowsPass'
      BY <1>1, <1>5, AccountSleeps, RecordsFrame, WindowsFrame DEF world
    <2> QED
      BY <2>3, <2>4, <2>5, <2>6, <2>8, <2>9 DEF EInv
  <1>6. CASE w.result = "completed"
             /\ Conclude(p, "completed", FALSE, Credit(ops[ctl[p].op], w))
    <2>1. PICK credit \in BOOLEAN : credit = Credit(ops[n], w)
      BY DEF Credit
    <2>2. /\ native[ops[n].day] = "completed"
          /\ credit => /\ ops[n].trigger = "natural" /\ ops[n].action = "tick"
                       /\ observer[ops[n].day] = n
      BY <1>1, <1>2, <1>3, <1>6, <2>1, EtfAssumption DEF WorkerOK, Credit
    <2> QED
      BY <1>1, <1>3, <1>6, <2>1, <2>2, ConcludeKeeps
  <1>7. ASSUME NEW state \in {"collection_retryable", "blocked"},
               NEW forward \in BOOLEAN, Conclude(p, state, forward, FALSE)
        PROVE  EInv'
    BY <1>1, <1>3, <1>7, ConcludeKeeps
  <1> QED
    BY <1>1, <1>5, <1>6, <1>7 DEF Follow, Tasks

LEMMA GiveUpKeeps ==
    ASSUME EInv, NEW p \in Procs, GiveUp(p)
    PROVE  EInv'
PROOF
  <1>1. PICK state \in {"collection_retryable", "blocked"} :
           Conclude(p, state, FALSE, FALSE)
    BY DEF GiveUp
  <1>2. torn' \in BOOLEAN
    BY DEF GiveUp, Killed, EInv, Rows
  <1> QED
    BY <1>1, <1>2, ConcludeKeeps DEF GiveUp, At

\* A controller goes on to its next point.
LEMMA AdvanceKeeps ==
    ASSUME EInv, NEW p \in Procs, ctl[p] # Idle, NEW row \in BusyRow,
           ctl' = [ctl EXCEPT ![p] = row],
           UNCHANGED <<world, account, plan, torn, lock>>,
           ops' \in Seq(Operation), Len(ops) <= Len(ops'), Len(ops') <= MaxOps,
           workers' \subseteq WorkerRow,
           WorkersOK', AccountOK', RecordsOK', WindowsPass', ControlOK(p)'
    PROVE  EInv'
PROOF
  <1>1. row # Idle /\ lock = p /\ \A q \in Procs \ {p} : ctl[q] = Idle
    BY HolderAlone DEF Idle, BusyRow, Busy
  <1>2. /\ ctl' \in [Procs -> {Idle} \cup ReadingRow \cup BusyRow]
        /\ ctl'[p] = row /\ \A q \in Procs \ {p} : ctl'[q] = Idle
    BY <1>1 DEF EInv, Rows
  <1>3. Rows'
    <2>1. plan.op <= Len(ops) /\ plan.op \in Nat /\ Len(ops) \in Nat /\ Len(ops') \in Nat
      BY DEF EInv, Rows, PlanRow, NoPlan
    <2>2. plan.op <= Len(ops')
      BY <2>1
    <2> QED
      BY <1>2, <2>2 DEF EInv, Rows, world, account
  <1>4. HeldByTheBusy'
    BY <1>1, <1>2 DEF HeldByTheBusy
  <1>5. \A q \in Procs \ {p} : ControlOK(q)'
    BY <1>2 DEF ControlOK, Idle, Reading, Busy
  <1> QED
    BY <1>3, <1>4, <1>5 DEF EInv

\* A controller before its worker is there has nobody's.
LEMMA KeepOriginalKeeps ==
    ASSUME EInv, NEW p \in Procs, KeepOriginal(p)
    PROVE  EInv'
PROOF
  <1> DEFINE row == [ctl[p] EXCEPT !.pc = "resolve"]
  <1>1. /\ ctl[p].pc = "keep" /\ ctl[p] # Idle /\ ctl[p] \in BusyRow
        /\ BusyOK(p)
    <2>1. ctl[p].pc = "keep" /\ ctl[p].pc \in Busy
      BY DEF KeepOriginal, At, Busy
    <2> QED
      BY <2>1, BusyOne DEF EInv, ControlOK
  <1>2. /\ row \in BusyRow
        /\ row.pc = "resolve" /\ row.op = ctl[p].op
    BY <1>1 DEF BusyRow, Busy
  <1>3. /\ ctl' = [ctl EXCEPT ![p] = row]
        /\ originals' = originals \cup {[op |-> Previous(p),
                                         state |-> ops[Previous(p)].state]}
        /\ UNCHANGED <<world, account, ops, plan, torn, lock, workers>>
    BY DEF KeepOriginal
  <1> HIDE DEF row
  <1>4. RecordsOK' /\ WindowsPass' /\ AccountOK'
    BY <1>3, AccountSleeps, RecordsFrame, WindowsFrame DEF world
  <1>5. ctl'[p] = row
    BY <1>3 DEF EInv, Rows
  <1>6. ControlOK(p)'
    <2>1. Previous(p)' = Previous(p)
      BY <1>2, <1>3, <1>5 DEF Previous
    <2>2. BusyOK(p)'
      BY <1>1, <1>2, <1>3, <1>5, <2>1 DEF BusyOK, WithChild
    <2> QED
      BY <1>2, <1>5, <2>2 DEF ControlOK, Reading
  <1>7. WorkersOK'
    <2>1. \A w \in workers : WorkerOK(w)'
      BY <1>1, <1>3, OrphansBeside, OrphansStay DEF WithChild
    <2> QED
      BY <1>3, <2>1 DEF EInv, WorkersOK
  <1>8. ops \in Seq(Operation) /\ Len(ops) \in Nat /\ Len(ops) <= MaxOps
        /\ workers \subseteq WorkerRow
    BY DEF EInv, Rows
  <1>9. /\ ops' \in Seq(Operation) /\ Len(ops) <= Len(ops') /\ Len(ops') <= MaxOps
        /\ workers' \subseteq WorkerRow
        /\ UNCHANGED <<world, account, plan, torn, lock>>
    BY <1>3, <1>8
  <1> QED
    BY <1>1, <1>2, <1>3, <1>4, <1>6, <1>7, <1>9, AdvanceKeeps

\* The unfinished record is resolved by the operation that goes on.
LEMMA ResolveKeeps ==
    ASSUME EInv, NEW p \in Procs, Resolve(p)
    PROVE  /\ EInv'
           /\ \A i \in DOMAIN ops :
                 ops[i].state # "running" => ops'[i] = ops[i]
PROOF
  <1> DEFINE m == Previous(p)
             n == Len(ops)
             next == [ctl[p] EXCEPT !.pc = "launch"]
             row == [ops[m] EXCEPT !.state = "interrupted", !.resolved = n]
  <1>1. /\ ctl[p].pc = "resolve" /\ ctl[p] # Idle /\ ctl[p].op = n
        /\ n \in DOMAIN ops /\ n \in Nat /\ ops[n].state = "running"
        /\ ctl[p] \in BusyRow /\ BusyOK(p)
        /\ ops \in Seq(Operation) /\ Len(ops) <= MaxOps
        /\ DOMAIN ctl = Procs /\ workers \subseteq WorkerRow
    <2>1. ctl[p].pc = "resolve" /\ ctl[p].pc \in Busy
      BY DEF Resolve, At, Busy
    <2> QED
      BY <2>1, BusyOne DEF EInv, Rows, ControlOK
  <1>2. /\ m \in 1 .. n - 1 /\ m \in DOMAIN ops /\ ops[m].state = "running"
        /\ [op |-> m, state |-> "running"] \in originals
        /\ ops[n].previous = m
    BY <1>1 DEF BusyOK, Previous
  <1>3. /\ ops' = [ops EXCEPT ![m] = row] /\ ctl' = [ctl EXCEPT ![p] = next]
        /\ UNCHANGED <<world, account, originals, plan, torn, lock, workers>>
    BY <1>1, <1>2 DEF Resolve
  <1>4. /\ next \in BusyRow
        /\ next.pc = "launch" /\ next.op = n
    BY <1>1 DEF BusyRow, Busy
  <1>5. RowOK(m, row)
    <2>1. ops[m] \in Operation /\ RecordOK(m)
      BY <1>2, OpsAreRows DEF EInv, RecordsOK
    <2>2. row \in Operation /\ SameWindow(ops[m], row)
          /\ row.state = "interrupted" /\ row.resolved = n
          /\ row.credit = ops[m].credit
      BY <1>1, <2>1 DEF Operation, SameWindow, OpStates
    <2>3. ~ops[m].credit
      BY <1>2, <2>1 DEF RecordOK
    <2> HIDE DEF row
    <2> QED
      BY <1>1, <1>2, <2>2, <2>3 DEF RowOK
  <1> HIDE DEF m, n, row, next
  <1>6. /\ ops' \in Seq(Operation) /\ Len(ops') = n /\ DOMAIN ops' = DOMAIN ops
        /\ \A i \in DOMAIN ops : /\ SameWindow(ops[i], ops'[i])
                                 /\ i # m => ops'[i] = ops[i]
        /\ RecordsOK' /\ WindowsPass'
    BY <1>2, <1>3, <1>5, RecordMoves DEF n
  <1>7. ops'[n] = ops[n]
    BY <1>1, <1>2, <1>6
  <1>8. ctl'[p] = next
    BY <1>1, <1>3
  <1>9. ControlOK(p)'
    <2>1. ops' # <<>>
      BY <1>1, <1>6
    <2> QED
      BY <1>1, <1>4, <1>6, <1>7, <1>8, <2>1 DEF ControlOK, BusyOK, WithChild, Reading
  <1>10. WorkersOK' /\ AccountOK'
    <2>1. \A w \in workers : w.slipped
      BY <1>1, OrphansBeside DEF WithChild
    <2>2. \A w \in workers : WorkerOK(w)'
      BY <1>3, <1>6, <2>1, OrphansStay DEF SameWindow
    <2>3. AccountOK'
      BY <1>3, AccountSleeps
    <2> QED
      BY <1>3, <2>1, <2>2, <2>3 DEF WorkersOK
  <1>11. EInv'
    <2>1. /\ ops' \in Seq(Operation) /\ Len(ops) <= Len(ops')
          /\ Len(ops') <= MaxOps /\ workers' \subseteq WorkerRow
          /\ UNCHANGED <<world, account, plan, torn, lock>>
      BY <1>1, <1>3, <1>6 DEF n
    <2> QED
      BY <1>1, <1>3, <1>4, <1>6, <1>9, <1>10, <2>1, AdvanceKeeps
  <1> QED
    BY <1>2, <1>6, <1>11

LEMMA SpawnKeeps ==
    ASSUME EInv, NEW p \in Procs, Spawn(p)
    PROVE  /\ EInv'
           /\ \A i \in DOMAIN ops :
                 ops[i].state # "running" => ops'[i] = ops[i]
PROOF
  <1> DEFINE n == Len(ops)
             next == [ctl[p] EXCEPT !.pc = "spawned"]
             made == [op |-> ctl[p].op, task |-> ctl[p].task,
                      day |-> ops[ctl[p].op].day, owner |-> p,
                      pc |-> "started", launcher |-> FALSE, own |-> FALSE,
                      slipped |-> FALSE, fresh |-> FALSE, result |-> "none"]
  <1>1. /\ ctl[p].pc = "launch" /\ ctl[p] # Idle /\ ctl[p].op = n
        /\ n \in DOMAIN ops /\ n \in Nat /\ ops[n].state = "running"
        /\ ctl[p] \in BusyRow /\ DOMAIN ctl = Procs
        /\ ops \in Seq(Operation) /\ Len(ops) <= MaxOps /\ lock = p
        /\ ops[n] \in Operation /\ ops[n].day \in Days /\ RecordOK(n)
    <2>1. ctl[p].pc = "launch" /\ ctl[p].pc \in Busy
      BY DEF Spawn, At, Busy
    <2>2. n \in DOMAIN ops
      BY <2>1, BusyOne
    <2> QED
      BY <2>1, <2>2, BusyOne, OpsAreRows DEF EInv, Rows, RecordsOK
  <1>2. PICK begun \in BOOLEAN :
           ops' = [ops EXCEPT ![n].forward = begun]
    <2>1. PICK begun \in BOOLEAN :
             begun = (ops[n].forward \/ ctl[p].task = "execute")
      BY <1>1 DEF Operation
    <2> DEFINE m == ctl[p].op
    <2>2. ops' = [ops EXCEPT ![m].forward =
                     ops[m].forward \/ ctl[p].task = "execute"]
      BY Zenon DEF Spawn
    <2>3. m = n
      BY <1>1
    <2> HIDE DEF m, n
    <2> QED
      BY <2>1, <2>2, <2>3, Zenon
  <1> DEFINE row == [ops[n] EXCEPT !.forward = begun]
  <1>3. /\ ctl' = [ctl EXCEPT ![p] = next] /\ workers' = workers \cup {made}
        /\ ops' = [ops EXCEPT ![n] = row]
        /\ UNCHANGED <<world, account, originals, plan, torn, lock>>
    BY <1>1, <1>2 DEF Spawn
  <1>4. /\ next \in BusyRow
        /\ next.pc = "spawned" /\ next.op = n
    BY <1>1 DEF BusyRow, Busy
  <1>5. PICK child \in WorkerRow :
           /\ workers' = workers \cup {child}
           /\ child.op = n /\ child.day = ops[n].day
           /\ child.owner = p /\ child.pc = "started" /\ child.launcher = FALSE
           /\ child.own = FALSE /\ child.fresh = FALSE /\ ~child.slipped
    <2>1. /\ made \in WorkerRow /\ made.op = n /\ made.day = ops[n].day
          /\ made.owner = p /\ made.pc = "started" /\ made.launcher = FALSE
          /\ made.own = FALSE /\ made.fresh = FALSE /\ ~made.slipped
      BY <1>1 DEF WorkerRow, WorkerPoints, Results, BusyRow
    <2> HIDE DEF made
    <2> QED
      BY <1>3, <2>1
  <1>6. RowOK(n, row) /\ row.state = "running"
    <2>1. /\ row \in Operation /\ SameWindow(ops[n], row)
          /\ row.state = "running" /\ row.credit = ops[n].credit
      BY <1>1 DEF Operation, SameWindow
    <2> HIDE DEF row
    <2> QED
      BY <1>1, <2>1 DEF RowOK, RecordOK
  <1> HIDE DEF n, row, next, made
  <1>7. /\ ops' \in Seq(Operation) /\ Len(ops') = n /\ DOMAIN ops' = DOMAIN ops
        /\ \A i \in DOMAIN ops : /\ SameWindow(ops[i], ops'[i])
                                 /\ i # n => ops'[i] = ops[i]
        /\ RecordsOK' /\ WindowsPass' /\ ops'[n] = row
    BY <1>1, <1>3, <1>6, RecordMoves DEF n
  <1>8. ctl'[p] = next /\ child \in workers'
    BY <1>1, <1>3, <1>5
  <1>9. ControlOK(p)'
    <2>1. ops' # <<>>
      BY <1>1, <1>7
    <2> QED
      BY <1>1, <1>4, <1>5, <1>6, <1>7, <1>8, <2>1 DEF ControlOK, BusyOK, Reading
  <1>10. \A w \in workers : w.slipped
    BY <1>1, OrphansBeside DEF WithChild
  <1>11. WorkersOK' /\ AccountOK'
    <2>1. \A w \in workers : WorkerOK(w)'
      BY <1>3, <1>7, <1>10, OrphansStay DEF SameWindow
    <2>2. WorkerOK(child)'
      <3>1. p # Nobody
        BY EtfAssumption
      <3>2. /\ lock' = p /\ ctl'[p].pc = "spawned"
            /\ Len(ops') = n /\ n \in DOMAIN ops' /\ ops'[n].day = ops[n].day
        BY <1>1, <1>3, <1>4, <1>7, <1>8 DEF SameWindow
      <3> QED
        BY <1>5, <3>1, <3>2 DEF WorkerOK, Working, WithChild
    <2>3. \A w, x \in workers' : ~w.slipped /\ ~x.slipped => w = x
      BY <1>5, <1>10
    <2>4. \A w \in workers' : w.pc = "native" => w \in workers
      BY <1>5
    <2>5. AccountOK'
      BY <1>3, <2>4, AccountSleeps
    <2>6. \A w \in workers' : WorkerOK(w)'
      BY <1>5, <2>1, <2>2
    <2> QED
      BY <2>3, <2>5, <2>6 DEF WorkersOK
  <1>12. workers' \subseteq WorkerRow
    BY <1>5 DEF EInv, Rows
  <1>13. EInv'
    <2>1. /\ ops' \in Seq(Operation) /\ Len(ops) <= Len(ops')
          /\ Len(ops') <= MaxOps
          /\ UNCHANGED <<world, account, plan, torn, lock>>
      BY <1>1, <1>3, <1>7 DEF n
    <2> QED
      BY <1>1, <1>3, <1>4, <1>7, <1>9, <1>11, <1>12, <2>1, AdvanceKeeps
  <1> QED
    BY <1>1, <1>7, <1>13

\* A controller's step on its worker, which is marked from then on.
LEMMA ChildKeeps ==
    ASSUME EInv, NEW p \in Procs, ctl[p].pc \in {"spawned", "marked"},
           NEW pc \in {"marked", "waiting"},
           ctl' = [ctl EXCEPT ![p].pc = pc],
           NEW v \in WorkerRow, SameWorker([Child(p) EXCEPT !.launcher = TRUE], v),
           Becomes(Child(p), v), v.own = Child(p).own, v.fresh = Child(p).fresh,
           v.result = Child(p).result,
           \/ v.pc = Child(p).pc /\ pc = "marked"
           \/ v.pc = Child(p).pc /\ v.pc # "started"
           \/ Child(p).pc = "started" /\ v.pc = "requested" /\ pc = "waiting",
           UNCHANGED <<world, account, files, lock>>
    PROVE  EInv'
PROOF
  <1> USE DEF files
  <1> DEFINE row == [ctl[p] EXCEPT !.pc = pc]
  <1>1. /\ Child(p) \in workers /\ Child(p) \in WorkerRow
        /\ Child(p).owner = p /\ WorkerOK(Child(p))
        /\ ctl[p].pc \in WithChild /\ ctl[p].pc \in Busy
    BY ChildOfBusy DEF WithChild
  <1>2. /\ ctl[p] \in BusyRow /\ ctl[p] # Idle
        /\ lock = p /\ ctl[p].op = Len(ops) /\ ops # <<>>
        /\ ops[Len(ops)].state = "running" /\ p # Nobody
        /\ DOMAIN ctl = Procs /\ ops \in Seq(Operation)
        /\ Len(ops) \in Nat /\ Len(ops) <= MaxOps
    BY <1>1, BusyOne, EtfAssumption DEF EInv, Rows
  <1>3. /\ row \in BusyRow /\ row.pc = pc /\ row.op = Len(ops)
        /\ ctl' = [ctl EXCEPT ![p] = row] /\ ctl'[p] = row
    BY <1>2 DEF BusyRow, Busy
  <1>4. PICK child \in WorkerRow : child = Child(p)
    BY <1>1
  <1>5. /\ workers' = (workers \ {child}) \cup {v}
        /\ child \in workers /\ WorkerOK(child)
        /\ child.owner = p /\ v.owner = p /\ v.launcher
        /\ v.op = child.op /\ v.day = child.day /\ v.slipped = child.slipped
        /\ v.own = child.own /\ v.fresh = child.fresh
        /\ v.result = child.result
    BY <1>1, <1>4 DEF Becomes, SameWorker, WorkerRow
  <1>6. /\ child.op = Len(ops) /\ child.pc \in {"started", "exited"}
        /\ ~child.slipped
    BY <1>1, <1>2, <1>5 DEF WorkerOK
  <1>7. /\ v.pc \in {"started", "requested", "exited"}
        /\ pc # "waiting" => v.pc \in {"started", "exited"}
        /\ v.pc = "exited" => child.pc = "exited"
    BY <1>4, <1>6
  <1> HIDE DEF row
  <1>8. WorkerOK(v)'
    <2>1. v.op \in DOMAIN ops' /\ v.day = ops'[v.op].day /\ v.op = Len(ops')
      BY <1>5, <1>6 DEF WorkerOK
    <2>2. v.pc = "exited" /\ v.result = "completed" => native'[v.day] = "completed"
      BY <1>5, <1>7 DEF WorkerOK, account
    <2>3. lock' = v.owner /\ ctl'[v.owner].pc = pc
      BY <1>2, <1>3, <1>5
    <2>4. v.fresh /\ native'[v.day] = "completed" => observer'[v.day] = Len(ops')
      BY <1>2, <1>5 DEF WorkerOK, account
    <2> QED
      BY <1>2, <1>5, <1>6, <1>7, <2>1, <2>2, <2>3, <2>4
         DEF WorkerOK, WithChild, Working
  <1>9. \A w \in workers \ {child} : w.slipped /\ WorkerOK(w)'
    BY <1>2, <1>4, OrphansBeside, OrphansStay
  <1>10. WorkersOK' /\ AccountOK'
    <2>1. \A w \in workers' : WorkerOK(w)'
      BY <1>5, <1>8, <1>9
    <2>2. \A w, x \in workers' : ~w.slipped /\ ~x.slipped => w = x
      BY <1>5, <1>9
    <2>3. \A w \in workers' : w.pc = "native" => w \in workers
      BY <1>5, <1>7
    <2>4. AccountOK'
      BY <2>3, AccountSleeps
    <2> QED
      BY <2>1, <2>2, <2>4 DEF WorkersOK
  <1>11. ControlOK(p)'
    <2>1. v \in workers'
      BY <1>5
    <2> QED
      BY <1>2, <1>3, <1>5, <2>1 DEF ControlOK, BusyOK, Reading
  <1>12. RecordsOK' /\ WindowsPass' /\ workers' \subseteq WorkerRow
    BY <1>5, AccountSleeps, RecordsFrame, WindowsFrame DEF world, EInv, Rows
  <1>13. /\ ops' \in Seq(Operation) /\ Len(ops) <= Len(ops') /\ Len(ops') <= MaxOps
         /\ UNCHANGED <<world, account, plan, torn, lock>>
    BY <1>2
  <1> QED
    BY <1>2, <1>3, <1>10, <1>11, <1>12, <1>13, AdvanceKeeps

LEMMA SaveMarkerKeeps ==
    ASSUME EInv, NEW p \in Procs, SaveMarker(p)
    PROVE  EInv'
PROOF
  <1>1. ctl[p].pc = "spawned" /\ Child(p) \in WorkerRow
    BY ChildOfBusy DEF SaveMarker, At, WithChild
  <1> DEFINE v == [Child(p) EXCEPT !.launcher = TRUE]
  <1>2. /\ v \in WorkerRow /\ v.own = Child(p).own /\ v.pc = Child(p).pc
        /\ v.fresh = Child(p).fresh /\ v.result = Child(p).result
        /\ SameWorker([Child(p) EXCEPT !.launcher = TRUE], v)
    BY <1>1 DEF WorkerRow, SameWorker
  <1>3. Becomes(Child(p), v)
    BY DEF SaveMarker
  <1> HIDE DEF v
  <1> QED
    BY <1>1, <1>2, <1>3, ChildKeeps DEF SaveMarker

LEMMA SendKeeps ==
    ASSUME EInv, NEW p \in Procs, Send(p)
    PROVE  EInv'
PROOF
  <1>1. /\ ctl[p].pc = "marked" /\ Child(p) \in WorkerRow
        /\ Child(p).launcher = TRUE
    <2>1. ctl[p].pc = "marked" /\ ctl[p].pc \in WithChild
      BY DEF Send, At, WithChild
    <2>2. /\ Child(p) \in WorkerRow /\ WorkerOK(Child(p))
          /\ Child(p).owner = p /\ p # Nobody
      BY <2>1, ChildOfBusy, EtfAssumption
    <2> QED
      BY <2>1, <2>2 DEF WorkerOK, WorkerRow
  <1> DEFINE v == [Child(p) EXCEPT
                      !.pc = IF @ = "started" THEN "requested" ELSE @]
  <1>2. /\ v \in WorkerRow /\ v.own = Child(p).own
        /\ v.fresh = Child(p).fresh /\ v.result = Child(p).result
        /\ SameWorker([Child(p) EXCEPT !.launcher = TRUE], v)
        /\ \/ v.pc = Child(p).pc /\ v.pc # "started"
           \/ Child(p).pc = "started" /\ v.pc = "requested"
    BY <1>1 DEF WorkerRow, SameWorker, WorkerPoints
  <1>3. Becomes(Child(p), v) /\ ctl' = [ctl EXCEPT ![p].pc = "waiting"]
        /\ UNCHANGED <<world, account, files, lock>>
    BY DEF Send
  <1> HIDE DEF v
  <1> QED
    BY <1>1, <1>2, <1>3, ChildKeeps

\* What a controller leaves behind when it dies or is interrupted: nothing, or
\* its worker as an orphan, which is seen or has slipped.
Left(child, v) ==
    /\ v \in WorkerRow /\ v.owner = Nobody
    /\ child.pc # "exited" /\ v.pc = child.pc
    /\ v.op = child.op /\ v.day = child.day
    /\ v.own = child.own /\ v.result = child.result
    /\ v.slipped \/ Seen(v)

LeavesBehind(p) ==
    \/ workers' = {w \in workers : w.owner # p}
    \/ \E child \in workers, v \in WorkerRow :
          /\ child.owner = p /\ Left(child, v)
          /\ workers' = {w \in workers : w.owner # p} \cup {v}

LEMMA LeaveKeeps ==
    ASSUME EInv, NEW p \in Procs, ctl[p] # Idle, LeavesBehind(p),
           lock' = Nobody, ctl' = [ctl EXCEPT ![p] = Idle],
           UNCHANGED <<world, account, files>>
    PROVE  EInv'
PROOF
  <1> DEFINE others == {w \in workers : w.owner # p}
  <1>1. /\ lock = p /\ p # Nobody /\ \A q \in Procs \ {p} : ctl[q] = Idle
        /\ DOMAIN ctl = Procs
    BY HolderAlone DEF EInv, Rows
  <1>2. /\ ctl' \in [Procs -> {Idle} \cup ReadingRow \cup BusyRow]
        /\ \A q \in Procs : ctl'[q] = Idle
    BY <1>1, HolderAlone
  <1>3. ASSUME NEW w \in others
        PROVE  w \in workers /\ w.slipped /\ WorkerOK(w)'
    <2>1. w \in workers /\ (ctl[p].pc \in WithChild => w # Child(p))
      BY <1>3, ChildOfBusy
    <2>2. w.slipped
      BY <2>1, OrphansBeside
    <2> QED
      BY <2>1, <2>2, OrphansStay DEF files
  <1>4. ASSUME NEW child \in workers, child.owner = p,
               NEW v \in WorkerRow, Left(child, v)
        PROVE  WorkerOK(v)'
    <2>1. WorkerOK(child) /\ child.pc # "exited"
      BY <1>4 DEF EInv, WorkersOK, Left
    <2>2. Seen(v)' = Seen(v)
      BY DEF Seen
    <2> QED
      BY <1>4, <2>1, <2>2 DEF WorkerOK, Left, account, files
  <1>5. /\ workers' \subseteq WorkerRow
        /\ \A w \in workers' : WorkerOK(w)'
        /\ \A w, x \in workers' : ~w.slipped /\ ~x.slipped => w = x
    BY <1>3, <1>4 DEF LeavesBehind, EInv, Rows
  <1>6. AccountOK'
    <2>1. CASE workers' = others
      BY <2>1, AccountSleeps
    <2>2. ASSUME NEW child \in workers, child.owner = p,
                 NEW v \in WorkerRow, Left(child, v),
                 workers' = others \cup {v}
          PROVE  AccountOK'
      <3>1. v.pc = "native" => child.pc = "native"
        BY <2>2 DEF Left
      <3>2. \A w \in others : ~(w.pc = "native" /\ child.pc = "native")
        BY <2>2 DEF EInv, AccountOK
      <3>3. UNCHANGED <<native, elsewhere>> /\ AccountOK
        BY DEF account, EInv
      <3> HIDE DEF others
      <3> QED
        <4>1. others \subseteq workers
          BY DEF others
        <4> QED
          BY <2>2, <3>1, <3>2, <3>3, <4>1 DEF AccountOK
    <2> QED
      BY <2>1, <2>2 DEF LeavesBehind
  <1>7. Rows'
    BY <1>2, <1>5 DEF EInv, Rows, world, account, files
  <1>8. HeldByTheBusy' /\ \A q \in Procs : ControlOK(q)'
    BY <1>2, EtfAssumption DEF HeldByTheBusy, ControlOK, Idle, Reading, Busy
  <1>9. RecordsOK' /\ WindowsPass'
    BY AccountSleeps, RecordsFrame, WindowsFrame DEF files, world
  <1> QED
    BY <1>5, <1>6, <1>7, <1>8, <1>9 DEF EInv, WorkersOK

\* Of a controller's processes there is one.
LEMMA OneProcess ==
    ASSUME EInv, NEW p \in Procs, NEW w \in workers, NEW x \in workers,
           w.owner = p, x.owner = p
    PROVE  w = x /\ w \in WorkerRow /\ WorkerOK(w) /\ ~w.slipped
PROOF
  BY EtfAssumption DEF EInv, WorkersOK, WorkerOK, Rows

LEMMA CrashKeeps ==
    ASSUME EInv, NEW p \in Procs, Crash(p)
    PROVE  EInv'
PROOF
  <1> DEFINE mine == {x \in workers :
                         x.owner = p /\ x.pc # "exited" /\ x.launcher}
  <1>1. /\ ctl[p] # Idle /\ lock' = Nobody /\ ctl' = [ctl EXCEPT ![p] = Idle]
        /\ workers' = {w \in workers : w.owner # p} \cup
                      {[w EXCEPT !.owner = Nobody] : w \in mine}
        /\ UNCHANGED <<world, account, files>>
    BY DEF Crash, At, Idle
  <1>2. LeavesBehind(p)
    <2>1. CASE mine = {}
      BY <1>1, <2>1 DEF LeavesBehind
    <2>2. ASSUME NEW child \in mine
          PROVE  LeavesBehind(p)
      <3> DEFINE v == [child EXCEPT !.owner = Nobody]
      <3>1. mine = {child}
        BY OneProcess
      <3>2. workers' = {w \in workers : w.owner # p} \cup {v}
        BY <1>1, <3>1
      <3>3. child \in WorkerRow
        BY OneProcess
      <3>4. Left(child, v)
        BY <3>3 DEF Left, WorkerRow, Seen
      <3>5. v \in WorkerRow
        BY <3>4 DEF Left
      <3> HIDE DEF v
      <3> QED
        BY <3>2, <3>4, <3>5 DEF LeavesBehind
    <2> QED
      BY <2>1, <2>2
  <1> QED
    BY <1>1, <1>2, LeaveKeeps

LEMMA InterruptKeeps ==
    ASSUME EInv, NEW p \in Procs, Interrupt(p)
    PROVE  EInv'
PROOF
  <1> DEFINE mine == {x \in workers :
                         x.owner = p /\ x.pc \notin {"started", "exited"}}
             Orphan(w) == [w EXCEPT !.owner = Nobody, !.launcher = FALSE,
                                    !.slipped = (w.pc = "requested")]
  <1>1. /\ ctl[p] # Idle /\ lock' = Nobody /\ ctl' = [ctl EXCEPT ![p] = Idle]
        /\ workers' = {w \in workers : w.owner # p} \cup
                      {Orphan(w) : w \in mine}
        /\ UNCHANGED <<world, account, files>>
    <2>1. ctl[p].pc \in {"marked", "waiting"}
      BY DEF Interrupt
    <2>2. ctl[p] # Idle
      BY <2>1 DEF Idle
    <2> QED
      BY <2>2, Zenon DEF Interrupt
  <1>2. LeavesBehind(p)
    <2>1. CASE mine = {}
      BY <1>1, <2>1 DEF LeavesBehind
    <2>2. ASSUME NEW child \in mine
          PROVE  LeavesBehind(p)
      <3>1. mine = {child}
        BY OneProcess
      <3>2. workers' = {w \in workers : w.owner # p} \cup {Orphan(child)}
        <4> HIDE DEF Orphan
        <4> QED
          BY <1>1, <3>1
      <3>3. /\ child \in WorkerRow /\ WorkerOK(child)
            /\ child.pc \in Working \cup {"requested"}
        <4>1. child \in WorkerRow /\ WorkerOK(child)
          BY OneProcess
        <4> QED
          BY <4>1 DEF WorkerRow, WorkerPoints
      <3>4. PICK late \in BOOLEAN : late = (child.pc = "requested")
        OBVIOUS
      <3> DEFINE v == [child EXCEPT !.owner = Nobody, !.launcher = FALSE,
                                    !.slipped = late]
      <3>5. Orphan(child) = v
        BY <3>4, Zenon
      <3>6. Left(child, v)
        BY <3>3, <3>4 DEF Left, WorkerRow, Seen, WorkerOK, Working
      <3>7. v \in WorkerRow
        BY <3>6 DEF Left
      <3> HIDE DEF v, Orphan
      <3> QED
        BY <3>2, <3>5, <3>6, <3>7 DEF LeavesBehind
    <2> QED
      BY <2>1, <2>2
  <1> QED
    BY <1>1, <1>2, LeaveKeeps
-----------------------------------------------------------------------------
(* The admission: what was read, judged and then recorded.                 *)

\* Without a worker at work, all that live have slipped.
LEMMA NobodyAtWork ==
    ASSUME EInv, lock = Nobody, ~WorkersRunning, NEW w \in workers
    PROVE  w.slipped
PROOF
  BY DEF EInv, WorkersOK, WorkerOK, WorkersRunning, Seen

\* Beside a controller that has not launched anything all have slipped.
LEMMA NobodyBeside ==
    ASSUME EInv, NEW p \in Procs, ctl[p].pc \in Reading, NEW w \in workers
    PROVE  w.slipped /\ w.owner # p
PROOF
  <1>1. ctl[p] # Idle /\ ctl[p].pc \notin WithChild
    BY ReadingOne DEF Reading, WithChild
  <1> QED
    BY <1>1, OrphansBeside, HolderAlone

LEMMA ReadKeeps ==
    ASSUME EInv, NEW p \in Procs, NEW row \in ReadingRow, ReadingOK(row),
           \A w \in workers : w.slipped,
           \A q \in Procs \ {p} : ctl[q] = Idle,
           ctl' = [ctl EXCEPT ![p] = row], lock' = p,
           UNCHANGED <<world, account, files, workers>>
    PROVE  EInv'
PROOF
  <1> USE DEF files
  <1>1. /\ ctl' \in [Procs -> {Idle} \cup ReadingRow \cup BusyRow]
        /\ ctl'[p] = row /\ row # Idle /\ row.pc \in Reading
        /\ \A q \in Procs \ {p} : ctl'[q] = Idle
    BY DEF EInv, Rows, ReadingRow, Reading, Idle
  <1>2. AccountMoves /\ AccountOK'
    BY AccountSleeps
  <1>3. Rows'
    BY <1>1 DEF EInv, Rows, world, account
  <1>4. HeldByTheBusy'
    BY <1>1, EtfAssumption DEF HeldByTheBusy
  <1>5. ControlOK(p)'
    <2>1. ReadingOK(row)'
      BY <1>2, ReadingFrame DEF world
    <2> QED
      BY <1>1, <2>1 DEF ControlOK, ReadingOK, WindowRead, ShownRead, Judged,
                        Reading, Busy
  <1>6. \A q \in Procs \ {p} : ControlOK(q)'
    BY <1>1 DEF ControlOK, Idle, Reading, Busy
  <1>7. WorkersOK'
    <2>1. \A w \in workers : WorkerOK(w)'
      BY OrphansStay
    <2> QED
      BY <2>1 DEF WorkersOK
  <1>8. RecordsOK' /\ WindowsPass'
    BY <1>2, RecordsFrame, WindowsFrame DEF world
  <1> QED
    BY <1>2, <1>3, <1>4, <1>5, <1>6, <1>7, <1>8 DEF EInv

\* An open window, and one that an operation of today has seen, is the
\* expected session's.
LEMMA WindowIsToday ==
    ASSUME EInv, Window(clock) = "ready" \/ Latest # 0
    PROVE  /\ Expected = Day(clock) /\ Expected \in Sessions
           /\ Started(clock) \in 1 .. Slots
PROOF
  <1>1. clock \in Nat /\ Slots \in Nat /\ Rows
    BY EtfAssumption DEF EInv, Rows
  <1>2. /\ Position(clock) \in 0 .. 2 * Slots /\ Started(clock) \in 0 .. Slots
        /\ Position(clock) # 0 => Started(clock) # 0
    BY <1>1, WindowTypes
  <1>3. Day(clock) \in Sessions /\ Position(clock) # 0
    <2>1. CASE Window(clock) = "ready"
      BY <1>1, <1>2, <2>1 DEF Window
    <2>2. CASE Latest # 0
      <3>1. Len(ops) \in DOMAIN ops /\ ops[Len(ops)].day = Day(clock)
        BY <1>1, <2>2, LatestIsLast DEF EInv
      <3>2. /\ ops[Len(ops)].slot \in 1 .. Slots
            /\ ops[Len(ops)].slot <= Started(clock)
            /\ Day(clock) \in Sessions
        BY <1>1, <3>1, OpsAreRows DEF EInv, WindowsPass, Operation
      <3>3. Started(clock) # 0
        BY <1>1, <1>2, <3>2
      <3>4. Position(clock) # 0
        BY <3>3 DEF Started
      <3> QED
        BY <3>2, <3>4
    <2> QED
      BY <2>1, <2>2
  <1>4. Expected = Day(clock)
    BY <1>1, <1>3, ExpectedToday
  <1>5. Started(clock) \in 1 .. Slots
    BY <1>1, <1>2, <1>3
  <1> QED
    BY <1>3, <1>4, <1>5

LEMMA AdmitKeeps ==
    ASSUME EInv, NEW p \in Procs, NEW trigger \in Triggers,
           NEW shown \in PlanRow \cup {NoPlan}, Admit(p, trigger, shown),
           shown = NoPlan =>
              /\ Window(clock) = "ready"
              /\ Latest # 0 => /\ MayFollow(Latest)
                               /\ SlotIsNew(Latest, Started(clock)),
           shown # NoPlan =>
              /\ shown.action # "pending" /\ shown.binding = Binding
              /\ shown.op <= Len(ops)
    PROVE  EInv'
PROOF
  <1>1. /\ ops \in Seq(Operation) /\ Len(ops) \in Nat /\ Len(ops) < MaxOps
        /\ lock = Nobody /\ ~WorkersRunning /\ p # Nobody /\ clock \in Nat
        /\ Rows /\ Slots \in Nat /\ DOMAIN ops = 1 .. Len(ops)
    BY EtfAssumption DEF Admit, EInv, Rows
  <1>2. /\ Latest \in 0 .. Len(ops) /\ Started(clock) \in 0 .. Slots
        /\ Expected \in Nat /\ Day(clock) \in Nat
        /\ \A i \in Today : i <= Latest
    <2>1. Latest \in 0 .. Len(ops) /\ \A i \in Today : i <= Latest
      BY <1>1, LatestOfToday
    <2>2. Started(clock) \in 0 .. Slots /\ Day(clock) \in Nat
      BY <1>1, WindowTypes
    <2>3. Expected \in {0} \cup Sessions
      BY <1>1, ExpectedToday
    <2>4. Expected \in Nat
      BY <2>3, DaysAreNumbers
    <2> QED
      BY <2>1, <2>2, <2>4
  <1>3. PICK row \in ReadingRow :
           /\ ctl' = [ctl EXCEPT ![p] = row]
           /\ row.pc = "judged" <=> shown = NoPlan
           /\ row.shown = shown /\ row.previous = Latest
           /\ row.day = Expected /\ row.slot = Started(clock)
           /\ row.due <=> Window(clock) = "ready"
    <2>1. PICK due \in BOOLEAN : due = (Window(clock) = "ready")
      OBVIOUS
    <2>2. PICK last \in BOOLEAN : last = LastSlot(clock)
      BY DEF LastSlot
    <2>3. PICK pc \in Reading : /\ pc = IF shown = NoPlan THEN "judged" ELSE "admitted"
                                /\ pc = "judged" <=> shown = NoPlan
      BY DEF Reading
    <2> DEFINE row == [pc |-> pc, trigger |-> trigger, shown |-> shown,
                       previous |-> Latest, due |-> due, day |-> Expected,
                       slot |-> Started(clock), last |-> last]
    <2>4. ctl' = [ctl EXCEPT ![p] = row]
      BY <2>1, <2>2, <2>3, Zenon DEF Admit
    <2>5. Latest \in Nat
      BY <1>1, <1>2
    <2>6. row \in ReadingRow /\ row.pc = pc /\ row.shown = shown
          /\ row.previous = Latest /\ row.day = Expected
          /\ row.slot = Started(clock) /\ row.due = due
      BY <1>2, <2>5 DEF ReadingRow
    <2> HIDE DEF row
    <2> QED
      BY <2>1, <2>3, <2>4, <2>6
  <1>4. ReadingOK(row)
    <2>1. Latest # 0 => /\ Latest = Len(ops)
                        /\ ops[Len(ops)].day = Day(clock)
      BY <1>1, LatestIsLast DEF EInv
    <2>2. row.due \/ row.previous # 0 =>
             /\ Expected = Day(clock) /\ Expected \in Sessions
             /\ Started(clock) \in 1 .. Slots
      BY <1>3, WindowIsToday
    <2>3. \A i \in DOMAIN ops :
             /\ ops[i].day <= Day(clock)
             /\ ops[i].day = Day(clock) => ops[i].slot <= Started(clock)
                                           /\ Latest # 0
      BY <1>1, <1>2 DEF EInv, WindowsPass, Today
    <2>4. row.due \/ row.previous # 0 => WindowRead(row)
      BY <1>1, <1>2, <1>3, <2>2, <2>3 DEF WindowRead
    <2>5. row.previous # 0 => ops[Len(ops)].day = row.day
      BY <1>3, <2>1, <2>2
    <2>6. shown # NoPlan => ShownRead(row)
      <3> SUFFICES ASSUME shown # NoPlan PROVE ShownRead(row)
        OBVIOUS
      <3>1. /\ shown.op \in Nat \ {0}
            /\ shown.action \in Recoveries \cup {"pending"}
            /\ shown.binding = Binding
        BY DEF PlanRow
      <3>2. shown.op \in DOMAIN ops /\ ops # <<>>
        BY <1>1, <3>1
      <3> QED
        BY <1>3, <3>1, <3>2 DEF ShownRead, Binding
    <2>7. row.pc = "judged" => Judged(row)
      BY <1>3, <2>1 DEF Judged, MayFollow, SlotIsNew
    <2>8. row.pc = "admitted" => row.shown # NoPlan
      BY <1>3
    <2> QED
      BY <1>1, <1>2, <1>3, <2>1, <2>4, <2>5, <2>6, <2>7, <2>8 DEF ReadingOK
  <1>5. \A w \in workers : w.slipped
    BY <1>1, NobodyAtWork
  <1>6. \A q \in Procs \ {p} : ctl[q] = Idle
    BY <1>1, EtfAssumption DEF EInv, HeldByTheBusy
  <1>7. lock' = p /\ UNCHANGED <<world, account, files, workers>>
    BY DEF Admit
  <1> QED
    BY <1>3, <1>4, <1>5, <1>6, <1>7, ReadKeeps

LEMMA TickKeeps ==
    ASSUME EInv, NEW p \in Procs, NEW trigger \in Triggers, Tick(p, trigger)
    PROVE  EInv'
PROOF
  BY AdmitKeeps DEF Tick

LEMMA RecoverKeeps ==
    ASSUME EInv, NEW p \in Procs, NEW trigger \in Triggers, Recover(p, trigger)
    PROVE  EInv'
PROOF
  <1>1. plan \in PlanRow \cup {NoPlan} /\ plan.op <= Len(ops)
    BY DEF EInv, Rows
  <1> QED
    BY <1>1, AdmitKeeps DEF Recover, StillStands

\* What recover_plan offers for a record.
LEMMA ActionMeans ==
    ASSUME NEW row \in Operation
    PROVE  /\ ActionFor(row) \in Recoveries \cup {"none"}
           /\ ActionFor(row) \in Recoveries =>
                 (ActionFor(row) \in {"resume", "reconcile"} <=> row.forward)
           /\ ActionFor(row) = "reconcile" => native[row.day] = "completed"
PROOF
  <1>1. row.forward \in BOOLEAN
    BY DEF Operation
  <1>2. /\ Assessed(row.day) \in {"blocked", "completed", "allowed"}
        /\ Assessed(row.day) = "completed" => native[row.day] = "completed"
    BY DEF Assessed
  <1>3. /\ Staged(row) \in {"reconcile", "resume", "none"}
        /\ Staged(row) = "reconcile" => native[row.day] = "completed"
    BY <1>2 DEF Staged
  <1>4. CASE row.forward
    BY <1>3, <1>4 DEF ActionFor, Recoveries
  <1>5. CASE ~row.forward
    BY <1>5 DEF ActionFor, Recoveries
  <1> QED
    BY <1>1, <1>4, <1>5

LEMMA ReplanKeeps ==
    ASSUME EInv, NEW p \in Procs, Replan(p)
    PROVE  EInv'
PROOF
  <1>1. ctl[p].pc = "admitted" /\ ctl[p].pc \in Reading
    BY DEF Replan, At, Reading
  <1>2. PICK c \in ReadingRow : c = ctl[p] /\ ReadingOK(c)
    BY <1>1, ReadingOne
  <1>3. /\ ctl[p] # Idle /\ lock = p /\ \A q \in Procs \ {p} : ctl[q] = Idle
        /\ \A w \in workers : w.slipped /\ w.owner # p
    BY <1>1, ReadingOne, HolderAlone, NobodyBeside
  <1>4. UNCHANGED <<world, account, files, workers>>
    BY DEF Replan
  <1>5. CASE Agrees(p) /\ ctl' = [ctl EXCEPT ![p].pc = "judged"] /\ UNCHANGED lock
    <2> DEFINE row == [c EXCEPT !.pc = "judged"]
    <2>1. /\ row \in ReadingRow /\ row.pc = "judged" /\ row.shown = c.shown
          /\ row.previous = c.previous /\ row.day = c.day /\ row.slot = c.slot
          /\ row.due = c.due
      BY DEF ReadingRow, Reading
    <2>2. ctl' = [ctl EXCEPT ![p] = row]
      BY <1>2, <1>5
    <2> HIDE DEF row
    <2>3. /\ c.shown # NoPlan /\ ShownRead(c)
          /\ c.shown.op \in DOMAIN ops /\ c.shown.action \in Recoveries
      BY <1>1, <1>2 DEF ReadingOK, ShownRead
    <2>4. /\ RecoveryAction(c.shown.op, TRUE) = c.shown.action
          /\ c.shown.op = c.previous
          /\ c.shown.action = "retry" => SlotIsNew(c.shown.op, c.slot)
      BY <1>2, <1>5 DEF Agrees
    <2>5. c.previous # 0 /\ c.previous = Len(ops)
      <3>1. c.shown.op # 0
        BY <2>3 DEF EInv, Rows
      <3> QED
        BY <1>2, <2>4, <3>1 DEF ReadingOK
    <2>6. ops[Len(ops)] \in Operation /\ ops[Len(ops)].day = c.day
      BY <1>2, <2>3, <2>4, <2>5, OpsAreRows DEF EInv, ReadingOK
    <2>7. ActionFor(ops[Len(ops)]) = c.shown.action
      BY <2>3, <2>4, <2>5 DEF RecoveryAction, Recoveries
    <2>8. Judged(row)
      BY <2>1, <2>3, <2>4, <2>5, <2>6, <2>7, ActionMeans DEF Judged, SlotIsNew
    <2>9. ReadingOK(row)
      BY <1>2, <2>1, <2>8 DEF ReadingOK, WindowRead, ShownRead
    <2> QED
      BY <1>3, <1>4, <1>5, <2>1, <2>2, <2>9, ReadKeeps
  <1>6. CASE ctl' = [ctl EXCEPT ![p] = Idle] /\ lock' = Nobody
    <2>1. LeavesBehind(p)
      BY <1>3, <1>4 DEF LeavesBehind
    <2> QED
      BY <1>3, <1>4, <1>6, <2>1, LeaveKeeps
  <1> QED
    BY <1>5, <1>6 DEF Replan

\* What the record of a judged attempt says.
LEMMA JudgedStart ==
    ASSUME EInv, NEW p \in Procs, Start(p)
    PROVE  \E c \in ReadingRow, row \in Operation, next \in BusyRow :
              /\ c = ctl[p] /\ ReadingOK(c) /\ c.pc = "judged"
              /\ ops' = Append(ops, row)
              /\ row.day = c.day /\ row.slot = c.slot /\ row.state = "running"
              /\ row.action = IF c.shown = NoPlan THEN "tick" ELSE c.shown.action
              /\ row.credit = FALSE /\ row.previous = c.previous
              /\ ctl' = [ctl EXCEPT ![p] = next] /\ next.op = Len(ops) + 1
              /\ \/ next.pc = "launch"
                 \/ /\ next.pc = "keep" /\ c.previous # 0
                    /\ ops[c.previous].state = "running"
PROOF
  <1>1. ctl[p].pc = "judged" /\ ctl[p].pc \in Reading
    BY DEF Start, At, Reading
  <1>2. PICK c \in ReadingRow : c = ctl[p] /\ ReadingOK(c)
    BY <1>1, ReadingOne
  <1>3. /\ WindowRead(c) /\ Judged(c) /\ Len(ops) \in Nat
        /\ c.shown # NoPlan => c.shown.action \in Recoveries /\ c.previous # 0
    BY <1>1, <1>2 DEF ReadingOK, Judged, ShownRead, EInv, Rows
  <1>4. /\ c.day \in Days /\ c.slot \in 1 .. Slots /\ c.previous \in Nat
        /\ c.trigger \in Triggers /\ c.last \in BOOLEAN
    BY <1>3, DaysAreNumbers DEF WindowRead, ReadingRow
  <1>5. PICK action \in Actions :
           /\ action = ActionOf(p)
           /\ action = IF c.shown = NoPlan THEN "tick" ELSE c.shown.action
    BY <1>2, <1>3 DEF ActionOf, Actions, Recoveries
  <1> DEFINE row == [day |-> c.day, slot |-> c.slot, state |-> "running",
                     trigger |-> c.trigger, action |-> action,
                     forward |-> FALSE, credit |-> FALSE,
                     previous |-> c.previous, resolved |-> 0]
  <1>6. row \in Operation
    BY <1>4 DEF Operation, OpStates
  <1>7. ops' = Append(ops, row)
    BY <1>2, <1>5 DEF Start
  <1>8. PICK next \in BusyRow :
           /\ ctl' = [ctl EXCEPT ![p] = next] /\ next.op = Len(ops) + 1
           /\ \/ next.pc = "launch"
              \/ /\ next.pc = "keep" /\ c.previous # 0
                 /\ ops[c.previous].state = "running"
    <2>1. PICK task \in Tasks :
             task = IF ActionOf(p) \in {"resume", "reconcile"}
                    THEN "execute" ELSE "collect"
      BY DEF Tasks
    <2>2. PICK pc \in Busy :
             /\ pc = IF Unfinished(p) THEN "keep" ELSE "launch"
             /\ \/ pc = "launch"
                \/ /\ pc = "keep" /\ c.previous # 0
                   /\ ops[c.previous].state = "running"
      BY <1>2, <1>3 DEF Busy, Unfinished
    <2> DEFINE next == [pc |-> pc, op |-> Len(ops) + 1, last |-> c.last,
                        task |-> task]
    <2>3. ctl' = [ctl EXCEPT ![p] = next]
      BY <1>2, <2>1, <2>2, Zenon DEF Start
    <2>4. next \in BusyRow /\ next.op = Len(ops) + 1 /\ next.pc = pc
      BY <1>3, <1>4, <2>1, <2>2 DEF BusyRow
    <2> HIDE DEF next
    <2> QED
      BY <2>2, <2>3, <2>4
  <1>9. /\ row.day = c.day /\ row.slot = c.slot /\ row.state = "running"
        /\ row.action = IF c.shown = NoPlan THEN "tick" ELSE c.shown.action
        /\ row.credit = FALSE /\ row.previous = c.previous
    BY <1>5
  <1> HIDE DEF row
  <1> QED
    BY <1>1, <1>2, <1>6, <1>7, <1>8, <1>9

LEMMA StartKeeps ==
    ASSUME EInv, NEW p \in Procs, Start(p)
    PROVE  EInv'
PROOF
  <1> DEFINE n == Len(ops)
  <1>1. PICK c \in ReadingRow, row \in Operation, next \in BusyRow :
              /\ c = ctl[p] /\ ReadingOK(c) /\ c.pc = "judged"
              /\ ops' = Append(ops, row)
              /\ row.day = c.day /\ row.slot = c.slot /\ row.state = "running"
              /\ row.action = IF c.shown = NoPlan THEN "tick" ELSE c.shown.action
              /\ row.credit = FALSE /\ row.previous = c.previous
              /\ ctl' = [ctl EXCEPT ![p] = next] /\ next.op = n + 1
              /\ \/ next.pc = "launch"
                 \/ /\ next.pc = "keep" /\ c.previous # 0
                    /\ ops[c.previous].state = "running"
    BY JudgedStart
  <1>2. /\ ops \in Seq(Operation) /\ n \in Nat /\ n < MaxOps /\ MaxOps \in Nat
        /\ DOMAIN ops = 1 .. n /\ DOMAIN ctl = Procs /\ ctl[p] # Idle
        /\ clock \in Nat /\ Slots \in Nat /\ c.previous \in {0, n}
        /\ WindowRead(c) /\ Judged(c) /\ workers \subseteq WorkerRow
    <2>1. ctl[p] # Idle
      BY <1>1 DEF Idle
    <2> QED
      BY <1>1, <2>1, EtfAssumption DEF EInv, Rows, ReadingOK, Judged
  <1>3. /\ Day(clock) \in Nat /\ Started(clock) \in Nat
        /\ c.day \in Nat \ {0} /\ c.slot \in Nat \ {0} /\ c.day \in Sessions
        /\ c.day <= Day(clock)
        /\ c.day = Day(clock) => c.slot <= Started(clock)
    <2>1. /\ c.day \in Sessions /\ c.slot \in 1 .. Slots
          /\ c.day <= Day(clock)
          /\ c.day = Day(clock) => c.slot <= Started(clock)
      BY <1>2 DEF WindowRead
    <2>2. Day(clock) \in Nat /\ Started(clock) \in 0 .. Slots
      BY <1>2, WindowTypes
    <2>3. c.day \in Nat \ {0}
      BY <2>1, DaysAreNumbers
    <2>4. Started(clock) \in Nat /\ c.slot \in Nat \ {0}
      BY <1>2, <2>1, <2>2
    <2> QED
      BY <2>1, <2>2, <2>3, <2>4
  <1>4. /\ ops' \in Seq(Operation) /\ Len(ops') = n + 1
        /\ DOMAIN ops' = 1 .. n + 1 /\ ops'[n + 1] = row
        /\ \A i \in 1 .. n : ops'[i] = ops[i]
    BY <1>1, <1>2
  <1>5. UNCHANGED <<world, account, originals, plan, torn, lock, workers>>
    BY DEF Start
  <1> HIDE DEF n
  <1>6. ctl'[p] = next
    BY <1>1, <1>2
  <1>7. ControlOK(p)'
    <2>1. ops' # <<>> /\ Previous(p)' = c.previous
      BY <1>1, <1>2, <1>4, <1>6 DEF Previous
    <2>2. next.pc = "keep" =>
             c.previous \in 1 .. n /\ ops'[c.previous].state = "running"
      BY <1>1, <1>2, <1>4
    <2> QED
      BY <1>1, <1>2, <1>4, <1>6, <2>1, <2>2
         DEF ControlOK, BusyOK, WithChild, Reading
  <1>8. WorkersOK' /\ AccountOK'
    <2>1. \A w \in workers : w.slipped
      BY <1>1, NobodyBeside DEF Reading
    <2>2. \A w \in workers : WorkerOK(w)'
      BY <1>2, <1>4, <1>5, <2>1, OrphansStay
    <2>3. AccountOK'
      BY <1>5, AccountSleeps
    <2> QED
      BY <1>5, <2>1, <2>2, <2>3 DEF WorkersOK
  <1>9. \A i \in 1 .. n :
           /\ ops[i].day \in Nat /\ ops[i].slot \in Nat
           /\ ops[i].day <= c.day
           /\ ops[i].day = c.day => ops[i].slot <= c.slot /\ c.previous # 0
    BY <1>2, OpsAreNumbers DEF EInv, WindowRead
  <1>10. WindowsPass'
    <2>1. Day(clock)' = Day(clock) /\ Started(clock)' = Started(clock)
      BY <1>5 DEF world
    <2>2. ASSUME NEW i \in DOMAIN ops'
          PROVE  /\ ops'[i].day \in Sessions /\ ops'[i].day <= Day(clock)
                 /\ ops'[i].day = Day(clock) => ops'[i].slot <= Started(clock)
      <3>1. CASE i = n + 1
        BY <1>1, <1>3, <1>4, <3>1
      <3>2. CASE i \in 1 .. n
        BY <1>2, <1>4, <3>2 DEF EInv, WindowsPass
      <3> QED
        BY <1>2, <1>4, <3>1, <3>2
    <2>3. ASSUME NEW i \in DOMAIN ops', NEW j \in DOMAIN ops', i < j
          PROVE  /\ ops'[i].day <= ops'[j].day
                 /\ ops'[i].day = ops'[j].day => ops'[i].slot <= ops'[j].slot
      <3>1. i \in 1 .. n /\ ops'[i] = ops[i]
        BY <1>2, <1>4, <2>3
      <3>2. CASE j = n + 1
        BY <1>1, <1>4, <1>9, <3>1, <3>2
      <3>3. CASE j \in 1 .. n
        BY <1>2, <1>4, <2>3, <3>1, <3>3 DEF EInv, WindowsPass
      <3> QED
        BY <1>2, <1>4, <3>2, <3>3
    <2> QED
      BY <2>1, <2>2, <2>3 DEF WindowsPass
  <1>11. ASSUME NEW i \in 1 .. n + 1
         PROVE  RecordOK(i)'
    <2>1. CASE i = n + 1
      <3>1. row.action = "tick" /\ c.previous # 0 =>
               ops'[c.previous].state \in Retryable
        <4>1. c.shown # NoPlan => row.action \in Recoveries
          BY <1>1 DEF ReadingOK, ShownRead
        <4> QED
          BY <1>1, <1>2, <1>4, <4>1 DEF Judged, Recoveries, n
      <3> QED
        BY <1>1, <1>2, <1>4, <2>1, <3>1 DEF RecordOK
    <2>2. CASE i \in 1 .. n
      <3>1. RecordOK(i) /\ ops'[i] = ops[i] /\ ops[i] \in Operation
        BY <1>2, <1>4, <2>2, OpsAreRows DEF EInv, RecordsOK
      <3>2. ops[i].previous \in Nat /\ ops[i].previous < i
        BY <3>1 DEF RecordOK, Operation
      <3>3. ops[i].previous # 0 => ops'[ops[i].previous] = ops[ops[i].previous]
        BY <1>2, <1>4, <2>2, <3>2
      <3>4. ops[i].state = "interrupted" =>
               /\ ops[i].resolved \in 1 .. n
               /\ ops'[ops[i].resolved] = ops[ops[i].resolved]
        BY <1>2, <1>4, <3>1 DEF RecordOK
      <3>5. /\ i \in DOMAIN ops' /\ ops'[i] = ops[i]
            /\ UNCHANGED <<native, observer, originals>>
            /\ ops[i].resolved \in 1 .. n => ops[i].resolved \in DOMAIN ops'
        BY <1>2, <1>4, <1>5, <2>2 DEF account
      <3> QED
        BY <3>1, <3>3, <3>4, <3>5 DEF RecordOK
    <2> QED
      BY <1>2, <2>1, <2>2
  <1>12. ASSUME NEW i \in 1 .. n, ops[i].day = c.day,
                row.action \in {"tick", "retry"}
         PROVE  ops[i].slot < c.slot
    <2>1. c.previous = n /\ c.previous # 0 /\ n \in DOMAIN ops
      BY <1>2, <1>9, <1>12
    <2>2. ops[n].slot < c.slot
      <3>1. CASE c.shown = NoPlan
        BY <1>2, <2>1, <3>1 DEF Judged, n
      <3>2. CASE c.shown # NoPlan
        <4>1. row.action \in Recoveries /\ row.action = c.shown.action
          BY <1>1, <3>2 DEF ReadingOK, ShownRead
        <4> QED
          BY <1>2, <1>12, <3>2, <4>1 DEF Judged, Recoveries, n
      <3> QED
        BY <3>1, <3>2
    <2>3. ops[n].day = c.day /\ ops[n].slot \in Nat
      BY <1>1, <1>2, <1>9, <2>1 DEF ReadingOK, n
    <2>4. ops[i].slot <= ops[n].slot
      <3>1. CASE i = n
        BY <2>3, <3>1
      <3>2. CASE i < n
        BY <1>2, <1>12, <2>1, <2>3, <3>2 DEF EInv, WindowsPass
      <3> QED
        BY <1>2, <3>1, <3>2
    <2> QED
      BY <1>3, <1>9, <2>2, <2>3, <2>4
  <1>13. RecordsOK'
    <2>1. \A d \in Days : observer'[d] <= n + 1
      <3>1. \A d \in Days : observer[d] \in Nat /\ observer[d] <= n
        BY DEF EInv, Rows, RecordsOK, n
      <3> QED
        BY <1>2, <1>5, <3>1 DEF account
    <2>2. \A i \in 1 .. n : Collecting(i)' = Collecting(i)
      BY <1>4 DEF Collecting
    <2>3. ASSUME NEW i \in 1 .. n + 1, NEW j \in 1 .. n + 1, i < j,
                 ops'[i].day = ops'[j].day, Collecting(i)', Collecting(j)'
          PROVE  ops'[i].slot < ops'[j].slot
      <3>1. i \in 1 .. n /\ ops'[i] = ops[i] /\ Collecting(i)
        BY <1>2, <1>4, <2>2, <2>3
      <3>2. CASE j = n + 1
        BY <1>1, <1>4, <1>12, <2>3, <3>1, <3>2 DEF Collecting
      <3>3. CASE j \in 1 .. n
        BY <1>2, <1>4, <2>2, <2>3, <3>1, <3>3 DEF EInv, RecordsOK
      <3> QED
        BY <1>2, <3>2, <3>3
    <2> QED
      BY <1>4, <1>11, <2>1, <2>3 DEF RecordsOK
  <1>14. /\ Len(ops) <= Len(ops') /\ Len(ops') <= MaxOps
         /\ workers' \subseteq WorkerRow
    BY <1>2, <1>4, <1>5 DEF n
  <1> QED
    BY <1>1, <1>2, <1>4, <1>5, <1>7, <1>8, <1>10, <1>13, <1>14, AdvanceKeeps
-----------------------------------------------------------------------------
(* What happens around them.                                               *)

LEMMA AroundKeeps ==
    ASSUME EInv, Rows', WindowsPass', AccountMoves, AccountOK',
           clock' \in {clock, clock + 1},
           UNCHANGED <<ops, originals, lock, ctl, workers>>,
           \A w \in workers : w.pc = "native" => native'[w.day] = native[w.day]
    PROVE  EInv'
PROOF
  <1>1. RecordsOK'
    BY RecordsFrame
  <1>2. ASSUME NEW p \in Procs, ctl[p].pc \in WithChild
        PROVE  \E w \in workers' : w.owner = p
    BY <1>2 DEF EInv, ControlOK, BusyOK, WithChild, Busy
  <1>3. \A p \in Procs : ControlOK(p)'
    BY <1>2, ControlFrame
  <1>4. \A w \in workers : WorkerOK(w)'
    BY WorkersFrame
  <1>5. WorkersOK' /\ HeldByTheBusy'
    BY <1>4 DEF EInv, WorkersOK, HeldByTheBusy
  <1> QED
    BY <1>1, <1>3, <1>5 DEF EInv

LEMMA TickClockKeeps ==
    ASSUME EInv, TickClock
    PROVE  EInv'
PROOF
  <1>1. /\ clock' = clock + 1 /\ Day(clock + 1) \in Days
        /\ UNCHANGED <<enabled, switches, account, files, lock, ctl, workers>>
        /\ clock \in Nat
    BY DEF TickClock, EInv, Rows
  <1>2. clock + 1 \in Nat /\ Day(clock') = Day(clock + 1) /\ Day(clock + 1) >= 1
    <2>1. Day(clock + 1) \in Nat \ {0}
      BY <1>1, DaysAreNumbers
    <2>2. Day(clock') = Day(clock + 1)
      BY <1>1 DEF Day
    <2> QED
      BY <1>1, <2>1, <2>2
  <1>3. Rows'
    BY <1>1, <1>2 DEF EInv, Rows, files, account, Day
  <1>4. /\ Day(clock) \in Nat /\ Started(clock) \in Nat
        /\ Started(clock + 1) \in Nat
    <2>1. Slots \in Nat
      BY EtfAssumption
    <2> QED
      BY <1>1, <1>2, <2>1, WindowTypes
  <1>5. WindowsPass'
    <2>1. ASSUME NEW i \in DOMAIN ops
          PROVE  /\ ops[i].day \in Sessions /\ ops[i].day <= Day(clock + 1)
                 /\ ops[i].day = Day(clock + 1) =>
                       ops[i].slot <= Started(clock + 1)
      <3>1. ops[i].day \in Nat /\ ops[i].slot \in Nat
        BY OpsAreNumbers DEF EInv
      <3>2. /\ ops[i].day \in Sessions /\ ops[i].day <= Day(clock)
            /\ ops[i].day = Day(clock) => ops[i].slot <= Started(clock)
        BY DEF EInv, WindowsPass
      <3> QED
        BY <1>1, <1>4, <3>1, <3>2, WindowStep
    <2>2. /\ Day(clock)' = Day(clock + 1) /\ Started(clock)' = Started(clock + 1)
          /\ UNCHANGED ops
      BY <1>1 DEF Day, Started, Position, files
    <2> QED
      BY <2>1, <2>2 DEF EInv, WindowsPass
  <1>6. AccountMoves /\ AccountOK'
    BY <1>1, AccountSleeps
  <1> QED
    BY <1>1, <1>3, <1>5, <1>6, AroundKeeps DEF account, files

\* A switch is turned, or what verifying the account would answer changes.
LEMMA SwitchKeeps ==
    ASSUME EInv, Switch \/ \E h \in Healths : Disturb(h)
    PROVE  EInv'
PROOF
  <1>1. /\ UNCHANGED <<clock, native, observer, elsewhere, data, files, lock,
                       ctl, workers>>
        /\ health' \in Healths /\ enabled' \in BOOLEAN
        /\ switches' \in 0 .. MaxSwitches
    <2>1. /\ enabled \in BOOLEAN /\ health \in Healths /\ MaxSwitches \in Nat
          /\ switches \in 0 .. MaxSwitches
      BY EtfAssumption DEF EInv, Rows
    <2>2. CASE Switch
      BY <2>1, <2>2 DEF Switch, account
    <2>3. CASE \E h \in Healths : Disturb(h)
      BY <2>1, <2>3 DEF Disturb
    <2> QED
      BY <2>2, <2>3
  <1>2. Rows'
    BY <1>1 DEF EInv, Rows, files
  <1>3. AccountMoves /\ AccountOK'
    BY <1>1, AccountRests, WriterRests DEF EInv, Rows
  <1> QED
    BY <1>1, <1>2, <1>3, WindowsFrame, AroundKeeps DEF files

LEMMA ElsewhereKeeps ==
    ASSUME EInv, ElsewhereEnd \/ \E d \in Days : ElsewhereBegin(d)
    PROVE  EInv'
PROOF
  <1>1. /\ UNCHANGED <<world, health, data, files, lock, ctl, workers>>
        /\ Len(ops) \in Nat
    BY DEF ElsewhereBegin, ElsewhereEnd, EInv, Rows
  <1>2. \A w \in workers : w.pc # "native"
    BY DEF ElsewhereBegin, ElsewhereEnd, AccountFree, EInv, AccountOK
  <1>3. AccountMoves /\ AccountOK'
    <2>1. ASSUME NEW d \in Days, ElsewhereBegin(d)
          PROVE  AccountMoves /\ AccountOK'
      <3>1. /\ native' = [native EXCEPT ![d] = "running"] /\ elsewhere' = d
            /\ native[d] # "completed" /\ UNCHANGED observer
        BY <2>1 DEF ElsewhereBegin, Assessed
      <3>2. native'[d] = "running"
        BY <3>1 DEF EInv, Rows
      <3>3. AccountMoves
        BY <1>1, <3>1 DEF EInv, Rows, RecordsOK, AccountMoves, NativeStates
      <3> QED
        BY <1>1, <1>2, <3>1, <3>2, <3>3 DEF AccountOK
    <2>2. CASE ElsewhereEnd
      <3>1. elsewhere \in Days /\ native[elsewhere] = "running" /\ elsewhere' = 0
        BY <2>2 DEF ElsewhereEnd, EInv, Rows, AccountOK
      <3>2. AccountMoves
        BY <1>1, <2>2, <3>1
           DEF ElsewhereEnd, EInv, Rows, RecordsOK, AccountMoves, NativeStates
      <3> QED
        BY <1>1, <1>2, <3>1, <3>2 DEF AccountOK
    <2> QED
      BY <2>1, <2>2
  <1>4. Rows'
    BY <1>1, <1>3 DEF EInv, Rows, AccountMoves, world, files
  <1> QED
    BY <1>1, <1>2, <1>3, <1>4, WindowsFrame, AroundKeeps DEF world, files

\* An operator looks an operation up and is answered.
LEMMA PreviewKeeps ==
    ASSUME EInv, Answer \/ \E i \in DOMAIN ops : LookUp(i)
    PROVE  EInv'
PROOF
  <1>1. UNCHANGED <<world, account, ops, originals, torn, lock, ctl, workers>>
    BY DEF Answer, LookUp
  <1>2. plan' \in PlanRow /\ plan'.op <= Len(ops)
    <2>1. ASSUME NEW i \in DOMAIN ops, LookUp(i)
          PROVE  plan' \in PlanRow /\ plan'.op <= Len(ops)
      <3>1. /\ ops \in Seq(Operation) /\ Len(ops) \in Nat /\ i \in 1 .. Len(ops)
            /\ ops[i] \in Operation /\ ops[Len(ops)] \in Operation
            /\ ops # <<>>
        BY OpsAreRows DEF EInv, Rows
      <3>2. Expected \in Nat
        <4>1. Expected \in {0} \cup Sessions
          BY ExpectedToday DEF EInv
        <4> QED
          BY <4>1, DaysAreNumbers
      <3>3. PICK binding \in [latest : Operation \cup {NoPlan},
                              enabled : BOOLEAN,
                              account : [Days -> NativeStates],
                              data : SUBSET Days, expected : Nat] :
               binding = Binding
        BY <3>1, <3>2 DEF Binding, EInv, Rows
      <3>4. plan' = [op |-> i, row |-> ops[i], action |-> "pending", at |-> 0,
                     binding |-> binding]
        BY <2>1, <3>3 DEF LookUp
      <3> QED
        BY <3>1, <3>4 DEF PlanRow
    <2>2. CASE Answer
      <3>1. /\ plan \in PlanRow /\ plan.op <= Len(ops) /\ clock \in Nat
            /\ ActionFor(plan.row) # "none"
            /\ plan' = [plan EXCEPT !.action = ActionFor(plan.row), !.at = clock]
        BY <2>2 DEF Answer, EInv, Rows
      <3>2. ActionFor(plan.row) \in Recoveries
        <4>1. plan.row \in Operation
          BY <3>1 DEF PlanRow
        <4> QED
          BY <3>1, <4>1, ActionMeans
      <3>3. PICK action \in Recoveries : action = ActionFor(plan.row)
        BY <3>2
      <3>4. plan' = [plan EXCEPT !.action = action, !.at = clock]
        BY <3>1, <3>3
      <3> QED
        BY <3>1, <3>4 DEF PlanRow
    <2> QED
      BY <2>1, <2>2
  <1>3. Rows'
    BY <1>1, <1>2 DEF EInv, Rows, world, account
  <1>4. AccountMoves /\ AccountOK'
    BY <1>1, AccountSleeps
  <1> QED
    BY <1>1, <1>3, <1>4, WindowsFrame, AroundKeeps DEF world, account
-----------------------------------------------------------------------------
LEMMA EInvInit == Init => EInv
PROOF
  <1> SUFFICES ASSUME Init PROVE EInv
    OBVIOUS
  <1>1. clock \in Nat /\ Day(clock) = 1
    <2> DEFINE N == 2 * Slots + 1
    <2>1. N \in Nat \ {0}
      BY EtfAssumption
    <2>2. clock = N
      BY DEF Init
    <2> HIDE DEF N
    <2>3. N \div N = 1
      BY <2>1
    <2>4. Day(N) = N \div N
      BY DEF Day, N
    <2> QED
      BY <2>1, <2>2, <2>3, <2>4
  <1>2. ops = <<>> /\ ops \in Seq(Operation) /\ Len(ops) = 0 /\ DOMAIN ops = {}
    BY DEF Init
  <1>3. Rows
    <2>1. /\ native \in [Days -> NativeStates] /\ observer \in [Days -> Nat]
          /\ ctl \in [Procs -> {Idle} \cup ReadingRow \cup BusyRow]
          /\ data \subseteq Days /\ workers \subseteq WorkerRow
          /\ health \in Healths /\ torn \in BOOLEAN
          /\ elsewhere \in {0} \cup Days
      BY DEF Init, NativeStates, Healths
    <2>2. /\ enabled \in BOOLEAN /\ switches \in 0 .. MaxSwitches
          /\ lock \in Procs \cup {Nobody} /\ Len(ops) <= MaxOps
      BY <1>2, EtfAssumption DEF Init
    <2>3. plan = NoPlan /\ plan.op = 0
      BY DEF Init, NoPlan
    <2> QED
      BY <1>1, <1>2, <2>1, <2>2, <2>3 DEF Rows
  <1>4. HeldByTheBusy /\ \A p \in Procs : ControlOK(p)
    BY EtfAssumption DEF Init, HeldByTheBusy, ControlOK, Idle, Reading, Busy
  <1>5. WorkersOK /\ AccountOK /\ WindowsPass /\ RecordsOK
    BY <1>2 DEF Init, WorkersOK, AccountOK, WindowsPass, RecordsOK
  <1> QED
    BY <1>3, <1>4, <1>5 DEF EInv

LEMMA ControllerKeeps ==
    ASSUME EInv, NEW p \in Procs, Controller(p)
    PROVE  EInv'
PROOF
  BY ReplanKeeps, StartKeeps, KeepOriginalKeeps, ResolveKeeps, SpawnKeeps,
     SaveMarkerKeeps, SendKeeps, ReturnKeeps, GiveUpKeeps DEF Controller

LEMMA EInvNext == EInv /\ [Next]_vars => EInv'
PROOF
  <1> SUFFICES ASSUME EInv, [Next]_vars PROVE EInv'
    OBVIOUS
  <1>1. CASE UNCHANGED vars
    <2>1. UNCHANGED <<world, account, files, lock, ctl, workers>>
      BY <1>1 DEF vars
    <2>2. Rows'
      BY <2>1 DEF EInv, Rows, world, account, files
    <2>3. AccountMoves /\ AccountOK' /\ WindowsPass'
      BY <2>1, AccountSleeps, WindowsFrame DEF world, files
    <2> QED
      BY <2>1, <2>2, <2>3, AroundKeeps DEF world, account, files
  <1>2. CASE Next
    BY <1>2, TickClockKeeps, SwitchKeeps, ElsewhereKeeps, PreviewKeeps,
       TickKeeps, RecoverKeeps, ControllerKeeps, InterruptKeeps, CrashKeeps,
       WorkerKeeps DEF Next
  <1> QED
    BY <1>1, <1>2

LEMMA EInvAlways == Spec => []EInv
PROOF
  BY EInvInit, EInvNext, PTL DEF Spec
-----------------------------------------------------------------------------
(* The results.                                                            *)

\* Workers that outlive a killed controller keep everybody out (invoke,
\* workers_running), and no two of them are ever asked at once; those that a
\* Ctrl-C let slip before they were marked are the exception.
THEOREM OrphansStayAlone == Spec => []OrphansKeepOut
PROOF
  <1>1. EInv => OrphansKeepOut
    <2> SUFFICES ASSUME EInv PROVE OrphansKeepOut
      OBVIOUS
    <2>1. \A w \in workers : WorkerOK(w)
      BY DEF EInv, WorkersOK
    <2> QED
      BY <2>1 DEF EInv, WorkersOK, WorkerOK, OrphansKeepOut
  <1> QED
    BY <1>1, EInvAlways, PTL

\* What the operation.json files say is so: attempts advance, credit is
\* earned, completed is observed and originals are kept (execute).
THEOREM RecordsTellTheTruth == Spec => []RecordsAreTrue
PROOF
  <1>1. EInv => RecordsAreTrue
    <2> SUFFICES ASSUME EInv PROVE RecordsAreTrue
      OBVIOUS
    <2>1. ops \in Seq(Operation) /\ Len(ops) \in Nat /\ Len(ops) <= MaxOps
          /\ \A i \in DOMAIN ops : RecordOK(i) /\ ops[i] \in Operation
      BY OpsAreRows DEF EInv, Rows, RecordsOK
    <2>2. TypeOK
      <3>1. observer \in [Days -> 0 .. MaxOps]
        BY <2>1, EtfAssumption DEF EInv, Rows, RecordsOK
      <3>2. \A p \in Procs : ctl[p].pc \in Busy \cup Reading \cup {"idle"}
        <4>1. \A p \in Procs : ctl[p] \in {Idle} \cup ReadingRow \cup BusyRow
          BY DEF EInv, Rows
        <4> QED
          BY <4>1 DEF Idle, ReadingRow, BusyRow
      <3>3. \A i \in DOMAIN ops :
               /\ ops[i].day \in Days /\ ops[i].slot \in 1 .. Slots
               /\ ops[i].state \in OpStates /\ ops[i].previous < i
        BY <2>1 DEF Operation, RecordOK
      <3>4. plan.op \in 0 .. Len(ops)
        BY <2>1 DEF EInv, Rows, PlanRow, NoPlan
      <3> QED
        BY <3>1, <3>2, <3>3, <3>4 DEF EInv, Rows, TypeOK, Busy, Reading
    <2>3. AttemptsAdvance
      BY <2>1 DEF EInv, RecordsOK, AttemptsAdvance, RecordOK
    <2>4. CreditIsEarned /\ CompletedIsObserved /\ OriginalsKept
      BY <2>1 DEF CreditIsEarned, CompletedIsObserved, OriginalsKept, RecordOK
    <2> QED
      BY <2>2, <2>3, <2>4 DEF RecordsAreTrue
  <1> QED
    BY <1>1, EInvAlways, PTL

\* A last operation.json is written over an unfinished one only.
LEMMA ConcludesTheUnfinished ==
    ASSUME EInv, NEW p \in Procs, Return(p) \/ GiveUp(p), NEW i \in DOMAIN ops,
           ops[i].state # "running"
    PROVE  ops'[i] = ops[i]
PROOF
  <1>1. ctl[p].pc = "waiting" /\ ctl[p].pc \in Busy
    <2>1. ctl[p].pc = "waiting"
      BY Zenon DEF Return, GiveUp, At
    <2> QED
      BY <2>1 DEF Busy
  <1>2. ops[ctl[p].op].state = "running" /\ ops \in Seq(Operation)
    BY <1>1, BusyOne DEF EInv, Rows
  <1>3. \/ ops' = ops
        \/ \E said : ops' = [ops EXCEPT ![ctl[p].op] = said]
    BY Zenon DEF Return, GiveUp, Follow, Conclude
  <1> QED
    BY <1>2, <1>3

\* A new record is what was judged, of what was shown and is still the newest.
MadeAsShown(p) ==
    LET shown == ctl[p].shown
        new == ops'[Len(ops')]
    IN  /\ shown.binding.latest = ops[Len(ops)]
        /\ new.previous = Len(ops)
        /\ new.action = shown.action
        /\ new.day = shown.binding.expected
        /\ new.action \in {"resume", "reconcile"} <=> ops[Len(ops)].forward
        /\ new.action = "reconcile" => native[new.day] = "completed"

LEMMA StartIsFaithful ==
    ASSUME EInv, NEW p \in Procs, Start(p)
    PROVE  /\ \A i \in DOMAIN ops : ops'[i] = ops[i]
           /\ ctl[p].shown # NoPlan => MadeAsShown(p)
           /\ UNCHANGED native
PROOF
  <1>1. PICK c \in ReadingRow, row \in Operation, next \in BusyRow :
              /\ c = ctl[p] /\ ReadingOK(c) /\ c.pc = "judged"
              /\ ops' = Append(ops, row)
              /\ row.day = c.day /\ row.slot = c.slot /\ row.state = "running"
              /\ row.action = IF c.shown = NoPlan THEN "tick" ELSE c.shown.action
              /\ row.credit = FALSE /\ row.previous = c.previous
              /\ ctl' = [ctl EXCEPT ![p] = next] /\ next.op = Len(ops) + 1
              /\ \/ next.pc = "launch"
                 \/ /\ next.pc = "keep" /\ c.previous # 0
                    /\ ops[c.previous].state = "running"
    BY JudgedStart
  <1>2. ops \in Seq(Operation) /\ Len(ops) \in Nat
    BY DEF EInv, Rows
  <1>3. /\ \A i \in DOMAIN ops : ops'[i] = ops[i]
        /\ ops'[Len(ops')] = row
    BY <1>1, <1>2
  <1>4. ASSUME c.shown # NoPlan
        PROVE  MadeAsShown(p)
    <2>1. Judged(c) /\ ShownRead(c) /\ c.previous = Len(ops)
      BY <1>1, <1>4 DEF ReadingOK, Judged
    <2>2. /\ c.shown.binding.latest = ops[Len(ops)]
          /\ c.shown.binding.expected = c.day
          /\ c.shown.action \in {"resume", "reconcile"} <=> ops[Len(ops)].forward
          /\ c.shown.action = "reconcile" => native[c.day] = "completed"
      BY <1>4, <2>1 DEF Judged, ShownRead
    <2> QED
      BY <1>1, <1>3, <1>4, <2>1, <2>2 DEF MadeAsShown
  <1>5. UNCHANGED native
    BY DEF Start, account
  <1> QED
    BY <1>1, <1>3, <1>4, <1>5

\* Who is at work is not idle, and nobody else moves with it.
LEMMA AtWork ==
    ASSUME EInv, NEW p \in Procs, Controller(p) \/ Interrupt(p) \/ Crash(p)
    PROVE  ctl[p].pc # "idle" /\ \A q \in Procs \ {p} : ctl'[q] = ctl[q]
PROOF
  <1>1. DOMAIN ctl = Procs
    BY DEF EInv, Rows
  <1>2. \E row : ctl' = [ctl EXCEPT ![p] = row]
    <2>1. CASE Replan(p) \/ Start(p) \/ KeepOriginal(p) \/ Resolve(p) \/ Spawn(p)
      BY <2>1, Zenon DEF Replan, Start, KeepOriginal, Resolve, Spawn
    <2>2. CASE SaveMarker(p) \/ Send(p)
      BY <2>2, Zenon DEF SaveMarker, Send
    <2>3. CASE Return(p) \/ GiveUp(p)
      BY <2>3, Zenon DEF Return, GiveUp, Follow, Conclude
    <2>4. CASE Interrupt(p) \/ Crash(p)
      BY <2>4, Zenon DEF Interrupt, Crash
    <2> QED
      BY <2>1, <2>2, <2>3, <2>4 DEF Controller
  <1>3. ctl[p].pc # "idle"
    <2>1. CASE Controller(p)
      <3>1. \E at \in Reading \cup Busy : ctl[p].pc = at
        BY <2>1, Zenon
           DEF Controller, Replan, Start, KeepOriginal, Resolve, Spawn,
               SaveMarker, Send, Return, GiveUp, At, Reading, Busy
      <3> QED
        BY <3>1 DEF Reading, Busy
    <2>2. CASE Interrupt(p) \/ Crash(p)
      BY <2>2 DEF Interrupt, Crash, At
    <2> QED
      BY <2>1, <2>2
  <1> QED
    BY <1>1, <1>2, <1>3

LEMMA OnlyTheJudged ==
    ASSUME EInv, NEW p \in Procs, Start(p), NEW q \in Procs, At(q, "judged")
    PROVE  q = p
PROOF
  <1>1. ctl[p].pc = "judged"
    BY DEF Start, At
  <1> QED
    BY <1>1, HolderAlone DEF Idle, At

\* Recoveries are faithful to the past and to the preview: an ended record
\* stays as it is, a recovery is admitted on what was shown, and is made of it
\* although the account goes on between the admission and the record (execute).
THEOREM RecoveriesStayFaithful == Spec => RecoveriesAreFaithful
PROOF
  <1> DEFINE Stands ==
        \A i \in DOMAIN ops : ops[i].state # "running" => ops'[i] = ops[i]
             Admitted ==
        \A p \in Procs : At(p, "idle") /\ ctl'[p].pc = "admitted" =>
            ctl'[p].shown.binding = Binding
             Made ==
        \A p \in Procs : At(p, "judged") /\ ctl[p].shown # NoPlan /\ ops' # ops =>
            MadeAsShown(p)
  <1>1. ASSUME EInv, UNCHANGED ops
        PROVE  Stands /\ Made
    BY <1>1
  <1>2. ASSUME EInv, UNCHANGED ctl
        PROVE  Admitted
    BY <1>2 DEF At
  <1>3. ASSUME EInv, NEW p \in Procs, ctl[p].pc # "idle",
               \A q \in Procs \ {p} : ctl'[q] = ctl[q]
        PROVE  Admitted
    BY <1>3 DEF At
  <1>4. ASSUME EInv, NEW p \in Procs, ctl[p] # Idle, ctl[p].pc # "judged"
        PROVE  Made
    <2>1. \A q \in Procs : ctl[q].pc # "judged"
      BY <1>4, HolderAlone DEF Idle
    <2> QED
      BY <2>1 DEF At
  <1>5. ASSUME EInv, NEW p \in Procs, NEW trigger \in Triggers,
               Tick(p, trigger) \/ Recover(p, trigger)
        PROVE  Stands /\ Admitted /\ Made
    <2>1. UNCHANGED ops
      BY <1>5 DEF Tick, Recover, Admit, files
    <2>2. PICK shown :
             /\ Admit(p, trigger, shown)
             /\ shown = NoPlan \/ shown.binding = Binding
      BY <1>5 DEF Tick, Recover, StillStands
    <2>3. /\ DOMAIN ctl = Procs
          /\ ctl'[p].pc = (IF shown = NoPlan THEN "judged" ELSE "admitted")
          /\ ctl'[p].shown = shown
          /\ \A q \in Procs \ {p} : ctl'[q] = ctl[q]
      BY <2>2, <1>5 DEF Admit, EInv, Rows
    <2>4. Admitted
      BY <2>2, <2>3 DEF At
    <2> QED
      BY <1>1, <1>5, <2>1, <2>4
  <1>6. ASSUME EInv, NEW p \in Procs, Controller(p) \/ Interrupt(p) \/ Crash(p)
        PROVE  Stands /\ Admitted /\ Made
    <2>1. Admitted
      BY <1>3, <1>6, AtWork
    <2>2. CASE Start(p)
      BY <1>6, <2>1, <2>2, OnlyTheJudged, StartIsFaithful
    <2>3. CASE Resolve(p) \/ Spawn(p)
      <3>1. Stands
        BY <1>6, <2>3, ResolveKeeps, SpawnKeeps
      <3>2. ctl[p].pc = "resolve" \/ ctl[p].pc = "launch"
        BY <2>3, Zenon DEF Resolve, Spawn, At
      <3>3. ctl[p] # Idle /\ ctl[p].pc # "judged"
        BY <3>2 DEF Idle
      <3>4. Made
        BY <1>4, <1>6, <3>3
      <3> QED
        BY <2>1, <3>1, <3>4
    <2>4. CASE Return(p) \/ GiveUp(p)
      <3>1. Stands
        BY <1>6, <2>4, ConcludesTheUnfinished
      <3>2. ctl[p].pc = "waiting"
        BY <2>4, Zenon DEF Return, GiveUp, At
      <3>3. ctl[p] # Idle /\ ctl[p].pc # "judged"
        BY <3>2 DEF Idle
      <3>4. Made
        BY <1>4, <1>6, <3>3
      <3> QED
        BY <2>1, <3>1, <3>4
    <2>5. CASE \/ Replan(p) \/ KeepOriginal(p) \/ SaveMarker(p) \/ Send(p)
               \/ Interrupt(p) \/ Crash(p)
      <3>1. UNCHANGED ops
        BY <2>5 DEF Replan, KeepOriginal, SaveMarker, Send, Interrupt, Crash,
                    files
      <3> QED
        BY <1>1, <1>6, <2>1, <3>1
    <2> QED
      BY <1>6, <2>2, <2>3, <2>4, <2>5 DEF Controller
  <1>7. EInv /\ [Next]_vars => Stands /\ Admitted /\ Made
    <2> SUFFICES ASSUME EInv, [Next]_vars PROVE Stands /\ Admitted /\ Made
      OBVIOUS
    <2> HIDE DEF Stands, Admitted, Made
    <2>1. CASE \E w \in workers : Worker(w)
      <3>1. UNCHANGED <<ops, ctl>>
        BY <2>1 DEF Worker, Mark, Exit, Die, Collect, Prepare, Plan,
                    NativeBegin, NativeReuse, NativeRefused, NativeCommit,
                    NativeFail, files
      <3> QED
        BY <1>1, <1>2, <3>1
    <2>2. CASE \/ TickClock \/ Switch \/ \E h \in Healths : Disturb(h)
               \/ ElsewhereEnd \/ \E d \in Days : ElsewhereBegin(d)
               \/ Answer \/ \E i \in DOMAIN ops : LookUp(i)
               \/ UNCHANGED vars
      <3>1. UNCHANGED <<ops, ctl>>
        BY <2>2 DEF TickClock, Switch, Disturb, ElsewhereEnd, ElsewhereBegin,
                    Answer, LookUp, vars, files
      <3> QED
        BY <1>1, <1>2, <3>1
    <2>3. CASE \E p \in Procs : Controller(p) \/ Interrupt(p) \/ Crash(p)
      BY <2>3, <1>6
    <2>4. CASE \E p \in Procs, trigger \in Triggers :
                  Tick(p, trigger) \/ Recover(p, trigger)
      BY <2>4, <1>5
    <2> QED
      BY <2>1, <2>2, <2>3, <2>4 DEF Next
  <1>8. Stands /\ Admitted /\ Made =>
          /\ \A i \in DOMAIN ops : ops[i].state # "running" => ops'[i] = ops[i]
          /\ \A p \in Procs :
                /\ At(p, "idle") /\ ctl'[p].pc = "admitted" =>
                      ctl'[p].shown.binding = Binding
                /\ At(p, "judged") /\ ctl[p].shown # NoPlan /\ ops' # ops =>
                      MadeAsShown(p)
    OBVIOUS
  <1>9. Spec => [][Stands /\ Admitted /\ Made]_vars
    <2> HIDE DEF Stands, Admitted, Made
    <2> QED
      BY <1>7, EInvAlways, PTL DEF Spec
  <1> QED
    BY <1>8, <1>9, PTL
       DEF RecoveriesAreFaithful, OperationsStand, RecoversWhatWasShown,
           MadeAsShown

\* Wherever a controller died, status() calls the operation interrupted once
\* no process of it lives, and what it calls so has a way on by recover_plan
\* on its own day, unless the account or the staged files forbid one.
THEOREM TheInterruptedGoesOn == Spec => []InterruptedIsRecoverable
PROOF
  <1>1. ASSUME EInv, LatestIs({"running"}), Day(clock) \in Sessions,
               lock = Nobody, workers = {}, ~torn
        PROVE  StatusState = "interrupted"
    BY <1>1 DEF StatusState, WorkersRunning, LatestIs, Ended, Retryable
  <1>2. ASSUME EInv, StatusState = "interrupted", enabled,
               OnlyToday(Day(clock)), NothingBlocks(Latest)
        PROVE  RecoveryAction(Latest, FALSE) # "none"
    <2>1. Expected = Day(clock) /\ Day(clock) \in Sessions
      <3>1. Expected = Day(clock)
        BY <1>2 DEF OnlyToday
      <3> QED
        BY <3>1, <1>2, ExpectedToday DEF EInv
    <2>2. Latest # 0 => /\ Latest \in DOMAIN ops /\ ops[Latest].day = Day(clock)
                        /\ ops[Latest].state \in OpStates
                        /\ ops[Latest].day \in Days
      BY <1>2, LatestIsLast, OpsAreRows DEF EInv, Operation
    <2>3. LatestIs({"running"}) /\ ~WorkersRunning /\ lock = Nobody /\ ~torn
      BY <1>2, <2>1, <2>2 DEF StatusState, LatestIs, Ended, Retryable, OpStates
    <2>4. Latest # 0 /\ ops[Latest].state = "running"
      BY <2>3 DEF LatestIs
    <2>5. Recoverable(ops[Latest], FALSE)
      BY <1>2, <2>1, <2>2, <2>3, <2>4 DEF Recoverable
    <2>6. ASSUME ops[Latest].forward
          PROVE  Assessed(ops[Latest].day) \in {"completed", "allowed"}
      <3>1. ~Held(ops[Latest].day)
        <4>1. ASSUME NEW w \in workers, w.pc = "native" PROVE FALSE
          BY <1>2, <2>3, <4>1
             DEF EInv, WorkersOK, WorkerOK, Working, WorkersRunning
        <4> QED
          BY <1>2, <2>6, <4>1 DEF Held, NothingBlocks
      <3> QED
        BY <1>2, <2>1, <2>2, <2>4, <2>6, <3>1 DEF Assessed, NothingBlocks, OnlyToday
    <2>7. ActionFor(ops[Latest]) # "none"
      <3>1. CASE ops[Latest].forward
        BY <2>6, <3>1 DEF ActionFor, Staged
      <3>2. CASE ~ops[Latest].forward
        BY <2>4, <3>2 DEF ActionFor
      <3> QED
        BY <3>1, <3>2
    <2> QED
      BY <2>5, <2>7 DEF RecoveryAction
  <1>3. EInv => InterruptedIsRecoverable
    BY <1>1, <1>2 DEF InterruptedIsRecoverable
  <1> QED
    BY <1>3, EInvAlways, PTL
-----------------------------------------------------------------------------
(* etf_evidence.classify.                                                  *)

\* A failure is only tried again when nothing in its chain of causes speaks
\* of a certificate, an identity or a historical fill, however many temporary
\* errors are wrapped around it, and never once the account was asked.
Temporary(rows, stage, delay) ==
    /\ Fetching(stage)
    /\ \A r \in rows :
          /\ r.type # "certificate"
          /\ r.message \notin {"certificate", "identity", "fill"}
    /\ delay \/ \E r \in rows : r.type \in {"transport", "ssl_eof", "ssl"}

\* classify() calls nothing temporary that is not.
THEOREM PersistentFaultsStop ==
    ASSUME NEW rows \in SUBSET Exceptions, NEW stage \in Stages,
           NEW delay \in BOOLEAN,
           delay => rows = {Plain},
           TriedAgain(rows, stage, delay)
    PROVE  Temporary(rows, stage, delay)
PROOF
  <1>1. CASE stage = "collection" /\ delay
    BY <1>1 DEF Temporary, Plain, Fetching
  <1>2. CASE ~(stage = "collection" /\ delay)
    <2>1. Classify(rows, stage, delay) = "transport_temporary"
      BY <1>2 DEF TriedAgain, Classify
    <2>2. /\ "certificate" \notin TypesOf(rows)
          /\ ~Says(rows, "certificate")
          /\ ~Says(rows, "fill")
          /\ ~Says(rows, "identity")
          /\ Fetching(stage)
          /\ \/ TypesOf(rows) \cap {"transport", "ssl_eof"} # {}
             \/ "ssl" \in TypesOf(rows)
      BY <1>2, <2>1 DEF Classify
    <2> QED
      BY <2>2 DEF Temporary, TypesOf, Says
  <1> QED
    BY <1>1, <1>2
=============================================================================
