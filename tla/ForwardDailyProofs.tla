------------------------- MODULE ForwardDailyProofs -------------------------
(***************************************************************************)
(* The forward account is sound and only grows, for any number of writers, *)
(* crashes and changed inputs; and what the daily entry adds to it is of   *)
(* its session's own evening, on the inputs it names.  What makes it so is *)
(* that the lock's holder is the only one to observe or seal, and that a   *)
(* row once changed only looks the same again when its contents of before  *)
(* are restored.                                                           *)
(***************************************************************************)
EXTENDS ForwardDaily, FiniteSetTheorems, WellFoundedInduction, TLAPS

(* The ledger, under promote, observe and seal.                            *)

Prefixes == UNION {[Known(d) -> Nat] : d \in Sessions}
Replays == UNION {[Through(d) -> Gains] : d \in Interval}
Definition == [choice : Recipes, cutoff : Sessions, prefix : Prefixes]
Result == [as_of : Interval, returns : Replays, fills : SUBSET Interval,
           read : Bundle, identity : Bundle, inputs : Nat, prefix : Prefixes]
AttemptRow ==
    [status : {"running", "failed", "interrupted"}, day : Interval] \cup
    [status : {"completed"}, day : Interval, at : Nat, result : Result]
EvidenceRow == [as_of : Interval, returns : Replays, identity : Bundle]

Observes == {"reuse", "admit", "begin", "execute", "describe", "gate", "commit"}
Attempting == {"execute", "describe", "gate", "commit"}
Replayed == {"describe", "gate", "commit"}
Described == {"gate", "commit"}
Holding == Observes \cup {"publish", "evaluate"}
Promoting == {"database", "register"}
Publications == {"account", "write", "rename"}
TempStates == {"none", "torn", "whole"}

ObserveRow ==
    [pc : Observes, day : Interval, bundle : Nat, evidence : Bundle,
     attempt : Nat, returns : Replays \cup {None}, fills : SUBSET Interval,
     read : Bundle \cup {None}, prefix : Prefixes \cup {None}]
OpRow ==
    {Idle} \cup [pc : Promoting, definition : Definition]
    \cup [pc : {"account", "rename", "evaluate"}]
    \cup [pc : {"write"}, on : {"temporary", "account", "replaced"}]
    \cup [pc : {"publish"}, attempt : Nat] \cup ObserveRow

LedgerRows ==
    /\ clock \in Nat /\ rewrites \in Nat /\ bundles \in Seq(Bundle)
    /\ registry \in [stage : {"absent", "directory", "database"}]
                    \cup [stage : {"registered"}, definition : Definition]
    /\ accountFile \in {None, Torn} \cup Definition
    /\ accountTemp \in TempStates
    /\ restored \subseteq (DOMAIN bundles) \X Sessions
    /\ attempts \in Seq(AttemptRow) /\ damaged \subseteq Completed
    /\ latest \in {0} \cup Completed
    /\ sealed \in {None} \cup EvidenceRow
    /\ lock \in Procs \cup {Nobody} /\ op \in [Procs -> OpRow]

\* A capture has its own manifest, and rows only get newer, as long as no
\* contents of old are restored to them.
Unrestored(b) == {s \in Sessions : <<b, s>> \notin restored}
Newer(rows, old, new) ==
    /\ old.captured = new.captured /\ old.manifest = new.manifest
    /\ \A s \in rows : old.rows[s] <= new.rows[s]

BundlesAge ==
    \A b \in DOMAIN bundles :
        /\ bundles[b].manifest = b
        /\ \A s \in Sessions : bundles[b].rows[s] < 2 + MaxBundles + rewrites

\* The lock is also a promotion's, but not every promotion has it.
HeldByOne ==
    \A p \in Procs :
        /\ op[p].pc \in Holding => lock = p
        /\ lock = p => op[p].pc \in Holding \cup Publications

PromotionOK ==
    /\ \A p \in Procs :
          /\ op[p].pc = "database" => registry.stage = "directory"
          /\ op[p].pc = "register" => registry.stage = "database"
          /\ op[p].pc \in Publications => registry.stage = "registered"
    /\ \A p, q \in Procs :
          op[p].pc \in Promoting /\ op[q].pc \in Promoting => p = q
    /\ accountFile \notin {None, Torn} => Loaded

ResultOK(r) ==
    /\ r.as_of \in Interval /\ DOMAIN r.returns = Through(r.as_of)
    /\ r.fills \subseteq Through(r.as_of) /\ r.inputs \in DOMAIN bundles

Ordered(s, a) ==
    \E x \in Completed :
        /\ x < a /\ attempts[x].at < Opening(s)
        /\ \A e \in Interval : e < s => e <= Observed(x).as_of

HistoryOK ==
    /\ \A a \in Completed :
          /\ ResultOK(Observed(a))
          /\ Timely => \A s \in Observed(a).fills : Ordered(s, a)
    /\ \A a, b \in Completed : a < b => Observed(a).as_of < Observed(b).as_of
    /\ \A a, b \in Open : a = b
    /\ sealed # None =>
          /\ Completed # {}
          /\ \A a \in Completed :
                (\A b \in Completed : b <= a) =>
                   sealed.identity = Observed(a).identity
    /\ evaluation # None => evaluation = sealed

\* What a process holds from one step of an observation to the next.
ObservingOK(c) ==
    /\ sealed = None
    /\ c.bundle \in DOMAIN bundles
    /\ Newer(Unrestored(c.bundle), c.evidence, bundles[c.bundle])
    /\ c.pc = "reuse" => Completed # {}
    /\ c.pc # "reuse" => \A a \in Completed : Observed(a).as_of < c.day
    /\ c.pc \in Attempting => c.attempt = Len(attempts) /\ c.attempt \in Open
    /\ c.pc \in Replayed =>
          /\ c.returns \in [Through(c.day) -> Gains]
          /\ c.fills \subseteq Through(c.day) /\ c.read \in Bundle
          /\ Newer(Unrestored(c.bundle), c.evidence, c.read)
          /\ Newer(Unrestored(c.bundle), c.read, bundles[c.bundle])
          /\ SameHistory(c.returns)
    /\ c.pc \in Described =>
          /\ c.prefix \in [Known(c.day) -> Nat]
          /\ \A s \in Known(c.day) \cap Unrestored(c.bundle) :
                /\ c.evidence.rows[s] <= c.prefix[s]
                /\ c.prefix[s] <= bundles[c.bundle].rows[s]
          /\ Timely => \A s \in c.fills : Ordered(s, c.attempt)

OpOK(p) ==
    /\ op[p].pc \in Observes => ObservingOK(op[p])
    /\ op[p].pc = "publish" =>
          op[p].attempt \in Completed
             /\ \A a \in Completed : a <= op[p].attempt
    /\ op[p].pc = "evaluate" => sealed # None

LInv ==
    /\ LedgerRows /\ BundlesAge /\ HeldByOne /\ PromotionOK /\ HistoryOK
    /\ \A p \in Procs : OpOK(p)
-----------------------------------------------------------------------------
(* Calendars, attempts and the newest of them.                             *)

\* A bounded set of numbers has a greatest one.
LEMMA BoundedMax ==
    ASSUME NEW n \in Nat, NEW T \in SUBSET (0 .. n), T # {}
    PROVE  Max(T) \in T /\ \A y \in T : y <= Max(T)
PROOF
  <1> DEFINE U == {u \in Nat : \A y \in T : y <= u}
  <1>1. n \in U
    OBVIOUS
  <1>2. PICK m \in U : \A y \in U : ~(<<y, m>> \in OpToRel(<, Nat))
    <2>1. U \subseteq Nat /\ U # {}
      BY <1>1
    <2> HIDE DEF U
    <2> QED
      BY <2>1, WFMin, NatLessThanWellFounded, Zenon
  <1>3. \A y \in U : ~(y < m)
    BY <1>2 DEF OpToRel
  <1>4. m \in T
    <2>1. SUFFICES ASSUME m \notin T
                   PROVE  FALSE
      OBVIOUS
    <2>2. m \in Nat /\ \A y \in T : y <= m
      OBVIOUS
    <2>3. \A y \in T : y < m
      BY <2>1, <2>2
    <2>4. m # 0
      <3>1. PICK y \in T : TRUE
        OBVIOUS
      <3> QED
        BY <3>1, <2>2, <2>3
    <2>5. m - 1 \in U /\ m - 1 < m
      BY <2>2, <2>3, <2>4
    <2> QED
      BY <2>5, <1>3, Zenon
  <1>5. \E x \in T : \A y \in T : x >= y
    BY <1>4
  <1> QED
    BY <1>5 DEF Max

LEMMA SessionsAreNumbers ==
    /\ Days \subseteq Nat \ {0} /\ Sessions \subseteq Days
    /\ Interval \subseteq Sessions /\ Sessions \subseteq Nat
    /\ Start \in Nat /\ End \in Nat
    /\ \A s \in Sessions : s \in Nat /\ s >= 1
PROOF
  <1>1. Cardinality(Days) \in Nat
    BY CalendarAssumption, FS_CardinalityType
  <1>2. Days \subseteq Nat \ {0}
    BY <1>1, CalendarAssumption
  <1> QED
    BY <1>2, CalendarAssumption DEF Interval

LEMMA CompletedRows ==
    ASSUME LedgerRows, NEW a \in Completed
    PROVE  /\ a \in DOMAIN attempts /\ a \in 1 .. Len(attempts)
           /\ attempts[a].status = "completed" /\ attempts[a].at \in Nat
           /\ attempts[a].day \in Interval
           /\ Observed(a) \in Result /\ Observed(a).as_of \in Interval
           /\ Observed(a).as_of \in Nat
PROOF
  <1>1. attempts \in Seq(AttemptRow)
    BY DEF LedgerRows
  <1>2. a \in DOMAIN attempts /\ attempts[a].status = "completed"
        /\ attempts[a] \in AttemptRow /\ a \in 1 .. Len(attempts)
    BY <1>1 DEF Completed
  <1>3. attempts[a] \in [status : {"completed"}, day : Interval, at : Nat,
                         result : Result]
    BY <1>2 DEF AttemptRow
  <1>4. Observed(a) \in Result
    BY <1>3 DEF Observed
  <1>5. Observed(a).as_of \in Interval
    BY <1>4 DEF Result
  <1> QED
    BY <1>2, <1>3, <1>4, <1>5, SessionsAreNumbers

LEMMA NewestIs ==
    ASSUME LedgerRows, Completed # {}
    PROVE  Newest \in Completed /\ \A a \in Completed : a <= Newest
PROOF
  <1>1. attempts \in Seq(AttemptRow) /\ Len(attempts) \in Nat
    BY DEF LedgerRows
  <1>2. Completed \in SUBSET (0 .. Len(attempts))
    BY <1>1 DEF Completed
  <1> QED
    BY <1>1, <1>2, BoundedMax DEF Newest

\* It is of the latest session.
LEMMA NewestIsLatest ==
    ASSUME LedgerRows, HistoryOK, NEW a \in Completed
    PROVE  Observed(a).as_of <= Observed(Newest).as_of
PROOF
  <1>1. Newest \in Completed /\ a <= Newest
    BY NewestIs
  <1>2. /\ a \in 1 .. Len(attempts) /\ Newest \in 1 .. Len(attempts)
        /\ Observed(a).as_of \in Nat /\ Observed(Newest).as_of \in Nat
        /\ Len(attempts) \in Nat
    BY <1>1, CompletedRows DEF LedgerRows
  <1>3. CASE a = Newest
    BY <1>2, <1>3
  <1>4. CASE a < Newest
    BY <1>1, <1>2, <1>4 DEF HistoryOK
  <1> QED
    BY <1>1, <1>2, <1>3, <1>4
-----------------------------------------------------------------------------
(* Whose turn it is.                                                       *)

LEMMA ObserverOf ==
    ASSUME LInv, NEW p \in Procs, op[p].pc \in Observes
    PROVE  op[p] \in ObserveRow /\ ObservingOK(op[p]) /\ lock = p
PROOF
  <1>1. op[p] \in OpRow /\ OpOK(p) /\ op[p].pc \in Holding
    BY DEF LInv, LedgerRows, Holding
  <1> QED
    BY <1>1 DEF LInv, HeldByOne, OpRow, OpOK, Idle, Observes, Promoting, Publications

\* The holder of the lock, or who takes it, moves on: nobody else is inside.
LEMMA HolderMoves ==
    ASSUME LInv, NEW p \in Procs, NEW c \in OpRow,
           op' = [op EXCEPT ![p] = c], lock \in {p, Nobody},
           op[p].pc \notin Promoting \cup Publications,
           c.pc \notin Promoting \cup Publications,
           lock' = IF c.pc \in Holding THEN p ELSE Nobody
    PROVE  /\ op' \in [Procs -> OpRow] /\ op'[p] = c
           /\ lock' \in Procs \cup {Nobody} /\ HeldByOne'
           /\ \A q \in Procs \ {p} :
                 op'[q] = op[q] /\ op[q].pc \notin Holding
PROOF
  <1>1. op \in [Procs -> OpRow] /\ p # Nobody /\ HeldByOne
    BY LedgerBoundAssumption DEF LInv, LedgerRows
  <1>2. /\ op' \in [Procs -> OpRow] /\ op'[p] = c
        /\ \A q \in Procs \ {p} : op'[q] = op[q]
    BY <1>1
  <1>3. \A q \in Procs \ {p} : op[q].pc \notin Holding
    BY <1>1, LedgerBoundAssumption DEF HeldByOne
  <1>4. HeldByOne'
    BY <1>1, <1>2, <1>3, LedgerBoundAssumption DEF HeldByOne
  <1> QED
    BY <1>1, <1>2, <1>3, <1>4

\* What only publications of account.json change.
FilesKept ==
    UNCHANGED <<registry, accountFile>> /\ accountTemp' \in TempStates

LEMMA FilesStay ==
    ASSUME LInv, UNCHANGED Registration PROVE FilesKept
BY DEF FilesKept, Registration, AccountFiles, LInv, LedgerRows

LEMMA HolderGoesOn ==
    ASSUME LInv, NEW p \in Procs, NEW c \in OpRow,
           op' = [op EXCEPT ![p] = c], lock \in {p, Nobody},
           op[p].pc \notin Promoting \cup Publications,
           c.pc \notin Promoting \cup Publications,
           lock' = IF c.pc \in Holding THEN p ELSE Nobody,
           FilesKept, UNCHANGED World,
           attempts' \in Seq(AttemptRow), Completed \subseteq Completed',
           latest' \in {0} \cup Completed', sealed' \in {None} \cup EvidenceRow,
           HistoryOK', OpOK(p)'
    PROVE  LInv'
PROOF
  <1>1. /\ op' \in [Procs -> OpRow] /\ op'[p] = c
        /\ lock' \in Procs \cup {Nobody} /\ HeldByOne'
        /\ \A q \in Procs \ {p} : op'[q] = op[q] /\ op[q].pc \notin Holding
    BY HolderMoves
  <1>2. LedgerRows'
    BY <1>1 DEF LInv, LedgerRows, FilesKept, World
  <1>3. BundlesAge'
    BY DEF LInv, BundlesAge, World
  <1>4. PromotionOK'
    BY <1>1 DEF LInv, PromotionOK, Promoting, Publications, FilesKept, Loaded
  <1>5. \A q \in Procs \ {p} : OpOK(q)'
    BY <1>1 DEF OpOK, Holding
  <1> QED
    BY <1>1, <1>2, <1>3, <1>4, <1>5 DEF LInv

LEMMA HolderKeeps ==
    ASSUME LInv, NEW p \in Procs, NEW c \in OpRow,
           op' = [op EXCEPT ![p] = c], lock \in {p, Nobody},
           op[p].pc \notin Promoting \cup Publications,
           c.pc \notin Promoting \cup Publications,
           lock' = IF c.pc \in Holding THEN p ELSE Nobody,
           UNCHANGED <<Registration, World>>,
           attempts' \in Seq(AttemptRow), Completed \subseteq Completed',
           latest' \in {0} \cup Completed', sealed' \in {None} \cup EvidenceRow,
           HistoryOK', OpOK(p)'
    PROVE  LInv'
BY FilesStay, HolderGoesOn

\* The history stays, whatever happens to the open attempt.
LEMMA HistoryFrame ==
    ASSUME LInv, Completed' = Completed, UNCHANGED <<sealed, evaluation>>,
           \A a \in Completed : attempts'[a] = attempts[a],
           \A a, b \in Open' : a = b, DOMAIN bundles \subseteq DOMAIN bundles'
    PROVE  /\ HistoryOK' /\ Newest' = Newest
           /\ \A a \in Completed : Observed(a)' = Observed(a)
           /\ \A s, a : Ordered(s, a)' <=> Ordered(s, a)
           /\ \A returns : SameHistory(returns)' <=> SameHistory(returns)
PROOF
  <1>1. \A a \in Completed : Observed(a)' = Observed(a)
    BY DEF Observed
  <1>2. \A s, a : Ordered(s, a)' <=> Ordered(s, a)
    BY <1>1 DEF Ordered
  <1>3. Newest' = Newest
    BY DEF Newest
  <1>4. \A returns : SameHistory(returns)' <=> SameHistory(returns)
    <2>1. Completed # {} => Observed(Newest)' = Observed(Newest)
      BY <1>1, <1>3, NewestIs DEF LInv
    <2> QED
      BY <2>1 DEF SameHistory
  <1>5. HistoryOK'
    <2>1. HistoryOK
      BY DEF LInv
    <2>2. \A a \in Completed : ResultOK(Observed(a))'
      BY <1>1, <2>1 DEF HistoryOK, ResultOK
    <2> QED
      BY <1>1, <1>2, <2>1, <2>2 DEF HistoryOK
  <1> QED
    BY <1>1, <1>2, <1>3, <1>4, <1>5
-----------------------------------------------------------------------------
(* The world: bundles are added, and what is changed gets newer.           *)

LEMMA NewerTrans ==
    ASSUME NEW old \in SUBSET Sessions, NEW rows \in SUBSET old,
           NEW x \in Bundle, NEW y \in Bundle, NEW z \in Bundle,
           Newer(old, x, y), Newer(rows, y, z)
    PROVE  Newer(rows, x, z)
PROOF
  <1>1. \A s \in Sessions :
           x.rows[s] \in Nat /\ y.rows[s] \in Nat /\ z.rows[s] \in Nat
    BY DEF Bundle
  <1> QED
    BY <1>1 DEF Newer

LEMMA NewerSelf ==
    ASSUME NEW rows \in SUBSET Sessions, NEW x \in Bundle
    PROVE  Newer(rows, x, x)
PROOF
  <1>1. \A s \in Sessions : x.rows[s] \in Nat
    BY DEF Bundle
  <1> QED
    BY <1>1 DEF Newer

\* Every bundle that is there only gets newer.
Ageing ==
    /\ bundles' \in Seq(Bundle) /\ DOMAIN bundles \subseteq DOMAIN bundles'
    /\ restored \subseteq restored'
    /\ restored' \subseteq (DOMAIN bundles') \X Sessions
    /\ \A b \in DOMAIN bundles :
          Newer(Unrestored(b)', bundles[b], bundles'[b])

LEMMA BundlesRest ==
    ASSUME LInv, UNCHANGED <<bundles, restored>>
    PROVE  Ageing
PROOF
  <1>1. bundles \in Seq(Bundle) /\ restored \subseteq (DOMAIN bundles) \X Sessions
    BY DEF LInv, LedgerRows
  <1>2. \A b : Unrestored(b)' \in SUBSET Sessions
    BY DEF Unrestored
  <1>3. \A b \in DOMAIN bundles : Newer(Unrestored(b)', bundles[b], bundles[b])
    BY <1>1, <1>2, NewerSelf
  <1> QED
    BY <1>1, <1>3 DEF Ageing

LEMMA ObservingAges ==
    ASSUME LInv, NEW p \in Procs, op[p].pc \in Observes,
           op'[p] = op[p], UNCHANGED <<attempts, sealed, evaluation>>, Ageing
    PROVE  ObservingOK(op[p])'
PROOF
  <1> DEFINE c == op[p]
             old == bundles[c.bundle]
             new == bundles'[c.bundle]
             rows == Unrestored(c.bundle)'
  <1>1. c \in ObserveRow /\ ObservingOK(c)
    BY ObserverOf
  <1>2. c.bundle \in DOMAIN bundles /\ c.bundle \in DOMAIN bundles'
    BY <1>1 DEF ObservingOK, Ageing
  <1>3. old \in Bundle /\ new \in Bundle /\ Newer(rows, old, new)
    BY <1>2 DEF LInv, LedgerRows, Ageing
  <1>a. /\ Unrestored(c.bundle) \in SUBSET Sessions
        /\ rows \in SUBSET Unrestored(c.bundle)
    BY DEF Unrestored, Ageing
  <1>4. c.evidence \in Bundle /\ Newer(rows, c.evidence, new)
    BY <1>1, <1>3, <1>a, NewerTrans DEF ObserveRow, ObservingOK
  <1>5. c.pc \in Replayed => /\ c.read \in Bundle /\ Newer(rows, c.read, new)
                             /\ Newer(rows, c.evidence, c.read)
    <2>1. SUFFICES ASSUME c.pc \in Replayed
                   PROVE  /\ c.read \in Bundle /\ Newer(rows, c.read, new)
                          /\ Newer(rows, c.evidence, c.read)
      OBVIOUS
    <2>2. /\ c.read \in Bundle
          /\ Newer(Unrestored(c.bundle), c.read, old)
          /\ Newer(Unrestored(c.bundle), c.evidence, c.read)
      BY <1>1, <2>1 DEF ObservingOK
    <2>3. Newer(rows, c.read, new)
      BY <2>2, <1>3, <1>a, NewerTrans
    <2>4. Newer(rows, c.evidence, c.read)
      BY <2>2, <1>a DEF Newer
    <2> QED
      BY <2>2, <2>3, <2>4
  <1>6. c.pc \in Described => \A s \in Known(c.day) \cap rows :
           c.evidence.rows[s] <= c.prefix[s] /\ c.prefix[s] <= new.rows[s]
    <2>1. SUFFICES ASSUME c.pc \in Described, NEW s \in Known(c.day) \cap rows
                   PROVE  /\ c.evidence.rows[s] <= c.prefix[s]
                          /\ c.prefix[s] <= new.rows[s]
      OBVIOUS
    <2>2. /\ s \in Sessions /\ old.rows[s] \in Nat /\ new.rows[s] \in Nat
          /\ old.rows[s] <= new.rows[s]
      BY <1>3 DEF Known, Bundle, Newer
    <2>3. /\ c.evidence.rows[s] <= c.prefix[s]
          /\ c.prefix[s] <= old.rows[s] /\ c.prefix[s] \in Nat
      BY <1>1, <1>a, <2>1 DEF ObservingOK
    <2> QED
      BY <2>2, <2>3
  <1>7. /\ Completed' = Completed /\ Open' = Open /\ Len(attempts') = Len(attempts)
        /\ \A a \in Completed : Observed(a)' = Observed(a)
        /\ \A s, a : Ordered(s, a)' <=> Ordered(s, a)
        /\ \A returns : SameHistory(returns)' <=> SameHistory(returns)
    BY HistoryFrame DEF Completed, Open, LInv, HistoryOK, Ageing
  <1> QED
    <2>1. ObservingOK(c)' <=>
            /\ sealed = None
            /\ c.bundle \in DOMAIN bundles' /\ Newer(rows, c.evidence, new)
            /\ c.pc = "reuse" => Completed # {}
            /\ c.pc # "reuse" => \A a \in Completed : Observed(a).as_of < c.day
            /\ c.pc \in Attempting => c.attempt = Len(attempts) /\ c.attempt \in Open
            /\ c.pc \in Replayed =>
                  /\ c.returns \in [Through(c.day) -> Gains]
                  /\ c.fills \subseteq Through(c.day) /\ c.read \in Bundle
                  /\ Newer(rows, c.evidence, c.read) /\ Newer(rows, c.read, new)
                  /\ SameHistory(c.returns)
            /\ c.pc \in Described =>
                  /\ c.prefix \in [Known(c.day) -> Nat]
                  /\ \A s \in Known(c.day) \cap rows :
                        /\ c.evidence.rows[s] <= c.prefix[s]
                        /\ c.prefix[s] <= new.rows[s]
                  /\ Timely => \A s \in c.fills : Ordered(s, c.attempt)
      BY <1>7 DEF ObservingOK
    <2>2. ObservingOK(c)
      BY <1>1
    <2> HIDE DEF rows, new
    <2> QED
      BY <2>1, <2>2, <1>2, <1>4, <1>5, <1>6 DEF ObservingOK

LEMMA WorldMoves ==
    ASSUME LInv, UNCHANGED <<Registration, Record, lock, op>>,
           clock' \in Nat, rewrites' \in Nat, damaged' \subseteq Completed,
           Ageing, BundlesAge'
    PROVE  LInv'
PROOF
  <1>1. /\ UNCHANGED <<attempts, latest, sealed, evaluation>>
        /\ UNCHANGED <<registry, accountFile, accountTemp>>
        /\ Completed' = Completed /\ Open' = Open
    BY DEF Registration, AccountFiles, Record, Completed, Open
  <1>2. HistoryOK'
    BY <1>1, HistoryFrame DEF LInv, HistoryOK, Ageing
  <1>3. LedgerRows'
    BY <1>1 DEF LInv, LedgerRows, Ageing
  <1>4. HeldByOne' /\ PromotionOK'
    BY <1>1 DEF LInv, HeldByOne, PromotionOK, Loaded
  <1>5. ASSUME NEW p \in Procs
        PROVE  OpOK(p)'
    <2>1. op[p].pc \in Observes => ObservingOK(op[p])'
      BY <1>1, ObservingAges
    <2>2. OpOK(p)
      BY DEF LInv
    <2> QED
      BY <2>1, <2>2, <1>1 DEF OpOK
  <1> QED
    BY <1>2, <1>3, <1>4, <1>5 DEF LInv

LEMMA TickKeeps ==
    ASSUME LInv, Tick PROVE LInv'
PROOF
  <1>1. clock \in Nat /\ damaged \subseteq Completed /\ rewrites \in Nat
    BY DEF LInv, LedgerRows
  <1>2. Ageing
    BY BundlesRest DEF Tick
  <1>3. BundlesAge'
    BY DEF Tick, LInv, BundlesAge
  <1>4. /\ UNCHANGED <<Registration, Record, lock, op>>
        /\ UNCHANGED <<rewrites, damaged>> /\ clock' \in Nat
    BY <1>1 DEF Tick
  <1> QED
    BY <1>1, <1>2, <1>3, <1>4, WorldMoves

LEMMA CaptureKeeps ==
    ASSUME LInv, NEW row \in {0} \cup Sessions, Capture(row) PROVE LInv'
PROOF
  <1>1. clock \in Nat /\ bundles \in Seq(Bundle) /\ damaged \subseteq Completed
        /\ rewrites \in Nat /\ BundlesAge
        /\ restored \subseteq (DOMAIN bundles) \X Sessions
    BY DEF LInv, LedgerRows
  <1>2. PICK rows : /\ bundles' = Append(bundles,
                          [captured |-> clock, manifest |-> Len(bundles) + 1,
                           rows |-> rows])
                    /\ rows = [s \in Sessions |->
                        CASE s \notin LastClosed(clock) -> 0
                          [] s \in LastClosed(clock) /\ s # row -> 1
                          [] s \in LastClosed(clock) /\ s = row ->
                                IF LatestClosed(s, clock) THEN 0
                                ELSE 2 + Len(bundles)]
    BY DEF Capture
  <1>3. Len(bundles) \in Nat /\ MaxBundles \in Nat /\ Len(bundles) < MaxBundles
    BY <1>1, LedgerBoundAssumption DEF Capture
  <1>4. \A s \in Sessions : rows[s] \in {0, 1, 2 + Len(bundles)}
    BY <1>2
  <1>5. rows \in [Sessions -> Nat]
    BY <1>2, <1>3, <1>4
  <1> DEFINE new == [captured |-> clock, manifest |-> Len(bundles) + 1,
                     rows |-> rows]
  <1>6. new \in Bundle
    BY <1>1, <1>3, <1>5 DEF Bundle
  <1>7. bundles' = Append(bundles, new)
    BY <1>2
  <1>8. new.manifest = Len(bundles) + 1
        /\ \A s \in Sessions : new.rows[s] < 2 + MaxBundles + rewrites
    BY <1>1, <1>3, <1>4
  <1> HIDE DEF new
  <1>9. /\ bundles' \in Seq(Bundle) /\ DOMAIN bundles \subseteq DOMAIN bundles'
        /\ \A b \in DOMAIN bundles : bundles'[b] = bundles[b]
        /\ DOMAIN bundles' = DOMAIN bundles \cup {Len(bundles) + 1}
        /\ bundles'[Len(bundles) + 1] = new
    BY <1>1, <1>3, <1>6, <1>7
  <1>10. UNCHANGED <<Registration, Record, lock, op>>
         /\ UNCHANGED <<clock, rewrites, restored, damaged>>
    BY DEF Capture
  <1>11. Ageing
    <2>1. \A b : Unrestored(b)' \in SUBSET Sessions
      BY DEF Unrestored
    <2>2. \A b \in DOMAIN bundles :
             Newer(Unrestored(b)', bundles[b], bundles'[b])
      BY <1>1, <1>9, <2>1, NewerSelf
    <2>3. restored' \subseteq (DOMAIN bundles') \X Sessions
      BY <1>1, <1>9, <1>10
    <2> QED
      BY <1>9, <1>10, <2>2, <2>3 DEF Ageing
  <1>12. BundlesAge'
    BY <1>1, <1>8, <1>9, <1>10 DEF BundlesAge
  <1> QED
    BY <1>1, <1>10, <1>11, <1>12, WorldMoves

LEMMA RewriteKeeps ==
    ASSUME LInv, NEW b \in DOMAIN bundles, NEW s \in Sessions,
           NEW row \in 1 .. Fresh, Rewrite(b, s, row)
    PROVE  LInv'
PROOF
  <1>1. clock \in Nat /\ bundles \in Seq(Bundle) /\ damaged \subseteq Completed
        /\ rewrites \in Nat /\ BundlesAge
        /\ restored \subseteq (DOMAIN bundles) \X Sessions
    BY DEF LInv, LedgerRows
  <1>2. MaxBundles \in Nat
    BY LedgerBoundAssumption
  <1> DEFINE new == [bundles[b] EXCEPT !.rows = [@ EXCEPT ![s] = row]]
  <1>3. bundles[b] \in Bundle /\ Fresh \in Nat /\ row \in Nat /\ row <= Fresh
    BY <1>1, <1>2 DEF Fresh
  <1>4. bundles' = [bundles EXCEPT ![b] = new]
    BY DEF Rewrite
  <1>5. new \in Bundle /\ new.captured = bundles[b].captured
        /\ new.manifest = bundles[b].manifest
        /\ new.rows = [bundles[b].rows EXCEPT ![s] = row]
    BY <1>3 DEF Bundle
  <1>6. \A x \in Sessions :
           bundles[b].rows[x] \in Nat /\ bundles[b].rows[x] < Fresh
    BY <1>1, <1>3 DEF BundlesAge, Bundle, Fresh
  <1>7. /\ \A x \in Sessions : x # s => new.rows[x] = bundles[b].rows[x]
        /\ new.rows[s] = row
    BY <1>3, <1>5 DEF Bundle
  <1>8. /\ UNCHANGED <<Registration, Record, lock, op>>
        /\ UNCHANGED <<clock, damaged>> /\ rewrites' = rewrites + 1
        /\ restored' = IF row = Fresh THEN restored
                       ELSE restored \cup {<<b, s>>}
    BY DEF Rewrite
  <1>9. Newer(Unrestored(b)', bundles[b], new)
    <2>1. ASSUME NEW x \in Unrestored(b)'
          PROVE  bundles[b].rows[x] <= new.rows[x]
      <3>1. x \in Sessions /\ (x = s => row = Fresh)
        BY <1>8 DEF Unrestored
      <3> QED
        BY <3>1, <1>3, <1>6, <1>7
    <2> QED
      BY <2>1, <1>5 DEF Newer
  <1>10. \A x \in Sessions : new.rows[x] < Fresh + 1
    BY <1>3, <1>6, <1>7
  <1> HIDE DEF new
  <1>11. /\ bundles' \in Seq(Bundle) /\ DOMAIN bundles' = DOMAIN bundles
         /\ bundles'[b] = new
         /\ \A x \in DOMAIN bundles : x # b => bundles'[x] = bundles[x]
    BY <1>1, <1>4, <1>5
  <1>12. Ageing
    <2>1. \A x : Unrestored(x)' \in SUBSET Sessions
      BY DEF Unrestored
    <2>2. \A x \in DOMAIN bundles :
             Newer(Unrestored(x)', bundles[x], bundles'[x])
      BY <1>1, <1>9, <1>11, <2>1, NewerSelf
    <2>3. restored \subseteq restored'
          /\ restored' \subseteq (DOMAIN bundles') \X Sessions
      BY <1>1, <1>8, <1>11
    <2> QED
      BY <1>11, <2>2, <2>3 DEF Ageing
  <1>13. BundlesAge'
    <2>1. \A x \in DOMAIN bundles : x # b => \A y \in Sessions :
             /\ bundles[x].rows[y] \in Nat
             /\ bundles[x].rows[y] < Fresh
      <3>1. \A x \in DOMAIN bundles : bundles[x] \in Bundle
        BY <1>1
      <3>2. \A x \in DOMAIN bundles : \A y \in Sessions :
               bundles[x].rows[y] \in Nat
        BY <3>1 DEF Bundle
      <3> QED
        BY <3>2, <1>1 DEF BundlesAge, Fresh
    <2>2. Fresh + 1 = 2 + MaxBundles + rewrites'
      BY <1>1, <1>2, <1>8 DEF Fresh
    <2>3. \A x \in DOMAIN bundles : \A y \in Sessions :
             bundles'[x].rows[y] < Fresh + 1
      BY <2>1, <1>3, <1>10, <1>11
    <2>4. \A x \in DOMAIN bundles : bundles'[x].manifest = x
      BY <1>1, <1>5, <1>11 DEF BundlesAge
    <2> QED
      BY <2>2, <2>3, <2>4, <1>11 DEF BundlesAge
  <1> QED
    BY <1>1, <1>8, <1>12, <1>13, WorldMoves

LEMMA DamageKeeps ==
    ASSUME LInv, NEW a, Damage(a) PROVE LInv'
PROOF
  <1>1. clock \in Nat /\ damaged \subseteq Completed /\ rewrites \in Nat
    BY DEF LInv, LedgerRows
  <1>2. Ageing
    BY BundlesRest DEF Damage
  <1>3. BundlesAge'
    BY DEF Damage, LInv, BundlesAge
  <1>4. /\ UNCHANGED <<Registration, Record, lock, op>>
        /\ UNCHANGED <<clock, rewrites>> /\ damaged' \subseteq Completed
    BY <1>1 DEF Damage
  <1> QED
    BY <1>1, <1>2, <1>3, <1>4, WorldMoves

LEMMA SurroundingsKeep ==
    ASSUME LInv, Surroundings PROVE LInv'
BY TickKeeps, CaptureKeeps, RewriteKeeps, DamageKeeps DEF Surroundings
-----------------------------------------------------------------------------
(* Promotion.                                                              *)

\* A promoter moves on, with the lock or without it; another one that is
\* filling the temporary file may find it renamed.
LEMMA PromoterMoves ==
    ASSUME LInv, NEW p \in Procs, op' \in [Procs -> OpRow],
           op[p].pc \notin Holding, op'[p].pc \notin Holding,
           \A q \in Procs \ {p} : \/ op'[q] = op[q]
                                  \/ op[q].pc = "write" /\ op'[q].pc = "write",
           \/ lock' = lock
           \/ lock = p /\ lock' = Nobody
           \/ lock = Nobody /\ lock' = p,
           lock' = p => op'[p].pc \in Publications,
           UNCHANGED <<World, Record>>,
           registry' \in [stage : {"absent", "directory", "database"}]
                         \cup [stage : {"registered"}, definition : Definition],
           accountFile' \in {None, Torn} \cup Definition,
           accountTemp' \in TempStates,
           PromotionOK'
    PROVE  LInv'
PROOF
  <1>1. Nobody \notin Procs /\ lock \in Procs \cup {Nobody} /\ HeldByOne
    BY LedgerBoundAssumption DEF LInv, LedgerRows
  <1>2. /\ UNCHANGED <<clock, bundles, rewrites, restored, damaged>>
        /\ UNCHANGED <<attempts, latest, sealed, evaluation>>
        /\ Completed' = Completed /\ Open' = Open
    BY DEF World, Record, Completed, Open
  <1>3. HistoryOK'
    BY <1>2, HistoryFrame DEF LInv, HistoryOK
  <1>4. LedgerRows'
    BY <1>1, <1>2 DEF LInv, LedgerRows
  <1>5. HeldByOne'
    BY <1>1 DEF HeldByOne, Holding, Observes, Publications
  <1>6. BundlesAge' /\ Ageing
    BY <1>2, BundlesRest DEF LInv, BundlesAge
  <1>7. ASSUME NEW q \in Procs
        PROVE  OpOK(q)'
    <2>1. CASE op'[q].pc \notin Holding
      BY <2>1 DEF OpOK, Holding
    <2>2. CASE op'[q].pc \in Holding
      <3>1. op'[q] = op[q] /\ OpOK(q)
        BY <2>2 DEF LInv, Holding, Observes
      <3>2. op[q].pc \in Observes => ObservingOK(op[q])'
        BY <1>2, <1>6, <3>1, ObservingAges
      <3> QED
        BY <3>1, <3>2, <1>2 DEF OpOK
    <2> QED
      BY <2>1, <2>2
  <1> QED
    BY <1>3, <1>4, <1>5, <1>6, <1>7, PromotionOK' DEF LInv

\* The same for who has no lock and touches nobody else.
LEMMA PromoterSteps ==
    ASSUME LInv, NEW p \in Procs, NEW c \in OpRow,
           op' = [op EXCEPT ![p] = c],
           op[p].pc \notin Holding \cup Publications, c.pc \notin Holding,
           UNCHANGED <<lock, World, Record>>,
           registry' \in [stage : {"absent", "directory", "database"}]
                         \cup [stage : {"registered"}, definition : Definition],
           UNCHANGED AccountFiles, PromotionOK'
    PROVE  LInv'
PROOF
  <1>1. /\ op' \in [Procs -> OpRow] /\ op'[p] = c
        /\ \A q \in Procs \ {p} : op'[q] = op[q]
    BY DEF LInv, LedgerRows
  <1>2. lock # p
    BY DEF LInv, HeldByOne
  <1>3. /\ accountFile' \in {None, Torn} \cup Definition
        /\ accountTemp' \in TempStates
    BY DEF AccountFiles, LInv, LedgerRows
  <1> QED
    BY <1>1, <1>2, <1>3, PromoterMoves

LEMMA LatestIsASession ==
    ASSUME NEW t, LastClosed(t) # {}
    PROVE  /\ Max(LastClosed(t)) \in LastClosed(t)
           /\ Max(LastClosed(t)) \in Sessions
           /\ \A s \in LastClosed(t) : s <= Max(LastClosed(t))
PROOF
  <1>1. Cardinality(Days) \in Nat
    BY CalendarAssumption, FS_CardinalityType
  <1>2. LastClosed(t) \subseteq 1 .. Cardinality(Days)
    BY CalendarAssumption DEF LastClosed
  <1>3. LastClosed(t) \in SUBSET (0 .. Cardinality(Days))
    BY <1>1, <1>2
  <1>4. Max(LastClosed(t)) \in LastClosed(t)
        /\ \A s \in LastClosed(t) : s <= Max(LastClosed(t))
    BY <1>1, <1>3, BoundedMax
  <1> QED
    BY <1>4 DEF LastClosed

LEMMA PrefixIs ==
    ASSUME bundles \in Seq(Bundle), NEW b \in DOMAIN bundles, NEW d \in Sessions
    PROVE  /\ Prefix(b, d) \in [Known(d) -> Nat] /\ Prefix(b, d) \in Prefixes
           /\ \A s \in Known(d) : Prefix(b, d)[s] = bundles[b].rows[s]
PROOF
  <1>1. bundles[b] \in Bundle
    OBVIOUS
  <1>2. \A s \in Known(d) : bundles[b].rows[s] \in Nat
    BY <1>1 DEF Bundle, Known
  <1>3. /\ Prefix(b, d) \in [Known(d) -> Nat]
        /\ \A s \in Known(d) : Prefix(b, d)[s] = bundles[b].rows[s]
    BY <1>2 DEF Prefix
  <1> QED
    BY <1>3 DEF Prefixes

LEMMA Registered ==
    ASSUME LInv, registry.stage = "registered"
    PROVE  /\ registry.definition \in Definition
           /\ registry \in [stage : {"registered"}, definition : Definition]
BY DEF LInv, LedgerRows

LEMMA PromoteNewKeeps ==
    ASSUME LInv, NEW p \in Procs, NEW choice \in Recipes,
           NEW b \in DOMAIN bundles, PromoteNew(p, choice, b)
    PROVE  LInv'
PROOF
  <1> DEFINE cut == Max(LastClosed(clock))
             def == [choice |-> choice, cutoff |-> cut,
                     prefix |-> Prefix(b, cut)]
             c == [pc |-> "database", definition |-> def]
  <1>1. cut \in Sessions
    BY LatestIsASession DEF PromoteNew
  <1>2. def \in Definition
    BY <1>1, PrefixIs DEF Definition, LInv, LedgerRows
  <1>3. op' = [op EXCEPT ![p] = c]
    BY DEF PromoteNew
  <1> HIDE DEF def
  <1>4. c \in OpRow /\ c.pc = "database"
    BY <1>2 DEF OpRow, Promoting, Publications
  <1> HIDE DEF c
  <1>5. /\ op[p].pc = "idle" /\ registry.stage = "absent"
        /\ registry' = [stage |-> "directory"] /\ UNCHANGED AccountFiles
        /\ UNCHANGED <<lock, World, Record>>
    BY DEF PromoteNew, Doing
  <1>6. accountFile \in {None, Torn} /\ \A q \in Procs : op[q].pc \notin Promoting
    BY <1>5 DEF LInv, PromotionOK, Loaded, Promoting, Publications
  <1>7. \A q \in Procs \ {p} : op'[q] = op[q]
    BY <1>3 DEF LInv, LedgerRows
  <1>8. op'[p] = c
    BY <1>3 DEF LInv, LedgerRows
  <1>9. PromotionOK'
    <2>1. /\ \A q \in Procs : op'[q].pc \in Promoting => q = p
          /\ \A q \in Procs : op'[q].pc \notin Publications
      BY <1>4, <1>5, <1>6, <1>7, <1>8 DEF LInv, PromotionOK, Publications
    <2> QED
      BY <1>4, <1>5, <1>6, <1>8, <2>1 DEF PromotionOK, AccountFiles, Promoting, Publications
  <1>10. op[p].pc \notin Holding \cup Publications /\ c.pc \notin Holding
    BY <1>4, <1>5 DEF Holding, Observes, Publications
  <1> QED
    BY <1>3, <1>4, <1>5, <1>9, <1>10, PromoterSteps

\* The rest of a promotion, which the directory has made this process's own.
LEMMA DatabaseKeeps ==
    ASSUME LInv, NEW p \in Procs, CreateDatabase(p) PROVE LInv'
PROOF
  <1> DEFINE c == [op[p] EXCEPT !.pc = "register"]
  <1>1. op \in [Procs -> OpRow] /\ op[p] \in OpRow /\ PromotionOK
    BY DEF LInv, LedgerRows
  <1>2. /\ op[p].pc = "database" /\ registry' = [stage |-> "database"]
        /\ op' = [op EXCEPT ![p] = c] /\ UNCHANGED AccountFiles
        /\ UNCHANGED <<lock, World, Record>>
    BY DEF CreateDatabase, Doing
  <1>3. op[p] \in [pc : Promoting, definition : Definition]
    BY <1>1, <1>2 DEF OpRow, Idle, ObserveRow, Observes, Promoting, Publications
  <1>4. c \in [pc : Promoting, definition : Definition] /\ c.pc = "register"
    BY <1>3 DEF Promoting, Publications
  <1>5. c \in OpRow
    BY <1>4 DEF OpRow
  <1> HIDE DEF c
  <1>6. op'[p] = c /\ \A q \in Procs \ {p} : op'[q] = op[q]
    BY <1>1, <1>2
  <1>7. /\ registry.stage = "directory" /\ accountFile \in {None, Torn}
        /\ \A q \in Procs : op[q].pc \in Promoting => q = p
        /\ \A q \in Procs : op[q].pc \notin Publications
    BY <1>1, <1>2 DEF PromotionOK, AccountFiles, Promoting, Publications, Loaded
  <1>8. PromotionOK'
    <2>1. /\ \A q \in Procs : op'[q].pc \in Promoting => q = p
          /\ \A q \in Procs : op'[q].pc \notin Publications
      BY <1>4, <1>6, <1>7 DEF Publications
    <2> QED
      BY <1>2, <1>4, <1>6, <1>7, <2>1 DEF PromotionOK, AccountFiles, Promoting, Publications
  <1>9. op[p].pc \notin Holding \cup Publications /\ c.pc \notin Holding
    BY <1>2, <1>4 DEF Holding, Observes, Publications
  <1> QED
    BY <1>2, <1>5, <1>7, <1>8, <1>9, PromoterSteps

LEMMA RegisterKeeps ==
    ASSUME LInv, NEW p \in Procs, Register(p) PROVE LInv'
PROOF
  <1> DEFINE c == [pc |-> "account"]
  <1>1. op \in [Procs -> OpRow] /\ op[p] \in OpRow /\ PromotionOK
    BY DEF LInv, LedgerRows
  <1>2. /\ op[p].pc = "register"
        /\ registry' = [stage |-> "registered", definition |-> op[p].definition]
        /\ op' = [op EXCEPT ![p] = c] /\ UNCHANGED AccountFiles
        /\ UNCHANGED <<lock, World, Record>>
    BY DEF Register, Doing
  <1>3. op[p].definition \in Definition
    BY <1>1, <1>2 DEF OpRow, Idle, ObserveRow, Observes, Promoting, Publications
  <1>4. c \in OpRow /\ c.pc = "account"
    BY DEF OpRow
  <1> HIDE DEF c
  <1>5. op'[p] = c /\ \A q \in Procs \ {p} : op'[q] = op[q]
    BY <1>1, <1>2
  <1>6. /\ accountFile \in {None, Torn}
        /\ \A q \in Procs : op[q].pc \in Promoting => q = p
    BY <1>1, <1>2 DEF PromotionOK, AccountFiles, Promoting, Publications, Loaded
  <1>7. PromotionOK'
    <2>1. \A q \in Procs : op'[q].pc \notin Promoting
      BY <1>4, <1>5, <1>6 DEF Promoting, Publications
    <2> QED
      BY <1>2, <1>6, <2>1 DEF PromotionOK, AccountFiles, Promoting, Publications
  <1>8. op[p].pc \notin Holding \cup Publications /\ c.pc \notin Holding
    BY <1>2, <1>4 DEF Holding, Observes, Publications
  <1>9. registry' \in [stage : {"registered"}, definition : Definition]
    BY <1>2, <1>3
  <1> QED
    BY <1>2, <1>4, <1>6, <1>7, <1>8, <1>9, PromoterSteps

LEMMA PromoteAgainKeeps ==
    ASSUME LInv, NEW p \in Procs, NEW choice, NEW b, PromoteAgain(p, choice, b)
    PROVE  LInv'
PROOF
  <1>1. PICK c : c = [pc |-> "account"]
    OBVIOUS
  <1>2. /\ op[p].pc = "idle" /\ op' = [op EXCEPT ![p] = c] /\ lock = Nobody
        /\ registry.stage = "registered" /\ lock' = p
        /\ UNCHANGED <<Registration, World, Record>>
    BY <1>1 DEF PromoteAgain, Doing
  <1>3. c \in OpRow /\ c.pc = "account"
    BY <1>1 DEF OpRow
  <1>4. /\ op' \in [Procs -> OpRow] /\ op'[p] = c
        /\ \A q \in Procs \ {p} : op'[q] = op[q]
    BY <1>2, <1>3 DEF LInv, LedgerRows
  <1>5. /\ UNCHANGED <<registry, accountFile>>
        /\ registry' \in [stage : {"absent", "directory", "database"}]
                         \cup [stage : {"registered"}, definition : Definition]
        /\ accountFile' \in {None, Torn} \cup Definition
        /\ accountTemp' \in TempStates
    BY <1>2 DEF Registration, AccountFiles, LInv, LedgerRows
  <1>6. PromotionOK'
    BY <1>2, <1>3, <1>4, <1>5
    DEF LInv, PromotionOK, Promoting, Publications, Loaded
  <1>7. /\ op[p].pc \notin Holding /\ op'[p].pc \notin Holding
        /\ op'[p].pc \in Publications
    BY <1>2, <1>3, <1>4 DEF Holding, Observes, Publications
  <1> QED
    BY <1>2, <1>4, <1>5, <1>6, <1>7, PromoterMoves

\* A promotion that publishes account.json again, or for the first time.
LEMMA PublicationMoves ==
    ASSUME LInv, NEW p \in Procs, op[p].pc \in Publications,
           op' \in [Procs -> OpRow], op'[p].pc \in Publications \cup {"idle"},
           \A q \in Procs \ {p} : \/ op'[q] = op[q]
                                  \/ op[q].pc = "write" /\ op'[q].pc = "write",
           lock' = IF lock = p /\ op'[p].pc = "idle" THEN Nobody ELSE lock,
           UNCHANGED <<registry, World, Record>>,
           accountFile' \in {accountFile, registry.definition, Torn},
           accountTemp' \in TempStates
    PROVE  LInv'
PROOF
  <1>1. /\ registry.stage = "registered" /\ registry.definition \in Definition
        /\ registry' \in [stage : {"registered"}, definition : Definition]
        /\ PromotionOK
    BY Registered DEF LInv, PromotionOK
  <1>2. accountFile' \in {None, Torn} \cup Definition
    BY <1>1 DEF LInv, LedgerRows
  <1>3. accountFile' \notin {None, Torn} => Loaded'
    BY <1>1 DEF PromotionOK, Loaded
  <1>4. PromotionOK'
    BY <1>1, <1>3 DEF PromotionOK, Promoting, Publications
  <1>5. op[p].pc \notin Holding /\ op'[p].pc \notin Holding
    BY DEF Holding, Observes, Publications
  <1>6. /\ lock' = lock \/ (lock = p /\ lock' = Nobody)
        /\ lock' = p => op'[p].pc \in Publications
    BY LedgerBoundAssumption
  <1> QED
    BY <1>1, <1>2, <1>4, <1>5, <1>6, PromoterMoves

LEMMA OpenAccountKeeps ==
    ASSUME LInv, NEW p \in Procs, OpenAccount(p) PROVE LInv'
PROOF
  <1>1. PICK c : c = [pc |-> "write", on |-> "temporary"]
    OBVIOUS
  <1>2. /\ op[p].pc = "account" /\ op' = [op EXCEPT ![p] = c]
        /\ accountTemp' = "torn"
        /\ UNCHANGED <<registry, accountFile, lock, World, Record>>
    BY <1>1 DEF OpenAccount, Doing
  <1>3. c \in OpRow /\ c.pc = "write"
    BY <1>1 DEF OpRow
  <1>4. /\ op' \in [Procs -> OpRow] /\ op'[p] = c
        /\ \A q \in Procs \ {p} : op'[q] = op[q]
    BY <1>2, <1>3 DEF LInv, LedgerRows
  <1> QED
    BY <1>2, <1>3, <1>4, PublicationMoves DEF Publications, TempStates

LEMMA WriteAccountKeeps ==
    ASSUME LInv, NEW p \in Procs, WriteAccount(p) PROVE LInv'
PROOF
  <1>1. PICK c : c = [pc |-> "rename"]
    OBVIOUS
  <1>2. /\ op[p].pc = "write" /\ op' = [op EXCEPT ![p] = c]
        /\ accountTemp' \in {"whole", accountTemp}
        /\ accountFile' \in {registry.definition, accountFile}
        /\ UNCHANGED <<registry, lock, World, Record>>
    BY <1>1 DEF WriteAccount, Doing
  <1>3. c \in OpRow /\ c.pc = "rename"
    BY <1>1 DEF OpRow
  <1>4. /\ op' \in [Procs -> OpRow] /\ op'[p] = c
        /\ \A q \in Procs \ {p} : op'[q] = op[q]
        /\ accountTemp' \in TempStates
    BY <1>2, <1>3 DEF LInv, LedgerRows, TempStates
  <1> QED
    BY <1>2, <1>3, <1>4, PublicationMoves DEF Publications

\* The file a promotion has open stays a file it has open.
LEMMA RenamedIs ==
    ASSUME LInv, NEW q \in Procs
    PROVE  /\ Renamed(q) \in OpRow
           /\ \/ Renamed(q) = op[q]
              \/ op[q].pc = "write" /\ Renamed(q).pc = "write"
PROOF
  <1>1. op[q] \in OpRow
    BY DEF LInv, LedgerRows
  <1>2. CASE op[q].pc # "write"
    BY <1>1, <1>2 DEF Renamed, Doing
  <1>3. CASE op[q].pc = "write"
    <2>1. op[q] \in [pc : {"write"}, on : {"temporary", "account", "replaced"}]
      BY <1>1, <1>3 DEF OpRow, Idle, ObserveRow, Observes, Promoting
    <2>2. PICK e \in {"account", "replaced"} :
             Renamed(q) = [op[q] EXCEPT !.on = e]
      BY <1>3 DEF Renamed, Doing
    <2>3. Renamed(q) \in [pc : {"write"}, on : {"temporary", "account", "replaced"}]
      BY <2>1, <2>2
    <2> QED
      BY <1>3, <2>3 DEF OpRow
  <1> QED
    BY <1>2, <1>3

LEMMA RenameAccountKeeps ==
    ASSUME LInv, NEW p \in Procs, RenameAccount(p) PROVE LInv'
PROOF
  <1>1. /\ op[p].pc = "rename"
        /\ op' = [q \in Procs |->
                    IF q = p THEN Idle
                    ELSE IF accountTemp = "none" THEN op[q] ELSE Renamed(q)]
        /\ lock' = IF lock = p THEN Nobody ELSE lock
        /\ UNCHANGED <<registry, World, Record>>
    BY DEF RenameAccount, Doing
  <1>2. /\ accountTemp' \in TempStates
        /\ accountFile' \in {accountFile, registry.definition, Torn}
    BY DEF RenameAccount, AccountFiles, LInv, LedgerRows, TempStates
  <1>3. /\ Idle \in OpRow /\ Idle.pc = "idle"
        /\ \A q \in Procs : op[q] \in OpRow
    BY DEF Idle, OpRow, LInv, LedgerRows
  <1>4. op' \in [Procs -> OpRow] /\ op'[p] = Idle
    BY <1>1, <1>3, RenamedIs
  <1>5. \A q \in Procs \ {p} : \/ op'[q] = op[q]
                               \/ op[q].pc = "write" /\ op'[q].pc = "write"
    BY <1>1, RenamedIs
  <1> QED
    BY <1>1, <1>2, <1>3, <1>4, <1>5, PublicationMoves DEF Publications

LEMMA PromotionKeeps ==
    ASSUME LInv, NEW p \in Procs, Promotion(p) PROVE LInv'
BY PromoteNewKeeps, DatabaseKeeps, RegisterKeeps, OpenAccountKeeps,
   WriteAccountKeeps, RenameAccountKeeps, PromoteAgainKeeps DEF Promotion
-----------------------------------------------------------------------------
(* Observation, by the holder of the lock.                                 *)

\* Steps of an observation that leave the record as it is.
LEMMA PreparesOn ==
    ASSUME LInv, NEW p \in Procs, NEW c \in ObserveRow,
           op' = [op EXCEPT ![p] = c], op[p].pc \in Observes \cup {"idle"},
           lock \in {p, Nobody}, lock' = p,
           UNCHANGED <<Registration, World, Record>>, ObservingOK(c)
    PROVE  LInv'
PROOF
  <1>1. /\ UNCHANGED <<clock, bundles, rewrites, restored, damaged>>
        /\ UNCHANGED <<attempts, latest, sealed, evaluation>>
        /\ Completed' = Completed /\ Open' = Open
    BY DEF World, Record, Completed, Open
  <1>2. /\ HistoryOK' /\ \A a \in Completed : Observed(a)' = Observed(a)
        /\ \A s, a : Ordered(s, a)' <=> Ordered(s, a)
        /\ \A returns : SameHistory(returns)' <=> SameHistory(returns)
    BY <1>1, HistoryFrame DEF LInv, HistoryOK
  <1>3. ObservingOK(c)'
    BY <1>1, <1>2 DEF ObservingOK, Unrestored
  <1>4. op'[p] = c
    BY DEF LInv, LedgerRows
  <1>5. c.pc \in Observes /\ c \in OpRow
    BY DEF ObserveRow, OpRow
  <1>6. OpOK(p)'
    BY <1>3, <1>4, <1>5 DEF OpOK, Observes
  <1>7. /\ op[p].pc \notin Promoting \cup Publications
        /\ c.pc \notin Promoting \cup Publications /\ c.pc \in Holding
    BY <1>5 DEF Observes, Promoting, Publications, Holding
  <1>8. /\ attempts' \in Seq(AttemptRow) /\ Completed \subseteq Completed'
        /\ latest' \in {0} \cup Completed' /\ sealed' \in {None} \cup EvidenceRow
    BY <1>1 DEF LInv, LedgerRows
  <1> QED
    BY <1>2, <1>5, <1>6, <1>7, <1>8, HolderKeeps

LEMMA EnterKeeps ==
    ASSUME LInv, NEW p \in Procs, NEW d, NEW b \in DOMAIN bundles, NEW t,
           Enter(p, d, b, t)
    PROVE  LInv'
PROOF
  <1> DEFINE c == [pc |-> IF Repeats(d) THEN "reuse" ELSE "admit",
                   day |-> d, bundle |-> b, evidence |-> Identity(b),
                   attempt |-> 0, returns |-> None, fills |-> {},
                   read |-> None, prefix |-> None]
  <1>1. /\ op[p].pc = "idle" /\ lock = Nobody /\ d \in Interval
        /\ sealed = None /\ Advances(d) /\ lock' = p
        /\ op' = [op EXCEPT ![p] = c]
        /\ UNCHANGED <<Registration, World, Record>>
    BY DEF Enter, Doing
  <1>2. bundles[b] \in Bundle /\ b \in Nat
    BY DEF LInv, LedgerRows
  <1>3. c \in ObserveRow
    BY <1>1, <1>2 DEF ObserveRow, Observes, Identity
  <1>4. c.pc = "reuse" => Completed # {}
    BY DEF Repeats
  <1>5. c.pc # "reuse" => \A a \in Completed : Observed(a).as_of < d
    <2>1. SUFFICES ASSUME ~Repeats(d), NEW a \in Completed
                   PROVE  Observed(a).as_of < d
      BY Zenon
    <2>2. Newest \in Completed /\ Observed(a).as_of <= Observed(Newest).as_of
      BY NewestIs, NewestIsLatest DEF LInv
    <2>3. Observed(Newest).as_of \in Nat /\ Observed(a).as_of \in Nat /\ d \in Nat
      BY <2>2, <1>1, CompletedRows, SessionsAreNumbers DEF LInv
    <2> QED
      BY <1>1, <2>1, <2>2, <2>3 DEF Advances, Repeats
  <1>6. ObservingOK(c)
    <2>1. /\ c.bundle = b /\ c.evidence = bundles[b] /\ c.day = d
          /\ c.pc \in {"reuse", "admit"}
      BY DEF Identity
    <2> HIDE DEF c
    <2> QED
      BY <1>1, <1>2, <1>4, <1>5, <2>1, NewerSelf
      DEF ObservingOK, Unrestored, Attempting, Replayed, Described
  <1> QED
    BY <1>1, <1>3, <1>6, PreparesOn

LEMMA AdmitKeeps ==
    ASSUME LInv, NEW p \in Procs, Admit(p) PROVE LInv'
PROOF
  <1> DEFINE c == [op[p] EXCEPT !.pc = "begin"]
  <1>1. /\ op[p].pc = "admit" /\ op' = [op EXCEPT ![p] = c] /\ lock' = lock
        /\ UNCHANGED <<Registration, World, Record>>
    BY DEF Admit, Doing
  <1>2. op[p] \in ObserveRow /\ ObservingOK(op[p]) /\ lock = p
    BY <1>1, ObserverOf DEF Observes
  <1>3. c \in ObserveRow
    BY <1>2 DEF ObserveRow, Observes
  <1>4. ObservingOK(c)
    BY <1>1, <1>2 DEF ObservingOK, ObserveRow, Attempting, Replayed, Described
  <1>5. op[p].pc \in Observes
    BY <1>1 DEF Observes
  <1> HIDE DEF c
  <1> QED
    BY <1>1, <1>2, <1>3, <1>4, <1>5, PreparesOn

LEMMA PassKeeps ==
    ASSUME LInv, NEW p \in Procs, Pass(p) PROVE LInv'
PROOF
  <1> DEFINE c == [op[p] EXCEPT !.pc = "commit"]
  <1>1. /\ op[p].pc = "gate" /\ op' = [op EXCEPT ![p] = c] /\ lock' = lock
        /\ UNCHANGED <<Registration, World, Record>>
    BY DEF Pass, Doing
  <1>2. op[p] \in ObserveRow /\ ObservingOK(op[p]) /\ lock = p
    BY <1>1, ObserverOf DEF Observes
  <1>3. c \in ObserveRow
    BY <1>2 DEF ObserveRow, Observes
  <1>4. ObservingOK(c)
    BY <1>1, <1>2 DEF ObservingOK, ObserveRow, Attempting, Replayed, Described
  <1>5. op[p].pc \in Observes
    BY <1>1 DEF Observes
  <1> HIDE DEF c
  <1> QED
    BY <1>1, <1>2, <1>3, <1>4, <1>5, PreparesOn

LEMMA ExecuteKeeps ==
    ASSUME LInv, NEW p \in Procs, Execute(p) PROVE LInv'
PROOF
  <1>1. PICK returns \in [Through(op[p].day) -> Gains],
             fills \in SUBSET IF Timely THEN Through(op[p].day) \ {Start}
                              ELSE {} :
          /\ SameHistory(returns)
          /\ op' = [op EXCEPT ![p].pc = "describe",
                              ![p].returns = returns, ![p].fills = fills,
                              ![p].read = Identity(op[p].bundle)]
    BY DEF Execute
  <1>2. /\ op[p].pc = "execute" /\ lock' = lock
        /\ UNCHANGED <<Registration, World, Record>>
    BY DEF Execute, Doing
  <1> DEFINE c == [op[p] EXCEPT !.pc = "describe", !.returns = returns,
                                !.fills = fills,
                                !.read = Identity(op[p].bundle)]
  <1>3. op[p] \in ObserveRow /\ ObservingOK(op[p]) /\ lock = p
    BY <1>2, ObserverOf DEF Observes
  <1>4. op' = [op EXCEPT ![p] = c]
    BY <1>1 DEF LInv, LedgerRows
  <1>5. /\ op[p].bundle \in DOMAIN bundles /\ bundles[op[p].bundle] \in Bundle
        /\ op[p].day \in Interval
    BY <1>3 DEF ObservingOK, LInv, LedgerRows, ObserveRow
  <1>6. returns \in Replays /\ fills \subseteq Through(op[p].day)
        /\ fills \subseteq Interval
    BY <1>5 DEF Replays, Through
  <1>7. c \in ObserveRow
    BY <1>3, <1>5, <1>6 DEF ObserveRow, Observes, Identity
  <1>8. /\ c.pc = "describe" /\ c.returns = returns /\ c.fills = fills
        /\ c.read = bundles[op[p].bundle] /\ c.day = op[p].day
        /\ c.bundle = op[p].bundle /\ c.evidence = op[p].evidence
        /\ c.attempt = op[p].attempt
    BY <1>3 DEF ObserveRow, Identity
  <1> HIDE DEF c
  <1>9. ObservingOK(c)
    BY <1>1, <1>2, <1>3, <1>5, <1>6, <1>8, NewerSelf
    DEF ObservingOK, Unrestored, Attempting, Replayed, Described
  <1>10. op[p].pc \in Observes
    BY <1>2 DEF Observes
  <1> QED
    BY <1>2, <1>3, <1>4, <1>7, <1>9, <1>10, PreparesOn

\* Before the commit the attempt is open and later than every completed one.
LEMMA AttemptIsLast ==
    ASSUME LInv, NEW p \in Procs, op[p].pc \in Attempting
    PROVE  /\ op[p].attempt = Len(attempts) /\ op[p].attempt \in Open
           /\ op[p].attempt \notin Completed
           /\ op[p].attempt \in DOMAIN attempts
           /\ \A a \in Completed : a < op[p].attempt
PROOF
  <1>1. ObservingOK(op[p])
    BY ObserverOf DEF Observes, Attempting
  <1>2. op[p].attempt = Len(attempts) /\ op[p].attempt \in Open
    BY <1>1 DEF ObservingOK
  <1>3. op[p].attempt \notin Completed /\ op[p].attempt \in DOMAIN attempts
    BY <1>2 DEF Open, Completed
  <1>4. \A a \in Completed : a \in 1 .. Len(attempts)
    BY CompletedRows DEF LInv
  <1>5. Len(attempts) \in Nat
    BY DEF LInv, LedgerRows
  <1> QED
    BY <1>2, <1>3, <1>4, <1>5

LEMMA DescribeKeeps ==
    ASSUME LInv, NEW p \in Procs, Describe(p) PROVE LInv'
PROOF
  <1> DEFINE f == Prefix(op[p].bundle, op[p].day)
             c == [op[p] EXCEPT !.pc = "gate", !.prefix = f]
  <1>1. /\ op[p].pc = "describe" /\ lock' = lock
        /\ Timely => \A s \in op[p].fills : Witnessed(s)
        /\ UNCHANGED <<Registration, World, Record>>
    BY DEF Describe, Doing
  <1>2. op' = [op EXCEPT ![p] = c]
    BY DEF Describe, LInv, LedgerRows
  <1>3. op[p] \in ObserveRow /\ ObservingOK(op[p]) /\ lock = p
    BY <1>1, ObserverOf DEF Observes
  <1>4. /\ op[p].bundle \in DOMAIN bundles /\ bundles[op[p].bundle] \in Bundle
        /\ op[p].day \in Interval /\ op[p].day \in Sessions
        /\ op[p].evidence \in Bundle /\ bundles \in Seq(Bundle)
    BY <1>3, SessionsAreNumbers DEF ObservingOK, LInv, LedgerRows, ObserveRow
  <1>5. /\ f \in [Known(op[p].day) -> Nat] /\ f \in Prefixes
        /\ \A s \in Known(op[p].day) : f[s] = bundles[op[p].bundle].rows[s]
    BY <1>4, PrefixIs
  <1> HIDE DEF f
  <1>6. c \in ObserveRow
    BY <1>3, <1>5 DEF ObserveRow, Observes
  <1>7. /\ c.pc = "gate" /\ c.returns = op[p].returns /\ c.fills = op[p].fills
        /\ c.read = op[p].read /\ c.day = op[p].day /\ c.prefix = f
        /\ c.bundle = op[p].bundle /\ c.evidence = op[p].evidence
        /\ c.attempt = op[p].attempt
    BY <1>3 DEF ObserveRow
  <1> HIDE DEF c
  <1>8. \A s \in Known(c.day) \cap Unrestored(c.bundle) :
           /\ c.evidence.rows[s] <= c.prefix[s]
           /\ c.prefix[s] <= bundles[c.bundle].rows[s]
    <2>1. Newer(Unrestored(op[p].bundle), op[p].evidence, bundles[op[p].bundle])
      BY <1>3 DEF ObservingOK
    <2>2. \A s \in Known(op[p].day) \cap Unrestored(op[p].bundle) :
             /\ bundles[op[p].bundle].rows[s] \in Nat
             /\ op[p].evidence.rows[s] <= bundles[op[p].bundle].rows[s]
      BY <1>4, <2>1 DEF Known, Newer, Bundle
    <2> QED
      BY <2>2, <1>5, <1>7
  <1>9. Timely => \A s \in c.fills : Ordered(s, c.attempt)
    <2>1. \A a \in Completed : a < op[p].attempt
      BY <1>1, AttemptIsLast DEF Attempting
    <2> QED
      BY <1>1, <1>7, <2>1 DEF Witnessed, Ordered
  <1>10. ObservingOK(c)
    <2>1. c.pc = "gate" /\ op[p].pc = "describe"
      BY <1>1, <1>7
    <2> QED
      BY <1>3, <1>5, <1>7, <1>8, <1>9, <2>1
      DEF ObservingOK, Attempting, Replayed, Described
  <1>11. op[p].pc \in Observes
    BY <1>1 DEF Observes
  <1> QED
    BY <1>1, <1>2, <1>3, <1>6, <1>10, <1>11, PreparesOn

LEMMA IdleIs ==
    /\ Idle \in OpRow /\ Idle.pc = "idle"
    /\ Idle.pc \notin Holding \cup Promoting \cup Publications
BY DEF Idle, OpRow, Holding, Observes, Promoting, Publications

LEMMA HolderOf ==
    ASSUME LInv, NEW p \in Procs, op[p].pc \in Holding
    PROVE  /\ lock = p /\ op[p] \in OpRow
           /\ op[p].pc \notin Promoting \cup Publications
BY DEF LInv, LedgerRows, HeldByOne, Holding, Observes, Promoting, Publications

\* The holder leaves the attempts as they are and lets the lock go.
LEMMA Leaves ==
    ASSUME LInv, NEW p \in Procs, op[p].pc \in Holding, Leave(p),
           FilesKept, UNCHANGED <<World, attempts, sealed>>,
           evaluation' \in {evaluation, sealed}, latest' \in {0} \cup Completed
    PROVE  LInv'
PROOF
  <1>1. /\ UNCHANGED bundles /\ Completed' = Completed /\ Open' = Open
        /\ lock = p /\ op[p].pc \notin Promoting \cup Publications
    BY HolderOf DEF World, Completed, Open
  <1>2. op' = [op EXCEPT ![p] = Idle] /\ lock' = Nobody /\ op'[p] = Idle
    BY DEF Leave, LInv, LedgerRows
  <1>3. OpOK(p)'
    BY <1>2, IdleIs DEF OpOK, Observes, Holding
  <1>4. HistoryOK'
    <2>1. /\ \A a \in Completed : Observed(a)' = Observed(a)
          /\ \A s, a : Ordered(s, a)' <=> Ordered(s, a)
      BY <1>1 DEF Observed, Ordered
    <2>2. HistoryOK
      BY DEF LInv
    <2>3. \A a \in Completed : ResultOK(Observed(a))'
      BY <1>1, <2>1, <2>2 DEF HistoryOK, ResultOK
    <2> QED
      BY <1>1, <2>1, <2>2, <2>3 DEF HistoryOK
  <1>5. /\ attempts' \in Seq(AttemptRow) /\ Completed \subseteq Completed'
        /\ latest' \in {0} \cup Completed' /\ sealed' \in {None} \cup EvidenceRow
    BY <1>1 DEF LInv, LedgerRows
  <1> QED
    BY <1>1, <1>2, <1>3, <1>4, <1>5, IdleIs, HolderGoesOn

LEMMA ReuseKeeps ==
    ASSUME LInv, NEW p \in Procs, Reuse(p) PROVE LInv'
PROOF
  <1>1. op[p].pc = "reuse" /\ Leave(p) /\ latest' = Newest
        /\ UNCHANGED <<Registration, World, attempts, sealed, evaluation>>
    BY DEF Reuse, Doing
  <1>2. op[p].pc \in Holding /\ op[p].pc \in Observes
    BY <1>1 DEF Holding, Observes
  <1>3. Newest \in Completed
    BY <1>1, <1>2, ObserverOf, NewestIs DEF ObservingOK, LInv
  <1> QED
    BY <1>1, <1>2, <1>3, Leaves, FilesStay

LEMMA PublishKeeps ==
    ASSUME LInv, NEW p \in Procs, Publish(p) PROVE LInv'
PROOF
  <1>1. op[p].pc = "publish" /\ Leave(p) /\ latest' = op[p].attempt
        /\ UNCHANGED <<Registration, World, attempts, sealed, evaluation>>
    BY DEF Publish, Doing
  <1>2. op[p].pc \in Holding /\ op[p].attempt \in Completed
    BY <1>1 DEF Holding, LInv, OpOK
  <1> QED
    BY <1>1, <1>2, Leaves, FilesStay

LEMMA PublishEvaluationKeeps ==
    ASSUME LInv, NEW p \in Procs, PublishEvaluation(p) PROVE LInv'
PROOF
  <1>1. op[p].pc = "evaluate" /\ Leave(p) /\ evaluation' = sealed
        /\ UNCHANGED <<Registration, World, attempts, latest, sealed>>
    BY DEF PublishEvaluation, Doing
  <1>2. op[p].pc \in Holding /\ latest' \in {0} \cup Completed
    BY <1>1 DEF Holding, LInv, LedgerRows
  <1> QED
    BY <1>1, <1>2, Leaves, FilesStay

\* An open attempt is closed; what was completed stays.
LEMMA Closes ==
    ASSUME LInv, NEW a \in Open, NEW st \in {"failed", "interrupted"},
           attempts' = [attempts EXCEPT ![a].status = st]
    PROVE  /\ attempts' \in Seq(AttemptRow) /\ Completed' = Completed
           /\ Len(attempts') = Len(attempts) /\ Open' = Open \ {a}
           /\ \A x \in Completed : attempts'[x] = attempts[x]
PROOF
  <1> DEFINE new == [attempts[a] EXCEPT !.status = st]
  <1>1. attempts \in Seq(AttemptRow) /\ a \in DOMAIN attempts
        /\ attempts[a].status = "running"
    BY DEF LInv, LedgerRows, Open
  <1>2. attempts[a] \in [status : {"running", "failed", "interrupted"},
                         day : Interval]
    BY <1>1 DEF AttemptRow
  <1>3. new \in AttemptRow /\ new.status = st
    BY <1>2 DEF AttemptRow
  <1>4. attempts' = [attempts EXCEPT ![a] = new]
    OBVIOUS
  <1> HIDE DEF new
  <1>5. /\ attempts' \in Seq(AttemptRow) /\ Len(attempts') = Len(attempts)
        /\ DOMAIN attempts' = DOMAIN attempts /\ attempts'[a] = new
        /\ \A x \in DOMAIN attempts : x # a => attempts'[x] = attempts[x]
    BY <1>1, <1>3, <1>4
  <1>6. Completed' = Completed /\ Open' = Open \ {a}
    BY <1>1, <1>3, <1>5 DEF Completed, Open
  <1>7. \A x \in Completed : x \in DOMAIN attempts /\ x # a
    BY <1>1 DEF Completed
  <1> QED
    BY <1>5, <1>6, <1>7

LEMMA RecoverKeeps ==
    ASSUME LInv, NEW p \in Procs, Recover(p) PROVE LInv'
PROOF
  <1>1. PICK a \in Open :
           attempts' = [attempts EXCEPT ![a].status = "interrupted"]
    BY DEF Recover
  <1>2. op[p].pc = "begin"
        /\ UNCHANGED <<Registration, World, latest, sealed, evaluation, lock, op>>
    BY DEF Recover, Doing
  <1>3. /\ attempts' \in Seq(AttemptRow) /\ Completed' = Completed
        /\ Open' = Open \ {a}
        /\ \A x \in Completed : attempts'[x] = attempts[x]
    BY <1>1, Closes
  <1>4. /\ HistoryOK' /\ \A x \in Completed : Observed(x)' = Observed(x)
    BY <1>2, <1>3, HistoryFrame DEF World, LInv, HistoryOK
  <1>5. op[p] \in ObserveRow /\ ObservingOK(op[p]) /\ lock = p
    BY <1>2, ObserverOf DEF Observes
  <1>6. OpOK(p)'
    BY <1>2, <1>3, <1>4, <1>5 DEF OpOK, ObservingOK, Unrestored,
                                  Attempting, Replayed, Described, World
  <1>7. op' = [op EXCEPT ![p] = op[p]] /\ op[p] \in OpRow
    BY <1>2, <1>5 DEF LInv, LedgerRows
  <1>8. op[p].pc \in Holding /\ op[p].pc \notin Promoting \cup Publications
    BY <1>2 DEF Holding, Observes, Promoting, Publications
  <1>9. latest' \in {0} \cup Completed' /\ sealed' \in {None} \cup EvidenceRow
    BY <1>2, <1>3 DEF LInv, LedgerRows
  <1> QED
    BY <1>2, <1>3, <1>4, <1>5, <1>6, <1>7, <1>8, <1>9, HolderKeeps

LEMMA FailKeeps ==
    ASSUME LInv, NEW p \in Procs, Fail(p) PROVE LInv'
PROOF
  <1> DEFINE a == op[p].attempt
  <1>1. /\ op[p].pc \in Attempting /\ Leave(p)
        /\ attempts' = [attempts EXCEPT ![a].status = "failed"]
        /\ UNCHANGED <<Registration, World, latest, sealed, evaluation>>
    BY DEF Fail, Attempting
  <1>2. a \in Open
    BY <1>1, AttemptIsLast
  <1>3. /\ attempts' \in Seq(AttemptRow) /\ Completed' = Completed
        /\ Open' = Open \ {a}
        /\ \A x \in Completed : attempts'[x] = attempts[x]
    BY <1>1, <1>2, Closes
  <1>4. HistoryOK'
    BY <1>1, <1>3, HistoryFrame DEF World, LInv, HistoryOK
  <1>5. op' = [op EXCEPT ![p] = Idle] /\ lock' = Nobody /\ op'[p] = Idle
    BY <1>1 DEF Leave, LInv, LedgerRows
  <1>6. op[p].pc \in Holding
    BY <1>1 DEF Holding, Observes, Attempting
  <1>7. lock = p /\ op[p].pc \notin Promoting \cup Publications
    BY <1>6, HolderOf
  <1>8. OpOK(p)'
    BY <1>5, IdleIs DEF OpOK, Observes, Holding
  <1>9. latest' \in {0} \cup Completed' /\ sealed' \in {None} \cup EvidenceRow
    BY <1>1, <1>3 DEF LInv, LedgerRows
  <1> QED
    BY <1>1, <1>3, <1>4, <1>5, <1>7, <1>8, <1>9, IdleIs, HolderKeeps

LEMMA BeginKeeps ==
    ASSUME LInv, NEW p \in Procs, Begin(p) PROVE LInv'
PROOF
  <1> DEFINE row == [status |-> "running", day |-> op[p].day]
             n == Len(attempts) + 1
  <1>0. PICK c : c = [op[p] EXCEPT !.attempt = n, !.pc = "execute"]
    BY Zenon
  <1>1. /\ op[p].pc = "begin" /\ Open = {} /\ lock' = lock
        /\ attempts' = Append(attempts, row)
        /\ UNCHANGED <<Registration, World, latest, sealed, evaluation>>
    BY DEF Begin, Doing
  <1>2. op' = [op EXCEPT ![p] = c] /\ op'[p] = c
    BY <1>0 DEF Begin, LInv, LedgerRows
  <1>3. op[p] \in ObserveRow /\ ObservingOK(op[p]) /\ lock = p
        /\ attempts \in Seq(AttemptRow) /\ op[p].pc \in Observes
    BY <1>1, ObserverOf DEF Observes, LInv, LedgerRows
  <1>4. row \in AttemptRow /\ row.status = "running" /\ n \in Nat
    BY <1>3 DEF AttemptRow, ObserveRow
  <1> HIDE DEF row
  <1>5. /\ attempts' \in Seq(AttemptRow) /\ Len(attempts') = n
        /\ DOMAIN attempts' = DOMAIN attempts \cup {n}
        /\ n \notin DOMAIN attempts /\ attempts'[n] = row
        /\ \A x \in DOMAIN attempts : attempts'[x] = attempts[x]
    BY <1>1, <1>3, <1>4
  <1>6. Completed' = Completed /\ Open' = Open \cup {n}
    BY <1>4, <1>5 DEF Completed, Open
  <1>7. \A x \in Completed : attempts'[x] = attempts[x]
    BY <1>5 DEF Completed
  <1>8. HistoryOK' /\ \A x \in Completed : Observed(x)' = Observed(x)
    BY <1>1, <1>6, <1>7, HistoryFrame DEF World, LInv, HistoryOK
  <1>9. c \in ObserveRow
    BY <1>0, <1>3, <1>4 DEF ObserveRow, Observes
  <1>10. /\ c.pc = "execute" /\ c.attempt = n /\ c.day = op[p].day
         /\ c.bundle = op[p].bundle /\ c.evidence = op[p].evidence
    BY <1>0, <1>3 DEF ObserveRow
  <1>11. ObservingOK(c)'
    BY <1>1, <1>3, <1>5, <1>6, <1>8, <1>10
    DEF ObservingOK, Unrestored, Attempting, Replayed, Described, World
  <1>12. OpOK(p)' /\ c \in OpRow /\ c.pc \in Holding
         /\ c.pc \notin Promoting \cup Publications
         /\ op[p].pc \notin Promoting \cup Publications
    BY <1>1, <1>2, <1>9, <1>10, <1>11
    DEF OpOK, OpRow, Holding, Observes, Promoting, Publications
  <1>13. latest' \in {0} \cup Completed' /\ sealed' \in {None} \cup EvidenceRow
    BY <1>1, <1>6 DEF LInv, LedgerRows
  <1> HIDE DEF n
  <1> QED
    BY <1>1, <1>2, <1>3, <1>5, <1>6, <1>8, <1>12, <1>13, HolderKeeps

\* The commit completes the last attempt, with what the process holds.
Outcome(c) ==
    [as_of |-> c.day, returns |-> c.returns, fills |-> c.fills,
     read |-> c.read, identity |-> c.evidence, inputs |-> c.bundle,
     prefix |-> c.prefix]

LEMMA CommitAdds ==
    ASSUME LInv, NEW p \in Procs, Commit(p),
           NEW c, c = op[p], NEW n, n = op[p].attempt
    PROVE  /\ c \in ObserveRow /\ ObservingOK(c) /\ lock = p
           /\ c.returns \in Replays /\ Outcome(c) \in Result
           /\ attempts' \in Seq(AttemptRow) /\ Len(attempts') = Len(attempts)
           /\ n = Len(attempts) /\ n \in Open /\ n \notin Completed
           /\ Completed' = Completed \cup {n} /\ Open' = Open \ {n}
           /\ \A a \in Completed :
                 a < n /\ attempts'[a] = attempts[a] /\ Observed(a)' = Observed(a)
           /\ Observed(n)' = Outcome(c) /\ attempts'[n].at = clock
PROOF
  <1> DEFINE new == [status |-> "completed", day |-> c.day, at |-> clock,
                     result |-> Outcome(c)]
  <1>1. op[p].pc = "commit" /\ attempts' = [attempts EXCEPT ![n] = new]
    BY DEF Commit, Doing, Outcome
  <1>2. c \in ObserveRow /\ ObservingOK(c) /\ lock = p
    BY <1>1, ObserverOf DEF Observes
  <1>3. /\ n = Len(attempts) /\ n \in Open /\ n \notin Completed
        /\ n \in DOMAIN attempts /\ \A a \in Completed : a < n
    BY <1>1, AttemptIsLast DEF Attempting
  <1>4. /\ c.returns \in [Through(c.day) -> Gains]
        /\ c.read \in Bundle /\ c.prefix \in [Known(c.day) -> Nat]
        /\ c.day \in Interval /\ c.day \in Sessions
    BY <1>1, <1>2, SessionsAreNumbers
    DEF ObservingOK, ObserveRow, Replayed, Described
  <1>5. c.returns \in Replays /\ c.prefix \in Prefixes
    BY <1>4 DEF Replays, Prefixes
  <1>6. Outcome(c) \in Result
    BY <1>2, <1>4, <1>5 DEF Outcome, Result, ObserveRow
  <1>7. new \in AttemptRow /\ new.status = "completed" /\ new.at = clock
        /\ new.result = Outcome(c)
    <2>1. clock \in Nat
      BY DEF LInv, LedgerRows
    <2> QED
      BY <1>4, <1>6, <2>1 DEF AttemptRow
  <1> HIDE DEF new
  <1>8. attempts \in Seq(AttemptRow)
    BY DEF LInv, LedgerRows
  <1>9. /\ attempts' \in Seq(AttemptRow) /\ Len(attempts') = Len(attempts)
        /\ DOMAIN attempts' = DOMAIN attempts /\ attempts'[n] = new
        /\ \A x \in DOMAIN attempts : x # n => attempts'[x] = attempts[x]
    BY <1>1, <1>3, <1>7, <1>8
  <1>10. Completed' = Completed \cup {n} /\ Open' = Open \ {n}
    BY <1>3, <1>7, <1>9 DEF Completed, Open
  <1>11. \A a \in Completed :
            attempts'[a] = attempts[a] /\ Observed(a)' = Observed(a)
    BY <1>3, <1>9 DEF Completed, Observed
  <1>12. Observed(n)' = Outcome(c) /\ attempts'[n].at = clock
    BY <1>7, <1>9 DEF Observed
  <1> QED
    BY <1>2, <1>3, <1>5, <1>6, <1>9, <1>10, <1>11, <1>12

LEMMA CommitKeeps ==
    ASSUME LInv, NEW p \in Procs, Commit(p) PROVE LInv'
PROOF
  <1>1. PICK n : n = op[p].attempt
    OBVIOUS
  <1>2. PICK c : c = op[p]
    OBVIOUS
  <1>3. PICK r : r = Outcome(c)
    OBVIOUS
  <1>4. /\ c \in ObserveRow /\ ObservingOK(c) /\ lock = p /\ r \in Result
        /\ attempts' \in Seq(AttemptRow) /\ Len(attempts') = Len(attempts)
        /\ n = Len(attempts) /\ n \in Open /\ n \notin Completed
        /\ Completed' = Completed \cup {n} /\ Open' = Open \ {n}
        /\ Observed(n)' = r
    BY <1>1, <1>2, <1>3, CommitAdds
  <1>5. \A a \in Completed :
           a < n /\ attempts'[a] = attempts[a] /\ Observed(a)' = Observed(a)
    BY <1>1, CommitAdds
  <1>6. /\ c.pc = "commit" /\ lock' = lock
        /\ op' = [op EXCEPT ![p] = [pc |-> "publish", attempt |-> n]]
        /\ UNCHANGED <<Registration, World, latest, sealed, evaluation>>
    BY <1>1, <1>2 DEF Commit, Doing
  <1>7. PICK d : d = [pc |-> "publish", attempt |-> n]
    OBVIOUS
  <1>8. n \in Nat
    BY <1>4 DEF LInv, LedgerRows
  <1>9. d \in OpRow /\ d.pc = "publish" /\ d.attempt = n
        /\ op' = [op EXCEPT ![p] = d] /\ op'[p] = d
    BY <1>6, <1>7, <1>8 DEF OpRow, LInv, LedgerRows
  <1>10. OpOK(p)'
    <2>1. n \in Completed' /\ \A a \in Completed' : a <= n
      <3>1. \A a \in Completed : a \in 1 .. Len(attempts)
        BY CompletedRows DEF LInv
      <3> QED
        BY <3>1, <1>4, <1>5, <1>8
    <2> QED
      BY <1>9, <2>1 DEF OpOK, Observes
  <1>11. \A s, a : Ordered(s, a) => Ordered(s, a)'
    BY <1>4, <1>5 DEF Ordered
  <1>12. /\ r.as_of = c.day /\ r.returns = c.returns /\ r.fills = c.fills
         /\ r.inputs = c.bundle
    BY <1>3 DEF Outcome
  <1>13. /\ ResultOK(r) /\ c.attempt = n
         /\ Timely => \A s \in r.fills : Ordered(s, n)
         /\ \A a \in Completed : Observed(a).as_of < r.as_of
         /\ sealed = None
    BY <1>1, <1>2, <1>4, <1>6, <1>12
    DEF ObservingOK, ResultOK, ObserveRow, Replayed, Described
  <1>14. HistoryOK'
    <2>1. HistoryOK /\ bundles' = bundles /\ sealed' = sealed
          /\ evaluation' = evaluation
      BY <1>6 DEF LInv, World
    <2>2. \A a \in Completed' :
             /\ ResultOK(Observed(a))'
             /\ Timely => \A s \in Observed(a)'.fills : Ordered(s, a)'
      <3>1. SUFFICES ASSUME NEW a \in Completed'
                     PROVE  /\ ResultOK(Observed(a))'
                            /\ Timely => \A s \in Observed(a)'.fills :
                                            Ordered(s, a)'
        BY Zenon
      <3>2. CASE a = n
        BY <3>2, <1>4, <1>11, <1>13, <2>1 DEF ResultOK
      <3>3. CASE a \in Completed
        BY <3>3, <1>5, <1>11, <2>1 DEF HistoryOK, ResultOK
      <3> QED
        BY <3>2, <3>3, <1>4
    <2>3. \A a, b \in Completed' : a < b => Observed(a)'.as_of < Observed(b)'.as_of
      <3>1. \A a, b \in Completed : a < b => Observed(a)'.as_of < Observed(b)'.as_of
        BY <1>5, <2>1 DEF HistoryOK
      <3>2. \A a \in Completed : a < n /\ Observed(a)'.as_of < Observed(n)'.as_of
        BY <1>4, <1>5, <1>13
      <3>3. \A a \in Completed : a \in Nat /\ ~(n < a)
        BY <1>5, <1>8, CompletedRows DEF LInv
      <3>4. ~(n < n)
        BY <1>8
      <3> QED
        BY <3>1, <3>2, <3>3, <3>4, <1>4
    <2>4. \A a, b \in Open' : a = b
      BY <1>4, <2>1 DEF HistoryOK
    <2> QED
      BY <1>13, <2>1, <2>2, <2>3, <2>4 DEF HistoryOK
  <1>15. /\ latest' \in {0} \cup Completed' /\ sealed' \in {None} \cup EvidenceRow
         /\ Completed \subseteq Completed'
    BY <1>4, <1>6 DEF LInv, LedgerRows
  <1>16. /\ op[p].pc \notin Promoting \cup Publications
         /\ d.pc \notin Promoting \cup Publications /\ d.pc \in Holding
    BY <1>2, <1>6, <1>9 DEF Promoting, Publications, Holding
  <1> QED
    BY <1>4, <1>6, <1>9, <1>10, <1>14, <1>15, <1>16, HolderKeeps

LEMMA EvidenceIs ==
    ASSUME LedgerRows, Completed # {}
    PROVE  /\ Evidence(Newest) \in EvidenceRow /\ Evidence(Newest) # None
           /\ Evidence(Newest).identity = Observed(Newest).identity
PROOF
  <1>1. Newest \in Completed
    BY NewestIs
  <1>2. Observed(Newest) \in Result /\ Observed(Newest).as_of \in Interval
    BY <1>1, CompletedRows
  <1>3. Evidence(Newest) \in EvidenceRow
    BY <1>2 DEF Evidence, EvidenceRow, Result
  <1>4. Evidence(Newest).as_of # 0
    BY <1>2, SessionsAreNumbers DEF Evidence
  <1> QED
    BY <1>3, <1>4 DEF Evidence, None

LEMMA SealHoldoutKeeps ==
    ASSUME LInv, NEW p \in Procs, SealHoldout(p) PROVE LInv'
PROOF
  <1>1. /\ op[p].pc = "idle" /\ lock = Nobody /\ Completed # {}
        /\ sealed \in {None, Evidence(Newest)} /\ sealed' = Evidence(Newest)
        /\ lock' = p /\ op' = [op EXCEPT ![p] = [pc |-> "evaluate"]]
        /\ UNCHANGED <<Registration, World, attempts, latest, evaluation>>
    BY DEF SealHoldout, Doing
  <1>2. PICK c : c = [pc |-> "evaluate"]
    OBVIOUS
  <1>3. c \in OpRow /\ c.pc = "evaluate" /\ op' = [op EXCEPT ![p] = c]
        /\ op'[p] = c
    BY <1>1, <1>2 DEF OpRow, LInv, LedgerRows
  <1>4. /\ sealed' \in EvidenceRow /\ sealed' # None
        /\ sealed'.identity = Observed(Newest).identity
    BY <1>1, EvidenceIs DEF LInv
  <1>5. OpOK(p)'
    BY <1>3, <1>4 DEF OpOK, Observes
  <1>6. UNCHANGED bundles /\ Completed' = Completed /\ Open' = Open
    BY <1>1 DEF World, Completed, Open
  <1>7. HistoryOK'
    <2>1. /\ \A a \in Completed : Observed(a)' = Observed(a)
          /\ \A s, a : Ordered(s, a)' <=> Ordered(s, a)
      BY <1>1, <1>6 DEF Observed, Ordered
    <2>2. HistoryOK
      BY DEF LInv
    <2>3. \A a \in Completed : ResultOK(Observed(a))'
      BY <1>6, <2>1, <2>2 DEF HistoryOK, ResultOK
    <2>4. ASSUME NEW a \in Completed, \A b \in Completed : b <= a
          PROVE  sealed'.identity = Observed(a)'.identity
      <3>1. Newest \in Completed /\ a <= Newest /\ Newest <= a
        BY <2>4, NewestIs DEF LInv
      <3>2. a \in 1 .. Len(attempts) /\ Newest \in 1 .. Len(attempts)
            /\ Len(attempts) \in Nat
        BY <3>1, CompletedRows DEF LInv, LedgerRows
      <3>3. a = Newest
        BY <3>1, <3>2
      <3> QED
        BY <3>3, <2>1, <1>4
    <2>5. evaluation' # None => evaluation' = sealed'
      BY <1>1, <2>2 DEF HistoryOK
    <2> QED
      BY <1>1, <1>4, <1>6, <2>1, <2>2, <2>3, <2>4, <2>5 DEF HistoryOK
  <1>8. /\ attempts' \in Seq(AttemptRow) /\ Completed \subseteq Completed'
        /\ latest' \in {0} \cup Completed'
    BY <1>1, <1>6 DEF LInv, LedgerRows
  <1>9. /\ op[p].pc \notin Promoting \cup Publications
        /\ c.pc \notin Promoting \cup Publications /\ c.pc \in Holding
    BY <1>1, <1>3 DEF Promoting, Publications, Holding
  <1> QED
    BY <1>1, <1>3, <1>4, <1>5, <1>7, <1>8, <1>9, HolderKeeps

LEMMA CrashKeeps ==
    ASSUME LInv, NEW p \in Procs, Crash(p) PROVE LInv'
PROOF
  <1>1. /\ op' = [op EXCEPT ![p] = Idle]
        /\ lock' = IF lock = p THEN Nobody ELSE lock
        /\ FilesKept /\ UNCHANGED <<World, Record>>
    BY DEF Crash, FilesKept, LInv, LedgerRows, TempStates
  <1>2. HeldByOne
    BY DEF LInv
  <1>3. CASE op[p].pc \in Holding
    <2>1. Leave(p)
      BY <1>1, <1>2, <1>3 DEF HeldByOne, Leave
    <2>2. /\ UNCHANGED <<World, attempts, sealed>>
          /\ evaluation' \in {evaluation, sealed} /\ latest' \in {0} \cup Completed
      BY <1>1 DEF Record, LInv, LedgerRows
    <2> QED
      BY <1>1, <1>3, <2>1, <2>2, Leaves
  <1>4. CASE op[p].pc \notin Holding
    <2>1. /\ op' \in [Procs -> OpRow] /\ op'[p] = Idle
          /\ \A q \in Procs \ {p} : op'[q] = op[q]
      BY <1>1, IdleIs DEF LInv, LedgerRows
    <2>2. PromotionOK'
      BY <1>1, <2>1, IdleIs
      DEF LInv, PromotionOK, Promoting, Publications, Loaded, FilesKept
    <2>3. /\ registry' \in [stage : {"absent", "directory", "database"}]
                           \cup [stage : {"registered"}, definition : Definition]
          /\ accountFile' \in {None, Torn} \cup Definition
          /\ accountTemp' \in TempStates
      BY <1>1 DEF LInv, LedgerRows, FilesKept
    <2>4. lock' # p /\ (lock' = lock \/ (lock = p /\ lock' = Nobody))
      BY <1>1, LedgerBoundAssumption
    <2> QED
      BY <1>1, <1>4, <2>1, <2>2, <2>3, <2>4, IdleIs, PromoterMoves
  <1> QED
    BY <1>3, <1>4

LEMMA ObservingKeeps ==
    ASSUME LInv, NEW p \in Procs, Observing(p) PROVE LInv'
BY RecoverKeeps, BeginKeeps, ExecuteKeeps, DescribeKeeps, CommitKeeps
DEF Observing

LEMMA SealingKeeps ==
    ASSUME LInv, NEW p \in Procs, Sealing(p) PROVE LInv'
BY SealHoldoutKeeps, PublishEvaluationKeeps DEF Sealing
-----------------------------------------------------------------------------
(* The ledger's theorems.                                                  *)

LEMMA LedgerStarts ==
    ASSUME LedgerInit PROVE LInv
PROOF
  <1>1. /\ clock = 2 /\ bundles = <<>> /\ rewrites = 0
        /\ registry = [stage |-> "absent"] /\ accountFile = None
        /\ accountTemp = "none" /\ restored = {}
        /\ attempts = <<>> /\ damaged = {} /\ latest = 0
        /\ sealed = None /\ evaluation = None
        /\ lock = Nobody /\ op = [p \in Procs |-> Idle]
    BY DEF LedgerInit
  <1>2. Completed = {} /\ Open = {}
    BY <1>1 DEF Completed, Open
  <1>3. \A p \in Procs : op[p] = Idle
    BY <1>1
  <1>4. LedgerRows
    <2>1. op \in [Procs -> OpRow]
      BY <1>1, IdleIs
    <2> QED
      BY <1>1, <2>1 DEF LedgerRows, TempStates
  <1>5. BundlesAge
    BY <1>1 DEF BundlesAge
  <1>6. HeldByOne
    BY <1>1, <1>3, IdleIs, LedgerBoundAssumption DEF HeldByOne
  <1>7. PromotionOK
    BY <1>1, <1>3, IdleIs DEF PromotionOK, Promoting, Publications
  <1>8. HistoryOK
    BY <1>1, <1>2 DEF HistoryOK
  <1>9. \A p \in Procs : OpOK(p)
    BY <1>3, IdleIs DEF OpOK, Holding
  <1> QED
    BY <1>4, <1>5, <1>6, <1>7, <1>8, <1>9 DEF LInv

LEMMA LedgerStutters ==
    ASSUME LInv, UNCHANGED ledgerVars PROVE LInv'
PROOF
  <1>1. /\ UNCHANGED <<clock, bundles, rewrites, restored, damaged>>
        /\ UNCHANGED <<Registration, Record, lock, op>>
    BY DEF ledgerVars, Registration, AccountFiles, Record
  <1>2. /\ clock' \in Nat /\ rewrites' \in Nat /\ damaged' \subseteq Completed
        /\ BundlesAge'
    BY <1>1 DEF LInv, LedgerRows, BundlesAge
  <1>3. Ageing
    BY <1>1, BundlesRest
  <1> QED
    BY <1>1, <1>2, <1>3, WorldMoves

LEMMA LedgerSteps ==
    ASSUME LInv, [LedgerNext]_ledgerVars PROVE LInv'
PROOF
  <1>1. CASE UNCHANGED ledgerVars
    BY <1>1, LedgerStutters
  <1>2. CASE Surroundings
    BY <1>2, SurroundingsKeep
  <1>3. ASSUME NEW p \in Procs, Promotion(p) \/ Sealing(p) PROVE LInv'
    BY <1>3, PromotionKeeps, SealingKeeps
  <1>4. ASSUME NEW p \in Procs, NEW d \in Interval, NEW b \in DOMAIN bundles,
               Enter(p, d, b, clock)
        PROVE  LInv'
    BY <1>4, EnterKeeps
  <1>5. ASSUME NEW p \in Procs,
               Observing(p) \/ Reuse(p) \/ Admit(p) \/ Pass(p) \/ Publish(p)
                  \/ Fail(p) \/ Crash(p)
        PROVE  LInv'
    BY <1>5, ObservingKeeps, ReuseKeeps, AdmitKeeps, PassKeeps, PublishKeeps,
       FailKeeps, CrashKeeps
  <1> QED
    BY <1>1, <1>2, <1>3, <1>4, <1>5 DEF LedgerNext

LEMMA LedgerStays == LedgerSpec => []LInv
BY LedgerStarts, LedgerSteps, PTL DEF LedgerSpec

LEMMA PrefixesAre ==
    ASSUME NEW f \in Prefixes PROVE IsPrefix(f)
BY DEF Prefixes, IsPrefix

LEMMA LedgerIsTyped ==
    ASSUME LInv PROVE LedgerTypeOK
PROOF
  <1>1. LedgerRows /\ HistoryOK
    BY DEF LInv
  <1>2. \A f \in Definition : IsDefinition(f)
    BY PrefixesAre DEF Definition, IsDefinition
  <1>3. /\ registry.stage \in Stages
        /\ registry.stage = "registered" => IsDefinition(registry.definition)
    BY <1>1, <1>2 DEF LedgerRows, Stages
  <1>4. /\ accountFile \in {None, Torn} \/ IsDefinition(accountFile)
        /\ accountTemp \in {"none", "torn", "whole"}
    BY <1>1, <1>2 DEF LedgerRows, TempStates
  <1>5. \A a \in DOMAIN attempts :
           attempts[a].status \in Statuses /\ attempts[a].day \in Interval
    <2>1. \A a \in DOMAIN attempts : attempts[a] \in AttemptRow
      BY <1>1 DEF LedgerRows
    <2> QED
      BY <2>1 DEF AttemptRow, Statuses
  <1>6. ASSUME NEW a \in Completed
        PROVE  IsResult(Observed(a))
    <2>1. Observed(a) \in Result /\ ResultOK(Observed(a))
      BY <1>1, CompletedRows DEF HistoryOK
    <2>2. PICK e \in Interval : Observed(a).returns \in [Through(e) -> Gains]
      BY <2>1 DEF Result, Replays
    <2>3. Through(e) = Through(Observed(a).as_of)
      BY <2>1, <2>2 DEF ResultOK
    <2>4. Observed(a).returns \in [Through(Observed(a).as_of) -> Gains]
      BY <2>2, <2>3
    <2> QED
      BY <2>1, <2>4, PrefixesAre DEF IsResult, ResultOK, Result
  <1>7. latest \in 0 .. Len(attempts)
    BY <1>1, CompletedRows DEF LedgerRows
  <1>8. \A p \in Procs : op[p].pc \in Points
    <2>1. \A p \in Procs : op[p] \in OpRow
      BY <1>1 DEF LedgerRows
    <2> QED
      BY <2>1 DEF OpRow, ObserveRow, Idle, Observes, Promoting, Publications, Points
  <1> QED
    BY <1>1, <1>3, <1>4, <1>5, <1>6, <1>7, <1>8 DEF LedgerTypeOK, LedgerRows

LEMMA LedgerIsSound ==
    ASSUME LInv PROVE AccountIsSound
PROOF
  <1>1. LedgerTypeOK
    BY LedgerIsTyped
  <1>2. OneOpenAttempt
    <2>1. \A a, b \in Open : a = b
      BY DEF LInv, HistoryOK
    <2>2. ASSUME NEW p \in Procs, op[p].pc \in Attempting
          PROVE  lock = p /\ Open = {op[p].attempt}
      BY <2>1, <2>2, ObserverOf, AttemptIsLast DEF Attempting, Observes
    <2> QED
      BY <2>1, <2>2 DEF OneOpenAttempt, Attempting
  <1>3. AccountIsRegistration /\ EvaluationIsSealed
    BY DEF LInv, PromotionOK, HistoryOK, AccountIsRegistration, EvaluationIsSealed
  <1>4. InspectionAccepts
    <2>1. \A a, b \in Completed : a < b => Observed(a).as_of < Observed(b).as_of
      BY DEF LInv, HistoryOK
    <2>2. ASSUME NEW a \in Completed
          PROVE  Observed(a).as_of \in Start .. End
      BY CompletedRows, SessionsAreNumbers DEF LInv, Interval
    <2>3. ASSUME sealed # None
          PROVE  Completed # {} /\ sealed.identity = Observed(Newest).identity
      <3>1. Completed # {}
        BY <2>3 DEF LInv, HistoryOK
      <3>2. Newest \in Completed /\ \A b \in Completed : b <= Newest
        BY <3>1, NewestIs DEF LInv
      <3> QED
        BY <2>3, <3>1, <3>2 DEF LInv, HistoryOK
    <2> QED
      BY <2>1, <2>2, <2>3 DEF InspectionAccepts, Inspectable
  <1> QED
    BY <1>1, <1>2, <1>3, <1>4 DEF AccountIsSound

\* Whoever promotes, observes, seals, damages or dies meanwhile, there is at
\* most one open attempt and it is the lock holder's, account.json is the
\* registered one, missing or torn by promotions that overlap,
\* evaluation.json is the sealed one, and inspect_account accepts what it
\* finds, for any number of processes, days, inputs and attempts.
THEOREM AccountStaysSound == LedgerSpec => []AccountIsSound
BY LedgerStays, LedgerIsSound, PTL

\* With the timing policy registered, every fill of a committed observation
\* has an earlier observation, committed before the fill's session opened and
\* through the session before it (research_timing.verify at every commit).
THEOREM FillsStayOrdered == LedgerSpec => []FillsWereOrdered
PROOF
  <1>1. LInv => FillsWereOrdered
    BY DEF LInv, HistoryOK, FillsWereOrdered, Ordered
  <1> QED
    BY <1>1, LedgerStays, PTL

\* What latest.json names is never newer than what is published next.
LEMMA LatestIsOld ==
    ASSUME LInv, Completed # {}
    PROVE  latest <= Newest /\ latest \in Nat /\ Newest \in Nat
PROOF
  <1>1. Newest \in Completed /\ \A a \in Completed : a <= Newest
    BY NewestIs DEF LInv
  <1>2. Newest \in 1 .. Len(attempts)
    BY <1>1, CompletedRows DEF LInv
  <1>3. latest \in {0} \cup Completed
    BY DEF LInv, LedgerRows
  <1>4. \A a \in Completed : a \in 1 .. Len(attempts)
    BY CompletedRows DEF LInv
  <1> QED
    BY <1>1, <1>2, <1>3, <1>4

\* latest.json only ever moves to the newest committed observation and never
\* back, and a registration is never replaced, through any interleaving of
\* promotions, observations and crashes.
THEOREM LedgerOnlyMovesForward == LedgerSpec => LedgerMovesForward
PROOF
  <1> DEFINE Forward == latest' # latest => latest' > latest /\ latest' = Newest
             Stands == registry.stage = "registered" => registry' = registry
  <1>1. ASSUME LInv, [LedgerNext]_ledgerVars
        PROVE  Forward /\ Stands
    <2>1. CASE UNCHANGED ledgerVars
      BY <2>1 DEF ledgerVars
    <2>2. CASE Surroundings
      BY <2>2 DEF Surroundings, Tick, Capture, Rewrite, Damage, Record,
                  Registration, AccountFiles
    <2>3. ASSUME NEW p \in Procs, Promotion(p)
          PROVE  Forward /\ Stands
      BY <1>1, <2>3 DEF Promotion, PromoteNew, CreateDatabase, Register,
         OpenAccount, WriteAccount, RenameAccount, PromoteAgain, Record, Registration,
         AccountFiles, Doing, LInv, PromotionOK
    <2>4. ASSUME NEW p \in Procs, Reuse(p)
          PROVE  Forward /\ Stands
      <3>1. Completed # {}
        BY <1>1, <2>4, ObserverOf DEF Reuse, Doing, ObservingOK, Observes
      <3> QED
        BY <1>1, <2>4, <3>1, LatestIsOld DEF Reuse, Registration
    <2>5. ASSUME NEW p \in Procs, Publish(p)
          PROVE  Forward /\ Stands
      <3>1. op[p].attempt \in Completed /\ \A a \in Completed : a <= op[p].attempt
        BY <1>1, <2>5 DEF LInv, OpOK, Publish, Doing
      <3>2. Newest \in Completed /\ op[p].attempt <= Newest
            /\ Newest <= op[p].attempt
        BY <1>1, <3>1, NewestIs DEF LInv
      <3>3. op[p].attempt \in 1 .. Len(attempts) /\ Newest \in 1 .. Len(attempts)
        BY <1>1, <3>1, <3>2, CompletedRows DEF LInv
      <3>4. op[p].attempt = Newest
        BY <3>2, <3>3
      <3> QED
        BY <1>1, <2>5, <3>1, <3>4, LatestIsOld DEF Publish, Registration
    <2>6. ASSUME NEW p \in Procs,
                 Sealing(p) \/ Observing(p) \/ Admit(p) \/ Pass(p) \/ Fail(p)
                    \/ Crash(p)
          PROVE  Forward /\ Stands
      BY <2>6 DEF Sealing, SealHoldout, PublishEvaluation, Observing, Recover,
         Begin, Execute, Describe, Commit, Admit, Pass, Fail, Crash, Record,
         Registration, AccountFiles
    <2>7. ASSUME NEW p \in Procs, NEW d, NEW b, Enter(p, d, b, clock)
          PROVE  Forward /\ Stands
      BY <2>7 DEF Enter, Record, Registration
    <2> QED
      BY <1>1, <2>1, <2>2, <2>3, <2>4, <2>5, <2>6, <2>7 DEF LedgerNext
  <1>2. LedgerSpec => [][Forward]_ledgerVars /\ [][Stands]_ledgerVars
    BY <1>1, LedgerStays, PTL DEF LedgerSpec
  <1> QED
    BY <1>2 DEF LedgerMovesForward, LatestAdvances, RegistrationStands
-----------------------------------------------------------------------------
(* The abstract account: the i-th completed attempt is the i-th entry.     *)

Ranked(i) == CHOOSE a \in Completed : Cardinality({x \in Completed : x <= a}) = i
Recorded ==
    [i \in 1 .. Cardinality(Completed) |-> Observed(Ranked(i)).returns]
Evaluated == IF sealed = None THEN 0 ELSE Cardinality(Completed)

LEMMA BoundedIsFinite ==
    ASSUME NEW n \in Nat, NEW T \in SUBSET (0 .. n)
    PROVE  IsFiniteSet(T) /\ Cardinality(T) \in Nat
           /\ (T # {} => Cardinality(T) > 0)
PROOF
  <1>1. IsFiniteSet(0 .. n) /\ T \subseteq 0 .. n
    BY FS_Interval
  <1>2. IsFiniteSet(T)
    BY <1>1, FS_Subset
  <1>3. Cardinality(T) \in Nat /\ (Cardinality(T) = 0 <=> T = {})
    BY <1>2, FS_CardinalityType, FS_EmptySet
  <1>4. \A k \in Nat : k # 0 => k > 0
    OBVIOUS
  <1> QED
    BY <1>2, <1>3, <1>4, Zenon

\* Every rank is somebody's: the least element of at least that rank has it.
LEMMA RanksAreTaken ==
    ASSUME NEW n \in Nat, NEW T \in SUBSET (0 .. n),
           NEW i \in 1 .. Cardinality(T)
    PROVE  \E a \in T : Cardinality({x \in T : x <= a}) = i
PROOF
  <1> DEFINE Upto(a) == {x \in T : x <= a}
             Before(a) == {x \in T : x < a}
             U == {a \in T : Cardinality(Upto(a)) >= i}
  <1>1. Cardinality(T) \in Nat
    BY BoundedIsFinite
  <1>2. i \in Nat /\ i >= 1 /\ i <= Cardinality(T)
    BY <1>1
  <1>3. \A x \in T : x \in Nat
    OBVIOUS
  <1>4. /\ \A a : a \in U <=> a \in T /\ Cardinality(Upto(a)) >= i
        /\ \A a, x : x \in Upto(a) <=> x \in T /\ x <= a
        /\ \A a, x : x \in Before(a) <=> x \in T /\ x < a
    OBVIOUS
  <1>5. SUFFICES \E a \in T : Cardinality(Upto(a)) = i
    OBVIOUS
  <1> HIDE DEF U, Upto, Before
  <1>6. T # {}
    BY <1>2, FS_EmptySet
  <1>7. U # {}
    <2>1. Max(T) \in T /\ \A y \in T : y <= Max(T)
      BY <1>6, BoundedMax
    <2>2. Upto(Max(T)) = T
      BY <2>1, <1>4
    <2>3. Cardinality(Upto(Max(T))) >= i
      BY <2>2, <1>1, <1>2
    <2> QED
      BY <2>1, <2>3, <1>4
  <1>8. PICK m \in U : \A y \in U : ~(<<y, m>> \in OpToRel(<, Nat))
    <2>1. U \subseteq Nat
      BY <1>3, <1>4
    <2> QED
      BY <2>1, <1>7, WFMin, NatLessThanWellFounded, Zenon
  <1>9. m \in T /\ m \in Nat /\ Cardinality(Upto(m)) >= i
    BY <1>3, <1>4, <1>8
  <1>10. \A y \in U : y \in Nat /\ ~(y < m)
    BY <1>3, <1>4, <1>8, <1>9 DEF OpToRel
  <1>11. Before(m) \in SUBSET (0 .. n)
    BY <1>4
  <1>12. IsFiniteSet(Before(m)) /\ Cardinality(Before(m)) \in Nat
    BY <1>11, BoundedIsFinite
  <1>13. Cardinality(Upto(m)) = Cardinality(Before(m)) + 1
    <2>1. ASSUME NEW x \in T
          PROVE  x <= m <=> x < m \/ x = m
      BY <1>3, <1>9
    <2>2. ~(m < m)
      BY <1>9
    <2>3. Upto(m) = Before(m) \cup {m} /\ m \notin Before(m)
      BY <1>4, <1>9, <2>1, <2>2, Zenon
    <2> QED
      BY <2>3, <1>12, FS_AddElement
  <1>14. CASE Cardinality(Before(m)) < i
    BY <1>2, <1>9, <1>12, <1>13, <1>14
  <1>15. CASE Cardinality(Before(m)) >= i
    <2>1. Before(m) # {}
      BY <1>15, <1>2, FS_EmptySet
    <2>2. PICK k : k = Max(Before(m))
      OBVIOUS
    <2>3. k \in Before(m) /\ \A y \in Before(m) : y <= k
      BY <1>11, <2>1, <2>2, BoundedMax
    <2>4. ASSUME NEW x \in T
          PROVE  x <= k <=> x < m
      <3>1. x \in Nat /\ k \in Nat /\ m \in Nat /\ k < m
        BY <1>3, <1>4, <1>9, <2>3
      <3>2. x < m => x <= k
        BY <1>4, <2>3
      <3> QED
        BY <3>1, <3>2
    <2>5. Upto(k) = Before(m)
      <3>1. ASSUME NEW x
            PROVE  x \in Upto(k) <=> x \in Before(m)
        <4>1. x \in Upto(k) <=> x \in T /\ x <= k
          BY <1>4, Zenon
        <4>2. x \in Before(m) <=> x \in T /\ x < m
          BY <1>4, Zenon
        <4> QED
          BY <4>1, <4>2, <2>4, Zenon
      <3> QED
        BY <3>1, Zenon
    <2>6. k \in U /\ k < m
      BY <1>4, <1>15, <2>3, <2>5
    <2> QED
      BY <1>10, <2>6
  <1> QED
    BY <1>2, <1>12, <1>14, <1>15

LEMMA CompletedIsBounded ==
    ASSUME LedgerRows
    PROVE  /\ Len(attempts) \in Nat /\ Completed \in SUBSET (0 .. Len(attempts))
           /\ IsFiniteSet(Completed) /\ Cardinality(Completed) \in Nat
           /\ (Completed # {} => Cardinality(Completed) > 0)
           /\ (Completed = {} => Cardinality(Completed) = 0)
PROOF
  <1>1. Len(attempts) \in Nat /\ Completed \in SUBSET (0 .. Len(attempts))
    BY CompletedRows DEF LedgerRows
  <1>2. Cardinality({}) = 0
    BY FS_EmptySet
  <1> QED
    BY <1>1, <1>2, BoundedIsFinite

LEMMA RankedIs ==
    ASSUME LedgerRows, NEW i \in 1 .. Cardinality(Completed)
    PROVE  Ranked(i) \in Completed
PROOF
  <1>1. \E a \in Completed : Cardinality({x \in Completed : x <= a}) = i
    BY CompletedIsBounded, RanksAreTaken
  <1> QED
    BY <1>1 DEF Ranked

LEMMA NewestIsRankedLast ==
    ASSUME LedgerRows, Completed # {}
    PROVE  Ranked(Cardinality(Completed)) = Newest
PROOF
  <1> DEFINE Upto(a) == {x \in Completed : x <= a}
             N == Cardinality(Completed)
  <1>1. /\ Completed \in SUBSET (0 .. Len(attempts)) /\ Len(attempts) \in Nat
        /\ IsFiniteSet(Completed) /\ N \in Nat
    BY CompletedIsBounded
  <1>2. Newest \in Completed /\ \A a \in Completed : a <= Newest
    BY NewestIs
  <1>3. Upto(Newest) = Completed
    BY <1>2
  <1>4. ASSUME NEW a \in Completed, a # Newest
        PROVE  Cardinality(Upto(a)) # N
    <2>1. Upto(a) \subseteq Completed \ {Newest}
      BY <1>1, <1>2, <1>4
    <2>2. /\ IsFiniteSet(Completed \ {Newest})
          /\ Cardinality(Completed \ {Newest}) = N - 1
      BY <1>1, <1>2, FS_RemoveElement
    <2> HIDE DEF Upto
    <2>3. Cardinality(Upto(a)) <= N - 1 /\ Cardinality(Upto(a)) \in Nat
      BY <2>1, <2>2, FS_Subset, FS_CardinalityType
    <2> QED
      BY <2>3, <1>1
  <1>5. Ranked(N) = CHOOSE a \in Completed : Cardinality(Upto(a)) = N
    BY DEF Ranked
  <1>6. Cardinality(Upto(Newest)) = N
    BY <1>3
  <1> QED
    BY <1>2, <1>4, <1>5, <1>6

RecordOK ==
    /\ Recorded \in Seq(Replays) /\ Len(Recorded) = Cardinality(Completed)
    /\ \A i \in 1 .. Cardinality(Completed) :
          /\ Ranked(i) \in Completed
          /\ Recorded[i] = Observed(Ranked(i)).returns

LEMMA RecordIs == LedgerRows => RecordOK
PROOF
  <1> SUFFICES ASSUME LedgerRows
               PROVE  RecordOK
    OBVIOUS
  <1>1. \A i \in 1 .. Cardinality(Completed) : Ranked(i) \in Completed
    BY RankedIs
  <1>2. \A a \in Completed : Observed(a).returns \in Replays
    BY CompletedRows DEF Result
  <1>3. Cardinality(Completed) \in Nat
    BY CompletedIsBounded
  <1> QED
    BY <1>1, <1>2, <1>3 DEF RecordOK, Recorded

LEMMA SameSequence ==
    ASSUME NEW S, NEW s \in Seq(S), NEW t \in Seq(S), Len(s) = Len(t),
           \A i \in 1 .. Len(s) : s[i] = t[i]
    PROVE  s = t
OBVIOUS

LEMMA RecordStays ==
    ASSUME LInv, LedgerRows', Completed' = Completed,
           \A a \in Completed : attempts'[a] = attempts[a]
    PROVE  Recorded' = Recorded
PROOF
  <1>1. LedgerRows
    BY DEF LInv
  <1>2. Recorded \in Seq(Replays) /\ Len(Recorded) = Cardinality(Completed)
    BY <1>1, RecordIs DEF RecordOK
  <1>3. Recorded' \in Seq(Replays) /\ Len(Recorded') = Cardinality(Completed)
    <2>1. RecordOK'
      BY RecordIs, PTL
    <2> QED
      BY <2>1 DEF RecordOK
  <1>4. ASSUME NEW i \in 1 .. Cardinality(Completed)
        PROVE  Recorded'[i] = Recorded[i]
    <2>1. Ranked(i)' = Ranked(i)
      BY DEF Ranked
    <2>2. Ranked(i) \in Completed /\ Recorded[i] = Observed(Ranked(i)).returns
      BY <1>1, RecordIs DEF RecordOK
    <2>3. Recorded'[i] = attempts'[Ranked(i)'].result.returns
      BY <1>3, <1>4 DEF Recorded, Observed
    <2> QED
      BY <2>1, <2>2, <2>3 DEF Observed
  <1> QED
    BY <1>2, <1>3, <1>4, SameSequence

\* A commit adds its replay at the end.
LEMMA CommitRecords ==
    ASSUME LInv, LInv', NEW p \in Procs, Commit(p), NEW c, c = op[p]
    PROVE  /\ Recorded' = Append(Recorded, c.returns)
           /\ Cardinality(Completed') = Cardinality(Completed) + 1
PROOF
  <1>1. PICK n : n = op[p].attempt
    OBVIOUS
  <1>2. /\ n = Len(attempts) /\ n \notin Completed
        /\ Completed' = Completed \cup {n} /\ Observed(n)' = Outcome(c)
        /\ c.returns \in Replays
    BY <1>1, CommitAdds
  <1>3. \A a \in Completed :
           a < n /\ attempts'[a] = attempts[a] /\ Observed(a)' = Observed(a)
    BY <1>1, CommitAdds
  <1>4. LedgerRows /\ LedgerRows'
    BY DEF LInv
  <1>5. PICK N : N = Cardinality(Completed)
    OBVIOUS
  <1>6. /\ IsFiniteSet(Completed) /\ N \in Nat /\ n \in Nat
        /\ \A a \in Completed : a \in Nat
    BY <1>2, <1>4, <1>5, CompletedIsBounded
  <1>7. Cardinality(Completed') = N + 1
    BY <1>2, <1>5, <1>6, FS_AddElement
  <1>8. Recorded \in Seq(Replays) /\ Len(Recorded) = N
    BY <1>4, <1>5, RecordIs DEF RecordOK
  <1>9. Recorded' \in Seq(Replays) /\ Len(Recorded') = N + 1
        /\ \A i \in 1 .. N + 1 : Recorded'[i] = Observed(Ranked(i))'.returns
    <2>1. RecordOK'
      BY <1>4, RecordIs, PTL
    <2> QED
      BY <2>1, <1>7 DEF RecordOK
  <1>10. ASSUME NEW a \in Completed
         PROVE  /\ Cardinality({x \in Completed' : x <= a})
                      = Cardinality({x \in Completed : x <= a})
                /\ Cardinality({x \in Completed : x <= a}) # N + 1
    <2>1. {x \in Completed' : x <= a} = {x \in Completed : x <= a}
      <3>1. ~(n <= a)
        BY <1>3, <1>6, <1>10
      <3> QED
        BY <3>1, <1>2
    <2>2. PICK T : T = {x \in Completed : x <= a}
      OBVIOUS
    <2>3. Cardinality(T) \in Nat /\ Cardinality(T) <= N
      BY <2>2, <1>5, <1>6, FS_Subset, FS_CardinalityType
    <2>4. Cardinality(T) # N + 1
      BY <2>3, <1>6
    <2> QED
      BY <2>1, <2>2, <2>4, Zenon
  <1>11. {x \in Completed' : x <= n} = Completed'
    <2>1. n <= n /\ \A a \in Completed : a <= n
      BY <1>3, <1>6
    <2> QED
      BY <2>1, <1>2
  <1>12. Ranked(N + 1)' = n
    <2>1. \A a \in Completed' :
             Cardinality({x \in Completed' : x <= a}) = N + 1 <=> a = n
      BY <1>2, <1>7, <1>10, <1>11
    <2>2. Ranked(N + 1)' = CHOOSE a \in Completed' :
             Cardinality({x \in Completed' : x <= a}) = N + 1
      BY DEF Ranked
    <2> QED
      BY <1>2, <2>1, <2>2
  <1>13. ASSUME NEW i \in 1 .. N
         PROVE  Ranked(i)' = Ranked(i) /\ Ranked(i) \in Completed
    <2>1. \A a :
             /\ a \in Completed'
             /\ Cardinality({x \in Completed' : x <= a}) = i
             <=>
             /\ a \in Completed
             /\ Cardinality({x \in Completed : x <= a}) = i
      <3>1. i # N + 1
        BY <1>6
      <3> QED
        BY <3>1, <1>2, <1>7, <1>10, <1>11
    <2>2. Ranked(i)' = CHOOSE a : /\ a \in Completed'
                                 /\ Cardinality({x \in Completed' : x <= a}) = i
      BY DEF Ranked
    <2>3. Ranked(i) = CHOOSE a : /\ a \in Completed
                                /\ Cardinality({x \in Completed : x <= a}) = i
      BY DEF Ranked
    <2>4. Ranked(i)' = Ranked(i)
      BY <2>1, <2>2, <2>3, Zenon
    <2> QED
      BY <2>4, <1>4, <1>5, RankedIs
  <1>14. ASSUME NEW i \in 1 .. N
         PROVE  Recorded'[i] = Recorded[i]
    <2>1. Recorded'[i] = Observed(Ranked(i))'.returns
      BY <1>6, <1>9
    <2>2. Recorded[i] = Observed(Ranked(i)).returns
      BY <1>4, <1>5, RecordIs DEF RecordOK
    <2>3. PICK a : a = Ranked(i)
      OBVIOUS
    <2>4. Observed(a)' = Observed(a)
      BY <2>3, <1>3, <1>13
    <2>5. Observed(Ranked(i))' = attempts'[Ranked(i)'].result
      BY DEF Observed
    <2> QED
      BY <2>1, <2>2, <2>3, <2>4, <2>5, <1>13 DEF Observed
  <1>15. Recorded'[N + 1] = c.returns
    <2>1. Recorded'[N + 1] = attempts'[Ranked(N + 1)'].result.returns
      BY <1>6, <1>9 DEF Observed
    <2> QED
      BY <2>1, <1>2, <1>12 DEF Observed, Outcome
  <1>16. PICK s : s = Append(Recorded, c.returns)
    OBVIOUS
  <1>17. /\ s \in Seq(Replays) /\ Len(s) = N + 1 /\ s[N + 1] = c.returns
         /\ \A i \in 1 .. N : s[i] = Recorded[i]
    BY <1>2, <1>6, <1>8, <1>16
  <1>18. \A i \in 1 .. N + 1 : Recorded'[i] = s[i]
    BY <1>6, <1>14, <1>15, <1>17
  <1> QED
    BY <1>5, <1>7, <1>9, <1>16, <1>17, <1>18, SameSequence

\* What the abstract account is made of.
LEMMA AccountVars == Account!vars = <<Recorded, Evaluated>>
BY DEF Account!vars, Recorded, Ranked, Evaluated

LEMMA AccountIs ==
    /\ Account!Init <=> Recorded = <<>> /\ Evaluated = 0
    /\ Account!Observe <=>
          /\ Evaluated = 0
          /\ \E d \in Interval :
             \E entry \in [{e \in Interval : e <= d} -> Gains] :
                /\ Recorded # <<>> =>
                      /\ Account!Day(Recorded[Len(Recorded)]) < d
                      /\ Account!Extends(entry, Recorded[Len(Recorded)])
                /\ Recorded' = Append(Recorded, entry)
          /\ Evaluated' = Evaluated
    /\ Account!Evaluate <=>
          /\ Evaluated = 0
          /\ Recorded # <<>> /\ DOMAIN Recorded[Len(Recorded)] = Interval
          /\ Evaluated' = Len(Recorded)
          /\ Recorded' = Recorded
PROOF
  <1>1. Account!Init <=> Recorded = <<>> /\ Evaluated = 0
    BY DEF Account!Init, Recorded, Ranked, Evaluated
  <1>2. Account!Observe <=>
          /\ Evaluated = 0
          /\ \E d \in Interval :
             \E entry \in [{e \in Interval : e <= d} -> Gains] :
                /\ Recorded # <<>> =>
                      /\ Account!Day(Recorded[Len(Recorded)]) < d
                      /\ Account!Extends(entry, Recorded[Len(Recorded)])
                /\ Recorded' = Append(Recorded, entry)
          /\ Evaluated' = Evaluated
    BY Zenon DEF Account!Observe, Recorded, Ranked, Evaluated
  <1>3. Account!Evaluate <=>
          /\ Evaluated = 0
          /\ Recorded # <<>> /\ DOMAIN Recorded[Len(Recorded)] = Interval
          /\ Evaluated' = Len(Recorded)
          /\ Recorded' = Recorded
    BY Zenon DEF Account!Evaluate, Recorded, Ranked, Evaluated
  <1> QED
    BY <1>1, <1>2, <1>3, Zenon

LEMMA AccountRests ==
    ASSUME LInv, LInv', Completed' = Completed, sealed' = sealed,
           \A a \in Completed : attempts'[a] = attempts[a]
    PROVE  UNCHANGED Account!vars
PROOF
  <1>1. Recorded' = Recorded
    BY RecordStays DEF LInv
  <1>2. Evaluated' = Evaluated
    BY DEF Evaluated
  <1>3. (Account!vars)' = <<Recorded', Evaluated'>>
    BY DEF Account!vars, Recorded, Ranked, Evaluated
  <1> QED
    BY <1>1, <1>2, <1>3, AccountVars

LEMMA LastEntry ==
    ASSUME LInv, Completed # {}
    PROVE  /\ Recorded # <<>> /\ Len(Recorded) = Cardinality(Completed)
           /\ Recorded[Len(Recorded)] = Observed(Newest).returns
PROOF
  <1>1. LedgerRows
    BY DEF LInv
  <1>2. Cardinality(Completed) \in Nat /\ Cardinality(Completed) > 0
    BY <1>1, CompletedIsBounded
  <1>3. /\ Recorded \in Seq(Replays) /\ Len(Recorded) = Cardinality(Completed)
        /\ Recorded[Cardinality(Completed)]
              = Observed(Ranked(Cardinality(Completed))).returns
    BY <1>1, <1>2, RecordIs DEF RecordOK
  <1> QED
    BY <1>1, <1>2, <1>3, NewestIsRankedLast

\* A committed observation is the abstract account's next one.
LEMMA CommitObserves ==
    ASSUME LInv, LInv', NEW p \in Procs, Commit(p)
    PROVE  Account!Observe
PROOF
  <1>1. PICK c : c = op[p]
    OBVIOUS
  <1>2. PICK n : n = op[p].attempt
    OBVIOUS
  <1>3. c \in ObserveRow /\ ObservingOK(c)
    BY <1>1, <1>2, CommitAdds
  <1>4. c.pc = "commit" /\ sealed' = sealed
    BY <1>1 DEF Commit, Doing
  <1>5. /\ sealed = None /\ \A a \in Completed : Observed(a).as_of < c.day
        /\ c.returns \in [Through(c.day) -> Gains] /\ SameHistory(c.returns)
        /\ c.day \in Interval
    BY <1>3, <1>4 DEF ObservingOK, Replayed, ObserveRow
  <1>6. Evaluated = 0 /\ Evaluated' = Evaluated
    BY <1>4, <1>5 DEF Evaluated
  <1>7. Recorded' = Append(Recorded, c.returns)
    BY <1>1, CommitRecords
  <1>8. Through(c.day) = {e \in Interval : e <= c.day}
    BY DEF Through
  <1>9. ASSUME Recorded # <<>>
        PROVE  /\ Account!Day(Recorded[Len(Recorded)]) < c.day
               /\ Account!Extends(c.returns, Recorded[Len(Recorded)])
    <2>1. Completed # {}
      <3>1. SUFFICES ASSUME Completed = {}
                     PROVE  FALSE
        OBVIOUS
      <3>2. Recorded \in Seq(Replays) /\ Len(Recorded) = 0
        BY <3>1, RecordIs, CompletedIsBounded DEF LInv, RecordOK
      <3> QED
        BY <1>9, <3>2
    <2>2. PICK r : r = Observed(Newest)
      OBVIOUS
    <2>3. Newest \in Completed /\ Recorded[Len(Recorded)] = r.returns
      BY <2>1, <2>2, NewestIs, LastEntry DEF LInv
    <2>4. r.as_of \in Interval /\ DOMAIN r.returns = Through(r.as_of)
          /\ r.as_of < c.day
      BY <2>2, <2>3, <1>5 DEF LInv, HistoryOK, ResultOK
    <2>5. r.as_of \in Nat /\ c.day \in Nat /\ \A e \in Interval : e \in Nat
      BY <2>4, <1>5, SessionsAreNumbers
    <2>6. r.as_of \in DOMAIN r.returns
          /\ \A e \in DOMAIN r.returns : e \in Nat /\ e <= r.as_of
      BY <2>4, <2>5 DEF Through
    <2>7. Account!Day(r.returns) = r.as_of
      <3>1. \A d \in DOMAIN r.returns :
               (\A e \in DOMAIN r.returns : e <= d) <=> d = r.as_of
        BY <2>5, <2>6
      <3> QED
        BY <2>6, <3>1 DEF Account!Day
    <2>8. DOMAIN r.returns \subseteq DOMAIN c.returns
      BY <1>5, <2>4, <2>5 DEF Through
    <2>9. \A d \in DOMAIN r.returns : c.returns[d] = r.returns[d]
      BY <1>5, <2>1, <2>2 DEF SameHistory
    <2> QED
      BY <2>3, <2>4, <2>7, <2>8, <2>9 DEF Account!Extends
  <1> QED
    BY <1>5, <1>6, <1>7, <1>8, <1>9, AccountIs

\* Sealing evaluates it, and sealing again the same changes nothing.
LEMMA SealEvaluates ==
    ASSUME LInv, LInv', NEW p \in Procs, SealHoldout(p)
    PROVE  Account!Evaluate \/ UNCHANGED Account!vars
PROOF
  <1>1. /\ Completed # {} /\ DOMAIN Observed(Newest).returns = Interval
        /\ sealed \in {None, Evidence(Newest)} /\ sealed' = Evidence(Newest)
        /\ attempts' = attempts
    BY DEF SealHoldout
  <1>2. Completed' = Completed
    BY <1>1 DEF Completed
  <1>3. CASE sealed # None
    BY <1>1, <1>2, <1>3, AccountRests
  <1>4. CASE sealed = None
    <2>1. sealed' # None
      BY <1>1, EvidenceIs DEF LInv
    <2>2. Recorded' = Recorded
      BY <1>1, <1>2, RecordStays DEF LInv
    <2>3. Evaluated = 0 /\ Evaluated' = Cardinality(Completed)
      BY <1>2, <1>4, <2>1 DEF Evaluated
    <2> QED
      BY <1>1, <2>2, <2>3, LastEntry, AccountIs
  <1> QED
    BY <1>3, <1>4

LEMMA LedgerRefines ==
    ASSUME LInv, LInv', [LedgerNext]_ledgerVars
    PROVE  [Account!Next]_(Account!vars)
PROOF
  <1>1. ASSUME attempts' = attempts, sealed' = sealed
        PROVE  UNCHANGED Account!vars
    <2>1. Completed' = Completed
      BY <1>1 DEF Completed
    <2> QED
      BY <1>1, <2>1, AccountRests
  <1>2. CASE UNCHANGED ledgerVars
    BY <1>1, <1>2 DEF ledgerVars
  <1>3. CASE Surroundings
    BY <1>1, <1>3 DEF Surroundings, Tick, Capture, Rewrite, Damage, Record
  <1>4. ASSUME NEW p \in Procs, Promotion(p)
        PROVE  UNCHANGED Account!vars
    BY <1>1, <1>4 DEF Promotion, PromoteNew, CreateDatabase, Register,
       OpenAccount, WriteAccount, RenameAccount, PromoteAgain, Record
  <1>5. ASSUME NEW p \in Procs, Sealing(p)
        PROVE  Account!Next \/ UNCHANGED Account!vars
    BY <1>1, <1>5, SealEvaluates DEF Sealing, PublishEvaluation, Account!Next
  <1>6. ASSUME NEW p \in Procs, NEW d, NEW b, Enter(p, d, b, clock)
        PROVE  UNCHANGED Account!vars
    BY <1>1, <1>6 DEF Enter, Record
  <1>7. ASSUME NEW p \in Procs, NEW a \in Open,
               NEW st \in {"failed", "interrupted"},
               attempts' = [attempts EXCEPT ![a].status = st], sealed' = sealed
        PROVE  UNCHANGED Account!vars
    <2>1. Completed' = Completed /\ \A x \in Completed : attempts'[x] = attempts[x]
      BY <1>7, Closes
    <2> QED
      BY <1>7, <2>1, AccountRests
  <1>8. ASSUME NEW p \in Procs, Recover(p)
        PROVE  UNCHANGED Account!vars
    BY <1>7, <1>8 DEF Recover
  <1>9. ASSUME NEW p \in Procs, Fail(p)
        PROVE  UNCHANGED Account!vars
    <2>1. op[p].attempt \in Open
      BY <1>9, AttemptIsLast DEF Fail, Attempting
    <2> QED
      BY <1>7, <1>9, <2>1 DEF Fail
  <1>10. ASSUME NEW p \in Procs, Begin(p)
         PROVE  UNCHANGED Account!vars
    <2>1. attempts \in Seq(AttemptRow)
      BY DEF LInv, LedgerRows
    <2>2. PICK row : row.status = "running" /\ attempts' = Append(attempts, row)
                     /\ sealed' = sealed
      BY <1>10 DEF Begin
    <2>3. /\ DOMAIN attempts' = DOMAIN attempts \cup {Len(attempts) + 1}
          /\ attempts'[Len(attempts) + 1] = row
          /\ \A x \in DOMAIN attempts : attempts'[x] = attempts[x]
      BY <2>1, <2>2
    <2>4. Completed' = Completed /\ \A x \in Completed : attempts'[x] = attempts[x]
      BY <2>2, <2>3 DEF Completed
    <2> QED
      BY <2>2, <2>4, AccountRests
  <1>11. ASSUME NEW p \in Procs, Commit(p)
         PROVE  Account!Next
    BY <1>11, CommitObserves DEF Account!Next
  <1>12. ASSUME NEW p \in Procs,
                Execute(p) \/ Describe(p) \/ Reuse(p) \/ Admit(p) \/ Pass(p)
                   \/ Publish(p) \/ Crash(p)
         PROVE  UNCHANGED Account!vars
    BY <1>1, <1>12 DEF Execute, Describe, Reuse, Admit, Pass, Publish, Crash,
                       Record
  <1> QED
    BY <1>2, <1>3, <1>4, <1>5, <1>6, <1>8, <1>9, <1>10, <1>11, <1>12
    DEF LedgerNext, Observing

\* The ledger implements ForwardAccount: read in the order of the attempts,
\* its completed observations are a record that only grows, session after
\* session, with every return shown before repeated, and it is evaluated once,
\* over the whole interval; crashes, failures, recoveries and repeated
\* publications do not show.
THEOREM LedgerImplementsAccount == LedgerSpec => AccountOnlyGrows
PROOF
  <1>1. LedgerInit => Account!Init
    <2>1. SUFFICES ASSUME LedgerInit
                   PROVE  Account!Init
      OBVIOUS
    <2>2. LInv /\ Completed = {} /\ sealed = None
      BY <2>1, LedgerStarts DEF LedgerInit, Completed
    <2>3. Recorded \in Seq(Replays) /\ Len(Recorded) = 0
      BY <2>2, RecordIs, CompletedIsBounded DEF LInv, RecordOK
    <2>4. Recorded = <<>>
      BY <2>3
    <2> QED
      BY <2>2, <2>4, AccountIs DEF Evaluated
  <1>2. LInv /\ LInv' /\ [LedgerNext]_ledgerVars => [Account!Next]_(Account!vars)
    BY LedgerRefines
  <1> QED
    BY <1>1, <1>2, LedgerStays, PTL
    DEF LedgerSpec, AccountOnlyGrows, Account!Spec
-----------------------------------------------------------------------------
(* The daily entry: run() around the ledger.                               *)

ConfigRow == [approval : {"paused", "approved"}, bundle : Nat]
DailyRow ==
    {Resting} \cup
    [pc : {"assess", "observe", "native", "verify"}, day : Days, now : Nat,
     config : ConfigRow, expected : Bundle \cup {None}]

DailyRows ==
    /\ config \in ConfigRow /\ config.bundle \in 0 .. Len(bundles)
    /\ configs \in Nat /\ runs \in Nat
    /\ daily \in [Procs -> DailyRow]
    /\ DOMAIN receipts = Procs

\* run() is inside observe just while the ledger says so.
Together(p) ==
    /\ daily[p].pc = "native" <=> op[p].pc \in Observes \cup {"publish"}
    /\ daily[p].pc # "native" => op[p].pc \in {"idle", "evaluate"}
    /\ daily[p].pc \in {"assess", "observe", "verify"} => op[p].pc = "idle"
    /\ op[p].pc \in Observes => op[p].day = daily[p].day
    /\ daily[p].pc = "verify" => Completed # {}

\* The evidence is of the session's own evening.
OfItsEvening(d, identity) ==
    LatestClosed(d, identity.captured) /\ identity.rows[d] > 0

\* b: the bundle observed.
OnItsInputs(b, d, identity, read, prefix) ==
    /\ read.manifest = identity.manifest
    /\ \A s \in Unrestored(b) :
          /\ read.rows[s] = identity.rows[s]
          /\ s \in Known(d) => prefix[s] = identity.rows[s]

\* The last gate has been passed.
GatedOK(c) ==
    /\ OfItsEvening(c.day, c.evidence)
    /\ OnItsInputs(c.bundle, c.day, c.evidence, c.read, c.prefix)

ResultsOK ==
    \A a \in Completed :
        LET r == Observed(a) IN
        /\ OfItsEvening(r.as_of, r.identity)
        /\ OnItsInputs(r.inputs, r.as_of, r.identity, r.read, r.prefix)

ReceiptOK(r) ==
    /\ r.outcome \in {"none", "success", "blocked", "failed"}
    /\ r.attempt # 0 =>
          r.attempt \in Completed /\ Observed(r.attempt).as_of = r.day
    /\ r.outcome = "success" =>
          \E a \in Completed : Observed(a).as_of >= r.day

RunOK(p) ==
    /\ Together(p) /\ ReceiptOK(receipts[p])
    /\ op[p].pc = "commit" => GatedOK(op[p])

DInv == LInv /\ DailyRows /\ ResultsOK /\ \A p \in Procs : RunOK(p)
-----------------------------------------------------------------------------
LEMMA EveningBefore ==
    LET t == Close(Start - 1) IN
    /\ t \in Nat /\ LastClosed(t) # {}
PROOF
  <1>1. Start \in Nat /\ Start >= 1
    BY SessionsAreNumbers, CalendarAssumption
  <1>2. PICK s \in Sessions : s < Start
    BY RegisteredAssumption
  <1>3. s \in Nat /\ Close(s) <= Close(Start - 1) /\ Close(Start - 1) \in Nat
    BY <1>1, <1>2, SessionsAreNumbers DEF Close
  <1> QED
    BY <1>2, <1>3 DEF LastClosed

LEMMA RunsStart ==
    ASSUME FInit PROVE DInv
PROOF
  <1>1. /\ clock = Close(Start - 1)
        /\ bundles = <<[captured |-> clock, manifest |-> 1, rows |->
              [s \in Sessions |-> IF s \in LastClosed(clock) THEN 1 ELSE 0]]>>
        /\ registry = [stage |-> "registered", definition |->
              [choice |-> CHOOSE r \in Recipes : TRUE,
               cutoff |-> Max(LastClosed(clock)),
               prefix |-> Prefix(1, Max(LastClosed(clock)))]]
        /\ accountFile = registry.definition /\ accountTemp = "none"
        /\ attempts = <<>> /\ damaged = {} /\ latest = 0 /\ rewrites = 0
        /\ restored = {}
        /\ sealed = None /\ evaluation = None
        /\ lock = Nobody /\ op = [p \in Procs |-> Idle]
        /\ config = [approval |-> "paused", bundle |-> 0]
        /\ configs = 0 /\ runs = 0
        /\ daily = [p \in Procs |-> Resting]
        /\ receipts = [p \in Procs |-> NoReceipt]
    BY DEF FInit
  <1>2. clock \in Nat /\ LastClosed(clock) # {}
    BY <1>1, EveningBefore
  <1>3. PICK rows \in [Sessions -> {0, 1}] :
           bundles = <<[captured |-> clock, manifest |-> 1, rows |-> rows]>>
    BY <1>1
  <1>4. /\ bundles \in Seq(Bundle) /\ DOMAIN bundles = {1} /\ Len(bundles) = 1
        /\ bundles[1].manifest = 1 /\ bundles[1].rows = rows
    BY <1>2, <1>3 DEF Bundle
  <1>5. BundlesAge
    <2>1. MaxBundles \in Nat
      BY LedgerBoundAssumption
    <2>2. \A s \in Sessions : rows[s] \in {0, 1}
      BY <1>3
    <2>3. \A s \in Sessions : rows[s] < 2 + MaxBundles + rewrites
      BY <1>1, <2>1, <2>2
    <2> QED
      BY <1>4, <2>3 DEF BundlesAge
  <1> DEFINE cut == Max(LastClosed(clock))
  <1>6. cut \in Sessions
    BY <1>2, LatestIsASession
  <1>7. Prefix(1, cut) \in Prefixes
    BY <1>4, <1>6, PrefixIs
  <1>8. (CHOOSE r \in Recipes : TRUE) \in Recipes
    BY RegisteredAssumption
  <1>9. /\ registry.stage = "registered" /\ registry.definition \in Definition
        /\ registry \in [stage : {"registered"}, definition : Definition]
    <2>1. PICK def : def = [choice |-> CHOOSE r \in Recipes : TRUE,
                            cutoff |-> cut, prefix |-> Prefix(1, cut)]
      OBVIOUS
    <2>2. def \in Definition
      BY <2>1, <1>6, <1>7, <1>8 DEF Definition
    <2>3. registry = [stage |-> "registered", definition |-> def]
      BY <1>1, <2>1
    <2> QED
      BY <2>2, <2>3
  <1>10. Completed = {} /\ Open = {}
    BY <1>1 DEF Completed, Open
  <1>11. \A p \in Procs : op[p] = Idle /\ daily[p] = Resting
                          /\ receipts[p] = NoReceipt
    BY <1>1
  <1>12. LedgerRows
    <2>1. op \in [Procs -> OpRow]
      BY <1>1, IdleIs
    <2>2. attempts \in Seq(AttemptRow) /\ damaged \subseteq Completed
      BY <1>1
    <2> QED
      BY <1>1, <1>2, <1>4, <1>9, <2>1, <2>2 DEF LedgerRows, TempStates
  <1>13. HeldByOne
    BY <1>1, <1>11, IdleIs, LedgerBoundAssumption DEF HeldByOne
  <1>14. PromotionOK
    BY <1>1, <1>9, <1>11, IdleIs DEF PromotionOK, Promoting, Publications, Loaded
  <1>15. HistoryOK
    BY <1>1, <1>10 DEF HistoryOK
  <1>16. \A p \in Procs : OpOK(p)
    BY <1>11, IdleIs DEF OpOK, Holding
  <1>17. LInv
    BY <1>5, <1>12, <1>13, <1>14, <1>15, <1>16 DEF LInv
  <1>18. DailyRows
    <2>1. config \in ConfigRow /\ config.bundle = 0
      BY <1>1 DEF ConfigRow
    <2>2. Resting \in DailyRow
      BY DEF DailyRow
    <2> QED
      BY <1>1, <1>4, <2>1, <2>2 DEF DailyRows
  <1>19. ResultsOK
    BY <1>10 DEF ResultsOK
  <1>20. ASSUME NEW p \in Procs PROVE RunOK(p)
    BY <1>11, IdleIs
    DEF RunOK, Together, ReceiptOK, Resting, NoReceipt, Observes, Idle
  <1> QED
    BY <1>17, <1>18, <1>19, <1>20 DEF DInv
-----------------------------------------------------------------------------
\* Observations stay what they are.
Kept ==
    /\ Completed \subseteq Completed'
    /\ \A a \in Completed : Observed(a)' = Observed(a)

LEMMA ReceiptStays ==
    ASSUME Kept, NEW r, ReceiptOK(r)
    PROVE  ReceiptOK(r)'
PROOF
  <1>1. r.attempt # 0 =>
           r.attempt \in Completed' /\ Observed(r.attempt)'.as_of = r.day
    BY DEF Kept, ReceiptOK
  <1>2. r.outcome = "success" =>
           \E a \in Completed' : Observed(a)'.as_of >= r.day
    BY DEF Kept, ReceiptOK
  <1>3. r.outcome \in {"none", "success", "blocked", "failed"}
    BY DEF ReceiptOK
  <1> QED
    BY <1>1, <1>2, <1>3 DEF ReceiptOK

\* A step moves the run of at most the processes in moved.
LEMMA RunsMove ==
    ASSUME DInv, LInv', Kept, restored \subseteq restored', ResultsOK', DailyRows',
           NEW moved \in SUBSET Procs, \A p \in moved : RunOK(p)',
           \A q \in Procs \ moved : /\ op'[q] = op[q] /\ daily'[q] = daily[q]
                                    /\ receipts'[q] = receipts[q]
    PROVE  DInv'
PROOF
  <1>1. ASSUME NEW q \in Procs \ moved
        PROVE  RunOK(q)'
    <2>1. RunOK(q) /\ op'[q] = op[q] /\ daily'[q] = daily[q]
          /\ receipts'[q] = receipts[q]
      BY <1>1 DEF DInv
    <2>2. ReceiptOK(receipts[q])'
      <3>1. PICK r : r = receipts[q]
        OBVIOUS
      <3>2. ReceiptOK(r)'
        BY <2>1, <3>1, ReceiptStays DEF RunOK
      <3> QED
        BY <2>1, <3>1, <3>2 DEF ReceiptOK
    <2>3. Together(q)'
      BY <2>1 DEF RunOK, Together, Kept
    <2>4. op'[q].pc = "commit" => GatedOK(op[q])'
      BY <2>1 DEF RunOK, GatedOK, OfItsEvening, OnItsInputs, Unrestored
    <2> QED
      BY <2>2, <2>3, <2>4 DEF RunOK
  <1> QED
    BY <1>1 DEF DInv

LEMMA ResultsStay ==
    ASSUME ResultsOK, Kept, Completed' = Completed, restored \subseteq restored'
    PROVE  ResultsOK'
PROOF
  <1>1. \A a \in Completed' : Observed(a)' = Observed(a)
    BY DEF Kept
  <1> QED
    BY <1>1 DEF ResultsOK, OfItsEvening, OnItsInputs, Unrestored
-----------------------------------------------------------------------------
(* What an assessment says.                                                *)

LEMMA SessionIsReady ==
    ASSUME LInv, NEW b \in DOMAIN bundles, NEW d \in Days, NEW t \in Nat
    PROVE  /\ SessionState(d, t, b) \in
                 {"data_missing", "market_closed", "not_due",
                  "historical_backfill_blocked", "ready"}
           /\ SessionState(d, t, b) = "ready" => OfItsEvening(d, bundles[b])
PROOF
  <1>1. PICK c : c = bundles[b].captured
    OBVIOUS
  <1>2. bundles[b] \in Bundle
    BY DEF LInv, LedgerRows
  <1>3. c \in Nat /\ d \in Nat /\ Close(d) \in Nat
        /\ (d \in Sessions => bundles[b].rows[d] \in Nat)
    BY <1>1, <1>2, SessionsAreNumbers DEF Bundle, Close
  <1>4. CASE c > t
    BY <1>1, <1>3, <1>4 DEF SessionState
  <1>5. CASE c <= t /\ d \notin Sessions
    BY <1>1, <1>3, <1>5 DEF SessionState
  <1>6. CASE c <= t /\ d \in Sessions /\ t < Close(d)
    BY <1>1, <1>3, <1>6 DEF SessionState
  <1>7. CASE c <= t /\ d \in Sessions /\ Close(d) <= t
    <2>1. SessionState(d, t, b) =
            IF c < Close(d) THEN "data_missing"
            ELSE IF ~LatestClosed(d, t) \/ ~LatestClosed(d, c)
                 THEN "historical_backfill_blocked"
            ELSE IF bundles[b].rows[d] = 0 THEN "data_missing" ELSE "ready"
      BY <1>1, <1>3, <1>7 DEF SessionState
    <2>2. bundles[b].rows[d] # 0 => bundles[b].rows[d] > 0
      BY <1>3, <1>7
    <2> QED
      BY <1>1, <2>1, <2>2 DEF OfItsEvening
  <1> QED
    BY <1>3, <1>4, <1>5, <1>6, <1>7

LEMMA AttemptStates ==
    ASSUME LInv, NEW d
    PROVE  AttemptState(d) \in {"none", "running", "failed"}
PROOF
  <1>1. AttemptsFor(d) \in SUBSET (0 .. Len(attempts)) /\ Len(attempts) \in Nat
    BY DEF AttemptsFor, LInv, LedgerRows
  <1>2. AttemptsFor(d) # {} => Max(AttemptsFor(d)) \in AttemptsFor(d)
    BY <1>1, BoundedMax
  <1> QED
    BY <1>2 DEF AttemptState, AttemptsFor

Unready ==
    {"data_missing", "market_closed", "not_due", "historical_backfill_blocked"}

LEMMA PinnedSession ==
    ASSUME LInv, DailyRows, Verified, NEW d \in Days, NEW t \in Nat
    PROVE  /\ config.bundle \in DOMAIN bundles
           /\ SessionState(d, t, config.bundle) \in Unready \cup {"ready"}
           /\ SessionState(d, t, config.bundle) = "ready" =>
                 OfItsEvening(d, bundles[config.bundle])
PROOF
  <1>1. bundles \in Seq(Bundle) /\ config.bundle \in 0 .. Len(bundles)
    BY DEF LInv, LedgerRows, DailyRows
  <1>2. config.bundle \in DOMAIN bundles
    BY <1>1 DEF Verified
  <1> QED
    BY <1>2, SessionIsReady DEF Unready

LEMMA RunnableIsReady ==
    ASSUME NEW d, NEW t, NEW owned \in BOOLEAN, NEW bound \in BOOLEAN,
           AssessState(d, t, owned, bound) \in Runnable,
           Verified => SessionState(d, t, config.bundle) \in Unready \cup {"ready"}
    PROVE  Verified /\ SessionState(d, t, config.bundle) = "ready"
BY DEF AssessState, Runnable, Unready

\* What may run is of this evening.
LEMMA RunnableIsOfItsEvening ==
    ASSUME LInv, DailyRows, NEW d \in Days, NEW t \in Nat,
           NEW owned \in BOOLEAN, NEW bound \in BOOLEAN,
           AssessState(d, t, owned, bound) \in Runnable
    PROVE  /\ config.bundle \in DOMAIN bundles
           /\ OfItsEvening(d, bundles[config.bundle])
BY PinnedSession, RunnableIsReady

LEMMA CompletedIsAnOutcome ==
    ASSUME NEW d, NEW t, NEW owned \in BOOLEAN, NEW bound \in BOOLEAN,
           AssessState(d, t, owned, bound) = "completed",
           Verified => SessionState(d, t, config.bundle) \in Unready \cup {"ready"},
           AttemptState(d) \in {"none", "running", "failed"}
    PROVE  \E a \in Completed : Observed(a).as_of >= d
BY DEF AssessState, Unready

\* What is completed has been observed.
LEMMA CompletedIsObserved ==
    ASSUME LInv, DailyRows, NEW d \in Days, NEW t \in Nat,
           NEW owned \in BOOLEAN, NEW bound \in BOOLEAN,
           AssessState(d, t, owned, bound) = "completed"
    PROVE  \E a \in Completed : Observed(a).as_of >= d
BY PinnedSession, AttemptStates, CompletedIsAnOutcome
-----------------------------------------------------------------------------
(* The steps of run().                                                     *)

LEMMA AttemptsStay ==
    ASSUME UNCHANGED attempts
    PROVE  Kept /\ Completed' = Completed
BY DEF Kept, Completed, Observed

LEMMA RowOf ==
    ASSUME DInv, NEW p \in Procs, daily[p].pc # "rest"
    PROVE  /\ daily[p].pc \in {"assess", "observe", "native", "verify"}
           /\ daily[p].day \in Days /\ daily[p].now \in Nat
           /\ daily[p] \in [pc : {"assess", "observe", "native", "verify"},
                            day : Days, now : Nat, config : ConfigRow,
                            expected : Bundle \cup {None}]
BY DEF DInv, DailyRows, DailyRow, Resting

\* Steps of run() outside observe: the ledger is only read.
LEMMA ReadsOnly ==
    ASSUME DInv, UNCHANGED ledgerVars, DailyRows', NEW p \in Procs, RunOK(p)',
           \A q \in Procs \ {p} :
              daily'[q] = daily[q] /\ receipts'[q] = receipts[q]
    PROVE  DInv'
PROOF
  <1>1. LInv' /\ UNCHANGED <<attempts, op, restored>>
    BY LedgerStutters DEF DInv, ledgerVars
  <1>2. Kept /\ Completed' = Completed
    BY <1>1, AttemptsStay
  <1>3. ResultsOK'
    BY <1>1, <1>2, ResultsStay DEF DInv
  <1>4. {p} \in SUBSET Procs
    OBVIOUS
  <1> QED
    BY <1>1, <1>2, <1>3, <1>4, RunsMove

LEMMA ReceiptWritten ==
    ASSUME DInv, NEW p \in Procs, NEW outcome, NEW state, NEW attempt,
           Receipt(p, outcome, state, attempt)
    PROVE  /\ DOMAIN receipts' = Procs
           /\ receipts'[p] = [day |-> daily[p].day, outcome |-> outcome,
                              state |-> state, attempt |-> attempt]
           /\ daily' \in [Procs -> DailyRow] /\ daily'[p] = Resting
           /\ \A q \in Procs \ {p} :
                 daily'[q] = daily[q] /\ receipts'[q] = receipts[q]
PROOF
  <1>1. daily \in [Procs -> DailyRow] /\ DOMAIN receipts = Procs
    BY DEF DInv, DailyRows
  <1>2. Resting \in DailyRow
    BY DEF DailyRow
  <1> QED
    BY <1>1, <1>2 DEF Receipt

LEMMA CallKeeps ==
    ASSUME DInv, NEW p \in Procs, NEW d \in Days, Call(p, d) PROVE DInv'
PROOF
  <1>1. PICK row : row = [pc |-> "assess", day |-> d, now |-> clock,
                          config |-> config, expected |-> None]
    OBVIOUS
  <1>2. /\ daily[p].pc = "rest" /\ op[p].pc = "idle"
        /\ runs' = runs + 1 /\ daily' = [daily EXCEPT ![p] = row]
        /\ UNCHANGED <<ledgerVars, config, configs, receipts>>
    BY <1>1 DEF Call, Running, Doing
  <1>3. row \in DailyRow /\ row.pc = "assess"
    BY <1>1 DEF DInv, LInv, LedgerRows, DailyRows, DailyRow
  <1>4. /\ UNCHANGED <<bundles, restored, op, attempts>>
        /\ daily' \in [Procs -> DailyRow] /\ daily'[p] = row
        /\ \A q \in Procs \ {p} : daily'[q] = daily[q]
    BY <1>2, <1>3 DEF DInv, DailyRows, ledgerVars
  <1>5. DailyRows'
    BY <1>2, <1>4 DEF DInv, DailyRows
  <1>6. RunOK(p)'
    <2>1. RunOK(p)
      BY DEF DInv
    <2>2. ReceiptOK(receipts[p])'
      <3>1. PICK r : r = receipts[p]
        OBVIOUS
      <3>2. ReceiptOK(r)'
        BY <2>1, <3>1, <1>4, AttemptsStay, ReceiptStays DEF RunOK
      <3> QED
        BY <1>2, <3>1, <3>2 DEF ReceiptOK
    <2>3. Together(p)'
      BY <1>2, <1>3, <1>4 DEF Together, Observes
    <2> QED
      BY <2>2, <2>3, <1>2, <1>4 DEF RunOK
  <1> QED
    BY <1>2, <1>4, <1>5, <1>6, ReadsOnly

LEMMA FailedReceipt ==
    ASSUME NEW r, r.outcome \in {"none", "blocked", "failed"}, r.attempt = 0
    PROVE  ReceiptOK(r)
BY DEF ReceiptOK

LEMMA ReceiptKept ==
    ASSUME DInv, Kept, NEW p \in Procs, receipts'[p] = receipts[p]
    PROVE  ReceiptOK(receipts[p])'
PROOF
  <1>1. PICK r : r = receipts[p]
    OBVIOUS
  <1>2. ReceiptOK(r)'
    BY <1>1, ReceiptStays DEF DInv, RunOK
  <1> QED
    BY <1>1, <1>2 DEF ReceiptOK

\* A run that is over, with its receipt.
LEMMA Rests ==
    ASSUME DInv, NEW p \in Procs, daily'[p] = Resting, op'[p].pc = "idle",
           NEW r, receipts'[p] = r, ReceiptOK(r)'
    PROVE  RunOK(p)'
PROOF
  <1>1. ReceiptOK(receipts[p])'
    BY DEF ReceiptOK
  <1>2. Together(p)'
    BY DEF Together, Resting, Observes
  <1> QED
    BY <1>1, <1>2 DEF RunOK

LEMMA ReceiptLeft ==
    ASSUME DInv, UNCHANGED <<ledgerVars, config, configs, runs>>,
           NEW p \in Procs, op[p].pc = "idle", NEW outcome, NEW state, NEW attempt,
           Receipt(p, outcome, state, attempt),
           NEW r, r = [day |-> daily[p].day, outcome |-> outcome,
                       state |-> state, attempt |-> attempt],
           ReceiptOK(r)
    PROVE  DInv'
PROOF
  <1>1. UNCHANGED <<bundles, restored, attempts, op>>
    BY DEF ledgerVars
  <1>2. /\ DOMAIN receipts' = Procs /\ receipts'[p] = r
        /\ daily' \in [Procs -> DailyRow] /\ daily'[p] = Resting
        /\ \A q \in Procs \ {p} :
              daily'[q] = daily[q] /\ receipts'[q] = receipts[q]
    BY ReceiptWritten
  <1>3. DailyRows'
    BY <1>1, <1>2 DEF DInv, DailyRows
  <1>4. ReceiptOK(r)'
    BY <1>1, AttemptsStay, ReceiptStays
  <1>5. RunOK(p)'
    BY <1>1, <1>2, <1>4, Rests
  <1> QED
    BY <1>2, <1>3, <1>5, ReadsOnly

LEMMA PlanKeeps ==
    ASSUME DInv, NEW p \in Procs, Plan(p) PROVE DInv'
PROOF
  <1>1. daily[p].pc = "assess" /\ UNCHANGED <<ledgerVars, config, configs, runs>>
    BY DEF Plan, Running
  <1>2. RunOK(p) /\ op[p].pc = "idle" /\ daily[p].day \in Days
        /\ daily[p].now \in Nat
    BY <1>1, RowOf DEF DInv, RunOK, Together
  <1>3. PICK state :
           state = AssessState(daily[p].day, daily[p].now, FALSE, FALSE)
    OBVIOUS
  <1>4. \/ Receipt(p, "failed", "execution_binding_changed", 0)
        \/ Receipt(p, IF state = "completed" THEN "success" ELSE "blocked",
                   state, 0)
        \/ /\ state \in Runnable
           /\ daily' = [daily EXCEPT ![p].pc = "observe",
                                     ![p].expected = Identity(config.bundle)]
           /\ UNCHANGED receipts
    BY <1>3, Zenon DEF Plan
  <1>5. state = "completed" =>
           \E a \in Completed : Observed(a).as_of >= daily[p].day
    <2>1. FALSE \in BOOLEAN
      OBVIOUS
    <2> QED
      BY <1>2, <1>3, <2>1, CompletedIsObserved, Zenon DEF DInv
  <1>6. CASE Receipt(p, "failed", "execution_binding_changed", 0)
    <2>1. PICK r : r = [day |-> daily[p].day, outcome |-> "failed",
                        state |-> "execution_binding_changed", attempt |-> 0]
      OBVIOUS
    <2>2. ReceiptOK(r)
      BY <2>1, FailedReceipt
    <2> QED
      BY <1>1, <1>2, <1>6, <2>1, <2>2, ReceiptLeft
  <1>7. CASE Receipt(p, IF state = "completed" THEN "success" ELSE "blocked",
                     state, 0)
    <2>1. PICK outcome :
             outcome = IF state = "completed" THEN "success" ELSE "blocked"
      OBVIOUS
    <2>2. PICK r : r = [day |-> daily[p].day, outcome |-> outcome,
                        state |-> state, attempt |-> 0]
      OBVIOUS
    <2>3. ReceiptOK(r)
      BY <1>5, <2>1, <2>2 DEF ReceiptOK
    <2> QED
      BY <1>1, <1>2, <1>7, <2>1, <2>2, <2>3, ReceiptLeft
  <1>8. CASE /\ state \in Runnable
             /\ daily' = [daily EXCEPT ![p].pc = "observe",
                                       ![p].expected = Identity(config.bundle)]
             /\ UNCHANGED receipts
    <2>1. config.bundle \in DOMAIN bundles
      <3>1. FALSE \in BOOLEAN
        OBVIOUS
      <3> QED
        BY <1>2, <1>3, <1>8, <3>1, RunnableIsOfItsEvening, Zenon DEF DInv
    <2>2. Identity(config.bundle) \in Bundle
      BY <2>1 DEF DInv, LInv, LedgerRows, Identity
    <2>3. PICK row : row = [daily[p] EXCEPT !.pc = "observe",
                                            !.expected = Identity(config.bundle)]
      OBVIOUS
    <2>4. row \in DailyRow /\ row.pc = "observe"
      BY <1>1, <2>2, <2>3, RowOf DEF DailyRow
    <2>5. daily' \in [Procs -> DailyRow] /\ daily'[p] = row
          /\ \A q \in Procs \ {p} : daily'[q] = daily[q]
      BY <1>8, <2>3, <2>4 DEF DInv, DailyRows
    <2>6. UNCHANGED <<bundles, restored, attempts, op>>
      BY <1>1 DEF ledgerVars
    <2>7. DailyRows'
      BY <1>1, <1>8, <2>5, <2>6 DEF DInv, DailyRows
    <2>8. ReceiptOK(receipts[p])'
      BY <1>8, <2>6, AttemptsStay, ReceiptKept
    <2>9. Together(p)'
      BY <1>2, <2>4, <2>5, <2>6 DEF Together, Observes
    <2>10. RunOK(p)'
      BY <1>2, <2>6, <2>8, <2>9 DEF RunOK
    <2> QED
      BY <1>1, <1>8, <2>5, <2>7, <2>10, ReadsOnly
  <1> QED
    BY <1>4, <1>6, <1>7, <1>8

LEMMA NativeRefusesKeeps ==
    ASSUME DInv, NEW p \in Procs, NativeRefuses(p) PROVE DInv'
PROOF
  <1>1. daily[p].pc = "observe" /\ UNCHANGED <<ledgerVars, config, configs, runs>>
        /\ Receipt(p, "failed", "execution_failed", 0)
    BY DEF NativeRefuses, Running
  <1>2. op[p].pc = "idle"
    BY <1>1 DEF DInv, RunOK, Together
  <1>3. PICK r : r = [day |-> daily[p].day, outcome |-> "failed",
                      state |-> "execution_failed", attempt |-> 0]
    OBVIOUS
  <1>4. ReceiptOK(r)
    BY <1>3, FailedReceipt
  <1> QED
    BY <1>1, <1>2, <1>3, <1>4, ReceiptLeft

LEMMA VerifyKeeps ==
    ASSUME DInv, NEW p \in Procs, Verify(p) PROVE DInv'
PROOF
  <1>1. daily[p].pc = "verify" /\ UNCHANGED <<ledgerVars, config, configs, runs>>
    BY DEF Verify, Running
  <1>2. op[p].pc = "idle" /\ Completed # {}
    BY <1>1 DEF DInv, RunOK, Together
  <1>3. CASE Observed(Newest).as_of = daily[p].day
             /\ Receipt(p, "success", "completed", Newest)
    <2>1. PICK r : r = [day |-> daily[p].day, outcome |-> "success",
                        state |-> "completed", attempt |-> Newest]
      OBVIOUS
    <2>2. Newest \in Completed /\ Observed(Newest).as_of \in Nat
      BY <1>2, NewestIs, CompletedRows DEF DInv, LInv
    <2>3. ReceiptOK(r)
      BY <1>3, <2>1, <2>2 DEF ReceiptOK
    <2> QED
      BY <1>1, <1>2, <1>3, <2>1, <2>3, ReceiptLeft
  <1>4. CASE Receipt(p, "failed", "execution_failed", 0)
    <2>1. PICK r : r = [day |-> daily[p].day, outcome |-> "failed",
                        state |-> "execution_failed", attempt |-> 0]
      OBVIOUS
    <2>2. ReceiptOK(r)
      BY <2>1, FailedReceipt
    <2> QED
      BY <1>1, <1>2, <1>4, <2>1, <2>2, ReceiptLeft
  <1> QED
    BY <1>3, <1>4 DEF Verify

LEMMA ConfigureKeeps ==
    ASSUME DInv, NEW approval \in {"paused", "approved"},
           NEW b \in {0} \cup DOMAIN bundles, Configure(approval, b)
    PROVE  DInv'
PROOF
  <1>1. /\ config' = [approval |-> approval, bundle |-> b]
        /\ configs' = configs + 1
        /\ UNCHANGED <<ledgerVars, runs, daily, receipts>>
    BY DEF Configure
  <1>2. UNCHANGED <<bundles, restored, attempts, op>> /\ LInv'
    BY <1>1, LedgerStutters DEF ledgerVars, DInv
  <1>3. b \in 0 .. Len(bundles)
    BY DEF DInv, LInv, LedgerRows
  <1>4. DailyRows'
    BY <1>1, <1>2, <1>3 DEF DInv, DailyRows, ConfigRow
  <1>5. Kept /\ ResultsOK'
    BY <1>2, AttemptsStay, ResultsStay DEF DInv
  <1>6. {} \in SUBSET Procs
    OBVIOUS
  <1> QED
    BY <1>1, <1>2, <1>4, <1>5, <1>6, RunsMove
-----------------------------------------------------------------------------
(* The steps inside observe.                                               *)

\* One process's step of the ledger leaves the others where they are.
LEMMA OthersStay ==
    ASSUME LInv, NEW p \in Procs,
           \/ \E d, b, t : Enter(p, d, b, t)
           \/ Observing(p) \/ Sealing(p) \/ Reuse(p) \/ Admit(p) \/ Pass(p)
           \/ Publish(p) \/ Fail(p) \/ Crash(p)
    PROVE  UNCHANGED <<bundles, restored>> /\ \A q \in Procs \ {p} : op'[q] = op[q]
PROOF
  <1>1. op \in [Procs -> OpRow]
    BY DEF LInv, LedgerRows
  <1>2. CASE \E d, b, t : Enter(p, d, b, t)
    BY <1>1, <1>2 DEF Enter, World
  <1>3. CASE Recover(p) \/ Begin(p)
    BY <1>1, <1>3 DEF Recover, Begin, World
  <1>4. CASE Execute(p)
    BY <1>1, <1>4 DEF Execute, World
  <1>5. CASE Describe(p) \/ Commit(p)
    BY <1>1, <1>5 DEF Describe, Commit, World
  <1>6. CASE Sealing(p)
    BY <1>1, <1>6 DEF Sealing, SealHoldout, PublishEvaluation, Leave, World
  <1>7. CASE Reuse(p) \/ Admit(p) \/ Pass(p)
    BY <1>1, <1>7 DEF Reuse, Admit, Pass, Leave, World
  <1>8. CASE Publish(p) \/ Fail(p) \/ Crash(p)
    BY <1>1, <1>8 DEF Publish, Fail, Crash, Leave, World
  <1> QED
    BY <1>2, <1>3, <1>4, <1>5, <1>6, <1>7, <1>8 DEF Observing

\* A step that stays inside observe.
LEMMA InsideMoves ==
    ASSUME DInv, LInv', Kept, ResultsOK', NEW p \in Procs,
           daily[p].pc = "native", UNCHANGED dailyVars, UNCHANGED <<bundles, restored>>,
           \A q \in Procs \ {p} : op'[q] = op[q],
           op'[p].pc \in Observes \cup {"publish"},
           op'[p].pc \in Observes =>
              op[p].pc \in Observes /\ op'[p].day = op[p].day,
           op'[p].pc = "commit" => GatedOK(op[p])'
    PROVE  DInv'
PROOF
  <1>1. UNCHANGED <<config, configs, runs, daily, receipts>>
    BY DEF dailyVars
  <1>2. DailyRows'
    BY <1>1 DEF DInv, DailyRows
  <1>3. ReceiptOK(receipts[p])'
    BY <1>1, ReceiptKept
  <1>4. Together(p)'
    BY <1>1 DEF DInv, RunOK, Together
  <1>5. RunOK(p)' /\ {p} \in SUBSET Procs
    BY <1>3, <1>4 DEF RunOK
  <1> QED
    BY <1>1, <1>2, <1>5, RunsMove

\* A step that leaves observe, for good or to look the result up.
LEMMA OutsideMoves ==
    ASSUME DInv, LInv', Kept, Completed' = Completed, NEW p \in Procs,
           UNCHANGED <<config, configs, runs>>, UNCHANGED <<bundles, restored>>,
           \A q \in Procs \ {p} : op'[q] = op[q],
           DOMAIN receipts' = Procs, daily' \in [Procs -> DailyRow],
           \A q \in Procs \ {p} :
              daily'[q] = daily[q] /\ receipts'[q] = receipts[q],
           RunOK(p)'
    PROVE  DInv'
PROOF
  <1>1. DailyRows'
    BY DEF DInv, DailyRows
  <1>2. ResultsOK'
    BY ResultsStay DEF DInv
  <1>3. {p} \in SUBSET Procs
    OBVIOUS
  <1> QED
    BY <1>1, <1>2, <1>3, RunsMove

LEMMA EnterDailyKeeps ==
    ASSUME DInv, NEW p \in Procs, EnterDaily(p) PROVE DInv'
PROOF
  <1>1. PICK b \in DOMAIN bundles : Enter(p, daily[p].day, b, daily[p].now)
    BY DEF EnterDaily
  <1>2. /\ daily[p].pc = "observe" /\ daily' = [daily EXCEPT ![p].pc = "native"]
        /\ UNCHANGED <<config, configs, runs, receipts>>
    BY DEF EnterDaily, Running
  <1>3. LInv' /\ UNCHANGED <<bundles, restored>> /\ \A q \in Procs \ {p} : op'[q] = op[q]
    BY <1>1, EnterKeeps, OthersStay DEF DInv
  <1>4. UNCHANGED attempts
    BY <1>1 DEF Enter, Record
  <1>5. Kept /\ Completed' = Completed
    BY <1>4, AttemptsStay
  <1>6. op'[p].pc \in {"reuse", "admit"} /\ op'[p].day = daily[p].day
    BY <1>1 DEF Enter, DInv, LInv, LedgerRows
  <1>7. PICK row : row = [daily[p] EXCEPT !.pc = "native"]
    OBVIOUS
  <1>8. row \in DailyRow /\ row.pc = "native" /\ row.day = daily[p].day
    BY <1>2, <1>7, RowOf DEF DailyRow
  <1>9. daily' \in [Procs -> DailyRow] /\ daily'[p] = row
        /\ \A q \in Procs \ {p} : daily'[q] = daily[q]
    BY <1>2, <1>7, <1>8 DEF DInv, DailyRows
  <1>10. ReceiptOK(receipts[p])' /\ DOMAIN receipts' = Procs
    BY <1>2, <1>5, ReceiptKept DEF DInv, DailyRows
  <1>11. RunOK(p)'
    BY <1>6, <1>8, <1>9, <1>10 DEF RunOK, Together, Observes
  <1> QED
    BY <1>2, <1>3, <1>5, <1>9, <1>10, <1>11, OutsideMoves

\* Back from observe with a result to look up.
LEMMA Returns ==
    ASSUME DInv, LInv', NEW p \in Procs, daily[p].pc = "native",
           UNCHANGED <<attempts, bundles, restored, config, configs, runs, receipts>>,
           \A q \in Procs \ {p} : op'[q] = op[q],
           op'[p].pc = "idle", Completed # {},
           daily' = [daily EXCEPT ![p].pc = "verify"]
    PROVE  DInv'
PROOF
  <1>1. Kept /\ Completed' = Completed
    BY AttemptsStay
  <1>2. PICK row : row = [daily[p] EXCEPT !.pc = "verify"]
    OBVIOUS
  <1>3. row \in DailyRow /\ row.pc = "verify"
    BY <1>2, RowOf DEF DailyRow
  <1>4. daily' \in [Procs -> DailyRow] /\ daily'[p] = row
        /\ \A q \in Procs \ {p} : daily'[q] = daily[q]
    BY <1>2, <1>3 DEF DInv, DailyRows
  <1>5. ReceiptOK(receipts[p])' /\ DOMAIN receipts' = Procs
    BY <1>1, ReceiptKept DEF DInv, DailyRows
  <1>6. RunOK(p)'
    BY <1>1, <1>3, <1>4, <1>5 DEF RunOK, Together, Observes
  <1> QED
    BY <1>1, <1>4, <1>5, <1>6, OutsideMoves

LEMMA LeaveIsIdle ==
    ASSUME LInv, NEW p \in Procs, Leave(p)
    PROVE  op'[p].pc = "idle" /\ \A q \in Procs \ {p} : op'[q] = op[q]
BY IdleIs DEF Leave, LInv, LedgerRows

LEMMA ReuseDailyKeeps ==
    ASSUME DInv, NEW p \in Procs, ReuseDaily(p) PROVE DInv'
PROOF
  <1>1. /\ daily[p].pc = "native" /\ Reuse(p)
        /\ daily' = [daily EXCEPT ![p].pc = "verify"]
        /\ UNCHANGED <<config, configs, runs, receipts>>
    BY DEF ReuseDaily, Running
  <1>2. /\ op[p].pc = "reuse" /\ Leave(p) /\ UNCHANGED attempts
        /\ UNCHANGED <<bundles, restored>>
    BY <1>1 DEF Reuse, Doing, World
  <1>3. LInv' /\ op'[p].pc = "idle" /\ \A q \in Procs \ {p} : op'[q] = op[q]
    BY <1>1, <1>2, ReuseKeeps, LeaveIsIdle DEF DInv
  <1>4. Completed # {}
    BY <1>2, ObserverOf DEF DInv, ObservingOK, Observes
  <1> QED
    BY <1>1, <1>2, <1>3, <1>4, Returns

LEMMA PublishDailyKeeps ==
    ASSUME DInv, NEW p \in Procs, PublishDaily(p) PROVE DInv'
PROOF
  <1>1. /\ daily[p].pc = "native" /\ Publish(p)
        /\ daily' = [daily EXCEPT ![p].pc = "verify"]
        /\ UNCHANGED <<config, configs, runs, receipts>>
    BY DEF PublishDaily, Running
  <1>2. /\ op[p].pc = "publish" /\ Leave(p) /\ UNCHANGED attempts
        /\ UNCHANGED <<bundles, restored>>
    BY <1>1 DEF Publish, Doing, World
  <1>3. LInv' /\ op'[p].pc = "idle" /\ \A q \in Procs \ {p} : op'[q] = op[q]
    BY <1>1, <1>2, PublishKeeps, LeaveIsIdle DEF DInv
  <1>4. Completed # {}
    BY <1>2 DEF DInv, LInv, OpOK
  <1> QED
    BY <1>1, <1>2, <1>3, <1>4, Returns

\* Back from observe without one.
LEMMA Fails ==
    ASSUME DInv, LInv', Kept, Completed' = Completed, NEW p \in Procs,
           UNCHANGED <<bundles, restored, config, configs, runs>>, Leave(p),
           Receipt(p, "failed", "execution_failed", 0)
    PROVE  DInv'
PROOF
  <1>1. op'[p].pc = "idle" /\ \A q \in Procs \ {p} : op'[q] = op[q]
    BY LeaveIsIdle DEF DInv
  <1>2. PICK r : r = [day |-> daily[p].day, outcome |-> "failed",
                      state |-> "execution_failed", attempt |-> 0]
    OBVIOUS
  <1>3. /\ DOMAIN receipts' = Procs /\ receipts'[p] = r
        /\ daily' \in [Procs -> DailyRow] /\ daily'[p] = Resting
        /\ \A q \in Procs \ {p} :
              daily'[q] = daily[q] /\ receipts'[q] = receipts[q]
    BY <1>2, ReceiptWritten
  <1>4. ReceiptOK(r)'
    BY <1>2 DEF ReceiptOK
  <1>5. RunOK(p)'
    BY <1>1, <1>3, <1>4, Rests
  <1> QED
    BY <1>1, <1>3, <1>5, OutsideMoves

LEMMA RefuseKeeps ==
    ASSUME DInv, NEW p \in Procs, Refuse(p) PROVE DInv'
PROOF
  <1>1. /\ op[p].pc \in {"admit", "reuse"} /\ Leave(p)
        /\ Receipt(p, "failed", "execution_failed", 0)
        /\ UNCHANGED <<Registration, World, Record, config, configs, runs>>
    BY DEF Refuse
  <1>2. UNCHANGED <<attempts, latest, sealed, evaluation, bundles, restored>>
        /\ op[p].pc \in Holding
    BY <1>1 DEF Record, World, Holding, Observes
  <1>3. Kept /\ Completed' = Completed
    BY <1>2, AttemptsStay
  <1>4. latest' \in {0} \cup Completed
    BY <1>2 DEF DInv, LInv, LedgerRows
  <1>5. LInv'
    BY <1>1, <1>2, <1>4, Leaves, FilesStay DEF DInv
  <1> QED
    BY <1>1, <1>2, <1>3, <1>5, Fails

LEMMA FailDailyKeeps ==
    ASSUME DInv, NEW p \in Procs, FailDaily(p) PROVE DInv'
PROOF
  <1>1. /\ Fail(p) /\ Receipt(p, "failed", "execution_failed", 0)
        /\ UNCHANGED <<config, configs, runs>>
    BY DEF FailDaily
  <1>2. /\ op[p].pc \in Attempting /\ Leave(p) /\ UNCHANGED <<bundles, restored>>
        /\ attempts' = [attempts EXCEPT ![op[p].attempt].status = "failed"]
    BY <1>1 DEF Fail, Attempting, World
  <1>3. op[p].attempt \in Open
    BY <1>2, AttemptIsLast DEF DInv
  <1>4. Completed' = Completed /\ \A x \in Completed : attempts'[x] = attempts[x]
    BY <1>2, <1>3, Closes DEF DInv
  <1>5. Kept
    BY <1>4 DEF Kept, Observed
  <1>6. LInv'
    BY <1>1, FailKeeps DEF DInv
  <1> QED
    BY <1>1, <1>2, <1>4, <1>5, <1>6, Fails

LEMMA CrashDailyKeeps ==
    ASSUME DInv, NEW p \in Procs, CrashDaily(p) PROVE DInv'
PROOF
  <1>1. /\ daily' = [daily EXCEPT ![p] = Resting]
        /\ Crash(p) \/ (op[p].pc = "idle" /\ UNCHANGED ledgerVars)
        /\ UNCHANGED <<config, configs, runs, receipts>>
    BY DEF CrashDaily, Doing
  <1>2. UNCHANGED <<attempts, bundles, restored>>
    BY <1>1 DEF Crash, ledgerVars, Record, World
  <1>3. LInv'
    BY <1>1, CrashKeeps, LedgerStutters DEF DInv
  <1>4. op'[p].pc = "idle" /\ \A q \in Procs \ {p} : op'[q] = op[q]
    BY <1>1, IdleIs DEF Crash, ledgerVars, DInv, LInv, LedgerRows
  <1>5. Kept /\ Completed' = Completed
    BY <1>2, AttemptsStay
  <1>6. Resting \in DailyRow
    BY DEF DailyRow
  <1>7. /\ daily' \in [Procs -> DailyRow] /\ daily'[p] = Resting
        /\ \A q \in Procs \ {p} : daily'[q] = daily[q]
        /\ DOMAIN receipts' = Procs
    BY <1>1, <1>6 DEF DInv, DailyRows
  <1>8. PICK r : r = receipts'[p]
    OBVIOUS
  <1>9. ReceiptOK(receipts[p])'
    BY <1>1, <1>5, ReceiptKept
  <1>10. ReceiptOK(r)'
    BY <1>8, <1>9 DEF ReceiptOK
  <1>11. RunOK(p)'
    BY <1>4, <1>7, <1>8, <1>10, Rests
  <1> QED
    BY <1>1, <1>2, <1>3, <1>4, <1>5, <1>7, <1>11, OutsideMoves

\* When the inputs the recipe names are still those observe began with, no row
\* has been changed in between, unless it was changed back: what was read
\* twice meanwhile is theirs.
LEMMA Squeezed ==
    ASSUME LInv, NEW p \in Procs, op[p].pc = "gate",
           NEW b \in DOMAIN bundles, bundles[b] = op[p].evidence
    PROVE  OnItsInputs(op[p].bundle, op[p].day, op[p].evidence, op[p].read,
                       op[p].prefix)
PROOF
  <1>1. PICK c : c = op[p]
    OBVIOUS
  <1>2. c \in ObserveRow /\ ObservingOK(c) /\ c.pc = "gate"
    BY <1>1, ObserverOf DEF Observes
  <1> DEFINE rows == Unrestored(c.bundle)
  <1>3. /\ c.bundle \in DOMAIN bundles /\ c.evidence \in Bundle
        /\ c.read \in Bundle /\ bundles[c.bundle] \in Bundle
        /\ Newer(rows, c.evidence, bundles[c.bundle])
        /\ Newer(rows, c.evidence, c.read)
        /\ Newer(rows, c.read, bundles[c.bundle])
        /\ c.prefix \in [Known(c.day) -> Nat]
        /\ \A s \in Known(c.day) \cap rows :
              /\ c.evidence.rows[s] <= c.prefix[s]
              /\ c.prefix[s] <= bundles[c.bundle].rows[s]
    BY <1>2 DEF ObserveRow, ObservingOK, Replayed, Described, LInv, LedgerRows
  <1>4. c.bundle = b
    <2>1. bundles[b].manifest = b /\ bundles[c.bundle].manifest = c.bundle
      BY <1>3 DEF LInv, BundlesAge
    <2> QED
      BY <2>1, <1>1, <1>3 DEF Newer
  <1>5. bundles[c.bundle] = c.evidence
    BY <1>1, <1>4
  <1>6. c.read.manifest = c.evidence.manifest
    BY <1>3 DEF Newer
  <1>7. ASSUME NEW s \in rows
        PROVE  c.read.rows[s] = c.evidence.rows[s]
    <2>1. s \in Sessions
      BY DEF Unrestored
    <2>2. c.evidence.rows[s] \in Nat /\ c.read.rows[s] \in Nat
      BY <1>3, <2>1 DEF Bundle
    <2>3. /\ c.evidence.rows[s] <= c.read.rows[s]
          /\ c.read.rows[s] <= c.evidence.rows[s]
      BY <1>3, <1>5 DEF Newer
    <2> QED
      BY <2>2, <2>3
  <1>8. ASSUME NEW s \in rows, s \in Known(c.day)
        PROVE  c.prefix[s] = c.evidence.rows[s]
    <2>1. s \in Sessions
      BY DEF Unrestored
    <2>2. c.evidence.rows[s] \in Nat /\ c.prefix[s] \in Nat
      BY <1>3, <1>8, <2>1 DEF Bundle
    <2>3. /\ c.evidence.rows[s] <= c.prefix[s]
          /\ c.prefix[s] <= c.evidence.rows[s]
      BY <1>3, <1>5, <1>8
    <2> QED
      BY <2>2, <2>3
  <1> QED
    BY <1>1, <1>6, <1>7, <1>8 DEF OnItsInputs

LEMMA AdmitDailyKeeps ==
    ASSUME DInv, NEW p \in Procs, AdmitDaily(p) PROVE DInv'
PROOF
  <1>1. daily[p].pc = "native" /\ Admit(p) /\ UNCHANGED dailyVars
    BY DEF AdmitDaily, Running
  <1>2. LInv' /\ UNCHANGED <<bundles, restored>> /\ \A q \in Procs \ {p} : op'[q] = op[q]
    BY <1>1, AdmitKeeps, OthersStay DEF DInv
  <1>3. op[p].pc = "admit" /\ UNCHANGED attempts
        /\ op' = [op EXCEPT ![p].pc = "begin"]
    BY <1>1 DEF Admit, Doing, Record
  <1>4. op[p] \in ObserveRow
    BY <1>3, ObserverOf DEF DInv, Observes
  <1>5. op'[p].pc = "begin" /\ op'[p].day = op[p].day
    BY <1>3, <1>4 DEF ObserveRow, DInv, LInv, LedgerRows
  <1>6. Kept /\ ResultsOK'
    BY <1>2, <1>3, AttemptsStay, ResultsStay DEF DInv
  <1> QED
    BY <1>1, <1>2, <1>3, <1>5, <1>6, InsideMoves DEF Observes

\* The last gate: the plan stands for these inputs, at this moment.
LEMMA PassDailyKeeps ==
    ASSUME DInv, NEW p \in Procs, PassDaily(p) PROVE DInv'
PROOF
  <1>1. /\ daily[p].pc = "native" /\ Pass(p) /\ UNCHANGED dailyVars
        /\ AssessState(daily[p].day, daily[p].now, TRUE, TRUE) \in Runnable
        /\ op[p].evidence = daily[p].expected
        /\ Identity(config.bundle) = daily[p].expected
    BY DEF PassDaily, Running, GateHolds
  <1>2. LInv' /\ UNCHANGED <<bundles, restored>> /\ \A q \in Procs \ {p} : op'[q] = op[q]
    BY <1>1, PassKeeps, OthersStay DEF DInv
  <1>3. op[p].pc = "gate" /\ UNCHANGED attempts
        /\ op' = [op EXCEPT ![p].pc = "commit"]
    BY <1>1 DEF Pass, Doing, Record
  <1>4. op[p] \in ObserveRow
    BY <1>3, ObserverOf DEF DInv, Observes
  <1>5. /\ op'[p].pc = "commit" /\ op'[p].day = op[p].day
        /\ op'[p].evidence = op[p].evidence /\ op'[p].read = op[p].read
        /\ op'[p].prefix = op[p].prefix /\ op'[p].bundle = op[p].bundle
    BY <1>3, <1>4 DEF ObserveRow, DInv, LInv, LedgerRows
  <1>6. daily[p].day \in Days /\ daily[p].now \in Nat /\ op[p].day = daily[p].day
    BY <1>1, <1>3, RowOf DEF DInv, RunOK, Together, Observes
  <1>7. /\ config.bundle \in DOMAIN bundles
        /\ OfItsEvening(daily[p].day, bundles[config.bundle])
    <2>1. TRUE \in BOOLEAN
      OBVIOUS
    <2> QED
      BY <1>1, <1>6, <2>1, RunnableIsOfItsEvening, Zenon DEF DInv
  <1>8. bundles[config.bundle] = op[p].evidence
    BY <1>1 DEF Identity
  <1>9. OnItsInputs(op[p].bundle, op[p].day, op[p].evidence, op[p].read, op[p].prefix)
    BY <1>3, <1>7, <1>8, Squeezed DEF DInv
  <1>10. GatedOK(op[p])'
    BY <1>2, <1>5, <1>6, <1>7, <1>8, <1>9
    DEF GatedOK, OfItsEvening, OnItsInputs, Unrestored
  <1>11. Kept /\ ResultsOK'
    BY <1>2, <1>3, AttemptsStay, ResultsStay DEF DInv
  <1> QED
    BY <1>1, <1>2, <1>3, <1>5, <1>10, <1>11, InsideMoves DEF Observes

LEMMA ObserveDailyKeeps ==
    ASSUME DInv, NEW p \in Procs, ObserveDaily(p) PROVE DInv'
PROOF
  <1>1. daily[p].pc = "native" /\ Observing(p) /\ UNCHANGED dailyVars
    BY DEF ObserveDaily, Running
  <1>2. LInv' /\ UNCHANGED <<bundles, restored>> /\ \A q \in Procs \ {p} : op'[q] = op[q]
    BY <1>1, ObservingKeeps, OthersStay DEF DInv
  <1>3. op \in [Procs -> OpRow]
    BY DEF DInv, LInv, LedgerRows
  <1>4. ASSUME op[p].pc \in Observes, Kept, Completed' = Completed,
               op'[p].pc \in Observes \ {"commit"}, op'[p].day = op[p].day
        PROVE  DInv'
    <2>1. ResultsOK'
      BY <1>2, <1>4, ResultsStay DEF DInv
    <2> QED
      BY <1>1, <1>2, <1>4, <2>1, InsideMoves
  <1>5. CASE Recover(p)
    <2>1. PICK a \in Open :
             attempts' = [attempts EXCEPT ![a].status = "interrupted"]
      BY <1>5 DEF Recover
    <2>2. Completed' = Completed /\ \A x \in Completed : attempts'[x] = attempts[x]
      BY <2>1, Closes DEF DInv
    <2>3. Kept
      BY <2>2 DEF Kept, Observed
    <2>4. op[p].pc = "begin" /\ op' = op
      BY <1>5 DEF Recover, Doing
    <2> QED
      BY <1>4, <2>2, <2>3, <2>4 DEF Observes
  <1>6. CASE Begin(p)
    <2>1. /\ op[p].pc = "begin"
          /\ op' = [op EXCEPT ![p].attempt = Len(attempts) + 1,
                              ![p].pc = "execute"]
      BY <1>6 DEF Begin, Doing
    <2>2. PICK row : row.status = "running" /\ attempts' = Append(attempts, row)
      BY <1>6 DEF Begin
    <2>3. attempts \in Seq(AttemptRow) /\ op[p] \in ObserveRow
      BY <2>1, ObserverOf DEF DInv, LInv, LedgerRows, Observes
    <2>4. /\ DOMAIN attempts' = DOMAIN attempts \cup {Len(attempts) + 1}
          /\ attempts'[Len(attempts) + 1] = row
          /\ \A x \in DOMAIN attempts : attempts'[x] = attempts[x]
      BY <2>2, <2>3
    <2>5. Completed' = Completed /\ \A x \in Completed : attempts'[x] = attempts[x]
      BY <2>2, <2>4 DEF Completed
    <2>6. Kept
      BY <2>5 DEF Kept, Observed
    <2>7. op'[p].pc = "execute" /\ op'[p].day = op[p].day
      BY <1>3, <2>1, <2>3 DEF ObserveRow
    <2> QED
      BY <1>4, <2>1, <2>5, <2>6, <2>7 DEF Observes
  <1>7. CASE Execute(p)
    <2>1. op[p].pc = "execute" /\ UNCHANGED attempts
      BY <1>7 DEF Execute, Doing, Record
    <2>2. op[p] \in ObserveRow
      BY <2>1, ObserverOf DEF DInv, Observes
    <2>3. op'[p].pc = "describe" /\ op'[p].day = op[p].day
      BY <1>3, <1>7, <2>2 DEF Execute, ObserveRow
    <2> QED
      BY <1>4, <2>1, <2>3, AttemptsStay DEF Observes
  <1>8. CASE Describe(p)
    <2>1. op[p].pc = "describe" /\ UNCHANGED attempts
      BY <1>8 DEF Describe, Doing, Record
    <2>2. op[p] \in ObserveRow
      BY <2>1, ObserverOf DEF DInv, Observes
    <2>3. op'[p].pc = "gate" /\ op'[p].day = op[p].day
      BY <1>3, <1>8, <2>2 DEF Describe, ObserveRow
    <2> QED
      BY <1>4, <2>1, <2>3, AttemptsStay DEF Observes
  <1>9. CASE Commit(p)
    <2>1. PICK c : c = op[p]
      OBVIOUS
    <2>2. PICK n : n = op[p].attempt
      OBVIOUS
    <2>3. /\ Completed' = Completed \cup {n} /\ Observed(n)' = Outcome(c)
          /\ \A a \in Completed : Observed(a)' = Observed(a)
      BY <1>9, <2>1, <2>2, CommitAdds DEF DInv
    <2>4. Kept
      BY <2>3 DEF Kept
    <2>5. op[p].pc = "commit" /\ op'[p].pc = "publish"
      BY <1>3, <1>9 DEF Commit, Doing
    <2>6. GatedOK(c)
      BY <2>1, <2>5 DEF DInv, RunOK
    <2>7. ResultsOK'
      <3>1. SUFFICES ASSUME NEW a \in Completed', NEW r, r = Observed(a)'
                     PROVE  /\ OfItsEvening(r.as_of, r.identity)
                            /\ OnItsInputs(r.inputs, r.as_of, r.identity,
                                           r.read, r.prefix)
        BY <1>2 DEF ResultsOK, OfItsEvening, OnItsInputs, Unrestored
      <3>2. CASE a = n
        BY <2>3, <2>6, <3>1, <3>2 DEF GatedOK, Outcome
      <3>3. CASE a \in Completed
        BY <2>3, <3>1, <3>3 DEF DInv, ResultsOK
      <3> QED
        BY <2>3, <3>2, <3>3
    <2> QED
      BY <1>1, <1>2, <2>4, <2>5, <2>7, InsideMoves DEF Observes
  <1> QED
    BY <1>1, <1>5, <1>6, <1>7, <1>8, <1>9 DEF Observing

LEMMA WorldKeeps ==
    ASSUME DInv, Surroundings, UNCHANGED dailyVars PROVE DInv'
PROOF
  <1>1. LInv'
    BY SurroundingsKeep DEF DInv
  <1>2. UNCHANGED <<config, configs, runs, daily, receipts>>
    BY DEF dailyVars
  <1>3. UNCHANGED <<attempts, op>> /\ restored \subseteq restored'
    BY DEF Surroundings, Tick, Capture, Rewrite, Damage, Record
  <1>4. Kept /\ ResultsOK'
    BY <1>3, AttemptsStay, ResultsStay DEF DInv
  <1>5. bundles \in Seq(Bundle) /\ Len(bundles) \in Nat
    BY DEF DInv, LInv, LedgerRows
  <1>6. Len(bundles') \in Nat /\ Len(bundles) <= Len(bundles')
    <2>1. CASE bundles' = bundles
      BY <1>5, <2>1
    <2>2. CASE \E row : Capture(row)
      <3>1. PICK new : bundles' = Append(bundles, new)
        BY <2>2 DEF Capture
      <3> QED
        BY <1>5, <3>1
    <2>3. CASE \E b, s, row : Rewrite(b, s, row)
      <3>1. PICK b, new : bundles' = [bundles EXCEPT ![b] = new]
        BY <2>3, Zenon DEF Rewrite
      <3> QED
        BY <1>5, <3>1
    <2> QED
      BY <2>1, <2>2, <2>3 DEF Surroundings, Tick, Damage
  <1>7. DailyRows'
    BY <1>2, <1>5, <1>6 DEF DInv, DailyRows
  <1>8. {} \in SUBSET Procs
    OBVIOUS
  <1> QED
    BY <1>1, <1>2, <1>3, <1>4, <1>7, <1>8, RunsMove

LEMMA OutsiderKeeps ==
    ASSUME DInv, NEW p \in Procs, daily[p].pc = "rest",
           Sealing(p) \/ Crash(p), UNCHANGED dailyVars
    PROVE  DInv'
PROOF
  <1>1. LInv' /\ UNCHANGED <<bundles, restored>> /\ \A q \in Procs \ {p} : op'[q] = op[q]
    BY SealingKeeps, CrashKeeps, OthersStay DEF DInv
  <1>2. UNCHANGED <<config, configs, runs, daily, receipts>>
    BY DEF dailyVars
  <1>3. UNCHANGED attempts
    BY DEF Sealing, SealHoldout, PublishEvaluation, Crash, Record
  <1>4. op'[p].pc \in {"idle", "evaluate"}
    BY IdleIs DEF Sealing, SealHoldout, PublishEvaluation, Leave, Crash, DInv,
       LInv, LedgerRows
  <1>5. Kept /\ Completed' = Completed
    BY <1>3, AttemptsStay
  <1>6. ReceiptOK(receipts[p])'
    BY <1>2, <1>5, ReceiptKept
  <1>7. RunOK(p)'
    BY <1>2, <1>4, <1>6 DEF RunOK, Together, Observes
  <1>8. DOMAIN receipts' = Procs /\ daily' \in [Procs -> DailyRow]
    BY <1>2 DEF DInv, DailyRows
  <1> QED
    BY <1>1, <1>2, <1>5, <1>7, <1>8, OutsideMoves

LEMMA RunsStutter ==
    ASSUME DInv, UNCHANGED fvars PROVE DInv'
PROOF
  <1>1. UNCHANGED <<ledgerVars, dailyVars>>
    BY DEF fvars
  <1>2. LInv' /\ UNCHANGED <<bundles, restored, attempts, op>>
    BY <1>1, LedgerStutters DEF DInv, ledgerVars
  <1>3. UNCHANGED <<config, configs, runs, daily, receipts>>
    BY <1>1 DEF dailyVars
  <1>4. Kept /\ ResultsOK'
    BY <1>2, AttemptsStay, ResultsStay DEF DInv
  <1>5. DailyRows' /\ {} \in SUBSET Procs
    BY <1>2, <1>3 DEF DInv, DailyRows
  <1> QED
    BY <1>2, <1>3, <1>4, <1>5, RunsMove

LEMMA RunsStep ==
    ASSUME DInv, [FNext]_fvars PROVE DInv'
PROOF
  <1>1. CASE UNCHANGED fvars
    BY <1>1, RunsStutter
  <1>2. CASE Elsewhere
    BY <1>2, WorldKeeps, OutsiderKeeps DEF Elsewhere, Running
  <1>3. ASSUME NEW approval \in {"paused", "approved"},
               NEW b \in {0} \cup DOMAIN bundles, Configure(approval, b)
        PROVE  DInv'
    BY <1>3, ConfigureKeeps
  <1>4. ASSUME NEW p \in Procs,
               \/ \E d \in Days : Call(p, d)
               \/ Plan(p) \/ EnterDaily(p) \/ NativeRefuses(p)
               \/ ReuseDaily(p) \/ AdmitDaily(p) \/ PassDaily(p) \/ Refuse(p)
               \/ ObserveDaily(p) \/ PublishDaily(p) \/ FailDaily(p)
               \/ Verify(p) \/ CrashDaily(p)
        PROVE  DInv'
    BY <1>4, CallKeeps, PlanKeeps, EnterDailyKeeps, NativeRefusesKeeps,
       ReuseDailyKeeps, AdmitDailyKeeps, PassDailyKeeps, RefuseKeeps,
       ObserveDailyKeeps, PublishDailyKeeps, FailDailyKeeps, VerifyKeeps,
       CrashDailyKeeps
  <1> QED
    BY <1>1, <1>2, <1>3, <1>4 DEF FNext

LEMMA RunsStay == FSpec => []DInv
BY RunsStart, RunsStep, PTL DEF FSpec
-----------------------------------------------------------------------------
\* The account a daily run observes with is as sound as the ledger by itself,
\* although run() comes with the instant it began at instead of the present.
THEOREM RunsKeepTheAccountSound == FSpec => []AccountIsSound
PROOF
  <1>1. DInv => AccountIsSound
    BY LedgerIsSound DEF DInv
  <1> QED
    BY <1>1, RunsStay, PTL

\* Whatever a run committed was captured after its session's close and before
\* the next session's, however long the run waited between plan and commit and
\* however often recipe, configuration and inputs changed meanwhile (assess,
\* execution_gate).
THEOREM NothingIsBackfilled == FSpec => []NoBackfill
PROOF
  <1>1. DInv => NoBackfill
    BY DEF DInv, ResultsOK, OfItsEvening, NoBackfill
  <1> QED
    BY <1>1, RunsStay, PTL

\* The identity, the rows the executor read and the past an observation
\* records are read at different times, and still agree in every row, even if
\* the inputs are changed in place between the reads; a row that was changed
\* and then given contents of old again is left out, for the gates compare
\* what is there when they look and cannot see it (observe, run).
THEOREM CommitsAreOnTheirInputs == FSpec => []CommittedOnItsInputs
PROOF
  <1>1. DInv => CommittedOnItsInputs
    BY DEF DInv, ResultsOK, OnItsInputs, Unrestored, CommittedOnItsInputs
  <1> QED
    BY <1>1, RunsStay, PTL

\* A receipt that reports success or names an attempt is true and stays so,
\* and no session is observed twice, for any number of processes that run the
\* same or other days, crash, or change the configuration (run).
THEOREM RunsStayTold == FSpec => []RunsAreTold
PROOF
  <1>1. ASSUME DInv PROVE RunsAreTold
    <2>1. LedgerTypeOK
      BY <1>1, LedgerIsTyped DEF DInv
    <2>2. \A p \in Procs : RunOK(p)
      BY <1>1 DEF DInv
    <2>3. DOMAIN receipts = Procs /\ daily \in [Procs -> DailyRow]
      BY <1>1 DEF DInv, DailyRows
    <2>4. \A p \in Procs : daily[p].pc \in
             {"rest", "assess", "observe", "native", "verify"}
      BY <2>3 DEF DailyRow, Resting
    <2>5. FTypeOK
      BY <1>1, <2>1, <2>2, <2>4 DEF FTypeOK, DInv, DailyRows, RunOK, ReceiptOK
    <2>6. \A r \in Range(receipts) : ReceiptOK(r)
      BY <2>2, <2>3 DEF Range, RunOK
    <2>7. \A a, b \in Completed : Observed(a).as_of = Observed(b).as_of => a = b
      <3>1. SUFFICES ASSUME NEW a \in Completed, NEW b \in Completed,
                            Observed(a).as_of = Observed(b).as_of, a # b
                     PROVE  FALSE
        OBVIOUS
      <3>2. /\ a \in 1 .. Len(attempts) /\ b \in 1 .. Len(attempts)
            /\ Observed(a).as_of \in Nat /\ Observed(b).as_of \in Nat
        BY <1>1, CompletedRows DEF DInv, LInv
      <3>3. a < b \/ b < a
        BY <3>1, <3>2
      <3> QED
        BY <1>1, <3>1, <3>2, <3>3 DEF DInv, LInv, HistoryOK
    <2>8. ReceiptsAreTrue /\ SuccessIsObserved
      BY <2>6, <2>7 DEF ReceiptsAreTrue, SuccessIsObserved, ReceiptOK
    <2> QED
      BY <2>5, <2>8 DEF RunsAreTold
  <1> QED
    BY <1>1, RunsStay, PTL
=============================================================================
