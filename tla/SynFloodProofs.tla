--------------------------- MODULE SynFloodProofs ---------------------------
(***************************************************************************)
(* Proofs about SynFlood for all sizes of its constants: the deque and the  *)
(* UID table, by the lemmas that PortScanProofs uses too, and the states of *)
(* the targets.  The running sum of a target is corrected by differences at *)
(* every event, so what keeps it right is that every count it has ever seen *)
(* lies within CountLog's domain: MaxEventsPerTarget is part of the         *)
(* invariant.                                                               *)
(***************************************************************************)
EXTENDS SynFlood, TimedQueueProofs

LEMMA ConstantTypes ==
  /\ Window \in Nat /\ DedupTtl \in Nat /\ Cooldown \in Nat /\ Window <= DedupTtl
  /\ MaxTotalEvents \in Nat /\ MaxDedupUids \in Nat
  /\ MaxEventsPerTarget \in Nat \ {0}
BY ConfigAssumption, LimitAssumption

LEMMA CountLogIs ==
  /\ CountLog \in [0 .. MaxEventsPerTarget -> Nat]
  /\ CountLog[0] = 0 /\ CountLog[1] = 0
  /\ \A n \in 1 .. MaxEventsPerTarget : Log2[n] \in Nat /\ CountLog[n] = n * Log2[n]
<1>1. \A n \in 1 .. MaxEventsPerTarget : Log2[n] \in Nat /\ n * Log2[n] \in Nat
  BY LogAssumption
<1>2. Log2[1] = 0 /\ MaxEventsPerTarget \in Nat /\ MaxEventsPerTarget >= 1
  BY LogAssumption, ConstantTypes
<1>3. /\ \A n \in 0 .. MaxEventsPerTarget : n <= 1 \/ n \in 1 .. MaxEventsPerTarget
      /\ 0 \in 0 .. MaxEventsPerTarget /\ 1 \in 0 .. MaxEventsPerTarget
      /\ 1 .. MaxEventsPerTarget \subseteq 0 .. MaxEventsPerTarget
  BY <1>2
<1>4. \A n \in 1 .. MaxEventsPerTarget : CountLog[n] = n * Log2[n]
  <2> SUFFICES ASSUME NEW n \in 1 .. MaxEventsPerTarget PROVE CountLog[n] = n * Log2[n]
    OBVIOUS
  <2>1. CASE n = 1
    BY <1>2, <1>3, <2>1 DEF CountLog
  <2>2. CASE n # 1
    BY <1>2, <1>3, <2>2 DEF CountLog
  <2> QED
    BY <2>1, <2>2
<1> QED
  BY <1>1, <1>3, <1>4 DEF CountLog

LEMMA EventTimes ==
  /\ \A x \in Event : x.ts \in Int /\ x.ts \in Time /\ x.ts # None /\ x.uid \in Uid
  /\ \A x \in SeenUid : x.ts \in Int
BY TimeAssumption DEF Event, SeenUid

-----------------------------------------------------------------------------
(* The window.                                                              *)

\* Every event in the deque has its UID in the table, which holds only because
\* Window <= DedupTtl and because a UID enters the table with its event's time.
WindowInv ==
  /\ watermark \in Time \cup {None}
  /\ watermark = None => observations = <<>> /\ seen = <<>>
  /\ watermark # None =>
       UidWindow(Event, SeenUid, Window, watermark, observations, seen)

LEMMA ExpiryKeepsWindow ==
  ASSUME WindowInv, NEW e \in Event, ~Regresses(e)
  PROVE  UidWindow(Event, SeenUid, Window, e.ts, LiveObservations(e.ts), LiveUids(e.ts))
<1>1. e.ts \in Int
  BY EventTimes
<1>2. CASE watermark = None
  <2>1. observations = <<>> /\ seen = <<>>
    BY <1>2 DEF WindowInv
  <2>2. UidWindow(Event, SeenUid, Window, e.ts, observations, seen)
    BY <2>1, EmptyUidWindow
  <2>3. e.ts <= e.ts
    BY <1>1
  <2> QED
    BY <1>1, <2>2, <2>3, EventTimes, ConstantTypes, UidWindowExpiry
       DEF LiveObservations, LiveUids
<1>3. CASE watermark # None
  <2>1. watermark \in Int /\ watermark <= e.ts
    BY <1>1, <1>3, TimeAssumption DEF WindowInv, Regresses
  <2>2. UidWindow(Event, SeenUid, Window, watermark, observations, seen)
    BY <1>3 DEF WindowInv
  <2> QED
    BY <1>1, <2>1, <2>2, EventTimes, ConstantTypes, UidWindowExpiry
       DEF LiveObservations, LiveUids
<1> QED
  BY <1>2, <1>3

LEMMA AdmissionKeepsWindow ==
  ASSUME WindowInv, NEW e \in Event, Admitted(e)
  PROVE  UidWindow(Event, SeenUid, Window, e.ts, Append(LiveObservations(e.ts), e),
                   Append(LiveUids(e.ts), SeenEntry(e)))
<1>1. Entry(e.uid, e.ts) \in SeenUid
  BY EventTimes DEF SeenUid, Entry
<1>2. /\ UidWindow(Event, SeenUid, Window, e.ts, LiveObservations(e.ts), LiveUids(e.ts))
      /\ e.uid \notin KeysOf(LiveUids(e.ts))
  BY ExpiryKeepsWindow DEF Admitted
<1> QED
  BY <1>1, <1>2, EventTimes, ConstantTypes, UidWindowInsert DEF SeenEntry

\* The rollback restores what the expiry left.
LEMMA RollBackRestores ==
  ASSUME WindowInv, NEW e \in Event, RollBack(e)
  PROVE  observations' = LiveObservations(e.ts) /\ seen' = LiveUids(e.ts)
<1>1. LiveObservations(e.ts) \in Seq(Event) /\ LiveUids(e.ts) \in Seq(SeenUid)
  BY ExpiryKeepsWindow DEF RollBack, Admitted, UidWindow
<1>2. Entry(e.uid, e.ts) \in SeenUid
  BY EventTimes DEF SeenUid, Entry
<1> QED
  BY <1>1, <1>2, FrontOfAppend DEF RollBack, SeenEntry

LEMMA WindowStep ==
  ASSUME WindowInv, [Next]_vars
  PROVE  WindowInv'
<1>1. ASSUME NEW e \in Event, RejectRegression(e) PROVE WindowInv'
  BY <1>1 DEF RejectRegression, window, WindowInv
<1>2. ASSUME NEW e \in Event, IgnoreDuplicate(e) \/ RejectAtLimit(e) PROVE WindowInv'
  <2>1. ~Regresses(e) /\ ExpireWindow(e.ts)
    BY <1>2 DEF IgnoreDuplicate, RejectAtLimit
  <2> QED
    BY <2>1, EventTimes, ExpiryKeepsWindow DEF ExpireWindow, WindowInv
<1>3. ASSUME NEW e \in Event, RecordQuietly(e) \/ RaiseAlert(e) PROVE WindowInv'
  <2>1. Admitted(e) /\ Insert(e)
    BY <1>3 DEF RecordQuietly, RaiseAlert
  <2> QED
    BY <2>1, EventTimes, AdmissionKeepsWindow DEF Insert, WindowInv
<1>4. ASSUME NEW e \in Event, RollBack(e) PROVE WindowInv'
  <2>1. /\ UidWindow(Event, SeenUid, Window, e.ts, LiveObservations(e.ts), LiveUids(e.ts))
        /\ watermark' = e.ts
    BY <1>4, ExpiryKeepsWindow DEF RollBack, Admitted
  <2> QED
    BY <1>4, <2>1, EventTimes, RollBackRestores DEF WindowInv
<1>5. CASE UNCHANGED vars
  BY <1>5 DEF vars, window, WindowInv
<1> QED
  BY <1>1, <1>2, <1>3, <1>4, <1>5 DEF Next, Process

LEMMA WindowInvariance == Spec => []WindowInv
<1>1. Init => WindowInv
  BY DEF Init, WindowInv
<1>2. WindowInv /\ [Next]_vars => WindowInv'
  BY WindowStep
<1> QED
  BY <1>1, <1>2, PTL DEF Spec

\* The invariant at the state's own types, whatever the watermark.
LEMMA WindowFacts ==
  ASSUME WindowInv
  PROVE  observations \in Seq(Event) /\ DistinctUids(observations)
<1>1. CASE watermark = None
  <2>1. observations = <<>> /\ Len(<<>>) = 0 /\ 1 .. 0 = {}
    BY <1>1, EmptySeq DEF WindowInv
  <2> QED
    BY <2>1, EmptySeq DEF DistinctUids
<1>2. CASE watermark # None
  BY <1>2 DEF WindowInv, UidWindow
<1> QED
  BY <1>1, <1>2

\* SynFloodWindow counts a flow at most once in a window, for every window and
\* every TTL that SynFloodDetector.__init__ accepts.
THEOREM FlowsCountedOnce == Spec => []NoDoubleCount
<1>1. WindowInv => NoDoubleCount
  BY WindowFacts, LenProperties DEF NoDoubleCount, DistinctUids
<1> QED
  BY <1>1, WindowInvariance, PTL

-----------------------------------------------------------------------------
(* The sum over the sources of a target.  LogSum takes them in an order that *)
(* CHOOSE fixes; that the order does not matter, so that one source can be   *)
(* split off wherever it stands, is by induction on the number of sources.   *)

\* Counts that a counter of sources can hold.
Counted(c) ==
  /\ c = [s \in DOMAIN c |-> c[s]] /\ IsFiniteSet(DOMAIN c)
  /\ \A s \in DOMAIN c : c[s] \in 0 .. MaxEventsPerTarget

Weight(c, s) == CountLog[c[s]]

\* f sums the weights of the sets of sources in D.
SumsOver(f, c, D) ==
  /\ f = [S \in D |-> f[S]]
  /\ \A S \in D :
       f[S] = IF S = {} THEN 0
              ELSE Weight(c, CHOOSE x \in S : TRUE) + f[S \ {CHOOSE x \in S : TRUE}]

UpTo(c, k) == {S \in SUBSET DOMAIN c : Cardinality(S) <= k}

LEMMA WeightTypes ==
  ASSUME NEW c, Counted(c)
  PROVE  \A s \in DOMAIN c : Weight(c, s) \in Nat
BY CountLogIs DEF Counted, Weight

\* What taking one source out of a set does to its size.
LEMMA OneLess ==
  ASSUME NEW c, Counted(c), NEW S \in SUBSET DOMAIN c
  PROVE  /\ IsFiniteSet(S) /\ Cardinality(S) \in Nat /\ Cardinality(S) <= Cardinality(DOMAIN c)
         /\ \A x \in S : /\ S \ {x} \in SUBSET DOMAIN c
                       /\ Cardinality(S \ {x}) = Cardinality(S) - 1
                       /\ Cardinality(S) # 0
<1>1. IsFiniteSet(S) /\ Cardinality(S) <= Cardinality(DOMAIN c)
  BY FS_Subset DEF Counted
<1>2. Cardinality(S) \in Nat
  BY <1>1, FS_CardinalityType
<1>3. ASSUME NEW x \in S
      PROVE  Cardinality(S \ {x}) = Cardinality(S) - 1 /\ Cardinality(S) # 0
  <2>1. Cardinality(S \ {x}) = Cardinality(S) - 1
    BY <1>1, FS_RemoveElement
  <2>2. Cardinality(S) # 0
    BY <1>1, FS_EmptySet
  <2> QED
    BY <2>1, <2>2
<1> QED
  BY <1>1, <1>2, <1>3

LEMMA SumExists ==
  ASSUME NEW c, Counted(c)
  PROVE  \E f : SumsOver(f, c, SUBSET DOMAIN c)
<1> DEFINE n == Cardinality(DOMAIN c)
           T == {k \in 0 .. n : \E f : SumsOver(f, c, UpTo(c, k))}
<1>1. n \in Nat
  BY FS_CardinalityType DEF Counted
<1>2. 0 \in T
  <2>1. \A S \in UpTo(c, 0) : S = {}
    <3> SUFFICES ASSUME NEW S \in UpTo(c, 0), NEW x \in S PROVE FALSE
      OBVIOUS
    <3>1. S \in SUBSET DOMAIN c /\ Cardinality(S) <= 0
      BY DEF UpTo
    <3>2. Cardinality(S) \in Nat /\ Cardinality(S) # 0
      BY <3>1, OneLess
    <3> QED
      BY <3>1, <3>2
  <2>2. SumsOver([S \in UpTo(c, 0) |-> 0], c, UpTo(c, 0))
    BY <2>1 DEF SumsOver
  <2> QED
    BY <1>1, <2>2
<1>3. ASSUME NEW k \in 0 .. n - 1, k \in T PROVE k + 1 \in T
  <2>1. PICK f : SumsOver(f, c, UpTo(c, k))
    BY <1>3
  <2> DEFINE g == [S \in UpTo(c, k + 1) |->
                     IF S = {} THEN 0
                     ELSE Weight(c, CHOOSE x \in S : TRUE) + f[S \ {CHOOSE x \in S : TRUE}]]
  <2>2. g = [S \in UpTo(c, k + 1) |-> g[S]]
    OBVIOUS
  <2>3. \A S \in UpTo(c, k) : S \in UpTo(c, k + 1) /\ g[S] = f[S]
    <3> SUFFICES ASSUME NEW S \in UpTo(c, k) PROVE S \in UpTo(c, k + 1) /\ g[S] = f[S]
      OBVIOUS
    <3>1. S \in UpTo(c, k + 1)
      <4>1. S \in SUBSET DOMAIN c /\ Cardinality(S) <= k
        BY DEF UpTo
      <4>2. Cardinality(S) \in Nat
        BY <4>1, OneLess
      <4>3. Cardinality(S) <= k + 1
        BY <4>1, <4>2
      <4> QED
        BY <4>1, <4>3 DEF UpTo
    <3>2. f[S] = IF S = {} THEN 0
                 ELSE Weight(c, CHOOSE x \in S : TRUE) + f[S \ {CHOOSE x \in S : TRUE}]
      BY <2>1 DEF SumsOver
    <3> QED
      BY <3>1, <3>2
  <2>4. \A S \in UpTo(c, k + 1) : \A x \in S : S \ {x} \in UpTo(c, k)
    <3> SUFFICES ASSUME NEW S \in UpTo(c, k + 1), NEW x \in S PROVE S \ {x} \in UpTo(c, k)
      OBVIOUS
    <3>1. S \in SUBSET DOMAIN c /\ Cardinality(S) <= k + 1
      BY DEF UpTo
    <3>2. /\ Cardinality(S) \in Nat /\ S \ {x} \in SUBSET DOMAIN c
          /\ Cardinality(S \ {x}) = Cardinality(S) - 1
      BY <3>1, OneLess
    <3>3. Cardinality(S \ {x}) <= k
      BY <3>1, <3>2
    <3> QED
      BY <3>2, <3>3 DEF UpTo
  <2>5. ASSUME NEW S \in UpTo(c, k + 1)
        PROVE  g[S] = IF S = {} THEN 0
                      ELSE Weight(c, CHOOSE x \in S : TRUE) + g[S \ {CHOOSE x \in S : TRUE}]
    <3>1. CASE S = {}
      BY <3>1
    <3>2. CASE S # {}
      <4> DEFINE x == CHOOSE x \in S : TRUE
      <4>1. x \in S
        BY <3>2
      <4>2. g[S \ {x}] = f[S \ {x}]
        BY <2>3, <2>4, <4>1
      <4>3. g[S] = Weight(c, x) + f[S \ {x}]
        BY <3>2
      <4> QED
        BY <3>2, <4>2, <4>3
    <3> QED
      BY <3>1, <3>2
  <2> HIDE DEF g
  <2>6. SumsOver(g, c, UpTo(c, k + 1))
    BY <2>2, <2>5 DEF SumsOver
  <2> QED
    BY <1>1, <2>6
<1> HIDE DEF T
<1>4. n \in T
  <2>1. 0 .. n \subseteq T
    BY <1>1, <1>2, <1>3, InductionUpTo
  <2> QED
    BY <1>1, <2>1
<1>5. UpTo(c, n) = SUBSET DOMAIN c
  BY OneLess DEF UpTo
<1> QED
  BY <1>4, <1>5 DEF T

\* The sum is a number, and any member can be split off.
LEMMA SumSplits ==
  ASSUME NEW c, Counted(c), NEW f, SumsOver(f, c, SUBSET DOMAIN c)
  PROVE  \A S \in SUBSET DOMAIN c :
           f[S] \in Nat /\ \A x \in S : f[S] = Weight(c, x) + f[S \ {x}]
<1> DEFINE n == Cardinality(DOMAIN c)
           Splits(S) == f[S] \in Nat /\ \A x \in S : f[S] = Weight(c, x) + f[S \ {x}]
           T == {k \in 0 .. n : \A S \in UpTo(c, k) : Splits(S)}
<1>1. n \in Nat
  BY FS_CardinalityType DEF Counted
<1>2. Splits({})
  <2>1. {} \in SUBSET DOMAIN c
    OBVIOUS
  <2>2. f[{}] = 0
    BY <2>1 DEF SumsOver
  <2> QED
    BY <2>2
<1>3. 0 \in T
  <2>1. \A S \in UpTo(c, 0) : S = {}
    <3> SUFFICES ASSUME NEW S \in UpTo(c, 0), NEW x \in S PROVE FALSE
      OBVIOUS
    <3>1. S \in SUBSET DOMAIN c /\ Cardinality(S) <= 0
      BY DEF UpTo
    <3>2. Cardinality(S) \in Nat /\ Cardinality(S) # 0
      BY <3>1, OneLess
    <3> QED
      BY <3>1, <3>2
  <2>2. \A S \in UpTo(c, 0) : Splits(S)
    <3> HIDE DEF Splits
    <3> QED
      BY <1>2, <2>1
  <2> HIDE DEF Splits
  <2> QED
    BY <1>1, <2>2
<1>4. ASSUME NEW k \in 0 .. n - 1, k \in T PROVE k + 1 \in T
  <2>1. ASSUME NEW S \in UpTo(c, k + 1), S # {} PROVE Splits(S)
    <3> DEFINE y == CHOOSE x \in S : TRUE
    <3>1. y \in S /\ S \in SUBSET DOMAIN c /\ Cardinality(S) <= k + 1
      BY <2>1 DEF UpTo
    <3>2. f[S] = Weight(c, y) + f[S \ {y}]
      BY <2>1, <3>1 DEF SumsOver
    <3>3. \A x \in S : Splits(S \ {x})
      <4> SUFFICES ASSUME NEW x \in S PROVE Splits(S \ {x})
        OBVIOUS
      <4>1. /\ Cardinality(S) \in Nat /\ S \ {x} \in SUBSET DOMAIN c
            /\ Cardinality(S \ {x}) = Cardinality(S) - 1
        BY <3>1, OneLess
      <4>2. Cardinality(S \ {x}) <= k
        BY <3>1, <4>1
      <4>3. S \ {x} \in UpTo(c, k)
        BY <4>1, <4>2 DEF UpTo
      <4> HIDE DEF Splits
      <4> QED
        BY <1>4, <4>3
    <3> HIDE DEF y
    <3>4. \A x \in S : Weight(c, x) \in Nat
      BY <3>1, WeightTypes
    <3>5. f[S] \in Nat
      <4>1. f[S \ {y}] \in Nat /\ Weight(c, y) \in Nat
        BY <3>1, <3>3, <3>4
      <4> QED
        BY <3>2, <4>1
    <3>6. ASSUME NEW x \in S, x # y PROVE f[S] = Weight(c, x) + f[S \ {x}]
      <4>1. (S \ {x}) \ {y} = (S \ {y}) \ {x} /\ y \in S \ {x} /\ x \in S \ {y}
        BY <3>1, <3>6
      <4>2. f[S \ {y}] = Weight(c, x) + f[(S \ {y}) \ {x}]
        BY <3>1, <3>3, <4>1
      <4>3. f[S \ {x}] = Weight(c, y) + f[(S \ {x}) \ {y}]
        BY <3>3, <4>1
      <4> DEFINE r == f[(S \ {y}) \ {x}]
      <4>4. r \in Nat
        <5>1. f[S \ {y}] \in Nat /\ f[S \ {x}] \in Nat
          BY <3>1, <3>3
        <5>2. (S \ {y}) \ {x} \in SUBSET DOMAIN c
          BY <3>1
        <5>3. Splits((S \ {y}) \ {x})
          <6>1. /\ Cardinality(S) \in Nat /\ S \ {y} \in SUBSET DOMAIN c
                /\ Cardinality(S \ {y}) = Cardinality(S) - 1
            BY <3>1, OneLess
          <6>2. Cardinality((S \ {y}) \ {x}) = Cardinality(S) - 1 - 1
            BY <4>1, <6>1, OneLess
          <6>3. Cardinality((S \ {y}) \ {x}) <= k
            BY <3>1, <6>1, <6>2
          <6>4. (S \ {y}) \ {x} \in UpTo(c, k)
            BY <5>2, <6>3 DEF UpTo
          <6> HIDE DEF Splits
          <6> QED
            BY <1>4, <6>4
        <5> QED
          BY <5>3
      <4>5. f[S \ {x}] = Weight(c, y) + r /\ f[S \ {y}] = Weight(c, x) + r
        BY <4>1, <4>2, <4>3
      <4>6. Weight(c, x) \in Nat /\ Weight(c, y) \in Nat
        BY <3>1, <3>4
      <4> HIDE DEF r
      <4> QED
        BY <3>2, <4>4, <4>5, <4>6
    <3> QED
      BY <3>2, <3>5, <3>6
  <2>2. \A S \in UpTo(c, k + 1) : Splits(S)
    <3> HIDE DEF Splits
    <3> QED
      BY <1>2, <2>1
  <2> HIDE DEF Splits
  <2> QED
    BY <1>1, <2>2
<1> HIDE DEF T
<1>5. n \in T
  <2>1. 0 .. n \subseteq T
    BY <1>1, <1>3, <1>4, InductionUpTo
  <2> QED
    BY <1>1, <2>1
<1>6. UpTo(c, n) = SUBSET DOMAIN c
  BY OneLess DEF UpTo
<1>7. \A S \in SUBSET DOMAIN c : Splits(S)
  <2> HIDE DEF Splits
  <2> QED
    BY <1>5, <1>6 DEF T
<1> QED
  BY <1>7

LEMMA LogSumIs ==
  ASSUME NEW c, Counted(c)
  PROVE  \E f : SumsOver(f, c, SUBSET DOMAIN c) /\ LogSum(c) = f[DOMAIN c]
<1> DEFINE Fun(f) == [S \in SUBSET DOMAIN c |->
                       IF S = {} THEN 0
                       ELSE Weight(c, CHOOSE x \in S : TRUE) + f[S \ {CHOOSE x \in S : TRUE}]]
           sum == CHOOSE f : f = Fun(f)
<1>1. LogSum(c) = sum[DOMAIN c]
  BY DEF LogSum, Weight
<1>2. \E f : f = Fun(f)
  <2>1. PICK f : SumsOver(f, c, SUBSET DOMAIN c)
    BY SumExists
  <2>2. f = Fun(f)
    BY <2>1 DEF SumsOver
  <2> QED
    BY <2>2
<1>3. sum = Fun(sum)
  <2> HIDE DEF Fun
  <2> QED
    BY <1>2
<1> HIDE DEF sum
<1>4. SumsOver(sum, c, SUBSET DOMAIN c)
  BY <1>3 DEF SumsOver
<1> QED
  BY <1>1, <1>4

\* d is a part of the counter c.
PartOf(d, c) == DOMAIN d \subseteq DOMAIN c /\ \A s \in DOMAIN d : d[s] = c[s]

Sums(f, c) == Counted(c) /\ SumsOver(f, c, SUBSET DOMAIN c)

\* The sum of the sources that two counters count alike is the same.
LEMMA SumsAgree ==
  ASSUME NEW c, NEW f, Sums(f, c), NEW d, NEW g, Sums(g, d), PartOf(d, c)
  PROVE  f[DOMAIN d] = g[DOMAIN d]
<1> SUFFICES ASSUME Counted(c), SumsOver(f, c, SUBSET DOMAIN c),
                    Counted(d), SumsOver(g, d, SUBSET DOMAIN d)
             PROVE  f[DOMAIN d] = g[DOMAIN d]
  BY DEF Sums
<1> DEFINE n == Cardinality(DOMAIN d)
           T == {k \in 0 .. n : \A S \in UpTo(d, k) : f[S] = g[S]}
<1>1. n \in Nat
  BY FS_CardinalityType DEF Counted
<1>2. {} \in SUBSET DOMAIN c /\ {} \in SUBSET DOMAIN d
  OBVIOUS
<1>3. f[{}] = g[{}]
  BY <1>2 DEF SumsOver
<1>4. 0 \in T
  <2>1. \A S \in UpTo(d, 0) : S = {}
    <3> SUFFICES ASSUME NEW S \in UpTo(d, 0), NEW x \in S PROVE FALSE
      OBVIOUS
    <3>1. S \in SUBSET DOMAIN d /\ Cardinality(S) <= 0
      BY DEF UpTo
    <3>2. Cardinality(S) \in Nat /\ Cardinality(S) # 0
      BY <3>1, OneLess
    <3> QED
      BY <3>1, <3>2
  <2>2. \A S \in UpTo(d, 0) : f[S] = g[S]
    BY <1>3, <2>1
  <2> QED
    BY <1>1, <2>2
<1>5. ASSUME NEW k \in 0 .. n - 1, k \in T PROVE k + 1 \in T
  <2>1. ASSUME NEW S \in UpTo(d, k + 1), S # {} PROVE f[S] = g[S]
    <3>1. PICK x \in S : TRUE
      BY <2>1
    <3>2. S \in SUBSET DOMAIN d /\ S \in SUBSET DOMAIN c /\ Cardinality(S) <= k + 1
      BY DEF UpTo, PartOf
    <3>3. f[S] = Weight(c, x) + f[S \ {x}] /\ g[S] = Weight(d, x) + g[S \ {x}]
      BY <3>2, SumSplits
    <3>4. Weight(c, x) = Weight(d, x)
      BY <3>2 DEF Weight, PartOf
    <3>5. f[S \ {x}] = g[S \ {x}]
      <4>1. /\ Cardinality(S) \in Nat /\ S \ {x} \in SUBSET DOMAIN d
            /\ Cardinality(S \ {x}) = Cardinality(S) - 1
        BY <3>2, OneLess
      <4>2. Cardinality(S \ {x}) <= k
        BY <3>2, <4>1
      <4>3. S \ {x} \in UpTo(d, k)
        BY <4>1, <4>2 DEF UpTo
      <4> QED
        BY <1>5, <4>3
    <3> QED
      BY <3>3, <3>4, <3>5
  <2>2. \A S \in UpTo(d, k + 1) : f[S] = g[S]
    BY <1>3, <2>1
  <2> QED
    BY <1>1, <2>2
<1> HIDE DEF T
<1>6. n \in T
  <2>1. 0 .. n \subseteq T
    BY <1>1, <1>4, <1>5, InductionUpTo
  <2> QED
    BY <1>1, <2>1
<1>7. DOMAIN d \in UpTo(d, n)
  BY <1>1 DEF UpTo
<1> QED
  BY <1>6, <1>7 DEF T

Without(c, x) == [s \in DOMAIN c \ {x} |-> c[s]]

LEMMA WithoutCounted ==
  ASSUME NEW c, Counted(c), NEW x
  PROVE  Counted(Without(c, x))
<1>1. IsFiniteSet(DOMAIN c \ {x})
  BY FS_Subset DEF Counted
<1> QED
  BY <1>1 DEF Counted, Without

\* One source can be split off the sum of a counter; one that is not counted
\* weighs nothing.
LEMMA LogSumSplits ==
  ASSUME NEW c, Counted(c), NEW x
  PROVE  /\ LogSum(c) = CountLog[CountOf(x, c)] + LogSum(Without(c, x))
         /\ CountLog[CountOf(x, c)] \in Nat /\ LogSum(Without(c, x)) \in Nat
<1> DEFINE d == Without(c, x)
<1>1. Counted(d)
  BY WithoutCounted
<1>2. DOMAIN d = DOMAIN c \ {x} /\ \A s \in DOMAIN d : d[s] = c[s]
  BY DEF Without
<1> HIDE DEF d
<1>3. PICK f : SumsOver(f, c, SUBSET DOMAIN c) /\ LogSum(c) = f[DOMAIN c]
  BY LogSumIs
<1>4. PICK g : SumsOver(g, d, SUBSET DOMAIN d) /\ LogSum(d) = g[DOMAIN d]
  BY <1>1, LogSumIs
<1>5. f[DOMAIN d] = g[DOMAIN d] /\ g[DOMAIN d] \in Nat
  <2>1. DOMAIN d \subseteq DOMAIN c
    BY <1>2
  <2>2. f[DOMAIN d] = g[DOMAIN d]
    <3>1. Sums(f, c) /\ Sums(g, d)
      BY <1>1, <1>3, <1>4 DEF Sums
    <3>2. PartOf(d, c)
      BY <1>2, <2>1 DEF PartOf
    <3> QED
      BY <3>1, <3>2, SumsAgree
  <2>3. g[DOMAIN d] \in Nat
    BY <1>1, <1>4, SumSplits
  <2> QED
    BY <2>2, <2>3
<1>6. LogSum(c) = CountLog[CountOf(x, c)] + LogSum(d) /\ CountLog[CountOf(x, c)] \in Nat
  <2>1. CASE x \in DOMAIN c
    <3>1. f[DOMAIN c] = Weight(c, x) + f[DOMAIN c \ {x}]
      BY <1>3, <2>1, SumSplits
    <3>2. Weight(c, x) = CountLog[CountOf(x, c)] /\ Weight(c, x) \in Nat
      BY <2>1, WeightTypes DEF Weight, CountOf
    <3> QED
      BY <1>2, <1>3, <1>4, <1>5, <3>1, <3>2
  <2>2. CASE x \notin DOMAIN c
    <3>1. CountLog[CountOf(x, c)] = 0
      BY <2>2, CountLogIs DEF CountOf
    <3>2. DOMAIN d = DOMAIN c
      BY <1>2, <2>2
    <3> QED
      BY <1>3, <1>4, <1>5, <3>1, <3>2
  <2> QED
    BY <2>1, <2>2
<1> QED
  BY <1>4, <1>5, <1>6 DEF d

LEMMA LogSumOfNone == LogSum(EmptyBag) = 0
<1>1. DOMAIN EmptyBag = {} /\ EmptyBag = [s \in {} |-> EmptyBag[s]]
  BY DEF EmptyBag, SetToBag
<1>2. Counted(EmptyBag)
  BY <1>1, FS_EmptySet DEF Counted
<1>3. PICK f : SumsOver(f, EmptyBag, SUBSET DOMAIN EmptyBag)
               /\ LogSum(EmptyBag) = f[DOMAIN EmptyBag]
  BY <1>2, LogSumIs
<1> QED
  BY <1>1, <1>3 DEF SumsOver

\* The correction of _increment_source and of _decrement_source is exact.
LEMMA LogSumMoves ==
  ASSUME NEW c, Counted(c), NEW d, Counted(d), NEW x, Without(c, x) = Without(d, x)
  PROVE  LogSum(d) = LogSum(c) - CountLog[CountOf(x, c)] + CountLog[CountOf(x, d)]
<1> DEFINE r == LogSum(Without(c, x))
<1>1. /\ LogSum(c) = CountLog[CountOf(x, c)] + r /\ CountLog[CountOf(x, c)] \in Nat
      /\ LogSum(d) = CountLog[CountOf(x, d)] + r /\ CountLog[CountOf(x, d)] \in Nat
      /\ r \in Nat
  BY LogSumSplits
<1> HIDE DEF r
<1> QED
  BY <1>1

-----------------------------------------------------------------------------
(* The per-target states.  Match is inductive with their types and with the   *)
(* bound on a target's deque, one event at a time.                            *)

Small(own) == own \in Seq(Event) /\ Len(own) <= MaxEventsPerTarget

TargetsTyped(ts) ==
  /\ ts = [t \in DOMAIN ts |-> ts[t]]
  /\ \A t \in DOMAIN ts : Small(ts[t].observations)
TargetsInv(ts, q) == TargetsTyped(ts) /\ Match(ts, q)

SourcesOf(own) == Tally(own, SourceField)

LEMMA StateOfIs ==
  ASSUME NEW own
  PROVE  StateOf(own) = [observations |-> own, sources |-> SourcesOf(own),
                         logSum |-> LogSum(SourcesOf(own))]
BY DEF StateOf, SourcesOf

LEMMA TallyCounted ==
  ASSUME NEW own, Small(own)
  PROVE  Counted(SourcesOf(own)) /\ \A v \in DOMAIN SourcesOf(own) : SourcesOf(own)[v] # 0
<1> DEFINE B == SourcesOf(own)
<1>1. own \in Seq(Event) /\ Len(own) \in Nat /\ Len(own) <= MaxEventsPerTarget
  BY LenProperties DEF Small
<1>2. /\ B = [v \in DOMAIN B |-> Cardinality(PositionsOf(own, SourceField, v))]
      /\ \A v : v \in DOMAIN B <=> PositionsOf(own, SourceField, v) # {}
  BY <1>1, TallyIs DEF SourcesOf
<1>3. IsFiniteSet(DOMAIN B)
  BY <1>1, TallySize DEF SourcesOf
<1> HIDE DEF B
<1>4. ASSUME NEW v \in DOMAIN B PROVE B[v] \in 0 .. MaxEventsPerTarget /\ B[v] # 0
  <2>1. B[v] = Cardinality(PositionsOf(own, SourceField, v))
        /\ PositionsOf(own, SourceField, v) # {}
    BY <1>2
  <2>2. B[v] \in Nat /\ B[v] <= Len(own) /\ B[v] # 0
    BY <1>1, <2>1, PositionsFinite
  <2> QED
    BY <1>1, <2>2, ConstantTypes
<1>5. B = [v \in DOMAIN B |-> B[v]]
  BY <1>2
<1> QED
  BY <1>3, <1>4, <1>5 DEF Counted, B

LEMMA StateOfNothing == NoObservations = StateOf(<<>>)
<1>1. SourcesOf(<<>>) = EmptyBag
  <2>1. Len(<<>>) = 0 /\ 1 .. 0 = {}
    BY EmptySeq
  <2> QED
    BY <2>1 DEF SourcesOf, Tally, EmptyBag, SetToBag
<1> QED
  BY <1>1, StateOfIs, LogSumOfNone DEF NoObservations

\* A counter that is not empty, before and after one more or one less of x.
LEMMA AddMoves ==
  ASSUME NEW c, Counted(c), NEW x
  PROVE  /\ Without(Bag!BagAdd(c, x), x) = Without(c, x)
         /\ CountOf(x, Bag!BagAdd(c, x)) = CountOf(x, c) + 1
         /\ CountOf(x, c) \in Nat
<1>1. /\ DOMAIN Bag!BagAdd(c, x) = DOMAIN c \cup {x}
      /\ \A s \in DOMAIN c : s # x => Bag!BagAdd(c, x)[s] = c[s]
      /\ Bag!BagAdd(c, x)[x] = CountOf(x, c) + 1
  BY DEF Bag!BagAdd, CountOf
<1>2. CountOf(x, c) \in Nat
  BY DEF Counted, CountOf
<1> QED
  BY <1>1, <1>2 DEF Without, CountOf

LEMMA RemoveMoves ==
  ASSUME NEW c, Counted(c), NEW x \in DOMAIN c, c[x] # 0
  PROVE  /\ Without(Bag!BagRemove(c, x), x) = Without(c, x)
         /\ CountOf(x, Bag!BagRemove(c, x)) = CountOf(x, c) - 1
<1> DEFINE d == Bag!BagRemove(c, x)
<1>1. c[x] \in Nat /\ CountOf(x, c) = c[x]
  BY DEF Counted, CountOf
<1>2. CASE c[x] = 1
  <2>1. d = [s \in DOMAIN c \ {x} |-> c[s]]
    BY <1>2 DEF Bag!BagRemove
  <2> HIDE DEF d
  <2> QED
    BY <1>1, <1>2, <2>1 DEF Without, CountOf, d
<1>3. CASE c[x] # 1
  <2>1. d = [s \in DOMAIN c |-> IF s = x THEN c[s] - 1 ELSE c[s]]
    BY <1>3 DEF Bag!BagRemove
  <2> HIDE DEF d
  <2> QED
    BY <1>1, <1>3, <2>1 DEF Without, CountOf, d
<1> QED
  BY <1>2, <1>3

LEMMA StateOfAppend ==
  ASSUME NEW own \in Seq(Event), NEW o \in Event, Len(own) < MaxEventsPerTarget
  PROVE  /\ Increment(StateOf(own), o.src, Append(own, o)) = StateOf(Append(own, o))
         /\ Small(own) /\ Small(Append(own, o))
<1> DEFINE c == SourcesOf(own)
           d == SourcesOf(Append(own, o))
<1>1. Small(own) /\ Small(Append(own, o))
  <2>1. /\ Append(own, o) \in Seq(Event) /\ Len(Append(own, o)) = Len(own) + 1
        /\ Len(own) \in Nat
    BY AppendProperties, LenProperties
  <2> QED
    BY <2>1, ConstantTypes DEF Small
<1>2. SourceField[o] = o.src
  BY DEF SourceField
<1>3. d = Bag!BagAdd(c, o.src)
  BY <1>2, TallyOfAppend DEF SourcesOf
<1>4. Counted(c) /\ Counted(d)
  BY <1>1, TallyCounted
<1>5. StateOf(own).sources = c /\ StateOf(own).logSum = LogSum(c)
  BY StateOfIs
<1>6. StateOf(Append(own, o))
        = [observations |-> Append(own, o), sources |-> d, logSum |-> LogSum(d)]
  BY StateOfIs
<1> HIDE DEF c, d
<1>7. /\ Without(d, o.src) = Without(c, o.src)
      /\ CountOf(o.src, d) = CountOf(o.src, c) + 1 /\ CountOf(o.src, c) \in Nat
  BY <1>3, <1>4, AddMoves
<1>8. LogSum(d) = LogSum(c) - CountLog[CountOf(o.src, c)] + CountLog[CountOf(o.src, d)]
  BY <1>4, <1>7, LogSumMoves
<1>9. (CountOf(o.src, c) + 1) - 1 = CountOf(o.src, c)
  BY <1>7
<1>10. Increment(StateOf(own), o.src, Append(own, o))
         = [observations |-> Append(own, o), sources |-> d, logSum |-> LogSum(d)]
  <2> DEFINE st == StateOf(own)
             n  == CountOf(o.src, c)
  <2>1. Increment(st, o.src, Append(own, o))
          = [observations |-> Append(own, o),
             sources      |-> Bag!BagAdd(st.sources, o.src),
             logSum       |-> st.logSum - CountLog[(CountOf(o.src, st.sources) + 1) - 1]
                                + CountLog[CountOf(o.src, st.sources) + 1]]
    BY DEF Increment
  <2>2. CountLog[(n + 1) - 1] = CountLog[n] /\ CountLog[n + 1] = CountLog[CountOf(o.src, d)]
    BY <1>7, <1>9
  <2> HIDE DEF st, n
  <2>3. st.sources = c /\ st.logSum = LogSum(c)
    BY <1>5 DEF st
  <2>4. Increment(st, o.src, Append(own, o))
          = [observations |-> Append(own, o), sources |-> Bag!BagAdd(c, o.src),
             logSum |-> LogSum(c) - CountLog[(n + 1) - 1] + CountLog[n + 1]]
    BY <2>1, <2>3 DEF n
  <2> QED
    BY <1>3, <1>8, <2>2, <2>4 DEF st, n
<1> QED
  BY <1>1, <1>6, <1>10

\* One less of a source that is counted, of which nothing may be left.
LEMMA DecrementExact ==
  ASSUME NEW st, NEW c, Counted(c), st.sources = c, st.logSum = LogSum(c),
         NEW x \in DOMAIN c, c[x] # 0, NEW rest, Counted(Bag!BagRemove(c, x))
  PROVE  Decrement(st, x, rest)
           = [observations |-> rest, sources |-> Bag!BagRemove(c, x),
              logSum |-> LogSum(Bag!BagRemove(c, x))]
<1> DEFINE d == Bag!BagRemove(c, x)
<1>1. /\ Without(d, x) = Without(c, x) /\ CountOf(x, d) = CountOf(x, c) - 1
  BY RemoveMoves
<1>2. LogSum(d) = LogSum(c) - CountLog[CountOf(x, c)] + CountLog[CountOf(x, c) - 1]
  BY <1>1, LogSumMoves
<1>3. Decrement(st, x, rest)
        = [observations |-> rest, sources |-> d,
           logSum |-> IF d = EmptyBag THEN 0
                      ELSE LogSum(c) - CountLog[CountOf(x, c)] + CountLog[CountOf(x, c) - 1]]
  BY DEF Decrement
<1> HIDE DEF d
<1>4. d = EmptyBag => LogSum(d) = 0
  BY LogSumOfNone
<1>5. (IF d = EmptyBag THEN 0
       ELSE LogSum(c) - CountLog[CountOf(x, c)] + CountLog[CountOf(x, c) - 1]) = LogSum(d)
  BY <1>2, <1>4
<1> QED
  BY <1>3, <1>5 DEF d

LEMMA StateOfTail ==
  ASSUME NEW own, Small(own), own # <<>>
  PROVE  /\ Decrement(StateOf(own), own[1].src, Tail(own)) = StateOf(Tail(own))
         /\ Small(Tail(own))
<1> DEFINE c == SourcesOf(own)
           d == SourcesOf(Tail(own))
           x == own[1].src
<1>1. own \in Seq(Event) /\ Len(own) <= MaxEventsPerTarget
  BY DEF Small
<1>2. Len(own) \in Nat /\ Len(own) # 0 /\ 1 \in 1 .. Len(own) /\ own[1] \in Event
  BY <1>1, LenProperties, EmptySeq, ElementOfSeq
<1>3. Small(Tail(own))
  <2>1. Tail(own) \in Seq(Event) /\ Len(Tail(own)) = Len(own) - 1
    BY <1>1, HeadTailProperties
  <2> QED
    BY <1>1, <1>2, <2>1, ConstantTypes DEF Small
<1>4. SourceField[own[1]] = x
  BY <1>2 DEF SourceField
<1>5. d = Bag!BagRemove(c, x) /\ x \in DOMAIN c
  <2>1. d = Bag!BagRemove(c, x)
    BY <1>1, <1>4, TallyOfTail DEF SourcesOf
  <2>2. x \in DOMAIN c
    BY <1>1, <1>2, <1>4, TallyIs DEF SourcesOf
  <2> QED
    BY <2>1, <2>2
<1>6. Counted(c) /\ c[x] # 0 /\ Counted(d)
  BY <1>3, <1>5, TallyCounted
<1>7. StateOf(own).sources = c /\ StateOf(own).logSum = LogSum(c)
  BY StateOfIs
<1>8. StateOf(Tail(own)) = [observations |-> Tail(own), sources |-> d, logSum |-> LogSum(d)]
  BY StateOfIs
<1> HIDE DEF c, d, x
<1>9. Decrement(StateOf(own), x, Tail(own))
        = [observations |-> Tail(own), sources |-> d, logSum |-> LogSum(d)]
  <2>1. Counted(Bag!BagRemove(c, x))
    BY <1>5, <1>6
  <2> DEFINE rest == Tail(own)
             st   == StateOf(own)
  <2> HIDE DEF rest, st
  <2>2. x \in DOMAIN c /\ c[x] # 0 /\ Counted(c) /\ st.sources = c /\ st.logSum = LogSum(c)
    BY <1>5, <1>6, <1>7 DEF st
  <2>3. Decrement(st, x, rest)
          = [observations |-> rest, sources |-> Bag!BagRemove(c, x),
             logSum |-> LogSum(Bag!BagRemove(c, x))]
    BY <2>1, <2>2, DecrementExact
  <2> QED
    BY <1>5, <2>3 DEF rest, st
<1> QED
  BY <1>3, <1>8, <1>9 DEF x

\* Taking the newest event back restores the counter and the sum.
LEMMA StateUndone ==
  ASSUME NEW own \in Seq(Event), NEW o \in Event, Len(own) < MaxEventsPerTarget
  PROVE  Decrement(StateOf(Append(own, o)), o.src, own) = StateOf(own)
<1> DEFINE c == SourcesOf(own)
           d == SourcesOf(Append(own, o))
<1>1. Small(own) /\ Small(Append(own, o))
  BY StateOfAppend
<1>2. SourceField[o] = o.src
  BY DEF SourceField
<1>3. d = Bag!BagAdd(c, o.src) /\ Bag!BagRemove(d, o.src) = c
  BY <1>2, TallyOfAppend, TallyUndo DEF SourcesOf
<1>4. o.src \in DOMAIN d
  BY <1>3 DEF Bag!BagAdd
<1>5. Counted(c) /\ Counted(d) /\ d[o.src] # 0
  BY <1>1, <1>4, TallyCounted
<1>6. StateOf(Append(own, o)).sources = d /\ StateOf(Append(own, o)).logSum = LogSum(d)
  BY StateOfIs
<1>7. StateOf(own) = [observations |-> own, sources |-> c, logSum |-> LogSum(c)]
  BY StateOfIs
<1> HIDE DEF c, d
<1>8. Decrement(StateOf(Append(own, o)), o.src, own)
        = [observations |-> own, sources |-> c, logSum |-> LogSum(c)]
  BY <1>3, <1>4, <1>5, <1>6, DecrementExact
<1> QED
  BY <1>7, <1>8

LEMMA OwnOfTarget ==
  ASSUME NEW ts, NEW q \in Seq(Event), TargetsInv(ts, q), NEW t
  PROVE  LET own == IF t \in DOMAIN ts THEN ts[t].observations ELSE <<>>
         IN  /\ Small(own) /\ own \in Seq(Event)
             /\ Lists(own, q, {i \in 1 .. Len(q) : TargetOf(q[i]) = t})
             /\ (IF t \in DOMAIN ts THEN ts[t] ELSE NoObservations) = StateOf(own)
<1>1. CASE t \in DOMAIN ts
  BY <1>1 DEF TargetsInv, TargetsTyped, Match, Small
<1>2. CASE t \notin DOMAIN ts
  <2>1. {i \in 1 .. Len(q) : TargetOf(q[i]) = t} = {}
    BY <1>2 DEF TargetsInv, Match
  <2>2. <<>> \in Seq(Event) /\ Small(<<>>) /\ Lists(<<>>, q, {})
    BY EmptySeq, ListsOfNone, ConstantTypes DEF Small
  <2> QED
    BY <1>2, <2>1, <2>2, StateOfNothing
<1> QED
  BY <1>1, <1>2

\* What the check of max_events_per_target leaves.
HasRoom(ts, k) == k \in DOMAIN ts => Len(ts[k].observations) < MaxEventsPerTarget

LEMMA RoomForOne ==
  ASSUME NEW ts, NEW k, HasRoom(ts, k)
  PROVE  Len(IF k \in DOMAIN ts THEN ts[k].observations ELSE <<>>) < MaxEventsPerTarget
BY EmptySeq, ConstantTypes DEF HasRoom

\* The state that observe gives the target of its event.
LEMMA RecordedState ==
  ASSUME NEW ts, NEW q \in Seq(Event), TargetsInv(ts, q), NEW e \in Event,
         HasRoom(ts, TargetOf(e))
  PROVE  LET k   == TargetOf(e)
             own == IF k \in DOMAIN ts THEN ts[k].observations ELSE <<>>
         IN  /\ Record(ts, e)[k] = StateOf(Append(own, e))
             /\ Record(ts, e)[k].observations = Append(own, e)
             /\ Small(Append(own, e)) /\ Len(own) < MaxEventsPerTarget
<1> DEFINE k   == TargetOf(e)
           own == IF k \in DOMAIN ts THEN ts[k].observations ELSE <<>>
           st  == IF k \in DOMAIN ts THEN ts[k] ELSE NoObservations
<1>1. own \in Seq(Event) /\ st = StateOf(own)
  BY OwnOfTarget
<1>2. Len(own) < MaxEventsPerTarget
  BY RoomForOne
<1>3. Record(ts, e)[k] = Increment(st, e.src, Append(st.observations, e))
  BY DEF Record
<1> HIDE DEF own, st
<1>4. st.observations = own
  BY <1>1, StateOfIs
<1>5. /\ Increment(StateOf(own), e.src, Append(own, e)) = StateOf(Append(own, e))
      /\ Small(Append(own, e))
  BY <1>1, <1>2, StateOfAppend
<1>6. Record(ts, e)[k] = StateOf(Append(own, e))
  BY <1>1, <1>3, <1>4, <1>5
<1>7. StateOf(Append(own, e)).observations = Append(own, e)
  BY StateOfIs
<1> QED
  BY <1>2, <1>5, <1>6, <1>7 DEF own

\* The tail of observe.
LEMMA RecordMatches ==
  ASSUME NEW ts, NEW q \in Seq(Event), TargetsInv(ts, q), NEW e \in Event,
         HasRoom(ts, TargetOf(e))
  PROVE  TargetsInv(Record(ts, e), Append(q, e))
<1> DEFINE k   == TargetOf(e)
           own == IF k \in DOMAIN ts THEN ts[k].observations ELSE <<>>
           ts2 == Record(ts, e)
           q2  == Append(q, e)
           Mine(t)  == {i \in 1 .. Len(q) : TargetOf(q[i]) = t}
           Mine2(t) == {i \in 1 .. Len(q2) : TargetOf(q2[i]) = t}
<1>1. /\ own \in Seq(Event) /\ Lists(own, q, Mine(k))
      /\ (IF k \in DOMAIN ts THEN ts[k] ELSE NoObservations) = StateOf(own)
  BY OwnOfTarget
<1>2. /\ DOMAIN ts2 = DOMAIN ts \cup {k}
      /\ ts2 = [t \in DOMAIN ts2 |-> ts2[t]]
      /\ \A t \in DOMAIN ts : t # k => ts2[t] = ts[t]
  BY DEF Record
<1>3. ts2[k] = StateOf(Append(own, e)) /\ Small(Append(own, e))
  BY RecordedState
<1>4. ts2[k].observations = Append(own, e)
  BY RecordedState
<1>5. /\ q2 \in Seq(Event) /\ Len(q) \in Nat /\ Len(q2) = Len(q) + 1 /\ q2[Len(q) + 1] = e
      /\ \A i \in 1 .. Len(q) : q2[i] = q[i]
  BY AppendProperties, LenProperties
<1> HIDE DEF own, ts2, q2, k
<1>7. /\ \A i \in 1 .. Len(q2) : i \in 1 .. Len(q) \/ i = Len(q) + 1
      /\ \A i \in 1 .. Len(q) : i \in 1 .. Len(q2)
      /\ Len(q) + 1 \in 1 .. Len(q2)
  BY <1>5
<1>8. DOMAIN ts2 = {TargetOf(q2[i]) : i \in 1 .. Len(q2)}
  <2>1. DOMAIN ts = {TargetOf(q[i]) : i \in 1 .. Len(q)}
    BY DEF TargetsInv, Match
  <2> QED
    BY <1>2, <1>5, <1>7, <2>1 DEF k
<1>9. ASSUME NEW t \in DOMAIN ts2
      PROVE  /\ Small(ts2[t].observations)
             /\ Lists(ts2[t].observations, q2, Mine2(t))
             /\ ts2[t] = StateOf(ts2[t].observations)
  <2>1. CASE t = k
    <3>1. Mine2(t) = Mine(t) \cup {Len(q) + 1}
      BY <1>5, <1>7, <2>1 DEF k
    <3>2. Lists(Append(own, e), q2, Mine(t) \cup {Len(q) + 1})
      BY <1>1, <2>1, ListsOfOwnAppend DEF q2
    <3> QED
      BY <1>3, <1>4, <2>1, <3>1, <3>2
  <2>2. CASE t # k
    <3>1. t \in DOMAIN ts /\ ts2[t] = ts[t]
      BY <1>2, <2>2
    <3>2. Mine2(t) = Mine(t)
      BY <1>5, <1>7, <2>2 DEF k
    <3>3. /\ Small(ts[t].observations) /\ Lists(ts[t].observations, q, Mine(t))
          /\ ts[t] = StateOf(ts[t].observations)
      BY <3>1 DEF TargetsInv, TargetsTyped, Match
    <3>4. Lists(ts[t].observations, q2, Mine(t))
      BY <3>3, ListsOfAppend DEF q2, Small
    <3> QED
      BY <3>1, <3>2, <3>3, <3>4
  <2> QED
    BY <2>1, <2>2
<1>10. TargetsInv(ts2, q2)
  BY <1>2, <1>8, <1>9 DEF TargetsInv, TargetsTyped, Match
<1> QED
  BY <1>10 DEF ts2, q2

\* One turn of _expire_observations.
LEMMA ForgetMatches ==
  ASSUME NEW ts, NEW q \in Seq(Event), q # <<>>, TargetsInv(ts, q)
  PROVE  TargetsInv(ForgetOldest(ts, q[1]), Tail(q))
<1> DEFINE t0  == TargetOf(q[1])
           own == ts[t0].observations
           q2  == Tail(q)
           ts2 == ForgetOldest(ts, q[1])
           Mine(t)  == {i \in 1 .. Len(q) : TargetOf(q[i]) = t}
           Mine2(t) == {i \in 1 .. Len(q2) : TargetOf(q2[i]) = t}
<1>1. /\ q2 \in Seq(Event) /\ Len(q) \in Nat \ {0} /\ Len(q2) = Len(q) - 1
      /\ \A i \in 1 .. Len(q2) : q2[i] = q[i + 1]
  BY HeadTailProperties, LenProperties, EmptySeq
<1>2. /\ ts = [t \in DOMAIN ts |-> ts[t]]
      /\ DOMAIN ts = {TargetOf(q[i]) : i \in 1 .. Len(q)}
      /\ \A t \in DOMAIN ts : /\ Small(ts[t].observations)
                            /\ ts[t].observations \in Seq(Event)
                            /\ Lists(ts[t].observations, q, Mine(t))
                            /\ ts[t] = StateOf(ts[t].observations)
  BY DEF TargetsInv, TargetsTyped, Match, Small
<1>3. 1 \in 1 .. Len(q) /\ t0 \in DOMAIN ts /\ 1 \in Mine(t0)
  BY <1>1, <1>2
<1>4. \A t \in DOMAIN ts : t # t0 => 1 \notin Mine(t)
  OBVIOUS
<1>5. \A i \in 1 .. Len(q2) : i + 1 \in 1 .. Len(q)
  BY <1>1
<1>6. \A t : Mine2(t) = {p \in 1 .. Len(q2) : p + 1 \in Mine(t)}
  BY <1>1, <1>5
<1>7. /\ own \in Seq(Event) /\ own # <<>> /\ own[1] = q[1]
      /\ Lists(Tail(own), q2, Mine2(t0))
  <2>1. own \in Seq(Event) /\ Lists(own, q, Mine(t0)) /\ Mine(t0) \in SUBSET (1 .. Len(q))
    BY <1>2, <1>3
  <2>2. /\ own # <<>> /\ own[1] = q[1]
        /\ Lists(Tail(own), Tail(q), {p \in 1 .. Len(Tail(q)) : p + 1 \in Mine(t0)})
    <3> HIDE DEF own, t0, Mine
    <3> QED
      BY <1>3, <2>1, ListsOfOwnTail
  <2> QED
    BY <1>6, <2>1, <2>2
<1>8. ASSUME NEW t \in DOMAIN ts, t # t0
      PROVE  Lists(ts[t].observations, q2, Mine2(t)) /\ Mine2(t) # {}
  <2>1. Mine(t) \in SUBSET (1 .. Len(q)) /\ 1 \notin Mine(t)
    BY <1>4, <1>8
  <2>2. Lists(ts[t].observations, Tail(q), {p \in 1 .. Len(Tail(q)) : p + 1 \in Mine(t)})
    <3>1. ts[t].observations \in Seq(Event) /\ Lists(ts[t].observations, q, Mine(t))
      BY <1>2
    <3> HIDE DEF Mine
    <3> QED
      BY <2>1, <3>1, ListsOfTail
  <2>3. PICK i \in 1 .. Len(q) : TargetOf(q[i]) = t
    BY <1>2
  <2>4. i # 1 /\ i - 1 \in 1 .. Len(q2) /\ (i - 1) + 1 = i
    BY <1>1, <1>8, <2>3
  <2>5. i - 1 \in Mine2(t)
    BY <1>1, <2>3, <2>4
  <2> QED
    BY <1>6, <2>2, <2>5
<1>9. /\ Small(Tail(own))
      /\ Tail(own) = <<>> <=> Mine2(t0) = {}
      /\ Decrement(ts[t0], q[1].src, Tail(own)) = StateOf(Tail(own))
      /\ StateOf(Tail(own)).observations = Tail(own)
  <2>1. Tail(own) \in Seq(Event)
    BY <1>7, HeadTailProperties
  <2>2. Tail(own) = <<>> <=> Mine2(t0) = {}
    BY <1>7, <2>1, ListsEmpty
  <2>3. ts[t0] = StateOf(own) /\ Small(own)
    BY <1>2, <1>3
  <2> HIDE DEF own
  <2>4. /\ Decrement(ts[t0], q[1].src, Tail(own)) = StateOf(Tail(own))
        /\ Small(Tail(own))
    BY <1>7, <2>3, StateOfTail
  <2> QED
    BY <2>2, <2>4, StateOfIs
<1>10. \A t : Mine2(t) # {} => t \in DOMAIN ts
  BY <1>1, <1>2, <1>5
<1>11. ts2 = IF Tail(own) = <<>> THEN [t \in DOMAIN ts \ {t0} |-> ts[t]]
             ELSE [ts EXCEPT ![t0] = StateOf(Tail(own))]
  BY <1>9 DEF ForgetOldest, Forget, Restrict
<1>12. /\ ts2 = [t \in DOMAIN ts2 |-> ts2[t]]
       /\ \A t : t \in DOMAIN ts2 <=> Mine2(t) # {}
       /\ \A t \in DOMAIN ts2 : ts2[t] = IF t = t0 THEN StateOf(Tail(own)) ELSE ts[t]
  <2>1. CASE Tail(own) = <<>>
    <3>1. ts2 = [t \in DOMAIN ts \ {t0} |-> ts[t]]
      BY <1>11, <2>1
    <3> HIDE DEF ts2, Mine2, own
    <3> QED
      BY <1>8, <1>9, <1>10, <2>1, <3>1
  <2>2. CASE Tail(own) # <<>>
    <3>1. ts2 = [ts EXCEPT ![t0] = StateOf(Tail(own))]
      BY <1>11, <2>2
    <3> HIDE DEF ts2, Mine2, own
    <3> QED
      BY <1>3, <1>8, <1>9, <1>10, <2>2, <3>1
  <2> QED
    BY <2>1, <2>2
<1>13. DOMAIN ts2 = {TargetOf(q2[i]) : i \in 1 .. Len(q2)}
  <2>1. \A t : Mine2(t) # {} <=> t \in {TargetOf(q2[i]) : i \in 1 .. Len(q2)}
    OBVIOUS
  <2> HIDE DEF ts2, Mine2, q2
  <2> QED
    BY <1>12, <2>1
<1>14. ASSUME NEW t \in DOMAIN ts2
       PROVE  /\ Small(ts2[t].observations)
              /\ Lists(ts2[t].observations, q2, Mine2(t))
              /\ ts2[t] = StateOf(ts2[t].observations)
  <2> HIDE DEF ts2, own, q2, Mine2
  <2>1. CASE t = t0
    BY <1>7, <1>9, <1>12, <2>1
  <2>2. CASE t # t0
    <3>1. ts2[t] = ts[t] /\ t \in DOMAIN ts
      BY <1>10, <1>12, <2>2
    <3> QED
      BY <1>2, <1>8, <2>2, <3>1
  <2> QED
    BY <2>1, <2>2
<1> HIDE DEF ts2, q2
<1> QED
  BY <1>12, <1>13, <1>14 DEF TargetsInv, TargetsTyped, Match, ts2, q2

\* rollback_last_observation after the tail of observe.
LEMMA UndoRecord ==
  ASSUME NEW ts, NEW q \in Seq(Event), TargetsInv(ts, q), NEW e \in Event,
         HasRoom(ts, TargetOf(e))
  PROVE  ForgetNewest(Record(ts, e), e) = ts
<1> DEFINE k   == TargetOf(e)
           own == IF k \in DOMAIN ts THEN ts[k].observations ELSE <<>>
           ts2 == Record(ts, e)
<1>1. /\ own \in Seq(Event)
      /\ (IF k \in DOMAIN ts THEN ts[k] ELSE NoObservations) = StateOf(own)
  BY OwnOfTarget
<1>2. /\ DOMAIN ts2 = DOMAIN ts \cup {k}
      /\ \A t \in DOMAIN ts : t # k => ts2[t] = ts[t]
      /\ ts = [t \in DOMAIN ts |-> ts[t]]
  BY DEF Record, TargetsInv, TargetsTyped
<1>3. /\ ts2[k] = StateOf(Append(own, e)) /\ ts2[k].observations = Append(own, e)
      /\ Len(own) < MaxEventsPerTarget
  BY RecordedState
<1>4. Front(ts2[k].observations) = own
  <2> HIDE DEF own, ts2
  <2> QED
    BY <1>1, <1>3, FrontOfAppend
<1>5. Decrement(ts2[k], e.src, own) = StateOf(own)
  <2> HIDE DEF own, ts2
  <2> QED
    BY <1>1, <1>3, StateUndone
<1>6. own = <<>> <=> k \notin DOMAIN ts
  <2>1. CASE k \in DOMAIN ts
    <3>1. Lists(own, q, {i \in 1 .. Len(q) : TargetOf(q[i]) = k})
      BY OwnOfTarget
    <3>2. {i \in 1 .. Len(q) : TargetOf(q[i]) = k} # {}
      BY <2>1 DEF TargetsInv, Match
    <3> QED
      BY <1>1, <2>1, <3>1, <3>2, ListsEmpty
  <2>2. CASE k \notin DOMAIN ts
    BY <2>2
  <2> QED
    BY <2>1, <2>2
<1>7. k \in DOMAIN ts => ts[k] = StateOf(own)
  BY <1>1
<1> HIDE DEF own, ts2
<1>8. CASE own = <<>>
  <2>1. ForgetNewest(ts2, e) = [t \in DOMAIN ts2 \ {k} |-> ts2[t]]
    BY <1>4, <1>8 DEF ForgetNewest, Forget, Restrict
  <2>2. DOMAIN ts2 \ {k} = DOMAIN ts
    BY <1>2, <1>6, <1>8
  <2> QED
    BY <1>2, <2>1, <2>2 DEF ts2
<1>9. CASE own # <<>>
  <2>1. ForgetNewest(ts2, e) = [ts2 EXCEPT ![k] = StateOf(own)]
    BY <1>4, <1>5, <1>9 DEF ForgetNewest, Forget
  <2>2. DOMAIN ts2 = DOMAIN ts
    BY <1>2, <1>6, <1>9
  <2>3. ForgetNewest(ts2, e) = [t \in DOMAIN ts |-> IF t = k THEN StateOf(own) ELSE ts2[t]]
    BY <2>1, <2>2
  <2> QED
    BY <1>2, <1>7, <2>3 DEF ts2
<1> QED
  BY <1>8, <1>9

\* The turns of _expire_observations for p[1], ..., p[m], from ts on.
Turns(a, ts, p, m) ==
  /\ a = [k \in 0 .. m |-> a[k]]
  /\ a[0] = ts
  /\ \A k \in 1 .. m : a[k] = ForgetOldest(a[k - 1], p[k])

LEMMA TurnsExist ==
  ASSUME NEW ts, NEW p, NEW n \in Nat
  PROVE  \E a : Turns(a, ts, p, n)
<1> DEFINE T == {m \in 0 .. n : \E a : Turns(a, ts, p, m)}
<1>1. 0 \in T
  <2>1. Turns([k \in 0 .. 0 |-> ts], ts, p, 0)
    BY DEF Turns
  <2> QED
    BY <2>1
<1>2. ASSUME NEW m \in 0 .. n - 1, m \in T PROVE m + 1 \in T
  <2>1. PICK a : Turns(a, ts, p, m)
    BY <1>2
  <2> DEFINE b == [k \in 0 .. m + 1 |->
                     IF k = m + 1 THEN ForgetOldest(a[m], p[m + 1]) ELSE a[k]]
  <2>2. /\ \A k \in 0 .. m : b[k] = a[k]
        /\ b[m + 1] = ForgetOldest(a[m], p[m + 1])
        /\ b = [k \in 0 .. m + 1 |-> b[k]]
    OBVIOUS
  <2> HIDE DEF b
  <2>3. b[0] = ts
    BY <2>1, <2>2 DEF Turns
  <2>4. ASSUME NEW k \in 1 .. m + 1 PROVE b[k] = ForgetOldest(b[k - 1], p[k])
    <3>1. CASE k = m + 1
      <4>1. k - 1 = m /\ m \in 0 .. m
        BY <3>1
      <4> QED
        BY <2>2, <3>1, <4>1
    <3>2. CASE k # m + 1
      <4>1. k \in 1 .. m /\ k \in 0 .. m /\ k - 1 \in 0 .. m
        BY <3>2
      <4> QED
        BY <2>1, <2>2, <4>1 DEF Turns
    <3> QED
      BY <3>1, <3>2
  <2>5. Turns(b, ts, p, m + 1)
    BY <2>2, <2>3, <2>4 DEF Turns
  <2> QED
    BY <2>5
<1> HIDE DEF T
<1>3. n \in T
  <2>1. 0 .. n \subseteq T
    BY <1>1, <1>2, InductionUpTo
  <2> QED
    BY <2>1
<1> QED
  BY <1>3 DEF T

\* However many events expire, the states match what is left.
LEMMA TurnsMatch ==
  ASSUME NEW ts, NEW q \in Seq(Event), TargetsInv(ts, q), NEW n \in 0 .. Len(q),
         NEW a, Turns(a, ts, SubSeq(q, 1, n), n)
  PROVE  TargetsInv(a[n], SubSeq(q, n + 1, Len(q)))
<1> DEFINE T == {m \in 0 .. n : TargetsInv(a[m], SubSeq(q, m + 1, Len(q)))}
<1>1. Len(q) \in Nat /\ n \in Nat
  BY LenProperties
<1>2. 0 \in T
  <2>1. SubSeq(q, 0 + 1, Len(q)) = q /\ a[0] = ts
    BY SubSeqFull DEF Turns
  <2>2. TargetsInv(a[0], SubSeq(q, 0 + 1, Len(q)))
    BY <2>1
  <2> QED
    BY <1>1, <2>2
<1>3. ASSUME NEW m \in 0 .. n - 1, m \in T PROVE m + 1 \in T
  <2> DEFINE r == SubSeq(q, m + 1, Len(q))
  <2>1. /\ m + 1 \in 1 .. Len(q) /\ m + 1 \in 1 .. n /\ m + 1 \in Int
        /\ Len(q) \in m + 1 .. Len(q) /\ m + 1 - 1 = m
    BY <1>1
  <2>2. /\ r \in Seq(Event) /\ r # <<>> /\ r[1] = q[m + 1]
        /\ Tail(r) = SubSeq(q, m + 1 + 1, Len(q))
    <3>1. /\ r \in Seq(Event)
          /\ Len(r) = IF m + 1 <= Len(q) THEN Len(q) - (m + 1) + 1 ELSE 0
          /\ \A i \in 1 .. Len(q) - (m + 1) + 1 : r[i] = q[m + 1 + i - 1]
      BY <1>1, <2>1, SubSeqProperties
    <3>2. Len(r) = Len(q) - m /\ Len(r) \in Nat \ {0} /\ 1 \in 1 .. Len(q) - (m + 1) + 1
      BY <1>1, <2>1, <3>1
    <3>3. r # <<>> /\ r[1] = q[m + 1]
      BY <3>1, <3>2, EmptySeq
    <3>4. Tail(r) = SubSeq(q, m + 1 + 1, Len(q))
      BY <1>1, <2>1, HeadTailOfSubSeq
    <3> QED
      BY <3>1, <3>3, <3>4
  <2>3. a[m + 1] = ForgetOldest(a[m], q[m + 1])
    <3>1. a[m + 1] = ForgetOldest(a[m], SubSeq(q, 1, n)[m + 1])
      <4>1. \A k \in 1 .. n : a[k] = ForgetOldest(a[k - 1], SubSeq(q, 1, n)[k])
        BY DEF Turns
      <4> QED
        BY <2>1, <4>1
    <3>2. SubSeq(q, 1, n)[m + 1] = q[m + 1]
      <4>1. \A i \in 1 .. n - 1 + 1 : SubSeq(q, 1, n)[i] = q[1 + i - 1]
        BY <1>1, SubSeqProperties
      <4> QED
        BY <1>1, <2>1, <4>1
    <3> QED
      BY <3>1, <3>2
  <2>4. TargetsInv(a[m], r)
    BY <1>3
  <2> HIDE DEF r
  <2>5. TargetsInv(ForgetOldest(a[m], r[1]), Tail(r))
    BY <2>2, <2>4, ForgetMatches
  <2>6. TargetsInv(a[m + 1], SubSeq(q, m + 1 + 1, Len(q)))
    BY <2>2, <2>3, <2>5
  <2> QED
    BY <2>1, <2>6
<1> HIDE DEF T
<1>4. n \in T
  <2>1. 0 .. n \subseteq T
    BY <1>1, <1>2, <1>3, InductionUpTo
  <2> QED
    BY <1>1, <2>1
<1> QED
  BY <1>4 DEF T

LEMMA ExpiryMatches ==
  ASSUME observations \in Seq(Event), TargetsInv(targets, observations), NEW t \in Int
  PROVE  TargetsInv(LiveTargets(t), LiveObservations(t)) /\ LiveObservations(t) \in Seq(Event)
<1> DEFINE n == ExpiredCount(observations, t - Window)
           p == SubSeq(observations, 1, n)
<1>1. /\ n \in 0 .. Len(observations) /\ Len(observations) \in Nat /\ n \in Nat
      /\ t - Window \in Int
  <2>1. Len(observations) \in Nat /\ t - Window \in Int
    BY ConstantTypes, LenProperties
  <2>2. n \in 0 .. Len(observations)
    BY <2>1, EventTimes, ExpiredCountProperties
  <2> QED
    BY <2>1, <2>2
<1>2. Len(p) = n
  <2>1. Len(p) = IF 1 <= n THEN n - 1 + 1 ELSE 0
    BY <1>1, SubSeqProperties
  <2> QED
    BY <1>1, <2>1
<1>3. LiveObservations(t) = SubSeq(observations, n + 1, Len(observations))
  BY DEF LiveObservations, Unexpired
<1>4. PICK a : Turns(a, targets, p, n)
  BY <1>1, TurnsExist
<1> DEFINE Fun(f) == [k \in 0 .. Len(p) |->
                       IF k = 0 THEN targets ELSE ForgetOldest(f[k - 1], p[k])]
           after  == CHOOSE f : f = Fun(f)
<1>5. LiveTargets(t) = after[Len(p)]
  BY DEF LiveTargets, Expired
<1> HIDE DEF n, p
<1>6. a = Fun(a)
  BY <1>1, <1>2, <1>4 DEF Turns
<1>7. after = Fun(after)
  <2>1. \E f : f = Fun(f)
    BY <1>6
  <2> HIDE DEF Fun
  <2> QED
    BY <2>1
<1> HIDE DEF after
<1>8. Turns(after, targets, p, n)
  <2>1. /\ \A k \in 0 .. n : after[k] = IF k = 0 THEN targets
                                        ELSE ForgetOldest(after[k - 1], p[k])
        /\ after = [k \in 0 .. n |-> after[k]]
    BY <1>2, <1>7
  <2>2. 0 \in 0 .. n /\ \A k \in 1 .. n : k \in 0 .. n /\ k # 0
    BY <1>1
  <2> QED
    BY <2>1, <2>2 DEF Turns
<1>9. TargetsInv(after[n], SubSeq(observations, n + 1, Len(observations)))
  BY <1>1, <1>8, TurnsMatch DEF p
<1>10. LiveObservations(t) \in Seq(Event)
  BY <1>1, EventTimes, UnexpiredIsSuffix DEF LiveObservations
<1> QED
  BY <1>2, <1>3, <1>5, <1>9, <1>10

TargetsConsistent == TargetsInv(targets, observations)

LEMMA AdmittedHasRoom ==
  ASSUME WindowInv, TargetsConsistent, NEW e \in Event, Admitted(e)
  PROVE  HasRoom(LiveTargets(e.ts), TargetOf(e))
<1> DEFINE ts == LiveTargets(e.ts)
           k  == TargetOf(e)
<1> SUFFICES ASSUME k \in DOMAIN ts PROVE Len(ts[k].observations) < MaxEventsPerTarget
  BY DEF HasRoom
<1>1. TargetsInv(ts, LiveObservations(e.ts))
  BY WindowFacts, EventTimes, ExpiryMatches DEF TargetsConsistent
<1>2. Len(ts[k].observations) \in Nat
  BY <1>1, LenProperties DEF TargetsInv, TargetsTyped, Small
<1>3. ~(Len(ts[k].observations) >= MaxEventsPerTarget)
  BY DEF Admitted, ExceededLimits
<1> QED
  BY <1>2, <1>3, ConstantTypes

LEMMA TargetsStep ==
  ASSUME WindowInv, TargetsConsistent, [Next]_vars
  PROVE  TargetsConsistent'
<1>1. \A e \in Event : /\ TargetsInv(LiveTargets(e.ts), LiveObservations(e.ts))
                       /\ LiveObservations(e.ts) \in Seq(Event)
  BY WindowFacts, EventTimes, ExpiryMatches DEF TargetsConsistent
<1>2. \A e \in Event : Admitted(e) =>
        TargetsInv(Record(LiveTargets(e.ts), e), Append(LiveObservations(e.ts), e))
  BY <1>1, AdmittedHasRoom, RecordMatches
<1>3. ASSUME NEW e \in Event, RejectRegression(e) PROVE TargetsConsistent'
  BY <1>3 DEF RejectRegression, window, TargetsConsistent
<1>4. ASSUME NEW e \in Event, IgnoreDuplicate(e) \/ RejectAtLimit(e)
      PROVE  TargetsConsistent'
  <2>1. targets' = LiveTargets(e.ts) /\ observations' = LiveObservations(e.ts)
    BY <1>4 DEF IgnoreDuplicate, RejectAtLimit, ExpireWindow
  <2> QED
    BY <1>1, <2>1 DEF TargetsConsistent
<1>5. ASSUME NEW e \in Event, RecordQuietly(e) \/ RaiseAlert(e) PROVE TargetsConsistent'
  <2>1. /\ targets' = Record(LiveTargets(e.ts), e)
        /\ observations' = Append(LiveObservations(e.ts), e)
        /\ Admitted(e)
    BY <1>5 DEF RecordQuietly, RaiseAlert, Insert
  <2> QED
    BY <1>2, <2>1 DEF TargetsConsistent
<1>6. ASSUME NEW e \in Event, RollBack(e) PROVE TargetsConsistent'
  <2>1. Admitted(e) /\ targets' = ForgetNewest(Record(LiveTargets(e.ts), e), e)
    BY <1>6 DEF RollBack
  <2>2. targets' = LiveTargets(e.ts)
    BY <1>1, <2>1, AdmittedHasRoom, UndoRecord
  <2>3. observations' = LiveObservations(e.ts)
    BY <1>6, RollBackRestores
  <2> QED
    BY <1>1, <2>2, <2>3 DEF TargetsConsistent
<1>7. CASE UNCHANGED vars
  BY <1>7 DEF vars, window, TargetsConsistent
<1> QED
  BY <1>3, <1>4, <1>5, <1>6, <1>7 DEF Next, Process

LEMMA InitTargets == Init => TargetsConsistent
<1> SUFFICES ASSUME Init PROVE TargetsConsistent
  OBVIOUS
<1>1. targets = << >> /\ observations = <<>> /\ Len(<<>>) = 0 /\ 1 .. 0 = {}
  BY EmptySeq DEF Init
<1>2. DOMAIN targets = {} /\ targets = [t \in {} |-> targets[t]]
  BY <1>1
<1> QED
  BY <1>1, <1>2 DEF TargetsConsistent, TargetsInv, TargetsTyped, Match

LEMMA TargetsInvariance == Spec => []TargetsConsistent
<1>1. WindowInv /\ TargetsConsistent /\ [Next]_vars => TargetsConsistent'
  BY TargetsStep
<1> QED
  BY <1>1, InitTargets, WindowInvariance, PTL DEF Spec

\* The states of the targets never drift from the deque, and the running sum from
\* which the entropy is computed is at every moment the sum over the counts of the
\* window, after any sequence of increments, expiries and rollbacks.
THEOREM TargetsAlwaysMatch == Spec => []TargetsMatchWindow
<1>1. TargetsConsistent => TargetsMatchWindow
  BY DEF TargetsConsistent, TargetsInv, TargetsMatchWindow
<1> QED
  BY <1>1, TargetsInvariance, PTL

-----------------------------------------------------------------------------
(* The evidence of an alert.                                                  *)

\* The deque of a target lists the observations of that target in the set, each once.
OfTarget(S, t) == {o \in S : TargetOf(o) = t}

LEMMA StateAsSet ==
  ASSUME NEW q \in Seq(Event), TimeSorted(q), DistinctUids(q), NEW ts, TargetsInv(ts, q),
         NEW t \in DOMAIN ts
  PROVE  /\ ts[t].observations \in Seq(Event) /\ ts[t] = StateOf(ts[t].observations)
         /\ TimeSorted(ts[t].observations) /\ DistinctUids(ts[t].observations)
         /\ ToSet(ts[t].observations) = OfTarget(ToSet(q), t)
         /\ Len(ts[t].observations) = Cardinality(OfTarget(ToSet(q), t))
<1> DEFINE own  == ts[t].observations
           mine == {i \in 1 .. Len(q) : TargetOf(q[i]) = t}
<1>1. own \in Seq(Event) /\ ts[t] = StateOf(own) /\ Lists(own, q, mine)
  BY DEF TargetsInv, TargetsTyped, Match, Small
<1> HIDE DEF own
<1>2. /\ \A x : x \in ToSet(own) <=> \E p \in mine : x = q[p]
      /\ TimeSorted(own) /\ DistinctUids(own)
  <2>1. mine \in SUBSET (1 .. Len(q)) /\ \A x \in Event : x.ts \in Int
    BY EventTimes
  <2> HIDE DEF mine
  <2> QED
    BY <1>1, <2>1, ListedSet
<1>3. \A x : x \in ToSet(q) <=> \E i \in 1 .. Len(q) : x = q[i]
  BY SetOf
<1>4. ASSUME NEW x PROVE x \in ToSet(own) <=> x \in ToSet(q) /\ TargetOf(x) = t
  BY <1>2, <1>3
<1>5. ToSet(own) = OfTarget(ToSet(q), t)
  BY <1>4 DEF OfTarget
<1>6. Cardinality(ToSet(own)) = Len(own)
  BY <1>1, <1>2, SizeOfSet
<1> QED
  BY <1>1, <1>2, <1>5, <1>6 DEF own

\* The events that come from the sources in S, by their positions.
Positions(own, S) == {i \in 1 .. Len(own) : SourceField[own[i]] \in S}

\* The sum over the sources in S of a counter of own leaves no more entropy than
\* events spread evenly over them would have.
Spread(own, f, S) ==
  LET n == Cardinality(Positions(own, S))
  IN  n * (Log2[n] - Log2[Cardinality(S)]) <= f[S]

\* One source more: the log-sum inequality.
LEMMA SpreadGrows ==
  ASSUME NEW n \in 1 .. MaxEventsPerTarget, NEW k \in 1 .. MaxEventsPerTarget,
         NEW m \in 1 .. n, n + k <= MaxEventsPerTarget, NEW sum \in Nat,
         n * (Log2[n] - Log2[m]) <= sum
  PROVE  (n + k) * (Log2[n + k] - Log2[m + 1]) <= CountLog[k] + sum
<1>1. (n + k) * (Log2[n + k] - Log2[m + 1]) <= n * (Log2[n] - Log2[m]) + k * Log2[k]
  BY LogAssumption
<1>2. /\ n + k \in 1 .. MaxEventsPerTarget /\ m + 1 \in 1 .. MaxEventsPerTarget
      /\ m \in 1 .. MaxEventsPerTarget
  BY ConstantTypes
<1>3. /\ Log2[n] \in Int /\ Log2[m] \in Int /\ Log2[k] \in Int
      /\ Log2[n + k] \in Int /\ Log2[m + 1] \in Int /\ CountLog[k] = k * Log2[k]
  BY <1>2, CountLogIs
<1> DEFINE x == (n + k) * (Log2[n + k] - Log2[m + 1])
           y == n * (Log2[n] - Log2[m])
           z == k * Log2[k]
<1>4. x \in Int /\ y \in Int /\ z \in Int
  BY <1>3
<1>5. x <= y + z /\ y <= sum
  BY <1>1
<1>6. x <= z + sum
  <2> HIDE DEF x, y, z
  <2> QED
    BY <1>4, <1>5
<1> QED
  BY <1>3, <1>6

LEMMA EntropyIsBounded ==
  ASSUME NEW own, Small(own), own # <<>>
  PROVE  LET c == SourcesOf(own)
             n == Len(own)
             m == Cardinality(DOMAIN c)
         IN  /\ n \in 1 .. MaxEventsPerTarget /\ m \in 1 .. n
             /\ n * Log2[n] - LogSum(c) <= n * Log2[m]
<1> DEFINE c == SourcesOf(own)
           D == DOMAIN c
           M == Cardinality(D)
<1>1. own \in Seq(Event) /\ Len(own) \in 1 .. MaxEventsPerTarget
  BY EmptySeq, LenProperties, ConstantTypes DEF Small
<1>2. Counted(c) /\ \A v \in D : c[v] # 0
  BY TallyCounted
<1>3. /\ \A v \in D : c[v] = Cardinality(PositionsOf(own, SourceField, v))
      /\ \A v : v \in D <=> \E i \in 1 .. Len(own) : SourceField[own[i]] = v
  BY <1>1, TallyIs DEF SourcesOf
<1>4. M \in Nat /\ M <= Len(own) /\ IsFiniteSet(D)
  BY <1>1, TallySize DEF SourcesOf
<1> HIDE DEF c
<1>5. PICK f : SumsOver(f, c, SUBSET D) /\ LogSum(c) = f[D]
  BY <1>2, LogSumIs
\* The positions of a set of sources, and of one more.
<1>6. ASSUME NEW S \in SUBSET D
      PROVE  /\ IsFiniteSet(Positions(own, S)) /\ Cardinality(Positions(own, S)) \in Nat
             /\ Cardinality(Positions(own, S)) <= Len(own)
  <2>1. Positions(own, S) \in SUBSET (1 .. Len(own))
    BY DEF Positions
  <2>2. IsFiniteSet(1 .. Len(own)) /\ Cardinality(1 .. Len(own)) = Len(own)
    BY <1>1, SizeUpTo
  <2> QED
    BY <2>1, <2>2, FS_Subset, FS_CardinalityType
<1>7. ASSUME NEW S \in SUBSET D, NEW x \in S
      PROVE  Cardinality(Positions(own, S)) = Cardinality(Positions(own, S \ {x})) + c[x]
  <2> DEFINE P == Positions(own, S \ {x})
             Q == PositionsOf(own, SourceField, x)
  <2>1. Positions(own, S) = P \cup Q /\ P \cap Q = {}
    BY DEF Positions, PositionsOf
  <2>2. IsFiniteSet(P) /\ IsFiniteSet(Q) /\ Cardinality(Q) = c[x]
    BY <1>1, <1>3, <1>6, PositionsFinite
  <2>3. Cardinality(P \cap Q) = 0 /\ Cardinality(P) \in Nat /\ Cardinality(Q) \in Nat
    BY <2>1, <2>2, FS_EmptySet, FS_CardinalityType
  <2> HIDE DEF P, Q
  <2>4. Cardinality(P \cup Q) = Cardinality(P) + Cardinality(Q) - Cardinality(P \cap Q)
    BY <2>2, FS_Union
  <2> QED
    BY <2>1, <2>2, <2>3, <2>4 DEF P
\* Every source has an event at least.
<1>8. ASSUME NEW S \in SUBSET D, S # {}
      PROVE  Cardinality(S) \in Nat /\ Cardinality(S) >= 1
             /\ Cardinality(Positions(own, S)) >= 1
  <2>1. PICK x \in S : TRUE
    BY <1>8
  <2>2. Cardinality(S) \in Nat /\ Cardinality(S) # 0
    BY <1>2, <2>1, OneLess
  <2>3. c[x] \in Nat /\ c[x] # 0
    BY <1>2, <2>1 DEF Counted
  <2>4. Cardinality(Positions(own, S)) = Cardinality(Positions(own, S \ {x})) + c[x]
        /\ Cardinality(Positions(own, S \ {x})) \in Nat
    BY <1>6, <1>7, <2>1
  <2> QED
    BY <2>2, <2>3, <2>4
<1> DEFINE Fits(S) == Cardinality(S) <= Cardinality(Positions(own, S)) /\ Spread(own, f, S)
           T == {k \in 0 .. M : \A S \in UpTo(c, k) : S # {} => Fits(S)}
<1>9. 0 \in T
  <2>1. \A S \in UpTo(c, 0) : S = {}
    <3> SUFFICES ASSUME NEW S \in UpTo(c, 0), S # {} PROVE FALSE
      OBVIOUS
    <3>1. S \in SUBSET D /\ Cardinality(S) <= 0
      BY DEF UpTo
    <3> QED
      BY <1>8, <3>1
  <2> HIDE DEF Fits
  <2> QED
    BY <1>4, <2>1
<1>10. ASSUME NEW k \in 0 .. M - 1, k \in T PROVE k + 1 \in T
  <2>1. ASSUME NEW S \in UpTo(c, k + 1), S # {} PROVE Fits(S)
    <3>1. PICK x \in S : TRUE
      BY <2>1
    <3> DEFINE R == S \ {x}
               n == Cardinality(Positions(own, R))
               m == Cardinality(R)
    <3>2. S \in SUBSET D /\ Cardinality(S) <= k + 1 /\ R \in SUBSET D
      BY DEF UpTo
    <3>3. /\ Cardinality(S) \in Nat /\ m = Cardinality(S) - 1 /\ m \in Nat
      <4>1. Cardinality(S) \in Nat /\ m = Cardinality(S) - 1
        BY <1>2, <3>1, <3>2, OneLess
      <4>2. m \in Nat
        BY <1>2, <3>2, OneLess
      <4> QED
        BY <4>1, <4>2
    <3>4. f[S] = Weight(c, x) + f[R] /\ f[R] \in Nat /\ Weight(c, x) = CountLog[c[x]]
      <4>1. f[S] = Weight(c, x) + f[R]
        BY <1>2, <1>5, <3>1, <3>2, SumSplits
      <4>2. f[R] \in Nat
        BY <1>2, <1>5, <3>2, SumSplits
      <4> QED
        BY <4>1, <4>2 DEF Weight
    <3>5. c[x] \in 1 .. MaxEventsPerTarget
      <4>1. x \in D
        BY <3>1, <3>2
      <4>2. c[x] \in 0 .. MaxEventsPerTarget /\ c[x] # 0
        BY <1>2, <4>1 DEF Counted
      <4> QED
        BY <4>2
    <3>6. /\ Cardinality(Positions(own, S)) = n + c[x] /\ n \in Nat
          /\ n + c[x] <= MaxEventsPerTarget
      <4>1. Cardinality(Positions(own, S)) = n + c[x]
        BY <1>7, <3>1, <3>2
      <4>2. n \in Nat
        BY <1>6, <3>2
      <4>3. Cardinality(Positions(own, S)) <= Len(own)
        BY <1>6, <3>2
      <4> HIDE DEF n
      <4> QED
        BY <1>1, <3>5, <4>1, <4>2, <4>3, ConstantTypes
    <3>7. CASE R = {}
      <4>1. m = 0 /\ n = 0 /\ f[R] = 0
        <5>1. Positions(own, R) = {}
          BY <3>7 DEF Positions
        <5>2. f[{}] = 0
          <6>1. {} \in SUBSET D
            OBVIOUS
          <6> QED
            BY <1>5, <6>1 DEF SumsOver
        <5> QED
          BY <3>7, <5>1, <5>2, FS_EmptySet
      <4>2. Cardinality(S) = 1 /\ Cardinality(Positions(own, S)) = c[x]
        <5> HIDE DEF n, m
        <5> QED
          BY <3>3, <3>5, <3>6, <4>1
      <4>3. f[S] = c[x] * Log2[c[x]]
        <5>1. CountLog[c[x]] = c[x] * Log2[c[x]] /\ CountLog[c[x]] \in Nat
          BY <3>5, CountLogIs
        <5> QED
          BY <3>4, <4>1, <5>1
      <4>4. Log2[1] = 0 /\ Log2[c[x]] \in Nat
        BY <3>5, CountLogIs, LogAssumption
      <4>5. c[x] * (Log2[c[x]] - Log2[1]) <= f[S]
        BY <3>5, <4>3, <4>4
      <4> QED
        BY <3>5, <4>2, <4>5 DEF Spread
    <3>8. CASE R # {}
      <4>1. m >= 1 /\ n >= 1
        BY <1>8, <3>2, <3>8
      <4>2. R \in UpTo(c, k)
        <5>1. m <= k
          BY <3>2, <3>3
        <5> QED
          BY <3>2, <5>1 DEF UpTo
      <4>3. Fits(R)
        <5> HIDE DEF Fits
        <5> QED
          BY <1>10, <3>8, <4>2
      <4>4. n * (Log2[n] - Log2[m]) <= f[R] /\ m <= n
        BY <4>3 DEF Spread
      <4> HIDE DEF n, m
      <4>5. n \in 1 .. MaxEventsPerTarget /\ m \in 1 .. n
        BY <3>3, <3>5, <3>6, <4>1, <4>4, ConstantTypes
      <4>6. (n + c[x]) * (Log2[n + c[x]] - Log2[m + 1]) <= CountLog[c[x]] + f[R]
        BY <3>4, <3>5, <3>6, <4>4, <4>5, SpreadGrows
      <4>7. Cardinality(S) = m + 1
        BY <3>3
      <4>8. Spread(own, f, S)
        BY <3>4, <3>6, <4>6, <4>7 DEF Spread
      <4> QED
        BY <3>5, <3>6, <4>5, <4>7, <4>8
    <3> QED
      BY <3>7, <3>8
  <2> HIDE DEF Fits
  <2> QED
    BY <1>4, <2>1
<1> HIDE DEF T
<1>11. M \in T
  <2>1. 0 .. M \subseteq T
    BY <1>4, <1>9, <1>10, InductionUpTo
  <2> QED
    BY <1>4, <2>1
<1>12. D \in UpTo(c, M) /\ D # {}
  <2>1. 1 \in 1 .. Len(own)
    BY <1>1
  <2>2. SourceField[own[1]] \in D
    BY <1>3, <2>1
  <2> QED
    BY <1>4, <2>2 DEF UpTo
<1>13. Fits(D)
  <2> HIDE DEF Fits
  <2> QED
    BY <1>11, <1>12 DEF T
<1>14. Cardinality(Positions(own, D)) = Len(own)
  <2>1. Positions(own, D) = 1 .. Len(own)
    BY <1>3 DEF Positions
  <2> QED
    BY <1>1, <2>1, SizeUpTo
<1>15. Len(own) * (Log2[Len(own)] - Log2[M]) <= LogSum(c) /\ M \in 1 .. Len(own)
  BY <1>4, <1>5, <1>8, <1>12, <1>13, <1>14 DEF Spread
<1>16. /\ Log2[Len(own)] \in Nat /\ Log2[M] \in Nat /\ LogSum(c) \in Nat
  <2>1. M \in 1 .. MaxEventsPerTarget
    BY <1>1, <1>15, ConstantTypes
  <2>2. D \in SUBSET D
    OBVIOUS
  <2>3. LogSum(c) \in Nat
    <3>1. f[D] \in Nat
      BY <1>2, <1>5, <2>2, SumSplits
    <3> HIDE DEF D
    <3> QED
      BY <1>5, <3>1
  <2> QED
    BY <1>1, <2>1, <2>3, CountLogIs
<1> DEFINE n == Len(own)
<1>17. n * Log2[n] - LogSum(c) <= n * Log2[M]
  <2> HIDE DEF M, n
  <2>1. n \in Nat
    BY <1>1 DEF n
  <2>2. n * (Log2[n] - Log2[M]) = n * Log2[n] - n * Log2[M]
    BY <1>16, <2>1 DEF n
  <2> QED
    BY <1>15, <1>16, <2>1, <2>2 DEF n
<1> QED
  BY <1>1, <1>15, <1>17 DEF c

\* What _snapshot measures: the events of the window at the target of e.
LEMMA SnapshotIsSound ==
  ASSUME WindowInv, TargetsConsistent, NEW e \in Event, Admitted(e)
  PROVE  LET st  == Snapshot(e)
             own == st.observations
             all == OfTarget(ToSet(Append(LiveObservations(e.ts), e)), TargetOf(e))
         IN  /\ Small(own) /\ st = StateOf(own)
             /\ Len(own) = Cardinality(all) /\ DOMAIN st.sources = SourcesIn(all)
             /\ \A i \in 1 .. Len(own) : own[i].ts <= e.ts /\ e.ts - own[i].ts <= Window
<1> DEFINE q2  == Append(LiveObservations(e.ts), e)
           ts2 == Record(LiveTargets(e.ts), e)
           t   == TargetOf(e)
           own == ts2[t].observations
           all == OfTarget(ToSet(q2), t)
<1>1. TargetsInv(ts2, q2)
  BY WindowFacts, EventTimes, ExpiryMatches, AdmittedHasRoom, RecordMatches
     DEF TargetsConsistent
<1>2. t \in DOMAIN ts2 /\ Snapshot(e) = ts2[t]
  BY DEF Record, Snapshot
<1>3. q2 \in Seq(Event) /\ TimeSorted(q2) /\ DistinctUids(q2)
      /\ \A i \in 1 .. Len(q2) : q2[i].ts <= e.ts /\ e.ts - q2[i].ts <= Window
  BY AdmissionKeepsWindow DEF UidWindow
<1> HIDE DEF q2, ts2, t
<1>4. Small(own) /\ Lists(own, q2, {i \in 1 .. Len(q2) : TargetOf(q2[i]) = t})
  BY <1>1, <1>2 DEF TargetsInv, TargetsTyped, Match
<1>5. /\ own \in Seq(Event) /\ ts2[t] = StateOf(own) /\ DistinctUids(own)
      /\ ToSet(own) = all /\ Len(own) = Cardinality(all)
  BY <1>1, <1>2, <1>3, StateAsSet
<1> HIDE DEF own
<1>6. ts2[t].sources = SourcesOf(own)
  BY <1>5, StateOfIs
<1>7. \A v : v \in DOMAIN SourcesOf(own) <=> \E x \in all : SourceField[x] = v
  BY <1>5, TallyOfSet DEF SourcesOf
<1>8. \A x \in all : SourceField[x] = x.src
  <2>1. \A x \in ToSet(own) : x \in Event
    BY <1>5, SetOf
  <2> QED
    BY <1>5, <2>1 DEF SourceField
<1>9. DOMAIN SourcesOf(own) = SourcesIn(all)
  <2> HIDE DEF all
  <2>1. \A v : v \in DOMAIN SourcesOf(own) <=> v \in SourcesIn(all)
    BY <1>7, <1>8 DEF SourcesIn
  <2> QED
    BY <2>1
<1>10. ASSUME NEW i \in 1 .. Len(own)
       PROVE  own[i].ts <= e.ts /\ e.ts - own[i].ts <= Window
  <2>1. \E j \in 1 .. Len(q2) : own[i] = q2[j]
    BY <1>4 DEF Lists
  <2> QED
    BY <1>3, <2>1
<1> QED
  BY <1>2, <1>4, <1>5, <1>6, <1>9, <1>10 DEF own, q2, t

LEMMA EvidenceStep ==
  ASSUME WindowInv, TargetsConsistent, EvidenceIsValid, [Next]_vars
  PROVE  EvidenceIsValid'
<1>1. ASSUME NEW e \in Event, RaiseAlert(e) PROVE EvidenceIsValid'
  <2> DEFINE st  == Snapshot(e)
             own == st.observations
             n   == Len(own)
             m   == Cardinality(DOMAIN st.sources)
             all == OfTarget(ToSet(Append(LiveObservations(e.ts), e)), TargetOf(e))
  <2>1. /\ Admitted(e) /\ CrossesThreshold(st) /\ result' = AlertOf(e, st)
        /\ observations' = Append(LiveObservations(e.ts), e)
    BY <1>1 DEF RaiseAlert, Insert
  <2>2. /\ Small(own) /\ st = StateOf(own)
        /\ n = Cardinality(all) /\ DOMAIN st.sources = SourcesIn(all)
        /\ \A i \in 1 .. n : own[i].ts <= e.ts /\ e.ts - own[i].ts <= Window
    BY <2>1, SnapshotIsSound
  <2>3. n >= MinEvents /\ m >= MinSources
    BY <2>1 DEF CrossesThreshold
  <2>4. own # <<>> /\ Head(own) = own[1] /\ 1 \in 1 .. n
    <3>1. own \in Seq(Event) /\ n \in Nat /\ MinEvents \in Nat \ {0}
      BY <2>2, LenProperties, LimitAssumption DEF Small
    <3>2. 1 \in 1 .. n
      BY <2>3, <3>1
    <3>3. own # <<>>
      BY <2>3, <3>1, EmptySeq
    <3> QED
      BY <3>1, <3>2, <3>3, HeadTailProperties
  <2>5. st.sources = SourcesOf(own) /\ st.logSum = LogSum(SourcesOf(own))
    <3>1. StateOf(own).sources = SourcesOf(own) /\ StateOf(own).logSum = LogSum(SourcesOf(own))
      BY StateOfIs
    <3> HIDE DEF st, own
    <3> QED
      BY <2>2, <3>1
  <2>6. m <= n /\ n * Log2[n] - st.logSum <= n * Log2[m]
    <3>1. /\ Cardinality(DOMAIN SourcesOf(own)) \in 1 .. Len(own)
          /\ Len(own) * Log2[Len(own)] - LogSum(SourcesOf(own))
               <= Len(own) * Log2[Cardinality(DOMAIN SourcesOf(own))]
      BY <2>2, <2>4, EntropyIsBounded
    <3>2. n \in Nat
      BY <2>2, LenProperties DEF Small
    <3> HIDE DEF st, own
    <3> QED
      BY <2>5, <3>1, <3>2
  <2>7. /\ result'.start = own[1].ts /\ result'.end = e.ts
        /\ result'.events = n /\ result'.sources = m /\ result'.logSum = st.logSum
        /\ result'.target = TargetOf(e)
    BY <2>1, <2>4 DEF AlertOf
  <2>8. {o \in ToSet(observations') : TargetOf(o) = result'.target} = all
    BY <2>1, <2>7 DEF OfTarget
  <2>9. m = Cardinality(SourcesIn(all))
    BY <2>2
  <2> HIDE DEF st, own, n, m, all
  <2> QED
    BY <2>2, <2>3, <2>4, <2>6, <2>7, <2>8, <2>9 DEF EvidenceIsValid
<1>2. ASSUME NEW e \in Event,
             \/ RejectRegression(e) \/ IgnoreDuplicate(e) \/ RejectAtLimit(e)
             \/ RecordQuietly(e) \/ RollBack(e)
      PROVE  EvidenceIsValid'
  <2>1. result'.kind # "alert"
    BY <1>2 DEF RejectRegression, IgnoreDuplicate, RejectAtLimit, RecordQuietly,
                RollBack, Regressed, Nothing, Exceeded
  <2> QED
    BY <2>1 DEF EvidenceIsValid
<1>3. CASE UNCHANGED vars
  BY <1>3 DEF vars, EvidenceIsValid
<1> QED
  BY <1>1, <1>2, <1>3 DEF Next, Process

\* Every alert of SynFloodDetector fits its window, counts the events and sources
\* of its target in the window, reaches the thresholds and has no more entropy than
\* its sources allow, for every configuration that SynFloodConfig accepts.
THEOREM EvidenceAlwaysValid == Spec => []EvidenceIsValid
<1>1. Init => EvidenceIsValid
  BY DEF Init, Nothing, EvidenceIsValid
<1>2. WindowInv /\ TargetsConsistent /\ EvidenceIsValid /\ [Next]_vars => EvidenceIsValid'
  BY EvidenceStep
<1> QED
  BY <1>1, <1>2, WindowInvariance, TargetsInvariance, PTL DEF Spec

-----------------------------------------------------------------------------
(* The cooldown table.                                                        *)

LEMMA AlertTimes ==
  /\ \A x \in LastAlert : x.ts \in Int
  /\ \A e \in Event : TargetOf(e) \in Target /\ Entry(TargetOf(e), e.ts) \in LastAlert
<1>1. \A x \in LastAlert : x.ts \in Int
  BY TimeAssumption DEF LastAlert
<1>2. ASSUME NEW e \in Event
      PROVE  TargetOf(e) \in Target /\ Entry(TargetOf(e), e.ts) \in LastAlert
  <2>1. e.dst \in Host /\ e.port \in Port /\ e.ts \in Time
    BY DEF Event
  <2>2. TargetOf(e) \in Target
    BY <2>1 DEF TargetOf, Target
  <2> QED
    BY <2>1, <2>2 DEF LastAlert, Entry
<1> QED
  BY <1>1, <1>2

\* process appends to the table only what it does not hold, at the time it has.
CooldownInv ==
  /\ watermark = None => cooldown = <<>>
  /\ watermark # None => CooldownTable(LastAlert, watermark, cooldown)

\* Time alone does not disturb the table: a limit of the window raises before
\* process reaches _expire_cooldowns.
LEMMA TimeKeepsCooldown ==
  ASSUME WindowInv, CooldownInv, NEW e \in Event, ~Regresses(e)
  PROVE  /\ CooldownTable(LastAlert, e.ts, cooldown)
         /\ cooldown = <<>> \/ (watermark \in Int /\ watermark <= e.ts)
<1>1. e.ts \in Int
  BY EventTimes
<1>2. CASE watermark = None
  BY <1>2, EmptyCooldownTable DEF CooldownInv
<1>3. CASE watermark # None
  <2>1. watermark \in Int /\ watermark <= e.ts
    BY <1>1, <1>3, TimeAssumption DEF WindowInv, Regresses
  <2>2. CooldownTable(LastAlert, watermark, cooldown)
    BY <1>3 DEF CooldownInv
  <2> QED
    BY <1>1, <2>1, <2>2, AlertTimes, CooldownLater
<1> QED
  BY <1>2, <1>3

LEMMA ExpiryKeepsCooldown ==
  ASSUME WindowInv, CooldownInv, NEW e \in Event, ~Regresses(e)
  PROVE  /\ CooldownTable(LastAlert, e.ts, LiveCooldowns(e.ts))
         /\ \A i \in 1 .. Len(LiveCooldowns(e.ts)) :
              e.ts - LiveCooldowns(e.ts)[i].ts < Cooldown
<1>1. e.ts \in Int /\ Cooldown \in Nat
  BY EventTimes, ConstantTypes
<1>2. CooldownTable(LastAlert, e.ts, cooldown)
  BY TimeKeepsCooldown
<1> QED
  BY <1>1, <1>2, AlertTimes, CooldownExpiry DEF LiveCooldowns

\* What Suppressed asks: whether the expired table holds the target.
LEMMA SuppressedIsHeld ==
  ASSUME WindowInv, CooldownInv, NEW e \in Event, ~Regresses(e)
  PROVE  Suppressed(e) <=> TargetOf(e) \in KeysOf(LiveCooldowns(e.ts))
<1> DEFINE cd == LiveCooldowns(e.ts)
<1>1. /\ cd \in Seq(LastAlert)
      /\ \A i \in 1 .. Len(cd) : e.ts - cd[i].ts < Cooldown
  BY ExpiryKeepsCooldown DEF CooldownTable
<1>2. DOMAIN cd = 1 .. Len(cd)
  BY <1>1, LenProperties
<1>3. Suppressed(e) <=>
        \E i \in DOMAIN cd : cd[i].key = TargetOf(e) /\ e.ts - cd[i].ts < Cooldown
  BY DEF Suppressed
<1> HIDE DEF cd
<1> QED
  BY <1>1, <1>2, <1>3 DEF KeysOf, cd

LEMMA CooldownStep ==
  ASSUME WindowInv, CooldownInv, [Next]_vars
  PROVE  CooldownInv'
<1>1. ASSUME NEW e \in Event, RejectRegression(e) PROVE CooldownInv'
  BY <1>1 DEF RejectRegression, window, CooldownInv
<1>2. ASSUME NEW e \in Event, RejectAtLimit(e) PROVE CooldownInv'
  <2>1. ~Regresses(e) /\ watermark' = e.ts /\ cooldown' = cooldown
    BY <1>2 DEF RejectAtLimit, ExpireWindow
  <2> QED
    BY <2>1, EventTimes, TimeKeepsCooldown DEF CooldownInv
<1>3. ASSUME NEW e \in Event, IgnoreDuplicate(e) \/ RecordQuietly(e) \/ RollBack(e)
      PROVE  CooldownInv'
  <2>1. ~Regresses(e) /\ watermark' = e.ts /\ cooldown' = LiveCooldowns(e.ts)
    BY <1>3 DEF IgnoreDuplicate, RecordQuietly, RollBack, ExpireWindow, Insert, Admitted
  <2> QED
    BY <2>1, EventTimes, ExpiryKeepsCooldown DEF CooldownInv
<1>4. ASSUME NEW e \in Event, RaiseAlert(e) PROVE CooldownInv'
  <2>1. /\ ~Regresses(e) /\ watermark' = e.ts /\ ~Suppressed(e)
        /\ cooldown' = Put(LiveCooldowns(e.ts), TargetOf(e), e.ts)
    BY <1>4 DEF RaiseAlert, Admitted, Insert
  <2>2. TargetOf(e) \notin KeysOf(LiveCooldowns(e.ts))
    BY <2>1, SuppressedIsHeld
  <2>3. CooldownTable(LastAlert, e.ts, cooldown')
    <3> DEFINE cd == LiveCooldowns(e.ts)
               k  == TargetOf(e)
    <3>1. CooldownTable(LastAlert, e.ts, cd) /\ k \notin KeysOf(cd)
      BY <2>1, <2>2, ExpiryKeepsCooldown
    <3>2. \A x \in LastAlert : x.ts \in Int
      BY AlertTimes
    <3>3. e.ts \in Int /\ Entry(k, e.ts) \in LastAlert
      BY EventTimes, AlertTimes
    <3>4. cooldown' = Put(cd, k, e.ts)
      BY <2>1
    <3> HIDE DEF cd, k
    <3>5. /\ Put(cd, k, e.ts) = Append(cd, Entry(k, e.ts))
          /\ CooldownTable(LastAlert, e.ts, Append(cd, Entry(k, e.ts)))
      BY ONLY <3>1, <3>2, <3>3, CooldownInsert
    <3> QED
      BY <3>4, <3>5
  <2> QED
    BY <2>1, <2>3, EventTimes DEF CooldownInv
<1>5. CASE UNCHANGED vars
  BY <1>5 DEF vars, window, CooldownInv
<1> QED
  BY <1>1, <1>2, <1>3, <1>4, <1>5 DEF Next, Process

LEMMA CooldownInvariance == Spec => []CooldownInv
<1>1. Init => CooldownInv
  BY DEF Init, CooldownInv
<1>2. WindowInv /\ CooldownInv /\ [Next]_vars => CooldownInv'
  BY CooldownStep
<1> QED
  BY <1>1, <1>2, WindowInvariance, PTL DEF Spec

-----------------------------------------------------------------------------
(* The refinement: what the deques, dictionaries and counters of the code hold *)
(* is what the sets of DetectorAbs hold, and a call is the step on the sets    *)
(* that counting from scratch would take.                                     *)

\* The abstract module names the same operators as this one.
LEMMA SameOperators ==
  /\ \A X : Abs!Cardinality(X) = Cardinality(X)
  /\ \A f, S : Abs!Restrict(f, S) = Restrict(f, S)
BY DEF Abs!Cardinality, Cardinality, Abs!Restrict, Restrict

\* The keys of the states are the targets of the set of the observations.
LEMMA TargetsAsSet ==
  ASSUME NEW q \in Seq(Event), DistinctUids(q), NEW ts, TargetsInv(ts, q)
  PROVE  DOMAIN ts = {TargetOf(o) : o \in ToSet(q)} /\ IsFiniteSet(DOMAIN ts)
<1>1. \A x : x \in ToSet(q) <=> \E i \in 1 .. Len(q) : x = q[i]
  BY SetOf
<1>2. DOMAIN ts = {TargetOf(q[i]) : i \in 1 .. Len(q)}
  BY DEF TargetsInv, Match
<1>3. ASSUME NEW t PROVE t \in DOMAIN ts <=> t \in {TargetOf(o) : o \in ToSet(q)}
  BY <1>1, <1>2
<1>4. DOMAIN ts = {TargetOf(o) : o \in ToSet(q)}
  BY <1>3
<1>5. IsFiniteSet(DOMAIN ts)
  <2>1. IsFiniteSet(ToSet(q))
    BY SizeOfSet
  <2>2. [o \in ToSet(q) |-> TargetOf(o)] \in Surjection(ToSet(q), DOMAIN ts)
    BY <1>4 DEF Surjection
  <2> QED
    BY <2>1, <2>2, FS_Surjection
<1> QED
  BY <1>4, <1>5

\* The expiry loops of an event in time order are the filters by age of the sets.
LEMMA AgedWindow ==
  ASSUME WindowInv, TargetsConsistent, NEW e \in Event, ~Regresses(e)
  PROVE  /\ LiveObservations(e.ts) \in Seq(Event)
         /\ TimeSorted(LiveObservations(e.ts)) /\ DistinctUids(LiveObservations(e.ts))
         /\ TargetsInv(LiveTargets(e.ts), LiveObservations(e.ts))
         /\ ToSet(LiveObservations(e.ts)) = Abs!Young(e.ts)
         /\ KeysOf(LiveUids(e.ts)) = Abs!Known(e.ts)
         /\ AsFunction(LiveUids(e.ts)) = Restrict(AsFunction(seen), Abs!Known(e.ts))
         /\ LiveUids(e.ts) \in Seq(SeenUid) /\ DistinctKeys(LiveUids(e.ts))
<1>1. /\ e.ts \in Int /\ e.ts - Window \in Int /\ e.ts - DedupTtl \in Int
      /\ Window \in Nat /\ DedupTtl \in Nat
  BY EventTimes, ConstantTypes
<1>2. UidWindow(Event, SeenUid, Window, e.ts, LiveObservations(e.ts), LiveUids(e.ts))
  BY ExpiryKeepsWindow
<1>3. /\ observations \in Seq(Event) /\ TimeSorted(observations)
      /\ seen \in Seq(SeenUid) /\ DistinctKeys(seen) /\ TimeSorted(seen)
  <2>1. CASE watermark = None
    <3>1. observations = <<>> /\ seen = <<>> /\ Len(<<>>) = 0 /\ 1 .. 0 = {}
      BY <2>1, EmptySeq DEF WindowInv
    <3> QED
      BY <3>1, EmptySeq DEF TimeSorted, DistinctKeys
  <2>2. CASE watermark # None
    BY <2>2 DEF WindowInv, UidWindow
  <2> QED
    BY <2>1, <2>2
<1>5. ToSet(LiveObservations(e.ts)) = Abs!Young(e.ts)
  <2>1. ToSet(LiveObservations(e.ts)) = {x \in ToSet(observations) : x.ts >= e.ts - Window}
    BY <1>1, <1>3, EventTimes, SetOfUnexpired DEF LiveObservations
  <2>2. \A x \in ToSet(observations) : x.ts \in Int
    BY <1>3, EventTimes, SetOf
  <2>3. \A x \in ToSet(observations) : x.ts >= e.ts - Window <=> e.ts - x.ts <= Window
    BY <1>1, <2>2
  <2> QED
    BY <2>1, <2>3 DEF Abs!Young
<1>6. /\ KeysOf(LiveUids(e.ts)) = Abs!Known(e.ts)
      /\ AsFunction(LiveUids(e.ts)) = Restrict(AsFunction(seen), Abs!Known(e.ts))
  <2>1. /\ KeysOf(LiveUids(e.ts)) =
             {k \in KeysOf(seen) : AsFunction(seen)[k] >= e.ts - DedupTtl}
        /\ AsFunction(LiveUids(e.ts)) = Restrict(AsFunction(seen), KeysOf(LiveUids(e.ts)))
    BY <1>1, <1>3, EventTimes, FunctionOfUnexpired DEF LiveUids
  <2>2. \A k \in KeysOf(seen) : AsFunction(seen)[k] \in Int
    BY <1>3, EventTimes, FunctionOf, ElementOfSeq
  <2>3. \A k \in KeysOf(seen) :
          AsFunction(seen)[k] >= e.ts - DedupTtl <=> e.ts - AsFunction(seen)[k] <= DedupTtl
    BY <1>1, <2>2
  <2>4. DOMAIN AsFunction(seen) = KeysOf(seen)
    BY <1>3, FunctionOf
  <2>5. KeysOf(LiveUids(e.ts)) = Abs!Known(e.ts)
    BY <2>1, <2>3, <2>4 DEF Abs!Known
  <2> QED
    BY <2>1, <2>5
<1>7. TargetsInv(LiveTargets(e.ts), LiveObservations(e.ts))
  BY <1>1, <1>3, ExpiryMatches DEF TargetsConsistent
<1> QED
  BY <1>2, <1>5, <1>6, <1>7 DEF UidWindow

\* The mapped lastAlert, before and after a step.
LEMMA CoolingIs ==
  /\ Cooling = Suppressing(Cooldown, watermark, cooldown)
  /\ Cooling' = Suppressing(Cooldown, watermark', cooldown')
BY DEF Cooling, Suppressing, StillCool

\* Whether or not the call expires the table, it has the same entries that suppress.
LEMMA AgedCooling ==
  ASSUME WindowInv, CooldownInv, NEW e \in Event, ~Regresses(e)
  PROVE  /\ Abs!Cooling(e.ts) = KeysOf(LiveCooldowns(e.ts))
         /\ Suppressing(Cooldown, e.ts, cooldown) = Restrict(Cooling, Abs!Cooling(e.ts))
         /\ Suppressing(Cooldown, e.ts, LiveCooldowns(e.ts))
              = Restrict(Cooling, Abs!Cooling(e.ts))
         /\ AsFunction(LiveCooldowns(e.ts)) = Restrict(Cooling, Abs!Cooling(e.ts))
<1>1. e.ts \in Int /\ Cooldown \in Nat
  BY EventTimes, ConstantTypes
<1>2. /\ CooldownTable(LastAlert, e.ts, cooldown)
      /\ cooldown = <<>> \/ (watermark \in Int /\ watermark <= e.ts)
  BY TimeKeepsCooldown
<1>3. Abs!Cooling(e.ts) = StillCool(Cooldown, e.ts, Cooling)
  BY DEF Abs!Cooling, StillCool
<1>4. Cooling = Suppressing(Cooldown, watermark, cooldown)
  BY CoolingIs
<1>5. LiveCooldowns(e.ts) = Unexpired(cooldown, e.ts - Cooldown + 1)
  BY DEF LiveCooldowns
<1> QED
  BY <1>1, <1>2, <1>3, <1>4, <1>5, AlertTimes, SuppressingAges

-----------------------------------------------------------------------------
\* Time passing drops targets, so it keeps their bound.  The bound of a target's
\* deque is part of TargetsInv.
Bounded == Cardinality(DOMAIN targets) <= MaxActiveTargets

LEMMA ExpiryKeepsBound ==
  ASSUME WindowInv, TargetsConsistent, Bounded, NEW e \in Event, ~Regresses(e)
  PROVE  /\ Cardinality(DOMAIN LiveTargets(e.ts)) <= MaxActiveTargets
         /\ IsFiniteSet(DOMAIN LiveTargets(e.ts))
<1> DEFINE q  == LiveObservations(e.ts)
           ts == LiveTargets(e.ts)
<1>1. /\ q \in Seq(Event) /\ DistinctUids(q) /\ TargetsInv(ts, q)
      /\ ToSet(q) = Abs!Young(e.ts)
  BY AgedWindow
<1>2. /\ observations \in Seq(Event) /\ DistinctUids(observations)
      /\ TargetsInv(targets, observations)
  BY WindowFacts DEF TargetsConsistent
<1>3. ToSet(q) \subseteq ToSet(observations)
  BY <1>1 DEF Abs!Young
<1> HIDE DEF q, ts
<1>4. DOMAIN ts = {TargetOf(o) : o \in ToSet(q)}
  BY <1>1, TargetsAsSet
<1>5. /\ DOMAIN targets = {TargetOf(o) : o \in ToSet(observations)}
      /\ IsFiniteSet(DOMAIN targets)
  BY <1>2, TargetsAsSet
<1>6. DOMAIN ts \in SUBSET DOMAIN targets
  BY <1>3, <1>4, <1>5
<1>7. /\ Cardinality(DOMAIN ts) <= Cardinality(DOMAIN targets)
      /\ Cardinality(DOMAIN targets) \in Nat /\ IsFiniteSet(DOMAIN ts)
  BY <1>5, <1>6, FS_Subset, FS_CardinalityType
<1>8. Cardinality(DOMAIN ts) \in Nat
  BY <1>7, FS_CardinalityType
<1> QED
  BY <1>7, <1>8, LimitAssumption DEF Bounded, ts

LEMMA BoundedStep ==
  ASSUME WindowInv, TargetsConsistent, Bounded, [Next]_vars
  PROVE  Bounded'
<1>1. ASSUME NEW e \in Event, RejectRegression(e) PROVE Bounded'
  BY <1>1 DEF RejectRegression, window, Bounded
<1>2. ASSUME NEW e \in Event, IgnoreDuplicate(e) \/ RejectAtLimit(e) PROVE Bounded'
  <2>1. targets' = LiveTargets(e.ts) /\ ~Regresses(e)
    BY <1>2 DEF IgnoreDuplicate, RejectAtLimit, ExpireWindow
  <2> QED
    BY <2>1, ExpiryKeepsBound DEF Bounded
<1>3. ASSUME NEW e \in Event, RecordQuietly(e) \/ RaiseAlert(e) PROVE Bounded'
  <2> DEFINE ts == LiveTargets(e.ts)
             k  == TargetOf(e)
  <2>1. targets' = Record(ts, e) /\ ~Regresses(e) /\ Admitted(e)
    BY <1>3 DEF RecordQuietly, RaiseAlert, Insert, Admitted
  <2>2. Cardinality(DOMAIN ts) <= MaxActiveTargets /\ IsFiniteSet(DOMAIN ts)
    BY <2>1, ExpiryKeepsBound
  <2>3. ~(k \notin DOMAIN ts /\ Cardinality(DOMAIN ts) >= MaxActiveTargets)
    BY <2>1 DEF Admitted, ExceededLimits
  <2>4. DOMAIN targets' = DOMAIN ts \cup {k}
    BY <2>1 DEF Record
  <2> HIDE DEF ts, k
  <2>5. Cardinality(DOMAIN ts) \in Nat /\ MaxActiveTargets \in Nat
    BY <2>2, FS_CardinalityType, LimitAssumption
  <2>6. Cardinality(DOMAIN ts \cup {k}) =
          IF k \in DOMAIN ts THEN Cardinality(DOMAIN ts) ELSE Cardinality(DOMAIN ts) + 1
    BY <2>2, FS_AddElement
  <2> QED
    BY <2>2, <2>3, <2>4, <2>5, <2>6 DEF Bounded
<1>4. ASSUME NEW e \in Event, RollBack(e) PROVE Bounded'
  <2>1. /\ targets' = ForgetNewest(Record(LiveTargets(e.ts), e), e)
        /\ ~Regresses(e) /\ Admitted(e)
    BY <1>4 DEF RollBack, Admitted
  <2>2. /\ TargetsInv(LiveTargets(e.ts), LiveObservations(e.ts))
        /\ LiveObservations(e.ts) \in Seq(Event)
    BY <2>1, AgedWindow
  <2>3. targets' = LiveTargets(e.ts)
    BY <2>1, <2>2, AdmittedHasRoom, UndoRecord
  <2> QED
    BY <2>1, <2>3, ExpiryKeepsBound DEF Bounded
<1>5. CASE UNCHANGED vars
  BY <1>5 DEF vars, window, Bounded
<1> QED
  BY <1>1, <1>2, <1>3, <1>4, <1>5 DEF Next, Process

LEMMA BoundInvariance == Spec => []Bounded
<1>1. Init => Bounded
  <2> SUFFICES ASSUME Init PROVE Bounded
    OBVIOUS
  <2>1. DOMAIN targets = {}
    BY DEF Init
  <2>2. Cardinality({}) = 0 /\ MaxActiveTargets \in Nat
    BY FS_EmptySet, LimitAssumption
  <2> QED
    BY <2>1, <2>2 DEF Bounded
<1>2. WindowInv /\ TargetsConsistent /\ Bounded /\ [Next]_vars => Bounded'
  BY BoundedStep
<1> QED
  BY <1>1, <1>2, WindowInvariance, TargetsInvariance, PTL DEF Spec

-----------------------------------------------------------------------------
\* The four limits of _preflight_limits, counted from scratch.
LEMMA FullIsExceeded ==
  ASSUME WindowInv, TargetsConsistent, Bounded, NEW e \in Event, ~Regresses(e)
  PROVE  /\ "max_active_targets" \in Abs!Full(e)
              <=> ExceededLimits(e).max_active_targets
         /\ "max_events_per_target" \in Abs!Full(e)
              <=> ExceededLimits(e).max_events_per_target
         /\ "max_total_events" \in Abs!Full(e)
              <=> ExceededLimits(e).max_total_events
         /\ "max_dedup_uids" \in Abs!Full(e)
              <=> ExceededLimits(e).max_dedup_uids
<1> DEFINE q  == LiveObservations(e.ts)
           ts == LiveTargets(e.ts)
           S  == Abs!Young(e.ts)
           D  == {TargetOf(o) : o \in S}
           k  == TargetOf(e)
<1>1. /\ q \in Seq(Event) /\ TimeSorted(q) /\ DistinctUids(q) /\ TargetsInv(ts, q)
      /\ ToSet(q) = S /\ KeysOf(LiveUids(e.ts)) = Abs!Known(e.ts)
      /\ LiveUids(e.ts) \in Seq(SeenUid) /\ DistinctKeys(LiveUids(e.ts))
  BY AgedWindow
<1>2. /\ ExceededLimits(e).max_active_targets
           <=> k \notin DOMAIN ts /\ Cardinality(DOMAIN ts) >= MaxActiveTargets
      /\ ExceededLimits(e).max_events_per_target
           <=> k \in DOMAIN ts /\ Len(ts[k].observations) >= MaxEventsPerTarget
      /\ ExceededLimits(e).max_total_events <=> Len(q) >= MaxTotalEvents
      /\ ExceededLimits(e).max_dedup_uids <=> Len(LiveUids(e.ts)) >= MaxDedupUids
  BY DEF ExceededLimits
<1>3. Cardinality(DOMAIN ts) <= MaxActiveTargets
  BY ExpiryKeepsBound
<1>4. Len(q) = Cardinality(S) /\ IsFiniteSet(S)
  BY <1>1, SizeOfSet
<1>5. Len(LiveUids(e.ts)) = Cardinality(Abs!Known(e.ts))
  BY <1>1, SizeOfKeys
<1> HIDE DEF q, ts, S
<1>6. DOMAIN ts = D /\ IsFiniteSet(D)
  BY <1>1, TargetsAsSet
<1>7. Cardinality(D) \in Nat /\ MaxActiveTargets \in Nat /\ MaxEventsPerTarget \in Nat \ {0}
  BY <1>6, FS_CardinalityType, LimitAssumption
<1>8. Cardinality({TargetOf(o) : o \in S \cup {e}}) > MaxActiveTargets
        <=> k \notin DOMAIN ts /\ Cardinality(DOMAIN ts) >= MaxActiveTargets
  <2>1. {TargetOf(o) : o \in S \cup {e}} = D \cup {k}
    OBVIOUS
  <2> HIDE DEF D, k
  <2>2. Cardinality(D \cup {k}) = IF k \in D THEN Cardinality(D) ELSE Cardinality(D) + 1
    BY <1>6, FS_AddElement
  <2>3. CASE k \in D
    <3>1. ~(Cardinality(D \cup {k}) > MaxActiveTargets)
      BY <1>3, <1>6, <1>7, <2>2, <2>3
    <3> QED
      BY <1>6, <2>1, <2>3, <3>1
  <2>4. CASE k \notin D
    <3>1. Cardinality(D \cup {k}) > MaxActiveTargets <=> Cardinality(D) >= MaxActiveTargets
      BY <1>7, <2>2, <2>4
    <3> QED
      BY <1>6, <2>1, <2>4, <3>1
  <2> QED
    BY <2>3, <2>4
<1>9. Cardinality(OfTarget(S, k)) >= MaxEventsPerTarget
        <=> k \in DOMAIN ts /\ Len(ts[k].observations) >= MaxEventsPerTarget
  <2>1. CASE k \in DOMAIN ts
    <3> HIDE DEF k
    <3> QED
      BY <1>1, <2>1, StateAsSet
  <2>2. CASE k \notin DOMAIN ts
    <3>1. OfTarget(S, k) = {}
      BY <1>6, <2>2 DEF OfTarget
    <3>2. Cardinality(OfTarget(S, k)) = 0
      BY <3>1, FS_EmptySet
    <3> QED
      BY <1>7, <2>2, <3>2
  <2> QED
    BY <2>1, <2>2
<1> DEFINE a1 == Cardinality({TargetOf(o) : o \in S \cup {e}}) > MaxActiveTargets
           a2 == Cardinality(OfTarget(S, k)) >= MaxEventsPerTarget
<1> HIDE DEF a1, a2
<1>10. "max_active_targets" \in Abs!Full(e) <=> a1
  BY SameOperators DEF Abs!Full, S, a1
<1>11. "max_events_per_target" \in Abs!Full(e) <=> a2
  BY SameOperators DEF Abs!Full, Abs!Group, OfTarget, S, a2
<1>12. "max_total_events" \in Abs!Full(e) <=> Cardinality(S) >= MaxTotalEvents
  BY SameOperators DEF Abs!Full, S
<1>13. "max_dedup_uids" \in Abs!Full(e) <=> Cardinality(Abs!Known(e.ts)) >= MaxDedupUids
  BY SameOperators DEF Abs!Full
<1> QED
  BY <1>2, <1>4, <1>5, <1>8, <1>9, <1>10, <1>11, <1>12, <1>13 DEF a1, a2

\* The state that _snapshot measures tells what the set of its observations does:
\* with the counts the same, the running sum is the sum of the set.
LEMMA SnapshotIsEvidence ==
  ASSUME WindowInv, TargetsConsistent, NEW e \in Event, Admitted(e)
  PROVE  /\ CrossesThreshold(Snapshot(e)) <=> IsFlood(Abs!Evidence(e))
         /\ AlertOf(e, Snapshot(e)) = FloodAlert(e, Abs!Evidence(e))
<1> DEFINE q   == LiveObservations(e.ts)
           q2  == Append(q, e)
           ts2 == Record(LiveTargets(e.ts), e)
           k   == TargetOf(e)
           own == ts2[k].observations
           E   == Abs!Evidence(e)
<1>1. /\ q \in Seq(Event) /\ TargetsInv(LiveTargets(e.ts), q) /\ ToSet(q) = Abs!Young(e.ts)
  BY AgedWindow DEF Admitted
<1>2. q2 \in Seq(Event) /\ TimeSorted(q2) /\ DistinctUids(q2)
  BY AdmissionKeepsWindow DEF UidWindow
<1>3. TargetsInv(ts2, q2) /\ k \in DOMAIN ts2 /\ Snapshot(e) = ts2[k]
  <2>1. TargetsInv(ts2, q2)
    BY <1>1, AdmittedHasRoom, RecordMatches
  <2> QED
    BY <2>1 DEF Record, Snapshot
<1>4. ToSet(q2) = Abs!Young(e.ts) \cup {e}
  BY <1>1, SetOfAppend
<1>5. E = OfTarget(Abs!Young(e.ts) \cup {e}, k)
  BY DEF Abs!Evidence, Abs!Group, OfTarget
<1> HIDE DEF q, q2, ts2, k
<1>6. /\ own \in Seq(Event) /\ ts2[k] = StateOf(own) /\ TimeSorted(own)
      /\ DistinctUids(own) /\ ToSet(own) = OfTarget(ToSet(q2), k)
  BY <1>2, <1>3, StateAsSet
<1>7. ToSet(own) = E /\ e \in E
  <2>1. e \in E
    BY DEF Abs!Evidence
  <2> QED
    BY <1>4, <1>5, <1>6, <2>1
<1>8. Snapshot(e) = StateOf(own)
  BY <1>3, <1>6
<1> HIDE DEF own, E
<1>9. /\ Len(own) = Cardinality(E) /\ E \subseteq Event
      /\ \A x : x \in E <=> \E i \in 1 .. Len(own) : x = own[i]
  BY <1>6, <1>7, SizeOfSet, SetOf
<1> DEFINE C == SourcesOf(own)
           A == [s \in SourcesIn(E) |-> Cardinality({o \in E : o.src = s})]
<1>10. \A o \in E : SourceField[o] = o.src
  BY <1>9 DEF SourceField
<1>11. /\ \A v : v \in DOMAIN C <=> \E x \in E : SourceField[x] = v
       /\ \A v \in DOMAIN C : C[v] = Cardinality({x \in E : SourceField[x] = v})
  BY <1>6, <1>7, TallyOfSet DEF SourcesOf
<1>12. C = [v \in DOMAIN C |-> C[v]]
  BY DEF SourcesOf, Tally
<1> HIDE DEF C
<1>13. C = A
  <2>1. \A v : v \in DOMAIN C <=> v \in SourcesIn(E)
    BY <1>10, <1>11 DEF SourcesIn
  <2>2. DOMAIN C = SourcesIn(E)
    BY <2>1
  <2>3. ASSUME NEW v \in DOMAIN C PROVE C[v] = A[v]
    <3>1. {x \in E : SourceField[x] = v} = {o \in E : o.src = v}
      BY <1>10
    <3> QED
      BY <1>11, <2>2, <3>1
  <2> QED
    BY <1>12, <2>2, <2>3
<1>14. DOMAIN A = SourcesIn(E)
  OBVIOUS
<1> HIDE DEF A
<1>15. StateOf(own) = [observations |-> own, sources |-> A, logSum |-> LogSum(A)]
  BY <1>13, StateOfIs DEF C
<1>16. Head(own).ts = Min({o.ts : o \in E})
  <2>1. own # <<>>
    BY <1>7, <1>9, EmptySeq
  <2> QED
    BY <1>6, <1>7, <2>1, EventTimes, FrontIsMin
<1>17. CrossesThreshold(StateOf(own)) <=> IsFlood(E)
  BY <1>9, <1>14, <1>15 DEF CrossesThreshold, IsFlood
<1>18. AlertOf(e, StateOf(own)) = FloodAlert(e, E)
  BY <1>9, <1>14, <1>15, <1>16 DEF AlertOf, FloodAlert, A
<1> QED
  BY <1>8, <1>17, <1>18 DEF E

-----------------------------------------------------------------------------
\* What the calls do to the sets, part by part.

\* The order check of observe.
LEMMA InOrderIs ==
  ASSUME WindowInv, NEW e \in Event
  PROVE  Abs!InOrder(e) <=> ~Regresses(e)
<1>1. e.ts \in Int /\ (watermark = None \/ watermark \in Int)
  BY EventTimes, TimeAssumption DEF WindowInv
<1> QED
  BY <1>1 DEF Abs!InOrder, Regresses

\* The two questions process asks of the cooldown table.
LEMMA SuppressedIs ==
  ASSUME WindowInv, CooldownInv, NEW e \in Event, ~Regresses(e)
  PROVE  /\ Suppressed(e) <=> TargetOf(e) \in Abs!Cooling(e.ts)
         /\ ~Suppressed(e) => (NoCooldownSlot(e) <=> ~Abs!Room(e))
<1> DEFINE cd == LiveCooldowns(e.ts)
<1>1. cd \in Seq(LastAlert) /\ DistinctKeys(cd)
  BY ExpiryKeepsCooldown DEF CooldownTable
<1>2. Len(cd) \in Nat /\ MaxCooldownTargets \in Nat
  BY <1>1, LenProperties, LimitAssumption
<1>3. KeysOf(cd) = Abs!Cooling(e.ts)
  BY AgedCooling
<1>4. Cardinality(Abs!Cooling(e.ts)) = Len(cd)
  BY <1>1, <1>3, SizeOfKeys
<1>5. Suppressed(e) <=> TargetOf(e) \in KeysOf(cd)
  BY SuppressedIsHeld
<1>6. NoCooldownSlot(e) <=> TargetOf(e) \notin KeysOf(cd) /\ Len(cd) >= MaxCooldownTargets
  BY DEF NoCooldownSlot
<1>7. Abs!Room(e) <=> Len(cd) < MaxCooldownTargets
  BY <1>4, SameOperators DEF Abs!Room
<1> HIDE DEF cd
<1> QED
  BY <1>2, <1>3, <1>5, <1>6, <1>7

\* A call that leaves no trace, whether or not it has expired the cooldown table.
LEMMA AgeStep ==
  ASSUME WindowInv, TargetsConsistent, CooldownInv, NEW e \in Event, ~Regresses(e),
         watermark' = e.ts, observations' = LiveObservations(e.ts),
         seen' = LiveUids(e.ts), cooldown' \in {cooldown, LiveCooldowns(e.ts)}
  PROVE  Abs!Age(e)
<1>1. Cooling' = Restrict(Cooling, Abs!Cooling(e.ts))
  BY CoolingIs, AgedCooling
<1> QED
  BY <1>1, AgedWindow, SameOperators DEF Abs!Age

\* A call that takes the event in.
LEMMA RememberStep ==
  ASSUME WindowInv, TargetsConsistent, NEW e \in Event, Admitted(e), Insert(e)
  PROVE  Abs!Remember(e)
<1> DEFINE q  == LiveObservations(e.ts)
           sn == LiveUids(e.ts)
           r  == Append(sn, Entry(e.uid, e.ts))
           K  == Abs!Known(e.ts)
<1>1. /\ q \in Seq(Event) /\ ToSet(q) = Abs!Young(e.ts)
      /\ sn \in Seq(SeenUid) /\ DistinctKeys(sn) /\ KeysOf(sn) = K
      /\ AsFunction(sn) = Restrict(AsFunction(seen), K) /\ e.uid \notin KeysOf(sn)
  BY AgedWindow DEF Admitted
<1>2. watermark' = e.ts /\ observations' = Append(q, e) /\ seen' = r
  BY DEF Insert, SeenEntry
<1>3. Entry(e.uid, e.ts) \in SeenUid
  BY EventTimes DEF SeenUid, Entry
<1> HIDE DEF q, sn, K
<1>4. ToSet(observations') = Abs!Young(e.ts) \cup {e}
  BY <1>1, <1>2, SetOfAppend
<1>5. /\ KeysOf(r) = K \cup {e.uid} /\ AsFunction(r)[e.uid] = e.ts
      /\ \A k \in K : AsFunction(r)[k] = AsFunction(sn)[k]
  BY <1>1, <1>3, FunctionOfAppend
<1> HIDE DEF r
<1>6. \A k \in K : AsFunction(sn)[k] = AsFunction(seen)[k]
  BY <1>1 DEF Restrict
<1>7. AsFunction(r) = [u \in KeysOf(r) |-> AsFunction(r)[u]]
  BY DEF AsFunction
<1>8. AsFunction(seen') = [u \in K \cup {e.uid} |->
                             IF u = e.uid THEN e.ts ELSE AsFunction(seen)[u]]
  BY <1>1, <1>2, <1>5, <1>6, <1>7
<1> QED
  BY <1>2, <1>4, <1>8 DEF Abs!Remember, K

\* Entering an alert in the cooldown table: with a zero cooldown the entry never
\* suppresses anything.
LEMMA CooldownStarts ==
  ASSUME WindowInv, CooldownInv, NEW e \in Event, ~Regresses(e), ~Suppressed(e),
         watermark' = e.ts, cooldown' = Put(LiveCooldowns(e.ts), TargetOf(e), e.ts)
  PROVE  Cooling' = [k \in Abs!Cooling(e.ts) \cup Abs!Silenced(e) |->
                       IF k = TargetOf(e) THEN e.ts ELSE Cooling[k]]
<1> DEFINE cd == LiveCooldowns(e.ts)
           K  == Abs!Cooling(e.ts)
           k0 == TargetOf(e)
           B  == Abs!Silenced(e)
<1>1. k0 \notin KeysOf(cd)
  BY SuppressedIsHeld
<1>2. cooldown' = Append(cd, Entry(k0, e.ts))
  BY <1>1 DEF Put
<1>3. cd \in Seq(LastAlert) /\ DistinctKeys(cd)
  BY ExpiryKeepsCooldown DEF CooldownTable
<1>4. Entry(k0, e.ts) \in LastAlert /\ e.ts \in Int /\ Cooldown \in Nat
  BY EventTimes, AlertTimes, ConstantTypes
<1>5. KeysOf(cd) = K /\ AsFunction(cd) = Restrict(Cooling, K)
  BY AgedCooling
<1>6. \A k \in K : k \in DOMAIN Cooling /\ e.ts - Cooling[k] < Cooldown
  BY DEF Abs!Cooling
<1>7. B = IF Cooldown = 0 THEN {} ELSE {k0}
  BY DEF Abs!Silenced
<1>8. Cooling' = Suppressing(Cooldown, e.ts, Append(cd, Entry(k0, e.ts)))
  BY <1>2, CoolingIs
<1> HIDE DEF cd, K, k0, B
<1>9. \A k \in K : AsFunction(cd)[k] = Cooling[k]
  BY <1>5 DEF Restrict
<1>10. Suppressing(Cooldown, e.ts, Append(cd, Entry(k0, e.ts)))
         = Started(Cooldown, e.ts, cd, k0)
  <2>1. \A k \in KeysOf(cd) : e.ts - AsFunction(cd)[k] < Cooldown
    BY <1>5, <1>6, <1>9
  <2> QED
    BY ONLY <1>1, <1>3, <1>4, <2>1, SuppressingStarts
<1>11. Cooling' = [k \in K \cup B |-> IF k = k0 THEN e.ts ELSE AsFunction(cd)[k]]
  BY <1>5, <1>7, <1>8, <1>10 DEF Started
<1>12. \A k \in K \cup B : k # k0 => AsFunction(cd)[k] = Cooling[k]
  BY <1>7, <1>9
<1>13. Cooling' = [k \in K \cup B |-> IF k = k0 THEN e.ts ELSE Cooling[k]]
  BY <1>11, <1>12
<1> QED
  BY <1>13 DEF K, k0, B

\* An event past the checks of observe is one the abstract detector has room for.
LEMMA AdmittedIs ==
  ASSUME WindowInv, TargetsConsistent, Bounded, NEW e \in Event, Admitted(e)
  PROVE  Abs!New(e) /\ Abs!Full(e) = {}
<1>1. ~Regresses(e) /\ e.uid \notin KeysOf(LiveUids(e.ts))
  BY DEF Admitted
<1>2. Abs!New(e)
  BY <1>1, InOrderIs, AgedWindow DEF Abs!New
<1>3. /\ ~ExceededLimits(e).max_active_targets
      /\ ~ExceededLimits(e).max_events_per_target
      /\ ~ExceededLimits(e).max_total_events
      /\ ~ExceededLimits(e).max_dedup_uids
  BY DEF Admitted, ExceededLimits
<1>4. Abs!Full(e) \subseteq {"max_active_targets", "max_events_per_target",
                             "max_total_events", "max_dedup_uids"}
  BY DEF Abs!Full
<1>5. Abs!Full(e) = {}
  BY <1>1, <1>3, <1>4, FullIsExceeded
<1> QED
  BY <1>2, <1>5

\* A limit of _preflight_limits: the first one in the order of the checks is one
\* of those with no room.
LEMMA OverflowStep ==
  ASSUME WindowInv, TargetsConsistent, CooldownInv, Bounded, NEW e \in Event,
         RejectAtLimit(e)
  PROVE  Abs!Overflow(e)
<1>1. ~Regresses(e) /\ e.uid \notin KeysOf(LiveUids(e.ts))
  BY DEF RejectAtLimit
<1>2. Abs!New(e)
  BY <1>1, InOrderIs, AgedWindow DEF Abs!New
<1>3. Abs!Age(e)
  BY <1>1, AgeStep DEF RejectAtLimit, ExpireWindow
<1>4. PICK n \in DOMAIN CheckOrder :
        ExceededLimits(e)[CheckOrder[n]] /\ result' = Exceeded(CheckOrder[n])
  BY DEF RejectAtLimit
<1>5. CheckOrder[n] \in {"max_active_targets", "max_events_per_target",
                         "max_total_events", "max_dedup_uids"}
  <2>1. n \in 1 .. 4
    BY <1>4 DEF CheckOrder
  <2>2. n = 1 \/ n = 2 \/ n = 3 \/ n = 4
    BY <2>1
  <2> QED
    BY <2>2 DEF CheckOrder
<1> DEFINE l == CheckOrder[n]
<1>6. ExceededLimits(e)[l] /\ result' = Exceeded(l)
  BY <1>4
<1> HIDE DEF l
<1>7. l \in Abs!Full(e)
  <2>1. CASE l = "max_active_targets"
    BY <1>1, <1>6, <2>1, FullIsExceeded
  <2>2. CASE l = "max_events_per_target"
    BY <1>1, <1>6, <2>2, FullIsExceeded
  <2>3. CASE l = "max_total_events"
    BY <1>1, <1>6, <2>3, FullIsExceeded
  <2>4. CASE l = "max_dedup_uids"
    BY <1>1, <1>6, <2>4, FullIsExceeded
  <2> QED
    BY <1>5, <2>1, <2>2, <2>3, <2>4 DEF l
<1>8. result' = Abs!Exceeded(l)
  BY <1>6 DEF Abs!Exceeded, Exceeded
<1> QED
  BY <1>2, <1>3, <1>7, <1>8 DEF Abs!Overflow

\* Every call of SynFloodDetector.process is a step of the abstract detector.
LEMMA RefinementStep ==
  ASSUME WindowInv, TargetsConsistent, CooldownInv, Bounded, [Next]_vars
  PROVE  [Abs!Next]_(Abs!vars)
<1>1. ASSUME NEW e \in Event, RejectRegression(e) PROVE Abs!Refuse(e)
  <2>1. /\ watermark' = watermark /\ observations' = observations /\ seen' = seen
        /\ cooldown' = cooldown /\ result' = Regressed /\ Regresses(e)
    BY <1>1 DEF RejectRegression, window
  <2>2. Cooling' = Cooling
    BY <2>1, CoolingIs
  <2> QED
    BY <2>1, <2>2, InOrderIs DEF Abs!Refuse, Regressed
<1>2. ASSUME NEW e \in Event, IgnoreDuplicate(e) PROVE Abs!Repeat(e)
  <2>1. /\ ~Regresses(e) /\ e.uid \in KeysOf(LiveUids(e.ts)) /\ ExpireWindow(e.ts)
        /\ cooldown' = LiveCooldowns(e.ts) /\ result' = Nothing
    BY <1>2 DEF IgnoreDuplicate
  <2>2. Abs!Age(e)
    BY <2>1, AgeStep DEF ExpireWindow
  <2>3. Abs!InOrder(e) /\ e.uid \in Abs!Known(e.ts)
    BY <2>1, InOrderIs, AgedWindow
  <2> QED
    BY <2>1, <2>2, <2>3 DEF Abs!Repeat, Abs!Nothing, Nothing
<1>3. ASSUME NEW e \in Event, RecordQuietly(e) PROVE Abs!Admit(e)
  <2>1. /\ Admitted(e) /\ ~Regresses(e) /\ Insert(e) /\ watermark' = e.ts
        /\ cooldown' = LiveCooldowns(e.ts) /\ result' = Nothing
        /\ ~CrossesThreshold(Snapshot(e)) \/ Suppressed(e)
    BY <1>3 DEF RecordQuietly, Admitted, Insert
  <2>2. Cooling' = Abs!Restrict(Cooling, Abs!Cooling(e.ts))
    BY <2>1, CoolingIs, AgedCooling, SameOperators
  <2>3. ~Abs!Due(e)
    BY <2>1, SnapshotIsEvidence, SuppressedIs DEF Abs!Due
  <2> QED
    BY <2>1, <2>2, <2>3, AdmittedIs, RememberStep DEF Abs!Admit, Abs!Nothing, Nothing
<1>4. ASSUME NEW e \in Event, RollBack(e) PROVE Abs!Withdraw(e)
  <2>1. /\ Admitted(e) /\ ~Regresses(e) /\ watermark' = e.ts
        /\ CrossesThreshold(Snapshot(e)) /\ ~Suppressed(e) /\ NoCooldownSlot(e)
        /\ cooldown' = LiveCooldowns(e.ts) /\ result' = Exceeded("max_cooldown_targets")
    BY <1>4 DEF RollBack, Admitted
  <2>2. Abs!Age(e)
    BY <1>4, <2>1, AgeStep, RollBackRestores
  <2>3. Abs!Due(e) /\ ~Abs!Room(e)
    BY <2>1, SnapshotIsEvidence, SuppressedIs DEF Abs!Due
  <2> QED
    BY <2>1, <2>2, <2>3, AdmittedIs DEF Abs!Withdraw, Abs!Exceeded, Exceeded
<1>5. ASSUME NEW e \in Event, RaiseAlert(e) PROVE Abs!Raise(e)
  <2>1. /\ Admitted(e) /\ ~Regresses(e) /\ Insert(e) /\ watermark' = e.ts
        /\ CrossesThreshold(Snapshot(e)) /\ ~Suppressed(e) /\ ~NoCooldownSlot(e)
        /\ cooldown' = Put(LiveCooldowns(e.ts), TargetOf(e), e.ts)
        /\ result' = AlertOf(e, Snapshot(e))
    BY <1>5 DEF RaiseAlert, Admitted, Insert
  <2>2. Abs!Due(e) /\ Abs!Room(e)
    BY <2>1, SnapshotIsEvidence, SuppressedIs DEF Abs!Due
  <2>3. result' = FloodAlert(e, Abs!Evidence(e))
    BY <2>1, SnapshotIsEvidence
  <2> QED
    BY <2>1, <2>2, <2>3, AdmittedIs, RememberStep, CooldownStarts DEF Abs!Raise
<1>6. CASE UNCHANGED vars
  <2>1. Cooling' = Cooling
    BY <1>6, CoolingIs DEF vars, window
  <2> QED
    BY <1>6, <2>1 DEF vars, window, Abs!vars
<1> QED
  BY <1>1, <1>2, <1>3, <1>4, <1>5, <1>6, OverflowStep DEF Next, Process, Abs!Next

\* A new SynFloodDetector maps to an empty abstract detector.
LEMMA RefinementInit == Init => Abs!Init
<1> SUFFICES ASSUME Init PROVE Abs!Init
  OBVIOUS
<1>1. /\ observations = <<>> /\ seen = <<>> /\ cooldown = <<>>
      /\ watermark = None /\ result = Nothing
  BY DEF Init
<1>2. AsFunction(<<>>) = << >> /\ DOMAIN AsFunction(<<>>) = {}
  <2>1. KeysOf(<<>>) = {}
    BY DEF KeysOf
  <2> QED
    BY <2>1 DEF AsFunction
<1>3. ToSet(<<>>) = {}
  BY DEF ToSet
<1>4. Cooling = << >>
  BY <1>1, <1>2 DEF Cooling, Restrict
<1> QED
  BY <1>1, <1>2, <1>3, <1>4 DEF Abs!Init, Abs!Nothing, Nothing

\* SynFloodDetector admits, ignores, rejects and alerts exactly when counting the
\* events of the last Window microseconds from scratch would, with the same
\* evidence and the same entropy: for every configuration that SynFloodConfig and
\* SynFloodStateLimits accept, the deques, counters, running sums and ordered
\* dictionaries implement the sets of DetectorAbs.
THEOREM SetsAreImplemented == Spec => ImplementsAbs
<1>1. WindowInv /\ TargetsConsistent /\ CooldownInv /\ Bounded /\ [Next]_vars
        => [Abs!Next]_(Abs!vars)
  BY RefinementStep
<1> QED
  BY <1>1, RefinementInit, WindowInvariance, TargetsInvariance, CooldownInvariance,
     BoundInvariance, PTL DEF Spec, ImplementsAbs, Abs!Spec
=============================================================================
