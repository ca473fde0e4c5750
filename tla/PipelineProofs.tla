--------------------------- MODULE PipelineProofs ---------------------------
(***************************************************************************)
(* The two detectors of a pipeline and their watermarks, for every set of   *)
(* events and every configuration; and the DGA alerts of a pipeline, for    *)
(* query names of any length.                                               *)
(*                                                                         *)
(* The argument.  Each watermark is that of an event, and the flood          *)
(* detector takes an event only when the scan detector has taken it and      *)
(* raised nothing.  Then the scan watermark is the event's time and was not  *)
(* later; the flood watermark, which was not ahead of it, is not later       *)
(* either, so the flood detector finds no regression and takes that time     *)
(* too, whatever its limits decide.                                         *)
(*                                                                         *)
(* The other argument follows a name through the loops of the code: where   *)
(* each label lies in the name (Placed), which runs the counters have seen  *)
(* (Counted, LongestIn, LongestOf), and so what the features of an alert    *)
(* are; the state keeps only that each alert was made for some name.        *)
(***************************************************************************)
EXTENDS Pipeline, TimedQueueProofs \* for its lemmas about loops and finite sets

\* FloodFollowsScan is inductive once the watermarks have their types, which its
\* comparison needs.
WatermarkTypes ==
  scanWatermark \in Time \cup {None} /\ floodWatermark \in Time \cup {None}
IInv == WatermarkTypes /\ FloodFollowsScan

\* The scan detector refuses an event older than its watermark and keeps the
\* watermark; it takes the time of any other event, whether it then ignores,
\* rejects, records or rolls back the event.
LEMMA ScanTakesTime ==
  ASSUME NEW e \in Scan!Event, Scan!Process(e)
  PROVE  \/ Raised(scanResult') /\ scanWatermark' = scanWatermark
         \/ /\ scanWatermark # None => ~(e.ts < scanWatermark)
            /\ scanWatermark' = e.ts
<1>1. CASE Scan!RejectRegression(e)
  BY <1>1 DEF Scan!RejectRegression, Scan!Regressed, Scan!window, Raised
<1>2. CASE Scan!IgnoreDuplicate(e)
  BY <1>2 DEF Scan!IgnoreDuplicate, Scan!ExpireWindow, Scan!Regresses
<1>3. CASE Scan!RejectAtLimit(e)
  BY <1>3 DEF Scan!RejectAtLimit, Scan!ExpireWindow, Scan!Regresses
<1>4. CASE Scan!RecordQuietly(e)
  BY <1>4 DEF Scan!RecordQuietly, Scan!Admitted, Scan!Insert, Scan!Regresses
<1>5. CASE Scan!RollBack(e)
  BY <1>5 DEF Scan!RollBack, Scan!Admitted, Scan!Regresses
<1>6. CASE Scan!RaiseAlert(e)
  BY <1>6 DEF Scan!RaiseAlert, Scan!Admitted, Scan!Insert, Scan!Regresses
<1> QED
  BY <1>1, <1>2, <1>3, <1>4, <1>5, <1>6 DEF Scan!Process

\* The flood detector takes the time of every event that is not older than its
\* watermark, and answers it with anything but a regression.
LEMMA FloodTakesTime ==
  ASSUME NEW e, Flood!Process(e), ~Flood!Regresses(e)
  PROVE  floodWatermark' = e.ts /\ floodResult'.kind # "regression"
<1>1. CASE Flood!RejectRegression(e)
  BY <1>1 DEF Flood!RejectRegression
<1>2. CASE Flood!IgnoreDuplicate(e)
  BY <1>2 DEF Flood!IgnoreDuplicate, Flood!ExpireWindow, Flood!Nothing
<1>3. CASE Flood!RejectAtLimit(e)
  BY <1>3 DEF Flood!RejectAtLimit, Flood!ExpireWindow, Flood!Exceeded
<1>4. CASE Flood!RecordQuietly(e)
  BY <1>4 DEF Flood!RecordQuietly, Flood!Insert, Flood!Nothing
<1>5. CASE Flood!RollBack(e)
  BY <1>5 DEF Flood!RollBack, Flood!Exceeded
<1>6. CASE Flood!RaiseAlert(e)
  BY <1>6 DEF Flood!RaiseAlert, Flood!Insert, Flood!AlertOf
<1> QED
  BY <1>1, <1>2, <1>3, <1>4, <1>5, <1>6 DEF Flood!Process

LEMMA EventTime ==
  ASSUME NEW e \in Scan!Event
  PROVE  e.ts \in Time /\ e.ts \in Int /\ e.ts # None
BY TimeAssumption DEF Scan!Event

LEMMA InitIInv ==
  ASSUME Init
  PROVE  IInv
BY DEF Init, Scan!Init, Flood!Init, Flood!Nothing, IInv, WatermarkTypes, FloodFollowsScan

\* A call that stops at the scan detector leaves the flood detector as it was.
LEMMA ScanRaisesKeeps ==
  ASSUME IInv, NEW e \in Scan!Event, ScanRaises(e)
  PROVE  IInv'
<1>1. /\ Scan!Process(e)
      /\ floodWatermark' = floodWatermark /\ floodResult' = floodResult
  BY DEF ScanRaises, floodVars
<1>2. CASE scanWatermark' = scanWatermark
  BY <1>1, <1>2 DEF IInv, WatermarkTypes, FloodFollowsScan
<1>3. CASE /\ scanWatermark # None => ~(e.ts < scanWatermark)
           /\ scanWatermark' = e.ts
  <2>1. ASSUME floodWatermark # None
        PROVE  scanWatermark' # None /\ floodWatermark <= scanWatermark'
    <3>1. /\ scanWatermark # None /\ floodWatermark <= scanWatermark
          /\ scanWatermark \in Int /\ floodWatermark \in Int
      BY <2>1, TimeAssumption DEF IInv, WatermarkTypes, FloodFollowsScan
    <3> QED
      BY <1>3, <3>1, EventTime
  <2> QED
    BY <1>1, <1>3, <2>1, EventTime DEF IInv, WatermarkTypes, FloodFollowsScan
<1> QED
  BY <1>1, <1>2, <1>3, ScanTakesTime

\* A call that reaches the flood detector brings both watermarks to the event.
LEMMA BothTakeTime ==
  ASSUME IInv, NEW e \in Scan!Event, Scan!Process(e), ~Raised(scanResult'),
         Flood!Process(e)
  PROVE  IInv'
<1>1. /\ scanWatermark # None => ~(e.ts < scanWatermark)
      /\ scanWatermark' = e.ts
  BY ScanTakesTime
<1>2. ~Flood!Regresses(e)
  <2>1. SUFFICES ASSUME floodWatermark # None PROVE ~(e.ts < floodWatermark)
    BY DEF Flood!Regresses
  <2>2. /\ scanWatermark # None /\ floodWatermark <= scanWatermark
        /\ scanWatermark \in Int /\ floodWatermark \in Int
    BY <2>1, TimeAssumption DEF IInv, WatermarkTypes, FloodFollowsScan
  <2> QED
    BY <1>1, <2>2, EventTime
<1>3. floodWatermark' = e.ts /\ floodResult'.kind # "regression"
  BY <1>2, FloodTakesTime
<1> QED
  BY <1>1, <1>3, EventTime DEF IInv, WatermarkTypes, FloodFollowsScan

LEMMA NextIInv ==
  ASSUME IInv, [Next]_vars
  PROVE  IInv'
<1>1. ASSUME NEW d \in DnsEvent, ProcessDns(d) PROVE IInv'
  BY <1>1 DEF ProcessDns, scanVars, floodVars, IInv, WatermarkTypes, FloodFollowsScan
<1>2. ASSUME NEW e \in Scan!Event, ScanRaises(e) PROVE IInv'
  BY <1>2, ScanRaisesKeeps
<1>3. ASSUME NEW e \in Scan!Event, FloodRaises(e) PROVE IInv'
  BY <1>3, BothTakeTime DEF FloodRaises
<1>4. ASSUME NEW e \in Scan!Event, BothReturn(e) PROVE IInv'
  BY <1>4, BothTakeTime DEF BothReturn
<1>5. CASE UNCHANGED vars
  BY <1>5 DEF vars, scanVars, floodVars, IInv, WatermarkTypes, FloodFollowsScan
<1> QED
  BY <1>1, <1>2, <1>3, <1>4, <1>5 DEF Next, ProcessSyn

THEOREM Invariance == Spec => []IInv
<1>1. Init => IInv
  BY InitIInv
<1>2. IInv /\ [Next]_vars => IInv'
  BY NextIInv
<1> QED
  BY <1>1, <1>2, PTL DEF Spec

\* The flood detector's watermark is never ahead of the scan detector's and it
\* raises no regression, for every configuration of either and any order of
\* SYN attempts and DNS queries: the pipeline needs the one check.
THEOREM FloodIsNeverAhead == Spec => []FloodFollowsScan
<1>1. IInv => FloodFollowsScan
  BY DEF IInv
<1> QED
  BY <1>1, Invariance, PTL

-----------------------------------------------------------------------------
(* A pipeline runs its detectors as their own specifications say.            *)

LEMMA ScanStep ==
  ASSUME [Next]_vars
  PROVE  [Scan!Next]_(Scan!vars)
<1>1. CASE \E e \in Scan!Event : ProcessSyn(e)
  BY <1>1 DEF ProcessSyn, ScanRaises, FloodRaises, BothReturn, Scan!Next
<1>2. CASE (\E d \in DnsEvent : ProcessDns(d)) \/ UNCHANGED vars
  BY <1>2 DEF ProcessDns, vars, scanVars, Scan!vars
<1> QED
  BY <1>1, <1>2 DEF Next

LEMMA FloodStep ==
  ASSUME [Next]_vars
  PROVE  [Flood!Next]_(Flood!vars)
<1>1. CASE \E e \in Scan!Event : FloodRaises(e) \/ BothReturn(e)
  BY <1>1 DEF FloodRaises, BothReturn, Flood!Next, Flood!Event, Scan!Event
<1>2. CASE \E e \in Scan!Event : ScanRaises(e)
  BY <1>2 DEF ScanRaises, floodVars, Flood!vars
<1>3. CASE (\E d \in DnsEvent : ProcessDns(d)) \/ UNCHANGED vars
  BY <1>3 DEF ProcessDns, vars, floodVars, Flood!vars
<1> QED
  BY <1>1, <1>2, <1>3 DEF Next, ProcessSyn

\* Seen from either detector, what the pipeline does is a sequence of calls of
\* that detector alone: the event that the scan detector refuses is one the flood
\* detector never had, and a DNS query touches neither.  So what holds of
\* PortScan and of SynFlood on their own holds of them in the pipeline.
THEOREM DetectorsAreImplemented == Spec => Scan!Spec /\ Flood!Spec
<1>1. Init => Scan!Init /\ Flood!Init
  BY DEF Init
<1>2. [Next]_vars => [Scan!Next]_(Scan!vars)
  BY ScanStep
<1>3. [Next]_vars => [Flood!Next]_(Flood!vars)
  BY FloodStep
<1> QED
  BY <1>1, <1>2, <1>3, PTL DEF Spec, Scan!Spec, Flood!Spec

-----------------------------------------------------------------------------
(* The names, the features and the alerts of DNS queries.                    *)

\* What Max chooses: the one member that no other exceeds.
LEMMA MaxIs ==
  ASSUME NEW S \in SUBSET Int, NEW m \in S, \A y \in S : y <= m
  PROVE  Max(S) = m
<1>1. \A x \in S : (\A y \in S : x >= y) => x = m
  OBVIOUS
<1>2. \A y \in S : m >= y
  OBVIOUS
<1> QED
  BY <1>1, <1>2 DEF Max

\* A set of numbers with a bound has such a member.
LEMMA MaxOfBounded ==
  ASSUME NEW S \in SUBSET Nat, S # {}, NEW b \in Nat, \A y \in S : y <= b
  PROVE  Max(S) \in S /\ \A y \in S : y <= Max(S)
<1> DEFINE U == {u \in Nat : \A y \in S : y <= u}
<1>1. U \in SUBSET Nat /\ U # {}
  BY b \in U
<1>2. PICK u \in U : \A w \in U : u <= w
  BY <1>1, LeastNatural
<1>3. u \in S
  <2> SUFFICES ASSUME u \notin S PROVE FALSE
    OBVIOUS
  <2>1. \A y \in S : y < u
    BY <1>2
  <2>2. u - 1 \in Nat
    <3>1. PICK y \in S : y < u
      BY <2>1
    <3> QED
      BY <1>2, <3>1
  <2>3. u - 1 \in U
    BY <1>2, <2>1, <2>2
  <2> QED
    BY <1>2, <2>3
<1> QED
  BY <1>2, <1>3, MaxIs

\* The larger of two.
LEMMA MaxOfTwo ==
  ASSUME NEW a \in Nat, NEW b \in Nat
  PROVE  /\ Max({a, b}) \in Nat /\ Max({a, b}) \in {a, b}
         /\ a <= Max({a, b}) /\ b <= Max({a, b})
<1>1. Max({a, b}) = IF a <= b THEN b ELSE a
  <2>1. CASE a <= b
    <3>1. {a, b} \in SUBSET Int /\ b \in {a, b} /\ \A y \in {a, b} : y <= b
      BY <2>1
    <3> QED
      BY ONLY <2>1, <3>1, MaxIs
  <2>2. CASE ~(a <= b)
    <3>1. {a, b} \in SUBSET Int /\ a \in {a, b} /\ \A y \in {a, b} : y <= a
      BY <2>2
    <3> QED
      BY ONLY <2>2, <3>1, MaxIs
  <2> QED
    BY <2>1, <2>2
<1> QED
  BY <1>1

-----------------------------------------------------------------------------
(* The labels of a name. *)

\* Sequences of characters, and lists of labels: at least one, perhaps empty.
Names      == Seq(Char)
LabelLists == Seq(Names) \ {<<>>}

\* One turn of split.
Cut(ls, c) ==
  IF c = "." THEN Append(ls, <<>>) ELSE [ls EXCEPT ![Len(ls)] = Append(@, c)]

\* One turn of split keeps a list of labels, the last of which may be empty.
LEMMA CutIs ==
  ASSUME NEW ls \in LabelLists, NEW c \in Char
  PROVE  /\ Cut(ls, c) \in LabelLists /\ Len(ls) \in Nat \ {0}
         /\ c = "." => /\ Len(Cut(ls, c)) = Len(ls) + 1
                       /\ Cut(ls, c)[Len(ls) + 1] = <<>>
                       /\ \A k \in 1 .. Len(ls) : Cut(ls, c)[k] = ls[k]
         /\ c # "." => /\ Len(Cut(ls, c)) = Len(ls)
                       /\ Cut(ls, c)[Len(ls)] = Append(ls[Len(ls)], c)
                       /\ \A k \in 1 .. Len(ls) - 1 : Cut(ls, c)[k] = ls[k]
<1>1. ls \in Seq(Names) /\ Len(ls) \in Nat \ {0}
  BY EmptySeq, LenProperties DEF LabelLists
<1>2. CASE c = "."
  <2>1. <<>> \in Names /\ Cut(ls, c) = Append(ls, <<>>)
    BY <1>2 DEF Names, Cut
  <2> QED
    BY <1>1, <1>2, <2>1, AppendProperties, EmptySeq DEF LabelLists
<1>3. CASE c # "."
  <2>1. ls[Len(ls)] \in Names
    BY <1>1, ElementOfSeq
  <2>2. Append(ls[Len(ls)], c) \in Names
    BY <2>1, AppendProperties DEF Names
  <2>3. Cut(ls, c) = [ls EXCEPT ![Len(ls)] = Append(ls[Len(ls)], c)]
    BY <1>3 DEF Cut
  <2>4. /\ Cut(ls, c) \in Seq(Names) /\ Len(Cut(ls, c)) = Len(ls)
        /\ \A k \in 1 .. Len(ls) : Cut(ls, c)[k] = IF k = Len(ls) THEN Append(ls[Len(ls)], c)
                                                    ELSE ls[k]
    BY <1>1, <2>2, <2>3
  <2> HIDE DEF Names
  <2>5. Cut(ls, c) \in LabelLists
    BY <1>1, <2>4, EmptySeq DEF LabelLists
  <2>6. \A k \in 1 .. Len(ls) - 1 : k \in 1 .. Len(ls) /\ k # Len(ls)
    BY <1>1
  <2>7. Len(ls) \in 1 .. Len(ls)
    BY <1>1
  <2>8. Cut(ls, c)[Len(ls)] = Append(ls[Len(ls)], c)
    BY <2>4, <2>7
  <2>9. \A k \in 1 .. Len(ls) - 1 : Cut(ls, c)[k] = ls[k]
    BY <2>4, <2>6
  <2> QED
    BY <1>1, <1>3, <2>4, <2>5, <2>8, <2>9
<1> QED
  BY <1>2, <1>3

\* The labels of a name are what is cut of it after its last character.
LEMMA LabelsAreCut ==
  ASSUME NEW n \in Names
  PROVE  \E cut \in [0 .. Len(n) -> LabelLists] :
           /\ cut[0] = << <<>> >> /\ Labels(n) = cut[Len(n)]
           /\ \A i \in 1 .. Len(n) : cut[i] = Cut(cut[i - 1], n[i])
<1> DEFINE N == Len(n)
           Loop(f) == [i \in 0 .. N |->
                         IF i = 0 THEN << <<>> >>
                         ELSE IF n[i] = "." THEN Append(f[i - 1], <<>>)
                         ELSE [f[i - 1] EXCEPT ![Len(f[i - 1])] = Append(@, n[i])]]
           cut == CHOOSE f : f = Loop(f)
           first == << <<>> >>
           turn == [p \in (1 .. N) \X LabelLists |-> Cut(p[2], n[p[1]])]
<1>1. N \in Nat /\ \A i \in 1 .. N : n[i] \in Char
  BY ElementOfSeq, LenProperties DEF Names
<1>2. turn \in [(1 .. N) \X LabelLists -> LabelLists]
  BY <1>1, CutIs
<1>3. first \in LabelLists
  BY DEF LabelLists, Names
<1>4. PICK f : Iterates(f, N, LabelLists, first, turn)
  <2> HIDE DEF turn, N, first
  <2> QED
    BY <1>1, <1>2, <1>3, LoopExists
<1>5. ASSUME NEW i \in 1 .. N PROVE f[i] = Cut(f[i - 1], n[i])
  <2>1. i - 1 \in 0 .. N
    BY <1>1
  <2>2. f[i - 1] \in LabelLists
    BY <1>4, <2>1 DEF Iterates
  <2> QED
    BY <1>4, <2>2 DEF Iterates
<1>6. f = Loop(f)
  <2>1. \A i \in 0 .. N : f[i] = Loop(f)[i]
    <3> TAKE i \in 0 .. N
    <3>1. CASE i = 0
      BY <1>4, <3>1 DEF Iterates
    <3>2. CASE i # 0
      <4>1. i \in 1 .. N
        BY <1>1, <3>2
      <4>2. Loop(f)[i] = Cut(f[i - 1], n[i])
        BY <3>2 DEF Cut
      <4> QED
        BY <1>5, <4>1, <4>2
    <3> QED
      BY <3>1, <3>2
  <2> QED
    BY <1>4, <2>1 DEF Iterates
<1>7. cut = Loop(cut)
  BY <1>6
<1>8. Labels(n) = cut[N]
  BY DEF Labels
<1> HIDE DEF cut
<1>9. /\ cut[0] = << <<>> >>
      /\ \A i \in 1 .. N : cut[i] = Cut(cut[i - 1], n[i])
  <2>1. cut[0] = << <<>> >>
    BY <1>1, <1>7
  <2>2. ASSUME NEW i \in 1 .. N PROVE cut[i] = Cut(cut[i - 1], n[i])
    <3>1. i \in 0 .. N /\ i # 0
      BY <1>1
    <3> QED
      BY <1>7, <3>1 DEF Cut
  <2> QED
    BY <2>1, <2>2
<1> DEFINE T == {i \in 0 .. N : cut[i] = f[i]}
<1>10. 0 .. N \subseteq T
  <2>1. 0 \in T
    BY <1>1, <1>4, <1>9 DEF Iterates
  <2>2. ASSUME NEW i \in 0 .. N - 1, i \in T PROVE i + 1 \in T
    <3>1. i + 1 \in 1 .. N /\ (i + 1) - 1 = i /\ i + 1 \in 0 .. N
      BY <1>1
    <3>2. cut[i + 1] = Cut(cut[i], n[i + 1]) /\ f[i + 1] = Cut(f[i], n[i + 1])
      BY <1>5, <1>9, <3>1
    <3> QED
      BY <2>2, <3>1, <3>2
  <2> HIDE DEF T, N
  <2> QED
    BY <1>1, <2>1, <2>2, InductionUpTo
<1>11. cut = f
  <2>1. f = [i \in 0 .. N |-> f[i]] /\ cut = [i \in 0 .. N |-> cut[i]]
    BY <1>4, <1>7 DEF Iterates
  <2>2. \A i \in 0 .. N : cut[i] = f[i]
    BY <1>10
  <2> HIDE DEF Loop
  <2> QED
    BY <2>1, <2>2
<1> QED
  BY <1>4, <1>5, <1>8, <1>11 DEF Iterates

\* Where the labels are in the first i characters of a name: label k follows place
\* off[k], no label has a dot, the last one goes up to i from a dot or from the
\* beginning, and characters between which there is no dot are in one label.
Placed(ls, n, i, off) ==
  /\ \A k \in 1 .. Len(ls) : off[k] \in Int /\ \A j \in 1 .. Len(ls[k]) :
       off[k] + j \in 1 .. i /\ ls[k][j] = n[off[k] + j] /\ ls[k][j] # "."
  /\ off[Len(ls)] \in 0 .. i /\ off[Len(ls)] + Len(ls[Len(ls)]) = i
  /\ off[Len(ls)] # 0 => n[off[Len(ls)]] = "."
  /\ \A a, b \in 1 .. i : a <= b /\ (\A p \in a .. b : n[p] # ".") =>
       \E k \in 1 .. Len(ls) : off[k] < a /\ b <= off[k] + Len(ls[k])

\* Before the first character.
LEMMA PlacedFirst ==
  ASSUME NEW n
  PROVE  \E off : Placed(<< <<>> >>, n, 0, off)
<1>1. Placed(<< <<>> >>, n, 0, [k \in 1 .. 1 |-> 0])
  BY DEF Placed
<1> QED
  BY <1>1

\* A dot ends a label and begins the next.
LEMMA PlacedDot ==
  ASSUME NEW n \in Names, NEW i \in Nat, i + 1 \in 1 .. Len(n), n[i + 1] = ".",
         NEW ls \in LabelLists, NEW off, Placed(ls, n, i, off)
  PROVE  \E new : Placed(Cut(ls, n[i + 1]), n, i + 1, new)
<1> DEFINE L  == Len(ls)
           l2 == Cut(ls, n[i + 1])
           o2 == [k \in 1 .. L + 1 |-> IF k = L + 1 THEN i + 1 ELSE off[k]]
<1>1. n[i + 1] \in Char
  BY ElementOfSeq DEF Names
<1>2. /\ L \in Nat \ {0} /\ Len(l2) = L + 1 /\ l2[L + 1] = <<>>
      /\ \A k \in 1 .. L : l2[k] = ls[k]
  BY <1>1, CutIs
<1>3. o2[L + 1] = i + 1 /\ \A k \in 1 .. L : o2[k] = off[k]
  BY <1>2
<1>4. Len(<<>>) = 0 /\ 1 .. 0 = {}
  OBVIOUS
<1> HIDE DEF l2, o2
<1>5. ASSUME NEW k \in 1 .. L + 1
      PROVE  o2[k] \in Int /\ \A j \in 1 .. Len(l2[k]) :
               o2[k] + j \in 1 .. i + 1 /\ l2[k][j] = n[o2[k] + j] /\ l2[k][j] # "."
  <2>1. CASE k = L + 1
    BY <1>2, <1>3, <1>4, <2>1
  <2>2. CASE k # L + 1
    <3>1. k \in 1 .. L
      BY <1>2, <2>2
    <3>2. off[k] \in Int /\ \A j \in 1 .. Len(ls[k]) :
            off[k] + j \in 1 .. i /\ ls[k][j] = n[off[k] + j] /\ ls[k][j] # "."
      BY <3>1 DEF Placed
    <3>3. l2[k] = ls[k] /\ o2[k] = off[k]
      BY <1>2, <1>3, <3>1
    <3>4. 1 .. i \subseteq 1 .. i + 1
      OBVIOUS
    <3> QED
      BY ONLY <3>2, <3>3, <3>4
  <2> QED
    BY <2>1, <2>2
<1>6. ASSUME NEW a \in 1 .. i + 1, NEW b \in 1 .. i + 1, a <= b,
             \A p \in a .. b : n[p] # "."
      PROVE  \E k \in 1 .. L + 1 : o2[k] < a /\ b <= o2[k] + Len(l2[k])
  <2>1. b # i + 1
    BY <1>6
  <2>2. a \in 1 .. i /\ b \in 1 .. i
    BY <1>6, <2>1
  <2>3. PICK k \in 1 .. L : off[k] < a /\ b <= off[k] + Len(ls[k])
    BY <1>6, <2>2 DEF Placed
  <2> QED
    BY <1>2, <1>3, <2>3
<1>7. Placed(l2, n, i + 1, o2)
  BY <1>2, <1>3, <1>4, <1>5, <1>6 DEF Placed
<1> QED
  BY <1>7 DEF l2

\* Any other character is put to the last label.
LEMMA PlacedOther ==
  ASSUME NEW n \in Names, NEW i \in Nat, i + 1 \in 1 .. Len(n), n[i + 1] # ".",
         NEW ls \in LabelLists, NEW off, Placed(ls, n, i, off)
  PROVE  Placed(Cut(ls, n[i + 1]), n, i + 1, off)
<1> DEFINE L  == Len(ls)
           c  == n[i + 1]
           l2 == Cut(ls, c)
<1>1. c \in Char
  BY ElementOfSeq DEF Names
<1>2. /\ L \in Nat \ {0} /\ Len(l2) = L /\ l2[L] = Append(ls[L], c)
      /\ \A k \in 1 .. L - 1 : l2[k] = ls[k]
  BY <1>1, CutIs
<1>3. ls[L] \in Names /\ \A k \in 1 .. L : Len(ls[k]) \in Nat
  BY <1>2, ElementOfSeq, LenProperties DEF LabelLists, Names
<1>4. /\ Len(l2[L]) = Len(ls[L]) + 1 /\ l2[L][Len(ls[L]) + 1] = c
      /\ \A j \in 1 .. Len(ls[L]) : l2[L][j] = ls[L][j]
  BY <1>1, <1>2, <1>3, AppendProperties DEF Names
<1>5. /\ off[L] \in 0 .. i /\ off[L] + Len(ls[L]) = i
      /\ off[L] # 0 => n[off[L]] = "."
  BY DEF Placed
<1> HIDE DEF l2
<1>6. ASSUME NEW k \in 1 .. L
      PROVE  off[k] \in Int /\ \A j \in 1 .. Len(l2[k]) :
               off[k] + j \in 1 .. i + 1 /\ l2[k][j] = n[off[k] + j] /\ l2[k][j] # "."
  <2>1. off[k] \in Int /\ \A j \in 1 .. Len(ls[k]) :
          off[k] + j \in 1 .. i /\ ls[k][j] = n[off[k] + j] /\ ls[k][j] # "."
    BY DEF Placed
  <2>2. CASE k # L
    <3>1. l2[k] = ls[k]
      BY <1>2, <2>2
    <3> QED
      BY <2>1, <3>1
  <2>3. CASE k = L
    <3>1. ASSUME NEW j \in 1 .. Len(ls[L]) + 1
          PROVE  off[k] + j \in 1 .. i + 1 /\ l2[k][j] = n[off[k] + j] /\ l2[k][j] # "."
      <4>1. CASE j = Len(ls[L]) + 1
        <5>0. off[L] \in Int /\ Len(ls[L]) \in Nat
          BY <1>2, <1>3, <1>5
        <5>1. \A x \in Int, y \in Nat : x + y = i => x + (y + 1) = i + 1
          OBVIOUS
        <5>2. off[L] + Len(ls[L]) = i
          BY <1>5
        <5>3. off[k] + j = i + 1
          BY ONLY <2>3, <4>1, <5>0, <5>1, <5>2
        <5>4. l2[k][j] = c
          BY <1>4, <2>3, <4>1
        <5> QED
          BY <5>3, <5>4
      <4>2. CASE j # Len(ls[L]) + 1
        <5>1. j \in 1 .. Len(ls[L])
          BY <1>3, <4>2
        <5>2. l2[k][j] = ls[k][j]
          BY <1>4, <2>3, <5>1
        <5>3. off[k] + j \in 1 .. i /\ ls[k][j] = n[off[k] + j] /\ ls[k][j] # "."
          BY <2>1, <2>3, <5>1
        <5> QED
          BY <5>2, <5>3
      <4> QED
        BY <4>1, <4>2
    <3> QED
      BY <1>4, <2>1, <2>3, <3>1
  <2> QED
    BY <2>2, <2>3
<1>7. ASSUME NEW a \in 1 .. i + 1, NEW b \in 1 .. i + 1, a <= b,
             \A p \in a .. b : n[p] # "."
      PROVE  \E k \in 1 .. L : off[k] < a /\ b <= off[k] + Len(l2[k])
  <2>1. CASE b = i + 1
    <3>1. off[L] < a
      <4> SUFFICES ASSUME ~(off[L] < a) PROVE FALSE
        OBVIOUS
      <4>1. off[L] \in a .. b /\ off[L] # 0
        BY <1>5, <2>1
      <4> QED
        BY <1>5, <1>7, <4>1
    <3>2. b <= off[L] + Len(l2[L])
      BY <1>3, <1>4, <1>5, <2>1
    <3> QED
      BY <1>2, <3>1, <3>2
  <2>2. CASE b # i + 1
    <3>1. a \in 1 .. i /\ b \in 1 .. i
      BY <1>7, <2>2
    <3>2. PICK k \in 1 .. L : off[k] < a /\ b <= off[k] + Len(ls[k])
      BY <1>7, <3>1 DEF Placed
    <3>3. Len(ls[k]) <= Len(l2[k]) /\ Len(l2[k]) \in Nat
      <4>1. Len(ls[k]) \in Nat
        BY <1>3
      <4>2. CASE k = L
        <5>1. Len(l2[k]) = Len(ls[k]) + 1
          BY <1>4, <4>2
        <5> QED
          BY <4>1, <5>1
      <4>3. CASE k # L
        <5>1. l2[k] = ls[k]
          BY <1>2, <4>3
        <5> QED
          BY <4>1, <5>1
      <4> QED
        BY <4>2, <4>3
    <3>4. off[k] \in Int
      BY <1>6
    <3>5. b <= off[k] + Len(l2[k])
      BY <1>3, <3>2, <3>3, <3>4
    <3> QED
      BY <3>2, <3>5
  <2> QED
    BY <2>1, <2>2
<1>8. off[L] \in 0 .. i + 1 /\ off[L] + Len(l2[L]) = i + 1
  BY <1>3, <1>4, <1>5
<1>9. Placed(l2, n, i + 1, off)
  BY <1>2, <1>5, <1>6, <1>7, <1>8 DEF Placed
<1> QED
  BY <1>9 DEF l2

\* split(".") as positions.
LEMMA LabelsArePlaced ==
  ASSUME NEW n \in Names
  PROVE  /\ Labels(n) \in Seq(Names) /\ Len(Labels(n)) \in Nat \ {0}
         /\ \E off : Placed(Labels(n), n, Len(n), off)
<1>1. PICK cut \in [0 .. Len(n) -> LabelLists] :
        /\ cut[0] = << <<>> >> /\ Labels(n) = cut[Len(n)]
        /\ \A i \in 1 .. Len(n) : cut[i] = Cut(cut[i - 1], n[i])
  BY LabelsAreCut
<1>2. Len(n) \in Nat
  BY LenProperties DEF Names
<1> DEFINE T == {i \in 0 .. Len(n) : \E off : Placed(cut[i], n, i, off)}
<1>3. 0 \in T
  <2>1. \E off : Placed(<< <<>> >>, n, 0, off)
    BY PlacedFirst
  <2>2. 0 \in 0 .. Len(n)
    BY <1>2
  <2> QED
    BY <1>1, <2>1, <2>2
<1>4. ASSUME NEW i \in 0 .. Len(n) - 1, i \in T PROVE i + 1 \in T
  <2>1. i + 1 \in 1 .. Len(n) /\ (i + 1) - 1 = i /\ i \in 0 .. Len(n) /\ i \in Nat
        /\ i + 1 \in 0 .. Len(n)
    BY <1>2
  <2>2. cut[i] \in LabelLists /\ cut[i + 1] = Cut(cut[i], n[i + 1])
    BY <1>1, <2>1
  <2>3. PICK off : Placed(cut[i], n, i, off)
    BY <1>4
  <2>4. \E new : Placed(cut[i + 1], n, i + 1, new)
    BY <2>1, <2>2, <2>3, PlacedDot, PlacedOther
  <2> QED
    BY <2>1, <2>4
<1> HIDE DEF T
<1>5. 0 .. Len(n) \subseteq T
  BY <1>2, <1>3, <1>4, InductionUpTo
<1>6. Len(n) \in T
  BY <1>2, <1>5
<1>7. Labels(n) \in LabelLists
  BY <1>1, <1>2
<1>8. Len(Labels(n)) \in Nat \ {0}
  BY <1>7, EmptySeq, LenProperties DEF LabelLists
<1> QED
  BY <1>1, <1>6, <1>7, <1>8 DEF T, LabelLists

-----------------------------------------------------------------------------
(* The runs of a name. *)

\* The characters of a word from place a to place b are all in C.
Stretch(w, C, a, b) == a <= b /\ \A k \in a .. b : w[k] \in C

\* What the inner loop keeps.
Runs == [current : Nat, longest : Nat]

\* One turn of the inner loop of _longest_run.
LEMMA RunStepIs ==
  ASSUME NEW C, NEW run \in Runs, NEW c
  PROVE  /\ RunStep(C, run, c) \in Runs
         /\ c \in C => /\ RunStep(C, run, c).current = run.current + 1
                       /\ RunStep(C, run, c).longest \in {run.longest, run.current + 1}
                       /\ run.longest <= RunStep(C, run, c).longest
                       /\ run.current + 1 <= RunStep(C, run, c).longest
         /\ c \notin C => /\ RunStep(C, run, c).current = 0
                          /\ RunStep(C, run, c).longest = run.longest
<1>1. run.current \in Nat /\ run.current + 1 \in Nat /\ run.longest \in Nat
      /\ run = [current |-> run.current, longest |-> run.longest]
  BY DEF Runs
<1> DEFINE m == Max({run.longest, run.current + 1})
<1>2. /\ m \in Nat /\ m \in {run.longest, run.current + 1}
      /\ run.longest <= m /\ run.current + 1 <= m
  BY <1>1, MaxOfTwo
<1>3. CASE c \in C
  <2>1. RunStep(C, run, c) = [current |-> run.current + 1, longest |-> m]
    BY <1>3 DEF RunStep
  <2> HIDE DEF m
  <2> QED
    BY <1>1, <1>2, <1>3, <2>1 DEF Runs
<1>4. CASE c \notin C
  <2>1. RunStep(C, run, c) = [current |-> 0, longest |-> run.longest]
    BY <1>1, <1>4 DEF RunStep
  <2> QED
    BY <1>1, <1>4, <2>1 DEF Runs
<1> QED
  BY <1>3, <1>4

\* After i characters of a label: the current run is the longest that ends there,
\* and no run is longer than the longest, which is the one from before or a run.
Counted(w, C, from, i, run) ==
  /\ run \in Runs /\ run.current <= i /\ from <= run.longest
  /\ \A k \in i - run.current + 1 .. i : w[k] \in C
  /\ run.current = i \/ w[i - run.current] \notin C
  /\ \A a, b \in 1 .. i : Stretch(w, C, a, b) => b - a + 1 <= run.longest
  /\ run.longest = from \/ \E a, b \in 1 .. i : Stretch(w, C, a, b) /\ b - a + 1 = run.longest

\* The inner loop counts one character more.
LEMMA CountedNext ==
  ASSUME NEW w, NEW C, NEW from \in Nat, NEW i \in Nat, NEW run, Counted(w, C, from, i, run)
  PROVE  Counted(w, C, from, i + 1, RunStep(C, run, w[i + 1]))
<1> DEFINE c == w[i + 1]
           new == RunStep(C, run, c)
<1>1. /\ run \in Runs /\ run.current \in Nat /\ run.longest \in Nat
      /\ run.current <= i /\ from <= run.longest
      /\ \A k \in i - run.current + 1 .. i : w[k] \in C
      /\ run.current = i \/ w[i - run.current] \notin C
      /\ \A a, b \in 1 .. i : Stretch(w, C, a, b) => b - a + 1 <= run.longest
      /\ run.longest = from
           \/ \E a, b \in 1 .. i : Stretch(w, C, a, b) /\ b - a + 1 = run.longest
  BY DEF Counted, Runs
<1>2. /\ new \in Runs /\ new.current \in Nat /\ new.longest \in Nat
      /\ c \in C => /\ new.current = run.current + 1
                    /\ new.longest \in {run.longest, run.current + 1}
                    /\ run.longest <= new.longest
                    /\ run.current + 1 <= new.longest
      /\ c \notin C => new.current = 0 /\ new.longest = run.longest
  <2>1. new \in Runs
    BY <1>1, RunStepIs
  <2> HIDE DEF new
  <2>2. new.current \in Nat /\ new.longest \in Nat
    BY <2>1 DEF Runs
  <2> QED
    BY <1>1, <2>1, <2>2, RunStepIs DEF new
<1> HIDE DEF new
<1>3. new.current <= i + 1 /\ from <= new.longest
  BY <1>1, <1>2
<1>4. \A k \in (i + 1) - new.current + 1 .. i + 1 : w[k] \in C
  <2> TAKE k \in (i + 1) - new.current + 1 .. i + 1
  <2>1. CASE k = i + 1
    <3>1. c \in C
      BY <1>2, <2>1
    <3> QED
      BY <2>1, <3>1
  <2>2. CASE k # i + 1
    <3>1. c \in C /\ k \in i - run.current + 1 .. i
      BY <1>1, <1>2, <2>2
    <3> QED
      BY <1>1, <3>1
  <2> QED
    BY <2>1, <2>2
<1>5. new.current = i + 1 \/ w[(i + 1) - new.current] \notin C
  <2>1. CASE c \in C
    <3>1. (i + 1) - new.current = i - run.current
      BY <1>1, <1>2, <2>1
    <3> QED
      BY <1>1, <1>2, <2>1, <3>1
  <2>2. CASE c \notin C
    <3>1. (i + 1) - new.current = i + 1
      BY <1>2, <2>2
    <3> QED
      BY <2>2, <3>1
  <2> QED
    BY <2>1, <2>2
<1>6. ASSUME NEW a \in 1 .. i + 1, NEW b \in 1 .. i + 1, Stretch(w, C, a, b)
      PROVE  b - a + 1 <= new.longest
  <2>0. a <= b /\ \A k \in a .. b : w[k] \in C
    BY <1>6 DEF Stretch
  <2>1. CASE b = i + 1
    <3>1. c \in C
      BY <2>0, <2>1
    <3>2. i - run.current < a
      <4> SUFFICES ASSUME ~(i - run.current < a) PROVE FALSE
        OBVIOUS
      <4>1. i - run.current \in a .. b /\ run.current # i
        BY <1>1, <2>1
      <4> QED
        BY <1>1, <2>0, <4>1
    <3> QED
      BY <1>1, <1>2, <2>1, <3>1, <3>2
  <2>2. CASE b # i + 1
    <3>1. a \in 1 .. i /\ b \in 1 .. i
      BY <2>0, <2>2
    <3>2. b - a + 1 <= run.longest
      BY <1>1, <1>6, <3>1
    <3> QED
      BY <1>1, <1>2, <3>2
  <2> QED
    BY <2>1, <2>2
<1>7. new.longest = from
        \/ \E a, b \in 1 .. i + 1 : Stretch(w, C, a, b) /\ b - a + 1 = new.longest
  <2>1. CASE new.longest = run.longest
    <3>1. 1 .. i \subseteq 1 .. i + 1
      OBVIOUS
    <3> QED
      BY <1>1, <2>1, <3>1
  <2>2. CASE new.longest # run.longest
    <3>1. c \in C /\ new.longest = run.current + 1 /\ new.current = run.current + 1
      BY <1>2, <2>2
    <3> DEFINE a == (i + 1) - new.current + 1
    <3>2. a \in 1 .. i + 1 /\ i + 1 \in 1 .. i + 1 /\ a <= i + 1 /\ (i + 1) - a + 1 = new.longest
      BY <1>1, <1>2, <3>1
    <3>3. Stretch(w, C, a, i + 1)
      BY <1>4, <3>2 DEF Stretch
    <3> QED
      BY <3>2, <3>3
  <2> QED
    BY <2>1, <2>2
<1>8. Counted(w, C, from, i + 1, new)
  BY <1>2, <1>3, <1>4, <1>5, <1>6, <1>7 DEF Counted
<1> QED
  BY <1>8 DEF new

\* x is the length of the longest run, or what it was before if no run is longer.
LongestIn(w, C, from, x) ==
  /\ x \in Nat /\ from <= x
  /\ \A a, b \in 1 .. Len(w) : Stretch(w, C, a, b) => b - a + 1 <= x
  /\ x = from \/ \E a, b \in 1 .. Len(w) : Stretch(w, C, a, b) /\ b - a + 1 = x

\* The inner loop leaves the longest run of its label, or the one from before.
LEMMA RunAfterIsLongest ==
  ASSUME NEW w \in Names, NEW C, NEW from \in Nat
  PROVE  LongestIn(w, C, from, RunAfter(w, C, from))
<1> DEFINE N == Len(w)
           first == [current |-> 0, longest |-> from]
           Loop(f) == [i \in 0 .. N |-> IF i = 0 THEN [current |-> 0, longest |-> from]
                                       ELSE RunStep(C, f[i - 1], w[i])]
           run == CHOOSE f : f = Loop(f)
           turn == [p \in (1 .. N) \X Runs |-> RunStep(C, p[2], w[p[1]])]
<1>1. N \in Nat
  BY LenProperties DEF Names
<1>2. turn \in [(1 .. N) \X Runs -> Runs]
  BY RunStepIs
<1>3. first \in Runs
  BY DEF Runs
<1>4. PICK f : Iterates(f, N, Runs, first, turn)
  <2> HIDE DEF turn, N, first
  <2> QED
    BY <1>1, <1>2, <1>3, LoopExists
<1>5. f = Loop(f)
  <2>1. ASSUME NEW i \in 1 .. N PROVE f[i] = RunStep(C, f[i - 1], w[i])
    <3>1. i - 1 \in 0 .. N
      BY <1>1
    <3>2. f[i - 1] \in Runs
      BY <1>4, <3>1 DEF Iterates
    <3> QED
      BY <1>4, <3>2 DEF Iterates
  <2>2. \A i \in 0 .. N : f[i] = Loop(f)[i]
    <3> TAKE i \in 0 .. N
    <3>1. CASE i = 0
      BY <1>4, <3>1 DEF Iterates
    <3>2. CASE i # 0
      BY <1>1, <2>1, <3>2
    <3> QED
      BY <3>1, <3>2
  <2> QED
    BY <1>4, <2>2 DEF Iterates
<1>6. run = Loop(run)
  BY <1>5
<1>7. RunAfter(w, C, from) = run[N].longest
  BY DEF RunAfter
<1> HIDE DEF run
<1>8. run[0] = first
  BY <1>1, <1>6
<1>9. ASSUME NEW i \in 1 .. N PROVE run[i] = RunStep(C, run[i - 1], w[i])
  <2>1. i \in 0 .. N /\ i # 0
    BY <1>1
  <2> QED
    BY <1>6, <2>1
<1> DEFINE T == {i \in 0 .. N : Counted(w, C, from, i, run[i])}
<1>10. 0 \in T
  <2>1. Counted(w, C, from, 0, first)
    BY <1>3 DEF Counted
  <2> QED
    BY <1>1, <1>8, <2>1
<1>11. ASSUME NEW i \in 0 .. N - 1, i \in T PROVE i + 1 \in T
  <2>1. i + 1 \in 1 .. N /\ (i + 1) - 1 = i /\ i + 1 \in 0 .. N /\ i \in Nat
    BY <1>1
  <2>2. run[i + 1] = RunStep(C, run[i], w[i + 1])
    BY <1>9, <2>1
  <2>3. Counted(w, C, from, i, run[i])
    BY <1>11
  <2>4. Counted(w, C, from, i + 1, run[i + 1])
    BY <2>1, <2>2, <2>3, CountedNext
  <2> QED
    BY <2>1, <2>4
<1> HIDE DEF T
<1>12. 0 .. N \subseteq T
  BY <1>1, <1>10, <1>11, InductionUpTo
<1>13. Counted(w, C, from, N, run[N])
  <2>1. N \in T
    BY <1>1, <1>12
  <2> QED
    BY <2>1 DEF T
<1> QED
  BY <1>7, <1>13 DEF Counted, LongestIn, Runs

\* The same of the first m labels: x is the length of the longest run in any of them.
LongestOf(ls, C, m, x) ==
  /\ x \in Nat
  /\ \A k \in 1 .. m : \A a, b \in 1 .. Len(ls[k]) : Stretch(ls[k], C, a, b) => b - a + 1 <= x
  /\ x = 0 \/ \E k \in 1 .. m : \E a, b \in 1 .. Len(ls[k]) :
                Stretch(ls[k], C, a, b) /\ b - a + 1 = x

\* The outer loop takes one label more.
LEMMA LongestOfNext ==
  ASSUME NEW ls \in Seq(Names), NEW C, NEW m \in Nat, m + 1 \in 1 .. Len(ls),
         NEW x, LongestOf(ls, C, m, x)
  PROVE  LongestOf(ls, C, m + 1, RunAfter(ls[m + 1], C, x))
<1> DEFINE y == RunAfter(ls[m + 1], C, x)
<1>1. /\ x \in Nat
      /\ \A k \in 1 .. m : \A a, b \in 1 .. Len(ls[k]) :
           Stretch(ls[k], C, a, b) => b - a + 1 <= x
      /\ x = 0 \/ \E k \in 1 .. m : \E a, b \in 1 .. Len(ls[k]) :
                    Stretch(ls[k], C, a, b) /\ b - a + 1 = x
  BY DEF LongestOf
<1>2. ls[m + 1] \in Names
  BY ElementOfSeq
<1>3. LongestIn(ls[m + 1], C, x, y)
  BY <1>1, <1>2, RunAfterIsLongest
<1> HIDE DEF y
<1>4. /\ y \in Nat /\ x <= y
      /\ \A a, b \in 1 .. Len(ls[m + 1]) : Stretch(ls[m + 1], C, a, b) => b - a + 1 <= y
      /\ y = x \/ \E a, b \in 1 .. Len(ls[m + 1]) :
                    Stretch(ls[m + 1], C, a, b) /\ b - a + 1 = y
  BY <1>3 DEF LongestIn
<1>5. ASSUME NEW k \in 1 .. m + 1, NEW a \in 1 .. Len(ls[k]), NEW b \in 1 .. Len(ls[k]),
             Stretch(ls[k], C, a, b)
      PROVE  b - a + 1 <= y
  <2>1. CASE k = m + 1
    BY <1>4, <1>5, <2>1
  <2>2. CASE k # m + 1
    <3>1. k \in 1 .. m
      BY <2>2
    <3>2. b - a + 1 <= x
      BY <1>1, <1>5, <3>1
    <3> QED
      BY <1>1, <1>4, <3>2
  <2> QED
    BY <2>1, <2>2
<1>6. y = 0 \/ \E k \in 1 .. m + 1 : \E a, b \in 1 .. Len(ls[k]) :
                  Stretch(ls[k], C, a, b) /\ b - a + 1 = y
  <2>1. CASE y = x
    <3>1. 1 .. m \subseteq 1 .. m + 1
      OBVIOUS
    <3> QED
      BY <1>1, <2>1, <3>1
  <2>2. CASE y # x
    <3>1. m + 1 \in 1 .. m + 1
      OBVIOUS
    <3> QED
      BY <1>4, <2>2, <3>1
  <2> QED
    BY <2>1, <2>2
<1>7. LongestOf(ls, C, m + 1, y)
  BY <1>4, <1>5, <1>6 DEF LongestOf
<1> QED
  BY <1>7 DEF y

\* Both loops leave the longest run of any label.
LEMMA LongestRunIsLongest ==
  ASSUME NEW ls \in Seq(Names), NEW C
  PROVE  LongestOf(ls, C, Len(ls), LongestRun(ls, C))
<1> DEFINE N == Len(ls)
           Loop(f) == [k \in 0 .. N |-> IF k = 0 THEN 0 ELSE RunAfter(ls[k], C, f[k - 1])]
           longest == CHOOSE f : f = Loop(f)
           turn == [p \in (1 .. N) \X Nat |-> RunAfter(ls[p[1]], C, p[2])]
<1>1. N \in Nat
  BY LenProperties
<1>2. turn \in [(1 .. N) \X Nat -> Nat]
  <2>1. ASSUME NEW p \in (1 .. N) \X Nat PROVE turn[p] \in Nat
    <3>1. p[1] \in 1 .. N /\ p[2] \in Nat
      OBVIOUS
    <3>2. ls[p[1]] \in Names
      BY <3>1, ElementOfSeq
    <3>3. LongestIn(ls[p[1]], C, p[2], RunAfter(ls[p[1]], C, p[2]))
      BY <3>1, <3>2, RunAfterIsLongest
    <3> QED
      BY <3>3 DEF LongestIn
  <2> QED
    BY <2>1
<1>3. PICK f : Iterates(f, N, Nat, 0, turn)
  <2>1. 0 \in Nat
    OBVIOUS
  <2> HIDE DEF turn, N
  <2> QED
    BY ONLY <1>1, <1>2, <2>1, LoopExists
<1>4. f = Loop(f)
  <2>1. ASSUME NEW k \in 1 .. N PROVE f[k] = RunAfter(ls[k], C, f[k - 1])
    <3>1. k - 1 \in 0 .. N
      BY <1>1
    <3>2. f[k - 1] \in Nat
      BY <1>3, <3>1 DEF Iterates
    <3> QED
      BY <1>3, <3>2 DEF Iterates
  <2>2. \A k \in 0 .. N : f[k] = Loop(f)[k]
    <3> TAKE k \in 0 .. N
    <3>1. CASE k = 0
      BY <1>3, <3>1 DEF Iterates
    <3>2. CASE k # 0
      BY <1>1, <2>1, <3>2
    <3> QED
      BY <3>1, <3>2
  <2> QED
    BY <1>3, <2>2 DEF Iterates
<1>5. longest = Loop(longest)
  BY <1>4
<1>6. LongestRun(ls, C) = longest[N]
  BY DEF LongestRun
<1> HIDE DEF longest
<1>7. longest[0] = 0
  BY <1>1, <1>5
<1>8. ASSUME NEW k \in 1 .. N PROVE longest[k] = RunAfter(ls[k], C, longest[k - 1])
  <2>1. k \in 0 .. N /\ k # 0
    BY <1>1
  <2> QED
    BY <1>5, <2>1
<1> DEFINE T == {m \in 0 .. N : LongestOf(ls, C, m, longest[m])}
<1>9. 0 \in T
  BY <1>1, <1>7 DEF LongestOf
<1>10. ASSUME NEW m \in 0 .. N - 1, m \in T PROVE m + 1 \in T
  <2>1. m + 1 \in 1 .. N /\ (m + 1) - 1 = m /\ m + 1 \in 0 .. N /\ m \in Nat
    BY <1>1
  <2>2. longest[m + 1] = RunAfter(ls[m + 1], C, longest[m])
    BY <1>8, <2>1
  <2>3. LongestOf(ls, C, m, longest[m])
    BY <1>10
  <2>4. LongestOf(ls, C, m + 1, longest[m + 1])
    BY <2>1, <2>2, <2>3, LongestOfNext
  <2> QED
    BY <2>1, <2>4
<1> HIDE DEF T
<1>11. 0 .. N \subseteq T
  BY <1>1, <1>9, <1>10, InductionUpTo
<1>12. N \in T
  BY <1>1, <1>11
<1> QED
  BY <1>6, <1>12 DEF T

\* A set of characters without the dot has its longest run in the name where the
\* loop over the labels finds it: no run goes over a dot, and none is cut short.
LEMMA LongestRunIsStretch ==
  ASSUME NEW n \in Names, NEW C, "." \notin C
  PROVE  LongestRun(Labels(n), C) = LongestStretch(n, C)
<1> DEFINE ls == Labels(n)
           x  == LongestRun(ls, C)
           stretches == {r \in (DOMAIN n) \X (DOMAIN n) :
                           r[1] <= r[2] /\ \A k \in r[1]..r[2] : n[k] \in C}
           sizes == {0} \cup {r[2] - r[1] + 1 : r \in stretches}
<1>1. ls \in Seq(Names) /\ \E off : Placed(ls, n, Len(n), off)
  BY LabelsArePlaced
<1>2. PICK off : Placed(ls, n, Len(n), off)
  BY <1>1
<1>3. Len(n) \in Nat /\ DOMAIN n = 1 .. Len(n)
  BY LenProperties DEF Names
<1>4. LongestOf(ls, C, Len(ls), x)
  BY <1>1, LongestRunIsLongest
<1> HIDE DEF ls, x
<1>5. /\ x \in Nat
      /\ \A k \in 1 .. Len(ls) : \A a, b \in 1 .. Len(ls[k]) :
           Stretch(ls[k], C, a, b) => b - a + 1 <= x
      /\ x = 0 \/ \E k \in 1 .. Len(ls) : \E a, b \in 1 .. Len(ls[k]) :
                    Stretch(ls[k], C, a, b) /\ b - a + 1 = x
  BY <1>4 DEF LongestOf
<1>6. \A k \in 1 .. Len(ls) : off[k] \in Int /\ Len(ls[k]) \in Nat
        /\ \A j \in 1 .. Len(ls[k]) :
             off[k] + j \in 1 .. Len(n) /\ ls[k][j] = n[off[k] + j]
  BY <1>1, <1>2, ElementOfSeq, LenProperties DEF Placed, Names
<1>7. sizes \in SUBSET Int
  BY <1>3
<1>8. x \in sizes
  <2>1. CASE x = 0
    BY <2>1
  <2>2. CASE x # 0
    <3>0. PICK k \in 1 .. Len(ls) : \E a, b \in 1 .. Len(ls[k]) :
            Stretch(ls[k], C, a, b) /\ b - a + 1 = x
      BY <1>5, <2>2
    <3>1. PICK a \in 1 .. Len(ls[k]), b \in 1 .. Len(ls[k]) :
            Stretch(ls[k], C, a, b) /\ b - a + 1 = x
      BY <3>0
    <3> DEFINE r == <<off[k] + a, off[k] + b>>
    <3>2. off[k] \in Int /\ a \in Int /\ b \in Int
      BY <1>6, <3>1
    <3>3. r \in (DOMAIN n) \X (DOMAIN n) /\ r[1] <= r[2]
      <4>1. off[k] + a \in DOMAIN n /\ off[k] + b \in DOMAIN n
        BY <1>3, <1>6
      <4>2. off[k] + a <= off[k] + b
        BY <3>1, <3>2 DEF Stretch
      <4> QED
        BY ONLY <4>1, <4>2
    <3>4. ASSUME NEW p \in r[1] .. r[2] PROVE n[p] \in C
      <4>0. p \in off[k] + a .. off[k] + b /\ a \in 1 .. Len(ls[k]) /\ b \in 1 .. Len(ls[k])
        BY <3>1
      <4>1. p - off[k] \in a .. b /\ p - off[k] \in 1 .. Len(ls[k]) /\ off[k] + (p - off[k]) = p
        <5>1. Len(ls[k]) \in Int
          BY <1>6
        <5> QED
          BY ONLY <3>2, <4>0, <5>1
      <4>2. ls[k][p - off[k]] \in C
        BY <3>1, <4>1 DEF Stretch
      <4> QED
        BY <1>6, <4>1, <4>2
    <3>5. r[2] - r[1] + 1 = x
      BY <3>1, <3>2
    <3> HIDE DEF r
    <3>6. r \in stretches
      BY <3>3, <3>4
    <3> QED
      BY <3>5, <3>6
  <2> QED
    BY <2>1, <2>2
<1>9. ASSUME NEW y \in sizes PROVE y <= x
  <2>1. CASE y = 0
    BY <1>5, <2>1
  <2>2. CASE y # 0
    <3>1. PICK r \in stretches : y = r[2] - r[1] + 1
      BY <1>9, <2>2
    <3> DEFINE a == r[1]
               b == r[2]
    <3>2. a \in 1 .. Len(n) /\ b \in 1 .. Len(n) /\ a <= b /\ \A p \in a .. b : n[p] \in C
      BY <1>3
    <3> HIDE DEF a, b
    <3>3. \A p \in a .. b : n[p] # "."
      BY <3>2
    <3>4. PICK k \in 1 .. Len(ls) : off[k] < a /\ b <= off[k] + Len(ls[k])
      BY <1>2, <3>2, <3>3 DEF Placed
    <3>5. off[k] \in Int /\ Len(ls[k]) \in Nat
      BY <1>6
    <3> DEFINE a2 == a - off[k]
               b2 == b - off[k]
    <3>6. a2 \in 1 .. Len(ls[k]) /\ b2 \in 1 .. Len(ls[k]) /\ a2 <= b2
      <4>1. a \in Int /\ b \in Int /\ a <= b
        BY <3>2
      <4> QED
        BY ONLY <3>4, <3>5, <4>1
    <3>7. ASSUME NEW j \in a2 .. b2 PROVE ls[k][j] \in C
      <4>0. j \in Int /\ a2 <= j /\ j <= b2 /\ a2 \in 1 .. Len(ls[k]) /\ b2 \in 1 .. Len(ls[k])
        BY <3>6
      <4>1. j \in 1 .. Len(ls[k])
        BY <4>0, <3>5
      <4>2. off[k] + j \in a .. b
        <5>1. a \in Int /\ b \in Int /\ off[k] \in Int
          BY <3>2, <3>5
        <5>2. j \in Int /\ a - off[k] <= j /\ j <= b - off[k]
          BY <4>0
        <5> QED
          BY ONLY <5>1, <5>2
      <4> QED
        BY <1>6, <3>2, <4>1, <4>2
    <3>8. b2 - a2 + 1 = y
      BY <3>1, <3>2, <3>5 DEF a, b
    <3> HIDE DEF a2, b2
    <3>9. Stretch(ls[k], C, a2, b2)
      BY <3>6, <3>7 DEF Stretch
    <3> QED
      BY <1>5, <3>6, <3>8, <3>9
  <2> QED
    BY <2>1, <2>2
<1>10. LongestStretch(n, C) = Max(sizes)
  BY DEF LongestStretch
<1> HIDE DEF sizes
<1>11. Max(sizes) = x
  BY <1>7, <1>8, <1>9, MaxIs
<1> QED
  BY <1>10, <1>11 DEF x, ls

-----------------------------------------------------------------------------
(* The features and the alert of a name. *)

\* The labels without the dots between them.
LEMMA Joined ==
  ASSUME NEW ls \in LabelLists, \A k \in 1 .. Len(ls) : Len(ls[k]) > 0
  PROVE  FlattenSeq(ls) \in Names /\ Len(FlattenSeq(ls)) \in Nat \ {0}
<1> DEFINE N == Len(ls)
           Loop(f) == [i \in 1 .. N |-> IF i = 1 THEN ls[i] ELSE f[i - 1] \o ls[i]]
           flat == CHOOSE f : f = Loop(f)
           turn == [p \in (1 .. N) \X Names |-> p[2] \o ls[p[1]]]
           none == <<>>
<1>1. N \in Nat \ {0} /\ ls \in Seq(Names)
  BY EmptySeq, LenProperties DEF LabelLists
<1>2. \A k \in 1 .. N : ls[k] \in Names /\ Len(ls[k]) \in Nat \ {0}
  BY <1>1, ElementOfSeq, LenProperties DEF Names
<1>3. turn \in [(1 .. N) \X Names -> Names]
  BY <1>2, ConcatProperties DEF Names
<1>4. none \in Names
  BY DEF Names
<1>5. PICK f : Iterates(f, N, Names, none, turn)
  <2> HIDE DEF turn, N, none
  <2> QED
    BY <1>1, <1>3, <1>4, LoopExists
<1> DEFINE g == [i \in 1 .. N |-> f[i]]
<1>6. g = Loop(g)
  <2>1. ASSUME NEW i \in 1 .. N PROVE f[i] = f[i - 1] \o ls[i]
    <3>1. i - 1 \in 0 .. N
      BY <1>1
    <3>2. f[i - 1] \in Names
      BY <1>5, <3>1 DEF Iterates
    <3> QED
      BY <1>5, <3>2 DEF Iterates
  <2>2. f[1] = ls[1]
    <3>1. 1 \in 1 .. N /\ 1 - 1 = 0
      BY <1>1
    <3>2. f[0] = <<>>
      BY <1>5 DEF Iterates
    <3>3. <<>> \o ls[1] = ls[1]
      BY <1>2, <3>1, ConcatEmptySeq DEF Names
    <3> QED
      BY <2>1, <3>1, <3>2, <3>3
  <2>3. \A i \in 1 .. N : g[i] = Loop(g)[i]
    <3> TAKE i \in 1 .. N
    <3>1. CASE i = 1
      BY <2>2, <3>1
    <3>2. CASE i # 1
      <4>1. i - 1 \in 1 .. N
        BY <1>1, <3>2
      <4>2. g[i] = f[i] /\ g[i - 1] = f[i - 1]
        BY <4>1
      <4> QED
        BY <2>1, <3>2, <4>2
    <3> QED
      BY <3>1, <3>2
  <2> QED
    BY <2>3
<1>7. flat = Loop(flat)
  BY <1>6
<1>8. FlattenSeq(ls) = flat[N]
  BY <1>1 DEF FlattenSeq
<1> HIDE DEF flat
<1> DEFINE T == {m \in 0 .. N - 1 : flat[m + 1] \in Names /\ Len(flat[m + 1]) \in Nat \ {0}}
<1>9. 0 \in T
  <2>1. 1 \in 1 .. N
    BY <1>1
  <2>2. flat[1] = ls[1]
    BY <1>7, <2>1
  <2> QED
    BY <1>1, <1>2, <2>1, <2>2
<1>10. ASSUME NEW m \in 0 .. (N - 1) - 1, m \in T PROVE m + 1 \in T
  <2>1. /\ (m + 1) + 1 \in 1 .. N /\ (m + 1) + 1 # 1 /\ ((m + 1) + 1) - 1 = m + 1
        /\ m + 1 \in 0 .. N - 1
    BY <1>1
  <2>2. flat[(m + 1) + 1] = flat[m + 1] \o ls[(m + 1) + 1]
    BY <1>7, <2>1
  <2>3. flat[m + 1] \in Names /\ Len(flat[m + 1]) \in Nat \ {0}
    BY <1>10
  <2>4. ls[(m + 1) + 1] \in Names /\ Len(ls[(m + 1) + 1]) \in Nat \ {0}
    BY <1>2, <2>1
  <2>5. /\ flat[(m + 1) + 1] \in Names
        /\ Len(flat[(m + 1) + 1]) = Len(flat[m + 1]) + Len(ls[(m + 1) + 1])
    BY <2>2, <2>3, <2>4, ConcatProperties DEF Names
  <2>6. Len(flat[(m + 1) + 1]) \in Nat \ {0}
    <3>1. \A x, y \in Nat \ {0} : x + y \in Nat \ {0}
      OBVIOUS
    <3> QED
      BY ONLY <2>3, <2>4, <2>5, <3>1
  <2> QED
    BY <2>1, <2>5, <2>6
<1> HIDE DEF T
<1>11. 0 .. N - 1 \subseteq T
  <2>1. N - 1 \in Nat
    BY <1>1
  <2> HIDE DEF N
  <2> QED
    BY <1>9, <1>10, <2>1, InductionUpTo
<1>12. N - 1 \in T /\ (N - 1) + 1 = N
  BY <1>1, <1>11
<1> QED
  BY <1>8, <1>12 DEF T

\* A normalized name has no upper case, so that it is its own lower case.
LEMMA NormalizedIs ==
  ASSUME NEW v \in Names
  PROVE  /\ Normalized(v) \in Names
         /\ \A i \in DOMAIN Normalized(v) : Lower(Normalized(v)[i]) = Normalized(v)[i]
<1>1. Len(v) \in Nat /\ DOMAIN v = 1 .. Len(v) /\ \A i \in 1 .. Len(v) : v[i] \in Char
  BY ElementOfSeq, LenProperties DEF Names
<1>2. PICK m \in Nat : m <= Len(v) /\ DOMAIN WithoutFinalDot(v) = 1 .. m
  <2>1. CASE v # <<>> /\ Last(v) = "."
    <3>1. Len(v) # 0
      BY <2>1, EmptySeq DEF Names
    <3>2. WithoutFinalDot(v) = SubSeq(v, 1, Len(v) - 1)
      BY <2>1 DEF WithoutFinalDot, Front
    <3>3. DOMAIN SubSeq(v, 1, Len(v) - 1) = 1 .. Len(v) - 1
      BY <1>1, <3>1
    <3>4. Len(v) - 1 \in Nat /\ Len(v) - 1 <= Len(v)
      BY <1>1, <3>1
    <3> QED
      BY <3>2, <3>3, <3>4
  <2>2. CASE ~(v # <<>> /\ Last(v) = ".")
    BY <1>1, <2>2 DEF WithoutFinalDot
  <2> QED
    BY <2>1, <2>2
<1>3. \A c \in Char : Lower(c) \in Char /\ Lower(Lower(c)) = Lower(c)
  BY DEF Char, Alnum, Consonant, Lower
<1>4. Normalized(v) = [i \in 1 .. m |-> Lower(v[i])]
  BY <1>2 DEF Normalized
<1>5. \A i \in 1 .. m : v[i] \in Char
  BY <1>1, <1>2
<1> QED
  BY <1>3, <1>4, <1>5 DEF Names

\* What passes for a name has no label of its own left out at the end, so that it is
\* the same when it is normalized again.
LEMMA NameIsNormalized ==
  ASSUME NEW v \in Names, IsName(v)
  PROVE  Normalized(Normalized(v)) = Normalized(v) /\ IsName(Normalized(v))
<1> DEFINE n  == Normalized(v)
           ls == Labels(n)
           L  == Len(ls)
<1>1. n \in Names /\ \A i \in DOMAIN n : Lower(n[i]) = n[i]
  BY NormalizedIs
<1>2. Len(n) \in 1 .. MaxName /\ \A l \in ToSet(ls) : Len(l) \in 1 .. MaxLabel
  BY DEF IsName, IsLabel
<1> HIDE DEF n
<1>3. ls \in Seq(Names) /\ L \in Nat \ {0} /\ \E off : Placed(ls, n, Len(n), off)
  BY <1>1, LabelsArePlaced
<1> HIDE DEF ls
<1>4. n[Len(n)] # "."
  <2>1. PICK off : Placed(ls, n, Len(n), off)
    BY <1>3
  <2>2. L \in 1 .. L /\ DOMAIN ls = 1 .. L
    BY <1>3, LenProperties
  <2>3. ls[L] \in ToSet(ls)
    BY <2>2 DEF ToSet
  <2>4. Len(ls[L]) \in 1 .. Len(ls[L])
    BY <1>2, <2>3
  <2>5. ls[L][Len(ls[L])] = n[off[L] + Len(ls[L])] /\ ls[L][Len(ls[L])] # "."
    BY <2>1, <2>2, <2>4 DEF Placed
  <2>6. off[L] + Len(ls[L]) = Len(n)
    BY <2>1 DEF Placed
  <2> QED
    BY <2>5, <2>6
<1>5. Last(n) # "."
  BY <1>4 DEF Last
<1>6. WithoutFinalDot(n) = n
  BY <1>5 DEF WithoutFinalDot
<1>7. Normalized(n) = n
  <2>1. Normalized(n) = [i \in DOMAIN n |-> n[i]]
    BY <1>1, <1>6 DEF Normalized
  <2>2. n = [i \in DOMAIN n |-> n[i]]
    BY <1>1 DEF Names
  <2> QED
    BY <2>1, <2>2
<1>8. Normalized(Normalized(v)) = Normalized(v)
  BY <1>7 DEF n
<1>9. IsName(Normalized(v))
  BY <1>8 DEF IsName
<1> QED
  BY <1>8, <1>9

\* The characters of a word that are in C.
CountIn(w, C) == Cardinality({i \in DOMAIN w : w[i] \in C})

\* A count of characters is within the length.
LEMMA CountIs ==
  ASSUME NEW w \in Names, NEW C
  PROVE  CountIn(w, C) \in 0 .. Len(w)
<1> DEFINE P == {i \in DOMAIN w : w[i] \in C}
<1>1. Len(w) \in Nat /\ DOMAIN w = 1 .. Len(w)
  BY LenProperties DEF Names
<1>2. IsFiniteSet(1 .. Len(w)) /\ Cardinality(1 .. Len(w)) = Len(w)
  BY <1>1, SizeUpTo
<1>3. P \in SUBSET (1 .. Len(w))
  BY <1>1
<1> HIDE DEF P
<1>4. IsFiniteSet(P) /\ Cardinality(P) <= Len(w)
  BY <1>2, <1>3, FS_Subset
<1>5. Cardinality(P) \in Nat
  BY <1>4, FS_CardinalityType
<1>6. Cardinality(P) \in 0 .. Len(w)
  BY <1>1, <1>4, <1>5
<1> QED
  BY <1>6 DEF P, CountIn

\* There are as many different characters as there are characters, or fewer.
LEMMA CharactersAre ==
  ASSUME NEW w \in Names, Len(w) > 0
  PROVE  Cardinality(ToSet(w)) \in 1 .. Len(w)
<1>1. Len(w) \in Nat /\ DOMAIN w = 1 .. Len(w) /\ 1 \in 1 .. Len(w)
  BY LenProperties DEF Names
<1>2. IsFiniteSet(1 .. Len(w)) /\ Cardinality(1 .. Len(w)) = Len(w)
  BY <1>1, SizeUpTo
<1>3. w \in [1 .. Len(w) -> ToSet(w)]
  BY <1>1 DEF ToSet, Names
<1>4. w \in Surjection(1 .. Len(w), ToSet(w))
  BY <1>1, <1>3 DEF Surjection, ToSet
<1>5. IsFiniteSet(ToSet(w)) /\ Cardinality(ToSet(w)) <= Len(w)
  BY <1>2, <1>4, FS_Surjection
<1>6. w[1] \in ToSet(w)
  BY <1>1 DEF ToSet
<1>7. Cardinality(ToSet(w)) \in Nat /\ Cardinality(ToSet(w)) # 0
  BY <1>5, <1>6, FS_CardinalityType, FS_EmptySet
<1> QED
  BY <1>1, <1>5, <1>7

\* There are as many different bigrams as there are bigrams, or fewer.
LEMMA BigramsAre ==
  ASSUME NEW ls \in Seq(Names), \A k \in 1 .. Len(ls) : Len(ls[k]) <= MaxLabel
  PROVE  Cardinality({SubSeq(ls[b[1]], b[2], b[2] + 1) : b \in Bigrams(ls)})
           \in 0 .. Cardinality(Bigrams(ls))
<1> DEFINE B == Bigrams(ls)
           f == [b \in B |-> SubSeq(ls[b[1]], b[2], b[2] + 1)]
           U == {SubSeq(ls[b[1]], b[2], b[2] + 1) : b \in B}
<1>1. Len(ls) \in Nat /\ DOMAIN ls = 1 .. Len(ls) /\ MaxLabel \in Nat
  BY LenProperties, NameConstants
<1>2. B \in SUBSET ((1 .. Len(ls)) \X (1 .. MaxLabel))
  <2>1. ASSUME NEW k \in 1 .. Len(ls), NEW i \in 1 .. Len(ls[k]) - 1
        PROVE  <<k, i>> \in (1 .. Len(ls)) \X (1 .. MaxLabel)
    <3>1. ls[k] \in Names
      BY ElementOfSeq
    <3>2. Len(ls[k]) \in Nat /\ Len(ls[k]) <= MaxLabel
      BY <3>1, LenProperties DEF Names
    <3>3. i \in 1 .. MaxLabel
      BY <1>1, <3>2
    <3> QED
      BY <3>3
  <2> QED
    BY <1>1, <2>1 DEF Bigrams
<1>3. IsFiniteSet((1 .. Len(ls)) \X (1 .. MaxLabel))
  BY <1>1, SizeUpTo, FS_Product
<1> HIDE DEF B
<1>4. IsFiniteSet(B)
  BY <1>2, <1>3, FS_Subset
<1>5. f \in Surjection(B, U)
  BY DEF Surjection
<1> HIDE DEF f, U
<1>6. IsFiniteSet(U) /\ Cardinality(U) <= Cardinality(B)
  BY <1>4, <1>5, FS_Surjection
<1>7. Cardinality(U) \in Nat /\ Cardinality(B) \in Nat
  BY <1>4, <1>6, FS_CardinalityType
<1>8. Cardinality(U) \in 0 .. Cardinality(B)
  BY <1>6, <1>7
<1> QED
  BY <1>8 DEF U, B

\* Every feature of a name that passed is in the range of the alert contract.
LEMMA FeaturesAreInRange ==
  ASSUME NEW v \in Names, IsName(v)
  PROVE  FeaturesInRange(Features(Normalized(v)))
<1> DEFINE n  == Normalized(v)
           ls == Labels(n)
           compact == FlattenSeq(ls)
           f  == Features(n)
           sizes == {Len(l) : l \in ToSet(ls)}
<1>1. n \in Names /\ Normalized(n) = n
  BY NormalizedIs, NameIsNormalized
<1>2. \A l \in ToSet(ls) : Len(l) \in 1 .. MaxLabel
  BY DEF IsName, IsLabel
<1> HIDE DEF n
<1>3. ls \in LabelLists /\ Len(ls) \in Nat \ {0} /\ DOMAIN ls = 1 .. Len(ls)
  BY <1>1, LabelsArePlaced, LenProperties, EmptySeq DEF LabelLists
<1>4. /\ f.domain_length = Len(compact) /\ f.label_count = Len(ls)
      /\ f.longest_label = Max(sizes)
      /\ f.digits = CountIn(compact, Digit)
      /\ f.hyphens = CountIn(compact, {"-"})
      /\ f.vowels = CountIn(compact, Vowel)
      /\ f.unique_chars = Cardinality(ToSet(compact))
      /\ f.bigrams = Cardinality(Bigrams(ls))
      /\ f.unique_bigrams =
           Cardinality({SubSeq(ls[b[1]], b[2], b[2] + 1) : b \in Bigrams(ls)})
  BY <1>1 DEF Features, CountIn
<1> HIDE DEF ls, f
<1>5. \A k \in 1 .. Len(ls) : Len(ls[k]) \in 1 .. MaxLabel
  BY <1>2, <1>3 DEF ToSet
<1>6. compact \in Names /\ Len(compact) \in Nat \ {0}
  BY <1>3, <1>5, Joined
<1> HIDE DEF compact
<1>7. Max(sizes) > 0
  <2>1. sizes \in SUBSET Nat /\ \A y \in sizes : y <= MaxLabel /\ y > 0
    BY <1>2, NameConstants
  <2>2. Len(ls[1]) \in sizes
    BY <1>3 DEF ToSet
  <2> HIDE DEF sizes
  <2>3. Max(sizes) \in sizes
    BY <2>1, <2>2, MaxOfBounded, NameConstants
  <2> QED
    BY <2>1, <2>3
<1> HIDE DEF sizes
<1>8. {f.digits, f.hyphens, f.vowels} \subseteq 0 .. f.domain_length
  BY <1>4, <1>6, CountIs
<1>9. f.unique_chars \in 1 .. f.domain_length
  BY <1>4, <1>6, CharactersAre
<1>10. f.unique_bigrams \in 0 .. f.bigrams
  <2>1. ls \in Seq(Names) /\ \A k \in 1 .. Len(ls) : Len(ls[k]) <= MaxLabel
    BY <1>3, <1>5, NameConstants DEF LabelLists
  <2> QED
    BY <1>4, <2>1, BigramsAre
<1>11. FeaturesInRange(f)
  BY <1>3, <1>4, <1>6, <1>7, <1>8, <1>9, <1>10 DEF FeaturesInRange
<1> QED
  BY <1>11 DEF f, n

\* The alert contract takes an alert for any name that passed the event contract.
LEMMA AlertIsValid ==
  ASSUME NEW v \in Names, IsName(v), NEW p \in 0 .. 100, Reports(p)
  PROVE  ValidAlert(DgaAlert(Normalized(v), p))
<1> DEFINE a == DgaAlert(Normalized(v), p)
<1>1. /\ a.query_name = Normalized(v) /\ a.dga_probability = p /\ a.confidence = p
      /\ a.features = Features(Normalized(v)) /\ a.severity = Severity(p)
  BY DEF DgaAlert
<1> HIDE DEF a
<1>2. ValidEvidence(a)
  BY <1>1, NameIsNormalized, FeaturesAreInRange DEF ValidEvidence, IsName, Reports
<1>3. a.severity = IF p >= 95 THEN "CRITICAL" ELSE IF p >= 85 THEN "HIGH" ELSE "MEDIUM"
  BY <1>1 DEF Severity
<1> QED
  BY <1>1, <1>2, <1>3 DEF ValidAlert, a

\* The runs among the features are those of the name itself.
LEMMA AlertRunsAreLongest ==
  ASSUME NEW v \in Names, IsName(v)
  PROVE  /\ Features(Normalized(v)).consonant_run = LongestStretch(Normalized(v), Consonant)
         /\ Features(Normalized(v)).digit_run = LongestStretch(Normalized(v), Digit)
<1>1. Normalized(v) \in Names /\ Normalized(Normalized(v)) = Normalized(v)
  BY NormalizedIs, NameIsNormalized
<1>2. /\ Features(Normalized(v)).consonant_run = LongestRun(Labels(Normalized(v)), Consonant)
      /\ Features(Normalized(v)).digit_run = LongestRun(Labels(Normalized(v)), Digit)
  BY <1>1 DEF Features
<1>3. "." \notin Consonant /\ "." \notin Digit
  BY DEF Consonant, Digit
<1> QED
  BY <1>1, <1>2, <1>3, LongestRunIsStretch

-----------------------------------------------------------------------------
(* The alerts of a pipeline. *)

\* A DGA alert that process returns is the one made for some query name.
AlertsAreReports ==
  \A a \in DgaAlerts : \E name \in EventName, p \in Probability :
    Reports(p) /\ a = DgaAlert(name, p)

\* A SYN event raises no DGA alert.
LEMMA NoAlertOfSyn ==
  ASSUME NEW e \in Scan!Event, ProcessSyn(e)
  PROVE  DgaAlerts' = {}
<1>1. ASSUME NEW r PROVE \A i \in DOMAIN AlertsOf(r) : AlertsOf(r)[i].kind # "dga"
  BY DEF AlertsOf
<1>2. CASE ScanRaises(e) \/ FloodRaises(e)
  <2>1. outcome'.kind = "raised"
    BY <1>2 DEF ScanRaises, FloodRaises, Raises
  <2> QED
    BY <2>1 DEF DgaAlerts
<1>3. CASE BothReturn(e)
  <2> DEFINE s == AlertsOf(scanResult')
             f == AlertsOf(floodResult')
  <2>1. outcome' = Returns(s \o f)
    BY <1>3 DEF BothReturn
  <2>2. /\ s = <<>> \/ (s = <<scanResult'>> /\ scanResult'.kind = "alert")
        /\ f = <<>> \/ (f = <<floodResult'>> /\ floodResult'.kind = "alert")
    BY DEF AlertsOf
  <2> HIDE DEF s, f
  <2>3. \A i \in DOMAIN (s \o f) : (s \o f)[i].kind = "alert"
    BY <2>2
  <2>4. \A a \in ToSet(s \o f) : a.kind = "alert"
    BY <2>3 DEF ToSet
  <2>5. outcome'.alerts = s \o f
    BY <2>1 DEF Returns
  <2> QED
    BY <2>4, <2>5 DEF DgaAlerts
<1> QED
  BY <1>2, <1>3 DEF ProcessSyn

\* A query raises its own alert or none.
LEMMA AlertsOfDns ==
  ASSUME NEW d \in DnsEvent, ProcessDns(d)
  PROVE  AlertsAreReports'
<1>1. d.name \in EventName /\ d.probability \in Probability
  BY DEF DnsEvent
<1>2. CASE Reports(d.probability)
  <2>1. outcome'.alerts = <<DgaAlert(d.name, d.probability)>>
    BY <1>2 DEF ProcessDns, Returns
  <2>2. ToSet(<<DgaAlert(d.name, d.probability)>>) = {DgaAlert(d.name, d.probability)}
    BY DEF ToSet
  <2>3. \A a \in DgaAlerts' : a = DgaAlert(d.name, d.probability)
    BY <2>1, <2>2 DEF DgaAlerts
  <2> QED
    BY <1>1, <1>2, <2>3 DEF AlertsAreReports
<1>3. CASE ~Reports(d.probability)
  <2>1. outcome'.alerts = <<>>
    BY <1>3 DEF ProcessDns, Returns
  <2>2. DgaAlerts' = {}
    BY <2>1 DEF DgaAlerts, ToSet
  <2> QED
    BY <2>2 DEF AlertsAreReports
<1> QED
  BY <1>2, <1>3

\* Every DGA alert that a pipeline returns is made by DgaDetector.process for the
\* normalized name of a query and a probability that reaches the threshold.
THEOREM AlertsAreMade == Spec => []AlertsAreReports
<1>1. Init => AlertsAreReports
  <2>1. Init => DgaAlerts = {}
    BY DEF Init, Returns, DgaAlerts, ToSet
  <2> QED
    BY <2>1 DEF AlertsAreReports
<1>2. AlertsAreReports /\ [Next]_vars => AlertsAreReports'
  <2>1. ASSUME NEW d \in DnsEvent, ProcessDns(d) PROVE AlertsAreReports'
    BY <2>1, AlertsOfDns
  <2>2. ASSUME NEW e \in Scan!Event, ProcessSyn(e) PROVE AlertsAreReports'
    BY <2>2, NoAlertOfSyn DEF AlertsAreReports
  <2>3. AlertsAreReports /\ UNCHANGED vars => AlertsAreReports'
    BY DEF vars, AlertsAreReports, DgaAlerts
  <2> QED
    BY <2>1, <2>2, <2>3 DEF Next
<1> QED
  BY <1>1, <1>2, PTL DEF Spec

\* An event has the normalized form of a name that passed.
LEMMA EventNameIs ==
  ASSUME NEW name \in EventName
  PROVE  \E v \in Names : IsName(v) /\ name = Normalized(v)
BY DgaConstants DEF EventName, Names

\* No DGA alert is refused by its own contract, whatever names Zeek reports, of any
\* length and with any dots, and whatever the model answers: a name that passed the
\* event contract does not end in a dot and has no empty label, so it is the same
\* when the alert contract normalizes it again, and every feature is in its range.
THEOREM DgaAlertsPass == Spec => []DgaAlertsAreValid
<1>1. AlertsAreReports => DgaAlertsAreValid
  <2> SUFFICES ASSUME AlertsAreReports, NEW a \in DgaAlerts PROVE ValidAlert(a)
    BY DEF DgaAlertsAreValid
  <2>1. PICK name \in EventName, p \in Probability : Reports(p) /\ a = DgaAlert(name, p)
    BY DEF AlertsAreReports
  <2>2. PICK v \in Names : IsName(v) /\ name = Normalized(v)
    BY EventNameIs
  <2>3. p \in 0 .. 100
    BY DgaConstants
  <2> QED
    BY <2>1, <2>2, <2>3, AlertIsValid
<1> QED
  BY <1>1, AlertsAreMade, PTL

\* The loop that starts anew at each label finds the longest run of consonants and
\* of digits of every name, at the end of a label as well.
THEOREM RunsAreTheLongest == Spec => []RunsAreLongest
<1>1. AlertsAreReports => RunsAreLongest
  <2> SUFFICES ASSUME AlertsAreReports, NEW a \in DgaAlerts
               PROVE  /\ a.features.consonant_run = LongestStretch(a.query_name, Consonant)
                      /\ a.features.digit_run = LongestStretch(a.query_name, Digit)
    BY DEF RunsAreLongest
  <2>1. PICK name \in EventName, p \in Probability : a = DgaAlert(name, p)
    BY DEF AlertsAreReports
  <2>2. PICK v \in Names : IsName(v) /\ name = Normalized(v)
    BY EventNameIs
  <2>3. a.query_name = Normalized(v) /\ a.features = Features(Normalized(v))
    BY <2>1, <2>2 DEF DgaAlert
  <2> QED
    BY <2>2, <2>3, AlertRunsAreLongest
<1> QED
  BY <1>1, AlertsAreMade, PTL
=============================================================================
