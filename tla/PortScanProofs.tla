--------------------------- MODULE PortScanProofs ---------------------------
(***************************************************************************)
(* Proofs about PortScan for all sizes of its constants: the deque, the UID *)
(* table and the cooldown table.  The invariant IInv is inductive: the      *)
(* queues stay sorted, so the expiry loops are exact filters by age; then   *)
(* Window <= DedupTtl keeps the UID of every active attempt in the table.   *)
(* Then the states of the sources: deque and counters of each are what the  *)
(* window has of it, through every loop that keeps them, and so an alert's  *)
(* evidence is valid.                                                       *)
(***************************************************************************)
EXTENDS PortScan, TimedQueueProofs

LEMMA ConstantTypes ==
  /\ Window \in Nat /\ DedupTtl \in Nat /\ Cooldown \in Nat /\ Window <= DedupTtl
  /\ MaxTotalAttempts \in Nat /\ MaxDedupUids \in Nat
  /\ MaxCooldownSources \in Nat \ {0}
BY ConfigAssumption, LimitAssumption

LEMMA EventTimes ==
  /\ \A x \in Event : x.ts \in Int /\ x.ts \in Time /\ x.uid \in Uid /\ x.src \in Source
  /\ \A x \in SeenUid : x.ts \in Int
  /\ \A x \in LastAlert : x.ts \in Int
BY TimeAssumption DEF Event, SeenUid, LastAlert

\* The expiry of an event that does not regress leaves a consistent window.
LEMMA ExpiryKeepsWindow ==
  ASSUME IInv, NEW e \in Event, ~Regresses(e)
  PROVE  WindowConsistent(e.ts, LiveAttempts(e.ts), LiveUids(e.ts))
<1>1. e.ts \in Int
  BY EventTimes
<1>2. UidWindow(Event, SeenUid, Window, e.ts, LiveAttempts(e.ts), LiveUids(e.ts))
      /\ Len(LiveAttempts(e.ts)) <= Len(attempts) /\ Len(LiveUids(e.ts)) <= Len(seen)
      /\ Len(attempts) <= MaxTotalAttempts /\ Len(seen) <= MaxDedupUids
      /\ Len(LiveAttempts(e.ts)) \in Nat /\ Len(LiveUids(e.ts)) \in Nat
      /\ Len(attempts) \in Nat /\ Len(seen) \in Nat
  <2>1. CASE watermark = None
    <3>1. attempts = <<>> /\ seen = <<>>
      BY <2>1 DEF IInv
    <3>2. UidWindow(Event, SeenUid, Window, e.ts, attempts, seen)
      BY <3>1, EmptyUidWindow
    <3>3. Len(attempts) <= MaxTotalAttempts /\ Len(seen) <= MaxDedupUids
      BY <3>1, ConstantTypes
    <3>4. e.ts <= e.ts
      BY <1>1
    <3> QED
      BY <1>1, <3>2, <3>3, <3>4, EventTimes, ConstantTypes, UidWindowExpiry
         DEF LiveAttempts, LiveUids
  <2>2. CASE watermark # None
    <3>1. watermark \in Int /\ watermark <= e.ts
      BY <1>1, <2>2, TimeAssumption DEF IInv, Regresses
    <3>2. WindowConsistent(watermark, attempts, seen)
      BY <2>2 DEF IInv
    <3> QED
      BY <1>1, <3>1, <3>2, EventTimes, ConstantTypes, UidWindowExpiry
         DEF LiveAttempts, LiveUids, WindowConsistent
  <2> QED
    BY <2>1, <2>2
<1> QED
  BY <1>2, ConstantTypes DEF WindowConsistent

\* Inserting an event with a new UID and room for it keeps the window consistent.
LEMMA InsertKeepsWindow ==
  ASSUME NEW e \in Event, NEW at, NEW sn,
         WindowConsistent(e.ts, at, sn), e.uid \notin KeysOf(sn),
         Len(at) < MaxTotalAttempts, Len(sn) < MaxDedupUids
  PROVE  WindowConsistent(e.ts, Append(at, e), Append(sn, Entry(e.uid, e.ts)))
<1>1. Entry(e.uid, e.ts) \in SeenUid /\ e.ts \in Int
  BY EventTimes DEF SeenUid, Entry
<1>2. UidWindow(Event, SeenUid, Window, e.ts, Append(at, e), Append(sn, Entry(e.uid, e.ts)))
  BY <1>1, EventTimes, ConstantTypes, UidWindowInsert DEF WindowConsistent
<1>3. at \in Seq(Event) /\ sn \in Seq(SeenUid)
  BY DEF WindowConsistent, UidWindow
<1>4. /\ Len(Append(at, e)) = Len(at) + 1 /\ Len(at) \in Nat
      /\ Len(Append(sn, Entry(e.uid, e.ts))) = Len(sn) + 1 /\ Len(sn) \in Nat
  BY <1>1, <1>3, AppendProperties, LenProperties
<1> QED
  BY <1>2, <1>4, ConstantTypes DEF WindowConsistent

\* Time alone does not disturb the cooldown table: this is what a limit of the
\* window leaves, since process then never reaches _expire_cooldowns.
LEMMA TimeKeepsCooldown ==
  ASSUME IInv, NEW e \in Event, ~Regresses(e)
  PROVE  CooldownConsistent(e.ts, cooldown)
<1>1. e.ts \in Int
  BY EventTimes
<1>2. CASE watermark = None
  <2>1. cooldown = <<>>
    BY <1>2 DEF IInv
  <2>2. Len(cooldown) = 0 /\ cooldown \in Seq(LastAlert)
    BY <2>1, EmptySeq
  <2> QED
    BY <2>2, ConstantTypes DEF CooldownConsistent, TimeSorted, DistinctKeys
<1>3. CASE watermark # None
  <2>1. watermark \in Int /\ watermark <= e.ts
    BY <1>1, <1>3, TimeAssumption DEF IInv, Regresses
  <2>2. CooldownConsistent(watermark, cooldown)
    BY <1>3 DEF IInv
  <2>3. \A i \in 1 .. Len(cooldown) :
          cooldown[i].ts \in Int /\ cooldown[i].ts <= watermark
    BY <2>2, EventTimes, ElementOfSeq DEF CooldownConsistent
  <2>4. \A i \in 1 .. Len(cooldown) : cooldown[i].ts <= e.ts
    BY <1>1, <2>1, <2>3
  <2> QED
    BY <2>2, <2>4 DEF CooldownConsistent
<1> QED
  BY <1>2, <1>3

\* The expiry of the cooldown table keeps exactly the entries that still
\* suppress; in particular no entry is left behind a younger one.
LEMMA ExpiryKeepsCooldown ==
  ASSUME IInv, NEW e \in Event, ~Regresses(e)
  PROVE  /\ CooldownConsistent(e.ts, LiveCooldowns(e.ts))
         /\ \A i \in 1 .. Len(LiveCooldowns(e.ts)) :
              e.ts - LiveCooldowns(e.ts)[i].ts < Cooldown
         /\ \A i \in 1 .. Len(cooldown) : e.ts - cooldown[i].ts < Cooldown =>
              \E j \in 1 .. Len(LiveCooldowns(e.ts)) : LiveCooldowns(e.ts)[j] = cooldown[i]
<1> DEFINE cd == LiveCooldowns(e.ts)
<1>1. e.ts \in Int /\ e.ts - Cooldown + 1 \in Int /\ Cooldown \in Nat
  BY EventTimes, ConstantTypes
<1>2. CooldownConsistent(e.ts, cooldown)
  BY TimeKeepsCooldown
<1>3. /\ CooldownTable(LastAlert, e.ts, cooldown) /\ cooldown \in Seq(LastAlert)
      /\ TimeSorted(cooldown) /\ Len(cooldown) <= MaxCooldownSources
  BY <1>2 DEF CooldownConsistent, CooldownTable
<1>4. /\ CooldownTable(LastAlert, e.ts, cd)
      /\ \A i \in 1 .. Len(cd) : e.ts - cd[i].ts < Cooldown
  BY <1>1, <1>3, EventTimes, CooldownExpiry DEF LiveCooldowns
<1>5. Len(cd) <= MaxCooldownSources
  <2>1. PICK n \in Nat : Len(cd) = Len(cooldown) - n
    BY <1>1, <1>3, EventTimes, UnexpiredShift DEF LiveCooldowns
  <2> QED
    BY <1>3, <2>1, LenProperties, ConstantTypes
<1>6. \A i \in 1 .. Len(cooldown) : cooldown[i].ts >= e.ts - Cooldown + 1 =>
        \E j \in 1 .. Len(cd) : cd[j] = cooldown[i]
  BY <1>1, <1>3, EventTimes, UnexpiredOfSorted DEF LiveCooldowns
<1> HIDE DEF cd
<1>7. ASSUME NEW i \in 1 .. Len(cooldown), e.ts - cooldown[i].ts < Cooldown
      PROVE  \E j \in 1 .. Len(cd) : cd[j] = cooldown[i]
  <2>1. cooldown[i].ts \in Int
    BY <1>3, EventTimes, ElementOfSeq
  <2>2. cooldown[i].ts >= e.ts - Cooldown + 1
    BY <1>1, <1>7, <2>1
  <2> QED
    BY <1>6, <2>2
<1>8. CooldownConsistent(e.ts, cd)
  BY <1>4, <1>5 DEF CooldownConsistent, CooldownTable
<1> QED
  BY <1>4, <1>7, <1>8 DEF cd

\* An alert that is not suppressed is entered at the end of the cooldown table:
\* the in-place update of an OrderedDict key never happens.
LEMMA AlertIsAppended ==
  ASSUME IInv, NEW e \in Event, ~Regresses(e), ~Suppressed(e), ~NoCooldownSlot(e)
  PROVE  /\ e.src \notin KeysOf(LiveCooldowns(e.ts))
         /\ Put(LiveCooldowns(e.ts), e.src, e.ts)
              = Append(LiveCooldowns(e.ts), Entry(e.src, e.ts))
         /\ CooldownConsistent(e.ts, Put(LiveCooldowns(e.ts), e.src, e.ts))
<1> DEFINE cd == LiveCooldowns(e.ts)
           c  == Entry(e.src, e.ts)
<1>1. /\ CooldownConsistent(e.ts, cd)
      /\ \A i \in 1 .. Len(cd) : e.ts - cd[i].ts < Cooldown
  BY ExpiryKeepsCooldown
<1>2. /\ cd \in Seq(LastAlert) /\ Len(cd) \in Nat /\ DOMAIN cd = 1 .. Len(cd)
  BY <1>1, LenProperties DEF CooldownConsistent
<1>3. e.ts \in Int /\ c \in LastAlert /\ c.key = e.src /\ c.ts = e.ts
  BY EventTimes DEF LastAlert, Entry
<1>4. \A i \in 1 .. Len(cd) : cd[i].key # e.src
  BY <1>1, <1>2 DEF Suppressed
<1>5. e.src \notin KeysOf(cd)
  BY <1>2, <1>4 DEF KeysOf
<1>6. Len(cd) < MaxCooldownSources
  BY <1>2, <1>5, ConstantTypes DEF NoCooldownSlot, AtLimit
<1>7. CooldownTable(LastAlert, e.ts, cd)
  BY <1>1 DEF CooldownConsistent, CooldownTable
<1>8. Put(cd, e.src, e.ts) = Append(cd, c) /\ CooldownTable(LastAlert, e.ts, Append(cd, c))
  <2>1. \A x \in LastAlert : x.ts \in Int
    BY EventTimes
  <2> HIDE DEF cd
  <2> QED
    BY ONLY <1>3, <1>5, <1>7, <2>1, CooldownInsert DEF c
<1>9. Len(Append(cd, c)) <= MaxCooldownSources
  <2>1. Len(Append(cd, c)) = Len(cd) + 1
    BY <1>2, <1>3, AppendProperties
  <2> QED
    BY <1>2, <1>6, <2>1, ConstantTypes
<1>10. CooldownConsistent(e.ts, Append(cd, c))
  BY <1>8, <1>9 DEF CooldownConsistent, CooldownTable
<1> QED
  BY <1>5, <1>8, <1>10 DEF cd, c

-----------------------------------------------------------------------------
LEMMA InitIInv == Init => IInv
BY DEF Init, IInv, Nothing

\* An event past _preflight_limits has room in the deque and in the UID table.
LEMMA AdmittedHasRoom ==
  ASSUME IInv, NEW e \in Event, Admitted(e)
  PROVE  /\ Len(LiveAttempts(e.ts)) < MaxTotalAttempts
         /\ Len(LiveUids(e.ts)) < MaxDedupUids
<1>1. /\ Len(LiveAttempts(e.ts)) \in Nat /\ Len(LiveUids(e.ts)) \in Nat
  BY ExpiryKeepsWindow, LenProperties DEF Admitted, WindowConsistent, UidWindow
<1>2. /\ ~(Len(LiveAttempts(e.ts)) >= MaxTotalAttempts)
      /\ ~(Len(LiveUids(e.ts)) >= MaxDedupUids)
  BY DEF Admitted, ExceededLimits, AtLimit
<1> QED
  BY <1>1, <1>2, ConstantTypes

\* The window after a call that took the event in, and after one that took it
\* back: the rollback restores what the expiry left.
LEMMA InsertConsistent ==
  ASSUME IInv, NEW e \in Event, Admitted(e), Insert(e)
  PROVE  WindowConsistent(watermark', attempts', seen')
BY ExpiryKeepsWindow, AdmittedHasRoom, InsertKeepsWindow DEF Admitted, Insert, SeenEntry

LEMMA RollBackRestores ==
  ASSUME IInv, NEW e \in Event, RollBack(e)
  PROVE  attempts' = LiveAttempts(e.ts) /\ seen' = LiveUids(e.ts)
<1>1. ~Regresses(e)
  BY DEF RollBack, Admitted
<1>2. LiveAttempts(e.ts) \in Seq(Event) /\ LiveUids(e.ts) \in Seq(SeenUid)
  BY <1>1, ExpiryKeepsWindow DEF WindowConsistent, UidWindow
<1>3. Entry(e.uid, e.ts) \in SeenUid
  BY EventTimes DEF SeenUid, Entry
<1> QED
  BY <1>2, <1>3, FrontOfAppend DEF RollBack, PopNewest, SeenEntry

LEMMA WatermarkSet ==
  ASSUME NEW e \in Event
  PROVE  e.ts \in Time /\ e.ts # None
BY EventTimes, TimeAssumption

LEMMA NextIInv ==
  ASSUME IInv, [Next]_vars
  PROVE  IInv'
<1>1. ASSUME NEW e \in Event, RejectRegression(e) PROVE IInv'
  BY <1>1 DEF RejectRegression, IInv, window, Regressed
<1>2. ASSUME NEW e \in Event, IgnoreDuplicate(e) PROVE IInv'
  <2>1. ~Regresses(e)
    BY <1>2 DEF IgnoreDuplicate
  <2>2. /\ WindowConsistent(watermark', attempts', seen')
        /\ CooldownConsistent(watermark', cooldown')
    BY <1>2, <2>1, ExpiryKeepsWindow, ExpiryKeepsCooldown DEF IgnoreDuplicate, ExpireWindow
  <2> QED
    BY <1>2, <2>2, WatermarkSet DEF IgnoreDuplicate, ExpireWindow, IInv, Nothing
<1>3. ASSUME NEW e \in Event, RejectAtLimit(e) PROVE IInv'
  <2>1. ~Regresses(e)
    BY <1>3 DEF RejectAtLimit
  <2>2. /\ WindowConsistent(watermark', attempts', seen')
        /\ CooldownConsistent(watermark', cooldown')
    BY <1>3, <2>1, ExpiryKeepsWindow, TimeKeepsCooldown DEF RejectAtLimit, ExpireWindow
  <2>3. result'.kind = "limit"
    BY <1>3 DEF RejectAtLimit, Exceeded
  <2> QED
    BY <1>3, <2>2, <2>3, WatermarkSet DEF RejectAtLimit, ExpireWindow, IInv
<1>4. ASSUME NEW e \in Event, RecordQuietly(e) PROVE IInv'
  <2>1. Admitted(e) /\ ~Regresses(e) /\ Insert(e)
    BY <1>4 DEF RecordQuietly, Admitted
  <2>2. /\ WindowConsistent(watermark', attempts', seen')
        /\ CooldownConsistent(watermark', cooldown')
    BY <1>4, <2>1, InsertConsistent, ExpiryKeepsCooldown DEF RecordQuietly, Insert
  <2> QED
    BY <1>4, <2>1, <2>2, WatermarkSet DEF RecordQuietly, Insert, IInv, Nothing
<1>5. ASSUME NEW e \in Event, RollBack(e) PROVE IInv'
  <2>1. ~Regresses(e)
    BY <1>5 DEF RollBack, Admitted
  <2>2. /\ WindowConsistent(watermark', attempts', seen')
        /\ CooldownConsistent(watermark', cooldown')
    BY <1>5, <2>1, RollBackRestores, ExpiryKeepsWindow, ExpiryKeepsCooldown DEF RollBack
  <2> QED
    BY <1>5, <2>2, WatermarkSet DEF RollBack, IInv, Exceeded
<1>6. ASSUME NEW e \in Event, RaiseAlert(e) PROVE IInv'
  <2>1. Admitted(e) /\ ~Regresses(e) /\ Insert(e)
    BY <1>6 DEF RaiseAlert, Admitted
  <2>2. WindowConsistent(watermark', attempts', seen')
    BY <2>1, InsertConsistent
  <2>3. CooldownConsistent(watermark', cooldown')
    BY <1>6, <2>1, AlertIsAppended DEF RaiseAlert, Insert
  <2> QED
    BY <1>6, <2>1, <2>2, <2>3, WatermarkSet DEF RaiseAlert, Insert, IInv, AlertOf
<1>7. CASE UNCHANGED vars
  BY <1>7 DEF vars, window, IInv
<1> QED
  BY <1>1, <1>2, <1>3, <1>4, <1>5, <1>6, <1>7 DEF Next, Process

LEMMA Invariance == Spec => []IInv
<1>1. IInv /\ [Next]_vars => IInv'
  BY NextIInv
<1> QED
  BY <1>1, InitIInv, PTL DEF Spec

\* The invariant at the state's own types, whatever the watermark.
LEMMA IInvFacts ==
  ASSUME IInv
  PROVE  /\ attempts \in Seq(Event) /\ DOMAIN attempts = 1 .. Len(attempts)
         /\ seen \in Seq(SeenUid) /\ DOMAIN seen = 1 .. Len(seen)
         /\ cooldown \in Seq(LastAlert) /\ DOMAIN cooldown = 1 .. Len(cooldown)
         /\ DistinctUids(attempts) /\ DistinctKeys(seen) /\ DistinctKeys(cooldown)
         /\ TimeSorted(attempts)
         /\ \A i \in 1 .. Len(attempts) :
              attempts[i].ts <= watermark /\ watermark - attempts[i].ts <= Window
         /\ Len(attempts) <= MaxTotalAttempts /\ Len(seen) <= MaxDedupUids
         /\ Len(cooldown) <= MaxCooldownSources
<1>1. CASE watermark = None
  <2>1. attempts = <<>> /\ seen = <<>> /\ cooldown = <<>>
    BY <1>1 DEF IInv
  <2>2. /\ Len(attempts) = 0 /\ attempts \in Seq(Event)
        /\ Len(seen) = 0 /\ seen \in Seq(SeenUid)
        /\ Len(cooldown) = 0 /\ cooldown \in Seq(LastAlert)
    BY <2>1, EmptySeq
  <2>3. /\ DOMAIN attempts = 1 .. Len(attempts) /\ DOMAIN seen = 1 .. Len(seen)
        /\ DOMAIN cooldown = 1 .. Len(cooldown)
    BY <2>2, LenProperties
  <2> QED
    BY <2>2, <2>3, ConstantTypes
       DEF DistinctUids, DistinctKeys, TimeSorted
<1>2. CASE watermark # None
  <2>1. /\ WindowConsistent(watermark, attempts, seen)
        /\ CooldownConsistent(watermark, cooldown)
    BY <1>2 DEF IInv
  <2>2. /\ DOMAIN attempts = 1 .. Len(attempts) /\ DOMAIN seen = 1 .. Len(seen)
        /\ DOMAIN cooldown = 1 .. Len(cooldown)
    BY <2>1, LenProperties DEF WindowConsistent, UidWindow, CooldownConsistent
  <2> QED
    BY <2>1, <2>2 DEF WindowConsistent, UidWindow, CooldownConsistent
<1> QED
  BY <1>1, <1>2

\* PortScanDetector keeps its state well typed, and its ordered dictionaries
\* keep one entry per key.
THEOREM TypeCorrect == Spec => []TypeOK
<1>1. IInv => TypeOK
  BY IInvFacts DEF IInv, TypeOK, DistinctUids, DistinctKeys
<1> QED
  BY <1>1, Invariance, PTL

\* PortScanWindow counts a flow at most once in a window, for every window and
\* every TTL that PortScanDetector.__init__ accepts.
THEOREM FlowsCountedOnce == Spec => []NoDoubleCount
<1>1. IInv => NoDoubleCount
  BY IInvFacts DEF NoDoubleCount, DistinctUids
<1> QED
  BY <1>1, Invariance, PTL

\* PortScanWindow's deque is sorted and holds only what is within the window.
THEOREM WindowIsSound == Spec => []WindowSound
<1>1. IInv => WindowSound
  BY IInvFacts DEF WindowSound
<1> QED
  BY <1>1, Invariance, PTL

-----------------------------------------------------------------------------
\* A source has one entry in a cooldown table with distinct keys.
LEMMA CooldownOfEntry ==
  ASSUME NEW q \in Seq(LastAlert), DistinctKeys(q), NEW i \in 1 .. Len(q)
  PROVE  CooldownOf(q, q[i].key) = {q[i].ts}
<1>1. DOMAIN q = 1 .. Len(q)
  BY LenProperties
<1>2. {j \in DOMAIN q : q[j].key = q[i].key} = {i}
  BY <1>1 DEF DistinctKeys
<1> QED
  BY <1>2 DEF CooldownOf

\* The entry of a source that is still cooling down survives the expiry.
LEMMA CoolingEntryStays ==
  ASSUME IInv, NEW e \in Event, ~Regresses(e),
         NEW i \in 1 .. Len(cooldown), e.ts - cooldown[i].ts < Cooldown
  PROVE  /\ cooldown[i].key \in KeysOf(LiveCooldowns(e.ts))
         /\ CooldownOf(LiveCooldowns(e.ts), cooldown[i].key)
              = CooldownOf(cooldown, cooldown[i].key)
<1> DEFINE cd == LiveCooldowns(e.ts)
<1>1. PICK j \in 1 .. Len(cd) : cd[j] = cooldown[i]
  BY ExpiryKeepsCooldown
<1>2. cd \in Seq(LastAlert) /\ DistinctKeys(cd) /\ DOMAIN cd = 1 .. Len(cd)
  BY ExpiryKeepsCooldown, LenProperties DEF CooldownConsistent
<1> HIDE DEF cd
<1>3. CooldownOf(cd, cd[j].key) = {cd[j].ts}
  BY <1>2, CooldownOfEntry
<1>4. CooldownOf(cooldown, cooldown[i].key) = {cooldown[i].ts}
  BY IInvFacts, CooldownOfEntry
<1>5. cooldown[i].key \in KeysOf(cd)
  BY <1>1, <1>2 DEF KeysOf
<1> QED
  BY <1>1, <1>3, <1>4, <1>5 DEF cd

\* What entering an alert at the end of the table does to every source.
LEMMA CooldownOfAppend ==
  ASSUME NEW q \in Seq(LastAlert), NEW c \in LastAlert, c.key \notin KeysOf(q)
  PROVE  /\ CooldownOf(Append(q, c), c.key) = {c.ts}
         /\ \A s : s # c.key => CooldownOf(Append(q, c), s) = CooldownOf(q, s)
<1> DEFINE q2 == Append(q, c)
<1>1. /\ Len(q) \in Nat /\ DOMAIN q = 1 .. Len(q)
      /\ q2 \in Seq(LastAlert) /\ Len(q2) = Len(q) + 1 /\ q2[Len(q) + 1] = c
      /\ \A i \in 1 .. Len(q) : q2[i] = q[i]
  BY LenProperties, AppendProperties
<1>2. DOMAIN q2 = 1 .. Len(q2)
  BY <1>1, LenProperties
<1> HIDE DEF q2
<1>3. \A i \in 1 .. Len(q) : q[i].key # c.key
  BY <1>1 DEF KeysOf
<1>4. \A i \in DOMAIN q2 : i \in 1 .. Len(q) \/ i = Len(q) + 1
  BY <1>1, <1>2
<1>5. Len(q) + 1 \in DOMAIN q2 /\ \A i \in 1 .. Len(q) : i \in DOMAIN q2
  BY <1>1, <1>2
<1>6. {i \in DOMAIN q2 : q2[i].key = c.key} = {Len(q) + 1}
  BY <1>1, <1>3, <1>4, <1>5
<1>7. ASSUME NEW s, s # c.key
      PROVE  {i \in DOMAIN q2 : q2[i].key = s} = {i \in DOMAIN q : q[i].key = s}
  BY <1>1, <1>4, <1>5, <1>7
<1>8. CooldownOf(q2, c.key) = {c.ts}
  BY <1>1, <1>6 DEF CooldownOf
<1>9. ASSUME NEW s, s # c.key PROVE CooldownOf(q2, s) = CooldownOf(q, s)
  <2> DEFINE own == {i \in DOMAIN q : q[i].key = s}
  <2>1. {i \in DOMAIN q2 : q2[i].key = s} = own
    BY <1>7, <1>9
  <2>2. \A i \in own : q2[i].ts = q[i].ts
    BY <1>1
  <2>3. CooldownOf(q2, s) = {q2[i].ts : i \in own} /\ CooldownOf(q, s) = {q[i].ts : i \in own}
    BY <2>1 DEF CooldownOf
  <2> HIDE DEF own
  <2> QED
    BY <2>2, <2>3
<1> QED
  BY <1>8, <1>9 DEF q2

\* The two halves of AlertSpacing as step predicates.
AlertRecorded ==
  result'.kind = "alert" => CooldownOf(cooldown', result'.src) = {result'.end}
EntryLasts ==
  \A s \in KeysOf(cooldown) :
    CooldownOf(cooldown', s) # CooldownOf(cooldown, s)
      => \A t \in CooldownOf(cooldown, s) : watermark' - t >= Cooldown

\* Any step whose cooldown table keeps what the expiry keeps lets entries last.
LEMMA EntriesLast ==
  ASSUME IInv, NEW e \in Event, ~Regresses(e), watermark' = e.ts,
         \A s \in KeysOf(LiveCooldowns(e.ts)) :
           CooldownOf(cooldown', s) = CooldownOf(LiveCooldowns(e.ts), s)
  PROVE  EntryLasts
<1> SUFFICES ASSUME NEW s \in KeysOf(cooldown), NEW t \in CooldownOf(cooldown, s),
                    ~(watermark' - t >= Cooldown)
             PROVE  CooldownOf(cooldown', s) = CooldownOf(cooldown, s)
  BY DEF EntryLasts
<1>1. PICK i \in 1 .. Len(cooldown) : cooldown[i].key = s /\ cooldown[i].ts = t
  BY IInvFacts DEF CooldownOf
<1>2. t \in Int /\ e.ts \in Int
  BY <1>1, IInvFacts, EventTimes, ElementOfSeq
<1>3. e.ts - cooldown[i].ts < Cooldown
  BY <1>1, <1>2, ConstantTypes
<1> QED
  BY <1>1, <1>3, CoolingEntryStays

LEMMA SpacingStep ==
  ASSUME IInv, Next
  PROVE  AlertRecorded /\ EntryLasts
<1>1. ASSUME NEW e \in Event, RejectRegression(e) PROVE AlertRecorded /\ EntryLasts
  BY <1>1 DEF RejectRegression, Regressed, AlertRecorded, EntryLasts
<1>2. ASSUME NEW e \in Event, IgnoreDuplicate(e) PROVE AlertRecorded /\ EntryLasts
  <2>1. ~Regresses(e) /\ watermark' = e.ts /\ cooldown' = LiveCooldowns(e.ts)
    BY <1>2 DEF IgnoreDuplicate, ExpireWindow
  <2> QED
    BY <1>2, <2>1, EntriesLast DEF IgnoreDuplicate, Nothing, AlertRecorded
<1>3. ASSUME NEW e \in Event, RejectAtLimit(e) PROVE AlertRecorded /\ EntryLasts
  BY <1>3 DEF RejectAtLimit, Exceeded, AlertRecorded, EntryLasts
<1>4. ASSUME NEW e \in Event, RecordQuietly(e) PROVE AlertRecorded /\ EntryLasts
  <2>1. ~Regresses(e) /\ watermark' = e.ts /\ cooldown' = LiveCooldowns(e.ts)
    BY <1>4 DEF RecordQuietly, Admitted, Insert
  <2> QED
    BY <1>4, <2>1, EntriesLast DEF RecordQuietly, Nothing, AlertRecorded
<1>5. ASSUME NEW e \in Event, RollBack(e) PROVE AlertRecorded /\ EntryLasts
  <2>1. ~Regresses(e) /\ watermark' = e.ts /\ cooldown' = LiveCooldowns(e.ts)
    BY <1>5 DEF RollBack, Admitted
  <2> QED
    BY <1>5, <2>1, EntriesLast DEF RollBack, Exceeded, AlertRecorded
<1>6. ASSUME NEW e \in Event, RaiseAlert(e) PROVE AlertRecorded /\ EntryLasts
  <2> DEFINE cd == LiveCooldowns(e.ts)
             c  == Entry(e.src, e.ts)
  <2>1. /\ ~Regresses(e) /\ ~Suppressed(e) /\ ~NoCooldownSlot(e)
        /\ watermark' = e.ts /\ cooldown' = Put(cd, e.src, e.ts)
        /\ result'.src = e.src /\ result'.end = e.ts
    BY <1>6 DEF RaiseAlert, Admitted, Insert, AlertOf
  <2>2. e.src \notin KeysOf(cd) /\ cooldown' = Append(cd, c)
    BY <2>1, AlertIsAppended
  <2>3. cd \in Seq(LastAlert) /\ c \in LastAlert /\ c.key = e.src /\ c.ts = e.ts
    BY <2>1, ExpiryKeepsCooldown, EventTimes DEF CooldownConsistent, LastAlert, Entry
  <2> HIDE DEF cd, c
  <2>4. /\ CooldownOf(cooldown', c.key) = {c.ts}
        /\ \A s : s # c.key => CooldownOf(cooldown', s) = CooldownOf(cd, s)
    BY <2>2, <2>3, CooldownOfAppend
  <2>5. \A s \in KeysOf(cd) : CooldownOf(cooldown', s) = CooldownOf(cd, s)
    BY <2>2, <2>3, <2>4
  <2>6. EntryLasts
    BY <2>1, <2>5, EntriesLast DEF cd
  <2> QED
    BY <2>1, <2>3, <2>4, <2>6 DEF AlertRecorded
<1> QED
  BY <1>1, <1>2, <1>3, <1>4, <1>5, <1>6 DEF Next, Process

\* Two alerts of one source are at least Cooldown apart, for every sequence of
\* calls, the rejected ones included.
THEOREM AlertsSpaced == Spec => AlertSpacing
<1>1. IInv /\ [Next]_vars => [AlertRecorded /\ EntryLasts]_vars
  BY SpacingStep
<1>2. [][AlertRecorded /\ EntryLasts]_vars => AlertSpacing
  BY PTL DEF AlertSpacing, AlertRecorded, EntryLasts
<1> QED
  BY <1>1, <1>2, Invariance, PTL DEF Spec

-----------------------------------------------------------------------------
\* The expiry only ever drops the oldest entries, and dropping none is a case.
LEMMA ExpiryOnlyAges ==
  ASSUME NEW S, NEW q \in Seq(S), \A x \in S : x.ts \in Int, NEW cutoff \in Int
  PROVE  OnlyAged(Unexpired(q, cutoff), q)
BY UnexpiredIsSuffix DEF OnlyAged

LEMMA UnchangedOnlyAges ==
  ASSUME NEW S, NEW q \in Seq(S)
  PROVE  OnlyAged(q, q)
<1>1. q = SubSeq(q, 0 + 1, Len(q)) /\ 0 \in 0 .. Len(q)
  BY SubSeqFull, LenProperties
<1> QED
  BY <1>1 DEF OnlyAged

LEMMA CallOnlyAges ==
  ASSUME IInv, NEW e \in Event
  PROVE  /\ OnlyAged(LiveAttempts(e.ts), attempts)
         /\ OnlyAged(LiveUids(e.ts), seen)
         /\ OnlyAged(LiveCooldowns(e.ts), cooldown)
         /\ OnlyAged(cooldown, cooldown)
<1>1. /\ e.ts - Window \in Int /\ e.ts - DedupTtl \in Int
      /\ e.ts - Cooldown + 1 \in Int
  BY EventTimes, ConstantTypes
<1>2. attempts \in Seq(Event) /\ seen \in Seq(SeenUid) /\ cooldown \in Seq(LastAlert)
  BY IInvFacts
<1>3. OnlyAged(LiveAttempts(e.ts), attempts)
  BY <1>1, <1>2, EventTimes, ExpiryOnlyAges DEF LiveAttempts
<1>4. OnlyAged(LiveUids(e.ts), seen)
  BY <1>1, <1>2, EventTimes, ExpiryOnlyAges DEF LiveUids
<1>5. OnlyAged(LiveCooldowns(e.ts), cooldown)
  BY <1>1, <1>2, EventTimes, ExpiryOnlyAges DEF LiveCooldowns
<1>6. OnlyAged(cooldown, cooldown)
  BY <1>2, UnchangedOnlyAges
<1> QED
  BY <1>3, <1>4, <1>5, <1>6

\* The step predicate of RejectionLeavesNoTrace.
NoTrace ==
  result'.kind = "limit" =>
    /\ OnlyAged(attempts', attempts)
    /\ OnlyAged(seen', seen)
    /\ OnlyAged(cooldown', cooldown)

LEMMA NoTraceStep ==
  ASSUME IInv, Next
  PROVE  NoTrace
<1>1. ASSUME NEW e \in Event, RejectAtLimit(e) PROVE NoTrace
  BY <1>1, CallOnlyAges DEF RejectAtLimit, ExpireWindow, NoTrace
<1>2. ASSUME NEW e \in Event, RollBack(e) PROVE NoTrace
  <2>1. cooldown' = LiveCooldowns(e.ts)
    BY <1>2 DEF RollBack
  <2> QED
    BY <1>2, <2>1, RollBackRestores, CallOnlyAges DEF NoTrace
<1>3. ASSUME NEW e \in Event,
             RejectRegression(e) \/ IgnoreDuplicate(e) \/ RecordQuietly(e) \/ RaiseAlert(e)
      PROVE  NoTrace
  BY <1>3 DEF RejectRegression, IgnoreDuplicate, RecordQuietly, RaiseAlert, Regressed,
              Nothing, AlertOf, NoTrace
<1> QED
  BY <1>1, <1>2, <1>3 DEF Next, Process

\* A call that a limit rejected, before or after the insertion, leaves the
\* deque, the UID table and the cooldown table as ageing alone would.
THEOREM RejectionsLeaveNoTrace == Spec => RejectionLeavesNoTrace
<1>1. IInv /\ [Next]_vars => [NoTrace]_vars
  BY NoTraceStep
<1>2. [][NoTrace]_vars => RejectionLeavesNoTrace
  BY PTL DEF RejectionLeavesNoTrace, NoTrace
<1> QED
  BY <1>1, <1>2, Invariance, PTL DEF Spec

-----------------------------------------------------------------------------
(* The per-source states.  Match is inductive with their types: inserting,    *)
(* popping at the front and undoing an insertion each keep it, one attempt at *)
(* a time, so a call keeps it however many attempts expire.                   *)

SourcesTyped(ss) ==
  /\ ss = [s \in DOMAIN ss |-> ss[s]]
  /\ \A s \in DOMAIN ss : ss[s].attempts \in Seq(Event)
StatesInv(ss, q) == SourcesTyped(ss) /\ Match(ss, q)

LEMMA StateOfNothing == NoAttempts = StateOf(<<>>)
<1>1. ASSUME NEW f PROVE Tally(<<>>, f) = EmptyBag
  <2>1. Len(<<>>) = 0 /\ 1 .. 0 = {}
    BY EmptySeq
  <2> QED
    BY <2>1 DEF Tally, EmptyBag, SetToBag
<1> QED
  BY <1>1 DEF NoAttempts, StateOf

LEMMA FieldsOf ==
  ASSUME NEW a \in Event
  PROVE  DstField[a] = a.dst /\ PortField[a] = a.port /\ EndpointField[a] = EndpointOf(a)
BY DEF DstField, PortField, EndpointField

LEMMA StateOfAppend ==
  ASSUME NEW own \in Seq(Event), NEW a \in Event
  PROVE  StateOf(Append(own, a)) =
           [attempts  |-> Append(own, a),
            hosts     |-> Bag!BagAdd(StateOf(own).hosts, a.dst),
            ports     |-> Bag!BagAdd(StateOf(own).ports, a.port),
            endpoints |-> Bag!BagAdd(StateOf(own).endpoints, EndpointOf(a))]
BY FieldsOf, TallyOfAppend DEF StateOf

LEMMA StateOfTail ==
  ASSUME NEW own \in Seq(Event), own # <<>>
  PROVE  StateOf(Tail(own)) = Uncount(StateOf(own), own[1], Tail(own))
<1>1. own[1] \in Event
  BY EmptySeq, LenProperties, ElementOfSeq
<1>2. /\ Tally(Tail(own), DstField) = Bag!BagRemove(Tally(own, DstField), own[1].dst)
      /\ Tally(Tail(own), PortField) = Bag!BagRemove(Tally(own, PortField), own[1].port)
      /\ Tally(Tail(own), EndpointField)
           = Bag!BagRemove(Tally(own, EndpointField), EndpointOf(own[1]))
  <2>1. /\ Tally(Tail(own), DstField)
             = Bag!BagRemove(Tally(own, DstField), DstField[own[1]])
        /\ Tally(Tail(own), PortField)
             = Bag!BagRemove(Tally(own, PortField), PortField[own[1]])
        /\ Tally(Tail(own), EndpointField)
             = Bag!BagRemove(Tally(own, EndpointField), EndpointField[own[1]])
    BY TallyOfTail
  <2> QED
    BY <1>1, <2>1, FieldsOf
<1> QED
  BY <1>2 DEF StateOf, Uncount

\* Taking the newest attempt back restores the counters.
LEMMA StateUndone ==
  ASSUME NEW own \in Seq(Event), NEW a \in Event
  PROVE  Uncount(StateOf(Append(own, a)), a, own) = StateOf(own)
<1>1. /\ Bag!BagRemove(Bag!BagAdd(Tally(own, DstField), a.dst), a.dst)
           = Tally(own, DstField)
      /\ Bag!BagRemove(Bag!BagAdd(Tally(own, PortField), a.port), a.port)
           = Tally(own, PortField)
      /\ Bag!BagRemove(Bag!BagAdd(Tally(own, EndpointField), EndpointOf(a)), EndpointOf(a))
           = Tally(own, EndpointField)
  BY TallyUndo
<1>2. /\ StateOf(Append(own, a)).hosts = Bag!BagAdd(Tally(own, DstField), a.dst)
      /\ StateOf(Append(own, a)).ports = Bag!BagAdd(Tally(own, PortField), a.port)
      /\ StateOf(Append(own, a)).endpoints
           = Bag!BagAdd(Tally(own, EndpointField), EndpointOf(a))
  <2>1. /\ StateOf(own).hosts = Tally(own, DstField)
        /\ StateOf(own).ports = Tally(own, PortField)
        /\ StateOf(own).endpoints = Tally(own, EndpointField)
    BY DEF StateOf
  <2> QED
    BY <2>1, StateOfAppend
<1> QED
  BY <1>1, <1>2 DEF StateOf, Uncount

LEMMA OwnOfSource ==
  ASSUME NEW ss, NEW q \in Seq(Event), StatesInv(ss, q), NEW s
  PROVE  LET own == IF s \in DOMAIN ss THEN ss[s].attempts ELSE <<>>
         IN  /\ own \in Seq(Event)
             /\ Lists(own, q, {i \in 1 .. Len(q) : q[i].src = s})
             /\ (IF s \in DOMAIN ss THEN ss[s] ELSE NoAttempts) = StateOf(own)
<1>1. CASE s \in DOMAIN ss
  BY <1>1 DEF StatesInv, SourcesTyped, Match
<1>2. CASE s \notin DOMAIN ss
  <2>1. {i \in 1 .. Len(q) : q[i].src = s} = {}
    BY <1>2 DEF StatesInv, Match
  <2>2. <<>> \in Seq(Event) /\ Lists(<<>>, q, {})
    BY EmptySeq, ListsOfNone
  <2> QED
    BY <1>2, <2>1, <2>2, StateOfNothing
<1> QED
  BY <1>1, <1>2

\* The tail of observe.
LEMMA RecordMatches ==
  ASSUME NEW ss, NEW q \in Seq(Event), StatesInv(ss, q), NEW e \in Event
  PROVE  StatesInv(Record(ss, e), Append(q, e))
<1> DEFINE own == IF e.src \in DOMAIN ss THEN ss[e.src].attempts ELSE <<>>
           ss2 == Record(ss, e)
           q2  == Append(q, e)
           Mine(s)  == {i \in 1 .. Len(q) : q[i].src = s}
           Mine2(s) == {i \in 1 .. Len(q2) : q2[i].src = s}
<1>1. /\ own \in Seq(Event) /\ Lists(own, q, Mine(e.src))
      /\ (IF e.src \in DOMAIN ss THEN ss[e.src] ELSE NoAttempts) = StateOf(own)
  BY OwnOfSource
<1>2. /\ DOMAIN ss2 = DOMAIN ss \cup {e.src}
      /\ ss2 = [s \in DOMAIN ss2 |-> ss2[s]]
      /\ \A s \in DOMAIN ss : s # e.src => ss2[s] = ss[s]
  BY DEF Record
<1>3. ss2[e.src] = StateOf(Append(own, e))
  <2>1. StateOf(own).attempts = own
    BY DEF StateOf
  <2>2. ss2[e.src] = [attempts  |-> Append(StateOf(own).attempts, e),
                      hosts     |-> Bag!BagAdd(StateOf(own).hosts, e.dst),
                      ports     |-> Bag!BagAdd(StateOf(own).ports, e.port),
                      endpoints |-> Bag!BagAdd(StateOf(own).endpoints, EndpointOf(e))]
    BY <1>1 DEF Record
  <2> QED
    BY <1>1, <2>1, <2>2, StateOfAppend
<1>4. ss2[e.src].attempts = Append(own, e)
  BY <1>3 DEF StateOf
<1>5. /\ q2 \in Seq(Event) /\ Len(q) \in Nat /\ Len(q2) = Len(q) + 1 /\ q2[Len(q) + 1] = e
      /\ \A i \in 1 .. Len(q) : q2[i] = q[i]
  BY AppendProperties, LenProperties
<1>6. Append(own, e) \in Seq(Event)
  BY <1>1, AppendProperties
<1> HIDE DEF own, ss2, q2
<1>7. /\ \A i \in 1 .. Len(q2) : i \in 1 .. Len(q) \/ i = Len(q) + 1
      /\ \A i \in 1 .. Len(q) : i \in 1 .. Len(q2)
      /\ Len(q) + 1 \in 1 .. Len(q2)
  BY <1>5
<1>8. DOMAIN ss2 = {q2[i].src : i \in 1 .. Len(q2)}
  <2>1. DOMAIN ss = {q[i].src : i \in 1 .. Len(q)}
    BY DEF StatesInv, Match
  <2> QED
    BY <1>2, <1>5, <1>7, <2>1
<1>9. ASSUME NEW s \in DOMAIN ss2
      PROVE  /\ ss2[s].attempts \in Seq(Event)
             /\ Lists(ss2[s].attempts, q2, Mine2(s))
             /\ ss2[s] = StateOf(ss2[s].attempts)
  <2>1. CASE s = e.src
    <3>1. Mine2(s) = Mine(s) \cup {Len(q) + 1}
      BY <1>5, <1>7, <2>1
    <3>2. Lists(Append(own, e), q2, Mine(s) \cup {Len(q) + 1})
      BY <1>1, <2>1, ListsOfOwnAppend DEF q2
    <3> QED
      BY <1>3, <1>4, <1>6, <2>1, <3>1, <3>2
  <2>2. CASE s # e.src
    <3>1. s \in DOMAIN ss /\ ss2[s] = ss[s]
      BY <1>2, <2>2
    <3>2. Mine2(s) = Mine(s)
      BY <1>5, <1>7, <2>2
    <3>3. /\ ss[s].attempts \in Seq(Event) /\ Lists(ss[s].attempts, q, Mine(s))
          /\ ss[s] = StateOf(ss[s].attempts)
      BY <3>1 DEF StatesInv, SourcesTyped, Match
    <3>4. Lists(ss[s].attempts, q2, Mine(s))
      BY <3>3, ListsOfAppend DEF q2
    <3> QED
      BY <3>1, <3>2, <3>3, <3>4
  <2> QED
    BY <2>1, <2>2
<1>10. StatesInv(ss2, q2)
  BY <1>2, <1>8, <1>9 DEF StatesInv, SourcesTyped, Match
<1> QED
  BY <1>10 DEF ss2, q2

\* One turn of _expire_attempts.
LEMMA ForgetMatches ==
  ASSUME NEW ss, NEW q \in Seq(Event), q # <<>>, StatesInv(ss, q)
  PROVE  StatesInv(ForgetOldest(ss, q[1]), Tail(q))
<1> DEFINE s0  == q[1].src
           own == ss[s0].attempts
           q2  == Tail(q)
           ss2 == ForgetOldest(ss, q[1])
           Mine(s)  == {i \in 1 .. Len(q) : q[i].src = s}
           Mine2(s) == {i \in 1 .. Len(q2) : q2[i].src = s}
<1>1. /\ q2 \in Seq(Event) /\ Len(q) \in Nat \ {0} /\ Len(q2) = Len(q) - 1
      /\ \A i \in 1 .. Len(q2) : q2[i] = q[i + 1]
  BY HeadTailProperties, LenProperties, EmptySeq
<1>2. /\ ss = [s \in DOMAIN ss |-> ss[s]]
      /\ DOMAIN ss = {q[i].src : i \in 1 .. Len(q)}
      /\ \A s \in DOMAIN ss : /\ ss[s].attempts \in Seq(Event)
                            /\ Lists(ss[s].attempts, q, Mine(s))
                            /\ ss[s] = StateOf(ss[s].attempts)
  BY DEF StatesInv, SourcesTyped, Match
<1>3. 1 \in 1 .. Len(q) /\ s0 \in DOMAIN ss /\ 1 \in Mine(s0)
  BY <1>1, <1>2
<1>4. \A s \in DOMAIN ss : s # s0 => 1 \notin Mine(s)
  OBVIOUS
<1>5. \A i \in 1 .. Len(q2) : i + 1 \in 1 .. Len(q)
  BY <1>1
<1>6. \A s : Mine2(s) = {p \in 1 .. Len(q2) : p + 1 \in Mine(s)}
  BY <1>1, <1>5
<1>7. /\ own \in Seq(Event) /\ own # <<>> /\ own[1] = q[1]
      /\ Lists(Tail(own), q2, Mine2(s0))
  <2>1. own \in Seq(Event) /\ Lists(own, q, Mine(s0)) /\ Mine(s0) \in SUBSET (1 .. Len(q))
    BY <1>2, <1>3
  <2>2. /\ own # <<>> /\ own[1] = q[1]
        /\ Lists(Tail(own), Tail(q), {p \in 1 .. Len(Tail(q)) : p + 1 \in Mine(s0)})
    <3> HIDE DEF own, s0, Mine
    <3> QED
      BY <1>3, <2>1, ListsOfOwnTail
  <2> QED
    BY <1>6, <2>1, <2>2
<1>8. ASSUME NEW s \in DOMAIN ss, s # s0
      PROVE  Lists(ss[s].attempts, q2, Mine2(s)) /\ Mine2(s) # {}
  <2>1. Mine(s) \in SUBSET (1 .. Len(q)) /\ 1 \notin Mine(s)
    BY <1>4, <1>8
  <2>2. Lists(ss[s].attempts, Tail(q), {p \in 1 .. Len(Tail(q)) : p + 1 \in Mine(s)})
    <3>1. ss[s].attempts \in Seq(Event) /\ Lists(ss[s].attempts, q, Mine(s))
      BY <1>2
    <3> HIDE DEF Mine
    <3> QED
      BY <2>1, <3>1, ListsOfTail
  <2>3. PICK i \in 1 .. Len(q) : q[i].src = s
    BY <1>2
  <2>4. i # 1 /\ i - 1 \in 1 .. Len(q2) /\ (i - 1) + 1 = i
    BY <1>1, <1>8, <2>3
  <2>5. i - 1 \in Mine2(s)
    BY <1>1, <2>3, <2>4
  <2> QED
    BY <1>6, <2>2, <2>5
<1>9. /\ Tail(own) \in Seq(Event)
      /\ Tail(own) = <<>> <=> Mine2(s0) = {}
      /\ Uncount(ss[s0], q[1], Tail(own)) = StateOf(Tail(own))
      /\ StateOf(Tail(own)).attempts = Tail(own)
  <2>1. Tail(own) \in Seq(Event)
    BY <1>7, HeadTailProperties
  <2>2. Tail(own) = <<>> <=> Mine2(s0) = {}
    BY <1>7, <2>1, ListsEmpty
  <2>3. ss[s0] = StateOf(own)
    BY <1>2, <1>3
  <2> HIDE DEF own
  <2>4. Uncount(ss[s0], q[1], Tail(own)) = StateOf(Tail(own))
    BY <1>7, <2>3, StateOfTail
  <2> QED
    BY <2>1, <2>2, <2>4 DEF StateOf
<1>10. \A s : Mine2(s) # {} => s \in DOMAIN ss
  BY <1>1, <1>2, <1>5
<1>11. ss2 = IF Tail(own) = <<>> THEN [s \in DOMAIN ss \ {s0} |-> ss[s]]
             ELSE [ss EXCEPT ![s0] = StateOf(Tail(own))]
  BY <1>9 DEF ForgetOldest, Forget, Restrict
<1>12. /\ ss2 = [s \in DOMAIN ss2 |-> ss2[s]]
       /\ \A s : s \in DOMAIN ss2 <=> Mine2(s) # {}
       /\ \A s \in DOMAIN ss2 : ss2[s] = IF s = s0 THEN StateOf(Tail(own)) ELSE ss[s]
  <2>1. CASE Tail(own) = <<>>
    <3>1. ss2 = [s \in DOMAIN ss \ {s0} |-> ss[s]]
      BY <1>11, <2>1
    <3> HIDE DEF ss2, Mine2, own
    <3> QED
      BY <1>8, <1>9, <1>10, <2>1, <3>1
  <2>2. CASE Tail(own) # <<>>
    <3>1. ss2 = [ss EXCEPT ![s0] = StateOf(Tail(own))]
      BY <1>11, <2>2
    <3> HIDE DEF ss2, Mine2, own
    <3> QED
      BY <1>3, <1>8, <1>9, <1>10, <2>2, <3>1
  <2> QED
    BY <2>1, <2>2
<1>13. DOMAIN ss2 = {q2[i].src : i \in 1 .. Len(q2)}
  <2>1. \A s : Mine2(s) # {} <=> s \in {q2[i].src : i \in 1 .. Len(q2)}
    OBVIOUS
  <2> HIDE DEF ss2, Mine2, q2
  <2> QED
    BY <1>12, <2>1
<1>14. ASSUME NEW s \in DOMAIN ss2
       PROVE  /\ ss2[s].attempts \in Seq(Event)
              /\ Lists(ss2[s].attempts, q2, Mine2(s))
              /\ ss2[s] = StateOf(ss2[s].attempts)
  <2> HIDE DEF ss2, own, q2, Mine2
  <2>1. CASE s = s0
    BY <1>7, <1>9, <1>12, <2>1
  <2>2. CASE s # s0
    <3>1. ss2[s] = ss[s] /\ s \in DOMAIN ss
      BY <1>10, <1>12, <2>2
    <3> QED
      BY <1>2, <1>8, <2>2, <3>1
  <2> QED
    BY <2>1, <2>2
<1> HIDE DEF ss2, q2
<1> QED
  BY <1>12, <1>13, <1>14 DEF StatesInv, SourcesTyped, Match, ss2, q2

\* rollback_last_observation after the tail of observe.
LEMMA UndoRecord ==
  ASSUME NEW ss, NEW q \in Seq(Event), StatesInv(ss, q), NEW e \in Event
  PROVE  ForgetNewest(Record(ss, e), e) = ss
<1> DEFINE own == IF e.src \in DOMAIN ss THEN ss[e.src].attempts ELSE <<>>
           ss2 == Record(ss, e)
<1>1. /\ own \in Seq(Event)
      /\ (IF e.src \in DOMAIN ss THEN ss[e.src] ELSE NoAttempts) = StateOf(own)
  BY OwnOfSource
<1>2. /\ DOMAIN ss2 = DOMAIN ss \cup {e.src}
      /\ \A s \in DOMAIN ss : s # e.src => ss2[s] = ss[s]
      /\ ss = [s \in DOMAIN ss |-> ss[s]]
  BY DEF Record, StatesInv, SourcesTyped
<1>3. ss2[e.src] = StateOf(Append(own, e))
  <2>1. StateOf(own).attempts = own
    BY DEF StateOf
  <2>2. ss2[e.src] = [attempts  |-> Append(StateOf(own).attempts, e),
                      hosts     |-> Bag!BagAdd(StateOf(own).hosts, e.dst),
                      ports     |-> Bag!BagAdd(StateOf(own).ports, e.port),
                      endpoints |-> Bag!BagAdd(StateOf(own).endpoints, EndpointOf(e))]
    BY <1>1 DEF Record
  <2> QED
    BY <1>1, <2>1, <2>2, StateOfAppend
<1>4. Front(ss2[e.src].attempts) = own
  <2>1. ss2[e.src].attempts = Append(own, e)
    BY <1>3 DEF StateOf
  <2> HIDE DEF own, ss2
  <2> QED
    BY <1>1, <2>1, FrontOfAppend
<1>5. Uncount(ss2[e.src], e, own) = StateOf(own)
  BY <1>1, <1>3, StateUndone
<1>6. own = <<>> <=> e.src \notin DOMAIN ss
  <2>1. CASE e.src \in DOMAIN ss
    <3>1. Lists(own, q, {i \in 1 .. Len(q) : q[i].src = e.src})
      BY OwnOfSource
    <3>2. {i \in 1 .. Len(q) : q[i].src = e.src} # {}
      BY <2>1 DEF StatesInv, Match
    <3> QED
      BY <1>1, <2>1, <3>1, <3>2, ListsEmpty
  <2>2. CASE e.src \notin DOMAIN ss
    BY <2>2
  <2> QED
    BY <2>1, <2>2
<1>7. e.src \in DOMAIN ss => ss[e.src] = StateOf(own)
  BY <1>1
<1> HIDE DEF own, ss2
<1>8. CASE own = <<>>
  <2>1. ForgetNewest(ss2, e) = [s \in DOMAIN ss2 \ {e.src} |-> ss2[s]]
    BY <1>4, <1>8 DEF ForgetNewest, Forget, Restrict
  <2>2. DOMAIN ss2 \ {e.src} = DOMAIN ss
    BY <1>2, <1>6, <1>8
  <2> QED
    BY <1>2, <2>1, <2>2 DEF ss2
<1>9. CASE own # <<>>
  <2>1. ForgetNewest(ss2, e) = [ss2 EXCEPT ![e.src] = StateOf(own)]
    BY <1>4, <1>5, <1>9 DEF ForgetNewest, Forget
  <2>2. DOMAIN ss2 = DOMAIN ss
    BY <1>2, <1>6, <1>9
  <2>3. ForgetNewest(ss2, e) = [s \in DOMAIN ss |-> IF s = e.src THEN StateOf(own) ELSE ss2[s]]
    BY <2>1, <2>2
  <2> QED
    BY <1>2, <1>7, <2>3 DEF ss2
<1> QED
  BY <1>8, <1>9

\* The turns of _expire_attempts for p[1], ..., p[m], from ss on.
Turns(a, ss, p, m) ==
  /\ a = [k \in 0 .. m |-> a[k]]
  /\ a[0] = ss
  /\ \A k \in 1 .. m : a[k] = ForgetOldest(a[k - 1], p[k])

LEMMA TurnsExist ==
  ASSUME NEW ss, NEW p, NEW n \in Nat
  PROVE  \E a : Turns(a, ss, p, n)
<1> DEFINE T == {m \in 0 .. n : \E a : Turns(a, ss, p, m)}
<1>1. 0 \in T
  <2>1. Turns([k \in 0 .. 0 |-> ss], ss, p, 0)
    BY DEF Turns
  <2> QED
    BY <2>1
<1>2. ASSUME NEW m \in 0 .. n - 1, m \in T PROVE m + 1 \in T
  <2>1. PICK a : Turns(a, ss, p, m)
    BY <1>2
  <2> DEFINE b == [k \in 0 .. m + 1 |->
                     IF k = m + 1 THEN ForgetOldest(a[m], p[m + 1]) ELSE a[k]]
  <2>2. /\ \A k \in 0 .. m : b[k] = a[k]
        /\ b[m + 1] = ForgetOldest(a[m], p[m + 1])
        /\ b = [k \in 0 .. m + 1 |-> b[k]]
    OBVIOUS
  <2> HIDE DEF b
  <2>3. b[0] = ss
    BY <2>1, <2>2 DEF Turns
  <2>4. ASSUME NEW k \in 1 .. m + 1 PROVE b[k] = ForgetOldest(b[k - 1], p[k])
    <3>1. CASE k = m + 1
      <4>1. k - 1 = m /\ m \in 0 .. m
        BY <3>1
      <4> QED
        BY <2>2, <3>1, <4>1
    <3>2. CASE k # m + 1
      <4>1. k \in 1 .. m /\ k \in 0 .. m /\ k - 1 \in 0 .. m
        BY <3>2
      <4> QED
        BY <2>1, <2>2, <4>1 DEF Turns
    <3> QED
      BY <3>1, <3>2
  <2>5. Turns(b, ss, p, m + 1)
    BY <2>2, <2>3, <2>4 DEF Turns
  <2> QED
    BY <2>5
<1> HIDE DEF T
<1>3. n \in T
  <2>1. 0 .. n \subseteq T
    BY <1>1, <1>2, InductionUpTo
  <2> QED
    BY <2>1
<1> QED
  BY <1>3 DEF T

\* However many attempts expire, the states match what is left.
LEMMA TurnsMatch ==
  ASSUME NEW ss, NEW q \in Seq(Event), StatesInv(ss, q), NEW n \in 0 .. Len(q),
         NEW a, Turns(a, ss, SubSeq(q, 1, n), n)
  PROVE  StatesInv(a[n], SubSeq(q, n + 1, Len(q)))
<1> DEFINE T == {m \in 0 .. n : StatesInv(a[m], SubSeq(q, m + 1, Len(q)))}
<1>1. Len(q) \in Nat /\ n \in Nat
  BY LenProperties
<1>2. 0 \in T
  <2>1. SubSeq(q, 0 + 1, Len(q)) = q /\ a[0] = ss
    BY SubSeqFull DEF Turns
  <2>2. StatesInv(a[0], SubSeq(q, 0 + 1, Len(q)))
    BY <2>1
  <2> QED
    BY <1>1, <2>2
<1>3. ASSUME NEW m \in 0 .. n - 1, m \in T PROVE m + 1 \in T
  <2> DEFINE r == SubSeq(q, m + 1, Len(q))
  <2>1. /\ m + 1 \in 1 .. Len(q) /\ m + 1 \in 1 .. n /\ m + 1 \in Int
        /\ Len(q) \in m + 1 .. Len(q) /\ m + 1 - 1 = m
    BY <1>1
  <2>2. /\ r \in Seq(Event) /\ r # <<>> /\ r[1] = q[m + 1]
        /\ Tail(r) = SubSeq(q, m + 1 + 1, Len(q))
    <3>1. /\ r \in Seq(Event)
          /\ Len(r) = IF m + 1 <= Len(q) THEN Len(q) - (m + 1) + 1 ELSE 0
          /\ \A i \in 1 .. Len(q) - (m + 1) + 1 : r[i] = q[m + 1 + i - 1]
      BY <1>1, <2>1, SubSeqProperties
    <3>2. Len(r) = Len(q) - m /\ Len(r) \in Nat \ {0} /\ 1 \in 1 .. Len(q) - (m + 1) + 1
      BY <1>1, <2>1, <3>1
    <3>3. r # <<>> /\ r[1] = q[m + 1]
      BY <3>1, <3>2, EmptySeq
    <3>4. Tail(r) = SubSeq(q, m + 1 + 1, Len(q))
      BY <1>1, <2>1, HeadTailOfSubSeq
    <3> QED
      BY <3>1, <3>3, <3>4
  <2>3. a[m + 1] = ForgetOldest(a[m], q[m + 1])
    <3>1. a[m + 1] = ForgetOldest(a[m], SubSeq(q, 1, n)[m + 1])
      <4>1. \A k \in 1 .. n : a[k] = ForgetOldest(a[k - 1], SubSeq(q, 1, n)[k])
        BY DEF Turns
      <4> QED
        BY <2>1, <4>1
    <3>2. SubSeq(q, 1, n)[m + 1] = q[m + 1]
      <4>1. \A i \in 1 .. n - 1 + 1 : SubSeq(q, 1, n)[i] = q[1 + i - 1]
        BY <1>1, SubSeqProperties
      <4> QED
        BY <1>1, <2>1, <4>1
    <3> QED
      BY <3>1, <3>2
  <2>4. StatesInv(a[m], r)
    BY <1>3
  <2> HIDE DEF r
  <2>5. StatesInv(ForgetOldest(a[m], r[1]), Tail(r))
    BY <2>2, <2>4, ForgetMatches
  <2>6. StatesInv(a[m + 1], SubSeq(q, m + 1 + 1, Len(q)))
    BY <2>2, <2>3, <2>5
  <2> QED
    BY <2>1, <2>6
<1> HIDE DEF T
<1>4. n \in T
  <2>1. 0 .. n \subseteq T
    BY <1>1, <1>2, <1>3, InductionUpTo
  <2> QED
    BY <1>1, <2>1
<1> QED
  BY <1>4 DEF T

LEMMA ExpiryMatches ==
  ASSUME attempts \in Seq(Event), StatesInv(sources, attempts), NEW t \in Int
  PROVE  StatesInv(LiveSources(t), LiveAttempts(t)) /\ LiveAttempts(t) \in Seq(Event)
<1> DEFINE n == ExpiredCount(attempts, t - Window)
           p == SubSeq(attempts, 1, n)
<1>1. /\ n \in 0 .. Len(attempts) /\ Len(attempts) \in Nat /\ n \in Nat
      /\ t - Window \in Int
  <2>1. Len(attempts) \in Nat /\ t - Window \in Int
    BY ConstantTypes, LenProperties
  <2>2. n \in 0 .. Len(attempts)
    BY <2>1, EventTimes, ExpiredCountProperties
  <2> QED
    BY <2>1, <2>2
<1>2. Len(p) = n
  <2>1. Len(p) = IF 1 <= n THEN n - 1 + 1 ELSE 0
    BY <1>1, SubSeqProperties
  <2> QED
    BY <1>1, <2>1
<1>3. LiveAttempts(t) = SubSeq(attempts, n + 1, Len(attempts))
  BY DEF LiveAttempts, Unexpired
<1>4. PICK a : Turns(a, sources, p, n)
  BY <1>1, TurnsExist
<1> DEFINE Fun(f) == [k \in 0 .. Len(p) |->
                       IF k = 0 THEN sources ELSE ForgetOldest(f[k - 1], p[k])]
           after  == CHOOSE f : f = Fun(f)
<1>5. LiveSources(t) = after[Len(p)]
  BY DEF LiveSources, Expired
<1> HIDE DEF n, p
<1>6. a = Fun(a)
  BY <1>1, <1>2, <1>4 DEF Turns
<1>7. after = Fun(after)
  <2>1. \E f : f = Fun(f)
    BY <1>6
  <2> HIDE DEF Fun
  <2> QED
    BY <2>1
<1> HIDE DEF after
<1>8. Turns(after, sources, p, n)
  <2>1. /\ \A k \in 0 .. n : after[k] = IF k = 0 THEN sources
                                        ELSE ForgetOldest(after[k - 1], p[k])
        /\ after = [k \in 0 .. n |-> after[k]]
    BY <1>2, <1>7
  <2>2. 0 \in 0 .. n /\ \A k \in 1 .. n : k \in 0 .. n /\ k # 0
    BY <1>1
  <2> QED
    BY <2>1, <2>2 DEF Turns
<1>9. StatesInv(after[n], SubSeq(attempts, n + 1, Len(attempts)))
  BY <1>1, <1>8, TurnsMatch DEF p
<1>10. LiveAttempts(t) \in Seq(Event)
  BY <1>1, EventTimes, UnexpiredIsSuffix DEF LiveAttempts
<1> QED
  BY <1>2, <1>3, <1>5, <1>9, <1>10

StatesMatch == StatesInv(sources, attempts)

LEMMA StatesStep ==
  ASSUME IInv, StatesMatch, [Next]_vars
  PROVE  StatesMatch'
<1>1. \A e \in Event : /\ StatesInv(LiveSources(e.ts), LiveAttempts(e.ts))
                       /\ LiveAttempts(e.ts) \in Seq(Event)
  BY IInvFacts, EventTimes, ExpiryMatches DEF StatesMatch
<1>2. \A e \in Event :
        StatesInv(Record(LiveSources(e.ts), e), Append(LiveAttempts(e.ts), e))
  BY <1>1, RecordMatches
<1>3. ASSUME NEW e \in Event, RejectRegression(e) PROVE StatesMatch'
  BY <1>3 DEF RejectRegression, window, StatesMatch
<1>4. ASSUME NEW e \in Event, IgnoreDuplicate(e) \/ RejectAtLimit(e)
      PROVE  StatesMatch'
  <2>1. sources' = LiveSources(e.ts) /\ attempts' = LiveAttempts(e.ts)
    BY <1>4 DEF IgnoreDuplicate, RejectAtLimit, ExpireWindow
  <2> QED
    BY <1>1, <2>1 DEF StatesMatch
<1>5. ASSUME NEW e \in Event, RecordQuietly(e) \/ RaiseAlert(e) PROVE StatesMatch'
  <2>1. /\ sources' = Record(LiveSources(e.ts), e)
        /\ attempts' = Append(LiveAttempts(e.ts), e)
    BY <1>5 DEF RecordQuietly, RaiseAlert, Insert
  <2> QED
    BY <1>2, <2>1 DEF StatesMatch
<1>6. ASSUME NEW e \in Event, RollBack(e) PROVE StatesMatch'
  <2>1. sources' = ForgetNewest(Record(LiveSources(e.ts), e), e)
    BY <1>6 DEF RollBack
  <2>2. sources' = LiveSources(e.ts)
    BY <1>1, <2>1, UndoRecord
  <2>3. attempts' = LiveAttempts(e.ts)
    BY <1>6, RollBackRestores
  <2> QED
    BY <1>1, <2>2, <2>3 DEF StatesMatch
<1>7. CASE UNCHANGED vars
  BY <1>7 DEF vars, window, StatesMatch
<1> QED
  BY <1>3, <1>4, <1>5, <1>6, <1>7 DEF Next, Process

LEMMA InitStates == Init => StatesMatch
<1> SUFFICES ASSUME Init PROVE StatesMatch
  OBVIOUS
<1>1. sources = << >> /\ attempts = <<>> /\ Len(<<>>) = 0 /\ 1 .. 0 = {}
  BY EmptySeq DEF Init
<1>2. DOMAIN sources = {} /\ sources = [s \in {} |-> sources[s]]
  BY <1>1
<1> QED
  BY <1>1, <1>2 DEF StatesMatch, StatesInv, SourcesTyped, Match

LEMMA StatesInvariance == Spec => []StatesMatch
<1>1. IInv /\ StatesMatch /\ [Next]_vars => StatesMatch'
  BY StatesStep
<1> QED
  BY <1>1, InitStates, Invariance, PTL DEF Spec

\* PortScanWindow's two views of the window never drift apart, however calls
\* expire, insert and take back: neither of the RuntimeErrors of scan_window.py
\* is ever raised, and no counter keeps or loses a flow.
THEOREM StatesMatchWindow == Spec => []SourcesMatchWindow
<1>1. StatesMatch => SourcesMatchWindow
  BY DEF StatesMatch, StatesInv, SourcesMatchWindow
<1> QED
  BY <1>1, StatesInvariance, PTL

-----------------------------------------------------------------------------
(* The evidence of an alert, from the states that match the window.           *)

LEMMA SnapshotIsSound ==
  ASSUME IInv, StatesMatch, NEW e \in Event, Admitted(e)
  PROVE  LET st == Snapshot(e)
         IN  /\ st.attempts \in Seq(Event) /\ st = StateOf(st.attempts)
             /\ \A i \in 1 .. Len(st.attempts) :
                  /\ st.attempts[i].ts <= e.ts
                  /\ e.ts - st.attempts[i].ts <= Window
<1> DEFINE q   == LiveAttempts(e.ts)
           q2  == Append(q, e)
           ss2 == Record(LiveSources(e.ts), e)
           own == ss2[e.src].attempts
<1>1. StatesInv(ss2, q2)
  BY IInvFacts, EventTimes, ExpiryMatches, RecordMatches DEF StatesMatch
<1>2. e.src \in DOMAIN ss2
  BY DEF Record
<1>3. /\ own \in Seq(Event) /\ ss2[e.src] = StateOf(own)
      /\ Lists(own, q2, {i \in 1 .. Len(q2) : q2[i].src = e.src})
  BY <1>1, <1>2 DEF StatesInv, SourcesTyped, Match
<1>4. \A i \in 1 .. Len(q2) : q2[i].ts <= e.ts /\ e.ts - q2[i].ts <= Window
  <2>1. /\ q \in Seq(Event)
        /\ \A i \in 1 .. Len(q) : q[i].ts <= e.ts /\ e.ts - q[i].ts <= Window
    BY ExpiryKeepsWindow DEF Admitted, WindowConsistent, UidWindow
  <2> HIDE DEF q
  <2>2. /\ Len(q2) = Len(q) + 1 /\ Len(q) \in Nat /\ q2[Len(q) + 1] = e
        /\ \A i \in 1 .. Len(q) : q2[i] = q[i]
    BY <2>1, AppendProperties, LenProperties
  <2> HIDE DEF q2
  <2>3. e.ts <= e.ts /\ e.ts - e.ts <= Window
    BY EventTimes, ConstantTypes
  <2>4. \A i \in 1 .. Len(q2) : i \in 1 .. Len(q) \/ i = Len(q) + 1
    BY <2>2
  <2> QED
    BY <2>1, <2>2, <2>3, <2>4
<1> HIDE DEF own, q2, q
<1>5. ASSUME NEW i \in 1 .. Len(own)
      PROVE  own[i].ts <= e.ts /\ e.ts - own[i].ts <= Window
  <2>1. \E k \in 1 .. Len(q2) : own[i] = q2[k]
    BY <1>3 DEF Lists
  <2> QED
    BY <1>4, <2>1
<1> QED
  BY <1>3, <1>5 DEF Snapshot, own

LEMMA CountersAgree ==
  ASSUME NEW own \in Seq(Event)
  PROVE  LET st == StateOf(own)
         IN  /\ Cardinality(DOMAIN st.endpoints) <= Len(own)
             /\ Cardinality(DOMAIN st.hosts) <= Cardinality(DOMAIN st.endpoints)
             /\ Cardinality(DOMAIN st.ports) <= Cardinality(DOMAIN st.endpoints)
<1>1. \A a, b \in Event : EndpointField[a] = EndpointField[b] =>
        DstField[a] = DstField[b] /\ PortField[a] = PortField[b]
  BY FieldsOf DEF EndpointOf
<1>2. /\ Cardinality(DOMAIN Tally(own, EndpointField)) <= Len(own)
      /\ Cardinality(DOMAIN Tally(own, DstField))
           <= Cardinality(DOMAIN Tally(own, EndpointField))
      /\ Cardinality(DOMAIN Tally(own, PortField))
           <= Cardinality(DOMAIN Tally(own, EndpointField))
  BY <1>1, TallySize, TallyCoarser
<1> QED
  BY <1>2 DEF StateOf

LEMMA EvidenceStep ==
  ASSUME IInv, StatesMatch, EvidenceIsValid, [Next]_vars
  PROVE  EvidenceIsValid'
<1>1. ASSUME NEW e \in Event, RaiseAlert(e) PROVE EvidenceIsValid'
  <2> DEFINE st  == Snapshot(e)
             own == st.attempts
  <2>1. Admitted(e) /\ CrossesThreshold(st) /\ result' = AlertOf(e, st)
    BY <1>1 DEF RaiseAlert
  <2>2. /\ own \in Seq(Event) /\ st = StateOf(own)
        /\ \A i \in 1 .. Len(own) : own[i].ts <= e.ts /\ e.ts - own[i].ts <= Window
    BY <2>1, SnapshotIsSound
  <2>3. /\ Cardinality(DOMAIN st.endpoints) <= Len(own)
        /\ Cardinality(DOMAIN st.hosts) <= Cardinality(DOMAIN st.endpoints)
        /\ Cardinality(DOMAIN st.ports) <= Cardinality(DOMAIN st.endpoints)
    BY <2>2, CountersAgree
  <2>4. /\ Len(own) >= MinAttempts
        /\ \/ Cardinality(DOMAIN st.ports) >= MinPorts
           \/ Cardinality(DOMAIN st.hosts) >= MinHosts
    BY <2>1 DEF CrossesThreshold
  <2>5. own # <<>> /\ Head(own) = own[1] /\ 1 \in 1 .. Len(own)
    <3>1. Len(own) \in Nat /\ MinAttempts \in Nat \ {0}
      BY <2>2, LenProperties, LimitAssumption
    <3>2. 1 \in 1 .. Len(own)
      BY <2>4, <3>1
    <3>3. own # <<>>
      BY <2>4, <3>1, EmptySeq
    <3> QED
      BY <3>2, <3>3, <2>2, HeadTailProperties
  <2>6. /\ result'.start = own[1].ts /\ result'.end = e.ts
        /\ result'.attempts = Len(own)
        /\ result'.hosts = Cardinality(DOMAIN st.hosts)
        /\ result'.ports = Cardinality(DOMAIN st.ports)
        /\ result'.endpoints = Cardinality(DOMAIN st.endpoints)
    BY <2>1, <2>5 DEF AlertOf
  <2> HIDE DEF st, own
  <2> QED
    BY <2>2, <2>3, <2>4, <2>5, <2>6 DEF EvidenceIsValid
<1>2. ASSUME NEW e \in Event,
             \/ RejectRegression(e) \/ IgnoreDuplicate(e) \/ RejectAtLimit(e)
             \/ RecordQuietly(e) \/ RollBack(e)
      PROVE  EvidenceIsValid'
  <2>1. result'.kind # "alert"
    BY <1>2 DEF RejectRegression, IgnoreDuplicate, RejectAtLimit, RecordQuietly,
                RollBack, Regressed, Nothing, Exceeded
  <2> QED
    BY <2>1 DEF EvidenceIsValid
<1>3. CASE UNCHANGED vars
  BY <1>3 DEF vars, EvidenceIsValid
<1> QED
  BY <1>1, <1>2, <1>3 DEF Next, Process

\* Every alert of PortScanDetector passes the validators of AlertWindow and
\* PortScanEvidence, for every configuration that ScanConfig accepts.
THEOREM EvidenceAlwaysValid == Spec => []EvidenceIsValid
<1>1. Init => EvidenceIsValid
  BY DEF Init, Nothing, EvidenceIsValid
<1>2. IInv /\ StatesMatch /\ EvidenceIsValid /\ [Next]_vars => EvidenceIsValid'
  BY EvidenceStep
<1> QED
  BY <1>1, <1>2, Invariance, StatesInvariance, PTL DEF Spec

-----------------------------------------------------------------------------
(* The refinement: what the deques, dictionaries and counters of the code hold *)
(* is what the sets of DetectorAbs hold, and a call is the step on the sets    *)
(* that counting from scratch would take.                                     *)

\* An instance has operators of the library of its own: they are the same.
LEMMA SameOperators ==
  /\ \A X : Abs!Cardinality(X) = Cardinality(X)
  /\ \A f, S : Abs!Restrict(f, S) = Restrict(f, S)
BY DEF Abs!Cardinality, Cardinality, Abs!Restrict, Restrict

\* The keys of the states are the sources of the set of the attempts.
LEMMA SourcesAsSet ==
  ASSUME NEW q \in Seq(Event), DistinctUids(q), NEW ss, StatesInv(ss, q)
  PROVE  DOMAIN ss = {a.src : a \in ToSet(q)} /\ IsFiniteSet(DOMAIN ss)
<1>1. \A x : x \in ToSet(q) <=> \E i \in 1 .. Len(q) : x = q[i]
  BY SetOf
<1>2. DOMAIN ss = {q[i].src : i \in 1 .. Len(q)}
  BY DEF StatesInv, Match
<1>3. ASSUME NEW s PROVE s \in DOMAIN ss <=> s \in {a.src : a \in ToSet(q)}
  BY <1>1, <1>2
<1>4. DOMAIN ss = {a.src : a \in ToSet(q)}
  BY <1>3
<1>5. IsFiniteSet(DOMAIN ss)
  <2>1. IsFiniteSet(ToSet(q))
    BY SizeOfSet
  <2>2. [a \in ToSet(q) |-> a.src] \in Surjection(ToSet(q), DOMAIN ss)
    BY <1>4 DEF Surjection
  <2> QED
    BY <2>1, <2>2, FS_Surjection
<1> QED
  BY <1>4, <1>5

\* The deque of a source lists the attempts of that source in the set, each once.
OfSource(S, s) == {a \in S : a.src = s}

LEMMA StateAsSet ==
  ASSUME NEW q \in Seq(Event), TimeSorted(q), DistinctUids(q), NEW ss, StatesInv(ss, q),
         NEW s \in DOMAIN ss
  PROVE  /\ ss[s].attempts \in Seq(Event) /\ ss[s] = StateOf(ss[s].attempts)
         /\ TimeSorted(ss[s].attempts) /\ DistinctUids(ss[s].attempts)
         /\ ToSet(ss[s].attempts) = OfSource(ToSet(q), s)
         /\ Len(ss[s].attempts) = Cardinality(OfSource(ToSet(q), s))
<1> DEFINE own  == ss[s].attempts
           mine == {i \in 1 .. Len(q) : q[i].src = s}
<1>1. own \in Seq(Event) /\ ss[s] = StateOf(own) /\ Lists(own, q, mine)
  BY DEF StatesInv, SourcesTyped, Match
<1> HIDE DEF own
<1>2. /\ \A x : x \in ToSet(own) <=> \E p \in mine : x = q[p]
      /\ TimeSorted(own) /\ DistinctUids(own)
  <2>1. mine \in SUBSET (1 .. Len(q)) /\ \A x \in Event : x.ts \in Int
    BY EventTimes
  <2> HIDE DEF mine
  <2> QED
    BY <1>1, <2>1, ListedSet
<1>3. \A x : x \in ToSet(q) <=> \E i \in 1 .. Len(q) : x = q[i]
  BY SetOf
<1>4. ASSUME NEW x PROVE x \in ToSet(own) <=> x \in ToSet(q) /\ x.src = s
  BY <1>2, <1>3
<1>5. ToSet(own) = OfSource(ToSet(q), s)
  BY <1>4 DEF OfSource
<1>6. Cardinality(ToSet(own)) = Len(own)
  BY <1>1, <1>2, SizeOfSet
<1> QED
  BY <1>1, <1>2, <1>5, <1>6 DEF own

\* The expiry loops of an event in time order are the filters by age of the sets.
LEMMA AgedWindow ==
  ASSUME IInv, StatesMatch, NEW e \in Event, ~Regresses(e)
  PROVE  /\ LiveAttempts(e.ts) \in Seq(Event)
         /\ TimeSorted(LiveAttempts(e.ts)) /\ DistinctUids(LiveAttempts(e.ts))
         /\ StatesInv(LiveSources(e.ts), LiveAttempts(e.ts))
         /\ ToSet(LiveAttempts(e.ts)) = Abs!Young(e.ts)
         /\ KeysOf(LiveUids(e.ts)) = Abs!Known(e.ts)
         /\ AsFunction(LiveUids(e.ts)) = Restrict(AsFunction(seen), Abs!Known(e.ts))
         /\ LiveUids(e.ts) \in Seq(SeenUid) /\ DistinctKeys(LiveUids(e.ts))
<1>1. /\ e.ts \in Int /\ e.ts - Window \in Int /\ e.ts - DedupTtl \in Int
      /\ Window \in Nat /\ DedupTtl \in Nat
  BY EventTimes, ConstantTypes
<1>2. WindowConsistent(e.ts, LiveAttempts(e.ts), LiveUids(e.ts))
  BY ExpiryKeepsWindow
<1>3. /\ attempts \in Seq(Event) /\ TimeSorted(attempts)
      /\ seen \in Seq(SeenUid) /\ DistinctKeys(seen)
  BY IInvFacts
<1>4. TimeSorted(seen)
  <2>1. CASE watermark = None
    BY <2>1, EmptySeq DEF IInv, TimeSorted
  <2>2. CASE watermark # None
    BY <2>2 DEF IInv, WindowConsistent, UidWindow
  <2> QED
    BY <2>1, <2>2
<1>5. ToSet(LiveAttempts(e.ts)) = Abs!Young(e.ts)
  <2>1. ToSet(LiveAttempts(e.ts)) = {x \in ToSet(attempts) : x.ts >= e.ts - Window}
    BY <1>1, <1>3, EventTimes, SetOfUnexpired DEF LiveAttempts
  <2>2. \A x \in ToSet(attempts) : x.ts \in Int
    BY <1>3, EventTimes, SetOf
  <2>3. \A x \in ToSet(attempts) : x.ts >= e.ts - Window <=> e.ts - x.ts <= Window
    BY <1>1, <2>2
  <2> QED
    BY <2>1, <2>3 DEF Abs!Young
<1>6. /\ KeysOf(LiveUids(e.ts)) = Abs!Known(e.ts)
      /\ AsFunction(LiveUids(e.ts)) = Restrict(AsFunction(seen), Abs!Known(e.ts))
  <2>1. /\ KeysOf(LiveUids(e.ts)) =
             {k \in KeysOf(seen) : AsFunction(seen)[k] >= e.ts - DedupTtl}
        /\ AsFunction(LiveUids(e.ts)) = Restrict(AsFunction(seen), KeysOf(LiveUids(e.ts)))
    BY <1>1, <1>3, <1>4, EventTimes, FunctionOfUnexpired DEF LiveUids
  <2>2. \A k \in KeysOf(seen) : AsFunction(seen)[k] \in Int
    BY <1>3, EventTimes, FunctionOf, ElementOfSeq
  <2>3. \A k \in KeysOf(seen) :
          AsFunction(seen)[k] >= e.ts - DedupTtl <=> e.ts - AsFunction(seen)[k] <= DedupTtl
    BY <1>1, <2>2
  <2>4. DOMAIN AsFunction(seen) = KeysOf(seen)
    BY <1>3, FunctionOf
  <2>5. KeysOf(LiveUids(e.ts)) = Abs!Known(e.ts)
    BY <2>1, <2>3, <2>4 DEF Abs!Known
  <2> QED
    BY <2>1, <2>5
<1>7. StatesInv(LiveSources(e.ts), LiveAttempts(e.ts))
  BY <1>1, <1>3, ExpiryMatches DEF StatesMatch
<1> QED
  BY <1>2, <1>5, <1>6, <1>7 DEF WindowConsistent, UidWindow

\* The mapped lastAlert, before and after a step.
LEMMA CoolingIs ==
  /\ Cooling = Suppressing(Cooldown, watermark, cooldown)
  /\ Cooling' = Suppressing(Cooldown, watermark', cooldown')
BY DEF Cooling, Suppressing, StillCool

\* Whether or not the call expires the table, it has the same entries that suppress.
LEMMA AgedCooling ==
  ASSUME IInv, NEW e \in Event, ~Regresses(e)
  PROVE  /\ Abs!Cooling(e.ts) = KeysOf(LiveCooldowns(e.ts))
         /\ Suppressing(Cooldown, e.ts, cooldown) = Restrict(Cooling, Abs!Cooling(e.ts))
         /\ Suppressing(Cooldown, e.ts, LiveCooldowns(e.ts))
              = Restrict(Cooling, Abs!Cooling(e.ts))
         /\ AsFunction(LiveCooldowns(e.ts)) = Restrict(Cooling, Abs!Cooling(e.ts))
<1>1. e.ts \in Int /\ Cooldown \in Nat
  BY EventTimes, ConstantTypes
<1>2. CooldownTable(LastAlert, e.ts, cooldown)
  BY TimeKeepsCooldown DEF CooldownConsistent, CooldownTable
<1>3. cooldown = <<>> \/ (watermark \in Int /\ watermark <= e.ts)
  BY <1>1, TimeAssumption DEF IInv, Regresses
<1>4. Abs!Cooling(e.ts) = StillCool(Cooldown, e.ts, Cooling)
  BY DEF Abs!Cooling, StillCool
<1>5. Cooling = Suppressing(Cooldown, watermark, cooldown)
  BY CoolingIs
<1>6. LiveCooldowns(e.ts) = Unexpired(cooldown, e.ts - Cooldown + 1)
  BY DEF LiveCooldowns
<1> QED
  BY <1>1, <1>2, <1>3, <1>4, <1>5, <1>6, EventTimes, SuppressingAges

-----------------------------------------------------------------------------
\* Time passing empties states and drops sources, so it keeps their bounds.
LEMMA ExpiryKeepsBounds ==
  ASSUME IInv, StatesMatch, SourcesWithinLimits(sources), NEW e \in Event, ~Regresses(e)
  PROVE  SourcesWithinLimits(LiveSources(e.ts))
<1> DEFINE q  == LiveAttempts(e.ts)
           ss == LiveSources(e.ts)
<1>1. /\ q \in Seq(Event) /\ TimeSorted(q) /\ DistinctUids(q) /\ StatesInv(ss, q)
      /\ ToSet(q) = Abs!Young(e.ts)
  BY AgedWindow
<1>2. /\ attempts \in Seq(Event) /\ TimeSorted(attempts) /\ DistinctUids(attempts)
      /\ StatesInv(sources, attempts)
  BY IInvFacts DEF StatesMatch
<1>3. ToSet(q) \subseteq ToSet(attempts) /\ IsFiniteSet(ToSet(attempts))
  BY <1>1, <1>2, SizeOfSet DEF Abs!Young
<1> HIDE DEF q, ss
<1>4. DOMAIN ss = {a.src : a \in ToSet(q)}
  BY <1>1, SourcesAsSet
<1>5. DOMAIN sources = {a.src : a \in ToSet(attempts)} /\ IsFiniteSet(DOMAIN sources)
  BY <1>2, SourcesAsSet
<1>6. DOMAIN ss \in SUBSET DOMAIN sources
  BY <1>3, <1>4, <1>5
<1>7. Cardinality(DOMAIN ss) <= MaxActiveSources
  <2>1. /\ Cardinality(DOMAIN ss) <= Cardinality(DOMAIN sources)
        /\ Cardinality(DOMAIN sources) \in Nat /\ IsFiniteSet(DOMAIN ss)
    BY <1>5, <1>6, FS_Subset, FS_CardinalityType
  <2>2. Cardinality(DOMAIN ss) \in Nat
    BY <2>1, FS_CardinalityType
  <2> QED
    BY <2>1, <2>2, LimitAssumption DEF SourcesWithinLimits
<1>8. ASSUME NEW s \in DOMAIN ss PROVE Len(ss[s].attempts) <= MaxAttemptsPerSource
  <2> DEFINE A == OfSource(ToSet(q), s)
             B == OfSource(ToSet(attempts), s)
  <2>1. A \in SUBSET B /\ B \in SUBSET ToSet(attempts)
    BY <1>3 DEF OfSource
  <2>2. Cardinality(A) = Len(ss[s].attempts)
    BY <1>1, StateAsSet
  <2>6. Cardinality(B) = Len(sources[s].attempts)
    BY <1>2, <1>6, StateAsSet
  <2> HIDE DEF A, B
  <2>3. IsFiniteSet(B) /\ IsFiniteSet(A) /\ Cardinality(A) <= Cardinality(B)
    BY <1>3, <2>1, FS_Subset
  <2>4. Cardinality(A) \in Nat /\ Cardinality(B) \in Nat
    BY <2>3, FS_CardinalityType
  <2>5. Cardinality(B) <= MaxAttemptsPerSource
    BY <1>6, <2>6 DEF SourcesWithinLimits
  <2> QED
    BY <2>2, <2>3, <2>4, <2>5, LimitAssumption
<1> QED
  BY <1>7, <1>8 DEF SourcesWithinLimits, ss

\* The bounds of the sources at the state.
Bounded == SourcesWithinLimits(sources)

\* Inserting can only add the one source, or the one attempt, that the check saw.
LEMMA BoundsStep ==
  ASSUME IInv, StatesMatch, Bounded, [Next]_vars
  PROVE  Bounded'
<1>1. ASSUME NEW e \in Event, RejectRegression(e) PROVE Bounded'
  BY <1>1 DEF RejectRegression, window, Bounded
<1>2. ASSUME NEW e \in Event, IgnoreDuplicate(e) \/ RejectAtLimit(e) PROVE Bounded'
  <2>1. sources' = LiveSources(e.ts) /\ ~Regresses(e)
    BY <1>2 DEF IgnoreDuplicate, RejectAtLimit, ExpireWindow
  <2> QED
    BY <2>1, ExpiryKeepsBounds DEF Bounded
<1>3. ASSUME NEW e \in Event, RecordQuietly(e) \/ RaiseAlert(e) PROVE Bounded'
  <2> DEFINE ss == LiveSources(e.ts)
  <2>1. sources' = Record(ss, e) /\ ~Regresses(e) /\ Admitted(e)
    BY <1>3 DEF RecordQuietly, RaiseAlert, Insert, Admitted
  <2>2. SourcesWithinLimits(ss)
    BY <2>1, ExpiryKeepsBounds DEF Bounded
  <2>3. StatesInv(ss, LiveAttempts(e.ts)) /\ IsFiniteSet(DOMAIN ss)
    BY <2>1, AgedWindow, SourcesAsSet
  <2>4. /\ ~(e.src \notin DOMAIN ss /\ Cardinality(DOMAIN ss) >= MaxActiveSources)
        /\ ~(e.src \in DOMAIN ss /\ Len(ss[e.src].attempts) >= MaxAttemptsPerSource)
    BY <2>1 DEF Admitted, ExceededLimits, AtLimit
  <2>5. MaxActiveSources \in Nat \ {0} /\ MaxAttemptsPerSource \in Nat \ {0}
    BY LimitAssumption
  <2>6. \A s \in DOMAIN ss : ss[s].attempts \in Seq(Event)
    BY <2>3 DEF StatesInv, SourcesTyped
  <2> HIDE DEF ss
  <2>7. DOMAIN sources' = DOMAIN ss \cup {e.src}
    BY <2>1 DEF Record
  <2>8. Cardinality(DOMAIN sources') <= MaxActiveSources
    <3>1. Cardinality(DOMAIN ss) \in Nat
      BY <2>3, FS_CardinalityType
    <3>2. Cardinality(DOMAIN ss \cup {e.src}) =
            IF e.src \in DOMAIN ss THEN Cardinality(DOMAIN ss) ELSE Cardinality(DOMAIN ss) + 1
      BY <2>3, FS_AddElement
    <3> QED
      BY <2>2, <2>4, <2>5, <2>7, <3>1, <3>2 DEF SourcesWithinLimits
  <2>9. ASSUME NEW s \in DOMAIN sources' PROVE Len(sources'[s].attempts) <= MaxAttemptsPerSource
    <3>1. CASE s # e.src
      <4>1. s \in DOMAIN ss /\ sources'[s] = ss[s]
        BY <2>1, <2>7, <3>1 DEF Record
      <4> QED
        BY <2>2, <4>1 DEF SourcesWithinLimits
    <3>2. CASE s = e.src /\ s \in DOMAIN ss
      <4>1. sources'[s].attempts = Append(ss[s].attempts, e)
        BY <2>1, <3>2 DEF Record
      <4>2. Len(Append(ss[s].attempts, e)) = Len(ss[s].attempts) + 1
            /\ Len(ss[s].attempts) \in Nat
        BY <2>6, <3>2, AppendProperties, LenProperties
      <4> QED
        BY <2>4, <2>5, <3>2, <4>1, <4>2
    <3>3. CASE s = e.src /\ s \notin DOMAIN ss
      <4>1. sources'[s].attempts = Append(<<>>, e)
        BY <2>1, <3>3 DEF Record, NoAttempts
      <4>2. Len(Append(<<>>, e)) = 1
        OBVIOUS
      <4> QED
        BY <2>5, <4>1, <4>2
    <3> QED
      BY <3>1, <3>2, <3>3
  <2> QED
    BY <2>8, <2>9 DEF Bounded, SourcesWithinLimits
<1>4. ASSUME NEW e \in Event, RollBack(e) PROVE Bounded'
  <2>1. sources' = ForgetNewest(Record(LiveSources(e.ts), e), e) /\ ~Regresses(e)
    BY <1>4 DEF RollBack, Admitted
  <2>2. /\ StatesInv(LiveSources(e.ts), LiveAttempts(e.ts))
        /\ LiveAttempts(e.ts) \in Seq(Event)
    BY <2>1, AgedWindow
  <2>3. sources' = LiveSources(e.ts)
    BY <2>1, <2>2, UndoRecord
  <2> QED
    BY <2>1, <2>3, ExpiryKeepsBounds DEF Bounded
<1>5. CASE UNCHANGED vars
  BY <1>5 DEF vars, window, Bounded
<1> QED
  BY <1>1, <1>2, <1>3, <1>4, <1>5 DEF Next, Process

LEMMA InitBounds == Init => Bounded
<1> SUFFICES ASSUME Init PROVE Bounded
  OBVIOUS
<1>1. DOMAIN sources = {}
  BY DEF Init
<1>2. Cardinality({}) = 0 /\ MaxActiveSources \in Nat
  BY FS_EmptySet, LimitAssumption
<1> QED
  BY <1>1, <1>2 DEF Bounded, SourcesWithinLimits

LEMMA BoundsInvariance == Spec => []Bounded
<1>1. IInv /\ StatesMatch /\ Bounded /\ [Next]_vars => Bounded'
  BY BoundsStep
<1> QED
  BY <1>1, InitBounds, Invariance, StatesInvariance, PTL DEF Spec

\* The deque, the UID table, the cooldown table, the number of sources and the
\* deque of each keep the bounds of StateLimits, however calls expire, insert
\* and take back.
THEOREM TablesBounded == Spec => []TablesWithinLimits
<1>1. IInv /\ Bounded => TablesWithinLimits
  BY IInvFacts DEF TablesWithinLimits, Bounded
<1> QED
  BY <1>1, Invariance, BoundsInvariance, PTL

-----------------------------------------------------------------------------
\* The four limits of _preflight_limits, counted from scratch.
LEMMA FullIsExceeded ==
  ASSUME IInv, StatesMatch, SourcesWithinLimits(sources), NEW e \in Event, ~Regresses(e)
  PROVE  /\ "max_active_sources" \in Abs!Full(e)
              <=> ExceededLimits(e).max_active_sources
         /\ "max_attempts_per_source" \in Abs!Full(e)
              <=> ExceededLimits(e).max_attempts_per_source
         /\ "max_total_attempts" \in Abs!Full(e)
              <=> ExceededLimits(e).max_total_attempts
         /\ "max_dedup_uids" \in Abs!Full(e)
              <=> ExceededLimits(e).max_dedup_uids
<1> DEFINE q  == LiveAttempts(e.ts)
           ss == LiveSources(e.ts)
           S  == Abs!Young(e.ts)
           D  == {a.src : a \in S}
<1>1. /\ q \in Seq(Event) /\ TimeSorted(q) /\ DistinctUids(q) /\ StatesInv(ss, q)
      /\ ToSet(q) = S /\ KeysOf(LiveUids(e.ts)) = Abs!Known(e.ts)
      /\ LiveUids(e.ts) \in Seq(SeenUid) /\ DistinctKeys(LiveUids(e.ts))
  BY AgedWindow
<1>3. /\ ExceededLimits(e).max_active_sources
           <=> e.src \notin DOMAIN ss /\ Cardinality(DOMAIN ss) >= MaxActiveSources
      /\ ExceededLimits(e).max_attempts_per_source
           <=> e.src \in DOMAIN ss /\ Len(ss[e.src].attempts) >= MaxAttemptsPerSource
      /\ ExceededLimits(e).max_total_attempts <=> Len(q) >= MaxTotalAttempts
      /\ ExceededLimits(e).max_dedup_uids <=> Len(LiveUids(e.ts)) >= MaxDedupUids
  BY DEF ExceededLimits, AtLimit
<1>4. SourcesWithinLimits(ss)
  BY ExpiryKeepsBounds
<1>5. Len(q) = Cardinality(S) /\ IsFiniteSet(S)
  BY <1>1, SizeOfSet
<1>6. Len(LiveUids(e.ts)) = Cardinality(Abs!Known(e.ts))
  BY <1>1, SizeOfKeys
<1> HIDE DEF q, ss, S
<1>7. DOMAIN ss = D /\ IsFiniteSet(D)
  BY <1>1, SourcesAsSet
<1>8. Cardinality(D) \in Nat /\ MaxActiveSources \in Nat /\ MaxAttemptsPerSource \in Nat \ {0}
  BY <1>7, FS_CardinalityType, LimitAssumption
<1>9. Cardinality({a.src : a \in S \cup {e}}) > MaxActiveSources
        <=> e.src \notin DOMAIN ss /\ Cardinality(DOMAIN ss) >= MaxActiveSources
  <2>1. {a.src : a \in S \cup {e}} = D \cup {e.src}
    OBVIOUS
  <2> HIDE DEF D
  <2>2. Cardinality(D \cup {e.src}) = IF e.src \in D THEN Cardinality(D) ELSE Cardinality(D) + 1
    BY <1>7, FS_AddElement
  <2>3. Cardinality(D) <= MaxActiveSources
    BY <1>4, <1>7 DEF SourcesWithinLimits
  <2>4. CASE e.src \in D
    <3>1. ~(Cardinality(D \cup {e.src}) > MaxActiveSources)
      BY <1>8, <2>2, <2>3, <2>4
    <3> QED
      BY <1>7, <2>1, <2>4, <3>1
  <2>5. CASE e.src \notin D
    <3>1. Cardinality(D \cup {e.src}) > MaxActiveSources
            <=> Cardinality(D) >= MaxActiveSources
      BY <1>8, <2>2, <2>5
    <3> QED
      BY <1>7, <2>1, <2>5, <3>1
  <2> QED
    BY <2>4, <2>5
<1>10. Cardinality(OfSource(S, e.src)) >= MaxAttemptsPerSource
        <=> e.src \in DOMAIN ss /\ Len(ss[e.src].attempts) >= MaxAttemptsPerSource
  <2>1. CASE e.src \in DOMAIN ss
    BY <1>1, <2>1, StateAsSet
  <2>2. CASE e.src \notin DOMAIN ss
    <3>1. OfSource(S, e.src) = {}
      BY <1>7, <2>2 DEF OfSource
    <3>2. Cardinality(OfSource(S, e.src)) = 0
      BY <3>1, FS_EmptySet
    <3> QED
      BY <1>8, <2>2, <3>2
  <2> QED
    BY <2>1, <2>2
<1> DEFINE a1 == Cardinality({a.src : a \in S \cup {e}}) > MaxActiveSources
           a2 == Cardinality(OfSource(S, e.src)) >= MaxAttemptsPerSource
<1> HIDE DEF a1, a2
<1>11. "max_active_sources" \in Abs!Full(e) <=> a1
  BY SameOperators DEF Abs!Full, SourceOf, S, a1
<1>12. "max_attempts_per_source" \in Abs!Full(e) <=> a2
  BY SameOperators DEF Abs!Full, Abs!Group, OfSource, SourceOf, S, a2
<1>13. "max_total_attempts" \in Abs!Full(e) <=> Cardinality(S) >= MaxTotalAttempts
  BY SameOperators DEF Abs!Full, S
<1>14. "max_dedup_uids" \in Abs!Full(e) <=> Cardinality(Abs!Known(e.ts)) >= MaxDedupUids
  BY SameOperators DEF Abs!Full
<1> QED
  BY <1>3, <1>5, <1>6, <1>9, <1>10, <1>11, <1>12, <1>13, <1>14 DEF a1, a2

\* The state that _snapshot measures tells what the set of its attempts does.
LEMMA SnapshotIsEvidence ==
  ASSUME IInv, StatesMatch, NEW e \in Event, Admitted(e)
  PROVE  /\ CrossesThreshold(Snapshot(e)) <=> IsFanout(Abs!Evidence(e))
         /\ AlertOf(e, Snapshot(e)) = FanoutAlert(e, Abs!Evidence(e))
<1> DEFINE q   == LiveAttempts(e.ts)
           q2  == Append(q, e)
           ss2 == Record(LiveSources(e.ts), e)
           own == ss2[e.src].attempts
           E   == Abs!Evidence(e)
<1>1. /\ q \in Seq(Event) /\ StatesInv(LiveSources(e.ts), q) /\ ToSet(q) = Abs!Young(e.ts)
  BY AgedWindow DEF Admitted
<1>2. WindowConsistent(e.ts, q2, Append(LiveUids(e.ts), Entry(e.uid, e.ts)))
  BY ExpiryKeepsWindow, AdmittedHasRoom, InsertKeepsWindow DEF Admitted
<1>3. q2 \in Seq(Event) /\ TimeSorted(q2) /\ DistinctUids(q2)
  BY <1>2 DEF WindowConsistent, UidWindow
<1>4. StatesInv(ss2, q2) /\ e.src \in DOMAIN ss2 /\ Snapshot(e) = ss2[e.src]
  <2>1. StatesInv(ss2, q2)
    BY <1>1, RecordMatches
  <2> QED
    BY <2>1 DEF Record, Snapshot
<1>5. ToSet(q2) = Abs!Young(e.ts) \cup {e}
  BY <1>1, SetOfAppend
<1> HIDE DEF q, q2, ss2
<1>6. /\ own \in Seq(Event) /\ ss2[e.src] = StateOf(own) /\ TimeSorted(own)
      /\ DistinctUids(own) /\ ToSet(own) = OfSource(ToSet(q2), e.src)
  BY <1>3, <1>4, StateAsSet
<1> HIDE DEF own
<1>7. ToSet(own) = E
  <2>1. E = {a \in Abs!Young(e.ts) : a.src = e.src} \cup {e}
    BY DEF Abs!Evidence, Abs!Group, SourceOf
  <2> QED
    BY <1>5, <1>6, <2>1 DEF OfSource
<1>8. Len(own) = Cardinality(E) /\ \A x : x \in E <=> \E i \in 1 .. Len(own) : x = own[i]
  BY <1>6, <1>7, SizeOfSet, SetOf
<1>9. E \subseteq Event /\ e \in E
  BY <1>6, <1>7, SetOf DEF Abs!Evidence
<1> HIDE DEF E
<1>10. /\ DOMAIN StateOf(own).hosts = {a.dst : a \in E}
       /\ DOMAIN StateOf(own).ports = {a.port : a \in E}
       /\ DOMAIN StateOf(own).endpoints = {EndpointOf(a) : a \in E}
       /\ StateOf(own).attempts = own
  <2>1. \A i \in 1 .. Len(own) : own[i] \in E
    BY <1>8
  <2>2. /\ \A a \in E : DstField[a] = a.dst /\ PortField[a] = a.port
                        /\ EndpointField[a] = EndpointOf(a)
    BY <1>9, FieldsOf
  <2>3. DOMAIN Tally(own, DstField) = {a.dst : a \in E}
    <3>1. ASSUME NEW v PROVE v \in DOMAIN Tally(own, DstField) <=> v \in {a.dst : a \in E}
      <4>1. v \in DOMAIN Tally(own, DstField) <=> \E i \in 1 .. Len(own) : DstField[own[i]] = v
        BY <1>6, TallyIs
      <4> QED
        BY <1>8, <2>1, <2>2, <4>1
    <3> QED
      BY <3>1
  <2>4. DOMAIN Tally(own, PortField) = {a.port : a \in E}
    <3>1. ASSUME NEW v PROVE v \in DOMAIN Tally(own, PortField) <=> v \in {a.port : a \in E}
      <4>1. v \in DOMAIN Tally(own, PortField) <=> \E i \in 1 .. Len(own) : PortField[own[i]] = v
        BY <1>6, TallyIs
      <4> QED
        BY <1>8, <2>1, <2>2, <4>1
    <3> QED
      BY <3>1
  <2>5. DOMAIN Tally(own, EndpointField) = {EndpointOf(a) : a \in E}
    <3>1. ASSUME NEW v
          PROVE  v \in DOMAIN Tally(own, EndpointField) <=> v \in {EndpointOf(a) : a \in E}
      <4>1. v \in DOMAIN Tally(own, EndpointField)
              <=> \E i \in 1 .. Len(own) : EndpointField[own[i]] = v
        BY <1>6, TallyIs
      <4> QED
        BY <1>8, <2>1, <2>2, <4>1
    <3> QED
      BY <3>1
  <2> QED
    BY <2>3, <2>4, <2>5 DEF StateOf
<1>11. Head(own).ts = Min({a.ts : a \in E})
  <2>1. own # <<>>
    BY <1>8, <1>9, EmptySeq
  <2> QED
    BY <1>6, <1>7, <2>1, EventTimes, FrontIsMin
<1>12. Snapshot(e) = StateOf(own)
  BY <1>4, <1>6
<1>13. CrossesThreshold(StateOf(own)) <=> IsFanout(E)
  BY <1>8, <1>10 DEF CrossesThreshold, IsFanout
<1>14. AlertOf(e, StateOf(own)) = FanoutAlert(e, E)
  BY <1>8, <1>10, <1>11 DEF AlertOf, FanoutAlert
<1> QED
  BY <1>12, <1>13, <1>14 DEF E

-----------------------------------------------------------------------------
\* What the calls do to the sets, part by part.

\* The order check of observe.
LEMMA InOrderIs ==
  ASSUME IInv, NEW e \in Event
  PROVE  Abs!InOrder(e) <=> ~Regresses(e)
<1>1. e.ts \in Int /\ (watermark = None \/ watermark \in Int)
  BY EventTimes, TimeAssumption DEF IInv
<1> QED
  BY <1>1 DEF Abs!InOrder, Regresses

\* The two questions process asks of the cooldown table.
LEMMA SuppressedIs ==
  ASSUME IInv, NEW e \in Event, ~Regresses(e)
  PROVE  /\ Suppressed(e) <=> e.src \in Abs!Cooling(e.ts)
         /\ ~Suppressed(e) => (NoCooldownSlot(e) <=> ~Abs!Room(e))
<1> DEFINE cd == LiveCooldowns(e.ts)
<1>1. /\ \A i \in 1 .. Len(cd) : e.ts - cd[i].ts < Cooldown
      /\ cd \in Seq(LastAlert) /\ DistinctKeys(cd)
  BY ExpiryKeepsCooldown DEF CooldownConsistent
<1>2. DOMAIN cd = 1 .. Len(cd) /\ Len(cd) \in Nat
  BY <1>1, LenProperties
<1>3. KeysOf(cd) = Abs!Cooling(e.ts)
  BY AgedCooling
<1>4. Cardinality(Abs!Cooling(e.ts)) = Len(cd)
  BY <1>1, <1>3, SizeOfKeys
<1>5. Suppressed(e) <=> \E i \in DOMAIN cd : cd[i].key = e.src /\ e.ts - cd[i].ts < Cooldown
  BY DEF Suppressed
<1>6. NoCooldownSlot(e) <=> e.src \notin KeysOf(cd) /\ Len(cd) >= MaxCooldownSources
  BY DEF NoCooldownSlot, AtLimit
<1>7. Abs!Room(e) <=> Len(cd) < MaxCooldownSources
  BY <1>4, SameOperators DEF Abs!Room
<1> HIDE DEF cd
<1>8. Suppressed(e) <=> e.src \in KeysOf(cd)
  BY <1>1, <1>2, <1>5 DEF KeysOf
<1> QED
  BY <1>2, <1>3, <1>6, <1>7, <1>8, ConstantTypes

\* A call that leaves no trace, whether or not it has expired the cooldown table.
LEMMA AgeStep ==
  ASSUME IInv, StatesMatch, NEW e \in Event, ~Regresses(e),
         watermark' = e.ts, attempts' = LiveAttempts(e.ts), seen' = LiveUids(e.ts),
         cooldown' \in {cooldown, LiveCooldowns(e.ts)}
  PROVE  Abs!Age(e)
<1>1. Cooling' = Restrict(Cooling, Abs!Cooling(e.ts))
  BY CoolingIs, AgedCooling
<1> QED
  BY <1>1, AgedWindow, SameOperators DEF Abs!Age

\* A call that takes the event in.
LEMMA RememberStep ==
  ASSUME IInv, StatesMatch, NEW e \in Event, Admitted(e), Insert(e)
  PROVE  Abs!Remember(e)
<1> DEFINE q  == LiveAttempts(e.ts)
           sn == LiveUids(e.ts)
           r  == Append(sn, Entry(e.uid, e.ts))
           K  == Abs!Known(e.ts)
<1>1. /\ q \in Seq(Event) /\ ToSet(q) = Abs!Young(e.ts)
      /\ sn \in Seq(SeenUid) /\ DistinctKeys(sn) /\ KeysOf(sn) = K
      /\ AsFunction(sn) = Restrict(AsFunction(seen), K) /\ e.uid \notin KeysOf(sn)
  BY AgedWindow DEF Admitted
<1>2. watermark' = e.ts /\ attempts' = Append(q, e) /\ seen' = r
  BY DEF Insert, SeenEntry
<1>3. Entry(e.uid, e.ts) \in SeenUid
  BY EventTimes DEF SeenUid, Entry
<1> HIDE DEF q, sn, K
<1>4. ToSet(attempts') = Abs!Young(e.ts) \cup {e}
  BY <1>1, <1>2, SetOfAppend
<1>5. /\ KeysOf(r) = K \cup {e.uid} /\ AsFunction(r)[e.uid] = e.ts
      /\ \A k \in K : AsFunction(r)[k] = AsFunction(sn)[k]
  BY <1>1, <1>3, FunctionOfAppend
<1> HIDE DEF r
<1>6. \A k \in K : AsFunction(sn)[k] = AsFunction(seen)[k]
  BY <1>1 DEF Restrict
<1>7. AsFunction(r) = [u \in KeysOf(r) |-> AsFunction(r)[u]]
  BY DEF AsFunction
<1>8. AsFunction(seen') = [u \in K \cup {e.uid} |->
                             IF u = e.uid THEN e.ts ELSE AsFunction(seen)[u]]
  BY <1>1, <1>2, <1>5, <1>6, <1>7
<1> QED
  BY <1>2, <1>4, <1>8 DEF Abs!Remember, K

\* Entering an alert in the cooldown table: with a zero cooldown the entry never
\* suppresses anything.
LEMMA CooldownStarts ==
  ASSUME IInv, NEW e \in Event, ~Regresses(e), ~Suppressed(e), ~NoCooldownSlot(e),
         watermark' = e.ts, cooldown' = Put(LiveCooldowns(e.ts), e.src, e.ts)
  PROVE  Cooling' = [k \in Abs!Cooling(e.ts) \cup Abs!Silenced(e) |->
                       IF k = SourceOf(e) THEN e.ts ELSE Cooling[k]]
<1> DEFINE cd == LiveCooldowns(e.ts)
           K  == Abs!Cooling(e.ts)
           k0 == e.src
           B  == Abs!Silenced(e)
<1>1. k0 \notin KeysOf(cd) /\ cooldown' = Append(cd, Entry(k0, e.ts))
  BY AlertIsAppended
<1>2. cd \in Seq(LastAlert) /\ DistinctKeys(cd)
  BY ExpiryKeepsCooldown DEF CooldownConsistent
<1>3. Entry(k0, e.ts) \in LastAlert /\ e.ts \in Int /\ Cooldown \in Nat
  BY EventTimes, ConstantTypes DEF LastAlert, Entry
<1>4. KeysOf(cd) = K /\ AsFunction(cd) = Restrict(Cooling, K)
  BY AgedCooling
<1>5. \A k \in K : k \in DOMAIN Cooling /\ e.ts - Cooling[k] < Cooldown
  BY DEF Abs!Cooling
<1>6. B = IF Cooldown = 0 THEN {} ELSE {k0}
  BY DEF Abs!Silenced, SourceOf
<1>7. Cooling' = Suppressing(Cooldown, e.ts, Append(cd, Entry(k0, e.ts)))
  BY <1>1, CoolingIs
<1> HIDE DEF cd, K, k0, B
<1>8. \A k \in K : AsFunction(cd)[k] = Cooling[k]
  BY <1>4 DEF Restrict
<1>9. Suppressing(Cooldown, e.ts, Append(cd, Entry(k0, e.ts)))
        = Started(Cooldown, e.ts, cd, k0)
  <2>1. \A k \in KeysOf(cd) : e.ts - AsFunction(cd)[k] < Cooldown
    BY <1>4, <1>5, <1>8
  <2> QED
    BY ONLY <1>1, <1>2, <1>3, <2>1, SuppressingStarts
<1>10. Cooling' = [k \in K \cup B |-> IF k = k0 THEN e.ts ELSE AsFunction(cd)[k]]
  BY <1>4, <1>6, <1>7, <1>9 DEF Started
<1>11. \A k \in K \cup B : k # k0 => AsFunction(cd)[k] = Cooling[k]
  BY <1>6, <1>8
<1>12. Cooling' = [k \in K \cup B |-> IF k = k0 THEN e.ts ELSE Cooling[k]]
  BY <1>10, <1>11
<1> QED
  BY <1>12 DEF K, k0, B, SourceOf

\* An event past the checks of observe is one the abstract detector has room for.
LEMMA AdmittedIs ==
  ASSUME IInv, StatesMatch, SourcesWithinLimits(sources), NEW e \in Event
  PROVE  Admitted(e) => Abs!New(e) /\ Abs!Full(e) = {}
<1> SUFFICES ASSUME Admitted(e) PROVE Abs!New(e) /\ Abs!Full(e) = {}
  OBVIOUS
<1>1. ~Regresses(e) /\ e.uid \notin KeysOf(LiveUids(e.ts))
  BY DEF Admitted
<1>2. Abs!New(e)
  BY <1>1, InOrderIs, AgedWindow DEF Abs!New
<1>3. /\ ~ExceededLimits(e).max_active_sources
      /\ ~ExceededLimits(e).max_attempts_per_source
      /\ ~ExceededLimits(e).max_total_attempts
      /\ ~ExceededLimits(e).max_dedup_uids
  BY DEF Admitted, ExceededLimits
<1>4. Abs!Full(e) \subseteq {"max_active_sources", "max_attempts_per_source",
                             "max_total_attempts", "max_dedup_uids"}
  BY DEF Abs!Full
<1>5. Abs!Full(e) = {}
  BY <1>1, <1>3, <1>4, FullIsExceeded
<1> QED
  BY <1>2, <1>5

\* A limit of _preflight_limits: the first one in the order of the checks is one
\* of those with no room.
LEMMA OverflowStep ==
  ASSUME IInv, StatesMatch, SourcesWithinLimits(sources), NEW e \in Event, RejectAtLimit(e)
  PROVE  Abs!Overflow(e)
<1>1. ~Regresses(e) /\ e.uid \notin KeysOf(LiveUids(e.ts))
  BY DEF RejectAtLimit
<1>2. Abs!New(e)
  BY <1>1, InOrderIs, AgedWindow DEF Abs!New
<1>3. Abs!Age(e)
  BY <1>1, AgeStep DEF RejectAtLimit, ExpireWindow
<1>4. PICK n \in DOMAIN CheckOrder :
        ExceededLimits(e)[CheckOrder[n]] /\ result' = Exceeded(CheckOrder[n])
  BY DEF RejectAtLimit
<1>5. CheckOrder[n] \in {"max_active_sources", "max_attempts_per_source",
                         "max_total_attempts", "max_dedup_uids"}
  <2>1. n \in 1 .. 4
    BY <1>4 DEF CheckOrder
  <2>2. n = 1 \/ n = 2 \/ n = 3 \/ n = 4
    BY <2>1
  <2> QED
    BY <2>2 DEF CheckOrder
<1> DEFINE l == CheckOrder[n]
<1>6. ExceededLimits(e)[l] /\ result' = Exceeded(l)
  BY <1>4
<1> HIDE DEF l
<1>7. l \in Abs!Full(e)
  <2>1. CASE l = "max_active_sources"
    BY <1>1, <1>6, <2>1, FullIsExceeded
  <2>2. CASE l = "max_attempts_per_source"
    BY <1>1, <1>6, <2>2, FullIsExceeded
  <2>3. CASE l = "max_total_attempts"
    BY <1>1, <1>6, <2>3, FullIsExceeded
  <2>4. CASE l = "max_dedup_uids"
    BY <1>1, <1>6, <2>4, FullIsExceeded
  <2> QED
    BY <1>5, <2>1, <2>2, <2>3, <2>4 DEF l
<1>8. result' = Abs!Exceeded(l)
  BY <1>6 DEF Abs!Exceeded, Exceeded
<1> QED
  BY <1>2, <1>3, <1>7, <1>8 DEF Abs!Overflow

\* Every call of PortScanDetector.process is a step of the abstract detector.
LEMMA RefinementStep ==
  ASSUME IInv, StatesMatch, SourcesWithinLimits(sources), [Next]_vars
  PROVE  [Abs!Next]_(Abs!vars)
<1>1. ASSUME NEW e \in Event, RejectRegression(e) PROVE Abs!Refuse(e)
  <2>1. /\ watermark' = watermark /\ attempts' = attempts /\ seen' = seen
        /\ cooldown' = cooldown /\ result' = Regressed /\ Regresses(e)
    BY <1>1 DEF RejectRegression, window
  <2>2. Cooling' = Cooling
    BY <2>1, CoolingIs
  <2> QED
    BY <2>1, <2>2, InOrderIs DEF Abs!Refuse, Regressed
<1>2. ASSUME NEW e \in Event, IgnoreDuplicate(e) PROVE Abs!Repeat(e)
  <2>1. /\ ~Regresses(e) /\ e.uid \in KeysOf(LiveUids(e.ts)) /\ ExpireWindow(e.ts)
        /\ cooldown' = LiveCooldowns(e.ts) /\ result' = Nothing
    BY <1>2 DEF IgnoreDuplicate
  <2>2. Abs!Age(e)
    BY <2>1, AgeStep DEF ExpireWindow
  <2>3. Abs!InOrder(e) /\ e.uid \in Abs!Known(e.ts)
    BY <2>1, InOrderIs, AgedWindow
  <2> QED
    BY <2>1, <2>2, <2>3 DEF Abs!Repeat, Abs!Nothing, Nothing
<1>3. ASSUME NEW e \in Event, RecordQuietly(e) PROVE Abs!Admit(e)
  <2>1. /\ Admitted(e) /\ ~Regresses(e) /\ Insert(e) /\ watermark' = e.ts
        /\ cooldown' = LiveCooldowns(e.ts) /\ result' = Nothing
        /\ ~CrossesThreshold(Snapshot(e)) \/ Suppressed(e)
    BY <1>3 DEF RecordQuietly, Admitted, Insert
  <2>2. Cooling' = Abs!Restrict(Cooling, Abs!Cooling(e.ts))
    BY <2>1, CoolingIs, AgedCooling, SameOperators
  <2>3. ~Abs!Due(e)
    BY <2>1, SnapshotIsEvidence, SuppressedIs DEF Abs!Due, SourceOf
  <2> QED
    BY <2>1, <2>2, <2>3, AdmittedIs, RememberStep DEF Abs!Admit, Abs!Nothing, Nothing
<1>4. ASSUME NEW e \in Event, RollBack(e) PROVE Abs!Withdraw(e)
  <2>1. /\ Admitted(e) /\ ~Regresses(e) /\ watermark' = e.ts
        /\ CrossesThreshold(Snapshot(e)) /\ ~Suppressed(e) /\ NoCooldownSlot(e)
        /\ cooldown' = LiveCooldowns(e.ts) /\ result' = Exceeded("max_cooldown_sources")
    BY <1>4 DEF RollBack, Admitted
  <2>2. Abs!Age(e)
    BY <1>4, <2>1, AgeStep, RollBackRestores
  <2>3. Abs!Due(e) /\ ~Abs!Room(e)
    BY <2>1, SnapshotIsEvidence, SuppressedIs DEF Abs!Due, SourceOf
  <2> QED
    BY <2>1, <2>2, <2>3, AdmittedIs DEF Abs!Withdraw, Abs!Exceeded, Exceeded
<1>5. ASSUME NEW e \in Event, RaiseAlert(e) PROVE Abs!Raise(e)
  <2>1. /\ Admitted(e) /\ ~Regresses(e) /\ Insert(e) /\ watermark' = e.ts
        /\ CrossesThreshold(Snapshot(e)) /\ ~Suppressed(e) /\ ~NoCooldownSlot(e)
        /\ cooldown' = Put(LiveCooldowns(e.ts), e.src, e.ts)
        /\ result' = AlertOf(e, Snapshot(e))
    BY <1>5 DEF RaiseAlert, Admitted, Insert
  <2>2. Abs!Due(e) /\ Abs!Room(e)
    BY <2>1, SnapshotIsEvidence, SuppressedIs DEF Abs!Due, SourceOf
  <2>3. result' = FanoutAlert(e, Abs!Evidence(e))
    BY <2>1, SnapshotIsEvidence
  <2> QED
    BY <2>1, <2>2, <2>3, AdmittedIs, RememberStep, CooldownStarts DEF Abs!Raise
<1>6. CASE UNCHANGED vars
  <2>1. Cooling' = Cooling
    BY <1>6, CoolingIs DEF vars, window
  <2> QED
    BY <1>6, <2>1 DEF vars, window, Abs!vars
<1> QED
  BY <1>1, <1>2, <1>3, <1>4, <1>5, <1>6, OverflowStep DEF Next, Process, Abs!Next

\* A new PortScanDetector maps to an empty abstract detector.
LEMMA RefinementInit == Init => Abs!Init
<1> SUFFICES ASSUME Init PROVE Abs!Init
  OBVIOUS
<1>1. attempts = <<>> /\ seen = <<>> /\ cooldown = <<>> /\ watermark = None /\ result = Nothing
  BY DEF Init
<1>2. AsFunction(<<>>) = << >> /\ DOMAIN AsFunction(<<>>) = {}
  <2>1. KeysOf(<<>>) = {}
    BY DEF KeysOf
  <2> QED
    BY <2>1 DEF AsFunction
<1>3. ToSet(<<>>) = {}
  BY DEF ToSet
<1>4. Cooling = << >>
  BY <1>1, <1>2 DEF Cooling, Restrict
<1> QED
  BY <1>1, <1>2, <1>3, <1>4 DEF Abs!Init, Abs!Nothing, Nothing

\* PortScanDetector admits, ignores, rejects and alerts exactly when counting the
\* attempts of the last Window microseconds from scratch would, and with the same
\* evidence: for every configuration that ScanConfig and StateLimits accept, the
\* deques, counters and ordered dictionaries implement the sets of DetectorAbs.
THEOREM SetsAreImplemented == Spec => ImplementsAbs
<1>1. IInv /\ StatesMatch /\ Bounded /\ [Next]_vars => [Abs!Next]_(Abs!vars)
  BY RefinementStep DEF Bounded
<1> QED
  BY <1>1, RefinementInit, Invariance, StatesInvariance, BoundsInvariance, PTL
     DEF Spec, ImplementsAbs, Abs!Spec
=============================================================================
