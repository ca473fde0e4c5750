------------------------------ MODULE SynFlood ------------------------------
(***************************************************************************)
(* SynFloodDetector over SynFloodWindow (detection/syn_flood.py): the same  *)
(* rolling window as PortScan's, grouped by destination address and port,   *)
(* with a counter of the sources of each target and the running sum         *)
(* source_count_log_sum from which the entropy of an alert is computed.     *)
(*                                                                         *)
(* A step is one call process(event).                                       *)
(***************************************************************************)
EXTENDS SequencesExt, TimedQueue

CONSTANTS
  Source, Host, Port, Uid, \* the addresses, ports and flow UIDs of the events
  Time,                    \* the event timestamps, in microseconds
  None,                    \* the watermark before the first event
  Log2,                    \* math.log2, in a unit that makes it whole numbers
  Window, Cooldown, MinEvents, MinSources,           \* SynFloodConfig
  DedupTtl, MaxActiveTargets, MaxEventsPerTarget,    \* SynFloodStateLimits
  MaxTotalEvents, MaxDedupUids, MaxCooldownTargets

ASSUME TimeAssumption == Time \subseteq Int /\ None \notin Int

\* Of the logarithm nothing is used but that it starts at zero and the log-sum
\* inequality for n events of m sources beside k events of one more:
\* (n + k) log2((n + k) / (m + 1)) <= n log2(n / m) + k log2(k).
ASSUME LogAssumption ==
  /\ Log2 \in [1 .. MaxEventsPerTarget -> Nat] /\ Log2[1] = 0
  /\ \A n, k \in 1 .. MaxEventsPerTarget : \A m \in 1 .. n :
       n + k <= MaxEventsPerTarget =>
         (n + k) * (Log2[n + k] - Log2[m + 1]) <= n * (Log2[n] - Log2[m]) + k * Log2[k]

\* What SynFloodStateLimits, SynFloodConfig and SynFloodDetector.__init__ validate.
ASSUME ConfigAssumption ==
  /\ Window \in Nat \ {0} /\ DedupTtl \in Nat \ {0} /\ Cooldown \in Nat
  /\ Window <= DedupTtl
ASSUME LimitAssumption ==
  /\ {MaxActiveTargets, MaxEventsPerTarget, MaxTotalEvents, MaxDedupUids,
      MaxCooldownTargets} \subseteq Nat \ {0}
  /\ \A threshold \in {MinEvents, MinSources} :
       /\ threshold \in Nat \ {0}
       /\ \A limit \in {MaxEventsPerTarget, MaxTotalEvents, MaxDedupUids} :
            threshold <= limit

VARIABLES
  watermark,    \* _window._watermark
  observations, \* _window._observations, the global deque, oldest first
  targets,      \* _window._targets, a partial function
  seen,         \* _window._seen_uids
  cooldown,     \* _last_alert_by_target
  result        \* what the last call returned or raised

window == <<watermark, observations, targets, seen>>
vars   == <<watermark, observations, targets, seen, cooldown, result>>

Event     == [ts : Time, uid : Uid, src : Source, dst : Host, port : Port]
Target    == Host \X Port
SeenUid   == [key : Uid, ts : Time]
LastAlert == [key : Target, ts : Time]

Nothing     == [kind |-> "nothing"]
Regressed   == [kind |-> "regression"]
Exceeded(l) == [kind |-> "limit", limit |-> l]

TargetOf(e) == <<e.dst, e.port>>

-----------------------------------------------------------------------------
(* The per-target state: its deque, its counter of sources, its running sum. *)

NoObservations == [observations |-> <<>>, sources |-> EmptyBag, logSum |-> 0]

\* _count_log_count.
CountLog ==
  [n \in 0 .. MaxEventsPerTarget |-> IF n <= 1 THEN 0 ELSE n * Log2[n]]

\* state.sources[source] of a Counter: a key that is not there counts zero.
CountOf(s, counts) == IF s \in DOMAIN counts THEN counts[s] ELSE 0

\* Faulty: the sum is not corrected on the way up.
IncrementCountOnly(st, s, own) ==
  [st EXCEPT !.observations = own, !.sources = Bag!BagAdd(@, s)]

\* _increment_source with the deque now `own`, the count of s going up to n.
Increment(st, s, own) ==
  LET n == CountOf(s, st.sources) + 1
  IN  [observations |-> own,
       sources      |-> Bag!BagAdd(st.sources, s),
       logSum       |-> st.logSum - CountLog[n - 1] + CountLog[n]]

\* Faulty: the sum is not corrected on the way down.
DecrementCountOnly(st, s, rest) ==
  [st EXCEPT !.observations = rest, !.sources = Bag!BagRemove(@, s)]

\* _decrement_source: a counter that becomes empty also resets the sum.
Decrement(st, s, rest) ==
  LET n    == CountOf(s, st.sources)
      left == Bag!BagRemove(st.sources, s)
  IN  [observations |-> rest,
       sources      |-> left,
       logSum       |-> IF left = EmptyBag THEN 0
                        ELSE st.logSum - CountLog[n] + CountLog[n - 1]]

Record(ts, o) ==
  LET k  == TargetOf(o)
      st == IF k \in DOMAIN ts THEN ts[k] ELSE NoObservations
  IN  [t \in DOMAIN ts \cup {k} |->
         IF t = k
         THEN Increment(st, o.src, Append(st.observations, o))
         ELSE ts[t]]

\* Uncount an observation whose target's deque is now `rest`.
Forget(ts, o, rest) ==
  LET k == TargetOf(o)
  IN  IF rest = <<>>
      THEN Restrict(ts, DOMAIN ts \ {k})
      ELSE [ts EXCEPT ![k] = Decrement(@, o.src, rest)]

ForgetOldest(ts, o) == Forget(ts, o, Tail(ts[TargetOf(o)].observations))
ForgetNewest(ts, o) == Forget(ts, o, Front(ts[TargetOf(o)].observations))

-----------------------------------------------------------------------------
(* The state once an event's timestamp has expired what it can.             *)

LiveObservations(t) == Unexpired(observations, t - Window)
LiveTargets(t)   ==
  LET popped == Expired(observations, t - Window)
      after[n \in 0 .. Len(popped)] ==
        IF n = 0 THEN targets ELSE ForgetOldest(after[n - 1], popped[n])
  IN  after[Len(popped)]

\* Faulty: an expiry off by one microsecond.
LiveUidsEarly(t) == Unexpired(seen, t - DedupTtl + 1)

LiveUids(t)      == Unexpired(seen, t - DedupTtl)
LiveCooldowns(t) == Unexpired(cooldown, t - Cooldown + 1)

ExpireWindow(t) ==
  /\ watermark' = t
  /\ observations' = LiveObservations(t)
  /\ targets' = LiveTargets(t)
  /\ seen' = LiveUids(t)

\* _preflight_limits: the limits the event would break, and the order of the checks.
ExceededLimits(e) ==
  LET ts == LiveTargets(e.ts)
      k  == TargetOf(e)
  IN  [max_active_targets |->
         k \notin DOMAIN ts /\ Cardinality(DOMAIN ts) >= MaxActiveTargets,
       max_events_per_target |->
         k \in DOMAIN ts /\ Len(ts[k].observations) >= MaxEventsPerTarget,
       max_total_events |-> Len(LiveObservations(e.ts)) >= MaxTotalEvents,
       max_dedup_uids |-> Len(LiveUids(e.ts)) >= MaxDedupUids]

CheckOrder == <<"max_active_targets", "max_events_per_target",
                "max_total_events", "max_dedup_uids">>

\* The target's state after the event is recorded, which _snapshot measures.
Snapshot(e) == Record(LiveTargets(e.ts), e)[TargetOf(e)]

\* Faulty: one of the two thresholds is enough.
CrossesEitherThreshold(st) ==
  Len(st.observations) >= MinEvents \/ Cardinality(DOMAIN st.sources) >= MinSources

CrossesThreshold(st) ==
  Len(st.observations) >= MinEvents /\ Cardinality(DOMAIN st.sources) >= MinSources

\* The entropy of an alert is log2(events) - logSum / events, so the sum stands
\* for it here.
AlertOf(e, st) ==
  [kind |-> "alert", target |-> TargetOf(e),
   start |-> Head(st.observations).ts, end |-> e.ts,
   events |-> Len(st.observations),
   sources |-> Cardinality(DOMAIN st.sources), logSum |-> st.logSum]

Suppressed(e) ==
  \E i \in DOMAIN LiveCooldowns(e.ts) :
    /\ LiveCooldowns(e.ts)[i].key = TargetOf(e)
    /\ e.ts - LiveCooldowns(e.ts)[i].ts < Cooldown

-----------------------------------------------------------------------------
Init ==
  /\ watermark = None
  /\ observations = <<>>
  /\ targets = << >>
  /\ seen = <<>>
  /\ cooldown = <<>>
  /\ result = Nothing

Regresses(e) == watermark # None /\ e.ts < watermark

RejectRegression(e) ==
  /\ Regresses(e)
  /\ result' = Regressed
  /\ UNCHANGED <<window, cooldown>>

IgnoreDuplicate(e) ==
  /\ ~Regresses(e)
  /\ e.uid \in KeysOf(LiveUids(e.ts))
  /\ ExpireWindow(e.ts)
  /\ cooldown' = LiveCooldowns(e.ts)
  /\ result' = Nothing

\* observe raises after the expiry: process never reaches _expire_cooldowns.
RejectAtLimit(e) ==
  /\ ~Regresses(e)
  /\ e.uid \notin KeysOf(LiveUids(e.ts))
  /\ \E n \in DOMAIN CheckOrder :
       /\ ExceededLimits(e)[CheckOrder[n]]
       /\ \A m \in 1 .. n - 1 : ~ExceededLimits(e)[CheckOrder[m]]
       /\ result' = Exceeded(CheckOrder[n])
  /\ ExpireWindow(e.ts)
  /\ UNCHANGED cooldown

Admitted(e) ==
  /\ ~Regresses(e)
  /\ e.uid \notin KeysOf(LiveUids(e.ts))
  /\ \A l \in DOMAIN ExceededLimits(e) : ~ExceededLimits(e)[l]

SeenEntry(e) == Entry(e.uid, e.ts)

Insert(e) ==
  /\ watermark' = e.ts
  /\ observations' = Append(LiveObservations(e.ts), e)
  /\ targets' = Record(LiveTargets(e.ts), e)
  /\ seen' = Append(LiveUids(e.ts), SeenEntry(e))

RecordQuietly(e) ==
  /\ Admitted(e)
  /\ ~CrossesThreshold(Snapshot(e)) \/ Suppressed(e)
  /\ Insert(e)
  /\ cooldown' = LiveCooldowns(e.ts)
  /\ result' = Nothing

NoCooldownSlot(e) ==
  /\ TargetOf(e) \notin KeysOf(LiveCooldowns(e.ts))
  /\ Len(LiveCooldowns(e.ts)) >= MaxCooldownTargets

\* rollback_last_observation pops what Insert appended, and process raises.
RollBack(e) ==
  /\ Admitted(e)
  /\ CrossesThreshold(Snapshot(e)) /\ ~Suppressed(e)
  /\ NoCooldownSlot(e)
  /\ watermark' = e.ts
  /\ observations' = Front(Append(LiveObservations(e.ts), e))
  /\ targets' = ForgetNewest(Record(LiveTargets(e.ts), e), e)
  /\ seen' = Front(Append(LiveUids(e.ts), SeenEntry(e)))
  /\ cooldown' = LiveCooldowns(e.ts)
  /\ result' = Exceeded("max_cooldown_targets")

RaiseAlert(e) ==
  /\ Admitted(e)
  /\ CrossesThreshold(Snapshot(e)) /\ ~Suppressed(e)
  /\ ~NoCooldownSlot(e)
  /\ Insert(e)
  /\ cooldown' = Put(LiveCooldowns(e.ts), TargetOf(e), e.ts)
  /\ result' = AlertOf(e, Snapshot(e))

Process(e) ==
  \/ RejectRegression(e)
  \/ IgnoreDuplicate(e)
  \/ RejectAtLimit(e)
  \/ RecordQuietly(e)
  \/ RollBack(e)
  \/ RaiseAlert(e)

Next == \E e \in Event : Process(e)

Spec == Init /\ [][Next]_vars

-----------------------------------------------------------------------------
(* Properties.                                                              *)

SourcesIn(S) == {o.src : o \in S}

\* Every alert passes its own contract (AlertWindow, SynFloodEvidence), or it would
\* raise in the middle of a replay: it fits the window, its counts reach the
\* thresholds and are those of the window, no event or source being counted that
\* has left it, and the entropy that the running sum gives, log2(events) minus
\* logSum / events, is at most log2(sources).
EvidenceIsValid ==
  result.kind = "alert" =>
    LET flood == {o \in ToSet(observations) : TargetOf(o) = result.target}
        n == result.events
        m == result.sources
    IN  /\ result.start <= result.end /\ result.end - result.start <= Window
        /\ n = Cardinality(flood) /\ m = Cardinality(SourcesIn(flood))
        /\ n >= MinEvents /\ m >= MinSources /\ m <= n
        /\ n * Log2[n] - result.logSum <= n * Log2[m]

\* No flow is counted twice towards a target: the UIDs in the window differ,
\* although the table forgets a UID after a TTL that no duplicate refreshes.
NoDoubleCount ==
  \A i, j \in DOMAIN observations :
    observations[i].uid = observations[j].uid => i = j

\* The sum over the sources that `counts` counts, as an entropy needs it.
LogSum(counts) ==
  LET sum[S \in SUBSET DOMAIN counts] ==
        IF S = {} THEN 0
        ELSE LET s == CHOOSE x \in S : TRUE
             IN  CountLog[counts[s]] + sum[S \ {s}]
  IN  sum[DOMAIN counts]

\* The state of a target whose observations in the window are `own`, from scratch.
SourceField  == [o \in Event |-> o.src]
StateOf(own) ==
  LET counts == Tally(own, SourceField)
  IN  [observations |-> own, sources |-> counts, logSum |-> LogSum(counts)]

Match(ts, q) ==
  /\ DOMAIN ts = {TargetOf(q[i]) : i \in 1 .. Len(q)}
  /\ \A t \in DOMAIN ts :
       /\ Lists(ts[t].observations, q, {i \in 1 .. Len(q) : TargetOf(q[i]) = t})
       /\ ts[t] = StateOf(ts[t].observations)

\* The per-target states are what the global deque says of each target, and the
\* running sum that was corrected at every increment, expiry and rollback is the
\* sum recomputed from the counts, so that the entropy is that of the window.
TargetsMatchWindow == Match(targets, observations)

\* The entries of the cooldown table that still suppress.
Cooling ==
  LET last == AsFunction(cooldown)
  IN  Restrict(last, {k \in DOMAIN last : watermark - last[k] < Cooldown})

\* The rule and the evidence counted from scratch on a set of events.
IsFlood(S)   == Cardinality(S) >= MinEvents /\ Cardinality(SourcesIn(S)) >= MinSources
FloodAlert(e, S) ==
  [kind |-> "alert", target |-> TargetOf(e),
   start |-> Min({o.ts : o \in S}), end |-> e.ts,
   events |-> Cardinality(S), sources |-> Cardinality(SourcesIn(S)),
   logSum |-> LogSum([s \in SourcesIn(S) |-> Cardinality({o \in S : o.src = s})])]

Abs == INSTANCE DetectorAbs WITH
  now <- watermark, active <- ToSet(observations), firstSeen <- AsFunction(seen),
  lastAlert <- Cooling,
  KeyOf <- TargetOf, IsDue <- IsFlood, Alert <- FloodAlert,
  MaxKeys <- MaxActiveTargets, MaxPerKey <- MaxEventsPerTarget,
  MaxTotal <- MaxTotalEvents, MaxUids <- MaxDedupUids,
  MaxCooling <- MaxCooldownTargets,
  KeysLimit <- "max_active_targets", PerKeyLimit <- "max_events_per_target",
  TotalLimit <- "max_total_events", UidsLimit <- "max_dedup_uids",
  CoolingLimit <- "max_cooldown_targets"

\* Every call admits, ignores, rejects and alerts exactly when counting the
\* events of the last Window microseconds from scratch would.
ImplementsAbs == Abs!Spec
=============================================================================
