------------------------------ MODULE PortScan ------------------------------
(***************************************************************************)
(* PortScanDetector (detection/port_scan.py) over PortScanWindow           *)
(* (detection/scan_window.py): the rolling window of SYN attempts, its      *)
(* per-source counters, the UID deduplication table, the hard limits, the   *)
(* alert threshold and the per-source cooldown.                             *)
(*                                                                         *)
(* A step of the specification is one call process(event).  A call runs to  *)
(* its return or its exception before the next one starts, and the caller   *)
(* sees `result`.  A caller that catches an exception may call again.       *)
(***************************************************************************)
EXTENDS SequencesExt, TimedQueue

CONSTANTS
  Source, Host, Port, Uid, \* the addresses, ports and flow UIDs of the events
  Time,                    \* the event timestamps, in microseconds
  None,                    \* the watermark before the first event
  Window,                  \* ScanConfig.window_seconds, rounded to microseconds
  Cooldown,                \* ScanConfig.cooldown_seconds
  MinAttempts, MinPorts, MinHosts,         \* the thresholds of ScanConfig
  DedupTtl,                                \* and the limits of StateLimits
  MaxActiveSources, MaxAttemptsPerSource, MaxTotalAttempts, MaxDedupUids,
  MaxCooldownSources

\* What StateLimits, ScanConfig and PortScanDetector.__init__ validate.
ASSUME TimeAssumption == Time \subseteq Int /\ None \notin Int
ASSUME ConfigAssumption ==
  /\ Window \in Nat \ {0} /\ DedupTtl \in Nat \ {0} /\ Cooldown \in Nat
  /\ Window <= DedupTtl
ASSUME LimitAssumption ==
  /\ {MaxActiveSources, MaxAttemptsPerSource, MaxTotalAttempts, MaxDedupUids,
      MaxCooldownSources} \subseteq Nat \ {0}
  /\ \A threshold \in {MinAttempts, MinPorts, MinHosts} :
       /\ threshold \in Nat \ {0}
       /\ \A limit \in {MaxAttemptsPerSource, MaxTotalAttempts, MaxDedupUids} :
            threshold <= limit

VARIABLES
  watermark, \* _window._watermark
  attempts,  \* _window._attempts, the global deque, oldest first
  sources,   \* _window._sources, a partial function
  seen,      \* _window._seen_uids, an OrderedDict, oldest first
  cooldown,  \* _last_alert_by_source, an OrderedDict
  result     \* what the last call returned or raised

window == <<watermark, attempts, sources, seen>>
vars   == <<watermark, attempts, sources, seen, cooldown, result>>

Limit == {"max_active_sources", "max_attempts_per_source", "max_total_attempts",
          "max_dedup_uids", "max_cooldown_sources"}

Event     == [ts : Time, uid : Uid, src : Source, dst : Host, port : Port]
SeenUid   == [key : Uid, ts : Time]
LastAlert == [key : Source, ts : Time]

Nothing      == [kind |-> "nothing"]
Regressed    == [kind |-> "regression"]
Exceeded(l)  == [kind |-> "limit", limit |-> l]

-----------------------------------------------------------------------------
(* The per-source state: its deque and its three counters, which drop a key *)
(* when its count returns to zero.                                          *)

NoAttempts == [attempts |-> <<>>, hosts |-> EmptyBag, ports |-> EmptyBag,
               endpoints |-> EmptyBag]

EndpointOf(a) == <<a.dst, a.port>>

\* The tail of observe: create the source's state if it has none, append, count.
Record(ss, a) ==
  LET st == IF a.src \in DOMAIN ss THEN ss[a.src] ELSE NoAttempts
  IN  [s \in DOMAIN ss \cup {a.src} |->
         IF s = a.src
         THEN [attempts  |-> Append(st.attempts, a),
               hosts     |-> Bag!BagAdd(st.hosts, a.dst),
               ports     |-> Bag!BagAdd(st.ports, a.port),
               endpoints |-> Bag!BagAdd(st.endpoints, EndpointOf(a))]
         ELSE ss[s]]

Uncount(st, a, rest) ==
  [attempts  |-> rest,
   hosts     |-> Bag!BagRemove(st.hosts, a.dst),
   ports     |-> Bag!BagRemove(st.ports, a.port),
   endpoints |-> Bag!BagRemove(st.endpoints, EndpointOf(a))]

\* Faulty: an idle source is never deleted.
ForgetKeepingSource(ss, a, rest) == [ss EXCEPT ![a.src] = Uncount(@, a, rest)]

\* Uncount an attempt whose source's deque is now `rest`; a source with no
\* attempt left is deleted.
Forget(ss, a, rest) ==
  IF rest = <<>>
  THEN Restrict(ss, DOMAIN ss \ {a.src})
  ELSE [ss EXCEPT ![a.src] = Uncount(@, a, rest)]

\* One turn of _expire_attempts, for an attempt popped off the global deque:
\* its source's deque is popped at the front too.
ForgetOldest(ss, a) == Forget(ss, a, Tail(ss[a.src].attempts))

\* The tail of rollback_last_observation.
ForgetNewest(ss, a) == Forget(ss, a, Front(ss[a.src].attempts))

-----------------------------------------------------------------------------
(* The state once an event's timestamp has expired what it can.             *)

\* Faulty: each expiry off by one microsecond.
LiveAttemptsLate(t)   == Unexpired(attempts, t - Window - 1)
LiveCooldownsEarly(t) == Unexpired(cooldown, t - Cooldown + 2)

LiveAttempts(t)  == Unexpired(attempts, t - Window)
LiveSources(t)   ==
  LET popped == Expired(attempts, t - Window)
      after[n \in 0 .. Len(popped)] ==
        IF n = 0 THEN sources ELSE ForgetOldest(after[n - 1], popped[n])
  IN  after[Len(popped)]
LiveUids(t)      == Unexpired(seen, t - DedupTtl)
\* _expire_cooldowns pops while t - ts >= Cooldown.
LiveCooldowns(t) == Unexpired(cooldown, t - Cooldown + 1)

ExpireWindow(t) ==
  /\ watermark' = t
  /\ attempts' = LiveAttempts(t)
  /\ sources' = LiveSources(t)
  /\ seen' = LiveUids(t)

\* Faulty: one entry too many.
PastLimit(count, max) == count > max

AtLimit(count, max) == count >= max

\* _preflight_limits: the limits the event would break, each at its check.
ExceededLimits(e) ==
  LET ss == LiveSources(e.ts)
  IN  [max_active_sources |->
         e.src \notin DOMAIN ss /\ AtLimit(Cardinality(DOMAIN ss), MaxActiveSources),
       max_attempts_per_source |->
         e.src \in DOMAIN ss /\ AtLimit(Len(ss[e.src].attempts), MaxAttemptsPerSource),
       max_total_attempts |-> AtLimit(Len(LiveAttempts(e.ts)), MaxTotalAttempts),
       max_dedup_uids |-> AtLimit(Len(LiveUids(e.ts)), MaxDedupUids)]

\* The order of the checks.
CheckOrder == <<"max_active_sources", "max_attempts_per_source",
                "max_total_attempts", "max_dedup_uids">>

\* Faulty: the event is recorded on top of what has expired.
SnapshotUnexpired(e) == Record(sources, e)[e.src]

\* The source's state after the event is recorded, which _snapshot measures.
Snapshot(e) == Record(LiveSources(e.ts), e)[e.src]

CrossesThreshold(st) ==
  /\ Len(st.attempts) >= MinAttempts
  /\ \/ Cardinality(DOMAIN st.ports) >= MinPorts
     \/ Cardinality(DOMAIN st.hosts) >= MinHosts

AlertOf(e, st) ==
  [kind |-> "alert", src |-> e.src, start |-> Head(st.attempts).ts, end |-> e.ts,
   attempts  |-> Len(st.attempts),
   hosts     |-> Cardinality(DOMAIN st.hosts),
   ports     |-> Cardinality(DOMAIN st.ports),
   endpoints |-> Cardinality(DOMAIN st.endpoints)]

\* An alert of the source that is still within its cooldown.
Suppressed(e) ==
  \E i \in DOMAIN LiveCooldowns(e.ts) :
    /\ LiveCooldowns(e.ts)[i].key = e.src
    /\ e.ts - LiveCooldowns(e.ts)[i].ts < Cooldown

-----------------------------------------------------------------------------
Init ==
  /\ watermark = None
  /\ attempts = <<>>
  /\ sources = << >>
  /\ seen = <<>>
  /\ cooldown = <<>>
  /\ result = Nothing

Regresses(e) == watermark # None /\ e.ts < watermark

\* observe raises before it touches anything.
RejectRegression(e) ==
  /\ Regresses(e)
  /\ result' = Regressed
  /\ UNCHANGED <<window, cooldown>>

\* A UID already seen refreshes nothing and counts nothing.
IgnoreDuplicate(e) ==
  /\ ~Regresses(e)
  /\ e.uid \in KeysOf(LiveUids(e.ts))
  /\ ExpireWindow(e.ts)
  /\ cooldown' = LiveCooldowns(e.ts)
  /\ result' = Nothing

\* observe raises after the expiry: process never reaches _expire_cooldowns.
RejectAtLimit(e) ==
  /\ ~Regresses(e)
  /\ e.uid \notin KeysOf(LiveUids(e.ts))
  /\ \E n \in DOMAIN CheckOrder :
       /\ ExceededLimits(e)[CheckOrder[n]]
       /\ \A m \in 1 .. n - 1 : ~ExceededLimits(e)[CheckOrder[m]]
       /\ result' = Exceeded(CheckOrder[n])
  /\ ExpireWindow(e.ts)
  /\ UNCHANGED cooldown

\* Faulty: the UID is not looked up.
AdmittedUnseen(e) ==
  /\ ~Regresses(e)
  /\ \A l \in DOMAIN ExceededLimits(e) : ~ExceededLimits(e)[l]

\* observe accepts the event and returns a snapshot.
Admitted(e) ==
  /\ ~Regresses(e)
  /\ e.uid \notin KeysOf(LiveUids(e.ts))
  /\ \A l \in DOMAIN ExceededLimits(e) : ~ExceededLimits(e)[l]

\* Faulty: the UID is entered with the watermark of the call before.
StaleSeenEntry(e) == Entry(e.uid, watermark)

SeenEntry(e) == Entry(e.uid, e.ts)

Insert(e) ==
  /\ watermark' = e.ts
  /\ attempts' = Append(LiveAttempts(e.ts), e)
  /\ sources' = Record(LiveSources(e.ts), e)
  /\ seen' = Append(LiveUids(e.ts), SeenEntry(e))

\* Below the threshold, or within the cooldown of the source.
RecordQuietly(e) ==
  /\ Admitted(e)
  /\ ~CrossesThreshold(Snapshot(e)) \/ Suppressed(e)
  /\ Insert(e)
  /\ cooldown' = LiveCooldowns(e.ts)
  /\ result' = Nothing

NoCooldownSlot(e) ==
  /\ e.src \notin KeysOf(LiveCooldowns(e.ts))
  /\ AtLimit(Len(LiveCooldowns(e.ts)), MaxCooldownSources)

\* Faulty: the rollback looks at the newest entry and leaves it there.
PeekNewest(q) == q

PopNewest(q) == Front(q)

\* The alert has no room in the cooldown table: process takes the observation
\* back (rollback_last_observation pops what Insert appended) and raises.
RollBack(e) ==
  /\ Admitted(e)
  /\ CrossesThreshold(Snapshot(e)) /\ ~Suppressed(e)
  /\ NoCooldownSlot(e)
  /\ watermark' = e.ts
  /\ attempts' = PopNewest(Append(LiveAttempts(e.ts), e))
  /\ sources' = ForgetNewest(Record(LiveSources(e.ts), e), e)
  /\ seen' = PopNewest(Append(LiveUids(e.ts), SeenEntry(e)))
  /\ cooldown' = LiveCooldowns(e.ts)
  /\ result' = Exceeded("max_cooldown_sources")

RaiseAlert(e) ==
  /\ Admitted(e)
  /\ CrossesThreshold(Snapshot(e)) /\ ~Suppressed(e)
  /\ ~NoCooldownSlot(e)
  /\ Insert(e)
  /\ cooldown' = Put(LiveCooldowns(e.ts), e.src, e.ts)
  /\ result' = AlertOf(e, Snapshot(e))

Process(e) ==
  \/ RejectRegression(e)
  \/ IgnoreDuplicate(e)
  \/ RejectAtLimit(e)
  \/ RecordQuietly(e)
  \/ RollBack(e)
  \/ RaiseAlert(e)

Next == \E e \in Event : Process(e)

Spec == Init /\ [][Next]_vars

-----------------------------------------------------------------------------
(* Properties.                                                              *)

\* The type of the state.  A key of an ordered dictionary occurs once.
TypeOK ==
  /\ watermark \in Time \cup {None}
  /\ attempts \in Seq(Event)
  /\ seen \in Seq(SeenUid)
  /\ DistinctKeys(seen)
  /\ cooldown \in Seq(LastAlert)
  /\ DistinctKeys(cooldown)
  /\ result.kind \in {"nothing", "regression", "limit", "alert"}

\* No flow is counted twice in one window: the active attempts have distinct
\* UIDs, although a UID is forgotten after a TTL that no duplicate refreshes
\* and may then be admitted again.
NoDoubleCount ==
  \A i, j \in DOMAIN attempts :
    attempts[i].uid = attempts[j].uid => i = j

\* The window holds nothing older than Window and nothing from the future, in
\* time order, so that the first attempt of a source starts its evidence.
WindowSound ==
  /\ TimeSorted(attempts)
  /\ \A i \in DOMAIN attempts :
       attempts[i].ts <= watermark /\ watermark - attempts[i].ts <= Window

\* The state of a source whose attempts in the window are `own`, from scratch.
DstField      == [a \in Event |-> a.dst]
PortField     == [a \in Event |-> a.port]
EndpointField == [a \in Event |-> EndpointOf(a)]
StateOf(own) ==
  [attempts  |-> own,
   hosts     |-> Tally(own, DstField),
   ports     |-> Tally(own, PortField),
   endpoints |-> Tally(own, EndpointField)]

Match(ss, q) ==
  /\ DOMAIN ss = {q[i].src : i \in 1 .. Len(q)}
  /\ \A s \in DOMAIN ss :
       /\ Lists(ss[s].attempts, q, {i \in 1 .. Len(q) : q[i].src = s})
       /\ ss[s] = StateOf(ss[s].attempts)

\* The per-source states are exactly what the global deque says of each source:
\* the deque its projection in the same order (so that `source_expired is not
\* expired` and the checks of the rollback never raise RuntimeError), and each
\* counter the number of attempts of that key with no key left at zero.
SourcesMatchWindow == Match(sources, attempts)

\* The states ss keep the bounds on the number of sources and on their deques.
SourcesWithinLimits(ss) ==
  /\ Cardinality(DOMAIN ss) <= MaxActiveSources
  /\ \A s \in DOMAIN ss : Len(ss[s].attempts) <= MaxAttemptsPerSource

\* The bounds of StateLimits hold after every call, also after one that a limit
\* rejected part of the way through: on the tables, on the number of sources, and
\* on the deque of each, although the check looks at one source only.
TablesWithinLimits ==
  /\ Len(attempts) <= MaxTotalAttempts
  /\ Len(seen) <= MaxDedupUids
  /\ Len(cooldown) <= MaxCooldownSources
  /\ SourcesWithinLimits(sources)

\* r is q without some of its oldest entries.
OnlyAged(r, q) == \E n \in 0 .. Len(q) : r = SubSeq(q, n + 1, Len(q))

\* A call that raises StateLimitExceeded can be retried: it leaves no attempt,
\* no UID and no cooldown entry behind, so that the event is not later taken
\* for a duplicate.  Only what was too old may have gone.
RejectionLeavesNoTrace ==
  [][result'.kind = "limit" =>
       /\ OnlyAged(attempts', attempts)
       /\ OnlyAged(seen', seen)
       /\ OnlyAged(cooldown', cooldown)]_vars

\* Every alert passes its own contract (AlertWindow, PortScanEvidence), which
\* raises in the middle of a replay otherwise: three counters that go up and down
\* on their own never tell more hosts, ports or endpoints than attempts, nor fewer
\* endpoints than hosts or ports, and the evidence fits the window.
EvidenceIsValid ==
  result.kind = "alert" =>
    /\ result.start <= result.end /\ result.end - result.start <= Window
    /\ result.endpoints <= result.attempts
    /\ result.hosts <= result.endpoints /\ result.ports <= result.endpoints
    /\ result.attempts >= MinAttempts
    /\ result.ports >= MinPorts \/ result.hosts >= MinHosts

CooldownOf(q, s) == {q[i].ts : i \in {j \in DOMAIN q : q[j].key = s}}

\* Two alerts of one source are at least Cooldown apart: an alert is entered in
\* the cooldown table, and the source's entry stays as it is until then.
AlertSpacing ==
  [][/\ result'.kind = "alert"
          => CooldownOf(cooldown', result'.src) = {result'.end}
     /\ \A s \in KeysOf(cooldown) :
          CooldownOf(cooldown', s) # CooldownOf(cooldown, s)
            => \A t \in CooldownOf(cooldown, s) : watermark' - t >= Cooldown]_vars

-----------------------------------------------------------------------------
(* The inductive invariant.  Its parts take the state as parameters, so that *)
(* they also speak of the state between the expiry and the insertion.        *)

\* The deque at and the table sn at time t, and their room.  It is inductive only
\* because Window <= DedupTtl: a UID is kept as long as its attempt.
WindowConsistent(t, at, sn) ==
  /\ UidWindow(Event, SeenUid, Window, t, at, sn)
  /\ Len(at) <= MaxTotalAttempts /\ Len(sn) <= MaxDedupUids

\* The cooldown table cd at time t.  It stays sorted because a source that is
\* still in it after the expiry is suppressed: no entry is updated in place.
CooldownConsistent(t, cd) ==
  /\ cd \in Seq(LastAlert) /\ TimeSorted(cd) /\ DistinctKeys(cd)
  /\ \A i \in 1 .. Len(cd) : cd[i].ts <= t
  /\ Len(cd) <= MaxCooldownSources

IInv ==
  /\ watermark \in Time \cup {None}
  /\ watermark = None => attempts = <<>> /\ seen = <<>> /\ cooldown = <<>>
  /\ watermark # None => /\ WindowConsistent(watermark, attempts, seen)
                         /\ CooldownConsistent(watermark, cooldown)
  /\ result.kind \in {"nothing", "regression", "limit", "alert"}

-----------------------------------------------------------------------------
(* The refinement.                                                          *)

\* The entries of the cooldown table that still suppress: after a rejection the
\* table may hold others, which no caller can tell from none.
Cooling ==
  LET last == AsFunction(cooldown)
  IN  Restrict(last, {k \in DOMAIN last : watermark - last[k] < Cooldown})

\* The rule and the evidence counted from scratch on a set of attempts.
SourceOf(a) == a.src
IsFanout(S) ==
  /\ Cardinality(S) >= MinAttempts
  /\ \/ Cardinality({a.port : a \in S}) >= MinPorts
     \/ Cardinality({a.dst : a \in S}) >= MinHosts
FanoutAlert(e, S) ==
  [kind |-> "alert", src |-> e.src, start |-> Min({a.ts : a \in S}), end |-> e.ts,
   attempts  |-> Cardinality(S),
   hosts     |-> Cardinality({a.dst : a \in S}),
   ports     |-> Cardinality({a.port : a \in S}),
   endpoints |-> Cardinality({EndpointOf(a) : a \in S})]

Abs == INSTANCE DetectorAbs WITH
  now <- watermark, active <- ToSet(attempts), firstSeen <- AsFunction(seen),
  lastAlert <- Cooling,
  KeyOf <- SourceOf, IsDue <- IsFanout, Alert <- FanoutAlert,
  MaxKeys <- MaxActiveSources, MaxPerKey <- MaxAttemptsPerSource,
  MaxTotal <- MaxTotalAttempts, MaxUids <- MaxDedupUids,
  MaxCooling <- MaxCooldownSources,
  KeysLimit <- "max_active_sources", PerKeyLimit <- "max_attempts_per_source",
  TotalLimit <- "max_total_attempts", UidsLimit <- "max_dedup_uids",
  CoolingLimit <- "max_cooldown_sources"

\* The deques, counters and ordered dictionaries implement the sets: every
\* call admits, ignores, rejects and alerts exactly when counting the attempts
\* of the last Window microseconds from scratch would, with the same evidence.
ImplementsAbs == Abs!Spec
=============================================================================
