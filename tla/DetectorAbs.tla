---------------------------- MODULE DetectorAbs ----------------------------
(***************************************************************************)
(* What each of the two rolling-window detectors promises, without deques,  *)
(* counters or ordered dictionaries: the set of events admitted within the  *)
(* window, the UIDs first seen within the deduplication TTL, the alerts     *)
(* raised within the cooldown.  Every measurement is taken on a set, every  *)
(* expiry is a filter by age, and a rejected call only lets time pass.      *)
(*                                                                         *)
(* The detectors differ in the key they group events by, in what they       *)
(* measure, in their threshold and in the names of their limits.            *)
(***************************************************************************)
EXTENDS Integers, FiniteSets, Functions

CONSTANTS
  Event,                   \* records with at least the fields ts and uid
  None,                    \* the clock before the first event
  Window, DedupTtl, Cooldown,
  KeyOf(_),                \* the group of an event: its source, or its target
  IsDue(_),                \* whether the events of a group cross the threshold
  Alert(_, _),             \* the alert for an event and the events of its group
  MaxKeys, MaxPerKey, MaxTotal, MaxUids, MaxCooling,
  KeysLimit, PerKeyLimit, TotalLimit, UidsLimit, CoolingLimit \* their names

VARIABLES
  now,       \* the timestamp of the last call that did not regress, or None
  active,    \* the admitted events still in the window, a set
  firstSeen, \* UID -> when it was admitted, while remembered
  lastAlert, \* key -> when it last raised an alert, while cooling down
  result     \* what the last call returned or raised

vars == <<now, active, firstSeen, lastAlert, result>>

Young(t)   == {a \in active : t - a.ts <= Window}
Known(t)   == {u \in DOMAIN firstSeen : t - firstSeen[u] <= DedupTtl}
Cooling(t) == {k \in DOMAIN lastAlert : t - lastAlert[k] < Cooldown}

Group(S, k) == {a \in S : KeyOf(a) = k}

Nothing     == [kind |-> "nothing"]
Exceeded(l) == [kind |-> "limit", limit |-> l]

\* The limits with no room for the event.
Full(e) ==
  LET S == Young(e.ts)
  IN  {l \in {KeysLimit, PerKeyLimit, TotalLimit, UidsLimit} :
         \/ l = KeysLimit /\ Cardinality({KeyOf(a) : a \in S \cup {e}}) > MaxKeys
         \/ l = PerKeyLimit /\ Cardinality(Group(S, KeyOf(e))) >= MaxPerKey
         \/ l = TotalLimit /\ Cardinality(S) >= MaxTotal
         \/ l = UidsLimit /\ Cardinality(Known(e.ts)) >= MaxUids}

\* Time passes, and with it whatever has grown too old; the event leaves no trace.
Age(e) ==
  /\ now' = e.ts
  /\ active' = Young(e.ts)
  /\ firstSeen' = Restrict(firstSeen, Known(e.ts))
  /\ lastAlert' = Restrict(lastAlert, Cooling(e.ts))

Remember(e) ==
  /\ now' = e.ts
  /\ active' = Young(e.ts) \cup {e}
  /\ firstSeen' = [u \in Known(e.ts) \cup {e.uid} |->
                     IF u = e.uid THEN e.ts ELSE firstSeen[u]]

Init ==
  /\ now = None /\ active = {} /\ firstSeen = << >> /\ lastAlert = << >>
  /\ result = Nothing

InOrder(e) == now = None \/ e.ts >= now
New(e)     == InOrder(e) /\ e.uid \notin Known(e.ts)

Refuse(e) ==
  /\ ~InOrder(e)
  /\ result' = [kind |-> "regression"]
  /\ UNCHANGED <<now, active, firstSeen, lastAlert>>

Repeat(e) ==
  /\ InOrder(e) /\ e.uid \in Known(e.ts)
  /\ Age(e)
  /\ result' = Nothing

Overflow(e) ==
  /\ New(e)
  /\ Age(e)
  /\ \E l \in Full(e) : result' = Exceeded(l)

Evidence(e) == Group(Young(e.ts), KeyOf(e)) \cup {e}
Due(e)      == IsDue(Evidence(e)) /\ KeyOf(e) \notin Cooling(e.ts)
Room(e)     == Cardinality(Cooling(e.ts)) < MaxCooling

Admit(e) ==
  /\ New(e) /\ Full(e) = {} /\ ~Due(e)
  /\ Remember(e)
  /\ lastAlert' = Restrict(lastAlert, Cooling(e.ts))
  /\ result' = Nothing

Withdraw(e) ==
  /\ New(e) /\ Full(e) = {} /\ Due(e) /\ ~Room(e)
  /\ Age(e)
  /\ result' = Exceeded(CoolingLimit)

\* An alert starts the cooldown of its key, unless the cooldown lasts no time.
Silenced(e) == IF Cooldown = 0 THEN {} ELSE {KeyOf(e)}

Raise(e) ==
  /\ New(e) /\ Full(e) = {} /\ Due(e) /\ Room(e)
  /\ Remember(e)
  /\ lastAlert' = [k \in Cooling(e.ts) \cup Silenced(e) |->
                     IF k = KeyOf(e) THEN e.ts ELSE lastAlert[k]]
  /\ result' = Alert(e, Evidence(e))

Next == \E e \in Event :
          Refuse(e) \/ Repeat(e) \/ Overflow(e) \/ Admit(e) \/ Withdraw(e) \/ Raise(e)

Spec == Init /\ [][Next]_vars
=============================================================================
