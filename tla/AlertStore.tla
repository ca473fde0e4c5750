----------------------------- MODULE AlertStore -----------------------------
(***************************************************************************)
(* The operations of AlertStore (alert_store.py) on its deque, a sequence   *)
(* with the oldest alert first.  Each runs under the store's lock, so it is *)
(* one step of whoever calls it; the validation and the deep copies, which  *)
(* leave an alert equal to itself, are left out.                            *)
(***************************************************************************)
EXTENDS Integers, Sequences

CONSTANT Capacity \* ALERT_STORE_CAPACITY

ASSUME CapacityAssumption == Capacity \in Nat \ {0}

Newest(s, k) == IF Len(s) <= k THEN s ELSE SubSeq(s, Len(s) - k + 1, Len(s))

\* Faulty: no limit, and a full store that turns away what is new.
AddUnbounded(s, alert) == Append(s, alert)
AddUntilFull(s, alert) == IF Len(s) < Capacity THEN Append(s, alert) ELSE s

\* add evicts the oldest at capacity.
Add(s, alert) == Newest(Append(s, alert), Capacity)

\* Faulty: oldest first.
SnapshotInOrder(s, limit) == Newest(s, limit)

\* snapshot is newest first, of at most limit alerts.
Snapshot(s, limit) ==
  LET selected == Newest(s, limit)
  IN  [i \in DOMAIN selected |-> selected[Len(selected) - i + 1]]
=============================================================================
