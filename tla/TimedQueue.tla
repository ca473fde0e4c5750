----------------------------- MODULE TimedQueue -----------------------------
(***************************************************************************)
(* The expiry loop that the detectors run over their deques and ordered    *)
(* dictionaries: pop from the front while the front entry is older than a  *)
(* cutoff, and stop at the first one that is not.  An entry is any record  *)
(* with a field ts; time is an integer number of microseconds.  The code    *)
(* compares binary floats, which is the same but for an entry that is       *)
(* exactly as old as a window of a fraction of a second: see README.md.     *)
(*                                                                         *)
(* The loop looks only at the front: an old entry behind a young one stays. *)
(* That the callers keep their queues sorted, so that nothing old is ever   *)
(* left behind, is a property of the callers and is not assumed here.       *)
(***************************************************************************)
EXTENDS Integers, Sequences, FiniteSets

Bag == INSTANCE BagsExt

\* How many entries the loop pops.
ExpiredCount(q, cutoff) ==
  CHOOSE n \in 0 .. Len(q) :
    /\ \A i \in 1 .. n : q[i].ts < cutoff
    /\ n < Len(q) => q[n + 1].ts >= cutoff

\* The entries popped, in the order they are popped, and the ones that stay.
Expired(q, cutoff)   == SubSeq(q, 1, ExpiredCount(q, cutoff))
Unexpired(q, cutoff) == SubSeq(q, ExpiredCount(q, cutoff) + 1, Len(q))

\* An OrderedDict from keys to times is a queue of entries with a field key.
KeysOf(q) == {q[i].key : i \in DOMAIN q}
Entry(k, t) == [key |-> k, ts |-> t]
AsFunction(q) == [k \in KeysOf(q) |-> q[CHOOSE i \in DOMAIN q : q[i].key = k].ts]

\* Assigning to a key that is there keeps its place; a new key goes to the end.
Put(q, k, t) ==
  IF k \in KeysOf(q)
  THEN [i \in DOMAIN q |-> IF q[i].key = k THEN Entry(k, t) ELSE q[i]]
  ELSE Append(q, Entry(k, t))

\* Every key has one entry.
DistinctKeys(q) == \A i, j \in 1 .. Len(q) : q[i].key = q[j].key => i = j

\* The entries never go back in time from the front to the back.
TimeSorted(q) == \A i, j \in 1 .. Len(q) : i <= j => q[i].ts <= q[j].ts

-----------------------------------------------------------------------------
(* The states that both detectors keep per key beside the deque.             *)

\* own is the part of q at the positions in `mine`, in the order of q.
Lists(own, q, mine) ==
  \E at \in [1 .. Len(own) -> mine] :
    /\ \A i, j \in 1 .. Len(own) : i < j => at[i] < at[j]
    /\ \A p \in mine : \E i \in 1 .. Len(own) : at[i] = p
    /\ \A i \in 1 .. Len(own) : own[i] = q[at[i]]

\* How often each value of the field f occurs in q, counted from scratch.
Tally(q, f) ==
  [v \in {f[q[i]] : i \in 1 .. Len(q)} |->
     Cardinality({i \in 1 .. Len(q) : f[q[i]] = v})]

-----------------------------------------------------------------------------
(* The window that both detectors keep: a deque of flows and a table of UIDs. *)

DistinctUids(q) == \A i, j \in 1 .. Len(q) : q[i].uid = q[j].uid => i = j

\* The deque q of flows and the table sn of UIDs at time t, over the last w
\* microseconds.  Every flow of the window has its entry in the table: with
\* distinct keys there, this is what keeps a flow from being counted twice.
UidWindow(Flow, SeenEntries, w, t, q, sn) ==
  /\ q \in Seq(Flow) /\ TimeSorted(q) /\ DistinctUids(q)
  /\ sn \in Seq(SeenEntries) /\ TimeSorted(sn) /\ DistinctKeys(sn)
  /\ \A i \in 1 .. Len(q) : q[i].ts <= t /\ t - q[i].ts <= w
  /\ \A i \in 1 .. Len(sn) : sn[i].ts <= t
  /\ \A i \in 1 .. Len(q) : \E j \in 1 .. Len(sn) :
       sn[j].key = q[i].uid /\ sn[j].ts = q[i].ts
=============================================================================
