-------------------------- MODULE TimedQueueProofs --------------------------
(***************************************************************************)
(* What the expiry loop of TimedQueue does to any queue: it returns a       *)
(* suffix, the entries it pops are old, and on a queue sorted by time the   *)
(* entries it keeps are exactly those that are not.  Then what both         *)
(* detectors have in common: the window with its UID table, the projection  *)
(* of a deque on one key, and the counters kept of it.                      *)
(***************************************************************************)
EXTENDS SequencesExt, TimedQueue, SequenceTheorems, FiniteSetTheorems,
        WellFoundedInduction, TLAPS

\* Every non-empty set of natural numbers has a least element.
LEMMA LeastNatural ==
  ASSUME NEW T \in SUBSET Nat, T # {}
  PROVE  \E n \in T : \A m \in T : n <= m
<1>1. PICK n \in T : \A m \in T : <<m, n>> \notin OpToRel(<, Nat)
  BY NatLessThanWellFounded, WFMin
<1>2. \A m \in T : ~(m < n)
  BY <1>1 DEF OpToRel
<1> QED
  BY <1>2

\* The number of popped entries is well defined: the loop stops at the first
\* entry that is young enough, or at the end of the queue.
LEMMA ExpiredCountProperties ==
  ASSUME NEW S, NEW q \in Seq(S), \A x \in S : x.ts \in Int, NEW cutoff \in Int
  PROVE  /\ ExpiredCount(q, cutoff) \in 0 .. Len(q)
         /\ \A i \in 1 .. ExpiredCount(q, cutoff) : q[i].ts < cutoff
         /\ ExpiredCount(q, cutoff) < Len(q)
              => q[ExpiredCount(q, cutoff) + 1].ts >= cutoff
<1> DEFINE Stop == {n \in 0 .. Len(q) : n < Len(q) => q[n + 1].ts >= cutoff}
<1>1. Len(q) \in Nat /\ \A i \in 1 .. Len(q) : q[i].ts \in Int
  BY ElementOfSeq, LenProperties
<1>2. Stop \in SUBSET Nat /\ Len(q) \in Stop
  BY <1>1
<1>3. PICK n \in Stop : \A m \in Stop : n <= m
  BY <1>2, LeastNatural
<1>4. n \in 0 .. Len(q) /\ (n < Len(q) => q[n + 1].ts >= cutoff)
  BY <1>3
<1>5. ASSUME NEW i \in 1 .. n PROVE q[i].ts < cutoff
  <2>1. i - 1 \in 0 .. Len(q) /\ i - 1 < n /\ i - 1 < Len(q) /\ i \in 1 .. Len(q)
    BY <1>1, <1>4
  <2>2. i - 1 \notin Stop
    BY <1>1, <1>3, <1>4, <2>1
  <2>3. ~(q[(i - 1) + 1].ts >= cutoff)
    BY <2>1, <2>2
  <2>4. (i - 1) + 1 = i
    BY <2>1
  <2> QED
    BY <1>1, <2>1, <2>3, <2>4
<1>6. \E k \in 0 .. Len(q) :
        /\ \A i \in 1 .. k : q[i].ts < cutoff
        /\ k < Len(q) => q[k + 1].ts >= cutoff
  BY <1>4, <1>5
<1> QED
  BY <1>6 DEF ExpiredCount

\* What stays is a suffix of the queue, shifted by the number of popped entries.
LEMMA UnexpiredIsSuffix ==
  ASSUME NEW S, NEW q \in Seq(S), \A x \in S : x.ts \in Int, NEW cutoff \in Int
  PROVE  /\ Unexpired(q, cutoff) \in Seq(S)
         /\ \E n \in 0 .. Len(q) :
              /\ n = ExpiredCount(q, cutoff)
              /\ Unexpired(q, cutoff) = SubSeq(q, n + 1, Len(q))
              /\ Len(Unexpired(q, cutoff)) = Len(q) - n
              /\ \A i \in 1 .. Len(q) - n : Unexpired(q, cutoff)[i] = q[n + i]
<1> DEFINE n == ExpiredCount(q, cutoff)
<1>1. n \in 0 .. Len(q) /\ Len(q) \in Nat
  BY ExpiredCountProperties, LenProperties
<1>2. \A i \in n + 1 .. Len(q) : q[i] \in S
  BY <1>1, ElementOfSeq
<1> HIDE DEF n
<1>3. /\ SubSeq(q, n + 1, Len(q)) \in Seq(S)
      /\ Len(SubSeq(q, n + 1, Len(q)))
           = IF n + 1 <= Len(q) THEN Len(q) - (n + 1) + 1 ELSE 0
      /\ \A i \in 1 .. Len(q) - (n + 1) + 1 :
           SubSeq(q, n + 1, Len(q))[i] = q[(n + 1) + i - 1]
  <2>1. n + 1 \in Int /\ Len(q) \in Int
    BY <1>1
  <2> QED
    BY <1>2, <2>1, SubSeqProperties
<1>4. Len(SubSeq(q, n + 1, Len(q))) = Len(q) - n
  BY <1>1, <1>3
<1>5. ASSUME NEW i \in 1 .. Len(q) - n
      PROVE  SubSeq(q, n + 1, Len(q))[i] = q[n + i]
  <2>1. (n + 1) + i - 1 = n + i /\ i \in 1 .. Len(q) - (n + 1) + 1
    BY <1>1
  <2> QED
    BY <1>3, <2>1
<1> QED
  BY <1>1, <1>3, <1>4, <1>5 DEF Unexpired, n

\* The same, by position: the i-th entry that stays was the (n + i)-th.
LEMMA UnexpiredShift ==
  ASSUME NEW S, NEW q \in Seq(S), \A x \in S : x.ts \in Int, NEW cutoff \in Int
  PROVE  \E n \in Nat :
           /\ Len(Unexpired(q, cutoff)) = Len(q) - n
           /\ \A i \in 1 .. Len(Unexpired(q, cutoff)) :
                n + i \in 1 .. Len(q) /\ Unexpired(q, cutoff)[i] = q[n + i]
<1>1. PICK n \in 0 .. Len(q) :
        /\ Len(Unexpired(q, cutoff)) = Len(q) - n
        /\ \A i \in 1 .. Len(q) - n : Unexpired(q, cutoff)[i] = q[n + i]
  BY UnexpiredIsSuffix
<1>2. Len(q) \in Nat /\ n \in Nat
  BY <1>1, LenProperties
<1>3. ASSUME NEW i \in 1 .. Len(Unexpired(q, cutoff))
      PROVE  n + i \in 1 .. Len(q) /\ Unexpired(q, cutoff)[i] = q[n + i]
  BY <1>1, <1>2
<1> QED
  BY <1>1, <1>2, <1>3

\* On a queue sorted by time the loop is a filter: what stays is sorted and
\* young enough, and every entry that is young enough stays.
LEMMA UnexpiredOfSorted ==
  ASSUME NEW S, NEW q \in Seq(S), \A x \in S : x.ts \in Int, NEW cutoff \in Int,
         TimeSorted(q)
  PROVE  /\ TimeSorted(Unexpired(q, cutoff))
         /\ \A i \in 1 .. Len(Unexpired(q, cutoff)) :
              Unexpired(q, cutoff)[i].ts >= cutoff
         /\ \A i \in 1 .. Len(q) : q[i].ts >= cutoff =>
              \E j \in 1 .. Len(Unexpired(q, cutoff)) : Unexpired(q, cutoff)[j] = q[i]
<1>1. PICK n \in 0 .. Len(q) :
        /\ n = ExpiredCount(q, cutoff)
        /\ Len(Unexpired(q, cutoff)) = Len(q) - n
        /\ \A i \in 1 .. Len(q) - n : Unexpired(q, cutoff)[i] = q[n + i]
  BY UnexpiredIsSuffix
<1>2. /\ \A i \in 1 .. n : q[i].ts < cutoff
      /\ n < Len(q) => q[n + 1].ts >= cutoff
  BY <1>1, ExpiredCountProperties
<1>3. Len(q) \in Nat /\ \A i \in 1 .. Len(q) : q[i].ts \in Int
  BY ElementOfSeq, LenProperties
<1>4. TimeSorted(Unexpired(q, cutoff))
  <2>1. ASSUME NEW i \in 1 .. Len(q) - n, NEW j \in 1 .. Len(q) - n, i <= j
        PROVE  q[n + i].ts <= q[n + j].ts
    <3>1. n + i \in 1 .. Len(q) /\ n + j \in 1 .. Len(q) /\ n + i <= n + j
      BY <1>3, <2>1
    <3> QED
      BY <3>1 DEF TimeSorted
  <2> DEFINE live == Unexpired(q, cutoff)
  <2>2. Len(live) = Len(q) - n /\ \A i \in 1 .. Len(live) : live[i] = q[n + i]
    BY <1>1
  <2> HIDE DEF live
  <2>3. \A i, j \in 1 .. Len(live) : i <= j => live[i].ts <= live[j].ts
    BY <2>1, <2>2
  <2>4. TimeSorted(live)
    BY <2>3 DEF TimeSorted
  <2> QED
    BY <2>4 DEF live
<1>5. ASSUME NEW i \in 1 .. Len(q) - n PROVE q[n + i].ts >= cutoff
  <2>1. n + i \in 1 .. Len(q) /\ n + 1 \in 1 .. Len(q) /\ n + 1 <= n + i /\ n < Len(q)
    BY <1>3
  <2>2. q[n + 1].ts <= q[n + i].ts
    BY <2>1 DEF TimeSorted
  <2> QED
    BY <1>2, <1>3, <2>1, <2>2
<1>6. ASSUME NEW i \in 1 .. Len(q), q[i].ts >= cutoff
      PROVE  \E j \in 1 .. Len(Unexpired(q, cutoff)) : Unexpired(q, cutoff)[j] = q[i]
  <2>1. ~(i \in 1 .. n)
    BY <1>2, <1>3, <1>6
  <2>2. i - n \in 1 .. Len(q) - n /\ n + (i - n) = i
    BY <1>3, <2>1
  <2>3. Unexpired(q, cutoff)[i - n] = q[i]
    BY <1>1, <2>2
  <2> QED
    BY <1>1, <2>2, <2>3
<1>7. \A i \in 1 .. Len(Unexpired(q, cutoff)) : Unexpired(q, cutoff)[i].ts >= cutoff
  BY <1>1, <1>5
<1> QED
  BY <1>4, <1>6, <1>7

\* Appending an entry that is no older than the last keeps a queue sorted.
LEMMA AppendSorted ==
  ASSUME NEW S, NEW q \in Seq(S), \A x \in S : x.ts \in Int, NEW e \in S,
         TimeSorted(q), \A i \in 1 .. Len(q) : q[i].ts <= e.ts
  PROVE  TimeSorted(Append(q, e))
<1>1. /\ Len(Append(q, e)) = Len(q) + 1 /\ Len(q) \in Nat
      /\ \A i \in 1 .. Len(q) : Append(q, e)[i] = q[i]
      /\ Append(q, e)[Len(q) + 1] = e
  BY AppendProperties, LenProperties
<1>2. ASSUME NEW i \in 1 .. Len(q) + 1, NEW j \in 1 .. Len(q) + 1, i <= j
      PROVE  Append(q, e)[i].ts <= Append(q, e)[j].ts
  <2>1. CASE j = Len(q) + 1
    BY <1>1, <2>1
  <2>2. CASE j # Len(q) + 1
    <3>1. i \in 1 .. Len(q) /\ j \in 1 .. Len(q)
      BY <1>1, <1>2, <2>2
    <3> QED
      BY <1>1, <1>2, <3>1 DEF TimeSorted
  <2> QED
    BY <2>1, <2>2
<1> QED
  BY <1>1, <1>2 DEF TimeSorted

\* Popping what was just appended gives the queue back.
LEMMA FrontOfAppend ==
  ASSUME NEW S, NEW q \in Seq(S), NEW e \in S
  PROVE  Front(Append(q, e)) = q
<1>1. /\ Len(Append(q, e)) = Len(q) + 1 /\ Len(q) \in Nat
      /\ Append(q, e) \in Seq(S)
      /\ \A i \in 1 .. Len(q) : Append(q, e)[i] = q[i]
  BY AppendProperties, LenProperties
<1>2. Front(Append(q, e)) = SubSeq(Append(q, e), 1, Len(q))
  BY <1>1 DEF Front
<1>3. \A i \in 1 .. Len(q) : Append(q, e)[i] \in S
  BY <1>1, ElementOfSeq
<1>4. /\ SubSeq(Append(q, e), 1, Len(q)) \in Seq(S)
      /\ Len(SubSeq(Append(q, e), 1, Len(q)))
           = IF 1 <= Len(q) THEN Len(q) - 1 + 1 ELSE 0
      /\ \A i \in 1 .. Len(q) - 1 + 1 :
           SubSeq(Append(q, e), 1, Len(q))[i] = Append(q, e)[1 + i - 1]
  <2>1. 1 \in Int /\ Len(q) \in Int
    BY <1>1
  <2> QED
    BY <1>3, <2>1, SubSeqProperties
<1>5. Len(SubSeq(Append(q, e), 1, Len(q))) = Len(q)
  BY <1>1, <1>4
<1>6. \A i \in 1 .. Len(q) : SubSeq(Append(q, e), 1, Len(q))[i] = q[i]
  BY <1>1, <1>4
<1> QED
  BY <1>2, <1>4, <1>5, <1>6, SeqEqual

-----------------------------------------------------------------------------
(* The window of flows and UIDs.                                             *)

LEMMA EmptyUidWindow ==
  ASSUME NEW F, NEW K, NEW w, NEW t
  PROVE  UidWindow(F, K, w, t, <<>>, <<>>)
<1>1. Len(<<>>) = 0 /\ <<>> \in Seq(F) /\ <<>> \in Seq(K)
  BY EmptySeq
<1> QED
  BY <1>1 DEF UidWindow, TimeSorted, DistinctUids, DistinctKeys

\* Time passing from t to t2 and the expiry of both queues keep the window, as
\* long as a UID is kept for no less time than its flow.
LEMMA UidWindowExpiry ==
  ASSUME NEW F, NEW K, \A x \in F : x.ts \in Int, \A x \in K : x.ts \in Int,
         NEW w \in Nat, NEW ttl \in Nat, w <= ttl,
         NEW t \in Int, NEW t2 \in Int, t <= t2, NEW q, NEW sn,
         UidWindow(F, K, w, t, q, sn)
  PROVE  /\ UidWindow(F, K, w, t2, Unexpired(q, t2 - w), Unexpired(sn, t2 - ttl))
         /\ Len(Unexpired(q, t2 - w)) <= Len(q)
         /\ Len(Unexpired(sn, t2 - ttl)) <= Len(sn)
         /\ Len(Unexpired(q, t2 - w)) \in Nat /\ Len(q) \in Nat
         /\ Len(Unexpired(sn, t2 - ttl)) \in Nat /\ Len(sn) \in Nat
<1> DEFINE q2  == Unexpired(q, t2 - w)
           sn2 == Unexpired(sn, t2 - ttl)
<1>1. t2 - w \in Int /\ t2 - ttl \in Int
  OBVIOUS
<1>2. /\ q \in Seq(F) /\ TimeSorted(q) /\ DistinctUids(q)
      /\ sn \in Seq(K) /\ TimeSorted(sn) /\ DistinctKeys(sn)
      /\ \A i \in 1 .. Len(q) : \E j \in 1 .. Len(sn) :
           sn[j].key = q[i].uid /\ sn[j].ts = q[i].ts
  BY DEF UidWindow
<1>3. Len(q) \in Nat /\ Len(sn) \in Nat
  BY <1>2, LenProperties
<1>4. /\ \A i \in 1 .. Len(q) : q[i].ts \in Int /\ q[i].ts <= t2
      /\ \A i \in 1 .. Len(sn) : sn[i].ts \in Int /\ sn[i].ts <= t2
  <2>1. /\ \A i \in 1 .. Len(q) : q[i].ts \in Int /\ q[i].ts <= t
        /\ \A i \in 1 .. Len(sn) : sn[i].ts \in Int /\ sn[i].ts <= t
    BY <1>2, ElementOfSeq DEF UidWindow
  <2> QED
    BY <2>1
<1>5. PICK n \in Nat :
        /\ Len(q2) = Len(q) - n
        /\ \A i \in 1 .. Len(q2) : n + i \in 1 .. Len(q) /\ q2[i] = q[n + i]
  <2>1. q \in Seq(F) /\ t2 - w \in Int
    BY <1>1, <1>2
  <2> QED
    BY <2>1, UnexpiredShift DEF q2
<1>6. PICK m \in Nat :
        /\ Len(sn2) = Len(sn) - m
        /\ \A i \in 1 .. Len(sn2) : m + i \in 1 .. Len(sn) /\ sn2[i] = sn[m + i]
  <2>1. sn \in Seq(K) /\ t2 - ttl \in Int
    BY <1>1, <1>2
  <2> QED
    BY <2>1, UnexpiredShift DEF sn2
<1>7. /\ q2 \in Seq(F) /\ TimeSorted(q2)
      /\ \A i \in 1 .. Len(q2) : q2[i].ts >= t2 - w
  BY <1>1, <1>2, UnexpiredIsSuffix, UnexpiredOfSorted
<1>8. /\ sn2 \in Seq(K) /\ TimeSorted(sn2)
      /\ \A i \in 1 .. Len(sn) : sn[i].ts >= t2 - ttl =>
           \E j \in 1 .. Len(sn2) : sn2[j] = sn[i]
  BY <1>1, <1>2, UnexpiredIsSuffix, UnexpiredOfSorted
<1>9. Len(q2) \in Nat /\ Len(sn2) \in Nat
  BY <1>7, <1>8, LenProperties
<1> HIDE DEF q2, sn2
<1>10. DistinctUids(q2)
  <2> SUFFICES ASSUME NEW i \in 1 .. Len(q2), NEW j \in 1 .. Len(q2), q2[i].uid = q2[j].uid
               PROVE  i = j
    BY DEF DistinctUids
  <2>1. /\ n + i \in 1 .. Len(q) /\ n + j \in 1 .. Len(q)
        /\ q[n + i].uid = q[n + j].uid
    BY <1>5
  <2>2. n + i = n + j
    BY <1>2, <2>1 DEF DistinctUids
  <2> QED
    BY <2>2
<1>11. DistinctKeys(sn2)
  <2> SUFFICES ASSUME NEW i \in 1 .. Len(sn2), NEW j \in 1 .. Len(sn2),
                      sn2[i].key = sn2[j].key
               PROVE  i = j
    BY DEF DistinctKeys
  <2>1. /\ m + i \in 1 .. Len(sn) /\ m + j \in 1 .. Len(sn)
        /\ sn[m + i].key = sn[m + j].key
    BY <1>6
  <2>2. m + i = m + j
    BY <1>2, <2>1 DEF DistinctKeys
  <2> QED
    BY <2>2
<1>12. ASSUME NEW i \in 1 .. Len(q2)
       PROVE  /\ q2[i].ts <= t2 /\ t2 - q2[i].ts <= w
              /\ \E j \in 1 .. Len(sn2) : sn2[j].key = q2[i].uid /\ sn2[j].ts = q2[i].ts
  <2>1. n + i \in 1 .. Len(q) /\ q2[i] = q[n + i] /\ q2[i].ts \in Int
    BY <1>4, <1>5
  <2>2. q2[i].ts >= t2 - w
    BY <1>7
  <2>3. PICK k \in 1 .. Len(sn) : sn[k].key = q2[i].uid /\ sn[k].ts = q2[i].ts
    BY <1>2, <2>1
  <2>4. sn[k].ts >= t2 - ttl
    <3>1. sn[k].ts \in Int /\ sn[k].ts >= t2 - w
      BY <2>1, <2>2, <2>3
    <3> QED
      BY <3>1
  <2>5. PICK j \in 1 .. Len(sn2) : sn2[j] = sn[k]
    BY <1>8, <2>4
  <2>6. q2[i].ts <= t2 /\ t2 - q2[i].ts <= w
    BY <1>4, <2>1, <2>2
  <2> QED
    BY <2>3, <2>5, <2>6
<1>13. \A i \in 1 .. Len(sn2) : sn2[i].ts <= t2
  BY <1>4, <1>6
<1>14. UidWindow(F, K, w, t2, q2, sn2)
  BY <1>7, <1>8, <1>10, <1>11, <1>12, <1>13 DEF UidWindow
<1> QED
  BY <1>3, <1>5, <1>6, <1>9, <1>14 DEF q2, sn2

\* A flow of the present time whose UID is not in the table enters both queues.
LEMMA UidWindowInsert ==
  ASSUME NEW F, NEW K, \A x \in F : x.ts \in Int, \A x \in K : x.ts \in Int,
         NEW w \in Nat, NEW e \in F, Entry(e.uid, e.ts) \in K,
         NEW q, NEW sn, UidWindow(F, K, w, e.ts, q, sn), e.uid \notin KeysOf(sn)
  PROVE  UidWindow(F, K, w, e.ts, Append(q, e), Append(sn, Entry(e.uid, e.ts)))
<1> DEFINE u   == Entry(e.uid, e.ts)
           q2  == Append(q, e)
           sn2 == Append(sn, u)
<1>1. e.ts \in Int /\ u \in K /\ u.key = e.uid /\ u.ts = e.ts
  BY DEF Entry
<1>2. /\ q \in Seq(F) /\ sn \in Seq(K)
      /\ Len(q) \in Nat /\ Len(sn) \in Nat /\ DOMAIN sn = 1 .. Len(sn)
  BY LenProperties DEF UidWindow
<1> HIDE DEF u
<1>3. /\ q2 \in Seq(F) /\ Len(q2) = Len(q) + 1 /\ q2[Len(q) + 1] = e
      /\ \A i \in 1 .. Len(q) : q2[i] = q[i]
  BY <1>2, AppendProperties
<1>4. /\ sn2 \in Seq(K) /\ Len(sn2) = Len(sn) + 1 /\ sn2[Len(sn) + 1] = u
      /\ \A i \in 1 .. Len(sn) : sn2[i] = sn[i]
  BY <1>1, <1>2, AppendProperties
<1>5. TimeSorted(q2) /\ TimeSorted(sn2)
  BY <1>1, <1>2, AppendSorted DEF UidWindow
<1> HIDE DEF q2, sn2
<1>6. /\ \A i \in 1 .. Len(q2) : i \in 1 .. Len(q) \/ i = Len(q) + 1
      /\ \A i \in 1 .. Len(sn2) : i \in 1 .. Len(sn) \/ i = Len(sn) + 1
      /\ Len(sn) + 1 \in 1 .. Len(sn2) /\ \A j \in 1 .. Len(sn) : j \in 1 .. Len(sn2)
  BY <1>2, <1>3, <1>4
<1>7. \A i \in 1 .. Len(sn) : sn[i].key # e.uid
  BY <1>2 DEF KeysOf
<1>8. \A i \in 1 .. Len(q) : q[i].uid # e.uid
  BY <1>7 DEF UidWindow
<1>9. DistinctUids(q2)
  <2> SUFFICES ASSUME NEW i \in 1 .. Len(q2), NEW j \in 1 .. Len(q2), q2[i].uid = q2[j].uid
               PROVE  i = j
    BY DEF DistinctUids
  <2>1. CASE i \in 1 .. Len(q) /\ j \in 1 .. Len(q)
    BY <1>3, <2>1 DEF UidWindow, DistinctUids
  <2>2. CASE i = Len(q) + 1 \/ j = Len(q) + 1
    BY <1>3, <1>6, <1>8, <2>2
  <2> QED
    BY <1>6, <2>1, <2>2
<1>10. DistinctKeys(sn2)
  <2> SUFFICES ASSUME NEW i \in 1 .. Len(sn2), NEW j \in 1 .. Len(sn2),
                      sn2[i].key = sn2[j].key
               PROVE  i = j
    BY DEF DistinctKeys
  <2>1. CASE i \in 1 .. Len(sn) /\ j \in 1 .. Len(sn)
    BY <1>4, <2>1 DEF UidWindow, DistinctKeys
  <2>2. CASE i = Len(sn) + 1 \/ j = Len(sn) + 1
    BY <1>1, <1>4, <1>6, <1>7, <2>2
  <2> QED
    BY <1>6, <2>1, <2>2
<1>11. ASSUME NEW i \in 1 .. Len(q2)
       PROVE  /\ q2[i].ts <= e.ts /\ e.ts - q2[i].ts <= w
              /\ \E j \in 1 .. Len(sn2) : sn2[j].key = q2[i].uid /\ sn2[j].ts = q2[i].ts
  <2>1. CASE i = Len(q) + 1
    <3>1. e.ts <= e.ts /\ e.ts - e.ts <= w
      BY <1>1
    <3> QED
      BY <1>1, <1>3, <1>4, <1>6, <2>1, <3>1
  <2>2. CASE i \in 1 .. Len(q)
    <3>1. PICK j \in 1 .. Len(sn) : sn[j].key = q[i].uid /\ sn[j].ts = q[i].ts
      BY <2>2 DEF UidWindow
    <3>2. sn2[j].key = q2[i].uid /\ sn2[j].ts = q2[i].ts /\ j \in 1 .. Len(sn2)
      BY <1>3, <1>4, <1>6, <2>2, <3>1
    <3>3. q2[i].ts <= e.ts /\ e.ts - q2[i].ts <= w
      BY <1>3, <2>2 DEF UidWindow
    <3> QED
      BY <3>2, <3>3
  <2> QED
    BY <1>6, <2>1, <2>2
<1>12. \A i \in 1 .. Len(sn2) : sn2[i].ts <= e.ts
  <2>1. e.ts <= e.ts
    BY <1>1
  <2> QED
    BY <1>1, <1>4, <1>6, <2>1 DEF UidWindow
<1>13. UidWindow(F, K, w, e.ts, q2, sn2)
  BY <1>3, <1>4, <1>5, <1>9, <1>10, <1>11, <1>12 DEF UidWindow
<1> QED
  BY <1>13 DEF q2, sn2, u

-----------------------------------------------------------------------------
(* The projection of a deque on one key, and the counters of its fields.     *)

\* Induction up to n, on a set instead of a predicate.
LEMMA InductionUpTo ==
  ASSUME NEW n \in Nat, NEW T, 0 \in T, \A k \in 0 .. n - 1 : k \in T => k + 1 \in T
  PROVE  0 .. n \subseteq T
<1> SUFFICES ASSUME (0 .. n) \ T # {} PROVE FALSE
  OBVIOUS
<1>1. PICK m \in (0 .. n) \ T : \A k \in (0 .. n) \ T : m <= k
  <2>1. (0 .. n) \ T \in SUBSET Nat
    OBVIOUS
  <2> QED
    BY <2>1, LeastNatural
<1>2. m - 1 \in 0 .. n - 1 /\ (m - 1) + 1 = m
  BY <1>1
<1>3. m - 1 \in T
  BY <1>1, <1>2
<1> QED
  BY <1>1, <1>2, <1>3

\* The size of an interval that begins at 1.
LEMMA SizeUpTo ==
  ASSUME NEW n \in Nat
  PROVE  IsFiniteSet(1 .. n) /\ Cardinality(1 .. n) = n
<1>1. /\ IsFiniteSet(1 .. n)
      /\ Cardinality(1 .. n) = IF 1 > n THEN 0 ELSE n - 1 + 1
  BY FS_Interval
<1> QED
  BY <1>1

\* f is the value of a loop before its first turn and after each of n turns.
Iterates(f, n, A, base, turn) ==
  /\ f \in [0 .. n -> A] /\ f[0] = base
  /\ \A i \in 1 .. n : f[i] = turn[<<i, f[i - 1]>>]

\* A loop that stays in a set of values has a value after each of its turns.
LEMMA LoopExists ==
  ASSUME NEW n \in Nat, NEW A, NEW base \in A, NEW turn \in [(1 .. n) \X A -> A]
  PROVE  \E f : Iterates(f, n, A, base, turn)
<1> DEFINE Runs(f, m) == Iterates(f, m, A, base, turn)
           T == {m \in 0 .. n : \E f : Runs(f, m)}
<1> USE DEF Iterates
<1>1. 0 \in T
  <2>1. Runs([i \in 0 .. 0 |-> base], 0)
    OBVIOUS
  <2> HIDE DEF Runs
  <2> QED
    BY <2>1
<1>2. ASSUME NEW m \in 0 .. n - 1, m \in T PROVE m + 1 \in T
  <2>1. PICK f : Runs(f, m)
    BY <1>2
  <2>2. m \in 0 .. m /\ m + 1 \in 0 .. n /\ m + 1 \in 1 .. n
    OBVIOUS
  <2>3. turn[<<m + 1, f[m]>>] \in A
    BY <2>1, <2>2
  <2> DEFINE g == [i \in 0 .. m + 1 |-> IF i = m + 1 THEN turn[<<m + 1, f[m]>>] ELSE f[i]]
  <2>4. g \in [0 .. m + 1 -> A]
    BY <2>1, <2>3
  <2>5. g[m + 1] = turn[<<m + 1, f[m]>>] /\ \A i \in 0 .. m : g[i] = f[i]
    OBVIOUS
  <2>6. g[0] = base
    BY <2>1, <2>5
  <2> HIDE DEF g
  <2>7. ASSUME NEW i \in 1 .. m + 1 PROVE g[i] = turn[<<i, g[i - 1]>>]
    <3>1. CASE i = m + 1
      BY <2>2, <2>5, <3>1
    <3>2. CASE i # m + 1
      <4>1. i \in 1 .. m /\ i \in 0 .. m /\ i - 1 \in 0 .. m
        BY <3>2
      <4> QED
        BY <2>1, <2>5, <4>1
    <3> QED
      BY <3>1, <3>2
  <2>8. Runs(g, m + 1)
    BY <2>4, <2>6, <2>7
  <2> HIDE DEF Runs
  <2> QED
    BY <2>2, <2>8
<1> HIDE DEF T
<1>3. n \in T
  <2>1. 0 .. n \subseteq T
    BY <1>1, <1>2, InductionUpTo
  <2> QED
    BY <2>1
<1> QED
  BY <1>3 DEF T

\* The front of the deque is popped and is not of the key.
LEMMA ListsOfTail ==
  ASSUME NEW S, NEW q \in Seq(S), q # <<>>, NEW own \in Seq(S),
         NEW mine \in SUBSET (1 .. Len(q)), Lists(own, q, mine), 1 \notin mine
  PROVE  Lists(own, Tail(q), {p \in 1 .. Len(Tail(q)) : p + 1 \in mine})
<1> DEFINE mine2 == {p \in 1 .. Len(Tail(q)) : p + 1 \in mine}
<1>1. /\ Len(q) \in Nat \ {0} /\ Len(Tail(q)) = Len(q) - 1 /\ Len(own) \in Nat
      /\ \A i \in 1 .. Len(q) - 1 : Tail(q)[i] = q[i + 1]
  BY HeadTailProperties, LenProperties, EmptySeq
<1>2. PICK at \in [1 .. Len(own) -> mine] :
        /\ \A i, j \in 1 .. Len(own) : i < j => at[i] < at[j]
        /\ \A p \in mine : \E i \in 1 .. Len(own) : at[i] = p
        /\ \A i \in 1 .. Len(own) : own[i] = q[at[i]]
  BY DEF Lists
<1> DEFINE at2 == [i \in 1 .. Len(own) |-> at[i] - 1]
<1>3. ASSUME NEW i \in 1 .. Len(own)
      PROVE  /\ at[i] \in 1 .. Len(q) /\ at[i] \in mine
             /\ at[i] - 1 \in 1 .. Len(q) - 1 /\ (at[i] - 1) + 1 = at[i]
             /\ at[i] - 1 \in mine2
  <2>1. at[i] \in mine /\ at[i] \in 1 .. Len(q) /\ at[i] # 1
    BY <1>2
  <2>2. at[i] - 1 \in 1 .. Len(q) - 1 /\ (at[i] - 1) + 1 = at[i]
    BY <1>1, <2>1
  <2> QED
    BY <1>1, <2>1, <2>2
<1>4. at2 \in [1 .. Len(own) -> mine2]
  BY <1>3
<1>5. ASSUME NEW i \in 1 .. Len(own), NEW j \in 1 .. Len(own), i < j
      PROVE  at2[i] < at2[j]
  BY <1>2, <1>3, <1>5
<1>6. ASSUME NEW p \in mine2 PROVE \E i \in 1 .. Len(own) : at2[i] = p
  <2>1. PICK i \in 1 .. Len(own) : at[i] = p + 1
    BY <1>2
  <2> QED
    BY <1>3, <2>1
<1>7. ASSUME NEW i \in 1 .. Len(own) PROVE own[i] = Tail(q)[at2[i]]
  BY <1>1, <1>2, <1>3
<1> HIDE DEF at2
<1>8. Lists(own, Tail(q), mine2)
  BY <1>4, <1>5, <1>6, <1>7 DEF Lists
<1> QED
  BY <1>8 DEF mine2

\* The front of the deque is popped and is the front of its key's.
LEMMA ListsOfOwnTail ==
  ASSUME NEW S, NEW q \in Seq(S), q # <<>>, NEW own \in Seq(S),
         NEW mine \in SUBSET (1 .. Len(q)), Lists(own, q, mine), 1 \in mine
  PROVE  /\ own # <<>> /\ own[1] = q[1]
         /\ Lists(Tail(own), Tail(q), {p \in 1 .. Len(Tail(q)) : p + 1 \in mine})
<1> DEFINE mine2 == {p \in 1 .. Len(Tail(q)) : p + 1 \in mine}
<1>1. /\ Len(q) \in Nat \ {0} /\ Len(Tail(q)) = Len(q) - 1 /\ Len(own) \in Nat
      /\ \A i \in 1 .. Len(q) - 1 : Tail(q)[i] = q[i + 1]
  BY HeadTailProperties, LenProperties, EmptySeq
<1>2. PICK at \in [1 .. Len(own) -> mine] :
        /\ \A i, j \in 1 .. Len(own) : i < j => at[i] < at[j]
        /\ \A p \in mine : \E i \in 1 .. Len(own) : at[i] = p
        /\ \A i \in 1 .. Len(own) : own[i] = q[at[i]]
  BY DEF Lists
<1>3. 1 \in 1 .. Len(own) /\ at[1] = 1
  <2>1. PICK i \in 1 .. Len(own) : at[i] = 1
    BY <1>2
  <2>2. 1 \in 1 .. Len(own) /\ at[1] \in 1 .. Len(q)
    <3>1. 1 \in 1 .. Len(own)
      BY <1>1, <2>1
    <3>2. at[1] \in mine
      BY <1>2, <3>1
    <3> QED
      BY <3>1, <3>2
  <2>3. i = 1
    <3> SUFFICES ASSUME i # 1 PROVE FALSE
      OBVIOUS
    <3>1. 1 < i
      BY <1>1, <2>1
    <3>2. at[1] < at[i]
      BY <1>2, <2>2, <3>1
    <3> QED
      BY <2>1, <2>2, <3>2
  <2> QED
    BY <2>1, <2>2, <2>3
<1>4. own # <<>>
  BY <1>1, <1>3, EmptySeq
<1>5. /\ Len(Tail(own)) = Len(own) - 1
      /\ \A i \in 1 .. Len(own) - 1 : Tail(own)[i] = own[i + 1]
  BY <1>4, HeadTailProperties
<1> DEFINE at2 == [i \in 1 .. Len(own) - 1 |-> at[i + 1] - 1]
<1>6. ASSUME NEW i \in 1 .. Len(own) - 1
      PROVE  /\ i + 1 \in 1 .. Len(own) /\ at[i + 1] \in 1 .. Len(q) /\ at[i + 1] \in mine
             /\ at[i + 1] - 1 \in 1 .. Len(q) - 1 /\ (at[i + 1] - 1) + 1 = at[i + 1]
             /\ at[i + 1] - 1 \in mine2
  <2>1. i + 1 \in 1 .. Len(own) /\ 1 < i + 1
    BY <1>1
  <2>2. at[i + 1] \in mine /\ at[i + 1] \in 1 .. Len(q) /\ at[1] < at[i + 1]
    BY <1>2, <1>3, <2>1
  <2>3. at[i + 1] - 1 \in 1 .. Len(q) - 1 /\ (at[i + 1] - 1) + 1 = at[i + 1]
    BY <1>1, <1>3, <2>2
  <2> QED
    BY <1>1, <2>1, <2>2, <2>3
<1>7. at2 \in [1 .. Len(own) - 1 -> mine2]
  BY <1>6
<1>8. ASSUME NEW i \in 1 .. Len(own) - 1, NEW j \in 1 .. Len(own) - 1, i < j
      PROVE  at2[i] < at2[j]
  <2>1. i + 1 < j + 1
    BY <1>1, <1>8
  <2>2. at[i + 1] < at[j + 1]
    BY <1>2, <1>6, <2>1
  <2> QED
    BY <1>6, <2>2
<1>9. ASSUME NEW p \in mine2 PROVE \E i \in 1 .. Len(own) - 1 : at2[i] = p
  <2>1. PICK i \in 1 .. Len(own) : at[i] = p + 1
    BY <1>2
  <2>2. i # 1
    BY <1>3, <2>1
  <2>3. i - 1 \in 1 .. Len(own) - 1 /\ (i - 1) + 1 = i
    BY <1>1, <2>2
  <2>4. at2[i - 1] = at[i] - 1
    BY <2>3
  <2>5. at2[i - 1] = p
    BY <1>1, <2>1, <2>4
  <2> QED
    BY <2>3, <2>5
<1>10. ASSUME NEW i \in 1 .. Len(own) - 1 PROVE Tail(own)[i] = Tail(q)[at2[i]]
  BY <1>1, <1>2, <1>5, <1>6
<1> HIDE DEF at2, mine2
<1>11. Lists(Tail(own), Tail(q), mine2)
  <2>1. 1 .. Len(Tail(own)) = 1 .. Len(own) - 1
    BY <1>5
  <2>2. at2 \in [1 .. Len(Tail(own)) -> mine2]
    BY <1>7, <2>1
  <2>3. \A i, j \in 1 .. Len(Tail(own)) : i < j => at2[i] < at2[j]
    BY <1>8, <2>1
  <2>4. \A p \in mine2 : \E i \in 1 .. Len(Tail(own)) : at2[i] = p
    BY <1>9, <2>1
  <2>5. \A i \in 1 .. Len(Tail(own)) : Tail(own)[i] = Tail(q)[at2[i]]
    BY <1>10, <2>1
  <2> QED
    BY <2>2, <2>3, <2>4, <2>5 DEF Lists
<1>12. own[1] = q[1]
  BY <1>2, <1>3
<1> QED
  BY <1>4, <1>11, <1>12 DEF mine2

\* An entry of another key is appended to the deque.
LEMMA ListsOfAppend ==
  ASSUME NEW S, NEW q \in Seq(S), NEW e \in S, NEW own \in Seq(S),
         NEW mine \in SUBSET (1 .. Len(q)), Lists(own, q, mine)
  PROVE  Lists(own, Append(q, e), mine)
<1>1. PICK at \in [1 .. Len(own) -> mine] :
        /\ \A i, j \in 1 .. Len(own) : i < j => at[i] < at[j]
        /\ \A p \in mine : \E i \in 1 .. Len(own) : at[i] = p
        /\ \A i \in 1 .. Len(own) : own[i] = q[at[i]]
  BY DEF Lists
<1>2. \A i \in 1 .. Len(own) : own[i] = Append(q, e)[at[i]]
  <2>1. \A i \in 1 .. Len(own) : at[i] \in 1 .. Len(q)
    BY <1>1
  <2>2. \A i \in 1 .. Len(q) : Append(q, e)[i] = q[i]
    BY AppendProperties
  <2> QED
    BY <1>1, <2>1, <2>2
<1> QED
  BY <1>1, <1>2 DEF Lists

\* An entry of the key is appended to the deque and to the key's.
LEMMA ListsOfOwnAppend ==
  ASSUME NEW S, NEW q \in Seq(S), NEW e \in S, NEW own \in Seq(S),
         NEW mine \in SUBSET (1 .. Len(q)), Lists(own, q, mine)
  PROVE  Lists(Append(own, e), Append(q, e), mine \cup {Len(q) + 1})
<1> DEFINE own2  == Append(own, e)
           q2    == Append(q, e)
           mine2 == mine \cup {Len(q) + 1}
<1>1. PICK at \in [1 .. Len(own) -> mine] :
        /\ \A i, j \in 1 .. Len(own) : i < j => at[i] < at[j]
        /\ \A p \in mine : \E i \in 1 .. Len(own) : at[i] = p
        /\ \A i \in 1 .. Len(own) : own[i] = q[at[i]]
  BY DEF Lists
<1>2. /\ Len(own) \in Nat /\ Len(own2) = Len(own) + 1 /\ own2[Len(own) + 1] = e
      /\ \A i \in 1 .. Len(own) : own2[i] = own[i]
      /\ Len(q) \in Nat /\ q2[Len(q) + 1] = e
      /\ \A i \in 1 .. Len(q) : q2[i] = q[i]
  BY AppendProperties, LenProperties
<1>3. /\ \A i \in 1 .. Len(own2) : i \in 1 .. Len(own) \/ i = Len(own) + 1
      /\ \A i \in 1 .. Len(own) : i \in 1 .. Len(own2)
      /\ Len(own) + 1 \in 1 .. Len(own2)
      /\ ~(Len(own) + 1 \in 1 .. Len(own))
  BY <1>2
<1>4. \A i \in 1 .. Len(own) : at[i] \in mine /\ at[i] \in 1 .. Len(q)
  BY <1>1
<1> HIDE DEF own2, q2
<1> DEFINE at2 == [i \in 1 .. Len(own2) |-> IF i \in 1 .. Len(own) THEN at[i] ELSE Len(q) + 1]
<1>5. at2 \in [1 .. Len(own2) -> mine2]
  BY <1>3, <1>4
<1>6. ASSUME NEW i \in 1 .. Len(own2), NEW j \in 1 .. Len(own2), i < j
      PROVE  at2[i] < at2[j]
  <2>1. i \in 1 .. Len(own)
    BY <1>2, <1>6
  <2>2. CASE j \in 1 .. Len(own)
    BY <1>1, <1>6, <2>1, <2>2
  <2>3. CASE j \notin 1 .. Len(own)
    <3>1. at2[i] = at[i] /\ at2[j] = Len(q) + 1
      BY <2>1, <2>3
    <3> QED
      BY <1>2, <1>4, <2>1, <3>1
  <2> QED
    BY <2>2, <2>3
<1>7. ASSUME NEW p \in mine2 PROVE \E i \in 1 .. Len(own2) : at2[i] = p
  <2>1. CASE p \in mine
    <3>1. PICK i \in 1 .. Len(own) : at[i] = p
      BY <1>1, <2>1
    <3> QED
      BY <1>3, <3>1
  <2>2. CASE p = Len(q) + 1
    BY <1>3, <2>2
  <2> QED
    BY <2>1, <2>2
<1>8. ASSUME NEW i \in 1 .. Len(own2) PROVE own2[i] = q2[at2[i]]
  <2>1. CASE i \in 1 .. Len(own)
    BY <1>1, <1>2, <1>4, <2>1
  <2>2. CASE i = Len(own) + 1
    BY <1>2, <1>3, <2>2
  <2> QED
    BY <1>3, <2>1, <2>2
<1> HIDE DEF at2, mine2
<1>9. Lists(own2, q2, mine2)
  BY <1>5, <1>6, <1>7, <1>8 DEF Lists
<1> QED
  BY <1>9 DEF own2, q2, mine2

\* The first entry of a key has its deque to itself.
LEMMA ListsOfNone ==
  ASSUME NEW S, NEW q \in Seq(S)
  PROVE  Lists(<<>>, q, {})
<1>1. Len(<<>>) = 0 /\ 1 .. 0 = {}
  BY EmptySeq
<1>2. [i \in {} |-> i] \in [{} -> {}]
  OBVIOUS
<1> QED
  BY <1>1, <1>2 DEF Lists

LEMMA ListsEmpty ==
  ASSUME NEW S, NEW own \in Seq(S), NEW q, NEW mine, Lists(own, q, mine)
  PROVE  own = <<>> <=> mine = {}
<1>1. PICK at \in [1 .. Len(own) -> mine] :
        \A p \in mine : \E i \in 1 .. Len(own) : at[i] = p
  BY DEF Lists
<1>2. Len(own) \in Nat /\ (own = <<>> <=> Len(own) = 0)
  BY LenProperties, EmptySeq
<1>3. CASE own = <<>>
  <2>1. 1 .. Len(own) = {}
    BY <1>2, <1>3
  <2> QED
    BY <1>1, <1>3, <2>1
<1>4. CASE own # <<>>
  <2>1. 1 \in 1 .. Len(own)
    BY <1>2, <1>4
  <2>2. at[1] \in mine
    BY <1>1, <2>1
  <2> QED
    BY <1>4, <2>2
<1> QED
  BY <1>3, <1>4

\* The positions of a value, and how many there are.
PositionsOf(q, f, v) == {i \in 1 .. Len(q) : f[q[i]] = v}

LEMMA PositionsFinite ==
  ASSUME NEW S, NEW q \in Seq(S), NEW f, NEW v
  PROVE  /\ IsFiniteSet(PositionsOf(q, f, v))
         /\ Cardinality(PositionsOf(q, f, v)) \in Nat
         /\ Cardinality(PositionsOf(q, f, v)) <= Len(q)
         /\ Cardinality(PositionsOf(q, f, v)) = 0 <=> PositionsOf(q, f, v) = {}
<1>1. Len(q) \in Nat
  BY LenProperties
<1>2. IsFiniteSet(1 .. Len(q)) /\ Cardinality(1 .. Len(q)) = Len(q)
  <2>1. /\ IsFiniteSet(1 .. Len(q))
        /\ Cardinality(1 .. Len(q)) = IF 1 > Len(q) THEN 0 ELSE Len(q) - 1 + 1
    BY <1>1, FS_Interval
  <2> QED
    BY <1>1, <2>1
<1>3. PositionsOf(q, f, v) \in SUBSET (1 .. Len(q))
  BY DEF PositionsOf
<1>4. /\ IsFiniteSet(PositionsOf(q, f, v))
      /\ Cardinality(PositionsOf(q, f, v)) <= Cardinality(1 .. Len(q))
  BY <1>2, <1>3, FS_Subset
<1> QED
  BY <1>2, <1>4, FS_CardinalityType, FS_EmptySet

\* An entry that is appended counts for its own value alone.
LEMMA PositionsOfAppend ==
  ASSUME NEW S, NEW q \in Seq(S), NEW e \in S, NEW f, NEW v
  PROVE  Cardinality(PositionsOf(Append(q, e), f, v))
           = Cardinality(PositionsOf(q, f, v)) + (IF f[e] = v THEN 1 ELSE 0)
<1> DEFINE q2 == Append(q, e)
<1>1. /\ Len(q) \in Nat /\ Len(q2) = Len(q) + 1 /\ q2[Len(q) + 1] = e
      /\ \A i \in 1 .. Len(q) : q2[i] = q[i]
  BY AppendProperties, LenProperties
<1> HIDE DEF q2
<1>2. /\ \A i \in 1 .. Len(q2) : i \in 1 .. Len(q) \/ i = Len(q) + 1
      /\ \A i \in 1 .. Len(q) : i \in 1 .. Len(q2)
      /\ Len(q) + 1 \in 1 .. Len(q2)
      /\ ~(Len(q) + 1 \in 1 .. Len(q))
  BY <1>1
<1>3. CASE f[e] = v
  <2>1. PositionsOf(q2, f, v) = PositionsOf(q, f, v) \cup {Len(q) + 1}
    BY <1>1, <1>2, <1>3 DEF PositionsOf
  <2>2. Len(q) + 1 \notin PositionsOf(q, f, v)
    BY <1>2 DEF PositionsOf
  <2>3. Cardinality(PositionsOf(q2, f, v)) = Cardinality(PositionsOf(q, f, v)) + 1
    BY <2>1, <2>2, PositionsFinite, FS_AddElement
  <2> QED
    BY <1>3, <2>3 DEF q2
<1>4. CASE f[e] # v
  <2>1. PositionsOf(q2, f, v) = PositionsOf(q, f, v)
    BY <1>1, <1>2, <1>4 DEF PositionsOf
  <2>2. Cardinality(PositionsOf(q, f, v)) \in Nat
    BY PositionsFinite
  <2> QED
    BY <1>4, <2>1, <2>2 DEF q2
<1> QED
  BY <1>3, <1>4

LEMMA TallyIs ==
  ASSUME NEW S, NEW q \in Seq(S), NEW f
  PROVE  /\ Tally(q, f) = [v \in DOMAIN Tally(q, f) |-> Cardinality(PositionsOf(q, f, v))]
         /\ \A v : v \in DOMAIN Tally(q, f) <=> PositionsOf(q, f, v) # {}
         /\ \A v : v \in DOMAIN Tally(q, f) <=> \E i \in 1 .. Len(q) : f[q[i]] = v
BY DEF Tally, PositionsOf

\* Counting one more.
LEMMA TallyOfAppend ==
  ASSUME NEW S, NEW q \in Seq(S), NEW e \in S, NEW f
  PROVE  Tally(Append(q, e), f) = Bag!BagAdd(Tally(q, f), f[e])
<1> DEFINE q2 == Append(q, e)
<1>1. /\ q2 \in Seq(S) /\ Len(q) \in Nat /\ Len(q2) = Len(q) + 1 /\ q2[Len(q) + 1] = e
      /\ \A i \in 1 .. Len(q) : q2[i] = q[i]
  BY AppendProperties, LenProperties
<1> HIDE DEF q2
<1>2. /\ \A i \in 1 .. Len(q2) : i \in 1 .. Len(q) \/ i = Len(q) + 1
      /\ \A i \in 1 .. Len(q) : i \in 1 .. Len(q2)
      /\ Len(q) + 1 \in 1 .. Len(q2)
      /\ ~(Len(q) + 1 \in 1 .. Len(q))
  BY <1>1
<1>3. \A v : v # f[e] => PositionsOf(q2, f, v) = PositionsOf(q, f, v)
  BY <1>1, <1>2 DEF PositionsOf
<1>4. PositionsOf(q2, f, f[e]) = PositionsOf(q, f, f[e]) \cup {Len(q) + 1}
  BY <1>1, <1>2 DEF PositionsOf
<1>5. Len(q) + 1 \notin PositionsOf(q, f, f[e])
  BY <1>2 DEF PositionsOf
<1>6. Cardinality(PositionsOf(q2, f, f[e])) = Cardinality(PositionsOf(q, f, f[e])) + 1
  BY <1>4, <1>5, PositionsFinite, FS_AddElement
<1>7. \A v : v \in DOMAIN Tally(q2, f) <=> v \in DOMAIN Tally(q, f) \/ v = f[e]
  BY <1>1, <1>3, <1>4, TallyIs
<1>8. Tally(q2, f) = [v \in DOMAIN Tally(q, f) \cup {f[e]} |-> Cardinality(PositionsOf(q2, f, v))]
  <2>1. DOMAIN Tally(q2, f) = DOMAIN Tally(q, f) \cup {f[e]}
    BY <1>7
  <2>2. Tally(q2, f) = [v \in DOMAIN Tally(q2, f) |-> Cardinality(PositionsOf(q2, f, v))]
    BY <1>1, TallyIs
  <2> QED
    BY <2>1, <2>2
<1>9. \A v \in DOMAIN Tally(q, f) : Tally(q, f)[v] = Cardinality(PositionsOf(q, f, v))
  BY TallyIs
<1>10. CASE f[e] \in DOMAIN Tally(q, f)
  <2>1. DOMAIN Tally(q, f) \cup {f[e]} = DOMAIN Tally(q, f)
    BY <1>10
  <2>2. Tally(q2, f) = [v \in DOMAIN Tally(q, f) |->
                          IF v = f[e] THEN Tally(q, f)[v] + 1 ELSE Tally(q, f)[v]]
    BY <1>3, <1>6, <1>8, <1>9, <2>1
  <2> QED
    BY <1>10, <2>2 DEF Bag!BagAdd, q2
<1>11. CASE f[e] \notin DOMAIN Tally(q, f)
  <2>1. Cardinality(PositionsOf(q, f, f[e])) = 0
    BY <1>11, TallyIs, PositionsFinite
  <2>2. Tally(q2, f) = [v \in DOMAIN Tally(q, f) \cup {f[e]} |->
                          IF v = f[e] THEN 1 ELSE Tally(q, f)[v]]
    BY <1>3, <1>6, <1>8, <1>9, <2>1
  <2> QED
    BY <1>11, <2>2 DEF Bag!BagAdd, q2
<1> QED
  BY <1>10, <1>11

\* Taking back what was just counted.
LEMMA TallyUndo ==
  ASSUME NEW S, NEW q \in Seq(S), NEW f, NEW x
  PROVE  Bag!BagRemove(Bag!BagAdd(Tally(q, f), x), x) = Tally(q, f)
<1> DEFINE B  == Tally(q, f)
           B2 == Bag!BagAdd(B, x)
<1>1. B = [v \in DOMAIN B |-> B[v]] /\ \A v \in DOMAIN B : B[v] \in Nat /\ B[v] # 0
  BY TallyIs, PositionsFinite
<1> HIDE DEF B
<1>2. CASE x \in DOMAIN B
  <2>1. B2 = [v \in DOMAIN B |-> IF v = x THEN B[v] + 1 ELSE B[v]]
    BY <1>2 DEF Bag!BagAdd
  <2>2. DOMAIN B2 = DOMAIN B /\ B2[x] = B[x] + 1 /\ B2[x] # 1
    BY <1>1, <1>2, <2>1
  <2>3. Bag!BagRemove(B2, x) = [v \in DOMAIN B |-> IF v = x THEN B2[v] - 1 ELSE B2[v]]
    BY <1>2, <2>2 DEF Bag!BagRemove
  <2>4. \A v \in DOMAIN B : (IF v = x THEN B2[v] - 1 ELSE B2[v]) = B[v]
    BY <1>1, <2>1
  <2> QED
    BY <1>1, <2>3, <2>4 DEF B
<1>3. CASE x \notin DOMAIN B
  <2>1. B2 = [v \in DOMAIN B \cup {x} |-> IF v = x THEN 1 ELSE B[v]]
    BY <1>3 DEF Bag!BagAdd
  <2>2. DOMAIN B2 = DOMAIN B \cup {x} /\ B2[x] = 1
    BY <2>1
  <2>3. Bag!BagRemove(B2, x) = [v \in DOMAIN B2 \ {x} |-> B2[v]]
    BY <2>2 DEF Bag!BagRemove
  <2>4. DOMAIN B2 \ {x} = DOMAIN B /\ \A v \in DOMAIN B : B2[v] = B[v]
    BY <1>3, <2>1, <2>2
  <2> QED
    BY <1>1, <2>3, <2>4 DEF B
<1> QED
  BY <1>2, <1>3

\* Counting one less at the front.
LEMMA TallyOfTail ==
  ASSUME NEW S, NEW q \in Seq(S), q # <<>>, NEW f
  PROVE  Tally(Tail(q), f) = Bag!BagRemove(Tally(q, f), f[q[1]])
<1> DEFINE q2 == Tail(q)
           x  == f[q[1]]
           B  == Tally(q, f)
<1>1. /\ q2 \in Seq(S) /\ Len(q) \in Nat \ {0} /\ Len(q2) = Len(q) - 1
      /\ \A i \in 1 .. Len(q2) : q2[i] = q[i + 1]
  BY HeadTailProperties, LenProperties, EmptySeq
<1> HIDE DEF q2, x, B
<1>2. ASSUME NEW v
      PROVE  Cardinality(PositionsOf(q2, f, v)) = Cardinality(PositionsOf(q, f, v) \ {1})
  <2> DEFINE T == PositionsOf(q2, f, v)
             U == PositionsOf(q, f, v) \ {1}
             g == [i \in T |-> i + 1]
  <2>1. \A i \in T : i \in 1 .. Len(q2) /\ f[q2[i]] = v
    BY DEF PositionsOf
  <2>2. \A j \in U : j \in 1 .. Len(q) /\ j # 1 /\ f[q[j]] = v
    BY DEF PositionsOf
  <2>3. g \in [T -> U]
    <3>1. ASSUME NEW i \in T PROVE i + 1 \in U
      <4>1. i + 1 \in 1 .. Len(q) /\ i + 1 # 1 /\ f[q[i + 1]] = v
        BY <1>1, <2>1
      <4> QED
        BY <4>1 DEF PositionsOf
    <3> QED
      BY <3>1
  <2>4. \A i, j \in T : g[i] = g[j] => i = j
    BY <2>1
  <2>5. ASSUME NEW j \in U PROVE \E i \in T : g[i] = j
    <3>1. j - 1 \in 1 .. Len(q2) /\ (j - 1) + 1 = j
      BY <1>1, <2>2
    <3>2. j - 1 \in T
      BY <1>1, <2>2, <3>1 DEF PositionsOf
    <3> QED
      BY <3>1, <3>2
  <2> HIDE DEF g, T, U
  <2>6. g \in Bijection(T, U)
    BY <2>3, <2>4, <2>5 DEF Bijection, Injection, Surjection, IsInjective
  <2>7. IsFiniteSet(T)
    BY <1>1, PositionsFinite DEF T
  <2>8. Cardinality(T) = Cardinality(U)
    BY <2>6, <2>7, FS_Bijection DEF ExistsBijection
  <2> QED
    BY <2>8 DEF T, U
<1>3. 1 \in PositionsOf(q, f, x)
  BY <1>1 DEF PositionsOf, x
<1>4. Cardinality(PositionsOf(q2, f, x)) = Cardinality(PositionsOf(q, f, x)) - 1
  BY <1>2, <1>3, PositionsFinite, FS_RemoveElement
<1>5. ASSUME NEW v, v # x
      PROVE  Cardinality(PositionsOf(q2, f, v)) = Cardinality(PositionsOf(q, f, v))
  <2>1. PositionsOf(q, f, v) \ {1} = PositionsOf(q, f, v)
    BY <1>5 DEF PositionsOf, x
  <2> QED
    BY <1>2, <2>1
<1>6. /\ Tally(q2, f) = [v \in DOMAIN Tally(q2, f) |-> Cardinality(PositionsOf(q2, f, v))]
      /\ \A v : v \in DOMAIN Tally(q2, f) <=> Cardinality(PositionsOf(q2, f, v)) # 0
  BY <1>1, TallyIs, PositionsFinite
<1>7. /\ B = [v \in DOMAIN B |-> Cardinality(PositionsOf(q, f, v))]
      /\ \A v : v \in DOMAIN B <=> Cardinality(PositionsOf(q, f, v)) # 0
      /\ x \in DOMAIN B
      /\ \A v : Cardinality(PositionsOf(q, f, v)) \in Nat
  BY <1>3, TallyIs, PositionsFinite DEF B
<1>8. CASE B[x] = 1
  <2>1. DOMAIN Tally(q2, f) = DOMAIN B \ {x}
    <3>1. Cardinality(PositionsOf(q, f, x)) = 1
      BY <1>7, <1>8
    <3>2. \A v : v \in DOMAIN Tally(q2, f) <=> v \in DOMAIN B /\ v # x
      BY <1>4, <1>5, <1>6, <1>7, <3>1
    <3> QED
      BY <3>2
  <2>2. Tally(q2, f) = [v \in DOMAIN B \ {x} |-> B[v]]
    BY <1>5, <1>6, <1>7, <2>1
  <2> QED
    BY <1>7, <1>8, <2>2 DEF Bag!BagRemove, q2, x, B
<1>9. CASE B[x] # 1
  <2>1. Cardinality(PositionsOf(q, f, x)) # 1
    BY <1>7, <1>9
  <2>2. DOMAIN Tally(q2, f) = DOMAIN B
    BY <1>4, <1>5, <1>6, <1>7, <2>1
  <2>3. Tally(q2, f) = [v \in DOMAIN B |-> IF v = x THEN B[v] - 1 ELSE B[v]]
    BY <1>4, <1>5, <1>6, <1>7, <2>2
  <2> QED
    BY <1>7, <1>9, <2>3 DEF Bag!BagRemove, q2, x, B
<1> QED
  BY <1>8, <1>9

\* A counter has no more keys than the queue has entries.
LEMMA TallySize ==
  ASSUME NEW S, NEW q \in Seq(S), NEW f
  PROVE  /\ IsFiniteSet(DOMAIN Tally(q, f))
         /\ Cardinality(DOMAIN Tally(q, f)) \in Nat
         /\ Cardinality(DOMAIN Tally(q, f)) <= Len(q)
<1> DEFINE D == DOMAIN Tally(q, f)
           g == [i \in 1 .. Len(q) |-> f[q[i]]]
<1>1. Len(q) \in Nat
  BY LenProperties
<1>2. IsFiniteSet(1 .. Len(q)) /\ Cardinality(1 .. Len(q)) = Len(q)
  <2>1. /\ IsFiniteSet(1 .. Len(q))
        /\ Cardinality(1 .. Len(q)) = IF 1 > Len(q) THEN 0 ELSE Len(q) - 1 + 1
    BY <1>1, FS_Interval
  <2> QED
    BY <1>1, <2>1
<1>3. g \in Surjection(1 .. Len(q), D)
  <2>1. g \in [1 .. Len(q) -> D] /\ \A v \in D : \E i \in 1 .. Len(q) : g[i] = v
    BY TallyIs
  <2> HIDE DEF D, g
  <2> QED
    BY <2>1 DEF Surjection
<1> HIDE DEF D, g
<1>4. IsFiniteSet(D) /\ Cardinality(D) <= Cardinality(1 .. Len(q))
  BY <1>2, <1>3, FS_Surjection
<1> QED
  BY <1>2, <1>4, FS_CardinalityType DEF D

\* A counter of a coarser field has no more keys.
LEMMA TallyCoarser ==
  ASSUME NEW S, NEW q \in Seq(S), NEW f, NEW h,
         \A a, b \in S : h[a] = h[b] => f[a] = f[b]
  PROVE  Cardinality(DOMAIN Tally(q, f)) <= Cardinality(DOMAIN Tally(q, h))
<1> DEFINE D == DOMAIN Tally(q, f)
           E == DOMAIN Tally(q, h)
           g == [x \in E |-> f[q[CHOOSE i \in 1 .. Len(q) : h[q[i]] = x]]]
<1>1. \A i \in 1 .. Len(q) : q[i] \in S
  BY ElementOfSeq
<1>2. ASSUME NEW x \in E
      PROVE  \E i \in 1 .. Len(q) : h[q[i]] = x /\ g[x] = f[q[i]]
  <2>1. \E i \in 1 .. Len(q) : h[q[i]] = x
    BY TallyIs
  <2> QED
    BY <2>1
<1>3. \A v \in D : \E i \in 1 .. Len(q) : f[q[i]] = v
  BY TallyIs
<1>4. \A i \in 1 .. Len(q) : f[q[i]] \in D /\ h[q[i]] \in E
  BY TallyIs
<1>5. g \in [E -> D]
  BY <1>2, <1>4
<1> HIDE DEF g, D, E
<1>6. ASSUME NEW v \in D PROVE \E x \in E : g[x] = v
  <2>1. PICK i \in 1 .. Len(q) : f[q[i]] = v
    BY <1>3
  <2>2. PICK j \in 1 .. Len(q) : h[q[j]] = h[q[i]] /\ g[h[q[i]]] = f[q[j]]
    BY <1>2, <1>4
  <2>3. f[q[j]] = f[q[i]]
    BY <1>1, <2>2
  <2> QED
    BY <1>4, <2>1, <2>2, <2>3
<1>7. g \in Surjection(E, D)
  BY <1>5, <1>6 DEF Surjection
<1>8. IsFiniteSet(E)
  BY TallySize DEF E
<1> QED
  BY <1>7, <1>8, FS_Surjection DEF D, E

-----------------------------------------------------------------------------
(* A deque as a set.                                                         *)

LEMMA SetOf ==
  ASSUME NEW S, NEW q \in Seq(S)
  PROVE  /\ \A x : x \in ToSet(q) <=> \E i \in 1 .. Len(q) : x = q[i]
         /\ ToSet(q) \subseteq S
<1>1. DOMAIN q = 1 .. Len(q) /\ \A i \in 1 .. Len(q) : q[i] \in S
  BY LenProperties, ElementOfSeq
<1> QED
  BY <1>1 DEF ToSet

\* On a sorted queue the expiry is a filter by age.
LEMMA SetOfUnexpired ==
  ASSUME NEW S, NEW q \in Seq(S), \A x \in S : x.ts \in Int, NEW cutoff \in Int,
         TimeSorted(q)
  PROVE  ToSet(Unexpired(q, cutoff)) = {x \in ToSet(q) : x.ts >= cutoff}
<1> DEFINE r == Unexpired(q, cutoff)
<1>1. r \in Seq(S)
  BY UnexpiredIsSuffix
<1>2. /\ \A i \in 1 .. Len(r) : r[i].ts >= cutoff
      /\ \A i \in 1 .. Len(q) : q[i].ts >= cutoff => \E j \in 1 .. Len(r) : r[j] = q[i]
  BY UnexpiredOfSorted
<1>3. \A i \in 1 .. Len(r) : \E k \in 1 .. Len(q) : r[i] = q[k]
  BY UnexpiredShift
<1> HIDE DEF r
<1>4. ASSUME NEW x PROVE x \in ToSet(r) <=> x \in ToSet(q) /\ x.ts >= cutoff
  <2>1. x \in ToSet(r) <=> \E i \in 1 .. Len(r) : x = r[i]
    BY <1>1, SetOf
  <2>2. x \in ToSet(q) <=> \E i \in 1 .. Len(q) : x = q[i]
    BY SetOf
  <2> QED
    BY <1>2, <1>3, <2>1, <2>2
<1>5. ToSet(r) = {x \in ToSet(q) : x.ts >= cutoff}
  BY <1>4
<1> QED
  BY <1>5 DEF r

LEMMA SetOfAppend ==
  ASSUME NEW S, NEW q \in Seq(S), NEW e \in S
  PROVE  ToSet(Append(q, e)) = ToSet(q) \cup {e}
<1> DEFINE r == Append(q, e)
<1>1. /\ r \in Seq(S) /\ Len(r) = Len(q) + 1 /\ r[Len(q) + 1] = e /\ Len(q) \in Nat
      /\ \A i \in 1 .. Len(q) : r[i] = q[i]
  BY AppendProperties, LenProperties
<1> HIDE DEF r
<1>2. \A i \in 1 .. Len(r) : i \in 1 .. Len(q) \/ i = Len(q) + 1
  BY <1>1
<1>3. /\ Len(q) + 1 \in 1 .. Len(r)
      /\ \A i \in 1 .. Len(q) : i \in 1 .. Len(r)
  BY <1>1
<1>4. ASSUME NEW x PROVE x \in ToSet(r) <=> x \in ToSet(q) \/ x = e
  BY <1>1, <1>2, <1>3, SetOf
<1>5. ToSet(r) = ToSet(q) \cup {e}
  BY <1>4
<1> QED
  BY <1>5 DEF r

\* The number of values of an injective function of the positions of a queue.
LEMMA CountOfDistinct ==
  ASSUME NEW n \in Nat, NEW f, \A i, j \in 1 .. n : f[i] = f[j] => i = j,
         NEW V, \A x : x \in V <=> \E i \in 1 .. n : x = f[i]
  PROVE  IsFiniteSet(V) /\ Cardinality(V) = n
<1> DEFINE g == [i \in 1 .. n |-> f[i]]
<1>1. g \in Bijection(1 .. n, V)
  BY DEF Bijection, Injection, Surjection, IsInjective
<1>2. ExistsBijection(1 .. n, V)
  BY <1>1 DEF ExistsBijection
<1>3. IsFiniteSet(1 .. n) /\ Cardinality(1 .. n) = n
  BY FS_Interval
<1> QED
  BY <1>2, <1>3, FS_Bijection

LEMMA SizeOfSet ==
  ASSUME NEW S, NEW q \in Seq(S), DistinctUids(q)
  PROVE  IsFiniteSet(ToSet(q)) /\ Cardinality(ToSet(q)) = Len(q)
<1>1. Len(q) \in Nat /\ DOMAIN q = 1 .. Len(q)
  BY LenProperties
<1>2. \A i, j \in 1 .. Len(q) : q[i] = q[j] => i = j
  BY DEF DistinctUids
<1> QED
  BY <1>1, <1>2, SetOf, CountOfDistinct

LEMMA SizeOfKeys ==
  ASSUME NEW S, NEW q \in Seq(S), DistinctKeys(q)
  PROVE  IsFiniteSet(KeysOf(q)) /\ Cardinality(KeysOf(q)) = Len(q)
<1> DEFINE f == [i \in 1 .. Len(q) |-> q[i].key]
<1>1. Len(q) \in Nat /\ DOMAIN q = 1 .. Len(q)
  BY LenProperties
<1>2. \A i, j \in 1 .. Len(q) : f[i] = f[j] => i = j
  BY DEF DistinctKeys
<1>3. \A x : x \in KeysOf(q) <=> \E i \in 1 .. Len(q) : x = f[i]
  BY <1>1 DEF KeysOf
<1> HIDE DEF f
<1> QED
  BY <1>1, <1>2, <1>3, CountOfDistinct

-----------------------------------------------------------------------------
(* An ordered dictionary as a function.                                      *)

LEMMA FunctionOf ==
  ASSUME NEW S, NEW q \in Seq(S), DistinctKeys(q)
  PROVE  /\ AsFunction(q) = [k \in KeysOf(q) |-> AsFunction(q)[k]]
         /\ DOMAIN AsFunction(q) = KeysOf(q)
         /\ \A k : k \in KeysOf(q) <=> \E i \in 1 .. Len(q) : q[i].key = k
         /\ \A i \in 1 .. Len(q) : AsFunction(q)[q[i].key] = q[i].ts
<1>1. DOMAIN q = 1 .. Len(q)
  BY LenProperties
<1>2. ASSUME NEW i \in 1 .. Len(q) PROVE AsFunction(q)[q[i].key] = q[i].ts
  <2>1. q[i].key \in KeysOf(q)
    BY <1>1 DEF KeysOf
  <2> DEFINE c == CHOOSE j \in DOMAIN q : q[j].key = q[i].key
  <2>2. c \in DOMAIN q /\ q[c].key = q[i].key
    BY <1>1
  <2>3. c = i
    BY <1>1, <2>2 DEF DistinctKeys
  <2> QED
    BY <2>1, <2>3 DEF AsFunction
<1>3. \A k : k \in KeysOf(q) <=> \E i \in 1 .. Len(q) : q[i].key = k
  BY <1>1 DEF KeysOf
<1>4. /\ AsFunction(q) = [k \in KeysOf(q) |-> AsFunction(q)[k]]
      /\ DOMAIN AsFunction(q) = KeysOf(q)
  BY DEF AsFunction
<1> QED
  BY <1>2, <1>3, <1>4

\* r tells of the keys that are in it what q does.
LEMMA FunctionOfSome ==
  ASSUME NEW S, NEW q \in Seq(S), DistinctKeys(q), NEW r \in Seq(S), DistinctKeys(r),
         \A i \in 1 .. Len(r) : \E k \in 1 .. Len(q) : r[i] = q[k]
  PROVE  AsFunction(r) = Restrict(AsFunction(q), KeysOf(r))
<1>1. KeysOf(r) \subseteq KeysOf(q)
  BY FunctionOf
<1>2. ASSUME NEW k \in KeysOf(r) PROVE AsFunction(r)[k] = AsFunction(q)[k]
  <2>1. PICK i \in 1 .. Len(r) : r[i].key = k
    BY FunctionOf
  <2>2. PICK j \in 1 .. Len(q) : r[i] = q[j]
    OBVIOUS
  <2>3. AsFunction(r)[r[i].key] = r[i].ts
    BY FunctionOf
  <2>4. AsFunction(q)[q[j].key] = q[j].ts
    BY FunctionOf
  <2> QED
    BY <2>1, <2>2, <2>3, <2>4
<1>3. AsFunction(r) = [k \in KeysOf(r) |-> AsFunction(r)[k]]
  BY FunctionOf
<1>4. DOMAIN AsFunction(q) = KeysOf(q)
  BY FunctionOf
<1> DEFINE R == KeysOf(r)
<1> HIDE DEF R
<1>5. [k \in R |-> AsFunction(r)[k]] = [k \in R |-> AsFunction(q)[k]]
  BY <1>2 DEF R
<1> QED
  BY <1>3, <1>5 DEF Restrict, R

\* On a sorted dictionary the expiry is a filter by age.
LEMMA FunctionOfUnexpired ==
  ASSUME NEW S, NEW q \in Seq(S), \A x \in S : x.ts \in Int, NEW cutoff \in Int,
         TimeSorted(q), DistinctKeys(q)
  PROVE  /\ KeysOf(Unexpired(q, cutoff)) =
              {k \in KeysOf(q) : AsFunction(q)[k] >= cutoff}
         /\ AsFunction(Unexpired(q, cutoff)) =
              Restrict(AsFunction(q), KeysOf(Unexpired(q, cutoff)))
         /\ DistinctKeys(Unexpired(q, cutoff))
<1> DEFINE r == Unexpired(q, cutoff)
<1>1. r \in Seq(S)
  BY UnexpiredIsSuffix
<1>2. PICK n \in Nat :
        /\ Len(r) = Len(q) - n
        /\ \A i \in 1 .. Len(r) : n + i \in 1 .. Len(q) /\ r[i] = q[n + i]
  BY UnexpiredShift
<1>3. /\ \A i \in 1 .. Len(r) : r[i].ts >= cutoff
      /\ \A i \in 1 .. Len(q) : q[i].ts >= cutoff => \E j \in 1 .. Len(r) : r[j] = q[i]
  BY UnexpiredOfSorted
<1> HIDE DEF r
<1>4. \A i \in 1 .. Len(r) : \E k \in 1 .. Len(q) : r[i] = q[k]
  BY <1>2
<1>5. DistinctKeys(r)
  <2> SUFFICES ASSUME NEW i \in 1 .. Len(r), NEW j \in 1 .. Len(r), r[i].key = r[j].key
               PROVE  i = j
    BY DEF DistinctKeys
  <2>1. /\ n + i \in 1 .. Len(q) /\ n + j \in 1 .. Len(q)
        /\ q[n + i].key = q[n + j].key
    BY <1>2
  <2>2. n + i = n + j
    BY <2>1 DEF DistinctKeys
  <2> QED
    BY <2>2
<1>6. ASSUME NEW k
      PROVE  k \in KeysOf(r) <=> k \in KeysOf(q) /\ AsFunction(q)[k] >= cutoff
  <2>1. ASSUME k \in KeysOf(r) PROVE k \in KeysOf(q) /\ AsFunction(q)[k] >= cutoff
    <3>1. PICK i \in 1 .. Len(r) : r[i].key = k
      BY <1>1, <1>5, <2>1, FunctionOf
    <3>2. PICK j \in 1 .. Len(q) : r[i] = q[j]
      BY <1>4
    <3>3. AsFunction(q)[q[j].key] = q[j].ts /\ q[j].key \in KeysOf(q)
      BY FunctionOf
    <3> QED
      BY <1>3, <3>1, <3>2, <3>3
  <2>2. ASSUME k \in KeysOf(q), AsFunction(q)[k] >= cutoff PROVE k \in KeysOf(r)
    <3>1. PICK i \in 1 .. Len(q) : q[i].key = k
      BY <2>2, FunctionOf
    <3>2. AsFunction(q)[q[i].key] = q[i].ts
      BY FunctionOf
    <3>3. PICK j \in 1 .. Len(r) : r[j] = q[i]
      BY <1>3, <2>2, <3>1, <3>2
    <3> QED
      BY <1>1, <1>5, <3>1, <3>3, FunctionOf
  <2> QED
    BY <2>1, <2>2
<1>7. KeysOf(r) = {k \in KeysOf(q) : AsFunction(q)[k] >= cutoff}
  BY <1>6
<1>8. AsFunction(r) = Restrict(AsFunction(q), KeysOf(r))
  BY <1>1, <1>4, <1>5, FunctionOfSome
<1> QED
  BY <1>5, <1>7, <1>8 DEF r

LEMMA FunctionOfAppend ==
  ASSUME NEW S, NEW q \in Seq(S), DistinctKeys(q), NEW key, NEW t, Entry(key, t) \in S,
         key \notin KeysOf(q)
  PROVE  /\ KeysOf(Append(q, Entry(key, t))) = KeysOf(q) \cup {key}
         /\ AsFunction(Append(q, Entry(key, t)))[key] = t
         /\ \A k \in KeysOf(q) :
              AsFunction(Append(q, Entry(key, t)))[k] = AsFunction(q)[k]
<1> DEFINE c == Entry(key, t)
           r == Append(q, c)
<1>0. c \in S /\ c.key = key /\ c.ts = t
  BY DEF Entry
<1> HIDE DEF c
<1>1. /\ r \in Seq(S) /\ Len(r) = Len(q) + 1 /\ r[Len(q) + 1] = c /\ Len(q) \in Nat
      /\ \A i \in 1 .. Len(q) : r[i] = q[i]
  BY <1>0, AppendProperties, LenProperties
<1> HIDE DEF r
<1>2. /\ \A i \in 1 .. Len(r) : i \in 1 .. Len(q) \/ i = Len(q) + 1
      /\ Len(q) + 1 \in 1 .. Len(r)
      /\ \A i \in 1 .. Len(q) : i \in 1 .. Len(r)
  BY <1>1
<1>3. \A i \in 1 .. Len(q) : q[i].key # c.key
  BY <1>0, FunctionOf
<1>4. DistinctKeys(r)
  BY <1>1, <1>2, <1>3 DEF DistinctKeys
<1>5. ASSUME NEW k PROVE k \in KeysOf(r) <=> k \in KeysOf(q) \/ k = c.key
  <2>1. k \in KeysOf(r) <=> \E i \in 1 .. Len(r) : r[i].key = k
    BY <1>1, <1>4, FunctionOf
  <2>2. k \in KeysOf(q) <=> \E i \in 1 .. Len(q) : q[i].key = k
    BY FunctionOf
  <2> QED
    BY <1>1, <1>2, <2>1, <2>2
<1>6. KeysOf(r) = KeysOf(q) \cup {c.key}
  BY <1>5
<1>7. AsFunction(r)[c.key] = c.ts
  BY <1>1, <1>2, <1>4, FunctionOf
<1>8. ASSUME NEW k \in KeysOf(q) PROVE AsFunction(r)[k] = AsFunction(q)[k]
  <2>1. PICK i \in 1 .. Len(q) : q[i].key = k
    BY FunctionOf
  <2>2. AsFunction(q)[q[i].key] = q[i].ts
    BY FunctionOf
  <2>3. AsFunction(r)[r[i].key] = r[i].ts
    BY <1>1, <1>2, <1>4, FunctionOf
  <2> QED
    BY <1>1, <2>1, <2>2, <2>3
<1>9. AsFunction(r) = [k \in KeysOf(r) |-> AsFunction(r)[k]]
  BY <1>1, <1>4, FunctionOf
<1> QED
  BY <1>0, <1>6, <1>7, <1>8, <1>9 DEF r, c

-----------------------------------------------------------------------------
\* The projection of a deque on one key as a set.
LEMMA ListedSet ==
  ASSUME NEW S, NEW q \in Seq(S), \A x \in S : x.ts \in Int,
         TimeSorted(q), DistinctUids(q), NEW own \in Seq(S),
         NEW mine \in SUBSET (1 .. Len(q)), Lists(own, q, mine)
  PROVE  /\ \A x : x \in ToSet(own) <=> \E p \in mine : x = q[p]
         /\ TimeSorted(own) /\ DistinctUids(own)
<1>1. PICK at \in [1 .. Len(own) -> mine] :
        /\ \A i, j \in 1 .. Len(own) : i < j => at[i] < at[j]
        /\ \A p \in mine : \E i \in 1 .. Len(own) : at[i] = p
        /\ \A i \in 1 .. Len(own) : own[i] = q[at[i]]
  BY DEF Lists
<1>2. ASSUME NEW i \in 1 .. Len(own)
      PROVE  at[i] \in mine /\ at[i] \in 1 .. Len(q) /\ at[i] \in Int
  <2>1. at[i] \in mine
    BY <1>1
  <2>2. at[i] \in 1 .. Len(q)
    BY <2>1
  <2> QED
    BY <2>1, <2>2, LenProperties
<1>3. ASSUME NEW x PROVE x \in ToSet(own) <=> \E p \in mine : x = q[p]
  <2>1. x \in ToSet(own) <=> \E i \in 1 .. Len(own) : x = own[i]
    BY SetOf
  <2>2. ASSUME NEW i \in 1 .. Len(own), x = own[i] PROVE \E p \in mine : x = q[p]
    BY <1>1, <1>2, <2>2
  <2>3. ASSUME NEW p \in mine, x = q[p] PROVE \E i \in 1 .. Len(own) : x = own[i]
    BY <1>1, <2>3
  <2> QED
    BY <2>1, <2>2, <2>3
<1>4. TimeSorted(own)
  <2> SUFFICES ASSUME NEW i \in 1 .. Len(own), NEW j \in 1 .. Len(own), i <= j
               PROVE  own[i].ts <= own[j].ts
    BY DEF TimeSorted
  <2>1. Len(own) \in Nat
    BY LenProperties
  <2>2. at[i] <= at[j]
    BY <1>1, <1>2, <2>1
  <2> QED
    BY <1>1, <1>2, <2>2 DEF TimeSorted
<1>5. DistinctUids(own)
  <2> SUFFICES ASSUME NEW i \in 1 .. Len(own), NEW j \in 1 .. Len(own),
                      own[i].uid = own[j].uid
               PROVE  i = j
    BY DEF DistinctUids
  <2>1. at[i] = at[j]
    BY <1>1, <1>2 DEF DistinctUids
  <2>2. i \in Int /\ j \in Int
    BY LenProperties
  <2> QED
    BY <1>1, <1>2, <2>1, <2>2
<1> QED
  BY <1>3, <1>4, <1>5

\* The front of a sorted deque is the minimum over it.
LEMMA FrontIsMin ==
  ASSUME NEW S, NEW q \in Seq(S), \A x \in S : x.ts \in Int, TimeSorted(q), q # <<>>
  PROVE  Head(q).ts = Min({x.ts : x \in ToSet(q)})
<1> DEFINE T == {x.ts : x \in ToSet(q)}
<1>1. Len(q) \in Nat /\ 1 \in 1 .. Len(q) /\ Head(q) = q[1]
  BY LenProperties, EmptySeq, HeadTailProperties
<1>2. \A i \in 1 .. Len(q) : 1 <= i /\ q[i].ts \in Int
  BY <1>1, ElementOfSeq
<1>3. q[1].ts \in T
  BY <1>1, SetOf
<1>4. \A y \in T : y \in Int /\ q[1].ts <= y
  BY <1>1, <1>2, SetOf DEF TimeSorted
<1> HIDE DEF T
<1>5. Min(T) \in T /\ \A y \in T : Min(T) <= y
  BY <1>3, <1>4 DEF Min
<1>6. Min(T) = q[1].ts
  BY <1>2, <1>3, <1>4, <1>5
<1> QED
  BY <1>1, <1>6 DEF T

-----------------------------------------------------------------------------
(* The cooldown table of a detector: the key of each alert with its time.     *)

\* The table cd at time t.
CooldownTable(K, t, cd) ==
  /\ cd \in Seq(K) /\ TimeSorted(cd) /\ DistinctKeys(cd)
  /\ \A i \in 1 .. Len(cd) : cd[i].ts <= t

\* Nothing but time passes.
LEMMA CooldownLater ==
  ASSUME NEW K, \A x \in K : x.ts \in Int, NEW t \in Int, NEW t2 \in Int, t <= t2,
         NEW cd, CooldownTable(K, t, cd)
  PROVE  CooldownTable(K, t2, cd)
<1>1. \A i \in 1 .. Len(cd) : cd[i].ts \in Int
  BY ElementOfSeq DEF CooldownTable
<1>2. \A i \in 1 .. Len(cd) : cd[i].ts <= t
  BY DEF CooldownTable
<1>3. \A i \in 1 .. Len(cd) : cd[i].ts <= t2
  BY <1>1, <1>2
<1> QED
  BY <1>3 DEF CooldownTable

LEMMA EmptyCooldownTable ==
  ASSUME NEW K, NEW t
  PROVE  CooldownTable(K, t, <<>>)
<1>1. Len(<<>>) = 0 /\ <<>> \in Seq(K)
  BY EmptySeq
<1> QED
  BY <1>1 DEF CooldownTable, TimeSorted, DistinctKeys

\* The expiry with the cooldown c keeps exactly the entries that still suppress.
LEMMA CooldownExpiry ==
  ASSUME NEW K, \A x \in K : x.ts \in Int, NEW t \in Int, NEW c \in Nat,
         NEW cd, CooldownTable(K, t, cd)
  PROVE  /\ CooldownTable(K, t, Unexpired(cd, t - c + 1))
         /\ \A i \in 1 .. Len(Unexpired(cd, t - c + 1)) :
              t - Unexpired(cd, t - c + 1)[i].ts < c
<1> DEFINE r == Unexpired(cd, t - c + 1)
<1>1. t - c + 1 \in Int /\ cd \in Seq(K) /\ TimeSorted(cd) /\ DistinctKeys(cd)
  BY DEF CooldownTable
<1>2. /\ r \in Seq(K) /\ TimeSorted(r) /\ DistinctKeys(r)
      /\ \A i \in 1 .. Len(r) : r[i].ts >= t - c + 1
  BY <1>1, UnexpiredIsSuffix, UnexpiredOfSorted, FunctionOfUnexpired
<1>3. \A i \in 1 .. Len(r) : \E j \in 1 .. Len(cd) : r[i] = cd[j]
  BY <1>1, UnexpiredShift
<1> HIDE DEF r
<1>4. \A i \in 1 .. Len(r) : r[i].ts <= t /\ r[i].ts \in Int
  BY <1>2, <1>3, ElementOfSeq DEF CooldownTable
<1>5. ASSUME NEW i \in 1 .. Len(r) PROVE t - r[i].ts < c
  <2>1. r[i].ts \in Int /\ r[i].ts >= t - c + 1
    BY <1>2, <1>4
  <2> QED
    BY <2>1
<1>6. CooldownTable(K, t, r)
  BY <1>2, <1>4 DEF CooldownTable
<1> QED
  BY <1>5, <1>6 DEF r

\* An alert of a key that is not in the table goes to its end.
LEMMA CooldownInsert ==
  ASSUME NEW K, \A x \in K : x.ts \in Int, NEW t \in Int, NEW cd, CooldownTable(K, t, cd),
         NEW key, Entry(key, t) \in K, key \notin KeysOf(cd)
  PROVE  /\ Put(cd, key, t) = Append(cd, Entry(key, t))
         /\ CooldownTable(K, t, Append(cd, Entry(key, t)))
<1> DEFINE e == Entry(key, t)
           r == Append(cd, e)
<1>1. e.key = key /\ e.ts = t /\ e \in K
  BY DEF Entry
<1>2. cd \in Seq(K) /\ Len(cd) \in Nat /\ DOMAIN cd = 1 .. Len(cd)
  BY LenProperties DEF CooldownTable
<1>3. Put(cd, key, t) = r
  BY DEF Put
<1> HIDE DEF e
<1>4. /\ r \in Seq(K) /\ Len(r) = Len(cd) + 1 /\ r[Len(cd) + 1] = e
      /\ \A i \in 1 .. Len(cd) : r[i] = cd[i]
  BY <1>1, <1>2, AppendProperties
<1>5. TimeSorted(r)
  <2>1. TimeSorted(cd) /\ \A i \in 1 .. Len(cd) : cd[i].ts <= e.ts
    BY <1>1 DEF CooldownTable
  <2> QED
    BY <1>1, <1>2, <2>1, AppendSorted
<1> HIDE DEF r
<1>6. \A i \in 1 .. Len(r) : i \in 1 .. Len(cd) \/ i = Len(cd) + 1
  BY <1>2, <1>4
<1>7. \A i \in 1 .. Len(cd) : cd[i].key # e.key
  BY <1>1, <1>2 DEF KeysOf
<1>8. DistinctKeys(r)
  <2> SUFFICES ASSUME NEW i \in 1 .. Len(r), NEW j \in 1 .. Len(r), r[i].key = r[j].key
               PROVE  i = j
    BY DEF DistinctKeys
  <2>1. CASE i \in 1 .. Len(cd) /\ j \in 1 .. Len(cd)
    BY <1>4, <2>1 DEF CooldownTable, DistinctKeys
  <2>2. CASE i = Len(cd) + 1 \/ j = Len(cd) + 1
    BY <1>4, <1>6, <1>7, <2>2
  <2> QED
    BY <1>6, <2>1, <2>2
<1>9. \A i \in 1 .. Len(r) : r[i].ts <= t
  <2>1. t <= t
    OBVIOUS
  <2> QED
    BY <1>1, <1>4, <1>6, <2>1 DEF CooldownTable
<1>10. CooldownTable(K, t, r)
  BY <1>4, <1>5, <1>8, <1>9 DEF CooldownTable
<1> QED
  BY <1>3, <1>10 DEF r, e

\* The entries of cd that suppress at time t, as a function, and those of a
\* function from keys to times that still do.
StillCool(c, t, f)    == {k \in DOMAIN f : t - f[k] < c}
Suppressing(c, t, cd) == Restrict(AsFunction(cd), StillCool(c, t, AsFunction(cd)))

\* Whether or not the table is expired, the same entries suppress, and time only
\* takes from those that did before.
LEMMA SuppressingAges ==
  ASSUME NEW K, \A x \in K : x.ts \in Int, NEW t \in Int, NEW c \in Nat,
         NEW cd, CooldownTable(K, t, cd), NEW w, cd = <<>> \/ (w \in Int /\ w <= t)
  PROVE  LET before == Suppressing(c, w, cd)
             live   == Unexpired(cd, t - c + 1)
         IN  /\ KeysOf(live) = StillCool(c, t, before)
             /\ Suppressing(c, t, cd) = Restrict(before, StillCool(c, t, before))
             /\ Suppressing(c, t, live) = Restrict(before, StillCool(c, t, before))
             /\ AsFunction(live) = Restrict(before, StillCool(c, t, before))
<1> DEFINE F == AsFunction(cd)
           D == KeysOf(cd)
           B == {k \in D : t - F[k] < c}
           r == Unexpired(cd, t - c + 1)
           G == AsFunction(r)
           H == Suppressing(c, w, cd)
<1>1. t - c + 1 \in Int /\ cd \in Seq(K) /\ TimeSorted(cd) /\ DistinctKeys(cd)
  BY DEF CooldownTable
<1>2. DOMAIN F = D
  BY <1>1, FunctionOf
<1>3. ASSUME NEW k \in D PROVE F[k] \in Int
  <2>1. PICK i \in 1 .. Len(cd) : cd[i].key = k
    BY <1>1, FunctionOf
  <2>2. F[cd[i].key] = cd[i].ts
    BY <1>1, FunctionOf
  <2>3. cd[i].ts \in Int
    BY <1>1, ElementOfSeq
  <2> QED
    BY <2>1, <2>2, <2>3
<1>4. KeysOf(r) = {k \in D : F[k] >= t - c + 1} /\ G = Restrict(F, KeysOf(r))
  BY <1>1, FunctionOfUnexpired
<1>5. cd = <<>> => D = {}
  BY DEF KeysOf
<1>6. H = Restrict(F, {k \in D : w - F[k] < c})
  BY <1>2 DEF Suppressing, StillCool
<1>7. Suppressing(c, t, cd) = Restrict(F, B)
  BY <1>2 DEF Suppressing, StillCool
<1>8. Suppressing(c, t, r) = Restrict(G, {k \in DOMAIN G : t - G[k] < c})
  BY DEF Suppressing, StillCool
<1> HIDE DEF F, D, r, G, H
<1>9. KeysOf(r) = B
  <2>1. \A k \in D : F[k] >= t - c + 1 <=> t - F[k] < c
    BY <1>3
  <2> QED
    BY <1>4, <2>1
<1>10. \A k \in B : w - F[k] < c
  BY <1>3, <1>5
<1>11. DOMAIN H = {k \in D : w - F[k] < c} /\ \A k \in DOMAIN H : H[k] = F[k]
  BY <1>6 DEF Restrict
<1>12. StillCool(c, t, H) = B
  BY <1>10, <1>11 DEF StillCool
<1>13. \A k \in B : H[k] = F[k] /\ t - F[k] < c
  BY <1>10, <1>11
<1> HIDE DEF B
<1>14. Restrict(H, B) = Restrict(F, B)
  BY <1>13 DEF Restrict
<1>15. G = Restrict(F, B)
  BY <1>4, <1>9
<1>16. DOMAIN G = B /\ \A k \in B : G[k] = F[k]
  BY <1>15 DEF Restrict
<1>17. {k \in DOMAIN G : t - G[k] < c} = B
  BY <1>13, <1>16
<1>18. Restrict(G, B) = Restrict(F, B)
  BY <1>16 DEF Restrict
<1> QED
  BY <1>7, <1>8, <1>9, <1>12, <1>14, <1>15, <1>17, <1>18 DEF r, G, H

\* What the table cd tells with an alert of `key` at time t, which suppresses
\* unless the cooldown lasts no time.
Started(c, t, cd, key) ==
  [k \in KeysOf(cd) \cup (IF c = 0 THEN {} ELSE {key}) |->
     IF k = key THEN t ELSE AsFunction(cd)[k]]

LEMMA SuppressingStarts ==
  ASSUME NEW K, NEW t \in Int, NEW c \in Nat, NEW cd \in Seq(K), DistinctKeys(cd),
         \A k \in KeysOf(cd) : t - AsFunction(cd)[k] < c,
         NEW key, Entry(key, t) \in K, key \notin KeysOf(cd)
  PROVE  Suppressing(c, t, Append(cd, Entry(key, t))) = Started(c, t, cd, key)
<1> DEFINE r == Append(cd, Entry(key, t))
           D == KeysOf(cd)
           F == AsFunction(cd)
           G == AsFunction(r)
           S == IF c = 0 THEN {} ELSE {key}
<1>1. KeysOf(r) = D \cup {key} /\ G[key] = t /\ \A k \in D : G[k] = F[k]
  BY FunctionOfAppend
<1>2. DOMAIN G = KeysOf(r)
  BY DEF AsFunction
<1>3. Suppressing(c, t, r) = Restrict(G, {k \in DOMAIN G : t - G[k] < c})
  BY DEF Suppressing, StillCool
<1> HIDE DEF r, D, F, G
<1>4. \A k \in D : k # key /\ t - G[k] < c
  BY <1>1 DEF D, F
<1>5. t - t < c <=> c # 0
  OBVIOUS
<1>6. {k \in DOMAIN G : t - G[k] < c} = D \cup S
  BY <1>1, <1>2, <1>4, <1>5
<1>7. Restrict(G, D \cup S) = [k \in D \cup S |-> IF k = key THEN t ELSE F[k]]
  BY <1>1, <1>4 DEF Restrict
<1> QED
  BY <1>3, <1>6, <1>7 DEF Started, r, D, F

\* The count of a value over the positions is the one over the set.
LEMMA TallyOfSet ==
  ASSUME NEW S, NEW q \in Seq(S), DistinctUids(q), NEW f
  PROVE  /\ \A v : v \in DOMAIN Tally(q, f) <=> \E x \in ToSet(q) : f[x] = v
         /\ \A v \in DOMAIN Tally(q, f) :
              Tally(q, f)[v] = Cardinality({x \in ToSet(q) : f[x] = v})
<1>1. \A x : x \in ToSet(q) <=> \E i \in 1 .. Len(q) : x = q[i]
  BY SetOf
<1>2. ASSUME NEW v PROVE v \in DOMAIN Tally(q, f) <=> \E x \in ToSet(q) : f[x] = v
  <2>1. v \in DOMAIN Tally(q, f) <=> \E i \in 1 .. Len(q) : f[q[i]] = v
    BY TallyIs
  <2> QED
    BY <1>1, <2>1
<1>3. ASSUME NEW v
      PROVE  Cardinality(PositionsOf(q, f, v)) = Cardinality({x \in ToSet(q) : f[x] = v})
  <2> DEFINE P == PositionsOf(q, f, v)
             X == {x \in ToSet(q) : f[x] = v}
             g == [i \in P |-> q[i]]
  <2>1. \A i : i \in P <=> i \in 1 .. Len(q) /\ f[q[i]] = v
    BY DEF PositionsOf
  <2>2. IsFiniteSet(P)
    BY PositionsFinite
  <2> HIDE DEF P
  <2>3. \A i \in P : g[i] \in X
    BY <1>1, <2>1
  <2>4. \A x \in X : \E i \in P : g[i] = x
    BY <1>1, <2>1
  <2>5. \A i, j \in P : g[i] = g[j] => i = j
    BY <2>1 DEF DistinctUids
  <2>6. g \in [P -> X]
    BY <2>3
  <2> HIDE DEF g, X
  <2>7. g \in Bijection(P, X)
    BY <2>4, <2>5, <2>6 DEF Bijection, Injection, Surjection, IsInjective
  <2>8. ExistsBijection(P, X)
    BY <2>7 DEF ExistsBijection
  <2>9. Cardinality(X) = Cardinality(P)
    BY <2>2, <2>8, FS_Bijection
  <2> QED
    BY <2>9 DEF P, X
<1>4. ASSUME NEW v \in DOMAIN Tally(q, f)
      PROVE  Tally(q, f)[v] = Cardinality({x \in ToSet(q) : f[x] = v})
  <2>1. Tally(q, f)[v] = Cardinality(PositionsOf(q, f, v))
    BY DEF Tally, PositionsOf
  <2> QED
    BY <1>3, <2>1
<1> QED
  BY <1>2, <1>4
=============================================================================
