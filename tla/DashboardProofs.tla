--------------------------- MODULE DashboardProofs ---------------------------
(***************************************************************************)
(* Proofs about LocalApi and Dashboard, for every number of tabs, requests  *)
(* and restarts: the store holds the newest alerts, every listing shows the *)
(* newest of its time, the poll of a tab never stops, and a tab waits for   *)
(* one replay at most.                                                      *)
(*                                                                         *)
(* What makes it inductive is a view of the network: no two messages of net *)
(* belong to one request, the replay that occupies the loop has its request *)
(* under way, and a tab is replaying exactly while it has a replay there.   *)
(***************************************************************************)
EXTENDS Dashboard, FiniteSetTheorems, SequenceTheorems, WellFoundedInduction, TLAPS

-----------------------------------------------------------------------------
(* The invariant. *)

CounterTypes ==
  /\ added \in 0 .. MaxAdded
  /\ restarts \in 0 .. MaxRestarts /\ asked \in 0 .. MaxReplays

FlagTypes ==
  /\ replaying \in [Tab -> BOOLEAN] /\ timer \in [Tab -> BOOLEAN]
  /\ listError \in [Tab -> BOOLEAN] /\ strays \in [Tab -> Nat]

ShownInv ==
  /\ shown \in [Tab -> Seq(Nat)]
  /\ \A t \in Tab : Len(shown[t]) <= ListLimit

MessageTypes ==
  \A m \in net : /\ m.req \in Request /\ m.state \in {"sent", "ok", "failed"}
                 /\ m.state = "sent" => m = Sent(m.req)

OnePerRequest == \A m, n \in net : m.req = n.req => m = n

\* The replay that occupies the loop is the one whose request is served.
ActiveInv ==
  active # None => active \in Request /\ IsReplay(active) /\ Sent(active) \in net

ReplayingInv == \A t \in Tab : replaying[t] <=> Replays(t) # {}

\* The listings are sound, and their history is of numbers.
BodyTypes(body) == body.added \in Nat /\ body.restarts \in Nat

ListingInv == \A m \in net : m.state = "ok" /\ ~IsReplay(m.req) => BodyTypes(m.body) /\ Sound(m.body)

NetInv == MessageTypes /\ OnePerRequest /\ ActiveInv /\ ListingInv

IInv ==
  /\ CounterTypes /\ FlagTypes /\ ShownInv /\ NetInv
  /\ StoreIsNewest /\ ReplayingInv /\ PollingNeverStops

-----------------------------------------------------------------------------
(* The store. *)

LEMMA Constants ==
  /\ Slots \in Nat /\ Slots > 0 /\ ListLimit \in Nat /\ ListLimit > 0
  /\ MaxAdded \in Nat /\ MaxReplays \in Nat /\ MaxRestarts \in Nat
  /\ Capacity \in Nat /\ Capacity > 0 /\ ListLimit <= Capacity
BY ApiConstants, CapacityAssumption

\* What StoreIsNewest says of a store once n alerts were emitted.
HoldsNewest(s, n) == s = [i \in 1 .. Lesser(n, Capacity) |-> n - Lesser(n, Capacity) + i]

LEMMA HoldsNewestIs ==
  ASSUME NEW n \in Nat, NEW s
  PROVE  HoldsNewest(s, n) <=>
           /\ s \in Seq(Nat) /\ Len(s) = Lesser(n, Capacity)
           /\ \A i \in 1 .. Len(s) : s[i] = n - Len(s) + i
<1> DEFINE k == Lesser(n, Capacity)
           f == [i \in 1 .. k |-> n - k + i]
<1>1. k \in Nat /\ k <= n
  BY Constants DEF Lesser
<1>2. f \in Seq(Nat) /\ Len(f) = k /\ \A i \in 1 .. k : f[i] = n - k + i
  <2>1. \A i \in 1 .. k : n - k + i \in Nat
    BY <1>1
  <2>2. f \in [1 .. k -> Nat] /\ DOMAIN f = 1 .. k
    BY <2>1
  <2>3. f \in Seq(Nat)
    BY <1>1, <2>2, IsASeq
  <2>4. Len(f) = k
    BY <1>1, <2>2, <2>3, LenProperties
  <2>5. QED  BY <2>3, <2>4
<1>3. ASSUME s \in Seq(Nat), Len(s) = k, \A i \in 1 .. Len(s) : s[i] = n - Len(s) + i
      PROVE  s = f
  <2>1. \A i \in 1 .. Len(s) : s[i] = f[i]
    BY <1>2, <1>3
  <2> HIDE DEF f
  <2>2. QED  BY <1>2, <1>3, <2>1, SeqEqual
<1>4. QED  BY <1>2, <1>3 DEF HoldsNewest

LEMMA StoreIs == StoreIsNewest <=> HoldsNewest(store, added)
BY DEF StoreIsNewest, HoldsNewest, Lesser

\* The newest entries of a sequence, by their positions.
LEMMA NewestIs ==
  ASSUME NEW s \in Seq(Nat), NEW k \in Nat
  PROVE  /\ Newest(s, k) \in Seq(Nat) /\ Len(Newest(s, k)) = Lesser(Len(s), k)
         /\ \A i \in 1 .. Len(Newest(s, k)) :
              Newest(s, k)[i] = s[Len(s) - Len(Newest(s, k)) + i]
<1>0. Len(s) \in Nat
  BY LenProperties
<1>1. CASE Len(s) <= k
  BY <1>0, <1>1 DEF Newest, Lesser
<1>2. CASE Len(s) > k
  <2> DEFINE a == Len(s) - k + 1
  <2>1. a \in Int /\ Len(s) \in Int /\ a >= 1
    BY <1>0, <1>2
  <2>2. \A i \in a .. Len(s) : s[i] \in Nat
    BY <2>1, ElementOfSeq
  <2>3. /\ SubSeq(s, a, Len(s)) \in Seq(Nat)
        /\ Len(SubSeq(s, a, Len(s))) = IF a <= Len(s) THEN Len(s) - a + 1 ELSE 0
        /\ \A i \in 1 .. Len(s) - a + 1 : SubSeq(s, a, Len(s))[i] = s[a + i - 1]
    BY <2>1, <2>2, SubSeqProperties
  <2>4. Newest(s, k) = SubSeq(s, a, Len(s))
    BY <1>0, <1>2 DEF Newest
  <2>5. Len(Newest(s, k)) = k
    BY <1>0, <1>2, <2>3, <2>4
  <2>6. ASSUME NEW i \in 1 .. k PROVE Newest(s, k)[i] = s[Len(s) - k + i]
    <3>1. i \in 1 .. Len(s) - a + 1 /\ a + i - 1 = Len(s) - k + i
      BY <1>0, <1>2
    <3> HIDE DEF a
    <3>2. QED  BY <2>3, <2>4, <3>1
  <2>7. QED  BY <1>0, <1>2, <2>3, <2>4, <2>5, <2>6 DEF Lesser
<1>3. QED  BY <1>0, <1>1, <1>2

\* add keeps the newest.
LEMMA AddKeepsNewest ==
  ASSUME NEW n \in Nat, NEW s, HoldsNewest(s, n)
  PROVE  HoldsNewest(Add(s, n + 1), n + 1)
<1> DEFINE q == Append(s, n + 1)
           r == Add(s, n + 1)
<1>1. /\ s \in Seq(Nat) /\ Len(s) = Lesser(n, Capacity)
      /\ \A i \in 1 .. Len(s) : s[i] = n - Len(s) + i
  BY HoldsNewestIs
<1>2. /\ q \in Seq(Nat) /\ Len(q) = Len(s) + 1 /\ q[Len(s) + 1] = n + 1
      /\ \A i \in 1 .. Len(s) : q[i] = s[i]
  BY <1>1, AppendProperties
<1>3. Len(s) \in Nat /\ Len(s) <= n
  BY <1>1, Constants DEF Lesser
<1> HIDE DEF q
<1>4. ASSUME NEW i \in 1 .. Len(q) PROVE q[i] = (n + 1) - Len(q) + i
  <2>1. CASE i \in 1 .. Len(s)
    <3>1. q[i] = n - Len(s) + i
      BY <1>1, <1>2, <2>1
    <3>2. QED  BY <1>2, <1>3, <2>1, <3>1
  <2>2. CASE i = Len(s) + 1
    BY <1>2, <1>3, <2>2
  <2>3. QED  BY <1>2, <1>3, <2>1, <2>2
<1>5. /\ r \in Seq(Nat) /\ Len(r) = Lesser(Len(q), Capacity)
      /\ \A i \in 1 .. Len(r) : r[i] = q[Len(q) - Len(r) + i]
  BY <1>2, Constants, NewestIs DEF Add, q
<1> HIDE DEF r
<1>6. Len(r) \in Nat /\ Len(q) \in Nat /\ Len(r) <= Len(q)
  BY <1>2, <1>3, <1>5, Constants DEF Lesser
<1>7. Len(r) = Lesser(n + 1, Capacity)
  BY <1>1, <1>2, <1>3, <1>5, Constants DEF Lesser
<1>8. ASSUME NEW i \in 1 .. Len(r) PROVE r[i] = (n + 1) - Len(r) + i
  <2>1. Len(q) - Len(r) + i \in 1 .. Len(q)
    BY <1>6
  <2>2. q[Len(q) - Len(r) + i] = (n + 1) - Len(q) + (Len(q) - Len(r) + i)
    BY <1>4, <2>1
  <2>3. r[i] = (n + 1) - Len(q) + (Len(q) - Len(r) + i)
    BY <1>5, <2>2
  <2>4. QED  BY <1>6, <2>3
<1>9. HoldsNewest(r, n + 1)
  <2>1. n + 1 \in Nat
    OBVIOUS
  <2>2. QED  BY <1>5, <1>7, <1>8, <2>1, HoldsNewestIs
<1>10. QED  BY <1>9 DEF r

\* A listing shows the newest alerts, newest first.
LEMMA SnapshotIs ==
  ASSUME added \in Nat, restarts \in Nat, StoreIsNewest
  PROVE  BodyTypes(AlertList) /\ Sound(AlertList)
<1> DEFINE s == Newest(store, ListLimit)
           k == Len(s)
           a == Snapshot(store, ListLimit)
<1>1. /\ store \in Seq(Nat) /\ Len(store) = Lesser(added, Capacity) /\ Len(store) \in Nat
      /\ Len(store) <= added
      /\ \A i \in 1 .. Len(store) : store[i] = added - Len(store) + i
  BY StoreIs, HoldsNewestIs, Constants DEF Lesser
<1>2. /\ s \in Seq(Nat) /\ k = Lesser(Len(store), ListLimit)
      /\ \A i \in 1 .. k : s[i] = store[Len(store) - k + i]
  BY <1>1, Constants, NewestIs
<1>3. k \in Nat /\ k <= Len(store) /\ DOMAIN s = 1 .. k
  BY <1>1, <1>2, Constants, LenProperties DEF Lesser
<1>4. a = [i \in 1 .. k |-> s[k - i + 1]]
  BY <1>3 DEF Snapshot
<1> HIDE DEF s, k
<1>5. ASSUME NEW i \in 1 .. k PROVE s[k - i + 1] = added - i + 1
  <2>1. k - i + 1 \in 1 .. k /\ Len(store) - k + (k - i + 1) \in 1 .. Len(store)
    BY <1>1, <1>3
  <2>2. s[k - i + 1] = store[Len(store) - k + (k - i + 1)]
    BY <1>2, <2>1
  <2>3. s[k - i + 1] = added - Len(store) + (Len(store) - k + (k - i + 1))
    BY <1>1, <2>1, <2>2
  <2>4. QED  BY <1>1, <1>3, <2>3
<1>6. a = [i \in 1 .. k |-> added - i + 1]
  BY <1>4, <1>5
<1>7. k = Lesser(Lesser(added, Capacity), ListLimit)
  BY <1>1, <1>2
<1> HIDE DEF a
<1>8. /\ AlertList.alerts = a /\ AlertList.stored = Lesser(added, Capacity)
      /\ AlertList.added = added /\ AlertList.restarts = restarts
  BY <1>1 DEF AlertList, a
<1>9. QED  BY <1>6, <1>7, <1>8 DEF Sound, BodyTypes

\* A sound listing is no longer than asked for.
LEMMA SoundIs ==
  ASSUME NEW body, BodyTypes(body), Sound(body)
  PROVE  body.alerts \in Seq(Nat) /\ Len(body.alerts) <= ListLimit
<1> DEFINE k == Lesser(body.stored, ListLimit)
           f == [i \in 1 .. k |-> body.added - i + 1]
<1>1. body.added \in Nat /\ body.stored = Lesser(body.added, Capacity) /\ body.alerts = f
  BY DEF BodyTypes, Sound
<1>2. k \in Nat /\ k <= ListLimit /\ k <= body.added
  BY <1>1, Constants DEF Lesser
<1>3. \A i \in 1 .. k : body.added - i + 1 \in Nat
  BY <1>1, <1>2
<1>4. f \in [1 .. k -> Nat]
  BY <1>3
<1> HIDE DEF k
<1>5. f \in Seq(Nat) /\ Len(f) = k
  BY <1>2, <1>4, IsASeq, LenProperties
<1>6. QED  BY <1>1, <1>2, <1>5

-----------------------------------------------------------------------------
(* The network: one message of net for each request under way. *)

LEMMA RequestIs ==
  ASSUME NEW r \in Request
  PROVE  /\ r.tab \in Tab /\ r.slot \in 0 .. Slots /\ r = [tab |-> r.tab, slot |-> r.slot]
         /\ r # None
<1>1. r.tab \in Tab /\ r.slot \in 0 .. Slots /\ r = [tab |-> r.tab, slot |-> r.slot]
  BY DEF Request
<1>2. "slot" \in DOMAIN r /\ "slot" \notin DOMAIN None
  BY DEF Request, None
<1>3. QED  BY <1>1, <1>2

\* A message that replaces others, and is the only one of its request.
LEMMA Exchange ==
  ASSUME MessageTypes, OnePerRequest, NEW out \in SUBSET net, NEW w,
         w.req \in Request, w.state \in {"sent", "ok", "failed"},
         w.state = "sent" => w = Sent(w.req),
         \A n \in net \ out : n.req # w.req, net' = (net \ out) \cup {w}
  PROVE  MessageTypes' /\ OnePerRequest'
BY DEF MessageTypes, OnePerRequest

LEMMA Answering ==
  ASSUME MessageTypes, OnePerRequest, NEW m \in net, NEW w,
         w.req = m.req, w.state \in {"ok", "failed"}, Answer(m, w)
  PROVE  /\ MessageTypes' /\ OnePerRequest'
         /\ \A t \in Tab : /\ Listings(t)' = {} <=> Listings(t) = {}
                           /\ Replays(t)' = {} <=> Replays(t) = {}
<1>1. {m} \in SUBSET net /\ \A n \in net \ {m} : n.req # w.req
  BY DEF OnePerRequest
<1>2. w.req \in Request /\ net' = (net \ {m}) \cup {w}
  BY DEF MessageTypes, Answer
<1>3. MessageTypes' /\ OnePerRequest'
  BY <1>1, <1>2, Exchange
<1>4. QED  BY <1>2, <1>3 DEF Listings, Replays

\* Every non-empty set of natural numbers has a least element.
LEMMA LeastNatural ==
  ASSUME NEW T \in SUBSET Nat, T # {}
  PROVE  \E n \in T : \A m \in T : n <= m
<1>1. PICK n \in T : \A m \in T : <<m, n>> \notin OpToRel(<, Nat)
  BY NatLessThanWellFounded, WFMin
<1>2. \A m \in T : ~(m < n)
  BY <1>1 DEF OpToRel
<1>3. QED  BY <1>2

\* The request of a listing takes a slot that is free.
LEMMA ListingIs ==
  ASSUME MessageTypes, NEW t \in Tab, FreeSlots(t) # {}
  PROVE  \E r \in Request : /\ Listing(t) = Sent(r) /\ r.tab = t /\ ~IsReplay(r)
                            /\ \A n \in net : n.req # r
<1>1. FreeSlots(t) \in SUBSET Nat
  BY Constants DEF FreeSlots
<1>2. PICK s \in FreeSlots(t) : \A f \in FreeSlots(t) : s <= f
  BY <1>1, LeastNatural
<1> DEFINE k == CHOOSE s1 \in FreeSlots(t) : \A f \in FreeSlots(t) : s1 <= f
           r == [tab |-> t, slot |-> k]
<1>4. k \in FreeSlots(t)
  BY <1>2
<1>5. Listing(t) = Sent(r)
  BY DEF Listing
<1> HIDE DEF k
<1>6. k \in 1 .. Slots /\ \A m \in Listings(t) : m.req.slot # k
  BY <1>4 DEF FreeSlots
<1>7. r \in Request /\ r.tab = t /\ ~IsReplay(r)
  BY <1>6, Constants DEF Request, IsReplay
<1>8. \A n \in net : n.req # r
  BY <1>6, <1>7 DEF Listings
<1>9. QED  BY <1>5, <1>7, <1>8

\* A tab sends a request that no message of net belongs to.
LEMMA Sending ==
  ASSUME MessageTypes, OnePerRequest, NEW r \in Request, \A n \in net : n.req # r,
         net' = net \cup {Sent(r)}
  PROVE  MessageTypes' /\ OnePerRequest'
<1> DEFINE w == Sent(r)
           out == {}
<1>1. w.req = r /\ w.state = "sent" /\ w = Sent(w.req)
  BY DEF Sent
<1>2. w.req \in Request /\ w.state \in {"sent", "ok", "failed"}
  BY <1>1
<1>3. out \in SUBSET net /\ net' = (net \ out) \cup {w} /\ \A n \in net \ out : n.req # w.req
  BY <1>1
<1> HIDE DEF w, out
<1>4. QED  BY <1>1, <1>2, <1>3, Exchange

\* What a restart makes of a message.
AfterRestart(m) == IF m.state = "sent" THEN Failed(m.req) ELSE m

\* The replay of a tab has one request.
ReplayOf(t) == [tab |-> t, slot |-> 0]

LEMMA ReplayOfIs ==
  ASSUME MessageTypes, NEW t \in Tab
  PROVE  /\ ReplayOf(t) \in Request /\ IsReplay(ReplayOf(t))
         /\ \A m \in net : m \in Replays(t) <=> m.req = ReplayOf(t)
<1>1. ReplayOf(t) \in Request /\ IsReplay(ReplayOf(t)) /\ ReplayOf(t).tab = t
  BY Constants DEF ReplayOf, Request, IsReplay
<1>2. ASSUME NEW m \in net PROVE m \in Replays(t) <=> m.req = ReplayOf(t)
  <2>1. m.req = [tab |-> m.req.tab, slot |-> m.req.slot]
    BY RequestIs DEF MessageTypes
  <2>2. QED  BY <1>1, <2>1 DEF Replays, IsReplay, ReplayOf
<1>3. QED  BY <1>1, <1>2

LEMMA MessagesOfNext ==
  IInv /\ [Next]_vars => MessageTypes' /\ OnePerRequest'
<1> SUFFICES ASSUME IInv, [Next]_vars PROVE MessageTypes' /\ OnePerRequest'
  OBVIOUS
<1>0. MessageTypes /\ OnePerRequest /\ ActiveInv /\ ReplayingInv
  BY DEF IInv, NetInv
<1>1. ASSUME NEW m \in net, ServeList(m) PROVE MessageTypes' /\ OnePerRequest'
  BY <1>0, <1>1, Answering DEF ServeList, ListAlerts, Ok
<1>2. CASE ReplayEnds
  <2>1. Sent(active) \in net /\ Sent(active).req = active
    BY <1>0, <1>2 DEF ReplayEnds, EndReplay, Loop, ActiveInv, Sent
  <2>2. PICK w : w.req = active /\ w.state \in {"ok", "failed"} /\ Answer(Sent(active), w)
    BY <1>2 DEF ReplayEnds, EndReplay, Done, Failed
  <2>3. QED  BY <1>0, <2>1, <2>2, Answering
<1>3. CASE ServerRestarts
  <2>1. net' = {AfterRestart(m) : m \in net}
    BY <1>3 DEF ServerRestarts, Restart, AfterRestart
  <2>2. ASSUME NEW m \in net
        PROVE  AfterRestart(m).req = m.req /\ AfterRestart(m).state \in {"ok", "failed"}
    BY <1>0 DEF MessageTypes, AfterRestart, Failed
  <2>3. MessageTypes'
    BY <1>0, <2>1, <2>2 DEF MessageTypes
  <2>4. QED  BY <1>0, <2>1, <2>2, <2>3 DEF OnePerRequest
<1>4. CASE (\E m \in net : ServeReplay(m)) \/ ReplayEmits \/ UNCHANGED vars
  <2>1. net' = net
    BY <1>4 DEF ServeReplay, BeginReplay, ReplayEmits, EmitAlert, vars
  <2>2. QED  BY <1>0, <2>1 DEF MessageTypes, OnePerRequest
<1>5. ASSUME NEW t \in Tab, StrayFires(t) \/ TimerFires(t) PROVE MessageTypes' /\ OnePerRequest'
  <2>1. CASE net' = net
    BY <1>0, <2>1 DEF MessageTypes, OnePerRequest
  <2>2. CASE FreeSlots(t) # {} /\ net' = net \cup {Listing(t)}
    BY <1>0, <2>2, ListingIs, Sending
  <2>3. QED  BY <1>5, <2>1, <2>2 DEF StrayFires, TimerFires
<1>6. ASSUME NEW t \in Tab, RunReplay(t) PROVE MessageTypes' /\ OnePerRequest'
  <2>1. Replays(t) = {} /\ net' = net \cup {Sent(ReplayOf(t))}
    BY <1>0, <1>6 DEF RunReplay, ReplayingInv, ReplayOf
  <2>2. ReplayOf(t) \in Request /\ \A n \in net : n.req # ReplayOf(t)
    BY <1>0, <2>1, ReplayOfIs
  <2>3. QED  BY <1>0, <2>1, <2>2, Sending
<1>7. ASSUME NEW t \in Tab, NEW m \in net, ListArrives(t, m) \/ ListFails(t, m)
      PROVE  MessageTypes' /\ OnePerRequest'
  <2>1. net' = net \ {m}
    BY <1>7 DEF ListArrives, ListFails
  <2>2. QED  BY <1>0, <2>1 DEF MessageTypes, OnePerRequest
<1>8. ASSUME NEW t \in Tab, NEW m \in net, ReplayArrives(t, m)
      PROVE  MessageTypes' /\ OnePerRequest'
  <2>1. FreeSlots(t) # {} /\ net' = (net \ {m}) \cup {Listing(t)} /\ {m} \in SUBSET net
    BY <1>8 DEF ReplayArrives
  <2>2. PICK r \in Request : Listing(t) = Sent(r) /\ \A n \in net : n.req # r
    BY <1>0, <2>1, ListingIs
  <2>3. Sent(r).req = r /\ Sent(r).state = "sent"
    BY DEF Sent
  <2>4. QED  BY <1>0, <2>1, <2>2, <2>3, Exchange
<1>9. QED
  BY <1>1, <1>2, <1>3, <1>4, <1>5, <1>6, <1>7, <1>8 DEF Next, Script

-----------------------------------------------------------------------------
(* The server. *)

Tabs == \E t \in Tab : Script(t)

LEMMA NextIs ==
  Next => \/ \E m \in net : ServeList(m) \/ ServeReplay(m)
          \/ ReplayEmits \/ ReplayEnds \/ ServerRestarts \/ Tabs
BY DEF Next, Tabs

LEMMA TabsKeep == Tabs => UNCHANGED serverVars
BY DEF Tabs, Script, StrayFires, TimerFires, RunReplay, ListArrives, ListFails, ReplayArrives

\* Nothing emitted is taken back within a life of the server.
Grows ==
  /\ restarts' >= restarts
  /\ restarts' = restarts => added' >= added

LEMMA StoreOfNext ==
  ASSUME IInv, [Next]_vars
  PROVE  /\ StoreIsNewest' /\ added' \in 0 .. MaxAdded
         /\ restarts' \in 0 .. MaxRestarts
         /\ Grows
<1>0. /\ CounterTypes /\ HoldsNewest(store, added) /\ added \in Nat /\ Len(store) \in Nat
  <2>1. CounterTypes /\ HoldsNewest(store, added) /\ added \in Nat
    BY StoreIs DEF IInv, CounterTypes
  <2>2. QED  BY <2>1, HoldsNewestIs, LenProperties
<1>1. CASE ReplayEmits
  <2>1. /\ added' = added + 1 /\ store' = Add(store, added + 1) /\ added < MaxAdded
        /\ restarts' = restarts
    BY <1>0, <1>1, Constants DEF CounterTypes, ReplayEmits, EmitAlert
  <2>2. HoldsNewest(store', added')
    BY <1>0, <2>1, AddKeepsNewest
  <2>3. StoreIsNewest'
    BY <2>2 DEF StoreIsNewest, HoldsNewest, Lesser
  <2>4. QED  BY <1>0, <2>1, <2>2, <2>3, Constants DEF CounterTypes, Grows
<1>2. CASE ServerRestarts
  <2>1. /\ store' = <<>> /\ added' = 0 /\ restarts' = restarts + 1
        /\ restarts < MaxRestarts
    BY <1>2 DEF ServerRestarts, Restart
  <2>2. HoldsNewest(store', added')
    <3>1. Lesser(added', Capacity) = 0 /\ store' \in Seq(Nat) /\ Len(store') = 0
      BY <2>1, Constants DEF Lesser
    <3>2. added' \in Nat /\ \A i \in 1 .. Len(store') : store'[i] = added' - Len(store') + i
      BY <2>1, <3>1
    <3>3. QED  BY <3>1, <3>2, HoldsNewestIs
  <2>3. StoreIsNewest'
    BY <2>2 DEF StoreIsNewest, HoldsNewest, Lesser
  <2>4. QED  BY <1>0, <1>2, <2>1, <2>3, Constants DEF CounterTypes, Grows
<1>3. CASE (\E m \in net : ServeList(m) \/ ServeReplay(m)) \/ ReplayEnds \/ Tabs \/ UNCHANGED vars
  <2>1. UNCHANGED <<store, added, restarts>>
    BY <1>3, TabsKeep
    DEF ServeList, ListAlerts, ServeReplay, BeginReplay, ReplayEnds, EndReplay, serverVars, vars
  <2>2. StoreIsNewest'
    BY <2>1 DEF IInv, StoreIsNewest
  <2>3. QED  BY <1>0, <2>1, <2>2 DEF CounterTypes, Grows
<1>4. QED  BY <1>1, <1>2, <1>3, NextIs

\* Only a message that was answered is taken out of net, by a tab.
LEMMA TabsTakeAnswers ==
  ASSUME Tabs
  PROVE  \A m \in net : m.state = "sent" => m \in net'
BY DEF Tabs, Script, StrayFires, TimerFires, RunReplay, ListArrives, ListFails, ReplayArrives

LEMMA ActiveOfNext == IInv /\ [Next]_vars => ActiveInv'
<1> SUFFICES ASSUME IInv, [Next]_vars PROVE ActiveInv'
  OBVIOUS
<1>0. ActiveInv /\ MessageTypes
  BY DEF IInv, NetInv
<1>1. ASSUME NEW m \in net, ServeList(m) PROVE ActiveInv'
  BY <1>0, <1>1 DEF ServeList, ListAlerts, Loop, ActiveInv, serverVars
<1>2. ASSUME NEW m \in net, ServeReplay(m) PROVE ActiveInv'
  <2>1. /\ m.state = "sent" /\ IsReplay(m.req) /\ active' = m.req /\ net' = net
    BY <1>2 DEF ServeReplay, BeginReplay
  <2>2. m = Sent(m.req) /\ m.req \in Request
    BY <1>0, <2>1 DEF MessageTypes
  <2>3. QED  BY <2>1, <2>2 DEF ActiveInv
<1>3. CASE ReplayEnds \/ ServerRestarts
  <2>1. active' = None
    BY <1>3 DEF ReplayEnds, EndReplay, ServerRestarts, Restart
  <2>2. QED  BY <2>1 DEF ActiveInv
<1>4. CASE ReplayEmits \/ UNCHANGED vars
  <2>1. UNCHANGED <<active, net>>
    BY <1>4 DEF ReplayEmits, EmitAlert, serverVars, vars
  <2>2. QED  BY <1>0, <2>1 DEF ActiveInv
<1>5. CASE Tabs
  <2>1. active' = active
    BY <1>5, TabsKeep DEF serverVars
  <2>2. active # None => Sent(active) \in net'
    BY <1>0, <1>5, TabsTakeAnswers DEF ActiveInv, Sent
  <2>3. QED  BY <1>0, <2>1, <2>2 DEF ActiveInv
<1>6. QED  BY <1>1, <1>2, <1>3, <1>4, <1>5, NextIs

\* A listing that is sound stays so.
LEMMA SoundStays ==
  ASSUME CounterTypes, CounterTypes', Grows, NEW body, BodyTypes(body), Sound(body)
  PROVE  Sound(body)'
<1>1. body.restarts <= restarts'
  BY DEF Sound, Grows, CounterTypes, BodyTypes
<1>2. body.restarts = restarts' => body.added <= added'
  BY DEF Sound, Grows, CounterTypes, BodyTypes
<1>3. QED  BY <1>1, <1>2 DEF Sound

LEMMA ListingOfNext == IInv /\ CounterTypes' /\ [Next]_vars => ListingInv'
<1> SUFFICES ASSUME IInv, CounterTypes', [Next]_vars PROVE ListingInv'
  OBVIOUS
<1>0. /\ ListingInv /\ CounterTypes /\ StoreIsNewest /\ MessageTypes
      /\ added \in Nat /\ restarts \in Nat
  BY DEF IInv, NetInv, CounterTypes
<1>1. \A m \in net : m.state = "ok" /\ ~IsReplay(m.req) => BodyTypes(m.body) /\ Sound(m.body)'
  <2>1. Grows
    BY StoreOfNext
  <2>2. QED  BY <1>0, <2>1, SoundStays DEF ListingInv
\* Only the server makes a listing.
<1>2. ASSUME NEW n \in net', n \notin net, n.state = "ok", ~IsReplay(n.req)
      PROVE  BodyTypes(n.body) /\ Sound(n.body)'
  <2>1. ASSUME NEW m \in net, ServeList(m) PROVE BodyTypes(n.body) /\ Sound(n.body)'
    <3>1. n = Ok(m.req, AlertList) /\ UNCHANGED serverVars
      BY <1>2, <2>1 DEF ServeList, ListAlerts, Answer
    <3>2. BodyTypes(n.body) /\ Sound(n.body)
      BY <1>0, <3>1, SnapshotIs DEF Ok
    <3>3. QED  BY <3>1, <3>2 DEF Sound, serverVars
  <2>2. CASE ReplayEnds
    <3>1. n.req = active /\ IsReplay(active)
      BY <1>2, <2>2
      DEF ReplayEnds, EndReplay, Answer, Done, Failed, IInv, NetInv, ActiveInv, Loop
    <3>2. QED  BY <1>2, <3>1
  <2>3. CASE ServerRestarts
    <3>1. PICK m \in net : n = AfterRestart(m)
      BY <2>3 DEF ServerRestarts, Restart, AfterRestart
    <3>2. n = m \/ n.state = "failed"
      BY <3>1 DEF AfterRestart, Failed
    <3>3. QED  BY <1>2, <3>2
  <2>4. CASE (\E m \in net : ServeReplay(m)) \/ ReplayEmits \/ UNCHANGED vars
    BY <1>2, <2>4 DEF ServeReplay, BeginReplay, ReplayEmits, EmitAlert, vars
  <2>5. CASE Tabs
    BY <1>2, <2>5
    DEF Tabs, Script, StrayFires, TimerFires, RunReplay, ListArrives, ListFails, ReplayArrives,
        Listing, Sent
  <2>6. QED  BY <2>1, <2>2, <2>3, <2>4, <2>5, NextIs
<1>3. QED  BY <1>1, <1>2 DEF ListingInv, BodyTypes

-----------------------------------------------------------------------------
(* The tabs. *)

\* What the server does leaves every tab's requests under way.
LEMMA ServerKeepsRequests ==
  ASSUME IInv, \/ \E m \in net : ServeList(m) \/ ServeReplay(m)
               \/ ReplayEmits \/ ReplayEnds \/ ServerRestarts \/ UNCHANGED vars
  PROVE  /\ UNCHANGED tabVars
         /\ \A t \in Tab : /\ Listings(t)' = {} <=> Listings(t) = {}
                           /\ Replays(t)' = {} <=> Replays(t) = {}
<1>0. MessageTypes /\ OnePerRequest /\ ActiveInv
  BY DEF IInv, NetInv
<1>1. UNCHANGED tabVars
  BY DEF ServeList, ServeReplay, ReplayEmits, ReplayEnds, ServerRestarts, vars
<1>2. ASSUME NEW m \in net, ServeList(m), NEW t \in Tab
      PROVE  /\ Listings(t)' = {} <=> Listings(t) = {}
             /\ Replays(t)' = {} <=> Replays(t) = {}
  BY <1>0, <1>2, Answering DEF ServeList, ListAlerts, Ok
<1>3. ASSUME ReplayEnds, NEW t \in Tab
      PROVE  /\ Listings(t)' = {} <=> Listings(t) = {}
             /\ Replays(t)' = {} <=> Replays(t) = {}
  <2>1. Sent(active) \in net /\ Sent(active).req = active
    BY <1>0, <1>3 DEF ReplayEnds, EndReplay, Loop, ActiveInv, Sent
  <2>2. PICK w : w.req = active /\ w.state \in {"ok", "failed"} /\ Answer(Sent(active), w)
    BY <1>3 DEF ReplayEnds, EndReplay, Done, Failed
  <2>3. QED  BY <1>0, <2>1, <2>2, Answering
<1>4. ASSUME ServerRestarts, NEW t \in Tab
      PROVE  /\ Listings(t)' = {} <=> Listings(t) = {}
             /\ Replays(t)' = {} <=> Replays(t) = {}
  <2>1. net' = {AfterRestart(m) : m \in net}
    BY <1>4 DEF ServerRestarts, Restart, AfterRestart
  <2>2. \A m \in net : AfterRestart(m) \in net' /\ AfterRestart(m).req = m.req
    BY <2>1 DEF AfterRestart, Failed
  <2>3. \A n \in net' : \E m \in net : n = AfterRestart(m) /\ n.req = m.req
    BY <2>1, <2>2
  <2>4. QED  BY <2>2, <2>3 DEF Listings, Replays
<1>5. ASSUME (\E m \in net : ServeReplay(m)) \/ ReplayEmits \/ UNCHANGED vars, NEW t \in Tab
      PROVE  /\ Listings(t)' = {} <=> Listings(t) = {}
             /\ Replays(t)' = {} <=> Replays(t) = {}
  <2>1. net' = net
    BY <1>5 DEF ServeReplay, BeginReplay, ReplayEmits, EmitAlert, vars
  <2>2. QED  BY <2>1 DEF Listings, Replays
<1>6. QED  BY <1>1, <1>2, <1>3, <1>4, <1>5

LEMMA FlagsOfTabs == IInv /\ Tabs => FlagTypes' /\ asked' \in 0 .. MaxReplays
<1> SUFFICES ASSUME FlagTypes, asked \in 0 .. MaxReplays, NEW t \in Tab, Script(t)
             PROVE  FlagTypes' /\ asked' \in 0 .. MaxReplays
  BY DEF IInv, CounterTypes, Tabs
<1>1. strays' \in [Tab -> Nat]
  <2>1. CASE StrayFires(t)
    <3>1. strays[t] - 1 \in Nat /\ strays' = [strays EXCEPT ![t] = strays[t] - 1]
      BY <2>1 DEF FlagTypes, StrayFires
    <3>2. QED  BY <3>1 DEF FlagTypes
  <2>2. CASE \E m \in net : ListArrives(t, m) \/ ListFails(t, m)
    BY <2>2 DEF FlagTypes, ListArrives, ListFails, SchedulePoll
  <2>3. CASE TimerFires(t) \/ RunReplay(t) \/ \E m \in net : ReplayArrives(t, m)
    BY <2>3 DEF FlagTypes, TimerFires, RunReplay, ReplayArrives
  <2>4. QED  BY <2>1, <2>2, <2>3 DEF Script
<1>2. timer' \in [Tab -> BOOLEAN]
  <2>1. \/ timer' = timer \/ timer' = [timer EXCEPT ![t] = FALSE]
        \/ timer' = [timer EXCEPT ![t] = TRUE]
    BY DEF Script, StrayFires, TimerFires, RunReplay, ListArrives, ListFails, ReplayArrives,
      SchedulePoll
  <2>2. QED  BY <2>1 DEF FlagTypes
<1>3. replaying' \in [Tab -> BOOLEAN] /\ listError' \in [Tab -> BOOLEAN]
  BY DEF FlagTypes, Script, StrayFires, TimerFires, RunReplay, ListArrives, ListFails,
    ReplayArrives
<1>4. asked' \in 0 .. MaxReplays
  BY Constants
  DEF Script, StrayFires, TimerFires, RunReplay, ListArrives, ListFails, ReplayArrives
<1>5. QED  BY <1>1, <1>2, <1>3, <1>4 DEF FlagTypes

LEMMA ReplayingOfTabs == IInv /\ Tabs => ReplayingInv'
<1> SUFFICES ASSUME IInv, NEW t \in Tab, Script(t) PROVE ReplayingInv'
  BY DEF Tabs
<1>0. MessageTypes /\ OnePerRequest /\ ReplayingInv /\ FlagTypes
  BY DEF IInv, NetInv
<1>1. CASE StrayFires(t) \/ TimerFires(t)
  <2>1. net' = net \/ (FreeSlots(t) # {} /\ net' = net \cup {Listing(t)})
    BY <1>1 DEF StrayFires, TimerFires
  <2>2. \A s \in Tab : Replays(s)' = Replays(s)
    <3>1. CASE net' = net
      BY <3>1 DEF Replays
    <3>2. CASE FreeSlots(t) # {} /\ net' = net \cup {Listing(t)}
      <4>1. PICK r \in Request : Listing(t) = Sent(r) /\ ~IsReplay(r)
        BY <1>0, <3>2, ListingIs
      <4>2. QED  BY <3>2, <4>1 DEF Replays, Sent
    <3>3. QED  BY <2>1, <3>1, <3>2
  <2>3. replaying' = replaying
    BY <1>1 DEF StrayFires, TimerFires
  <2>4. QED  BY <1>0, <2>2, <2>3 DEF ReplayingInv
<1>2. CASE RunReplay(t)
  <2>1. net' = net \cup {Sent(ReplayOf(t))} /\ replaying' = [replaying EXCEPT ![t] = TRUE]
    BY <1>2 DEF RunReplay, ReplayOf
  <2>2. Sent(ReplayOf(t)).req.tab = t /\ IsReplay(Sent(ReplayOf(t)).req)
    BY DEF Sent, ReplayOf, IsReplay
  <2>3. Replays(t)' # {}
    BY <2>1, <2>2 DEF Replays
  <2>4. \A s \in Tab \ {t} : Replays(s)' = Replays(s)
    BY <2>1, <2>2 DEF Replays
  <2>5. QED  BY <1>0, <2>1, <2>3, <2>4 DEF ReplayingInv, FlagTypes
<1>3. ASSUME NEW m \in net, ListArrives(t, m) \/ ListFails(t, m) PROVE ReplayingInv'
  <2>1. net' = net \ {m} /\ replaying' = replaying /\ ~IsReplay(m.req)
    BY <1>3 DEF ListArrives, ListFails, Listings
  <2>2. \A s \in Tab : Replays(s)' = Replays(s)
    BY <2>1 DEF Replays
  <2>3. QED  BY <1>0, <2>1, <2>2 DEF ReplayingInv
<1>4. ASSUME NEW m \in net, ReplayArrives(t, m) PROVE ReplayingInv'
  <2>1. /\ m \in Replays(t) /\ FreeSlots(t) # {} /\ net' = (net \ {m}) \cup {Listing(t)}
        /\ replaying' = [replaying EXCEPT ![t] = FALSE]
    BY <1>4 DEF ReplayArrives
  <2>2. PICK r \in Request : Listing(t) = Sent(r) /\ ~IsReplay(r)
    BY <1>0, <2>1, ListingIs
  <2>3. m.req = ReplayOf(t) /\ \A n \in net \ {m} : n.req # ReplayOf(t)
    BY <1>0, <2>1, ReplayOfIs DEF OnePerRequest
  <2>4. Replays(t)' = {}
    BY <1>0, <2>1, <2>2, <2>3, ReplayOfIs DEF Replays, Sent
  <2>5. \A s \in Tab \ {t} : Replays(s)' = Replays(s)
    BY <2>1, <2>2 DEF Replays, Sent
  <2>6. QED  BY <1>0, <2>1, <2>4, <2>5 DEF ReplayingInv, FlagTypes
<1>5. QED  BY <1>1, <1>2, <1>3, <1>4 DEF Script

LEMMA PollingOfTabs == IInv /\ Tabs => PollingNeverStops'
<1> SUFFICES ASSUME IInv, NEW t \in Tab, Script(t) PROVE PollingNeverStops'
  BY DEF Tabs
<1>0. MessageTypes /\ OnePerRequest /\ FlagTypes /\ PollingNeverStops
  BY DEF IInv, NetInv
\* The tabs that do nothing.
<1>a. ASSUME NEW s \in Tab, s # t, ~replaying'[s]
      PROVE  Listings(s)' # {} \/ timer'[s] \/ strays'[s] > 0
  <2>1. /\ replaying'[s] = replaying[s] /\ timer'[s] = timer[s] /\ strays'[s] = strays[s]
    BY <1>0, <1>a
    DEF Script, StrayFires, TimerFires, RunReplay, ListArrives, ListFails, ReplayArrives,
        SchedulePoll, FlagTypes
  <2>2. Listings(s) # {} => Listings(s)' # {}
    <3>1. \A m \in net : m.req.tab # t => m \in net'
      BY DEF Script, StrayFires, TimerFires, RunReplay, ListArrives, ListFails, ReplayArrives,
         Listings, Replays
    <3>2. QED  BY <1>a, <3>1 DEF Listings
  <2>3. QED  BY <1>0, <1>a, <2>1, <2>2 DEF PollingNeverStops
\* The tab that does something.
<1>b. ASSUME FreeSlots(t) # {}, Listing(t) \in net' PROVE Listings(t)' # {}
  <2>1. PICK r \in Request : Listing(t) = Sent(r) /\ r.tab = t /\ ~IsReplay(r)
    BY <1>0, <1>b, ListingIs
  <2>2. QED  BY <1>b, <2>1 DEF Listings, Sent
<1>c. ASSUME ~replaying'[t] PROVE Listings(t)' # {} \/ timer'[t] \/ strays'[t] > 0
  <2>1. CASE StrayFires(t) \/ TimerFires(t) \/ \E m \in net : ReplayArrives(t, m)
    <3>1. FreeSlots(t) # {} /\ Listing(t) \in net'
      BY <1>c, <2>1 DEF StrayFires, TimerFires, ReplayArrives
    <3>2. QED  BY <1>b, <3>1
  <2>2. CASE RunReplay(t)
    BY <1>0, <1>c, <2>2 DEF RunReplay, FlagTypes
  <2>3. CASE \E m \in net : ListArrives(t, m) \/ ListFails(t, m)
    BY <1>0, <1>c, <2>3 DEF ListArrives, ListFails, SchedulePoll, FlagTypes
  <2>4. QED  BY <2>1, <2>2, <2>3 DEF Script
<1>1. QED  BY <1>a, <1>c DEF PollingNeverStops

LEMMA ShownOfTabs == IInv /\ Tabs => ShownInv'
<1> SUFFICES ASSUME IInv, NEW t \in Tab, Script(t) PROVE ShownInv'
  BY DEF Tabs
<1>0. ShownInv /\ ListingInv
  BY DEF IInv, NetInv
<1>1. CASE shown' = shown
  BY <1>0, <1>1 DEF ShownInv
<1>2. ASSUME NEW m \in net, ListArrives(t, m) PROVE ShownInv'
  <2>1. /\ m.state = "ok" /\ ~IsReplay(m.req)
        /\ shown' = [shown EXCEPT ![t] = m.body.alerts]
    BY <1>2 DEF ListArrives, Listings
  <2>2. m.body.alerts \in Seq(Nat) /\ Len(m.body.alerts) <= ListLimit
    BY <1>0, <2>1, SoundIs DEF ListingInv
  <2>3. /\ shown' \in [Tab -> Seq(Nat)]
        /\ \A s \in Tab : shown'[s] = shown[s] \/ shown'[s] = m.body.alerts
    BY <1>0, <2>1, <2>2 DEF ShownInv
  <2>4. QED  BY <1>0, <2>2, <2>3 DEF ShownInv
<1>3. QED
  BY <1>1, <1>2 DEF Script, StrayFires, TimerFires, RunReplay, ListFails, ReplayArrives

-----------------------------------------------------------------------------
(* The theorems. *)

LEMMA Initially == Init => IInv
<1> SUFFICES ASSUME Init PROVE IInv
  OBVIOUS
<1> USE Constants DEF Init, ServerInit
<1>1. CounterTypes
  BY DEF CounterTypes
<1>2. FlagTypes
  BY DEF FlagTypes
<1>3. ShownInv
  <2>1. <<>> \in Seq(Nat) /\ Len(<<>>) = 0
    OBVIOUS
  <2>2. \A t \in Tab : shown[t] = <<>>
    OBVIOUS
  <2>3. shown \in [Tab -> Seq(Nat)]
    BY <2>1
  <2>4. QED  BY <2>1, <2>2, <2>3 DEF ShownInv
<1>4. ASSUME NEW m \in net
      PROVE  /\ m = Sent(m.req) /\ m.req \in Request /\ m.req.slot = 1 /\ m.state = "sent"
             /\ \A n \in net : m.req = n.req => m = n
  <2>1. PICK t \in Tab : m = Sent([tab |-> t, slot |-> 1])
    OBVIOUS
  <2>2. m.req = [tab |-> t, slot |-> 1] /\ m.state = "sent"
    BY <2>1 DEF Sent
  <2>3. m.req \in Request /\ m.req.slot = 1
    BY <2>2 DEF Request
  <2>4. ASSUME NEW n \in net, m.req = n.req PROVE m = n
    <3>1. PICK s \in Tab : n = Sent([tab |-> s, slot |-> 1])
      OBVIOUS
    <3>2. n.req = [tab |-> s, slot |-> 1]
      BY <3>1 DEF Sent
    <3>3. QED  BY <2>1, <2>2, <2>4, <3>1, <3>2
  <2>5. QED  BY <2>1, <2>2, <2>3, <2>4
<1>5. MessageTypes
  BY <1>4 DEF MessageTypes
<1>6. OnePerRequest
  BY <1>4 DEF OnePerRequest
<1>7. ActiveInv
  BY DEF ActiveInv
<1>8. ListingInv
  BY <1>4 DEF ListingInv
<1>9. StoreIsNewest
  <2>1. Lesser(added, Capacity) = 0 /\ store \in Seq(Nat) /\ Len(store) = 0 /\ added \in Nat
    BY DEF Lesser
  <2>2. \A i \in 1 .. Len(store) : store[i] = added - Len(store) + i
    BY <2>1
  <2>3. HoldsNewest(store, added)
    <3>1. HoldsNewest(store, added) <=>
            /\ store \in Seq(Nat) /\ Len(store) = Lesser(added, Capacity)
            /\ \A i \in 1 .. Len(store) : store[i] = added - Len(store) + i
      BY ONLY <2>1, HoldsNewestIs
    <3> QED
      BY <2>1, <2>2, <3>1
  <2>4. QED  BY <2>3, StoreIs
<1>10. ReplayingInv
  <2>1. \A m \in net : ~IsReplay(m.req)
    BY <1>4 DEF IsReplay
  <2>2. QED  BY <2>1 DEF ReplayingInv, Replays
<1>11. PollingNeverStops
  <2>1. ASSUME NEW t \in Tab PROVE Listings(t) # {}
    <3>1. Sent([tab |-> t, slot |-> 1]) \in net
      OBVIOUS
    <3>2. QED  BY <3>1 DEF Listings, Sent, IsReplay
  <2>2. QED  BY <2>1 DEF PollingNeverStops
<1>12. QED
  BY <1>1, <1>2, <1>3, <1>5, <1>6, <1>7, <1>8, <1>9, <1>10, <1>11 DEF IInv, NetInv

LEMMA TabsInvOfNext ==
  IInv /\ [Next]_vars
    => FlagTypes' /\ ShownInv' /\ ReplayingInv' /\ PollingNeverStops' /\ asked' \in 0 .. MaxReplays
<1> SUFFICES ASSUME IInv, [Next]_vars
             PROVE  /\ FlagTypes' /\ ShownInv' /\ ReplayingInv' /\ PollingNeverStops'
                    /\ asked' \in 0 .. MaxReplays
  OBVIOUS
<1>1. CASE Tabs
  BY <1>1, FlagsOfTabs, ShownOfTabs, ReplayingOfTabs, PollingOfTabs
<1>2. CASE ~Tabs
  <2>1. /\ UNCHANGED <<replaying, timer, strays, shown, listError, asked>>
        /\ \A t \in Tab : /\ Listings(t)' = {} <=> Listings(t) = {}
                          /\ Replays(t)' = {} <=> Replays(t) = {}
    BY <1>2, NextIs, ServerKeepsRequests DEF tabVars
  <2>2. FlagTypes /\ ShownInv /\ ReplayingInv /\ PollingNeverStops /\ asked \in 0 .. MaxReplays
    BY DEF IInv, CounterTypes
  <2>3. FlagTypes' /\ asked' \in 0 .. MaxReplays
    BY <2>1, <2>2 DEF FlagTypes
  <2>4. ShownInv'
    BY <2>1, <2>2 DEF ShownInv
  <2>5. ReplayingInv'
    BY <2>1, <2>2 DEF ReplayingInv
  <2>6. PollingNeverStops'
    BY <2>1, <2>2 DEF PollingNeverStops
  <2>7. QED  BY <2>3, <2>4, <2>5, <2>6
<1>3. QED  BY <1>1, <1>2

\* The invariant holds of every dashboard, server and network.
THEOREM Invariance == Spec => []IInv
<1>1. IInv /\ [Next]_vars => IInv'
  <2> SUFFICES ASSUME IInv, [Next]_vars PROVE IInv'
    OBVIOUS
  <2>1. CounterTypes' /\ StoreIsNewest'
    BY StoreOfNext, TabsInvOfNext DEF CounterTypes
  <2>2. QED
    BY <2>1, MessagesOfNext, ActiveOfNext, ListingOfNext, TabsInvOfNext DEF IInv, NetInv
<1>2. QED  BY <1>1, Initially, PTL DEF Spec

LEMMA TypesFollow == IInv => TypeOK
<1> SUFFICES ASSUME IInv PROVE TypeOK
  OBVIOUS
<1>1. Len(store) <= Capacity
  <2>1. Len(store) = Lesser(added, Capacity) /\ added \in Nat
    BY StoreIs, HoldsNewestIs DEF IInv, CounterTypes
  <2>2. QED  BY <2>1, Constants DEF Lesser
<1>2. active \in Request \cup {None}
  BY DEF IInv, NetInv, ActiveInv
<1>3. /\ added \in 0 .. MaxAdded /\ restarts \in 0 .. MaxRestarts
      /\ asked \in 0 .. MaxReplays
  BY DEF IInv, CounterTypes
<1>4. /\ replaying \in [Tab -> BOOLEAN] /\ timer \in [Tab -> BOOLEAN]
      /\ listError \in [Tab -> BOOLEAN] /\ strays \in [Tab -> Nat]
  BY DEF IInv, FlagTypes
<1>5. {replaying, timer, listError} \subseteq [Tab -> BOOLEAN]
  BY <1>4
<1>6. QED
  BY <1>1, <1>2, <1>3, <1>4, <1>5 DEF TypeOK, IInv, NetInv, MessageTypes, ShownInv

\* The types of the server's, the network's and the tabs' state.
THEOREM TypeCorrect == Spec => []TypeOK
BY TypesFollow, Invariance, PTL

\* The store holds the newest alerts emitted, in order, as many as fit.
THEOREM StoreHoldsNewest == Spec => []StoreIsNewest
<1>1. IInv => StoreIsNewest
  BY DEF IInv
<1>2. QED  BY <1>1, Invariance, PTL

LEMMA ListingsFollow == IInv => ListingIsSound
BY DEF IInv, NetInv, ListingInv, ListingIsSound

\* Every listing on its way to a tab shows the newest alerts of the store it was
\* made from, newest first, with that store's count, whatever was emitted since
\* and whether or not the server that made it is still there.
THEOREM ListingsAreSound == Spec => []ListingIsSound
BY ListingsFollow, Invariance, PTL

\* A tab that is not replaying has a listing under way or a timer armed.
THEOREM PollingGoesOn == Spec => []PollingNeverStops
<1>1. IInv => PollingNeverStops
  BY DEF IInv
<1>2. QED  BY <1>1, Invariance, PTL

LEMMA OneReplayFollows == IInv => OneReplayPerTab
<1> SUFFICES ASSUME IInv, NEW t \in Tab
             PROVE  Cardinality(Replays(t)) = IF replaying[t] THEN 1 ELSE 0
  BY DEF OneReplayPerTab
<1>0. MessageTypes /\ OnePerRequest /\ ReplayingInv /\ FlagTypes
  BY DEF IInv, NetInv
<1>1. CASE replaying[t]
  <2>1. PICK m \in Replays(t) : TRUE
    BY <1>0, <1>1 DEF ReplayingInv
  <2>2. Replays(t) = {m}
    <3>1. m \in net /\ m.req = ReplayOf(t)
      BY <1>0, <2>1, ReplayOfIs DEF Replays
    <3>2. \A n \in Replays(t) : n \in net /\ n.req = ReplayOf(t)
      BY <1>0, ReplayOfIs DEF Replays
    <3>3. QED  BY <1>0, <2>1, <3>1, <3>2 DEF OnePerRequest
  <2>3. QED  BY <1>1, <2>2, FS_Singleton
<1>2. CASE ~replaying[t]
  BY <1>0, <1>2, FS_EmptySet DEF ReplayingInv
<1>3. QED  BY <1>1, <1>2

\* A tab waits for the answer of one replay at most, and only while its form is
\* locked.
THEOREM OneReplay == Spec => []OneReplayPerTab
BY OneReplayFollows, Invariance, PTL
=============================================================================
