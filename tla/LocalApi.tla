------------------------------ MODULE LocalApi ------------------------------
(***************************************************************************)
(* The dashboard's server: AlertStore (alert_store.py), ReplayCoordinator   *)
(* and the two JSON routes (api.py).  The routes are coroutines of one      *)
(* event loop that never await, so a listing is one step and a replay,      *)
(* which adds its alerts to the store one by one, keeps the loop to itself  *)
(* until it has returned.  The coordinator's lock is taken and released     *)
(* within that time, so no request of this server ever finds it held: the   *)
(* lock and the refusal replay_busy are left out.                           *)
(*                                                                          *)
(* A request and its answer are one message of net, from "sent" to "ok" or  *)
(* "failed"; the network delays and reorders them.  A restart of the server *)
(* clears the store and fails the requests it has not answered; an answer   *)
(* already sent may still arrive.                                           *)
(*                                                                          *)
(* An alert is its number in the order of emission.                         *)
(***************************************************************************)
EXTENDS AlertStore, FiniteSets

CONSTANTS
  Tab,        \* the browser tabs that show the dashboard
  Slots,      \* bound: a tab has this many listings under way
  ListLimit,  \* MAX_ALERTS of the dashboard, the limit of its listings
  MaxAdded,   \* bound: alerts of the server's first life, one fewer in each next
  MaxReplays, \* bound: replays asked for
  MaxRestarts \* bound: restarts of the server

ASSUME ApiConstants ==
  /\ {Slots, ListLimit} \subseteq Nat \ {0}
  /\ {MaxAdded, MaxReplays, MaxRestarts} \subseteq Nat
  /\ ListLimit <= Capacity \* the route's Query(le=ALERT_STORE_CAPACITY)

VARIABLES
  store,   \* AlertStore._alerts, oldest first
  added,   \* alerts emitted since the server started
  active,  \* the request of the replay that occupies the event loop, or None
  net,     \* requests under way and answers not yet delivered
  restarts

serverVars == <<store, added, active, restarts>>

\* A replay has the only slot 0 of its tab, and a listing one of 1..Slots.
Request == [tab : Tab, slot : 0..Slots]
IsReplay(r) == r.slot = 0

None == [tab |-> "none"]
Loop == active = None

Sent(r)         == [req |-> r, state |-> "sent"]
Ok(r, body)     == [req |-> r, state |-> "ok", body |-> body]
Done(r)         == [req |-> r, state |-> "ok"] \* a replay's, its accounting left out
Failed(r)       == [req |-> r, state |-> "failed"]
Answer(m, with) == net' = (net \ {m}) \cup {with}

-----------------------------------------------------------------------------
ServerInit ==
  /\ store = <<>> /\ added = 0 /\ active = None
  /\ restarts = 0

\* The body of a listing.  Its added and restarts are history, kept for
\* ListingIsSound: the alerts emitted, and the server's life, when it was made.
AlertList ==
  [alerts |-> Snapshot(store, ListLimit), stored |-> Len(store),
   added |-> added, restarts |-> restarts]

ListAlerts(m) ==
  /\ Loop /\ m.state = "sent" /\ ~IsReplay(m.req)
  /\ Answer(m, Ok(m.req, AlertList))
  /\ UNCHANGED serverVars

BeginReplay(m) ==
  /\ Loop /\ m.state = "sent" /\ IsReplay(m.req)
  /\ active' = m.req
  /\ UNCHANGED <<store, added, net, restarts>>

EmitAlert ==
  /\ ~Loop /\ added < MaxAdded - restarts
  /\ added' = added + 1 /\ store' = Add(store, added + 1)
  /\ UNCHANGED <<active, net, restarts>>

\* The replay returns or raises (fixture_unavailable, replay_failed): the alerts
\* it has added stay.
EndReplay ==
  /\ ~Loop
  /\ Answer(Sent(active), Done(active)) \/ Answer(Sent(active), Failed(active))
  /\ active' = None
  /\ UNCHANGED <<store, added, restarts>>

Restart ==
  /\ restarts < MaxRestarts
  /\ restarts' = restarts + 1
  /\ store' = <<>> /\ added' = 0 /\ active' = None
  /\ net' = {IF m.state = "sent" THEN Failed(m.req) ELSE m : m \in net}

-----------------------------------------------------------------------------
Lesser(a, b) == IF a < b THEN a ELSE b

\* The store holds the newest alerts emitted, in the order of emission, as many
\* as fit: none is lost before Capacity newer ones and none is stored twice.
StoreIsNewest ==
  LET n == Lesser(added, Capacity)
  IN  store = [i \in 1..n |-> added - n + i]

\* The body of a listing was true of the store when it was made: its alerts are
\* the newest emitted then, newest first, as many of those stored as asked for,
\* and its count is that of the store.  Nothing in it is newer than what that
\* life of the server has emitted.
Sound(body) ==
  /\ body.stored = Lesser(body.added, Capacity)
  /\ body.alerts = [i \in 1 .. Lesser(body.stored, ListLimit) |-> body.added - i + 1]
  /\ body.restarts <= restarts
  /\ body.restarts = restarts => body.added <= added

\* Every listing on its way to a tab is sound, those that outlive the server
\* that made them included.
ListingIsSound == \A m \in net : m.state = "ok" /\ ~IsReplay(m.req) => Sound(m.body)
=============================================================================
