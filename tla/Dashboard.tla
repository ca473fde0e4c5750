----------------------------- MODULE Dashboard ------------------------------
(***************************************************************************)
(* The dashboard's script (dashboard/dashboard.js) in each open tab, with   *)
(* the server of LocalApi: polling of the alert list and the replay form.   *)
(* A handler runs to its next await in one step; what follows an awaited    *)
(* fetch is the step that takes the answer.                                 *)
(*                                                                          *)
(* schedulePoll overwrites pollTimer without clearing it, so a timer that   *)
(* is armed may be the one pollTimer names or a stray one that nothing can  *)
(* clear any more; timers of equal delay fire in the order they were armed. *)
(***************************************************************************)
EXTENDS LocalApi

VARIABLES
  replaying,  \* per tab, the flag of that name
  timer,      \* per tab, the timer that pollTimer names is armed
  strays,     \* per tab, the armed timers that pollTimer no longer names
  shown,      \* per tab, the alerts last rendered
  listError,  \* per tab, the list is hidden by a failure message
  asked       \* replays asked for so far

tabVars == <<replaying, timer, strays, shown, listError, asked>>
vars    == <<serverVars, net, tabVars>>

Listings(t)  == {m \in net : m.req.tab = t /\ ~IsReplay(m.req)}
Replays(t)   == {m \in net : m.req.tab = t /\ IsReplay(m.req)}
FreeSlots(t) == {s \in 1..Slots : \A m \in Listings(t) : m.req.slot # s}

Listing(t) ==
  Sent([tab |-> t, slot |-> CHOOSE s \in FreeSlots(t) : \A f \in FreeSlots(t) : s <= f])

\* The script of each tab has just ended, with a call of refreshAlerts.
Init ==
  /\ ServerInit
  /\ net = {Sent([tab |-> t, slot |-> 1]) : t \in Tab}
  /\ replaying = [t \in Tab |-> FALSE]
  /\ timer = [t \in Tab |-> FALSE] /\ strays = [t \in Tab |-> 0]
  /\ shown = [t \in Tab |-> <<>>] /\ listError = [t \in Tab |-> FALSE]
  /\ asked = 0

\* refreshAlerts, from its timer: it does nothing while a replay runs.
StrayFires(t) ==
  /\ strays[t] > 0
  /\ strays' = [strays EXCEPT ![t] = @ - 1]
  /\ IF replaying[t] THEN UNCHANGED <<timer, net>>
     ELSE /\ FreeSlots(t) # {}
          /\ timer' = [timer EXCEPT ![t] = FALSE]
          /\ net' = net \cup {Listing(t)}
  /\ UNCHANGED <<serverVars, replaying, shown, listError, asked>>

TimerFires(t) ==
  /\ timer[t] /\ strays[t] = 0
  /\ timer' = [timer EXCEPT ![t] = FALSE]
  /\ IF replaying[t] THEN UNCHANGED net
     ELSE /\ FreeSlots(t) # {}
          /\ net' = net \cup {Listing(t)}
  /\ UNCHANGED <<serverVars, replaying, strays, shown, listError, asked>>

\* schedulePoll, in the finally clause of refreshAlerts.
SchedulePoll(t) ==
  IF replaying[t] THEN UNCHANGED <<timer, strays>>
  ELSE /\ timer' = [timer EXCEPT ![t] = TRUE]
       /\ strays' = [strays EXCEPT ![t] = IF timer[t] THEN @ + 1 ELSE @]

\* Faulty: the failure message is not taken back.
ListArrivesHidden(t, m) ==
  /\ m \in Listings(t) /\ m.state = "ok"
  /\ shown' = [shown EXCEPT ![t] = m.body.alerts]
  /\ SchedulePoll(t)
  /\ net' = net \ {m}
  /\ UNCHANGED <<serverVars, replaying, listError, asked>>

ListArrives(t, m) ==
  /\ m \in Listings(t) /\ m.state = "ok"
  /\ shown' = [shown EXCEPT ![t] = m.body.alerts]
  /\ listError' = [listError EXCEPT ![t] = FALSE]
  /\ SchedulePoll(t)
  /\ net' = net \ {m}
  /\ UNCHANGED <<serverVars, replaying, asked>>

ListFails(t, m) ==
  /\ m \in Listings(t) /\ m.state = "failed"
  /\ listError' = [listError EXCEPT ![t] = TRUE]
  /\ SchedulePoll(t)
  /\ net' = net \ {m}
  /\ UNCHANGED <<serverVars, replaying, shown, asked>>

\* runReplay, from the form's submit event.
RunReplay(t) ==
  /\ ~replaying[t] /\ asked < MaxReplays
  /\ asked' = asked + 1
  /\ replaying' = [replaying EXCEPT ![t] = TRUE]
  /\ timer' = [timer EXCEPT ![t] = FALSE]
  /\ net' = net \cup {Sent([tab |-> t, slot |-> 0])}
  /\ UNCHANGED <<serverVars, strays, shown, listError>>

\* Faulty: polling is not resumed.
ReplayArrivesUnpolled(t, m) ==
  /\ m \in Replays(t) /\ m.state # "sent"
  /\ replaying' = [replaying EXCEPT ![t] = FALSE]
  /\ net' = net \ {m}
  /\ UNCHANGED <<serverVars, timer, strays, shown, listError, asked>>

\* Faulty: the form is unlocked only by a success.
ReplayArrivesLocked(t, m) ==
  /\ m \in Replays(t) /\ m.state # "sent"
  /\ FreeSlots(t) # {}
  /\ replaying' = [replaying EXCEPT ![t] = m.state = "failed"]
  /\ timer' = [timer EXCEPT ![t] = FALSE]
  /\ net' = (net \ {m}) \cup {Listing(t)}
  /\ UNCHANGED <<serverVars, strays, shown, listError, asked>>

\* The rest of runReplay: its finally clause refreshes the list.
ReplayArrives(t, m) ==
  /\ m \in Replays(t) /\ m.state # "sent"
  /\ FreeSlots(t) # {}
  /\ replaying' = [replaying EXCEPT ![t] = FALSE]
  /\ timer' = [timer EXCEPT ![t] = FALSE]
  /\ net' = (net \ {m}) \cup {Listing(t)}
  /\ UNCHANGED <<serverVars, strays, shown, listError, asked>>

Script(t) ==
  \/ StrayFires(t) \/ TimerFires(t) \/ RunReplay(t)
  \/ \E m \in net : ListArrives(t, m) \/ ListFails(t, m) \/ ReplayArrives(t, m)

\* The server leaves the tabs alone.
ServeList(m)   == ListAlerts(m) /\ UNCHANGED tabVars
ServeReplay(m) == BeginReplay(m) /\ UNCHANGED tabVars
ReplayEmits    == EmitAlert /\ UNCHANGED tabVars
ReplayEnds     == EndReplay /\ UNCHANGED tabVars
ServerRestarts == Restart /\ UNCHANGED tabVars

Next ==
  \/ \E m \in net : ServeList(m) \/ ServeReplay(m)
  \/ ReplayEmits \/ ReplayEnds \/ ServerRestarts
  \/ \E t \in Tab : Script(t)

\* The loop serves every request, a replay ends (Replay's Ends), what is
\* answered arrives and an armed timer fires; nobody has to ask for a replay.
Fairness ==
  /\ WF_vars(ReplayEnds)
  /\ \A r \in Request :
       /\ WF_vars(\E m \in net : m.req = r /\ (ServeList(m) \/ ServeReplay(m)))
       /\ WF_vars(\E m \in net : m.req = r /\ (\/ ListArrives(r.tab, m) \/ ListFails(r.tab, m)
                                             \/ ReplayArrives(r.tab, m)))
  /\ \A t \in Tab : WF_vars(TimerFires(t)) /\ WF_vars(StrayFires(t))

Spec == Init /\ [][Next]_vars /\ Fairness

-----------------------------------------------------------------------------
TypeOK ==
  /\ Len(store) <= Capacity /\ added \in 0..MaxAdded
  /\ active \in Request \cup {None} /\ restarts \in 0..MaxRestarts
  /\ asked \in 0..MaxReplays
  /\ \A m \in net : m.req \in Request /\ m.state \in {"sent", "ok", "failed"}
  /\ {replaying, timer, listError} \subseteq [Tab -> BOOLEAN]
  /\ strays \in [Tab -> Nat]
  /\ \A t \in Tab : Len(shown[t]) <= ListLimit

\* The poll never dies: a tab that is not replaying has a listing under way or a
\* timer that will start one, whatever order answers, failures, timers and the
\* form's events came in.
PollingNeverStops ==
  \A t \in Tab : ~replaying[t] => Listings(t) # {} \/ timer[t] \/ strays[t] > 0

\* The flag and the request of a replay go together: a tab waits for at most one
\* replay, and its form is never locked with no answer to come.
OneReplayPerTab ==
  \A t \in Tab : Cardinality(Replays(t)) = IF replaying[t] THEN 1 ELSE 0

\* When no more replays are asked for, every tab comes to show the newest alerts
\* of the store and keeps doing so, a late answer or a restart notwithstanding.
ShowsLatest ==
  \A t \in Tab : <>[](shown[t] = Snapshot(store, ListLimit) /\ ~listError[t])

\* "The browser uses non-overlapping three-second setTimeout polling": a tab has
\* at most one listing under way.
PollingDoesNotOverlap == \A t \in Tab : Cardinality(Listings(t)) <= 1
=============================================================================
