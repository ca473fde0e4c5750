----------------------------- MODULE AlertTime ------------------------------
(***************************************************************************)
(* The times of an alert.  The window of a detector (scan_window.py,         *)
(* syn_flood.py) compares capture timestamps as they come, while an alert    *)
(* carries datetimes of whole microseconds, rounded half to even, and its    *)
(* contract (AlertWindow in contracts/alerts.py) compares these with the     *)
(* effective window.  The pieces that PortScan and SynFlood share are        *)
(* modelled for one source: what is in its window, and the alert of each     *)
(* event, thresholds reached or not.                                         *)
(*                                                                           *)
(* Time is in units of 1/Sub microsecond.                                    *)
(***************************************************************************)
EXTENDS Integers, Sequences

CONSTANTS
  Sub,              \* units in a microsecond
  Grid,             \* timestamps are multiples of Grid units
  ConfiguredWindow, \* window_seconds, in units
  MaxTime,          \* bound: timestamps, in units
  MaxEvents         \* bound: events in the window

VARIABLES
  window, \* the timestamps in the window, oldest first
  result  \* of the last event

vars == <<window, result>>

\* round(_, 6) and datetime.fromtimestamp, in microseconds.
Microseconds(t) ==
  LET down == t \div Sub
      rest == 2 * (t % Sub)
  IN  IF rest > Sub \/ (rest = Sub /\ down % 2 = 1) THEN down + 1 ELSE down

\* The detectors round the window they are given and use it everywhere; one
\* that rounds to nothing is refused.
EffectiveWindow == Microseconds(ConfiguredWindow)

InWindow(ts) == SelectSeq(window, LAMBDA t : t >= ts - EffectiveWindow * Sub)

\* AlertWindow.validate_order_and_duration.
Valid(alert) ==
  /\ alert.start <= alert.end
  /\ alert.end - alert.start <= EffectiveWindow

Init == window = <<>> /\ result = [kind |-> "none"]

Event(ts) ==
  /\ ts % Grid = 0
  /\ \A i \in DOMAIN window : window[i] <= ts
  /\ window' = Append(InWindow(ts), ts)
  /\ Len(window') <= MaxEvents
  /\ LET alert == [start |-> Microseconds(Head(window')), end |-> Microseconds(ts)]
     IN  result' = [kind |-> IF Valid(alert) THEN "alert" ELSE "invalid",
                    start |-> alert.start, end |-> alert.end]

Next == \E ts \in 0..MaxTime : Event(ts)

Spec == Init /\ [][Next]_vars

-----------------------------------------------------------------------------
\* "State membership, fixed-window rate, serialized alert duration, and duration
\* validation share the alert timestamp precision": the alert of an event is
\* never refused for the time that its own window spans.
AlertFitsWindow == result.kind # "invalid"
=============================================================================
