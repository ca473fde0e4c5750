----------------------------- MODULE ZeekReplay -----------------------------
(***************************************************************************)
(* Replay with the child it is written for: Zeek with the packaged policy   *)
(* (zeek/emit_events.zeek), which prints an event for an originator's SYN    *)
(* packet and for a DNS request over UDP or TCP, flushes, and at zeek_done   *)
(* prints the sentinel.  Zeek's network time never goes back.  The module    *)
(* says what Replay's arbitrary child cannot: that a replay succeeds.        *)
(***************************************************************************)
EXTENDS Replay

VARIABLES
  emitted_events, \* the policy's global of that name
  last_event_ts,  \* likewise; 0 before the first event
  finished        \* zeek_done has run

policyVars == <<emitted_events, last_event_ts, finished>>
zeekVars   == <<vars, policyVars>>

ZeekInit == Init /\ emitted_events = 0 /\ last_event_ts = 0 /\ finished = FALSE

PrintsUnit(u) ==
  /\ child = "running" /\ Len(written) - nRead < PipeCap
  /\ written' = Append(written, u)
  /\ ChildKeeps /\ UNCHANGED <<errWritten, child, exitCode, orphan>>

\* Faulty: a second event at the same time is taken for the first one.
RecordEmissionOfNewTime(ts) ==
  /\ emitted_events' = IF ts = last_event_ts THEN emitted_events ELSE emitted_events + 1
  /\ last_event_ts' = ts

RecordEmission(ts) ==
  /\ emitted_events' = emitted_events + 1
  /\ last_event_ts' = ts

\* connection_SYN_packet, dns_request: the room left is for the sentinel.
EmitsEvent ==
  /\ ~finished /\ Len(written) < MaxUnits - 1
  /\ \E ts \in Times :
       /\ ts >= last_event_ts
       /\ PrintsUnit([kind |-> "event", ts |-> ts])
       /\ RecordEmission(ts)
  /\ UNCHANGED finished

\* A line longer than the pipe has room for arrives in pieces.
PrintsPart ==
  /\ ~finished /\ Len(written) < MaxUnits - 2
  /\ \A i \in DOMAIN written : i = Len(written) => written[i].kind # "part"
  /\ PrintsUnit([kind |-> "part"])
  /\ UNCHANGED policyVars

ZeekDone ==
  /\ ~finished
  /\ Len(written) > 0 => written[Len(written)].kind # "part"
  /\ PrintsUnit([kind |-> "eos", count |-> emitted_events,
                 ts |-> IF emitted_events > 0 THEN last_event_ts ELSE 0])
  /\ finished' = TRUE
  /\ UNCHANGED <<emitted_events, last_event_ts>>

ZeekWarns == ChildWritesErr /\ UNCHANGED policyVars

\* Zeek is through with the capture and with what it has to say on stderr.
ZeekExits ==
  /\ finished /\ errWritten = MaxErr
  /\ ChildExits /\ exitCode' = 0
  /\ UNCHANGED policyVars

Zeek == EmitsEvent \/ PrintsPart \/ ZeekDone \/ ZeekWarns \/ ZeekExits

RunnerStep  == Runs /\ UNCHANGED policyVars
DrainerStep == Drainer /\ UNCHANGED policyVars
AllDone     == Finished /\ UNCHANGED policyVars

\* Zeek and the threads get to run before any deadline comes nearer, and
\* neither a detector nor the callback raises.
ZeekSpec ==
  /\ ZeekInit /\ [][Zeek \/ RunnerStep \/ DrainerStep \/ AllDone]_zeekVars
  /\ WF_zeekVars(RunnerStep) /\ WF_zeekVars(DrainerStep)
  /\ WF_zeekVars(EmitsEvent \/ ZeekDone) /\ WF_zeekVars(ZeekWarns) /\ WF_zeekVars(ZeekExits)

-----------------------------------------------------------------------------
\* The checks of the runner accept what the policy writes: a replay of Zeek
\* succeeds, with every event it printed processed.  It does so although both
\* pipes are smaller than what Zeek writes: "Zeek stderr is drained concurrently
\* to prevent a full pipe from deadlocking stdout consumption", and no deadline
\* helps here.  (A query name that the contract refuses makes a record invalid,
\* which is Replay's RejectRecord.)
ZeekReplaySucceeds ==
  <>[](pc = "done" /\ result = "success" /\ processed = emitted_events)
=============================================================================
