--------------------------------- MODULE Cli ---------------------------------
(***************************************************************************)
(* main of cli.py: one replay with alerts on stdout, and the exit status by *)
(* which a caller tells a complete run from a failed one ("Exit status is   *)
(* 0 for success, 2 for invalid CLI configuration or PCAP path, and 1 for   *)
(* runtime ... failure").  Replay's NotAFile is main's check of the path    *)
(* and that of run_replay, which main reports alike.                        *)
(***************************************************************************)
EXTENDS Replay

\* A configuration that the constructors refuse, or a model that does not load
\* (build_detection_pipeline): main returns before run_replay.
Refuse ==
  /\ pc = "starting"
  /\ pc' = "done"
  /\ UNCHANGED <<childVars, streamVars, timerVars, drainVars, result>>

NotStarted == {"none", "pcap_not_regular_file"}

\* Faulty: the handler of ReplayError tells the path's error and falls through.
ExitStatusFallingThrough == IF result \in NotStarted THEN 2 ELSE 0

\* What main returns once run_replay is over; the diagnostics of all other
\* errors, StateLimitExceeded included, lead to 1.
ExitStatus ==
  CASE result \in NotStarted -> 2
    [] result = "success" -> 0
    [] OTHER -> 1

CliNext == Next \/ Refuse

CliSpec == /\ Init /\ [][CliNext]_vars
           /\ WF_vars(Runner) /\ WF_vars(Drainer) /\ WF_vars(Tick) /\ WF_vars(ChildDies)

\* The exit status tells the truth: 0 only when the child exited with 0 and all
\* of its events were processed and all of their alerts emitted, and 2 only when
\* no child was ever started.
StatusIsTrue ==
  pc = "done" =>
    /\ ExitStatus = 0 => /\ child = "reaped" /\ exitCode = 0
                         /\ EventsIn(written) = processed /\ pending = 0
                         /\ nParsed = Len(written) /\ drainer = "dead"
    /\ ExitStatus = 2 => child = "none" /\ processed = 0 /\ drainer = "none"
=============================================================================
