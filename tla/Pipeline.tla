------------------------------ MODULE Pipeline ------------------------------
(***************************************************************************)
(* DetectionPipeline (detection/pipeline.py): one call process(event) runs  *)
(* the port-scan detector and then the SYN-flood detector on a SYN attempt, *)
(* and the stateless DGA detector on a DNS query.  An exception of either   *)
(* detector leaves the call at once, with whatever the detectors before it  *)
(* have already done.                                                       *)
(***************************************************************************)
EXTENDS Dga

CONSTANTS
  Source, Host, Port, Uid, Time, None, Log2,
  DedupTtl, MaxDedupUids,       \* the same defaults in both limit records
  ScanWindow, ScanCooldown, MinAttempts, MinPorts, MinHosts,
  MaxActiveSources, MaxAttemptsPerSource, MaxTotalAttempts, MaxCooldownSources,
  FloodWindow, FloodCooldown, MinEvents, MinSources,
  MaxActiveTargets, MaxEventsPerTarget, MaxTotalEvents, MaxCooldownTargets

ASSUME TimeAssumption == Time \subseteq Int /\ None \notin Int

VARIABLES
  scanWatermark, attempts, sources, scanSeen, scanCooldown, scanResult,
  floodWatermark, observations, targets, floodSeen, floodCooldown, floodResult,
  outcome \* what the last call returned (a tuple of alerts) or raised

scanVars  == <<scanWatermark, attempts, sources, scanSeen, scanCooldown, scanResult>>
floodVars == <<floodWatermark, observations, targets, floodSeen, floodCooldown,
               floodResult>>
vars      == <<scanVars, floodVars, outcome>>

Scan == INSTANCE PortScan WITH
  Window <- ScanWindow, Cooldown <- ScanCooldown, watermark <- scanWatermark,
  seen <- scanSeen, cooldown <- scanCooldown, result <- scanResult

Flood == INSTANCE SynFlood WITH
  Window <- FloodWindow, Cooldown <- FloodCooldown, watermark <- floodWatermark,
  seen <- floodSeen, cooldown <- floodCooldown, result <- floodResult

\* A DNS query, with the probability that the model has for its name.
DnsEvent == [name : EventName, probability : Probability]

Raised(r)   == r.kind \in {"regression", "limit"}
AlertsOf(r) == IF r.kind = "alert" THEN <<r>> ELSE <<>>

Returns(alerts) == [kind |-> "returned", alerts |-> alerts]
Raises(r)       == [kind |-> "raised", error |-> r]

Init == Scan!Init /\ Flood!Init /\ outcome = Returns(<<>>)

\* DgaDetector.process keeps no state.
ProcessDns(d) ==
  /\ outcome' = Returns(IF Reports(d.probability)
                         THEN <<DgaAlert(d.name, d.probability)>> ELSE <<>>)
  /\ UNCHANGED <<scanVars, floodVars>>

\* Faulty: the exception of the scan detector does not stop the flood detector.
ScanRaisesLate(e) ==
  /\ Scan!Process(e) /\ Raised(scanResult')
  /\ Flood!Process(e)
  /\ outcome' = Raises(scanResult')

ScanRaises(e) ==
  /\ Scan!Process(e) /\ Raised(scanResult')
  /\ UNCHANGED floodVars
  /\ outcome' = Raises(scanResult')

\* The alert of the scan detector, if any, is in a local list that is lost.
FloodRaises(e) ==
  /\ Scan!Process(e) /\ ~Raised(scanResult')
  /\ Flood!Process(e) /\ Raised(floodResult')
  /\ outcome' = Raises(floodResult')

BothReturn(e) ==
  /\ Scan!Process(e) /\ ~Raised(scanResult')
  /\ Flood!Process(e) /\ ~Raised(floodResult')
  /\ outcome' = Returns(AlertsOf(scanResult') \o AlertsOf(floodResult'))

ProcessSyn(e) == ScanRaises(e) \/ FloodRaises(e) \/ BothReturn(e)

Next == (\E d \in DnsEvent : ProcessDns(d)) \/ (\E e \in Scan!Event : ProcessSyn(e))

Spec == Init /\ [][Next]_vars

-----------------------------------------------------------------------------
\* The flood detector's watermark is never ahead of the scan detector's, although
\* a limit of either leaves the two apart; so the regression check of the scan
\* detector covers both, and the flood detector never raises one.
FloodFollowsScan ==
  /\ floodWatermark # None => scanWatermark # None /\ floodWatermark <= scanWatermark
  /\ floodResult.kind # "regression"

DgaAlerts ==
  IF outcome.kind = "returned" THEN {a \in ToSet(outcome.alerts) : a.kind = "dga"} ELSE {}

\* No DGA alert is refused by its own contract, which normalizes the name,
\* extracts the features and grades the severity a second time: a query name that
\* passed the event contract is a fixed point of its normalization.  A refusal
\* would end the replay with event_processing_failed.
DgaAlertsAreValid == \A a \in DgaAlerts : ValidAlert(a)

\* The runs reported in the evidence are the longest of the name: the count
\* starts anew at each label and misses no run at the end of one.
RunsAreLongest ==
  \A a \in DgaAlerts :
    /\ a.features.consonant_run = LongestStretch(a.query_name, Consonant)
    /\ a.features.digit_run = LongestStretch(a.query_name, Digit)

\* "Return every alert produced for one event before accepting the next": a
\* step in which the scan detector raises an alert returns it.
EveryAlertReturned ==
  [][scanVars' # scanVars /\ scanResult'.kind = "alert" =>
       /\ outcome'.kind = "returned"
       /\ \E i \in DOMAIN outcome'.alerts : outcome'.alerts[i] = scanResult']_vars
=============================================================================
