------------------------------ MODULE Benchmark ------------------------------
(***************************************************************************)
(* run_benchmark.py beside the tools of ModelBuild: a driver asks the       *)
(* fixture generator, in a process of its own, for the capture it produces  *)
(* now, copies the candidate capture while it checks it against that, and   *)
(* has a worker process replay the copy, with the time taken per event and  *)
(* per alert.  Whoever runs it may meanwhile replace or change the          *)
(* candidate, or train another model.                                       *)
(*                                                                          *)
(* A capture is its sequence of packets: "syn", "scan" (the last packet of  *)
(* an incident that raises an alert), or the name that a DNS packet asks    *)
(* for.  A time is the number of the event whose processing it starts.      *)
(***************************************************************************)
EXTENDS ModelBuild

CONSTANTS
  Flags(_),     \* the names that a model scores as DGA
  BenignName,   \* the name in the fixture's benign query
  VerifiedName, \* the DGA name that every fixture has
  Candidates,   \* the proposals of the generator, a sequence of names
  Captures,     \* the captures that may be found at the candidate's path
  MaxMeasured,  \* _MAX_MEASURED_EVENTS
  SinkCap,      \* alerts that the pipe of _ConsumedPipe holds
  MaxChanges    \* bound: changes of the candidate

\* A name is none of the other packets, and no DGA name is the benign one.
ASSUME NamesAssumption ==
  /\ BenignName \notin {"syn", "scan"} /\ VerifiedName \notin {"syn", "scan", BenignName}
  /\ Candidates \in Seq(ToSet(Candidates))
  /\ \A name \in ToSet(Candidates) : name \notin {"syn", "scan", BenignName}

VARIABLES
  path,     \* what is at the candidate's path: [kind, data]
  source,   \* the file behind the driver's descriptor
  linked,   \* it is still the one at the path
  changes,
  phase,    \* where the benchmark is
  info,     \* the generator's answer
  copy,     \* the private copy
  input,    \* the packets the worker has yet to replay
  replayed, \* and those it has been given
  detector, \* the model the worker has loaded
  samples,  \* events measured
  start,    \* _EmissionClock.pending_start
  alerts,   \* alerts emitted, each with its cause and where its latency starts
  sink,     \* alerts in the pipe
  status    \* exit status, or NoStatus

pathVars   == <<path, source, linked, changes>>
workerVars == <<input, replayed, detector, samples, start, alerts, sink>>
benchVars  == <<pathVars, phase, info, copy, workerVars, status>>
vars       == <<buildVars, benchVars>>

NoStatus == 3
NoInfo   == [known |-> FALSE]
Absent   == [kind |-> "none", data |-> <<>>]
AtPath   == [kind : {"file"}, data : Captures] \cup {[Absent EXCEPT !.kind = "fifo"], Absent}

-----------------------------------------------------------------------------
(* The generator. *)

\* The name that every fixture has, and the candidates that the model flags.
VerifiedNames(model) ==
  LET verified[n \in 0 .. Len(Candidates)] ==
        IF n = 0 THEN <<VerifiedName>>
        ELSE IF Candidates[n] \in Flags(model) THEN Append(verified[n - 1], Candidates[n])
        ELSE verified[n - 1]
  IN  verified[Len(Candidates)]

\* build_packets
Fixture(model) == <<"syn", "scan", BenignName>> \o VerifiedNames(model)

\* expected_alert_count_by_class: the incidents, and every DGA name embedded.
ExpectedAlerts(pcap) ==
  [scan |-> 1,
   dga  |-> Cardinality({i \in DOMAIN pcap : pcap[i] \notin {"syn", "scan", BenignName}})]

FixtureInfo(model) ==
  [pcap |-> Fixture(model), events |-> Len(Fixture(model)), byClass |-> ExpectedAlerts(Fixture(model))]

-----------------------------------------------------------------------------
BenchInit ==
  /\ path \in AtPath
  /\ source = Absent /\ linked = FALSE /\ changes = 0
  /\ phase = "starting" /\ info = NoInfo /\ copy = <<>>
  /\ input = <<>> /\ replayed = <<>> /\ detector = Unreadable
  /\ samples = 0 /\ start = 0 /\ alerts = <<>> /\ sink = 0
  /\ status = NoStatus

End(code) == phase' = "ended" /\ status' = code
Go(next)  == phase' = next /\ UNCHANGED status

WorkerIdle == UNCHANGED workerVars
DriverIdle == UNCHANGED <<pathVars, info, copy>>

\* main, and the generator's process, which loads the model that is packaged now.
Begins ==
  /\ phase = "starting"
  /\ IF path.kind = "file" THEN Go("generating") ELSE End(2)
  /\ DriverIdle /\ WorkerIdle

Generate ==
  /\ phase = "generating"
  /\ IF Loads THEN info' = FixtureInfo(artifact) /\ Go("opening")
              ELSE UNCHANGED info /\ End(2)
  /\ UNCHANGED <<pathVars, copy>> /\ WorkerIdle

\* Faulty: the open waits for a writer of a FIFO.
OpenBlocking ==
  /\ phase = "opening" /\ path.kind # "fifo"
  /\ IF path.kind = "file" THEN Go("copying") ELSE End(2)
  /\ source' = path /\ linked' = TRUE
  /\ UNCHANGED <<path, changes, info, copy>> /\ WorkerIdle

\* O_NONBLOCK does not wait for one, and fstat then refuses it.
Open ==
  /\ phase = "opening"
  /\ IF path.kind = "file" THEN Go("copying") ELSE End(2)
  /\ source' = path /\ linked' = TRUE
  /\ UNCHANGED <<path, changes, info, copy>> /\ WorkerIdle

\* One turn of the read loop, which stops at the limit or at the end of the file.
ReadLimit == Len(info.pcap) + 1

CopyPacket ==
  /\ phase = "copying"
  /\ Len(copy) < ReadLimit /\ Len(copy) < Len(source.data)
  /\ copy' = Append(copy, source.data[Len(copy) + 1])
  /\ UNCHANGED <<pathVars, phase, info, status>> /\ WorkerIdle

\* Size and digest are those of the bytes that were copied.
Validate ==
  /\ phase = "copying"
  /\ Len(copy) >= ReadLimit \/ Len(copy) >= Len(source.data)
  /\ IF copy = info.pcap THEN Go("spawning") ELSE End(2)
  /\ DriverIdle /\ WorkerIdle

\* Faulty: the worker is given the path.
WorkerInputIsPath == path.data

WorkerInput == copy

\* _run_worker and _measure_replay up to the replay; the worker loads the model.
StartWorker ==
  /\ phase = "spawning"
  /\ IF Loads THEN detector' = artifact /\ input' = WorkerInput /\ Go("replaying")
              ELSE UNCHANGED <<detector, input>> /\ End(1)
  /\ DriverIdle /\ UNCHANGED <<replayed, samples, start, alerts, sink>>

-----------------------------------------------------------------------------
(* The worker. *)

RaisesAlert(packet) == packet = "scan" \/ packet \in Flags(detector)

Measured == samples < MaxMeasured

\* TimingPipeline.process sets pending_start anew.
PendingStart == samples + 1

ProcessEvent ==
  /\ phase = "replaying" /\ input # <<>> /\ Measured
  /\ replayed' = Append(replayed, Head(input)) /\ input' = Tail(input)
  /\ samples' = samples + 1 /\ start' = PendingStart
  /\ IF RaisesAlert(Head(input)) THEN Go("emitting") ELSE Go("replaying")
  /\ DriverIdle /\ UNCHANGED <<detector, alerts, sink>>

\* A packet for which Zeek has no event any more.
LosePacket ==
  /\ phase = "replaying" /\ input # <<>>
  /\ input' = Tail(input)
  /\ DriverIdle /\ UNCHANGED <<phase, replayed, detector, samples, start, alerts, sink, status>>

TooManyEvents ==
  /\ phase = "replaying" /\ input # <<>> /\ ~Measured
  /\ End(1)
  /\ DriverIdle /\ WorkerIdle

\* emit_alert: write, flush, and only then the end of the latency.
EmitAlert ==
  /\ phase = "emitting" /\ sink < SinkCap
  /\ sink' = sink + 1
  /\ alerts' = Append(alerts, [packet |-> Last(replayed), cause |-> samples,
                               from |-> start])
  /\ Go("replaying")
  /\ DriverIdle /\ UNCHANGED <<input, replayed, detector, samples, start>>

\* The thread that drains the pipe.
DrainSink ==
  /\ sink > 0
  /\ sink' = sink - 1
  /\ UNCHANGED <<pathVars, phase, info, copy, input, replayed, detector, samples, start,
                 alerts, status>>

AlertsByClass ==
  LET scans == Cardinality({i \in DOMAIN alerts : alerts[i].packet = "scan"})
  IN  [scan |-> scans, dga |-> Len(alerts) - scans]

\* Faulty: what was replayed is taken for what was expected.
VerifiedEventsOnly == samples = info.events

\* _verify_replay_matches_manifest, after the check that there was an event.
Verified == samples = info.events /\ AlertsByClass = info.byClass

Report ==
  /\ phase = "replaying" /\ input = <<>>
  /\ IF samples > 0 /\ Verified THEN End(0) ELSE End(1)
  /\ DriverIdle /\ WorkerIdle

\* The generator or the worker is late (TimeoutExpired reaches the interpreter),
\* or the replay fails.
Fails ==
  /\ phase \in {"generating", "replaying", "emitting"}
  /\ End(1)
  /\ DriverIdle /\ WorkerIdle

-----------------------------------------------------------------------------
\* Another file is moved to the path; the descriptor keeps the one it has.
Replace ==
  /\ changes < MaxChanges /\ phase # "ended"
  /\ path' \in AtPath
  /\ linked' = FALSE
  /\ changes' = changes + 1
  /\ UNCHANGED <<source, phase, info, copy, status>> /\ WorkerIdle

\* The file at the path is written to in place, or something is appended to it.
Rewrite ==
  /\ changes < MaxChanges /\ phase # "ended" /\ path.kind = "file"
  /\ \E data \in Captures \cup {Append(path.data, "syn")} : path' = [path EXCEPT !.data = data]
  /\ source' = IF linked THEN path' ELSE source
  /\ changes' = changes + 1
  /\ UNCHANGED <<linked, phase, info, copy, status>> /\ WorkerIdle

Progress ==
  \/ Begins \/ Generate \/ Open \/ CopyPacket \/ Validate \/ StartWorker
  \/ ProcessEvent \/ TooManyEvents \/ EmitAlert \/ Report

Environment == Replace \/ Rewrite \/ LosePacket \/ Fails

Init == BuildInit /\ BenchInit
\* Bound: the tools run before and beside the benchmark, not after it.
Next == \/ (Progress \/ DrainSink \/ Environment) /\ UNCHANGED buildVars
        \/ BuildNext /\ phase # "ended" /\ UNCHANGED benchVars

\* The processes and the draining thread are scheduled.  Nothing is owed by who
\* changes files, by the tools of ModelBuild or by a timeout.
Spec == /\ Init /\ [][Next]_vars
        /\ WF_vars(Progress /\ UNCHANGED buildVars) /\ WF_vars(DrainSink /\ UNCHANGED buildVars)

-----------------------------------------------------------------------------
\* What the worker replays is, packet for packet, what the generator produced
\* for this run, whatever became of the candidate while it was read or since.
ReplayedIsValidated ==
  phase \in {"replaying", "emitting"} =>
    /\ Len(replayed) + Len(input) <= Len(info.pcap)
    /\ \A i \in DOMAIN input :
         input[i] = info.pcap[Len(info.pcap) - Len(input) + i]

\* A benchmark that reports (status 0) has replayed every packet of the fixture;
\* each alert's latency starts with the event that caused it, in the order of
\* the events; and as many packets raised alerts as the generator's model flags,
\* even if the worker has loaded another.
ReportIsHonest ==
  status = 0 =>
    /\ replayed = info.pcap /\ samples = Len(info.pcap)
    /\ \A i \in DOMAIN alerts :
         /\ alerts[i].from = alerts[i].cause /\ alerts[i].packet = replayed[alerts[i].cause]
         /\ i > 1 => alerts[i - 1].cause < alerts[i].cause
    /\ Len(alerts) = Cardinality({i \in DOMAIN replayed : RaisesAlert(replayed[i])})
    /\ Len(alerts) = Len(info.pcap) - 2

\* A benchmark ends without help from its timeouts: the open of a FIFO does not
\* hold it up, no file is too long for it, and the pipe is drained.
BenchmarkEnds == <>(phase = "ended")
=============================================================================
