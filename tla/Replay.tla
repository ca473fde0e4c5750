------------------------------- MODULE Replay -------------------------------
(***************************************************************************)
(* run_replay and run_command (replay.py): the runner reads records from   *)
(* the stdout of a Zeek child, hands the events to the detectors, and after *)
(* the end-of-stream sentinel (EOS) checks that the child is finished, all  *)
(* of it under deadlines; a drainer thread empties the child's stderr.  The *)
(* child may stall, stop, write without end, ignore SIGTERM, or leave behind *)
(* a descendant that keeps both pipes open and writes to them.              *)
(*                                                                          *)
(* What the child writes to stdout is one sequence, written.  The runner    *)
(* has taken the first nRead units out of the pipe, and the first nParsed   *)
(* of them out of its buffer, so the pipe and the buffer are slices of      *)
(* written.  A unit is a piece of a line ("part") or what ends a line: an   *)
(* event, a sentinel or an invalid record.  Deadlines count down in ticks.  *)
(***************************************************************************)
EXTENDS Integers, Sequences, FiniteSets

CONSTANTS
  MaxUnits,     \* bound: units written to stdout that the model keeps
  MaxErr,       \* bound: chunks written to stderr that the model keeps
  MaxTime,      \* bound: capture timestamps are 1..MaxTime, 0 is none
  MaxAlerts,    \* alerts the detectors return for one event
  PipeCap,      \* units the stdout pipe holds
  ErrCap,       \* chunks the stderr pipe holds
  MaxLine,      \* MAX_LINE_BYTES, in units
  WaitTicks,    \* PROCESS_WAIT_SECONDS
  ReserveTicks  \* STDERR_SHUTDOWN_RESERVE_SECONDS

ASSUME ReplayConstants ==
  /\ {MaxUnits, MaxErr, MaxTime, MaxAlerts, ReserveTicks} \subseteq Nat
  /\ {PipeCap, ErrCap, MaxLine, WaitTicks} \subseteq Nat \ {0}
  /\ ReserveTicks < WaitTicks

VARIABLES
  written,     \* units that the child and its descendant have written to stdout
  errWritten,  \* chunks they have written to stderr
  child,       \* "none", "running", "exited" (a zombie) or "reaped"
  exitCode,
  signal,      \* the last signal the runner sent: "none", "term" or "kill"
  orphan,      \* a descendant of the child holds both pipes open
  pc,          \* where the runner is in run_command
  nRead, nParsed,
  processed,   \* events_processed
  lastTs,      \* last_event_ts, 0 for None
  pending,     \* alerts of the current event still to emit
  eos,         \* position in written of the accepted sentinel, 0 before it
  result,      \* "none", "success" or the diagnostic of the failure
  idle,        \* ticks to the inactivity deadline of _read_bounded_line
  left,        \* ticks to the post-EOS deadline
  wait,        \* ticks to the timeout of the runner's blocking call
  drainer,     \* "none", "alive" or "dead"
  stop,        \* stderr_stop is set
  errRead,     \* chunks the drainer has read
  stderrOpen   \* the runner's end of the stderr pipe

childVars  == <<written, errWritten, child, exitCode, signal, orphan>>
streamVars == <<nRead, nParsed, processed, lastTs, pending, eos>>
timerVars  == <<idle, left, wait>>
drainVars  == <<drainer, stop, errRead, stderrOpen>>
vars == <<childVars, streamVars, timerVars, drainVars, pc, result>>

Times == 1..MaxTime

\* The sentinel omits last_event_ts exactly when it counts no event.
Sentinels(counts) ==
  {s \in [kind : {"eos"}, count : counts, ts : 0..MaxTime] : (s.count = 0) <=> (s.ts = 0)}

EventsIn(units) == Cardinality({i \in DOMAIN units : units[i].kind = "event"})

\* A sentinel may be right, count one event too many, or name another time.
Unit ==
  [kind : {"event"}, ts : Times] \cup [kind : {"part", "invalid"}]
    \cup Sentinels({EventsIn(written), EventsIn(written) + 1})

-----------------------------------------------------------------------------
\* The pipes and the buffer.

InPipe   == nRead < Len(written)
Buffered == nRead - nParsed

LineEnds  == {i \in nParsed + 1 .. nRead : written[i].kind # "part"}
HasLine   == LineEnds # {}
LineEnd   == CHOOSE i \in LineEnds : \A j \in LineEnds : i <= j
Line      == written[LineEnd]
LineFits  == LineEnd - nParsed <= MaxLine

HasWriter  == child = "running" \/ orphan
WriterGone == child \in {"exited", "reaped"} /\ ~orphan

\* Faulty: an exit of the child is taken for the end of its output.
StdoutEofAtExit == child \in {"exited", "reaped"} /\ ~InPipe

StdoutEof  == WriterGone /\ ~InPipe
StderrEof  == WriterGone /\ errRead = errWritten

\* Faulty: only the first piece of the line is looked at.
AfterEosByPiece(from, to) ==
  IF written[from].kind = "eos" THEN "duplicate_end_of_stream" ELSE "data_after_end_of_stream"

\* The diagnostic for the units that follow the sentinel and were read together:
\* their first line is a sentinel, or anything else, its beginning included.
AfterEos(from, to) ==
  IF \E n \in from .. to : /\ written[n].kind = "eos" /\ n - from < MaxLine
                           /\ \A i \in from .. n - 1 : written[i].kind = "part"
  THEN "duplicate_end_of_stream" ELSE "data_after_end_of_stream"

-----------------------------------------------------------------------------
Init ==
  /\ written = <<>> /\ errWritten = 0 /\ child = "none" /\ exitCode = 0
  /\ signal = "none" /\ orphan = FALSE
  /\ nRead = 0 /\ nParsed = 0 /\ processed = 0 /\ lastTs = 0 /\ pending = 0 /\ eos = 0
  /\ idle = 0 /\ left = 0 /\ wait = 0
  /\ drainer = "none" /\ stop = FALSE /\ errRead = 0 /\ stderrOpen = FALSE
  /\ pc = "starting" /\ result = "none"

\* An exception leaves the try block for its finally clause.
Fail(diagnostic) ==
  /\ result' = diagnostic /\ pc' = "stopping_child"
  /\ idle' = 0 /\ wait' = 0 /\ pending' = 0 /\ UNCHANGED left

\* What every step of the runner after the start leaves alone, but the child.
RunnerKeeps == UNCHANGED <<written, errWritten, orphan, errRead, drainer>>

ChildKept == UNCHANGED <<child, exitCode, signal>>
PipesKept == UNCHANGED <<stop, stderrOpen>>

-----------------------------------------------------------------------------
\* Starting.

NotAFile ==
  /\ pc = "starting"
  /\ pc' = "done" /\ result' = "pcap_not_regular_file"
  /\ UNCHANGED <<childVars, streamVars, timerVars, drainVars>>

SpawnFails ==
  /\ pc = "starting"
  /\ pc' = "done" /\ result' = "child_start_failed"
  /\ UNCHANGED <<childVars, streamVars, timerVars, drainVars>>

Spawn ==
  /\ pc = "starting"
  /\ child' = "running" /\ drainer' = "alive" /\ stderrOpen' = TRUE
  /\ pc' = "reading" /\ idle' = WaitTicks
  /\ UNCHANGED <<written, errWritten, exitCode, signal, orphan, streamVars, left, wait,
                 stop, errRead, result>>

-----------------------------------------------------------------------------
\* _read_bounded_line: each chunk restarts the inactivity deadline.

ReadChunk ==
  /\ pc = "reading" /\ ~HasLine /\ Buffered <= MaxLine
  /\ InPipe
  /\ nRead' \in nRead + 1 .. Len(written)
  /\ idle' = WaitTicks
  /\ RunnerKeeps /\ ChildKept /\ PipesKept
  /\ UNCHANGED <<nParsed, processed, lastTs, pending, eos, left, wait, pc, result>>

\* What is left in the buffer at the end of file is a line without its newline.
ReadEof ==
  /\ pc = "reading" /\ ~HasLine /\ Buffered <= MaxLine
  /\ StdoutEof
  /\ Fail(IF Buffered = 0 THEN "missing_end_of_stream" ELSE "invalid_stream_record")
  /\ nParsed' = nRead
  /\ RunnerKeeps /\ ChildKept /\ PipesKept
  /\ UNCHANGED <<nRead, processed, lastTs, eos>>

\* Faulty: the inactivity deadline watches only for the first byte of a line.
InactiveBetweenLines ==
  /\ pc = "reading" /\ ~HasLine /\ Buffered = 0
  /\ idle = 0
  /\ Fail("pre_end_of_stream_timeout")
  /\ RunnerKeeps /\ ChildKept /\ PipesKept
  /\ UNCHANGED <<nRead, nParsed, processed, lastTs, eos>>

Inactive ==
  /\ pc = "reading" /\ ~HasLine /\ Buffered <= MaxLine
  /\ idle = 0
  /\ Fail("pre_end_of_stream_timeout")
  /\ RunnerKeeps /\ ChildKept /\ PipesKept
  /\ UNCHANGED <<nRead, nParsed, processed, lastTs, eos>>

LineTooLong ==
  /\ pc = "reading"
  /\ IF HasLine THEN ~LineFits ELSE Buffered > MaxLine
  /\ Fail("stream_line_too_long")
  /\ nParsed' = IF HasLine THEN LineEnd ELSE nParsed
  /\ RunnerKeeps /\ ChildKept /\ PipesKept
  /\ UNCHANGED <<nRead, processed, lastTs, eos>>

\* The record loop of run_command.

HasRecord == pc = "reading" /\ HasLine /\ LineFits

RejectRecord ==
  /\ HasRecord
  /\ \/ Line.kind = "invalid" /\ Fail("invalid_stream_record")
     \/ Line.kind = "event" /\ Line.ts < lastTs /\ Fail("timestamp_regression")
  /\ nParsed' = LineEnd
  /\ RunnerKeeps /\ ChildKept /\ PipesKept
  /\ UNCHANGED <<nRead, processed, lastTs, eos>>

DetectorDiagnostic ==
  {"timestamp_regression", "state_limit_exceeded", "event_processing_failed"}

DetectorRaises ==
  /\ HasRecord /\ Line.kind = "event" /\ Line.ts >= lastTs
  /\ \E diagnostic \in DetectorDiagnostic : Fail(diagnostic)
  /\ nParsed' = LineEnd
  /\ RunnerKeeps /\ ChildKept /\ PipesKept
  /\ UNCHANGED <<nRead, processed, lastTs, eos>>

ProcessEvent ==
  /\ HasRecord /\ Line.kind = "event" /\ Line.ts >= lastTs
  /\ nParsed' = LineEnd
  /\ processed' = processed + 1 /\ lastTs' = Line.ts
  /\ pending' \in 0..MaxAlerts
  /\ IF pending' = 0 THEN pc' = "reading" /\ idle' = WaitTicks
                     ELSE pc' = "emitting" /\ idle' = 0
  /\ RunnerKeeps /\ ChildKept /\ PipesKept
  /\ UNCHANGED <<nRead, eos, left, wait, result>>

EmitAlert ==
  /\ pc = "emitting"
  /\ pending' = pending - 1
  /\ IF pending' = 0 THEN pc' = "reading" /\ idle' = WaitTicks
                     ELSE UNCHANGED <<pc, idle>>
  /\ RunnerKeeps /\ ChildKept /\ PipesKept
  /\ UNCHANGED <<nRead, nParsed, processed, lastTs, eos, left, wait, result>>

EmitFails ==
  /\ pc = "emitting"
  /\ Fail("alert_callback_failed")
  /\ RunnerKeeps /\ ChildKept /\ PipesKept
  /\ UNCHANGED <<nRead, nParsed, processed, lastTs, eos>>

\* Faulty: the sentinel stays in the buffer.
AcceptEosInPlace ==
  /\ HasRecord /\ Line.kind = "eos"
  /\ eos' = LineEnd
  /\ left' = WaitTicks /\ idle' = 0
  /\ pc' = "accounting"
  /\ RunnerKeeps /\ ChildKept /\ PipesKept
  /\ UNCHANGED <<nRead, nParsed, processed, lastTs, pending, wait, result>>

AcceptEos ==
  /\ HasRecord /\ Line.kind = "eos"
  /\ nParsed' = LineEnd /\ eos' = LineEnd
  /\ left' = WaitTicks /\ idle' = 0
  /\ pc' = "accounting"
  /\ RunnerKeeps /\ ChildKept /\ PipesKept
  /\ UNCHANGED <<nRead, processed, lastTs, pending, wait, result>>

-----------------------------------------------------------------------------
\* After the sentinel: one deadline for the exit, the end of stdout and the
\* drainer.  A wait is given what is left of it.

AccountsMatch == written[eos].count = processed /\ written[eos].ts = lastTs

CheckAccounts ==
  /\ pc = "accounting"
  /\ CASE written[eos].count # processed -> Fail("end_of_stream_count_mismatch")
       [] written[eos].count = processed /\ ~AccountsMatch ->
            Fail("end_of_stream_timestamp_mismatch")
       [] AccountsMatch /\ left = 0 -> Fail("post_end_of_stream_timeout")
       [] AccountsMatch /\ left > 0 ->
            /\ pc' = "awaiting_exit" /\ wait' = left
            /\ UNCHANGED <<idle, left, pending, result>>
  /\ RunnerKeeps /\ ChildKept /\ PipesKept
  /\ UNCHANGED <<nRead, nParsed, processed, lastTs, eos>>

\* Faulty: stdout is polled, not waited for.
ChildHasExitedPolling ==
  /\ pc = "awaiting_exit" /\ child = "exited"
  /\ child' = "reaped"
  /\ IF Buffered > 0 THEN Fail(AfterEos(nParsed + 1, nRead))
     ELSE /\ pc' = "awaiting_stdout" /\ wait' = 0
          /\ UNCHANGED <<idle, left, pending, result>>
  /\ RunnerKeeps /\ PipesKept
  /\ UNCHANGED <<exitCode, signal, nRead, nParsed, processed, lastTs, eos>>

\* wait() has reaped the child; then _wait_for_post_eos_stdout begins.
ChildHasExited ==
  /\ pc = "awaiting_exit" /\ child = "exited"
  /\ child' = "reaped"
  /\ CASE Buffered > 0 -> Fail(AfterEos(nParsed + 1, nRead))
       [] Buffered = 0 /\ left = 0 -> Fail("post_end_of_stream_timeout")
       [] Buffered = 0 /\ left > 0 ->
            /\ pc' = "awaiting_stdout"
            /\ wait' = IF left > ReserveTicks THEN left - ReserveTicks ELSE 0
            /\ UNCHANGED <<idle, left, pending, result>>
  /\ RunnerKeeps /\ PipesKept
  /\ UNCHANGED <<exitCode, signal, nRead, nParsed, processed, lastTs, eos>>

DataAfterEos ==
  /\ pc = "awaiting_stdout" /\ InPipe
  /\ nRead' \in nRead + 1 .. Len(written)
  /\ Fail(AfterEos(nRead + 1, nRead'))
  /\ RunnerKeeps /\ ChildKept /\ PipesKept
  /\ UNCHANGED <<nParsed, processed, lastTs, eos>>

StdoutHasEnded ==
  /\ pc = "awaiting_stdout" /\ StdoutEof
  /\ IF left = 0 THEN Fail("post_end_of_stream_timeout")
     ELSE /\ pc' = "joining" /\ wait' = left
          /\ UNCHANGED <<idle, left, pending, result>>
  /\ RunnerKeeps /\ ChildKept /\ PipesKept
  /\ UNCHANGED <<nRead, nParsed, processed, lastTs, eos>>

DrainerHasEnded ==
  /\ pc = "joining" /\ drainer = "dead"
  /\ IF exitCode # 0 THEN Fail("child_exit_nonzero")
     ELSE /\ result' = "success" /\ pc' = "stopping_child" /\ wait' = 0
          /\ UNCHANGED <<idle, left, pending>>
  /\ RunnerKeeps /\ ChildKept /\ PipesKept
  /\ UNCHANGED <<nRead, nParsed, processed, lastTs, eos>>

Late ==
  /\ wait = 0
  /\ \/ pc = "awaiting_exit"
     \/ pc = "awaiting_stdout" /\ ~InPipe /\ ~StdoutEof
     \/ pc = "joining" /\ drainer = "alive"
  /\ Fail("post_end_of_stream_timeout")
  /\ RunnerKeeps /\ ChildKept /\ PipesKept
  /\ UNCHANGED <<nRead, nParsed, processed, lastTs, eos>>

-----------------------------------------------------------------------------
\* The finally clause, with what is left of the deadline or a grace of its own.

\* Faulty: each stage of the cleanup starts a budget of its own.
FreshGrace == WaitTicks

Grace == IF eos # 0 THEN left ELSE WaitTicks

CleanupKeeps == UNCHANGED <<streamVars, idle, left, exitCode, result>> /\ RunnerKeeps

\* _stop_and_reap, when the child is already gone.
Reap ==
  /\ pc \in {"stopping_child", "terminating", "killing"}
  /\ child \in {"exited", "reaped"}
  /\ child' = "reaped"
  /\ pc' = "stopping_drainer" /\ wait' = 0
  /\ CleanupKeeps /\ PipesKept /\ UNCHANGED signal

Terminate ==
  /\ pc = "stopping_child" /\ child = "running"
  /\ wait' = Grace
  /\ IF Grace > 0 THEN pc' = "terminating" /\ signal' = "term"
                  ELSE pc' = "killing" /\ signal' = "kill"
  /\ CleanupKeeps /\ PipesKept /\ UNCHANGED child

\* Faulty: the killed child is not waited for.
KillUnwaited ==
  /\ pc = "terminating" /\ wait = 0
  /\ pc' = "stopping_drainer" /\ signal' = "kill"
  /\ CleanupKeeps /\ PipesKept /\ UNCHANGED <<child, wait>>

Kill ==
  /\ pc = "terminating" /\ wait = 0
  /\ pc' = "killing" /\ signal' = "kill"
  /\ CleanupKeeps /\ PipesKept /\ UNCHANGED <<child, wait>>

\* Faulty: the drainer is joined without being told to stop.
StopDrainerUntold ==
  /\ pc = "stopping_drainer"
  /\ pc' = "joining_drainer" /\ wait' = Grace
  /\ CleanupKeeps /\ UNCHANGED <<child, signal, stop, stderrOpen>>

StopDrainer ==
  /\ pc = "stopping_drainer"
  /\ stop' = TRUE
  /\ pc' = "joining_drainer" /\ wait' = Grace
  /\ CleanupKeeps /\ UNCHANGED <<child, signal, stderrOpen>>

CloseStderr ==
  /\ pc = "joining_drainer"
  /\ drainer = "dead" \/ wait = 0
  /\ stderrOpen' = FALSE
  /\ pc' = "done" /\ wait' = 0
  /\ CleanupKeeps /\ UNCHANGED <<child, signal, stop>>

-----------------------------------------------------------------------------
\* The child and its descendant.

ChildKeeps == UNCHANGED <<streamVars, timerVars, drainVars, pc, result, signal>>

\* The runner has closed its end of stdout, where a write fails.
StdoutClosed == pc \in {"stopping_drainer", "joining_drainer", "done"}

ChildWrites ==
  /\ HasWriter /\ ~StdoutClosed /\ Len(written) < MaxUnits
  /\ Len(written) - nRead < PipeCap
  /\ \E u \in Unit : written' = Append(written, u)
  /\ ChildKeeps /\ UNCHANGED <<errWritten, child, exitCode, orphan>>

\* Events written and processed when the bound is reached, for as long as there
\* is a writer: the model keeps of them what they do to the deadline.
ChildWritesOn ==
  /\ HasWriter /\ Len(written) = MaxUnits
  /\ pc = "reading" /\ nParsed = Len(written)
  /\ idle' = WaitTicks
  /\ UNCHANGED <<childVars, streamVars, drainVars, left, wait, pc, result>>

\* (More chunks than MaxErr would change nothing: no deadline depends on stderr.)
ChildWritesErr ==
  /\ HasWriter /\ stderrOpen /\ errWritten < MaxErr
  /\ errWritten - errRead < ErrCap
  /\ errWritten' = errWritten + 1
  /\ ChildKeeps /\ UNCHANGED <<written, child, exitCode, orphan>>

ChildForks ==
  /\ child = "running" /\ ~orphan
  /\ orphan' = TRUE
  /\ ChildKeeps /\ UNCHANGED <<written, errWritten, child, exitCode>>

ChildExits ==
  /\ child = "running"
  /\ child' = "exited" /\ exitCode' \in {0, 1}
  /\ ChildKeeps /\ UNCHANGED <<written, errWritten, orphan>>

ChildDies ==
  /\ child = "running" /\ signal = "kill"
  /\ child' = "exited" /\ exitCode' = 1
  /\ ChildKeeps /\ UNCHANGED <<written, errWritten, orphan>>

OrphanExits ==
  /\ orphan
  /\ orphan' = FALSE
  /\ ChildKeeps /\ UNCHANGED <<written, errWritten, child, exitCode>>

\* _drain_stderr.  A closed pipe raises in the drainer, which ends it too.

DrainerKeeps == UNCHANGED <<childVars, streamVars, timerVars, pc, result, stop, stderrOpen>>

DrainChunk ==
  /\ drainer = "alive" /\ stderrOpen /\ errRead < errWritten
  /\ errRead' = errRead + 1
  /\ DrainerKeeps /\ UNCHANGED drainer

DrainEnds ==
  /\ drainer = "alive"
  /\ stop \/ (stderrOpen /\ StderrEof)
  /\ drainer' = "dead"
  /\ DrainerKeeps /\ UNCHANGED errRead

Tick ==
  /\ idle + left + wait > 0
  /\ idle' = IF idle > 0 THEN idle - 1 ELSE 0
  /\ left' = IF left > 0 THEN left - 1 ELSE 0
  /\ wait' = IF wait > 0 THEN wait - 1 ELSE 0
  /\ UNCHANGED <<childVars, streamVars, drainVars, pc, result>>

\* run_command has returned or raised.
Finished == pc = "done" /\ UNCHANGED vars

-----------------------------------------------------------------------------
\* What the runner does about the child, and what its surroundings do to it.
Runs ==
  \/ Spawn
  \/ ReadChunk \/ ReadEof \/ Inactive \/ LineTooLong
  \/ RejectRecord \/ ProcessEvent \/ EmitAlert \/ AcceptEos
  \/ CheckAccounts \/ ChildHasExited \/ DataAfterEos \/ StdoutHasEnded
  \/ DrainerHasEnded \/ Late
  \/ Reap \/ Terminate \/ Kill \/ StopDrainer \/ CloseStderr

Interference == NotAFile \/ SpawnFails \/ DetectorRaises \/ EmitFails

Runner == Runs \/ Interference

Child == ChildWrites \/ ChildWritesOn \/ ChildWritesErr \/ ChildForks \/ ChildExits \/ ChildDies \/ OrphanExits

Drainer == DrainChunk \/ DrainEnds

Next == Runner \/ Child \/ Drainer \/ Tick \/ Finished

\* The child is owed nothing but its death by SIGKILL.  The drainer tests stop
\* before each chunk, so more chunks than MaxErr could not keep it from ending.
Spec == /\ Init /\ [][Next]_vars
        /\ WF_vars(Runner) /\ WF_vars(Drainer) /\ WF_vars(Tick) /\ WF_vars(ChildDies)

\* Threads that are never starved: time passes only while both of them wait.
PromptTick == ~ENABLED (Runner \/ Drainer) /\ Tick

PromptSpec == Init /\ [][Runner \/ Child \/ Drainer \/ PromptTick \/ Finished]_vars

-----------------------------------------------------------------------------
Diagnostic ==
  {"pcap_not_regular_file", "child_start_failed", "missing_end_of_stream",
   "invalid_stream_record", "pre_end_of_stream_timeout", "stream_line_too_long",
   "alert_callback_failed", "end_of_stream_count_mismatch",
   "end_of_stream_timestamp_mismatch", "post_end_of_stream_timeout",
   "duplicate_end_of_stream", "data_after_end_of_stream", "child_exit_nonzero"}
    \cup DetectorDiagnostic

\* The types of the variables, and that no position or deadline is out of range.
TypeOK ==
  /\ Len(written) <= MaxUnits
  /\ nParsed \in 0..nRead /\ nRead \in 0..Len(written) /\ eos \in 0..nParsed
  /\ errRead \in 0..errWritten /\ errWritten \in 0..MaxErr
  /\ processed \in 0..nParsed /\ lastTs \in 0..MaxTime /\ pending \in 0..MaxAlerts
  /\ child \in {"none", "running", "exited", "reaped"} /\ exitCode \in {0, 1}
  /\ signal \in {"none", "term", "kill"}
  /\ {idle, left, wait} \subseteq 0..WaitTicks
  /\ drainer \in {"none", "alive", "dead"} /\ {orphan, stop, stderrOpen} \subseteq BOOLEAN
  /\ pc \in {"starting", "reading", "emitting", "accounting", "awaiting_exit",
             "awaiting_stdout", "joining", "stopping_child", "terminating", "killing",
             "stopping_drainer", "joining_drainer", "done"}
  /\ result \in {"none", "success"} \cup Diagnostic

\* A replay succeeds only if the child exited with 0 having written one
\* sentinel, as the last thing, that tells the number of the events, which are
\* in time order and all processed, and the time of the last; and if the
\* runner saw the ends of stdout and, through the drainer, of stderr.
SuccessIsComplete ==
  result = "success" =>
    /\ child = "reaped" /\ exitCode = 0
    /\ eos = Len(written) /\ nParsed = Len(written)
    /\ \A i \in 1 .. eos - 1 : written[i].kind \in {"event", "part"}
    /\ EventsIn(written) = written[eos].count /\ processed = written[eos].count
    /\ \A i, j \in 1 .. eos - 1 : i < j /\ written[i].kind = "event" /\ written[j].kind = "event"
         => written[i].ts <= written[j].ts /\ written[j].ts <= written[eos].ts
    /\ drainer = "dead" /\ errRead = errWritten

\* The events among the first n units of w.
EventsUpTo(w, n) == {i \in 1 .. n : w[i].kind = "event"}

\* No process was started for a path or a command that is refused.
StartDiagnosis ==
  result \in {"pcap_not_regular_file", "child_start_failed"} => child = "none" /\ processed = 0

\* Before the sentinel: all output is there and has none; the last line taken is
\* invalid, or the output ends within it; the line under way is not complete; a
\* line is longer than MaxLine.
StreamDiagnosis ==
  /\ result = "missing_end_of_stream" =>
       /\ WriterGone /\ nParsed = Len(written)
       /\ processed = Cardinality(EventsUpTo(written, Len(written)))
       /\ \A i \in 1 .. Len(written) : written[i].kind # "eos"
  /\ result = "invalid_stream_record" =>
       /\ eos = 0 /\ nParsed > 0
       /\ \/ written[nParsed].kind = "invalid"
          \/ written[nParsed].kind = "part" /\ WriterGone /\ nParsed = Len(written)
  /\ result = "pre_end_of_stream_timeout" =>
       eos = 0 /\ \A i \in nParsed + 1 .. nRead : written[i].kind = "part"
  /\ result = "stream_line_too_long" =>
       \E i \in MaxLine + 1 .. nRead : \A j \in i - MaxLine .. i - 1 : written[j].kind = "part"

\* On an event: it is the last line taken, and all events before it are processed.
\* An event that a limit or an error of a detector rejects was not out of order; an
\* alert that could not be emitted is of an event that was processed.
EventDiagnosis ==
  /\ result \in DetectorDiagnostic =>
       /\ nParsed > 0 /\ written[nParsed].kind = "event"
       /\ processed = Cardinality(EventsUpTo(written, nParsed - 1))
       /\ result # "timestamp_regression" => written[nParsed].ts >= lastTs
  /\ result = "alert_callback_failed" =>
       /\ nParsed > 0 /\ written[nParsed].kind = "event" /\ written[nParsed].ts = lastTs
       /\ processed = Cardinality(EventsUpTo(written, nParsed))

\* The sentinel counts the events before it, and names the newest of their times.
CountIsRight == written[eos].count = Cardinality(EventsUpTo(written, eos))
TimeIsRight ==
  /\ \A i \in EventsUpTo(written, eos) : written[i].ts <= written[eos].ts
  /\ \E i \in EventsUpTo(written, eos) : written[i].ts = written[eos].ts

\* After the sentinel: what the runner has read begins with a second sentinel, or
\* with something else, a sentinel that is too long or not there yet included.
\* Late and unclean ends are told only of streams whose accounts are right.
EosDiagnosis ==
  /\ result = "end_of_stream_count_mismatch" => eos # 0 /\ ~CountIsRight
  /\ result = "end_of_stream_timestamp_mismatch" => eos # 0 /\ CountIsRight /\ ~TimeIsRight
  /\ result = "duplicate_end_of_stream" =>
       eos # 0 /\ \E n \in eos + 1 .. nRead : /\ written[n].kind = "eos" /\ n - eos <= MaxLine
                                              /\ \A i \in eos + 1 .. n - 1 : written[i].kind = "part"
  /\ result = "data_after_end_of_stream" =>
       /\ eos # 0 /\ eos < nRead
       /\ \A n \in eos + 1 .. nRead :
            written[n].kind = "eos" /\ n - eos <= MaxLine =>
              \E i \in eos + 1 .. n - 1 : written[i].kind # "part"
  /\ result = "post_end_of_stream_timeout" => eos # 0 /\ CountIsRight /\ left <= ReserveTicks
  /\ result = "child_exit_nonzero" =>
       eos # 0 /\ CountIsRight /\ exitCode # 0 /\ eos = Len(written) /\ WriterGone

\* Each diagnostic of a failed replay is true of what the child and its descendant
\* wrote, whichever writes, reads and exits came first.
DiagnosisIsTrue == StartDiagnosis /\ StreamDiagnosis /\ EventDiagnosis /\ EosDiagnosis

\* run_command never returns or raises with its child running or a zombie.
ChildReaped == pc = "done" => child \in {"none", "reaped"}

\* "None of those stages receives a fresh timeout budget": after the sentinel
\* every timeout that the runner gives to a call is within the one deadline.  (The
\* wait for a child that was sent SIGKILL has none; it ends with the child.)
NoFreshBudget == eos # 0 => wait <= left

\* After the sentinel a replay is not failed as late before its deadline, less
\* the reserve for the drainer.
LateMeansLate ==
  [][result' = "post_end_of_stream_timeout" /\ result = "none" => left <= ReserveTicks]_vars

\* Whatever the child does or fails to do, run_command comes to an end, unless it
\* is fed for ever: before the sentinel every chunk restarts the inactivity
\* deadline, and no limit is set to the whole.  In particular it ends once it has
\* left the loop, by the sentinel or by any failure.
Ends == <>(pc = "done") \/ []<>(pc = "reading" /\ idle = WaitTicks)

\* The drainer thread does not outlive run_command for good, even if a descendant
\* never closes stderr.
DrainerEnds == pc = "done" ~> drainer # "alive"

\* After the sentinel the drainer, too, ends within the one deadline: none is
\* left when run_command is over ("_stderr_threads() == []").
NoDrainerLeft == pc = "done" /\ eos # 0 => drainer # "alive"
=============================================================================
