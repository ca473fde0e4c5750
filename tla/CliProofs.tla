------------------------------ MODULE CliProofs ------------------------------
(***************************************************************************)
(* Proofs about Replay and Cli, for every value of the constants: whatever  *)
(* a child does, a replay that is a success is complete, its diagnostics    *)
(* are true, it leaves no child behind, its waits stay within one deadline, *)
(* and the exit status of the command line tells what happened.             *)
(*                                                                          *)
(* The invariant has four parts: the types, what the child and the drainer  *)
(* are while the runner is at each place of run_command (ProcessInv), what  *)
(* the runner knows there of the stream (StreamInv), and how its timeouts   *)
(* go together (DeadlineInv).                                               *)
(***************************************************************************)
EXTENDS Cli, FiniteSetTheorems, SequenceTheorems, WellFoundedInduction, TLAPS

-----------------------------------------------------------------------------
(* The invariant. *)

Reading == {"reading", "emitting"}
Closing == {"accounting", "awaiting_exit", "awaiting_stdout", "joining"}
Cleanup == {"stopping_child", "terminating", "killing", "stopping_drainer",
            "joining_drainer"}

\* The results of a replay whose child was never started.
Unstarted == NotStarted \cup {"child_start_failed"}

\* What the child may have written, whatever it counted.
AnyUnit == [kind : {"event"}, ts : Times] \cup [kind : {"part", "invalid"}] \cup Sentinels(Nat)

Place == {"starting", "done"} \cup Reading \cup Closing \cup Cleanup

StreamTypes ==
  /\ written \in Seq(AnyUnit) /\ Len(written) <= MaxUnits
  /\ nRead \in 0 .. Len(written) /\ nParsed \in 0 .. nRead /\ eos \in 0 .. nParsed
  /\ processed \in 0 .. nParsed /\ lastTs \in 0 .. MaxTime

ChildTypes ==
  /\ errWritten \in 0 .. MaxErr /\ errRead \in 0 .. errWritten
  /\ child \in {"none", "running", "exited", "reaped"} /\ exitCode \in {0, 1}
  /\ signal \in {"none", "term", "kill"} /\ drainer \in {"none", "alive", "dead"}

RunnerTypes ==
  /\ pc \in Place /\ result \in {"none", "success"} \cup Diagnostic
  /\ pending \in 0 .. MaxAlerts
  /\ idle \in 0 .. WaitTicks /\ left \in 0 .. WaitTicks /\ wait \in 0 .. WaitTicks

FlagTypes == orphan \in BOOLEAN /\ stop \in BOOLEAN /\ stderrOpen \in BOOLEAN

TypeInv == StreamTypes /\ ChildTypes /\ RunnerTypes /\ FlagTypes

PlacesInv ==
  /\ pc = "starting" => child = "none" /\ drainer = "none" /\ nParsed = 0 /\ eos = 0
                        /\ processed = 0 /\ lastTs = 0
  /\ pc \in Reading \cup Closing \cup Cleanup => child # "none" /\ drainer # "none"
  /\ pc \in {"awaiting_stdout", "joining", "stopping_drainer", "joining_drainer"}
       => child = "reaped"
  /\ pc = "done" => child \in {"none", "reaped"}
  /\ pc \in {"starting"} \cup Reading \cup Closing => result = "none"
  /\ pc \in Cleanup => result \notin Unstarted
  /\ pc = "done" /\ result \in Unstarted
       => child = "none" /\ drainer = "none" /\ processed = 0
  /\ pending > 0 <=> pc = "emitting"

DrainerInv ==
  /\ stop => pc \in {"joining_drainer", "done"}
  /\ drainer = "dead" /\ ~stop => StderrEof

ProcessInv == PlacesInv /\ DrainerInv

\* The first n units of w, and nothing else, are p events in time order, the last
\* of them at t or before it, and pieces of them.
Prefix(w, n, p, t) ==
  /\ \A i \in 1 .. n : w[i].kind \in {"event", "part"}
  /\ p = Cardinality(EventsUpTo(w, n))
  /\ \A i, j \in EventsUpTo(w, n) : i < j => w[i].ts <= w[j].ts
  /\ \A i \in EventsUpTo(w, n) : w[i].ts <= t
  /\ EventsUpTo(w, n) # {} => \E i \in EventsUpTo(w, n) : w[i].ts = t

\* Nobody can write to stdout any more, and the runner has all of it.
StdoutIsOver == WriterGone /\ nRead = Len(written)

\* All that was read are the events and their sentinel.
Complete ==
  /\ eos = nParsed /\ eos > 0 /\ written[eos].kind = "eos"
  /\ Prefix(written, eos - 1, processed, lastTs)

ReadingInv ==
  pc \in {"starting"} \cup Reading => eos = 0 /\ Prefix(written, nParsed, processed, lastTs)

\* The alerts being emitted are those of the last event.
EmittingInv ==
  pc = "emitting" => nParsed > 0 /\ written[nParsed].kind = "event" /\ written[nParsed].ts = lastTs

ClosingInv ==
  /\ pc \in Closing => Complete
  /\ pc \in Closing \ {"accounting"} => AccountsMatch
  /\ pc \in {"awaiting_stdout", "joining"} => nRead = nParsed
  /\ pc = "joining" => StdoutIsOver

ResultInv ==
  /\ result = "success" => /\ Complete /\ AccountsMatch /\ StdoutIsOver /\ eos = Len(written)
                           /\ child = "reaped" /\ exitCode = 0
                           /\ drainer = "dead" /\ errRead = errWritten
  /\ StreamDiagnosis /\ EventDiagnosis /\ EosDiagnosis

StreamInv == ReadingInv /\ EmittingInv /\ ClosingInv /\ ResultInv

DeadlineInv ==
  /\ eos # 0 => wait <= left
  /\ pc \in {"awaiting_exit", "joining"} => wait = left
  /\ pc = "awaiting_stdout"
       => wait = IF left > ReserveTicks THEN left - ReserveTicks ELSE 0

IInv == TypeInv /\ ProcessInv /\ StreamInv /\ DeadlineInv

-----------------------------------------------------------------------------
(* Lines. *)

LEMMA LeastNatural ==
  ASSUME NEW T \in SUBSET Nat, T # {}
  PROVE  \E n \in T : \A m \in T : n <= m
<1>1. PICK n \in T : \A m \in T : <<m, n>> \notin OpToRel(<, Nat)
  BY NatLessThanWellFounded, WFMin
<1>2. \A m \in T : ~(m < n)
  BY <1>1 DEF OpToRel
<1>3. QED  BY <1>2

\* The line that the runner takes out of its buffer ends at the first unit that is
\* not a piece, and that unit is in the buffer.
LEMMA LineEndIs ==
  ASSUME TypeInv, HasLine
  PROVE  /\ LineEnd \in nParsed + 1 .. nRead /\ Line = written[LineEnd]
         /\ Line \in AnyUnit /\ Line.kind # "part"
         /\ \A i \in nParsed + 1 .. LineEnd - 1 : written[i].kind = "part"
<1>1. /\ nParsed \in Nat /\ nRead \in Nat /\ Len(written) \in Nat /\ nRead <= Len(written)
      /\ written \in Seq(AnyUnit)
  BY DEF TypeInv, StreamTypes
<1>2. LineEnds \in SUBSET Nat /\ LineEnds # {}
  BY <1>1 DEF HasLine, LineEnds
<1>3. \E i \in LineEnds : \A j \in LineEnds : i <= j
  BY <1>2, LeastNatural
<1>4. LineEnd \in LineEnds /\ \A j \in LineEnds : LineEnd <= j
  BY <1>3 DEF LineEnd
<1>5. LineEnd \in nParsed + 1 .. nRead /\ written[LineEnd].kind # "part"
  BY <1>4 DEF LineEnds
<1>6. written[LineEnd] \in AnyUnit
  BY <1>1, <1>5
<1>7. ASSUME NEW i \in nParsed + 1 .. LineEnd - 1 PROVE written[i].kind = "part"
  <2>1. i \in nParsed + 1 .. nRead /\ ~(LineEnd <= i)
    BY <1>1, <1>5
  <2>2. i \notin LineEnds
    BY <1>4, <2>1
  <2>3. QED  BY <2>1, <2>2 DEF LineEnds
<1>8. QED  BY <1>5, <1>6, <1>7 DEF Line

-----------------------------------------------------------------------------
(* Types. *)

LEMMA ConstantsAre ==
  /\ MaxLine \in Nat /\ MaxLine > 0
  /\ MaxUnits \in Nat /\ MaxErr \in Nat /\ MaxTime \in Nat /\ MaxAlerts \in Nat
  /\ ReserveTicks \in Nat /\ WaitTicks \in Nat /\ WaitTicks > 0 /\ ReserveTicks < WaitTicks
BY ReplayConstants

LEMMA TypesAreOK == TypeInv => TypeOK
<1> SUFFICES ASSUME TypeInv PROVE TypeOK
  OBVIOUS
<1>1. {idle, left, wait} \subseteq 0 .. WaitTicks /\ {orphan, stop, stderrOpen} \subseteq BOOLEAN
  BY DEF TypeInv, RunnerTypes, FlagTypes
<1>2. QED
  BY <1>1
  DEF TypeInv, StreamTypes, ChildTypes, RunnerTypes, TypeOK, Place, Reading, Closing, Cleanup

LEMMA TypesInitial == Init => TypeInv
<1> SUFFICES ASSUME Init PROVE TypeInv
  OBVIOUS
<1>1. Len(written) = 0 /\ written \in Seq(AnyUnit)
  BY DEF Init
<1>2. StreamTypes /\ ChildTypes /\ RunnerTypes
  BY <1>1, ConstantsAre DEF Init, StreamTypes, ChildTypes, RunnerTypes, Place
<1>3. FlagTypes
  BY Zenon DEF Init, FlagTypes
<1>4. QED  BY <1>2, <1>3 DEF TypeInv

-----------------------------------------------------------------------------
(* The steps of the runner, by the part of run_command they belong to. *)

Starts  == NotAFile \/ SpawnFails \/ Spawn
Reads   == ReadChunk \/ ReadEof \/ Inactive \/ LineTooLong
Records == RejectRecord \/ DetectorRaises \/ ProcessEvent \/ EmitAlert \/ EmitFails \/ AcceptEos
Closes  == CheckAccounts \/ ChildHasExited \/ DataAfterEos \/ StdoutHasEnded \/ DrainerHasEnded \/ Late
Cleans  == Reap \/ Terminate \/ Kill \/ StopDrainer \/ CloseStderr

LEMMA RunnerIs == Runner => Starts \/ Reads \/ Records \/ Closes \/ Cleans
BY DEF Runner, Runs, Interference, Starts, Reads, Records, Closes, Cleans

\* The diagnostic for what was read behind position e, up to position m.
LEMMA AfterEosTells ==
  \A a, b : AfterEos(a, b) \in {"duplicate_end_of_stream", "data_after_end_of_stream"}
BY DEF AfterEos

LEMMA AfterEosIs ==
  ASSUME NEW e \in Nat, NEW m \in Nat
  PROVE  /\ AfterEos(e + 1, m) = "duplicate_end_of_stream" =>
              \E n \in e + 1 .. m : /\ written[n].kind = "eos" /\ n - e <= MaxLine
                                    /\ \A i \in e + 1 .. n - 1 : written[i].kind = "part"
         /\ AfterEos(e + 1, m) = "data_after_end_of_stream" =>
              \A n \in e + 1 .. m : written[n].kind = "eos" /\ n - e <= MaxLine =>
                \E i \in e + 1 .. n - 1 : written[i].kind # "part"
<1> DEFINE Second(n) == /\ written[n].kind = "eos" /\ n - (e + 1) < MaxLine
                        /\ \A i \in e + 1 .. n - 1 : written[i].kind = "part"
<1>1. \A n \in e + 1 .. m : n - (e + 1) < MaxLine <=> n - e <= MaxLine
  BY ConstantsAre
<1>2. AfterEos(e + 1, m) = "duplicate_end_of_stream" <=> \E n \in e + 1 .. m : Second(n)
  BY DEF AfterEos
<1>3. AfterEos(e + 1, m) = "data_after_end_of_stream" <=> ~ \E n \in e + 1 .. m : Second(n)
  BY DEF AfterEos
<1>4. QED  BY <1>1, <1>2, <1>3

\* What the two case distinctions come to.
Continues(place, timeout) ==
  pc' = place /\ wait' = timeout /\ UNCHANGED <<idle, left, pending, result>>

LEMMA CheckAccountsIs ==
  ASSUME RunnerTypes, CheckAccounts
  PROVE  /\ pc = "accounting" /\ UNCHANGED <<written, child, drainer, nRead, nParsed, processed, lastTs, eos>>
         /\ \/ written[eos].count # processed /\ Fail("end_of_stream_count_mismatch")
            \/ /\ written[eos].count = processed /\ ~AccountsMatch
               /\ Fail("end_of_stream_timestamp_mismatch")
            \/ AccountsMatch /\ left = 0 /\ Fail("post_end_of_stream_timeout")
            \/ AccountsMatch /\ Continues("awaiting_exit", left)
<1>1. left = 0 \/ left > 0
  BY ConstantsAre DEF RunnerTypes
<1>2. pc = "accounting" /\ UNCHANGED <<written, child, drainer, nRead, nParsed, processed, lastTs, eos>>
  BY DEF CheckAccounts, RunnerKeeps, ChildKept
<1>3. CASE written[eos].count # processed
  BY <1>2, <1>3 DEF CheckAccounts, AccountsMatch
<1>4. CASE written[eos].count = processed /\ ~AccountsMatch
  BY <1>2, <1>4 DEF CheckAccounts
<1>5. CASE AccountsMatch /\ left = 0
  BY <1>2, <1>5 DEF CheckAccounts, AccountsMatch
<1>6. CASE AccountsMatch /\ left > 0
  BY <1>2, <1>6 DEF CheckAccounts, AccountsMatch, Continues
<1>7. QED  BY <1>1, <1>3, <1>4, <1>5, <1>6

LEMMA ChildHasExitedIs ==
  ASSUME StreamTypes, RunnerTypes, ChildHasExited
  PROVE  /\ pc = "awaiting_exit" /\ child = "exited" /\ child' = "reaped"
         /\ UNCHANGED <<written, drainer, nRead, nParsed, processed, lastTs, eos>>
         /\ \/ nParsed < nRead /\ Fail(AfterEos(nParsed + 1, nRead))
            \/ left = 0 /\ Fail("post_end_of_stream_timeout")
            \/ nParsed = nRead /\ Continues("awaiting_stdout",
                 IF left > ReserveTicks THEN left - ReserveTicks ELSE 0)
<1>1. /\ left = 0 \/ left > 0
      /\ nParsed < nRead <=> Buffered > 0
      /\ nParsed = nRead <=> Buffered = 0
      /\ Buffered > 0 \/ Buffered = 0
  BY ConstantsAre DEF RunnerTypes, StreamTypes, Buffered
<1>2. /\ pc = "awaiting_exit" /\ child = "exited" /\ child' = "reaped"
      /\ UNCHANGED <<written, drainer, nRead, nParsed, processed, lastTs, eos>>
  BY DEF ChildHasExited, RunnerKeeps
<1>3. CASE Buffered > 0
  <2>1. ~(Buffered = 0 /\ left = 0) /\ ~(Buffered = 0 /\ left > 0)
    BY <1>3
  <2>2. Fail(AfterEos(nParsed + 1, nRead))
    BY <1>3, <2>1, Zenon DEF ChildHasExited
  <2>3. QED  BY <1>1, <1>2, <1>3, <2>2
<1>4. CASE Buffered = 0 /\ left = 0
  BY <1>1, <1>2, <1>4 DEF ChildHasExited
<1>5. CASE Buffered = 0 /\ left > 0
  BY <1>1, <1>2, <1>5 DEF ChildHasExited, Continues
<1>6. QED  BY <1>1, <1>3, <1>4, <1>5

LEMMA FlagsOfRunner == FlagTypes /\ Runner => FlagTypes'
<1> SUFFICES ASSUME FlagTypes, Runner PROVE FlagTypes'
  OBVIOUS
<1> USE DEF FlagTypes, RunnerKeeps, PipesKept, CleanupKeeps, childVars, drainVars
<1>1. CASE Starts
  BY <1>1, Zenon DEF Starts, NotAFile, SpawnFails, Spawn
<1>2. CASE Reads
  BY <1>2, Zenon DEF Reads, ReadChunk, ReadEof, Inactive, LineTooLong
<1>3. CASE Records
  BY <1>3, Zenon
  DEF Records, RejectRecord, DetectorRaises, ProcessEvent, EmitAlert, EmitFails, AcceptEos
<1>4. CASE Closes
  BY <1>4, Zenon
  DEF Closes, CheckAccounts, ChildHasExited, DataAfterEos, StdoutHasEnded, DrainerHasEnded, Late
<1>5. CASE Cleans
  BY <1>5, Zenon DEF Cleans, Reap, Terminate, Kill, StopDrainer, CloseStderr
<1>6. QED  BY <1>1, <1>2, <1>3, <1>4, <1>5, RunnerIs

LEMMA ChildOfRunner == ChildTypes /\ Runner => ChildTypes'
<1> SUFFICES ASSUME ChildTypes, Runner PROVE ChildTypes'
  OBVIOUS
<1> USE DEF ChildTypes, RunnerKeeps, ChildKept, CleanupKeeps, childVars, drainVars
<1>1. CASE Starts
  BY <1>1 DEF Starts, NotAFile, SpawnFails, Spawn
<1>2. CASE Reads
  BY <1>2 DEF Reads, ReadChunk, ReadEof, Inactive, LineTooLong
<1>3. CASE Records
  BY <1>3
  DEF Records, RejectRecord, DetectorRaises, ProcessEvent, EmitAlert, EmitFails, AcceptEos
<1>4. CASE Closes
  BY <1>4
  DEF Closes, CheckAccounts, ChildHasExited, DataAfterEos, StdoutHasEnded, DrainerHasEnded, Late
<1>5. CASE Cleans
  BY <1>5 DEF Cleans, Reap, Terminate, Kill, StopDrainer, CloseStderr
<1>6. QED  BY <1>1, <1>2, <1>3, <1>4, <1>5, RunnerIs

LEMMA StreamOfRunner == TypeInv /\ Runner => StreamTypes'
<1> SUFFICES ASSUME TypeInv, Runner PROVE StreamTypes'
  OBVIOUS
<1>0. StreamTypes
  BY DEF TypeInv
<1> USE <1>0 DEF StreamTypes, RunnerKeeps, CleanupKeeps, childVars, streamVars
<1>1. CASE Starts
  BY <1>1 DEF Starts, NotAFile, SpawnFails, Spawn
<1>2. CASE Reads
  <2>1. LineTooLong => nParsed' \in nParsed .. nRead
    BY LineEndIs DEF LineTooLong
  <2>2. QED  BY <1>2, <2>1 DEF Reads, ReadChunk, ReadEof, Inactive, LineTooLong
<1>3. CASE Records
  <2>1. CASE RejectRecord \/ DetectorRaises
    <3>1. nParsed' \in nParsed + 1 .. nRead
      BY <2>1, LineEndIs DEF RejectRecord, DetectorRaises, HasRecord
    <3>2. QED  BY <2>1, <3>1 DEF RejectRecord, DetectorRaises
  <2>2. CASE ProcessEvent
    <3>1. nParsed' \in nParsed + 1 .. nRead
      BY <2>2, LineEndIs DEF ProcessEvent, HasRecord
    <3>2. lastTs' \in 0 .. MaxTime
      BY <2>2, LineEndIs DEF ProcessEvent, HasRecord, AnyUnit, Times, Sentinels
    <3>3. QED  BY <2>2, <3>1, <3>2 DEF ProcessEvent
  <2>3. CASE AcceptEos
    <3>1. nParsed' \in nParsed + 1 .. nRead
      BY <2>3, LineEndIs DEF AcceptEos, HasRecord
    <3>2. QED  BY <2>3, <3>1 DEF AcceptEos
  <2>4. CASE EmitAlert \/ EmitFails
    BY <2>4 DEF EmitAlert, EmitFails
  <2>5. QED  BY <1>3, <2>1, <2>2, <2>3, <2>4 DEF Records
<1>4. CASE Closes
  <2>1. CASE CheckAccounts \/ ChildHasExited
    BY <2>1 DEF CheckAccounts, ChildHasExited
  <2>2. CASE DataAfterEos
    BY <2>2 DEF DataAfterEos
  <2>3. CASE StdoutHasEnded \/ DrainerHasEnded \/ Late
    BY <2>3 DEF StdoutHasEnded, DrainerHasEnded, Late
  <2>4. QED  BY <1>4, <2>1, <2>2, <2>3 DEF Closes
<1>5. CASE Cleans
  BY <1>5 DEF Cleans, Reap, Terminate, Kill, StopDrainer, CloseStderr
<1>6. QED  BY <1>1, <1>2, <1>3, <1>4, <1>5, RunnerIs

LEMMA RunnerOfRunner ==
  StreamTypes /\ RunnerTypes /\ (pc = "emitting" => pending > 0) /\ Runner => RunnerTypes'
<1> SUFFICES ASSUME StreamTypes, RunnerTypes, pc = "emitting" => pending > 0, Runner
             PROVE  RunnerTypes'
  OBVIOUS
<1> USE ConstantsAre DEF RunnerTypes, Place, Fail, CleanupKeeps, streamVars, timerVars
<1>1. CASE Starts
  BY <1>1 DEF Starts, NotAFile, SpawnFails, Spawn, Reading, Diagnostic
<1>2. CASE Reads
  BY <1>2 DEF Reads, ReadChunk, ReadEof, Inactive, LineTooLong, Cleanup, Diagnostic
<1>3. CASE Records
  <2>1. CASE RejectRecord \/ DetectorRaises \/ EmitFails
    BY <2>1 DEF RejectRecord, DetectorRaises, EmitFails, Cleanup, Diagnostic, DetectorDiagnostic
  <2>2. CASE ProcessEvent \/ EmitAlert \/ AcceptEos
    BY <2>2 DEF ProcessEvent, EmitAlert, AcceptEos, Reading, Closing
  <2>3. QED  BY <1>3, <2>1, <2>2 DEF Records
<1>4. CASE Closes
  <2>1. CASE CheckAccounts
    BY <2>1, CheckAccountsIs DEF Continues, Cleanup, Closing, Diagnostic
  <2>2. CASE ChildHasExited
    BY <2>2, ChildHasExitedIs, AfterEosTells DEF Continues, Cleanup, Closing, Diagnostic
  <2>3. CASE DataAfterEos \/ StdoutHasEnded
    BY <2>3, AfterEosTells DEF DataAfterEos, StdoutHasEnded, Cleanup, Closing, Diagnostic
  <2>4. CASE DrainerHasEnded \/ Late
    BY <2>4 DEF DrainerHasEnded, Late, Cleanup, Closing, Diagnostic
  <2>5. QED  BY <1>4, <2>1, <2>2, <2>3, <2>4 DEF Closes
<1>5. CASE Cleans
  BY <1>5 DEF Cleans, Reap, Terminate, Kill, StopDrainer, CloseStderr, Grace, Cleanup
<1>6. QED  BY <1>1, <1>2, <1>3, <1>4, <1>5, RunnerIs

LEMMA TypesOfOthers ==
  ASSUME TypeInv, Child \/ Drainer \/ Tick \/ Finished \/ Refuse
  PROVE  TypeInv'
<1> USE DEF ChildKeeps, DrainerKeeps, streamVars, timerVars, drainVars, childVars, vars
<1>0. StreamTypes /\ ChildTypes /\ RunnerTypes /\ FlagTypes
  BY DEF TypeInv
<1>1. FlagTypes'
  <2>1. CASE Child
    BY <1>0, <2>1, Zenon
    DEF FlagTypes, Child, ChildWrites, ChildWritesOn, ChildWritesErr, ChildForks, ChildExits, ChildDies, OrphanExits
  <2>2. CASE Drainer \/ Tick \/ Finished \/ Refuse
    BY <1>0, <2>2, Zenon DEF FlagTypes, Drainer, DrainChunk, DrainEnds, Tick, Finished, Refuse
  <2>3. QED  BY <2>1, <2>2
<1>2. StreamTypes'
  <2>1. CASE ChildWrites
    <3>1. PICK u \in Unit : written' = Append(written, u)
      BY <2>1 DEF ChildWrites
    <3>2. IsFiniteSet({i \in DOMAIN written : written[i].kind = "event"})
      <4>1. IsFiniteSet(1 .. Len(written)) /\ DOMAIN written = 1 .. Len(written)
        BY <1>0, FS_Interval DEF StreamTypes
      <4>2. QED  BY <4>1, FS_Subset
    <3>3. EventsIn(written) \in Nat
      BY <3>2, FS_CardinalityType DEF EventsIn
    <3>4. u \in AnyUnit
      BY <3>1, <3>3 DEF Unit, AnyUnit, Sentinels
    <3>5. written' \in Seq(AnyUnit) /\ Len(written') = Len(written) + 1
      BY <1>0, <3>1, <3>4 DEF StreamTypes
    <3>6. QED  BY <1>0, <2>1, <3>5, ConstantsAre DEF ChildWrites, StreamTypes
  <2>2. CASE Child /\ ~ChildWrites
    BY <1>0, <2>2
    DEF StreamTypes, Child, ChildWritesOn, ChildWritesErr, ChildForks, ChildExits, ChildDies, OrphanExits
  <2>3. CASE Drainer \/ Tick \/ Finished \/ Refuse
    BY <1>0, <2>3 DEF StreamTypes, Drainer, DrainChunk, DrainEnds, Tick, Finished, Refuse
  <2>4. QED  BY <2>1, <2>2, <2>3
<1>3. ChildTypes'
  <2>1. CASE Child
    BY <1>0, <2>1, ConstantsAre
    DEF ChildTypes, Child, ChildWrites, ChildWritesOn, ChildWritesErr, ChildForks, ChildExits, ChildDies, OrphanExits
  <2>2. CASE Drainer \/ Tick \/ Finished \/ Refuse
    BY <1>0, <2>2 DEF ChildTypes, Drainer, DrainChunk, DrainEnds, Tick, Finished, Refuse
  <2>3. QED  BY <2>1, <2>2
<1>4. RunnerTypes'
  <2>1. CASE Child
    BY <1>0, <2>1, ConstantsAre
    DEF RunnerTypes, Child, ChildWrites, ChildWritesOn, ChildWritesErr, ChildForks, ChildExits, ChildDies, OrphanExits
  <2>2. CASE Drainer \/ Tick \/ Finished \/ Refuse
    BY <1>0, <2>2, ConstantsAre
    DEF RunnerTypes, Place, Drainer, DrainChunk, DrainEnds, Tick, Finished, Refuse
  <2>3. QED  BY <2>1, <2>2
<1>5. QED  BY <1>1, <1>2, <1>3, <1>4 DEF TypeInv

LEMMA TypesOfNext == TypeInv /\ ProcessInv /\ [CliNext]_vars => TypeInv'
<1> SUFFICES ASSUME TypeInv, ProcessInv, [CliNext]_vars PROVE TypeInv'
  OBVIOUS
<1>1. CASE Runner
  <2>1. pc = "emitting" => pending > 0
    BY DEF ProcessInv, PlacesInv, RunnerTypes
  <2>2. QED
    BY <1>1, <2>1, FlagsOfRunner, ChildOfRunner, StreamOfRunner, RunnerOfRunner DEF TypeInv
<1>2. CASE Child \/ Drainer \/ Tick \/ Finished \/ Refuse
  BY <1>2, TypesOfOthers
<1>3. CASE UNCHANGED vars
  BY <1>3 DEF vars, childVars, streamVars, timerVars, drainVars, TypeInv, StreamTypes,
    ChildTypes, RunnerTypes, FlagTypes
<1>4. QED  BY <1>1, <1>2, <1>3 DEF CliNext, Next

-----------------------------------------------------------------------------
(* The child and the drainer. *)

LEMMA ProcessInitial == Init => ProcessInv
BY DEF Init, ProcessInv, PlacesInv, DrainerInv, Reading, Closing, Cleanup, NotStarted, Unstarted, StderrEof

\* Once nobody can write to the pipes, nobody ever can.
LEMMA WritersStayGone ==
  ASSUME ProcessInv, WriterGone, [CliNext]_vars
  PROVE  WriterGone' /\ UNCHANGED <<written, errWritten, exitCode>>
<1>1. child \in {"exited", "reaped"} /\ ~HasWriter
  BY DEF WriterGone, HasWriter
<1>2. orphan' = orphan \/ OrphanExits \/ ChildForks
  <2>1. CASE Runner
    BY <2>1, Zenon
    DEF Runner, Runs, Interference, NotAFile, SpawnFails, Spawn, ReadChunk, ReadEof, Inactive,
        LineTooLong, RejectRecord, DetectorRaises, ProcessEvent, EmitAlert, EmitFails, AcceptEos,
        CheckAccounts, ChildHasExited, DataAfterEos, StdoutHasEnded, DrainerHasEnded, Late, Reap,
        Terminate, Kill, StopDrainer, CloseStderr, RunnerKeeps, CleanupKeeps, childVars
  <2>2. CASE Child
    BY <2>2, Zenon DEF Child, ChildWrites, ChildWritesOn, ChildWritesErr, ChildExits, ChildDies, childVars
  <2>3. CASE Drainer \/ Tick \/ Finished \/ Refuse \/ UNCHANGED vars
    BY <2>3, Zenon
    DEF Drainer, DrainChunk, DrainEnds, Tick, Finished, Refuse, DrainerKeeps, childVars, vars
  <2>4. QED  BY <2>1, <2>2, <2>3 DEF CliNext, Next
<1>3. ~orphan'
  BY <1>1, <1>2 DEF WriterGone, OrphanExits, ChildForks
<1>4. child' \in {"exited", "reaped"} /\ UNCHANGED <<written, errWritten, exitCode>>
  <2>1. CASE Starts
    BY <2>1, <1>1 DEF ProcessInv, PlacesInv, Starts, NotAFile, SpawnFails, Spawn, childVars
  <2> USE DEF RunnerKeeps, ChildKept, CleanupKeeps
  <2>2. CASE Reads
    BY <2>2, <1>1 DEF Reads, ReadChunk, ReadEof, Inactive, LineTooLong
  <2>3. CASE Records
    BY <2>3, <1>1
    DEF Records, RejectRecord, DetectorRaises, ProcessEvent, EmitAlert, EmitFails, AcceptEos
  <2>4. CASE Closes
    BY <2>4, <1>1
    DEF Closes, CheckAccounts, ChildHasExited, DataAfterEos, StdoutHasEnded, DrainerHasEnded, Late
  <2>5. CASE Cleans
    BY <2>5, <1>1 DEF Cleans, Reap, Terminate, Kill, StopDrainer, CloseStderr
  <2>6. CASE Child
    BY <2>6, <1>1
    DEF Child, ChildWrites, ChildWritesOn, ChildWritesErr, ChildForks, ChildExits, ChildDies, OrphanExits
  <2>7. CASE Drainer \/ Tick \/ Finished \/ Refuse \/ UNCHANGED vars
    BY <2>7, <1>1
    DEF Drainer, DrainChunk, DrainEnds, Tick, Finished, Refuse, DrainerKeeps, childVars, vars
  <2>8. QED  BY <2>1, <2>2, <2>3, <2>4, <2>5, <2>6, <2>7, RunnerIs DEF CliNext, Next
<1>5. QED  BY <1>3, <1>4 DEF WriterGone

LEMMA PlacesOfNext == TypeInv /\ ProcessInv /\ [CliNext]_vars => PlacesInv'
<1> SUFFICES ASSUME TypeInv, ProcessInv, [CliNext]_vars PROVE PlacesInv'
  OBVIOUS
<1>0. PlacesInv /\ RunnerTypes /\ ChildTypes /\ StreamTypes
  BY DEF ProcessInv, TypeInv
<1> USE DEF PlacesInv, RunnerKeeps, ChildKept, CleanupKeeps, Fail, Reading, Closing, Cleanup,
            Unstarted, NotStarted, streamVars, timerVars, drainVars, childVars
<1>1. CASE Starts
  BY <1>0, <1>1 DEF Starts, NotAFile, SpawnFails, Spawn
<1>2. CASE Reads
  BY <1>0, <1>2 DEF Reads, ReadChunk, ReadEof, Inactive, LineTooLong
<1>3. CASE Records
  <2>1. CASE RejectRecord \/ DetectorRaises \/ AcceptEos
    BY <1>0, <2>1 DEF RejectRecord, DetectorRaises, AcceptEos, HasRecord, DetectorDiagnostic
  <2>2. CASE ProcessEvent
    BY <1>0, <2>2, ConstantsAre DEF ProcessEvent, HasRecord
  <2>3. CASE EmitAlert \/ EmitFails
    BY <1>0, <2>3, ConstantsAre DEF EmitAlert, EmitFails, RunnerTypes
  <2>4. QED  BY <1>3, <2>1, <2>2, <2>3 DEF Records
<1>4. CASE Closes
  <2>1. CASE CheckAccounts
    BY <1>0, <2>1, CheckAccountsIs DEF Continues
  <2>2. CASE ChildHasExited
    <3>1. AfterEos(nParsed + 1, nRead) \notin {"none"} \cup Unstarted
      BY AfterEosTells
    <3>2. QED  BY <1>0, <2>2, <3>1, ChildHasExitedIs DEF Continues
  <2>3. CASE DataAfterEos
    BY <1>0, <2>3, AfterEosTells DEF DataAfterEos
  <2>4. CASE StdoutHasEnded \/ DrainerHasEnded \/ Late
    BY <1>0, <2>4 DEF StdoutHasEnded, DrainerHasEnded, Late
  <2>5. QED  BY <1>4, <2>1, <2>2, <2>3, <2>4 DEF Closes
<1>5. CASE Cleans
  BY <1>0, <1>5 DEF Cleans, Reap, Terminate, Kill, StopDrainer, CloseStderr
<1>6. CASE Child
  BY <1>0, <1>6
  DEF Child, ChildWrites, ChildWritesOn, ChildWritesErr, ChildForks, ChildExits, ChildDies, OrphanExits, ChildKeeps
<1>7. CASE Drainer \/ Tick \/ Finished \/ Refuse \/ UNCHANGED vars
  BY <1>0, <1>7
  DEF Drainer, DrainChunk, DrainEnds, Tick, Finished, Refuse, DrainerKeeps, vars
<1>8. QED  BY <1>1, <1>2, <1>3, <1>4, <1>5, <1>6, <1>7, RunnerIs DEF CliNext, Next

\* While stop is set the runner is past StopDrainer.
LEMMA StopIsLate ==
  ASSUME TypeInv, DrainerInv, [CliNext]_vars
  PROVE  stop' => pc' \in {"joining_drainer", "done"}
<1> USE DEF DrainerInv, PipesKept, streamVars, timerVars, drainVars, childVars
<1>1. CASE Starts
  BY <1>1 DEF Starts, NotAFile, SpawnFails, Spawn
<1>2. CASE Reads
  BY <1>2 DEF Reads, ReadChunk, ReadEof, Inactive, LineTooLong
<1>3. CASE Records
  BY <1>3
  DEF Records, RejectRecord, DetectorRaises, ProcessEvent, EmitAlert, EmitFails, AcceptEos, HasRecord
<1>4. CASE Closes
  BY <1>4
  DEF Closes, CheckAccounts, ChildHasExited, DataAfterEos, StdoutHasEnded, DrainerHasEnded, Late
<1>5. CASE Cleans
  BY <1>5 DEF Cleans, Reap, Terminate, Kill, StopDrainer, CloseStderr
<1>6. CASE Child
  BY <1>6
  DEF Child, ChildWrites, ChildWritesOn, ChildWritesErr, ChildForks, ChildExits, ChildDies, OrphanExits, ChildKeeps
<1>7. CASE Drainer \/ Tick \/ Finished \/ Refuse \/ UNCHANGED vars
  BY <1>7
  DEF Drainer, DrainChunk, DrainEnds, Tick, Finished, Refuse, DrainerKeeps, vars
<1>8. QED  BY <1>1, <1>2, <1>3, <1>4, <1>5, <1>6, <1>7, RunnerIs DEF CliNext, Next

\* A drainer that is gone was stopped or has read all there will ever be.
LEMMA DrainerOfNext == TypeInv /\ ProcessInv /\ [CliNext]_vars => DrainerInv'
<1> SUFFICES ASSUME TypeInv, ProcessInv, [CliNext]_vars PROVE DrainerInv'
  OBVIOUS
<1>1. \/ UNCHANGED <<drainer, errRead>> /\ (stop => stop')
      \/ drainer' = "alive"
      \/ DrainChunk
      \/ DrainEnds
  <2> USE DEF RunnerKeeps, PipesKept, CleanupKeeps, streamVars, timerVars, drainVars, childVars
  <2>1. CASE Runner
    BY <2>1, Zenon
    DEF Runner, Runs, Interference, NotAFile, SpawnFails, Spawn, ReadChunk, ReadEof, Inactive,
        LineTooLong, RejectRecord, DetectorRaises, ProcessEvent, EmitAlert, EmitFails, AcceptEos,
        CheckAccounts, ChildHasExited, DataAfterEos, StdoutHasEnded, DrainerHasEnded, Late, Reap,
        Terminate, Kill, StopDrainer, CloseStderr
  <2>2. CASE Child
    BY <2>2, Zenon DEF Child, ChildWrites, ChildWritesOn, ChildWritesErr, ChildForks, ChildExits, ChildDies,
      OrphanExits, ChildKeeps
  <2>3. CASE Drainer \/ Tick \/ Finished \/ Refuse \/ UNCHANGED vars
    BY <2>3, Zenon DEF Drainer, Tick, Finished, Refuse, vars
  <2>4. QED  BY <2>1, <2>2, <2>3 DEF CliNext, Next
<1>2. ASSUME drainer' = "dead", ~stop' PROVE StderrEof'
  <2>1. StderrEof /\ errRead' = errRead
    <3>1. CASE UNCHANGED <<drainer, errRead>> /\ (stop => stop')
      BY <1>2, <3>1 DEF ProcessInv, DrainerInv
    <3>2. CASE DrainEnds
      BY <1>2, <3>2 DEF DrainEnds, DrainerKeeps
    <3>3. CASE DrainChunk
      BY <1>2, <3>3 DEF DrainChunk
    <3>4. QED  BY <1>1, <1>2, <3>1, <3>2, <3>3
  <2>2. WriterGone' /\ errWritten' = errWritten
    BY <2>1, WritersStayGone DEF StderrEof
  <2>3. QED  BY <2>1, <2>2 DEF StderrEof
<1>3. stop' => pc' \in {"joining_drainer", "done"}
  BY StopIsLate DEF ProcessInv
<1>4. QED  BY <1>2, <1>3 DEF DrainerInv

-----------------------------------------------------------------------------
(* What was written: the events among its first units. *)

LEMMA EventsAreFinite ==
  ASSUME NEW w, NEW n \in Nat
  PROVE  IsFiniteSet(EventsUpTo(w, n)) /\ Cardinality(EventsUpTo(w, n)) \in Nat
<1>1. IsFiniteSet(1 .. n) /\ EventsUpTo(w, n) \in SUBSET (1 .. n)
  BY FS_Interval DEF EventsUpTo
<1>2. IsFiniteSet(EventsUpTo(w, n))
  BY <1>1, FS_Subset
<1>3. QED  BY <1>2, FS_CardinalityType

LEMMA EventsAfterAppend ==
  ASSUME NEW w \in Seq(AnyUnit), NEW u \in AnyUnit, NEW n \in 0 .. Len(w)
  PROVE  /\ EventsUpTo(Append(w, u), n) = EventsUpTo(w, n)
         /\ \A i \in 1 .. n : Append(w, u)[i] = w[i]
<1>1. \A i \in 1 .. n : Append(w, u)[i] = w[i]
  BY AppendProperties
<1>2. QED  BY <1>1 DEF EventsUpTo

LEMMA PrefixAfterAppend ==
  ASSUME NEW w \in Seq(AnyUnit), NEW u \in AnyUnit, NEW n \in 0 .. Len(w), NEW p, NEW t,
         Prefix(w, n, p, t)
  PROVE  Prefix(Append(w, u), n, p, t)
<1>1. \A i \in EventsUpTo(w, n) : i \in 1 .. n
  BY DEF EventsUpTo
<1>2. QED  BY <1>1, EventsAfterAppend DEF Prefix

LEMMA PrefixWithParts ==
  ASSUME NEW w, NEW n \in Nat, NEW m \in Nat, n <= m, NEW p, NEW t, Prefix(w, n, p, t),
         \A i \in n + 1 .. m : w[i].kind = "part"
  PROVE  Prefix(w, m, p, t)
<1>1. \A i \in 1 .. m : i \in 1 .. n \/ i \in n + 1 .. m
  OBVIOUS
<1>2. EventsUpTo(w, m) = EventsUpTo(w, n)
  BY <1>1 DEF EventsUpTo
<1>3. QED  BY <1>1, <1>2 DEF Prefix

LEMMA PrefixWithEvent ==
  ASSUME NEW w \in Seq(AnyUnit), NEW n \in Nat, n < Len(w), NEW p, NEW t \in 0 .. MaxTime,
         Prefix(w, n, p, t), w[n + 1].kind = "event", w[n + 1].ts >= t
  PROVE  Prefix(w, n + 1, p + 1, w[n + 1].ts)
<1> DEFINE E == EventsUpTo(w, n)
           F == EventsUpTo(w, n + 1)
<1>1. F = E \cup {n + 1} /\ n + 1 \notin E
  BY DEF EventsUpTo
<1>2. Cardinality(F) = p + 1
  BY <1>1, EventsAreFinite, FS_AddElement DEF Prefix
<1>3. \A i \in 1 .. n + 1 : w[i].kind \in {"event", "part"}
  BY DEF Prefix
<1>4. \A i \in F : w[i].ts \in Nat
  <2>1. ASSUME NEW i \in F PROVE w[i].ts \in Nat
    <3>1. w[i] \in AnyUnit /\ w[i].kind = "event"
      BY DEF EventsUpTo
    <3>2. QED  BY <3>1, ConstantsAre DEF AnyUnit, Times, Sentinels
  <2>2. QED  BY <2>1
<1>5. \A i \in F : w[i].ts <= w[n + 1].ts
  <2>1. ASSUME NEW i \in F PROVE w[i].ts <= w[n + 1].ts
    <3>1. CASE i \in E
      <4>1. w[i].ts <= t /\ w[i].ts \in Nat /\ n + 1 \in F /\ w[n + 1].ts \in Nat
        BY <3>1, <1>1, <1>4 DEF Prefix
      <4>2. QED  BY <4>1, ConstantsAre
    <3>2. CASE i = n + 1
      BY <3>2, <1>1, <1>4
    <3>3. QED  BY <3>1, <3>2, <1>1
  <2>2. QED  BY <2>1
<1>6. \A i, j \in F : i < j => w[i].ts <= w[j].ts
  <2>1. ASSUME NEW i \in F, NEW j \in F, i < j PROVE w[i].ts <= w[j].ts
    <3>1. i \in E
      BY <2>1 DEF EventsUpTo
    <3>2. CASE j \in E
      BY <2>1, <3>1, <3>2 DEF Prefix
    <3>3. CASE j = n + 1
      BY <3>3, <1>5
    <3>4. QED  BY <3>2, <3>3, <1>1
  <2>2. QED  BY <2>1
<1>7. \E i \in F : w[i].ts = w[n + 1].ts
  BY <1>1
<1>8. QED  BY <1>2, <1>3, <1>5, <1>6, <1>7 DEF Prefix

LEMMA EventsInIs ==
  ASSUME NEW w \in Seq(AnyUnit)
  PROVE  /\ EventsIn(w) = Cardinality(EventsUpTo(w, Len(w)))
         /\ \A n \in 0 .. Len(w) : EventsIn(SubSeq(w, 1, n)) = Cardinality(EventsUpTo(w, n))
<1>1. DOMAIN w = 1 .. Len(w)
  OBVIOUS
<1>2. ASSUME NEW n \in 0 .. Len(w)
      PROVE  EventsIn(SubSeq(w, 1, n)) = Cardinality(EventsUpTo(w, n))
  <2>1. /\ DOMAIN SubSeq(w, 1, n) = 1 .. n
        /\ \A i \in 1 .. n : SubSeq(w, 1, n)[i] = w[i]
    BY <1>1
  <2>2. QED  BY <2>1 DEF EventsIn, EventsUpTo
<1>3. QED  BY <1>1, <1>2 DEF EventsIn, EventsUpTo

LEMMA PrefixBeforeLine ==
  ASSUME TypeInv, ReadingInv, HasRecord
  PROVE  /\ eos = 0 /\ LineEnd \in nParsed + 1 .. Len(written)
         /\ Prefix(written, LineEnd - 1, processed, lastTs)
<1>1. Prefix(written, nParsed, processed, lastTs) /\ eos = 0 /\ HasLine
  BY DEF ReadingInv, HasRecord, Reading
<1>2. LineEnd \in nParsed + 1 .. nRead /\ nRead <= Len(written) /\ nParsed \in Nat /\ nRead \in Nat
  BY <1>1, LineEndIs DEF TypeInv, StreamTypes
<1>3. \A i \in nParsed + 1 .. LineEnd - 1 : written[i].kind = "part"
  BY <1>1, LineEndIs
<1>4. LineEnd - 1 \in Nat /\ nParsed <= LineEnd - 1
  BY <1>2
<1>5. Prefix(written, LineEnd - 1, processed, lastTs)
  BY <1>1, <1>2, <1>3, <1>4, PrefixWithParts
<1>6. QED  BY <1>1, <1>2, <1>5

-----------------------------------------------------------------------------
(* What the runner knows of the stream. *)

LEMMA StreamInitial == Init => StreamInv
<1> SUFFICES ASSUME Init PROVE StreamInv
  OBVIOUS
<1>1. Prefix(written, 0, 0, 0)
  <2>1. EventsUpTo(written, 0) = {}
    BY DEF EventsUpTo
  <2>2. QED  BY <2>1, FS_EmptySet DEF Prefix
<1>2. QED
  BY <1>1
  DEF Init, StreamInv, ReadingInv, EmittingInv, ClosingInv, ResultInv, StreamDiagnosis, EventDiagnosis,
      EosDiagnosis, DetectorDiagnostic, Closing

\* What the steps of others than the runner leave alone.
LEMMA OthersKeep ==
  ASSUME Child \/ Drainer \/ Tick \/ Finished \/ Refuse \/ UNCHANGED vars
  PROVE  /\ UNCHANGED <<nRead, nParsed, processed, lastTs, eos, result>>
         /\ pc' = pc \/ (pc = "starting" /\ pc' = "done")
         /\ written' = written \/ ChildWrites
<1> USE DEF ChildKeeps, DrainerKeeps, streamVars, timerVars, drainVars, childVars, vars
<1>1. CASE Child /\ ~ChildWrites
  BY <1>1 DEF Child, ChildWritesOn, ChildWritesErr, ChildForks, ChildExits, ChildDies, OrphanExits
<1>2. CASE ChildWrites
  <2>1. UNCHANGED <<nRead, nParsed, processed, lastTs, eos, result, pc>>
    BY <1>2 DEF ChildWrites
  <2>2. QED  BY <1>2, <2>1
<1>3. CASE Drainer \/ Tick \/ Finished \/ Refuse \/ UNCHANGED vars
  BY <1>3 DEF Drainer, DrainChunk, DrainEnds, Tick, Finished, Refuse
<1>4. QED  BY <1>1, <1>2, <1>3

\* A writer appends a unit, and is there to do so.
LEMMA ChildWritesIs ==
  ASSUME TypeInv, ChildWrites
  PROVE  /\ written \in Seq(AnyUnit) /\ ~WriterGone
         /\ \E u \in AnyUnit : written' = Append(written, u)
         /\ Len(written') = Len(written) + 1
<1>1. written \in Seq(AnyUnit) /\ EventsIn(written) \in Nat
  <2>1. written \in Seq(AnyUnit) /\ Len(written) \in Nat
    BY DEF TypeInv, StreamTypes
  <2>2. QED  BY <2>1, EventsInIs, EventsAreFinite
<1>2. PICK u \in Unit : written' = Append(written, u)
  BY DEF ChildWrites
<1>3. u \in AnyUnit
  BY <1>1, <1>2 DEF Unit, AnyUnit, Sentinels
<1>4. ~WriterGone
  BY DEF ChildWrites, HasWriter, WriterGone
<1>5. QED  BY <1>1, <1>2, <1>3, <1>4

LEMMA CompleteAfterWrite ==
  ASSUME TypeInv, ChildWrites
  PROVE  /\ Complete => Complete'
         /\ Complete /\ AccountsMatch => AccountsMatch'
         /\ \A n \in 0 .. Len(written) : EventsUpTo(written', n) = EventsUpTo(written, n)
         /\ \A n \in 1 .. Len(written) : written'[n] = written[n]
         /\ \A n \in 0 .. Len(written) : \A p, t :
              Prefix(written, n, p, t) => Prefix(written', n, p, t)
<1>1. PICK u \in AnyUnit : written' = Append(written, u)
  BY ChildWritesIs
<1>2. written \in Seq(AnyUnit)
  BY ChildWritesIs
<1>3. /\ \A n \in 0 .. Len(written) : EventsUpTo(written', n) = EventsUpTo(written, n)
      /\ \A n \in 1 .. Len(written) : written'[n] = written[n]
  BY <1>1, <1>2, EventsAfterAppend
<1>4. \A n \in 0 .. Len(written) : \A p, t :
        Prefix(written, n, p, t) => Prefix(written', n, p, t)
  BY <1>1, <1>2, PrefixAfterAppend
<1>5. UNCHANGED <<nRead, nParsed, processed, lastTs, eos, result>>
  BY OthersKeep DEF Child
<1>6. eos \in 0 .. Len(written)
  BY DEF TypeInv, StreamTypes
<1>7. Complete => Complete'
  <2> SUFFICES ASSUME Complete PROVE Complete'
    OBVIOUS
  <2>1. eos - 1 \in 0 .. Len(written) /\ eos \in 1 .. Len(written)
    BY <1>6 DEF Complete
  <2>2. Prefix(written', eos - 1, processed, lastTs) /\ written'[eos].kind = "eos"
    BY <1>3, <1>4, <2>1 DEF Complete
  <2>3. QED  BY <1>5, <2>2 DEF Complete
<1>8. Complete /\ AccountsMatch => AccountsMatch'
  BY <1>3, <1>5, <1>6 DEF Complete, AccountsMatch
<1>9. QED  BY <1>3, <1>4, <1>7, <1>8

LEMMA ReadingOfNext == TypeInv /\ StreamInv /\ [CliNext]_vars => ReadingInv'
<1> SUFFICES ASSUME TypeInv, StreamInv, [CliNext]_vars,
                    pc' \in {"starting"} \cup Reading
             PROVE  eos' = 0 /\ Prefix(written', nParsed', processed', lastTs')
  BY DEF ReadingInv
<1>0. StreamTypes /\ ReadingInv
  BY DEF TypeInv, StreamInv
<1> USE DEF Reading, RunnerKeeps, CleanupKeeps, Fail, streamVars, childVars
<1>1. CASE Starts
  BY <1>0, <1>1 DEF Starts, NotAFile, SpawnFails, Spawn, ReadingInv
<1>2. CASE Reads
  BY <1>0, <1>2 DEF Reads, ReadChunk, ReadEof, Inactive, LineTooLong, ReadingInv
<1>3. CASE Records
  <2>1. CASE ProcessEvent
    <3>1. HasRecord /\ HasLine
      BY <2>1 DEF ProcessEvent, HasRecord
    <3>2. Prefix(written, LineEnd - 1, processed, lastTs) /\ eos = 0
      BY <1>0, <3>1, PrefixBeforeLine
    <3>3. LineEnd \in nParsed + 1 .. nRead /\ Line = written[LineEnd]
      BY <3>1, LineEndIs
    <3>4. written[LineEnd].kind = "event" /\ written[LineEnd].ts >= lastTs
      BY <2>1, <3>3 DEF ProcessEvent
    <3>5. LineEnd - 1 \in Nat /\ LineEnd - 1 < Len(written) /\ (LineEnd - 1) + 1 = LineEnd
      BY <1>0, <3>3 DEF StreamTypes
    <3>6. written \in Seq(AnyUnit) /\ lastTs \in 0 .. MaxTime
      BY <1>0 DEF StreamTypes
    <3>7. Prefix(written, LineEnd, processed + 1, written[LineEnd].ts)
      BY <3>2, <3>4, <3>5, <3>6, PrefixWithEvent
    <3>8. QED  BY <2>1, <3>2, <3>3, <3>7 DEF ProcessEvent
  <2>2. CASE EmitAlert
    BY <1>0, <2>2 DEF EmitAlert, ReadingInv
  <2>3. CASE RejectRecord \/ DetectorRaises \/ EmitFails \/ AcceptEos
    BY <2>3 DEF RejectRecord, DetectorRaises, EmitFails, AcceptEos
  <2>4. QED  BY <1>3, <2>1, <2>2, <2>3 DEF Records
<1>4. CASE Closes
  <2>1. CASE CheckAccounts \/ ChildHasExited
    BY <1>0, <2>1, CheckAccountsIs, ChildHasExitedIs DEF Continues, TypeInv
  <2>2. CASE DataAfterEos \/ StdoutHasEnded \/ DrainerHasEnded \/ Late
    BY <2>2 DEF DataAfterEos, StdoutHasEnded, DrainerHasEnded, Late
  <2>3. QED  BY <1>4, <2>1, <2>2 DEF Closes
<1>5. CASE Cleans
  BY <1>5 DEF Cleans, Reap, Terminate, Kill, StopDrainer, CloseStderr
<1>6. CASE Child \/ Drainer \/ Tick \/ Finished \/ Refuse \/ UNCHANGED vars
  <2>1. eos = 0 /\ Prefix(written, nParsed, processed, lastTs)
    BY <1>0, <1>6, OthersKeep DEF ReadingInv
  <2>2. nParsed \in 0 .. Len(written)
    BY <1>0 DEF StreamTypes
  <2>3. Prefix(written', nParsed, processed, lastTs)
    BY <1>6, <2>1, <2>2, OthersKeep, CompleteAfterWrite
  <2>4. QED  BY <1>6, <2>1, <2>3, OthersKeep
<1>7. QED  BY <1>1, <1>2, <1>3, <1>4, <1>5, <1>6, RunnerIs DEF CliNext, Next

LEMMA EmittingOfNext == TypeInv /\ StreamInv /\ [CliNext]_vars => EmittingInv'
<1> SUFFICES ASSUME TypeInv, StreamInv, [CliNext]_vars, pc' = "emitting"
             PROVE  nParsed' > 0 /\ written'[nParsed'].kind = "event" /\ written'[nParsed'].ts = lastTs'
  BY DEF EmittingInv
<1>0. StreamTypes /\ EmittingInv
  BY DEF TypeInv, StreamInv
<1> USE DEF RunnerKeeps, CleanupKeeps, Fail, streamVars, childVars
<1>1. CASE Starts \/ Reads
  BY <1>1 DEF Starts, NotAFile, SpawnFails, Spawn, Reads, ReadChunk, ReadEof, Inactive, LineTooLong
<1>2. CASE Records
  <2>1. CASE ProcessEvent
    <3>1. HasLine /\ Line.kind = "event" /\ lastTs' = Line.ts /\ nParsed' = LineEnd /\ written' = written
      BY <2>1 DEF ProcessEvent, HasRecord
    <3>2. LineEnd \in nParsed + 1 .. nRead /\ Line = written[LineEnd]
      BY <3>1, LineEndIs
    <3>3. QED  BY <1>0, <3>1, <3>2 DEF StreamTypes
  <2>2. CASE EmitAlert
    BY <1>0, <2>2 DEF EmitAlert, EmittingInv
  <2>3. CASE RejectRecord \/ DetectorRaises \/ EmitFails \/ AcceptEos
    BY <2>3 DEF RejectRecord, DetectorRaises, EmitFails, AcceptEos
  <2>4. QED  BY <1>2, <2>1, <2>2, <2>3 DEF Records
<1>3. CASE Closes
  <2>1. CASE CheckAccounts \/ ChildHasExited
    BY <1>0, <2>1, CheckAccountsIs, ChildHasExitedIs DEF Continues, TypeInv
  <2>2. CASE DataAfterEos \/ StdoutHasEnded \/ DrainerHasEnded \/ Late
    BY <2>2 DEF DataAfterEos, StdoutHasEnded, DrainerHasEnded, Late
  <2>3. QED  BY <1>3, <2>1, <2>2 DEF Closes
<1>4. CASE Cleans
  BY <1>4 DEF Cleans, Reap, Terminate, Kill, StopDrainer, CloseStderr
<1>5. CASE Child \/ Drainer \/ Tick \/ Finished \/ Refuse \/ UNCHANGED vars
  <2>1. UNCHANGED <<nParsed, lastTs>> /\ pc = "emitting" /\ (written' = written \/ ChildWrites)
    BY <1>5, OthersKeep
  <2>2. nParsed \in 1 .. Len(written)
    BY <1>0, <2>1 DEF StreamTypes, EmittingInv
  <2>3. written'[nParsed] = written[nParsed]
    BY <2>1, <2>2, CompleteAfterWrite
  <2>4. QED  BY <1>0, <2>1, <2>3 DEF EmittingInv
<1>6. QED  BY <1>1, <1>2, <1>3, <1>4, <1>5, RunnerIs DEF CliNext, Next

\* Before and after a step in which nobody could write to stdout, it is the same.
LEMMA OverStaysOver ==
  ASSUME TypeInv, ProcessInv, StdoutIsOver, nRead' = nRead, [CliNext]_vars
  PROVE  StdoutIsOver' /\ UNCHANGED <<written, errWritten, exitCode>>
BY WritersStayGone DEF StdoutIsOver

LEMMA ClosingOfNext == TypeInv /\ ProcessInv /\ StreamInv /\ [CliNext]_vars => ClosingInv'
<1> SUFFICES ASSUME TypeInv, ProcessInv, StreamInv, [CliNext]_vars, pc' \in Closing
             PROVE  ClosingInv'
  BY DEF ClosingInv, Closing
<1>0. StreamTypes /\ RunnerTypes /\ ReadingInv /\ ClosingInv
  BY DEF TypeInv, StreamInv
<1> USE DEF Closing, RunnerKeeps, CleanupKeeps, Fail, streamVars, childVars
<1>1. CASE Starts \/ Reads
  BY <1>0, <1>1
  DEF Starts, NotAFile, SpawnFails, Spawn, Reads, ReadChunk, ReadEof, Inactive, LineTooLong
<1>2. CASE Records
  <2>1. CASE AcceptEos
    <3>1. HasRecord /\ HasLine
      BY <2>1 DEF AcceptEos, HasRecord
    <3>2. /\ Prefix(written, LineEnd - 1, processed, lastTs)
          /\ LineEnd \in nParsed + 1 .. Len(written)
      BY <1>0, <3>1, PrefixBeforeLine
    <3>3. written[LineEnd].kind = "eos"
      BY <2>1, <3>1, LineEndIs DEF AcceptEos
    <3>4. Complete' /\ pc' = "accounting"
      BY <1>0, <2>1, <3>2, <3>3 DEF AcceptEos, Complete, StreamTypes
    <3>5. QED  BY <3>4 DEF ClosingInv
  <2>2. CASE ProcessEvent \/ EmitAlert \/ RejectRecord \/ DetectorRaises \/ EmitFails
    BY <2>2 DEF ProcessEvent, EmitAlert, RejectRecord, DetectorRaises, EmitFails, HasRecord
  <2>3. QED  BY <1>2, <2>1, <2>2 DEF Records
<1>3. CASE Closes
  <2>1. CASE CheckAccounts
    <3>1. pc' = "awaiting_exit" /\ AccountsMatch
      BY <1>0, <2>1, CheckAccountsIs DEF Continues
    <3>2. Complete /\ UNCHANGED <<written, nRead, nParsed, processed, lastTs, eos>>
      BY <1>0, <2>1, CheckAccountsIs DEF ClosingInv, CheckAccounts
    <3>3. Complete' /\ AccountsMatch'
      BY <3>1, <3>2 DEF Complete, AccountsMatch
    <3>4. QED  BY <3>1, <3>3 DEF ClosingInv
  <2>2. CASE ChildHasExited
    <3>1. pc' = "awaiting_stdout" /\ nRead = nParsed /\ pc = "awaiting_exit"
      BY <1>0, <2>2, ChildHasExitedIs DEF Continues
    <3>2. Complete /\ AccountsMatch /\ UNCHANGED <<written, nRead, nParsed, processed, lastTs, eos>>
      BY <1>0, <2>2, <3>1, ChildHasExitedIs DEF ClosingInv, ChildHasExited
    <3>3. Complete' /\ AccountsMatch'
      BY <3>2 DEF Complete, AccountsMatch
    <3>4. QED  BY <3>1, <3>2, <3>3 DEF ClosingInv
  <2>3. CASE StdoutHasEnded
    <3>1. /\ pc' = "joining" /\ pc = "awaiting_stdout" /\ StdoutEof
          /\ UNCHANGED <<written, nRead, nParsed, processed, lastTs, eos>>
      BY <2>3 DEF StdoutHasEnded
    <3>2. Complete /\ AccountsMatch /\ nRead = nParsed
      BY <1>0, <3>1 DEF ClosingInv
    <3>3. Complete' /\ AccountsMatch'
      BY <3>1, <3>2 DEF Complete, AccountsMatch
    <3>4. StdoutIsOver
      BY <1>0, <3>1 DEF StdoutIsOver, StdoutEof, InPipe, StreamTypes
    <3>5. StdoutIsOver'
      BY <3>1, <3>4, OverStaysOver
    <3>6. QED  BY <3>1, <3>2, <3>3, <3>5 DEF ClosingInv
  <2>4. CASE DataAfterEos \/ DrainerHasEnded \/ Late
    BY <2>4 DEF DataAfterEos, DrainerHasEnded, Late
  <2>5. QED  BY <1>3, <2>1, <2>2, <2>3, <2>4 DEF Closes
<1>4. CASE Cleans
  BY <1>4 DEF Cleans, Reap, Terminate, Kill, StopDrainer, CloseStderr
<1>5. CASE Child \/ Drainer \/ Tick \/ Finished \/ Refuse \/ UNCHANGED vars
  <2>1. UNCHANGED <<nRead, nParsed, processed, lastTs, eos, pc>>
    BY <1>5, OthersKeep
  <2>2. Complete'
    BY <1>0, <1>5, <2>1, OthersKeep, CompleteAfterWrite DEF ClosingInv, Complete
  <2>3. pc # "accounting" => AccountsMatch'
    BY <1>0, <1>5, <2>1, OthersKeep, CompleteAfterWrite DEF ClosingInv, AccountsMatch
  <2>4. pc = "joining" => StdoutIsOver'
    BY <1>0, <2>1, OverStaysOver DEF ClosingInv
  <2>5. QED  BY <1>0, <2>1, <2>2, <2>3, <2>4 DEF ClosingInv
<1>6. QED  BY <1>1, <1>2, <1>3, <1>4, <1>5, RunnerIs DEF CliNext, Next

\* A result stands, and stays true: what it speaks of was read, and is not lost.
LEMMA ResultStands ==
  ASSUME TypeInv, ProcessInv, StreamInv, [CliNext]_vars, result' = result, result # "none",
         UNCHANGED <<nRead, nParsed, processed, lastTs, eos>>,
         written' = written \/ ChildWrites
  PROVE  ResultInv'
<1>0. StreamTypes /\ RunnerTypes /\ ResultInv /\ pc \notin {"starting"} \cup Reading \cup Closing
  BY DEF TypeInv, StreamInv, ProcessInv, PlacesInv
<1>1. WriterGone => WriterGone' /\ UNCHANGED <<written, errWritten, exitCode>>
  BY WritersStayGone
<1>2. /\ child = "reaped" /\ drainer = "dead" => child' = "reaped" /\ drainer' = "dead" /\ errRead' = errRead
      /\ left' <= left
  <2> USE <1>0
      DEF RunnerKeeps, ChildKept, CleanupKeeps, Fail, streamVars, timerVars, drainVars, childVars, RunnerTypes
  <2>1. CASE Starts \/ Reads \/ Records
    BY <2>1
    DEF Starts, NotAFile, SpawnFails, Spawn, Reads, ReadChunk, ReadEof, Inactive, LineTooLong,
        Records, RejectRecord, DetectorRaises, ProcessEvent, EmitAlert, EmitFails, AcceptEos,
        HasRecord, Reading
  <2>2. CASE Closes
    BY <2>2
    DEF Closes, CheckAccounts, ChildHasExited, DataAfterEos, StdoutHasEnded, DrainerHasEnded,
        Late, Closing
  <2>3. CASE Cleans
    BY <2>3 DEF Cleans, Reap, Terminate, Kill, StopDrainer, CloseStderr
  <2>4. CASE Child
    BY <2>4
    DEF Child, ChildWrites, ChildWritesOn, ChildWritesErr, ChildForks, ChildExits, ChildDies,
        OrphanExits, ChildKeeps
  <2>5. CASE Drainer \/ Tick \/ Finished \/ Refuse \/ UNCHANGED vars
    BY <2>5
    DEF Drainer, DrainChunk, DrainEnds, DrainerKeeps, Tick, Finished, Refuse, vars
  <2>6. QED  BY <2>1, <2>2, <2>3, <2>4, <2>5, RunnerIs DEF CliNext, Next
<1>3. /\ \A i \in 1 .. Len(written) : written'[i] = written[i]
      /\ \A n \in 0 .. Len(written) : EventsUpTo(written', n) = EventsUpTo(written, n)
  <2>1. CASE ChildWrites
    BY <2>1, CompleteAfterWrite
  <2>2. CASE written' = written
    BY <2>2
  <2>3. QED  BY <2>1, <2>2
<1>4. /\ nParsed \in 0 .. Len(written) /\ nRead \in 0 .. Len(written) /\ eos \in 0 .. Len(written)
      /\ nParsed <= nRead /\ eos <= nRead /\ Len(written) \in Nat
  BY <1>0 DEF StreamTypes
<1>5. ASSUME result = "success"
      PROVE  /\ Complete' /\ AccountsMatch' /\ StdoutIsOver' /\ eos' = Len(written')
             /\ child' = "reaped" /\ exitCode' = 0 /\ drainer' = "dead" /\ errRead' = errWritten'
  <2>1. /\ Complete /\ AccountsMatch /\ StdoutIsOver /\ eos = Len(written)
        /\ child = "reaped" /\ exitCode = 0 /\ drainer = "dead" /\ errRead = errWritten
    BY <1>0, <1>5 DEF ResultInv
  <2>2. WriterGone' /\ UNCHANGED <<written, errWritten, exitCode>>
    BY <1>1, <2>1 DEF StdoutIsOver
  <2>3. QED  BY <1>2, <2>1, <2>2 DEF Complete, AccountsMatch, StdoutIsOver
<1>6. StreamDiagnosis'
  <2>0. StreamDiagnosis
    BY <1>0 DEF ResultInv
  <2>1. ASSUME result = "missing_end_of_stream"
        PROVE  /\ WriterGone' /\ nParsed' = Len(written')
               /\ processed' = Cardinality(EventsUpTo(written', Len(written')))
               /\ \A i \in 1 .. Len(written') : written'[i].kind # "eos"
    BY <2>0, <2>1, <1>1 DEF StreamDiagnosis
  <2>2. ASSUME result = "invalid_stream_record"
        PROVE  /\ eos' = 0 /\ nParsed' > 0
               /\ \/ written'[nParsed'].kind = "invalid"
                  \/ written'[nParsed'].kind = "part" /\ WriterGone' /\ nParsed' = Len(written')
    <3>1. eos = 0 /\ nParsed > 0 /\ written'[nParsed] = written[nParsed]
      BY <2>0, <2>2, <1>3, <1>4 DEF StreamDiagnosis
    <3>2. QED  BY <2>0, <2>2, <3>1, <1>1 DEF StreamDiagnosis
  <2>3. ASSUME result = "pre_end_of_stream_timeout"
        PROVE  eos' = 0 /\ \A i \in nParsed' + 1 .. nRead' : written'[i].kind = "part"
    BY <2>0, <2>3, <1>3, <1>4 DEF StreamDiagnosis
  <2>4. ASSUME result = "stream_line_too_long"
        PROVE  \E i \in MaxLine + 1 .. nRead' : \A j \in i - MaxLine .. i - 1 : written'[j].kind = "part"
    <3>1. PICK i \in MaxLine + 1 .. nRead : \A j \in i - MaxLine .. i - 1 : written[j].kind = "part"
      BY <2>0, <2>4 DEF StreamDiagnosis
    <3>2. \A j \in i - MaxLine .. i - 1 : j \in 1 .. Len(written)
      BY <1>4, ConstantsAre
    <3>3. QED  BY <1>3, <3>1, <3>2
  <2>5. QED  BY <2>1, <2>2, <2>3, <2>4 DEF StreamDiagnosis
<1>7. EventDiagnosis'
  <2>0. EventDiagnosis
    BY <1>0 DEF ResultInv
  <2>1. nParsed > 0 => /\ written'[nParsed] = written[nParsed]
                       /\ EventsUpTo(written', nParsed) = EventsUpTo(written, nParsed)
                       /\ EventsUpTo(written', nParsed - 1) = EventsUpTo(written, nParsed - 1)
    <3>1. nParsed > 0 => nParsed \in 1 .. Len(written) /\ nParsed - 1 \in 0 .. Len(written)
      BY <1>4
    <3>2. QED  BY <1>3, <1>4, <3>1
  <2>2. QED  BY <2>0, <2>1 DEF EventDiagnosis
<1>8. EosDiagnosis'
  <2>0. EosDiagnosis
    BY <1>0 DEF ResultInv
  <2>1. eos # 0 => (CountIsRight <=> CountIsRight') /\ (TimeIsRight <=> TimeIsRight')
    <3>1. ASSUME eos # 0
          PROVE  written'[eos] = written[eos] /\ EventsUpTo(written', eos) = EventsUpTo(written, eos)
      BY <1>3, <1>4, <3>1
    <3>2. \A i \in EventsUpTo(written, eos) : i \in 1 .. Len(written)
      BY <1>4 DEF EventsUpTo
    <3>3. \A i \in EventsUpTo(written, eos) : written'[i] = written[i]
      BY <1>3, <3>2
    <3>4. QED  BY <3>1, <3>3 DEF CountIsRight, TimeIsRight
  <2>2. \A n \in eos + 1 .. nRead :
          /\ written'[n] = written[n]
          /\ \A i \in eos + 1 .. n - 1 : written'[i] = written[i]
    BY <1>3, <1>4
  <2>3. ASSUME result \in {"duplicate_end_of_stream", "data_after_end_of_stream"} PROVE EosDiagnosis'
    BY <2>0, <2>2, <2>3 DEF EosDiagnosis
  <2>4. ASSUME result = "child_exit_nonzero" PROVE EosDiagnosis'
    BY <2>0, <2>1, <2>4, <1>1 DEF EosDiagnosis
  <2>5. ASSUME result = "post_end_of_stream_timeout" PROVE EosDiagnosis'
    <3>1. left' <= ReserveTicks
      <4>1. left <= ReserveTicks /\ left \in Nat /\ left' \in Nat
        BY <2>0, <2>5, <1>0, TypesOfNext DEF EosDiagnosis, RunnerTypes, TypeInv
      <4>2. QED  BY <4>1, <1>2, ConstantsAre
    <3>2. QED  BY <2>0, <2>1, <2>5, <3>1 DEF EosDiagnosis
  <2>6. ASSUME result \in {"end_of_stream_count_mismatch", "end_of_stream_timestamp_mismatch"}
        PROVE  EosDiagnosis'
    BY <2>0, <2>1, <2>6 DEF EosDiagnosis
  <2>7. ASSUME result \notin {"duplicate_end_of_stream", "data_after_end_of_stream", "child_exit_nonzero",
                              "post_end_of_stream_timeout", "end_of_stream_count_mismatch",
                              "end_of_stream_timestamp_mismatch"}
        PROVE  EosDiagnosis'
    BY <2>7 DEF EosDiagnosis
  <2>8. QED  BY <2>3, <2>4, <2>5, <2>6, <2>7
<1>9. QED  BY <1>5, <1>6, <1>7, <1>8 DEF ResultInv

LEMMA LateSteps ==
  ASSUME IInv, [CliNext]_vars, result' = "post_end_of_stream_timeout", result = "none"
  PROVE  left <= ReserveTicks
<1>0. RunnerTypes /\ DeadlineInv /\ StreamTypes
  BY DEF IInv, TypeInv
<1>1. CASE CheckAccounts
  BY <1>0, <1>1, CheckAccountsIs, ConstantsAre DEF Fail, Continues
<1>2. CASE ChildHasExited
  BY <1>0, <1>2, ChildHasExitedIs, AfterEosTells, ConstantsAre DEF Fail, Continues
<1>3. CASE StdoutHasEnded
  BY <1>0, <1>3, ConstantsAre DEF StdoutHasEnded, Fail
<1>4. CASE Late
  BY <1>0, <1>4, ConstantsAre DEF Late, DeadlineInv, RunnerTypes
<1>5. CASE Starts \/ Reads \/ Records \/ DataAfterEos \/ DrainerHasEnded \/ Cleans
  BY <1>5, AfterEosTells
  DEF Starts, NotAFile, SpawnFails, Spawn, Reads, ReadChunk, ReadEof, Inactive, LineTooLong,
      Records, RejectRecord, DetectorRaises, ProcessEvent, EmitAlert, EmitFails, AcceptEos,
      DetectorDiagnostic, DataAfterEos, DrainerHasEnded, Cleans, Reap, Terminate, Kill,
      StopDrainer, CloseStderr, CleanupKeeps, Fail
<1>6. CASE Child \/ Drainer \/ Tick \/ Finished \/ Refuse \/ UNCHANGED vars
  BY <1>6, OthersKeep
<1>7. QED  BY <1>1, <1>2, <1>3, <1>4, <1>5, <1>6, RunnerIs DEF CliNext, Next, Closes

\* Of a stream up to its sentinel the events are those processed, and the newest of
\* their times is lastTs.
LEMMA CompleteIs ==
  ASSUME StreamTypes, Complete
  PROVE  /\ eos > 0 /\ Cardinality(EventsUpTo(written, eos)) = processed
         /\ AccountsMatch => CountIsRight
         /\ TimeIsRight => written[eos].ts = lastTs
<1>1. eos \in Nat /\ eos > 0 /\ written[eos].kind = "eos" /\ Prefix(written, eos - 1, processed, lastTs)
      /\ eos \in 1 .. Len(written) /\ written \in Seq(AnyUnit) /\ lastTs \in 0 .. MaxTime
  BY DEF StreamTypes, Complete
<1>2. EventsUpTo(written, eos) = EventsUpTo(written, eos - 1)
  BY <1>1 DEF EventsUpTo
<1>3. Cardinality(EventsUpTo(written, eos)) = processed
  BY <1>1, <1>2 DEF Prefix
<1>4. ASSUME TimeIsRight PROVE written[eos].ts = lastTs
  <2>1. PICK i \in EventsUpTo(written, eos) : written[i].ts = written[eos].ts
    BY <1>4 DEF TimeIsRight
  <2>2. written[eos].ts <= lastTs
    BY <1>1, <1>2, <2>1 DEF Prefix
  <2>3. PICK j \in EventsUpTo(written, eos) : written[j].ts = lastTs
    BY <1>1, <1>2, <2>1 DEF Prefix
  <2>4. lastTs <= written[eos].ts
    BY <1>4, <2>3 DEF TimeIsRight
  <2>5. written[eos].ts \in Nat /\ lastTs \in Nat
    <3>1. written[eos] \in Sentinels(Nat)
      BY <1>1 DEF AnyUnit
    <3>2. QED  BY <1>1, <3>1, ConstantsAre DEF Sentinels
  <2>6. QED  BY <2>2, <2>4, <2>5
<1>5. QED  BY <1>1, <1>3, <1>4 DEF AccountsMatch, CountIsRight

LEMMA ResultOfReads ==
  ASSUME TypeInv, ProcessInv, StreamInv, [CliNext]_vars, Reads
  PROVE  ResultInv'
<1>0. StreamTypes /\ ReadingInv /\ result = "none" /\ pc = "reading" /\ written' = written
  BY DEF TypeInv, StreamInv, ProcessInv, PlacesInv, Reads, ReadChunk, ReadEof, Inactive, LineTooLong,
         RunnerKeeps, Reading
<1>1. eos = 0 /\ Prefix(written, nParsed, processed, lastTs)
  BY <1>0 DEF ReadingInv, Reading
<1>2. \A i \in nParsed + 1 .. nRead : ~HasLine => written[i].kind = "part"
  BY DEF HasLine, LineEnds
<1> USE DEF Fail, ResultInv, StreamDiagnosis, EventDiagnosis, EosDiagnosis, DetectorDiagnostic
<1>3. CASE ReadEof
  <2>1. /\ WriterGone /\ nRead = Len(written) /\ nParsed' = nRead /\ UNCHANGED <<processed, eos>> /\ ~HasLine
        /\ nParsed \in 0 .. nRead /\ nRead \in Nat
    BY <1>0, <1>3 DEF ReadEof, StdoutEof, InPipe, StreamTypes
  <2>2. WriterGone'
    BY <2>1, WritersStayGone
  <2>3. CASE Buffered = 0
    <3>1. result' = "missing_end_of_stream" /\ nParsed = nRead
      BY <1>3, <2>1, <2>3 DEF ReadEof, Buffered
    <3>2. QED  BY <1>0, <1>1, <2>1, <2>2, <3>1 DEF Prefix
  <2>4. CASE Buffered # 0
    <3>1. result' = "invalid_stream_record" /\ nRead \in nParsed + 1 .. nRead
      BY <1>3, <2>1, <2>4 DEF ReadEof, Buffered
    <3>2. written[nRead].kind = "part"
      BY <1>2, <2>1, <3>1
    <3>3. QED  BY <1>0, <1>1, <2>1, <2>2, <3>1, <3>2
  <2>5. QED  BY <2>3, <2>4
<1>4. CASE Inactive
  BY <1>0, <1>1, <1>2, <1>4 DEF Inactive
<1>5. CASE LineTooLong
  <2>1. result' = "stream_line_too_long" /\ nRead' = nRead /\ nParsed \in Nat /\ nRead \in Nat
    BY <1>0, <1>5 DEF LineTooLong, StreamTypes
  <2>2. \E i \in MaxLine + 1 .. nRead : \A j \in i - MaxLine .. i - 1 : written[j].kind = "part"
    <3>1. CASE HasLine
      <4>1. LineEnd \in nParsed + 1 .. nRead /\ LineEnd - nParsed > MaxLine
        BY <1>5, <3>1, LineEndIs, ConstantsAre, <2>1 DEF LineTooLong, LineFits
      <4>2. \A i \in nParsed + 1 .. LineEnd - 1 : written[i].kind = "part"
        BY <3>1, LineEndIs
      <4>3. LineEnd \in MaxLine + 1 .. nRead
        BY <2>1, <4>1, ConstantsAre
      <4>4. \A j \in LineEnd - MaxLine .. LineEnd - 1 : j \in nParsed + 1 .. LineEnd - 1
        BY <2>1, <4>1, ConstantsAre
      <4>5. QED  BY <4>2, <4>3, <4>4
    <3>2. CASE ~HasLine
      <4>1. nRead - nParsed > MaxLine
        BY <1>5, <3>2 DEF LineTooLong, Buffered
      <4>2. nRead \in MaxLine + 1 .. nRead
        BY <2>1, <4>1, ConstantsAre
      <4>3. \A j \in nRead - MaxLine .. nRead - 1 : j \in nParsed + 1 .. nRead
        BY <2>1, <4>1, ConstantsAre
      <4>4. QED  BY <1>2, <3>2, <4>2, <4>3
    <3>3. QED  BY <3>1, <3>2
  <2>3. QED  BY <1>0, <2>1, <2>2
<1>6. CASE ReadChunk
  BY <1>0, <1>6 DEF ReadChunk
<1>7. QED  BY <1>3, <1>4, <1>5, <1>6 DEF Reads

LEMMA ResultOfRecords ==
  ASSUME TypeInv, ProcessInv, StreamInv, [CliNext]_vars, Records
  PROVE  ResultInv'
<1>0. /\ StreamTypes /\ ReadingInv /\ EmittingInv /\ result = "none" /\ pc \in Reading /\ written' = written
  BY DEF TypeInv, StreamInv, ProcessInv, PlacesInv, Records, RejectRecord, DetectorRaises, ProcessEvent,
         EmitAlert, EmitFails, AcceptEos, HasRecord, RunnerKeeps, Reading
<1>1. eos = 0 /\ Prefix(written, nParsed, processed, lastTs)
  BY <1>0 DEF ReadingInv
<1> USE DEF Fail, ResultInv, StreamDiagnosis, EventDiagnosis, EosDiagnosis, DetectorDiagnostic
<1>2. CASE RejectRecord \/ DetectorRaises
  <2>1. HasRecord /\ HasLine
    BY <1>2 DEF RejectRecord, DetectorRaises, HasRecord
  <2>2. /\ nParsed' = LineEnd /\ UNCHANGED <<processed, lastTs, eos>>
        /\ \/ result' = "invalid_stream_record" /\ Line.kind = "invalid"
           \/ result' = "timestamp_regression" /\ Line.kind = "event"
           \/ result' \in DetectorDiagnostic /\ Line.kind = "event" /\ Line.ts >= lastTs
    BY <1>2 DEF RejectRecord, DetectorRaises
  <2>3. LineEnd \in nParsed + 1 .. nRead /\ Line = written[LineEnd] /\ LineEnd > 0
    BY <1>0, <2>1, LineEndIs DEF StreamTypes
  <2>4. processed = Cardinality(EventsUpTo(written, LineEnd - 1))
    BY <1>0, <2>1, PrefixBeforeLine DEF Prefix
  <2>5. QED  BY <1>0, <1>1, <2>2, <2>3, <2>4
<1>3. CASE EmitFails
  <2>1. /\ result' = "alert_callback_failed" /\ UNCHANGED <<nParsed, processed, lastTs, eos>>
        /\ pc = "emitting"
    BY <1>3 DEF EmitFails
  <2>2. QED  BY <1>0, <1>1, <2>1 DEF EmittingInv, Prefix
<1>4. CASE ProcessEvent \/ EmitAlert \/ AcceptEos
  BY <1>0, <1>4 DEF ProcessEvent, EmitAlert, AcceptEos
<1>5. QED  BY <1>2, <1>3, <1>4 DEF Records

LEMMA ResultOfCloses ==
  ASSUME IInv, [CliNext]_vars, Closes
  PROVE  ResultInv'
<1>0. /\ StreamTypes /\ RunnerTypes /\ ClosingInv /\ result = "none" /\ pc \in Closing /\ written' = written
      /\ UNCHANGED <<processed, eos, lastTs, nParsed>>
  BY DEF IInv, TypeInv, StreamInv, ProcessInv, PlacesInv, Closes, CheckAccounts, ChildHasExited, DataAfterEos,
         StdoutHasEnded, DrainerHasEnded, Late, RunnerKeeps, Closing
<1>1. Complete /\ eos > 0 /\ eos = nParsed /\ Cardinality(EventsUpTo(written, eos)) = processed
  BY <1>0, CompleteIs DEF ClosingInv, Complete
<1>2. CountIsRight' = CountIsRight /\ TimeIsRight' = TimeIsRight
  BY <1>0 DEF CountIsRight, TimeIsRight
<1>3. TypeInv /\ ProcessInv
  BY DEF IInv
<1> USE DEF ResultInv, StreamDiagnosis, EventDiagnosis, EosDiagnosis, DetectorDiagnostic
<1>4. result' = "none" => ResultInv'
  OBVIOUS
<1>5. ASSUME result' = "post_end_of_stream_timeout", AccountsMatch, left' = left PROVE ResultInv'
  <2>1. left <= ReserveTicks
    BY <1>0, <1>5, LateSteps
  <2>2. CountIsRight
    BY <1>0, <1>1, <1>5, CompleteIs
  <2>3. QED  BY <1>0, <1>1, <1>2, <1>5, <2>1, <2>2
<1>6. ASSUME nRead \in Nat, nRead' \in Nat, eos < nRead', result' = AfterEos(eos + 1, nRead')
      PROVE  ResultInv'
  <2>1. eos \in Nat
    BY <1>0 DEF StreamTypes
  <2>2. CASE result' = "duplicate_end_of_stream"
    <3>1. \E n \in eos + 1 .. nRead' : /\ written[n].kind = "eos" /\ n - eos <= MaxLine
                                       /\ \A i \in eos + 1 .. n - 1 : written[i].kind = "part"
      BY <1>6, <2>1, <2>2, AfterEosIs
    <3>2. QED  BY <1>0, <1>1, <2>2, <3>1
  <2>3. CASE result' = "data_after_end_of_stream"
    <3>1. \A n \in eos + 1 .. nRead' : written[n].kind = "eos" /\ n - eos <= MaxLine =>
            \E i \in eos + 1 .. n - 1 : written[i].kind # "part"
      BY <1>6, <2>1, <2>3, AfterEosIs
    <3>2. QED  BY <1>0, <1>1, <1>6, <2>3, <3>1
  <2>4. QED  BY <1>6, <2>2, <2>3, AfterEosTells
<1>7. CASE CheckAccounts
  <2>1. \/ written[eos].count # processed /\ result' = "end_of_stream_count_mismatch"
        \/ /\ written[eos].count = processed /\ ~AccountsMatch
           /\ result' = "end_of_stream_timestamp_mismatch"
        \/ AccountsMatch /\ result' = "post_end_of_stream_timeout" /\ left' = left
        \/ result' = "none"
    BY <1>0, <1>7, CheckAccountsIs DEF Fail, Continues
  <2>2. CASE written[eos].count # processed /\ result' = "end_of_stream_count_mismatch"
    BY <1>0, <1>1, <1>2, <2>2 DEF CountIsRight
  <2>3. CASE /\ written[eos].count = processed /\ ~AccountsMatch
             /\ result' = "end_of_stream_timestamp_mismatch"
    <3>1. CountIsRight /\ ~TimeIsRight
      BY <1>0, <1>1, <2>3, CompleteIs DEF CountIsRight, AccountsMatch
    <3>2. QED  BY <1>0, <1>1, <1>2, <2>3, <3>1
  <2>4. QED  BY <1>4, <1>5, <2>1, <2>2, <2>3
<1>8. CASE ChildHasExited
  <2>1. /\ pc = "awaiting_exit" /\ nRead' = nRead
        /\ \/ nParsed < nRead /\ result' = AfterEos(nParsed + 1, nRead)
           \/ result' = "post_end_of_stream_timeout" /\ left' = left
           \/ result' = "none"
    BY <1>0, <1>8, ChildHasExitedIs DEF Fail, Continues
  <2>2. AccountsMatch
    BY <1>0, <2>1 DEF ClosingInv, Closing
  <2>3. CASE nParsed < nRead /\ result' = AfterEos(nParsed + 1, nRead)
    BY <1>0, <1>1, <1>6, <2>1, <2>3 DEF StreamTypes
  <2>4. QED  BY <1>4, <1>5, <2>1, <2>2, <2>3
<1>9. CASE DataAfterEos
  <2>1. pc = "awaiting_stdout" /\ nRead' \in nRead + 1 .. Len(written) /\ result' = AfterEos(nRead + 1, nRead')
    BY <1>9 DEF DataAfterEos, Fail
  <2>2. nRead = eos /\ nRead \in Nat /\ Len(written) \in Nat
    BY <1>0, <1>1, <2>1 DEF ClosingInv, StreamTypes
  <2>3. QED  BY <1>6, <2>1, <2>2
<1>10. CASE StdoutHasEnded \/ Late
  <2>1. /\ pc \in {"awaiting_exit", "awaiting_stdout", "joining"}
        /\ result' = "none" \/ (result' = "post_end_of_stream_timeout" /\ left' = left)
    BY <1>0, <1>10 DEF StdoutHasEnded, Late, Fail
  <2>2. AccountsMatch
    BY <1>0, <2>1 DEF ClosingInv, Closing
  <2>3. QED  BY <1>4, <1>5, <2>1, <2>2
<1>11. CASE DrainerHasEnded
  <2>1. /\ AccountsMatch /\ StdoutIsOver /\ nRead = nParsed
        /\ child = "reaped" /\ drainer = "dead" /\ StderrEof
    <3>1. pc = "joining" /\ drainer = "dead"
      BY <1>11 DEF DrainerHasEnded
    <3>2. StderrEof
      BY <3>1 DEF IInv, ProcessInv, DrainerInv
    <3>3. QED  BY <1>0, <3>1, <3>2 DEF ClosingInv, Closing, IInv, ProcessInv, PlacesInv
  <2>2. /\ UNCHANGED <<written, errWritten, errRead, drainer, child, exitCode>>
        /\ UNCHANGED <<nRead, nParsed, processed, lastTs, eos>>
        /\ \/ exitCode = 0 /\ result' = "success"
           \/ exitCode # 0 /\ result' = "child_exit_nonzero"
    BY <1>11 DEF DrainerHasEnded, RunnerKeeps, ChildKept, Fail
  <2>3. StdoutIsOver'
    BY <1>3, <2>1, <2>2, OverStaysOver
  <2>4. eos' = Len(written')
    BY <1>1, <2>1, <2>2 DEF StdoutIsOver
  <2>5. Complete' /\ AccountsMatch' /\ errRead' = errWritten'
    BY <1>1, <2>1, <2>2 DEF Complete, AccountsMatch, StderrEof
  <2>6. CountIsRight'
    BY <1>0, <1>1, <1>2, <2>1, CompleteIs
  <2>7. QED  BY <1>1, <2>1, <2>2, <2>3, <2>4, <2>5, <2>6 DEF StdoutIsOver
<1>12. QED  BY <1>7, <1>8, <1>9, <1>10, <1>11 DEF Closes

LEMMA ResultOfNext == IInv /\ [CliNext]_vars => ResultInv'
<1> SUFFICES ASSUME IInv, [CliNext]_vars PROVE ResultInv'
  OBVIOUS
<1>0. TypeInv /\ ProcessInv /\ StreamInv /\ PlacesInv /\ ResultInv
  BY DEF IInv, ProcessInv, StreamInv
<1>1. result' \notin {"success"} \cup (Diagnostic \ {"pcap_not_regular_file", "child_start_failed"})
        => ResultInv'
  BY DEF ResultInv, StreamDiagnosis, EventDiagnosis, EosDiagnosis, DetectorDiagnostic, Diagnostic
<1>2. CASE Starts
  <2>1. result = "none"
    BY <1>0, <1>2 DEF Starts, NotAFile, SpawnFails, Spawn, PlacesInv
  <2>2. result' \in {"none", "pcap_not_regular_file", "child_start_failed"}
    BY <1>2, <2>1 DEF Starts, NotAFile, SpawnFails, Spawn
  <2>3. QED  BY <1>1, <2>2 DEF Diagnostic, DetectorDiagnostic
<1>3. CASE Reads
  BY <1>0, <1>3, ResultOfReads
<1>4. CASE Records
  BY <1>0, <1>4, ResultOfRecords
<1>5. CASE Closes
  BY <1>5, ResultOfCloses
<1>6. ASSUME UNCHANGED <<nRead, nParsed, processed, lastTs, eos, result>>, written' = written \/ ChildWrites
      PROVE  ResultInv'
  <2>1. CASE result = "none"
    BY <1>1, <1>6, <2>1 DEF Diagnostic, DetectorDiagnostic
  <2>2. CASE result # "none"
    BY <1>0, <1>6, <2>2, ResultStands
  <2>3. QED  BY <2>1, <2>2
<1>7. CASE Cleans
  BY <1>6, <1>7
  DEF Cleans, Reap, Terminate, Kill, StopDrainer, CloseStderr, CleanupKeeps, RunnerKeeps, streamVars
<1>8. CASE Child \/ Drainer \/ Tick \/ Finished \/ Refuse \/ UNCHANGED vars
  BY <1>6, <1>8, OthersKeep
<1>9. QED  BY <1>2, <1>3, <1>4, <1>5, <1>7, <1>8, RunnerIs DEF CliNext, Next

-----------------------------------------------------------------------------
(* The deadlines. *)

LEMMA DeadlineInitial == Init => DeadlineInv
BY DEF Init, DeadlineInv

LEMMA DeadlineOfNext == TypeInv /\ ProcessInv /\ StreamInv /\ DeadlineInv /\ [CliNext]_vars => DeadlineInv'
<1> SUFFICES ASSUME TypeInv, ProcessInv, StreamInv, DeadlineInv, [CliNext]_vars PROVE DeadlineInv'
  OBVIOUS
<1>0. StreamTypes /\ RunnerTypes /\ PlacesInv /\ DeadlineInv /\ ReadingInv
  BY DEF TypeInv, ProcessInv, StreamInv
<1> USE ConstantsAre DEF DeadlineInv, RunnerTypes, Fail, Grace, CleanupKeeps, streamVars, timerVars
<1>1. CASE Starts \/ Reads
  BY <1>0, <1>1
  DEF Starts, NotAFile, SpawnFails, Spawn, Reads, ReadChunk, ReadEof, Inactive, LineTooLong
<1>2. CASE Records
  BY <1>0, <1>2
  DEF Records, RejectRecord, DetectorRaises, ProcessEvent, EmitAlert, EmitFails, AcceptEos,
      HasRecord
<1>3. CASE Closes
  <2>1. CASE CheckAccounts \/ ChildHasExited
    BY <1>0, <2>1, CheckAccountsIs, ChildHasExitedIs DEF Continues
  <2>2. CASE DataAfterEos \/ StdoutHasEnded \/ DrainerHasEnded \/ Late
    BY <1>0, <2>2 DEF DataAfterEos, StdoutHasEnded, DrainerHasEnded, Late
  <2>3. QED  BY <1>3, <2>1, <2>2 DEF Closes
<1>4. CASE Cleans
  BY <1>0, <1>4 DEF Cleans, Reap, Terminate, Kill, StopDrainer, CloseStderr
<1>5. CASE Tick
  BY <1>0, <1>5 DEF Tick
<1>6. CASE Child \/ Drainer \/ Finished \/ Refuse \/ UNCHANGED vars
  BY <1>0, <1>6
  DEF Child, ChildWrites, ChildWritesOn, ChildWritesErr, ChildForks, ChildExits, ChildDies, OrphanExits,
      ChildKeeps, Drainer, DrainChunk, DrainEnds, DrainerKeeps, Finished, Refuse, vars
<1>7. QED  BY <1>1, <1>2, <1>3, <1>4, <1>5, <1>6, RunnerIs DEF CliNext, Next

-----------------------------------------------------------------------------
(* The theorems. *)

\* The invariant holds of every replay that the command line runs or refuses.
THEOREM Invariance == CliSpec => []IInv
<1>1. Init => IInv
  BY TypesInitial, ProcessInitial, StreamInitial, DeadlineInitial DEF IInv
<1>2. IInv /\ [CliNext]_vars => IInv'
  BY TypesOfNext, PlacesOfNext, DrainerOfNext, ReadingOfNext, EmittingOfNext, ClosingOfNext,
     ResultOfNext, DeadlineOfNext
  DEF IInv, ProcessInv, StreamInv
<1>3. QED  BY <1>1, <1>2, PTL DEF CliSpec

\* No position, counter or deadline of run_command leaves its range.
THEOREM TypeCorrect == CliSpec => []TypeOK
<1>1. IInv => TypeOK
  BY TypesAreOK DEF IInv
<1>2. QED  BY <1>1, Invariance, PTL

\* Of a complete stream, the accounts are the number of its events, and the
\* runner has processed all of them.
LEMMA CompleteAccounts ==
  ASSUME StreamTypes, Complete, eos = Len(written)
  PROVE  EventsIn(written) = processed
<1>1. eos \in Nat /\ eos > 0 /\ written \in Seq(AnyUnit)
  BY DEF StreamTypes, Complete
<1>2. EventsUpTo(written, eos) = EventsUpTo(written, eos - 1)
  BY <1>1 DEF EventsUpTo, Complete
<1>3. processed = Cardinality(EventsUpTo(written, eos - 1))
  BY DEF Complete, Prefix
<1>4. QED  BY <1>1, <1>2, <1>3, EventsInIs

LEMMA SuccessFollows == IInv => SuccessIsComplete
<1> SUFFICES ASSUME IInv, result = "success" PROVE SuccessIsComplete
  BY DEF SuccessIsComplete
<1>1. StreamTypes /\ ResultInv
  BY DEF IInv, TypeInv, StreamInv
<1>2. /\ Complete /\ AccountsMatch /\ eos = Len(written) /\ nParsed = Len(written)
      /\ child = "reaped" /\ exitCode = 0 /\ drainer = "dead" /\ errRead = errWritten
  BY <1>1 DEF ResultInv, Complete
<1>3. EventsIn(written) = written[eos].count /\ processed = written[eos].count
  BY <1>1, <1>2, CompleteAccounts DEF AccountsMatch
<1>4. \A i \in 1 .. eos - 1 : written[i].kind \in {"event", "part"}
  BY <1>2 DEF Complete, Prefix
<1>5. \A i, j \in 1 .. eos - 1 : i < j /\ written[i].kind = "event" /\ written[j].kind = "event"
        => written[i].ts <= written[j].ts /\ written[j].ts <= written[eos].ts
  BY <1>2 DEF Complete, Prefix, EventsUpTo, AccountsMatch
<1>6. QED  BY <1>2, <1>3, <1>4, <1>5 DEF SuccessIsComplete

\* A replay that is a success has processed the whole capture: the child exited
\* with 0, its stream ended with one sentinel, and the accounts are right.
THEOREM SuccessfulReplaysAreComplete == CliSpec => []SuccessIsComplete
BY SuccessFollows, Invariance, PTL

LEMMA DiagnosisFollows == IInv => DiagnosisIsTrue
<1> SUFFICES ASSUME IInv PROVE DiagnosisIsTrue
  OBVIOUS
<1>1. StartDiagnosis
  BY DEF IInv, TypeInv, RunnerTypes, Place, ProcessInv, PlacesInv, StartDiagnosis, Unstarted, NotStarted
<1>2. QED  BY <1>1 DEF IInv, StreamInv, ResultInv, DiagnosisIsTrue

\* Each diagnostic of a failed replay is true of what was written, read and waited for.
THEOREM DiagnosticsAreTrue == CliSpec => []DiagnosisIsTrue
BY DiagnosisFollows, Invariance, PTL

\* run_command never leaves its child running, or a zombie.
THEOREM NoChildIsLeft == CliSpec => []ChildReaped
<1>1. IInv => ChildReaped
  BY DEF IInv, ProcessInv, PlacesInv, ChildReaped
<1>2. QED  BY <1>1, Invariance, PTL

\* After the sentinel no wait of the runner outlasts the one deadline.
THEOREM OneDeadline == CliSpec => []NoFreshBudget
<1>1. IInv => NoFreshBudget
  BY DEF IInv, DeadlineInv, NoFreshBudget
<1>2. QED  BY <1>1, Invariance, PTL

LEMMA StatusFollows == IInv => StatusIsTrue
<1> SUFFICES ASSUME IInv, pc = "done" PROVE StatusIsTrue
  BY DEF StatusIsTrue
<1>1. StreamTypes /\ RunnerTypes /\ ResultInv /\ PlacesInv
  BY DEF IInv, TypeInv, StreamInv, ProcessInv
<1>2. ASSUME ExitStatus = 0
      PROVE  /\ child = "reaped" /\ exitCode = 0 /\ EventsIn(written) = processed
             /\ pending = 0 /\ nParsed = Len(written) /\ drainer = "dead"
  <2>1. result = "success"
    BY <1>2 DEF ExitStatus
  <2>2. Complete /\ eos = Len(written) /\ nParsed = Len(written)
    BY <1>1, <2>1 DEF ResultInv, Complete
  <2>3. pending = 0
    BY <1>1, ConstantsAre DEF PlacesInv, RunnerTypes
  <2>4. QED  BY <1>1, <2>1, <2>2, <2>3, CompleteAccounts DEF ResultInv
<1>3. ASSUME ExitStatus = 2 PROVE child = "none" /\ processed = 0 /\ drainer = "none"
  <2>1. result \in NotStarted
    BY <1>3 DEF ExitStatus
  <2>2. QED  BY <1>1, <2>1 DEF PlacesInv, Unstarted
<1>4. QED  BY <1>2, <1>3 DEF StatusIsTrue

\* The exit status 0 tells of a complete replay, and 2 of one that never started.
THEOREM ExitStatusIsTrue == CliSpec => []StatusIsTrue
BY StatusFollows, Invariance, PTL

\* A replay is failed as late after its sentinel only when no more than the
\* reserve for the drainer is left of the deadline.
THEOREM LateOnlyWhenLate == CliSpec => LateMeansLate
<1>1. IInv /\ [CliNext]_vars
        => [result' = "post_end_of_stream_timeout" /\ result = "none" => left <= ReserveTicks]_vars
  BY LateSteps
<1>2. QED  BY <1>1, Invariance, PTL DEF CliSpec, LateMeansLate
=============================================================================
