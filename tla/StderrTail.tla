----------------------------- MODULE StderrTail -----------------------------
(***************************************************************************)
(* _StderrTail (replay.py): the byte-exact tail of what the child wrote to   *)
(* stderr, kept as the chunks the drainer read.  append holds the lock       *)
(* while it drops and cuts chunks, one loop iteration per step here, and     *)
(* snapshot takes the same lock.                                             *)
(*                                                                           *)
(* A byte is its position in the stream, so a chunk is an interval of them,  *)
(* [from, to).                                                               *)
(***************************************************************************)
EXTENDS Integers, Sequences

CONSTANTS
  Cap,      \* STDERR_TAIL_BYTES
  MaxChunk, \* bytes of one os.read
  MaxTotal  \* bound: bytes the child writes to stderr

ASSUME TailConstants ==
  /\ {Cap, MaxChunk} \subseteq Nat \ {0}
  /\ MaxTotal \in Nat

VARIABLES
  chunks, \* _chunks
  size,   \* _size
  locked, \* append is in its loop
  total,  \* bytes appended so far
  read    \* the bytes, an interval, that the last snapshot joined

vars == <<chunks, size, locked, total, read>>

Chunk     == [from : 0..MaxTotal, to : 0..MaxTotal]
Length(c) == c.to - c.from
Excess    == size - Cap

Joined == IF chunks = <<>> THEN [from |-> total, to |-> total]
          ELSE [from |-> chunks[1].from, to |-> chunks[Len(chunks)].to]

\* How much of it the tail is to keep.
Latest == IF total < Cap THEN total ELSE Cap

Init ==
  /\ chunks = <<>> /\ size = 0 /\ locked = FALSE /\ total = 0
  /\ read = [from |-> 0, to |-> 0]

AppendChunk ==
  /\ ~locked
  /\ \E n \in 1..MaxChunk :
       /\ total + n <= MaxTotal
       /\ chunks' = Append(chunks, [from |-> total, to |-> total + n])
       /\ size' = size + n
       /\ total' = total + n
  /\ locked' = TRUE
  /\ UNCHANGED read

\* Faulty: one chunk at most is dropped.
DropOldestOnce ==
  /\ locked /\ Excess > 0
  /\ Length(Head(chunks)) <= Excess
  /\ chunks' = Tail(chunks)
  /\ size' = size - Length(Head(chunks))
  /\ locked' = FALSE
  /\ UNCHANGED <<total, read>>

\* The oldest chunk is in excess as a whole.
DropOldest ==
  /\ locked /\ Excess > 0
  /\ Length(Head(chunks)) <= Excess
  /\ chunks' = Tail(chunks)
  /\ size' = size - Length(Head(chunks))
  /\ UNCHANGED <<locked, total, read>>

\* Only its end is kept, and the loop breaks.
CutOldest ==
  /\ locked /\ Excess > 0
  /\ Length(Head(chunks)) > Excess
  /\ chunks' = [chunks EXCEPT ![1].from = @ + Excess]
  /\ size' = size - Excess
  /\ locked' = FALSE
  /\ UNCHANGED <<total, read>>

LoopEnds ==
  /\ locked /\ Excess <= 0
  /\ locked' = FALSE
  /\ UNCHANGED <<chunks, size, total, read>>

\* Faulty: the lock is not taken.
SnapshotUnlocked ==
  /\ read' = Joined
  /\ UNCHANGED <<chunks, size, locked, total>>

Snapshot ==
  /\ ~locked
  /\ read' = Joined
  /\ UNCHANGED <<chunks, size, locked, total>>

Next == AppendChunk \/ DropOldest \/ CutOldest \/ LoopEnds \/ Snapshot

Spec == Init /\ [][Next]_vars

-----------------------------------------------------------------------------
\* The chunks are non-empty and adjoin each other up to the last byte written,
\* and the size is that of the bytes they hold, also while a loop is at work.
TailConsistent ==
  /\ \A i \in DOMAIN chunks : chunks[i].from < chunks[i].to
  /\ \A i \in 1 .. Len(chunks) - 1 : chunks[i].to = chunks[i + 1].from
  /\ chunks # <<>> => chunks[Len(chunks)].to = total
  /\ size = Joined.to - Joined.from

TypeOK ==
  /\ chunks \in Seq(Chunk)
  /\ size \in 0 .. Cap + MaxChunk /\ total \in 0..MaxTotal
  /\ locked \in BOOLEAN /\ read \in Chunk

\* When no append is at work, the tail is all that was written, or the last Cap
\* bytes of it: "the private, byte-exact latest 64 KiB".
KeepsLatest ==
  ~locked => /\ size = Latest
             /\ Joined = [from |-> total - size, to |-> total]

\* A snapshot never sees more than Cap bytes nor, once as many were written, less.
SnapshotExact ==
  [][read' # read => read'.to = total /\ read'.to - read'.from = Latest]_vars

\* The inductive invariant: the two above, and that a loop never drops too much.
IInv == TypeOK /\ TailConsistent /\ KeepsLatest /\ size >= Latest
=============================================================================
