-------------------------- MODULE StderrTailProofs --------------------------
(***************************************************************************)
(* The tail of stderr is exact, for every capacity and chunk size.  The      *)
(* argument is on the interval that the chunks cover: its length is size,    *)
(* its end is total, and each step moves its start by what it takes off.     *)
(***************************************************************************)
EXTENDS StderrTail, TLAPS

\* The facts about chunks that the steps use.
LEMMA ChunksCover ==
  ASSUME IInv
  PROVE  /\ chunks # <<>> =>
              /\ Len(chunks) \in Nat \ {0}
              /\ chunks[1] \in Chunk /\ chunks[Len(chunks)] \in Chunk
              /\ chunks[1].from < chunks[1].to
              /\ size = total - chunks[1].from
         /\ chunks = <<>> => size = 0
         /\ size \in Int /\ total \in Nat
  <1>1. chunks \in Seq(Chunk)
    BY DEF IInv, TypeOK
  <1>2. chunks # <<>> => Len(chunks) \in Nat \ {0}
    BY <1>1
  <1>3. chunks # <<>> => 1 \in DOMAIN chunks /\ Len(chunks) \in DOMAIN chunks
    BY <1>1, <1>2
  <1>4. chunks # <<>> => chunks[1] \in Chunk /\ chunks[Len(chunks)] \in Chunk
    BY <1>1, <1>3
  <1>5. total \in Nat
    BY TailConstants DEF IInv, TypeOK
  <1>6. chunks # <<>> => size = total - chunks[1].from
    BY <1>3, <1>4 DEF IInv, TailConsistent, Joined
  <1>7. chunks = <<>> => size = 0
    BY <1>5 DEF IInv, TailConsistent, Joined
  <1>8. size \in Int
    BY TailConstants DEF IInv, TypeOK
  <1> QED
    BY <1>2, <1>3, <1>4, <1>5, <1>6, <1>7, <1>8 DEF IInv, TailConsistent

LEMMA InitIInv == Init => IInv
  <1> SUFFICES ASSUME Init PROVE IInv
    OBVIOUS
  <1>1. Cap \in Nat \ {0} /\ MaxChunk \in Nat /\ MaxTotal \in Nat
    BY TailConstants
  <1>2. chunks = <<>> /\ size = 0 /\ total = 0 /\ locked = FALSE
    BY DEF Init
  <1>3. chunks \in Seq(Chunk) /\ DOMAIN chunks = {}
    BY <1>2
  <1>4. read \in Chunk
    BY <1>1 DEF Init, Chunk
  <1>5. TypeOK
    <2>1. size \in 0 .. Cap + MaxChunk /\ total \in 0..MaxTotal
      BY <1>1, <1>2
    <2>2. locked \in BOOLEAN
      BY <1>2
    <2> QED
      BY <1>3, <1>4, <2>1, <2>2 DEF TypeOK
  <1>6. Joined = [from |-> 0, to |-> 0] /\ Latest = 0
    BY <1>1, <1>2 DEF Joined, Latest
  <1>7. TailConsistent
    BY <1>2, <1>3, <1>6 DEF TailConsistent
  <1>8. KeepsLatest /\ size >= Latest
    BY <1>2, <1>6 DEF KeepsLatest
  <1> QED
    BY <1>5, <1>7, <1>8 DEF IInv

\* A new chunk continues the interval.
LEMMA AppendIInv == IInv /\ AppendChunk => IInv'
  <1> SUFFICES ASSUME IInv, AppendChunk PROVE IInv'
    OBVIOUS
  <1>1. PICK n \in 1..MaxChunk :
          /\ total + n <= MaxTotal
          /\ chunks' = Append(chunks, [from |-> total, to |-> total + n])
          /\ size' = size + n
          /\ total' = total + n
    BY DEF AppendChunk
  <1> DEFINE c == [from |-> total, to |-> total + n]
  <1>2. /\ ~locked /\ locked' = TRUE /\ read' = read
        /\ n \in Nat \ {0} /\ MaxChunk \in Nat /\ Cap \in Nat \ {0} /\ MaxTotal \in Nat
        /\ total \in 0..MaxTotal /\ size = Latest /\ read \in Chunk
    BY TailConstants DEF AppendChunk, IInv, TypeOK, KeepsLatest
  <1>3. c \in Chunk
    BY <1>1, <1>2 DEF Chunk
  <1>4. chunks \in Seq(Chunk) /\ chunks' \in Seq(Chunk)
    BY <1>1, <1>3 DEF IInv, TypeOK
  <1>5. /\ Len(chunks') = Len(chunks) + 1
        /\ \A i \in 1..Len(chunks) : chunks'[i] = chunks[i]
        /\ chunks'[Len(chunks) + 1] = c
        /\ Len(chunks) \in Nat
    BY <1>1, <1>3, <1>4
  <1>6. TypeOK'
    <2>1. size' \in 0 .. Cap + MaxChunk
      BY <1>1, <1>2 DEF Latest
    <2>2. total' \in 0..MaxTotal
      BY <1>1, <1>2
    <2> QED
      BY <1>2, <1>4, <2>1, <2>2 DEF TypeOK, Chunk
  <1>7. TailConsistent'
    <2>1. \A i \in DOMAIN chunks' : chunks'[i].from < chunks'[i].to
      <3>1. \A i \in 1..Len(chunks) : chunks[i].from < chunks[i].to
        BY <1>4 DEF IInv, TailConsistent
      <3>2. c.from < c.to
        BY <1>2
      <3> QED
        BY <1>4, <1>5, <3>1, <3>2
    <2>2. \A i \in 1 .. Len(chunks') - 1 : chunks'[i].to = chunks'[i + 1].from
      <3> SUFFICES ASSUME NEW i \in 1 .. Len(chunks)
                   PROVE  chunks'[i].to = chunks'[i + 1].from
        BY <1>5
      <3>1. CASE i < Len(chunks)
        <4>1. i + 1 \in 1..Len(chunks) /\ i \in 1 .. Len(chunks) - 1
          BY <1>5, <3>1
        <4> QED
          BY <1>5, <4>1 DEF IInv, TailConsistent
      <3>2. CASE i = Len(chunks)
        <4>1. chunks # <<>>
          BY <1>4, <3>2
        <4>2. chunks[i].to = total
          BY <3>2, <4>1 DEF IInv, TailConsistent
        <4> QED
          BY <1>5, <3>2, <4>2
      <3> QED
        BY <1>5, <3>1, <3>2
    <2>3. chunks' # <<>> /\ chunks'[Len(chunks')].to = total'
      BY <1>1, <1>4, <1>5
    <2>4. size' = Joined'.to - Joined'.from
      <3>1. Joined' = [from |-> chunks'[1].from, to |-> total']
        BY <2>3 DEF Joined
      <3>2. CASE chunks = <<>>
        BY <1>1, <1>2, <1>5, <3>1, <3>2, ChunksCover
      <3>3. CASE chunks # <<>>
        <4>1. chunks'[1] = chunks[1]
          BY <1>5, <3>3, ChunksCover
        <4>2. chunks[1].from \in Int
          BY <3>3, ChunksCover DEF Chunk
        <4> QED
          BY <1>1, <1>2, <3>1, <3>3, <4>1, <4>2, ChunksCover
      <3> QED
        BY <3>2, <3>3
    <2> QED
      BY <2>1, <2>2, <2>3, <2>4 DEF TailConsistent
  <1>8. KeepsLatest'
    BY <1>2 DEF KeepsLatest
  <1>9. size' >= Latest'
    BY <1>1, <1>2 DEF Latest
  <1> QED
    BY <1>6, <1>7, <1>8, <1>9 DEF IInv

\* Dropping the oldest chunk moves the start of the interval to the next one,
\* and there is a next one, for more than Cap bytes are held.
LEMMA DropIInv == IInv /\ DropOldest => IInv'
  <1> SUFFICES ASSUME IInv, DropOldest PROVE IInv'
    OBVIOUS
  <1>1. /\ locked /\ locked' = locked /\ total' = total /\ read' = read
        /\ chunks' = Tail(chunks) /\ size > Cap
        /\ Cap \in Nat \ {0} /\ MaxChunk \in Nat /\ size \in 0 .. Cap + MaxChunk
        /\ total \in 0..MaxTotal /\ MaxTotal \in Nat
    BY TailConstants DEF DropOldest, Excess, IInv, TypeOK
  <1>2. chunks # <<>>
    BY <1>1, ChunksCover
  <1>3. chunks \in Seq(Chunk) /\ Head(chunks) = chunks[1]
    BY <1>2 DEF IInv, TypeOK
  <1> DEFINE c == chunks[1]
  <1>4. /\ c \in Chunk /\ c.from < c.to /\ size = total - c.from
        /\ c.to - c.from <= size - Cap /\ size' = size - (c.to - c.from)
        /\ c.from \in Nat /\ c.to \in Nat
    BY <1>2, <1>3, ChunksCover DEF DropOldest, Excess, Length, Chunk
  <1>5. Len(chunks) > 1
    <2>1. Len(chunks) \in Nat \ {0}
      BY <1>2, ChunksCover
    <2>2. Len(chunks) = 1 => c.to = total
      BY <1>2 DEF IInv, TailConsistent
    <2>3. c.to # total
      BY <1>1, <1>4
    <2> QED
      BY <2>1, <2>2, <2>3
  <1>6. /\ chunks' \in Seq(Chunk)
        /\ Len(chunks') = Len(chunks) - 1
        /\ \A i \in 1 .. Len(chunks) - 1 : chunks'[i] = chunks[i + 1]
        /\ Len(chunks) \in Nat
    BY <1>1, <1>2, <1>3
  <1>7. TypeOK'
    <2>1. size' \in 0 .. Cap + MaxChunk
      <3>1. size \in Nat /\ size <= Cap + MaxChunk
        BY <1>1
      <3>2. PICK k \in Nat : k = c.to - c.from
        BY <1>4
      <3>3. size' = size - k /\ k <= size - Cap
        BY <1>4, <3>2
      <3>4. Cap \in Nat /\ MaxChunk \in Nat
        BY <1>1
      <3> QED
        BY <3>1, <3>2, <3>3, <3>4
    <2> QED
      BY <1>1, <1>6, <2>1 DEF TypeOK, IInv, Chunk
  <1>8. TailConsistent'
    <2>1. \A i \in DOMAIN chunks' : chunks'[i].from < chunks'[i].to
      <3> SUFFICES ASSUME NEW i \in 1 .. Len(chunks) - 1
                   PROVE  chunks'[i].from < chunks'[i].to
        BY <1>6
      <3>1. i + 1 \in DOMAIN chunks
        BY <1>3, <1>6
      <3> QED
        BY <1>6, <3>1 DEF IInv, TailConsistent
    <2>2. \A i \in 1 .. Len(chunks') - 1 : chunks'[i].to = chunks'[i + 1].from
      <3> SUFFICES ASSUME NEW i \in 1 .. Len(chunks) - 2
                   PROVE  chunks'[i].to = chunks'[i + 1].from
        BY <1>6
      <3>1. i \in 1 .. Len(chunks) - 1 /\ i + 1 \in 1 .. Len(chunks) - 1
        BY <1>6
      <3>2. chunks[i + 1].to = chunks[(i + 1) + 1].from
        BY <3>1 DEF IInv, TailConsistent
      <3> QED
        BY <1>6, <3>1, <3>2
    <2>3. /\ chunks' # <<>>
          /\ chunks'[Len(chunks')] = chunks[Len(chunks)] /\ chunks'[1] = chunks[2]
      BY <1>5, <1>6
    <2>4. chunks'[Len(chunks')].to = total'
      BY <1>1, <1>2, <2>3 DEF IInv, TailConsistent
    <2>5. chunks'[1].from = c.to
      <3>1. 1 \in 1 .. Len(chunks) - 1
        BY <1>5, <1>6
      <3> QED
        BY <2>3, <3>1 DEF IInv, TailConsistent
    <2>6. size' = Joined'.to - Joined'.from
      <3>1. Joined' = [from |-> c.to, to |-> total]
        BY <1>1, <2>3, <2>4, <2>5 DEF Joined
      <3>2. total \in Int /\ size' = (total - c.from) - (c.to - c.from)
        BY <1>1, <1>4
      <3>3. size' = total - c.to
        BY <1>4, <3>2
      <3> QED
        BY <3>1, <3>3
    <2> QED
      BY <2>1, <2>2, <2>3, <2>4, <2>6 DEF TailConsistent
  <1>9. KeepsLatest'
    BY <1>1 DEF KeepsLatest
  <1>10. size' >= Latest'
    <2>1. PICK k \in Nat : k = c.to - c.from
      BY <1>4
    <2>2. size \in Int /\ size' = size - k /\ k <= size - Cap
      BY <1>1, <1>4, <2>1
    <2>3. size' \in Int /\ size' >= Cap
      BY <1>1, <2>2
    <2>4. Latest' <= Cap /\ Latest' \in Int
      BY <1>1 DEF Latest
    <2> QED
      BY <1>1, <2>3, <2>4
  <1> QED
    BY <1>7, <1>8, <1>9, <1>10 DEF IInv

\* Cutting the oldest chunk moves the start of the interval within it.
LEMMA CutIInv == IInv /\ CutOldest => IInv'
  <1> SUFFICES ASSUME IInv, CutOldest PROVE IInv'
    OBVIOUS
  <1>1. /\ locked' = FALSE /\ total' = total /\ read' = read
        /\ size > Cap /\ size' = size - (size - Cap)
        /\ Cap \in Nat \ {0} /\ MaxChunk \in Nat /\ size \in 0 .. Cap + MaxChunk
        /\ total \in 0..MaxTotal /\ MaxTotal \in Nat
    BY TailConstants DEF CutOldest, Excess, IInv, TypeOK
  <1>2. chunks # <<>>
    BY <1>1, ChunksCover
  <1> DEFINE c == chunks[1]
             e == size - Cap
             d == [c EXCEPT !.from = c.from + e]
  <1>3. chunks \in Seq(Chunk) /\ Head(chunks) = c /\ Len(chunks) \in Nat \ {0}
    BY <1>2, ChunksCover DEF IInv, TypeOK
  <1>4. /\ c \in Chunk /\ size = total - c.from /\ c.to - c.from > e
        /\ c.from \in 0..MaxTotal /\ c.to \in 0..MaxTotal /\ e \in Nat
    <2>1. c \in Chunk /\ size = total - c.from
      BY <1>2, ChunksCover
    <2>2. c.to - c.from > e
      BY <1>3 DEF CutOldest, Excess, Length
    <2>3. e \in Nat
      BY <1>1
    <2> QED
      BY <2>1, <2>2, <2>3 DEF Chunk
  <1>5. d \in Chunk /\ d.from = c.from + e /\ d.to = c.to /\ d.from < d.to
    BY <1>1, <1>4 DEF Chunk
  <1>6. /\ chunks' \in Seq(Chunk)
        /\ Len(chunks') = Len(chunks)
        /\ chunks'[1] = d
        /\ \A i \in 1 .. Len(chunks) : i # 1 => chunks'[i] = chunks[i]
    <2>1. chunks' = [chunks EXCEPT ![1] = d]
      BY DEF CutOldest, Excess
    <2> QED
      BY <1>3, <1>5, <2>1
  <1>7. TypeOK'
    <2>1. size' \in 0 .. Cap + MaxChunk
      BY <1>1
    <2> QED
      BY <1>1, <1>6, <2>1 DEF TypeOK, IInv, Chunk
  <1>8. TailConsistent'
    <2>1. \A i \in DOMAIN chunks' : chunks'[i].from < chunks'[i].to
      <3>1. \A i \in 1 .. Len(chunks) : chunks[i].from < chunks[i].to
        BY <1>3 DEF IInv, TailConsistent
      <3>2. DOMAIN chunks' = 1 .. Len(chunks)
        BY <1>6
      <3> QED
        BY <1>5, <1>6, <3>1, <3>2
    <2>2. \A i \in 1 .. Len(chunks') : chunks'[i].to = chunks[i].to
      BY <1>3, <1>5, <1>6
    <2>3. \A i \in 1 .. Len(chunks') - 1 : chunks'[i].to = chunks'[i + 1].from
      <3> SUFFICES ASSUME NEW i \in 1 .. Len(chunks) - 1
                   PROVE  chunks'[i].to = chunks'[i + 1].from
        BY <1>6
      <3>1. i \in 1..Len(chunks) /\ i + 1 \in 1..Len(chunks) /\ i + 1 # 1
        BY <1>3
      <3>2. chunks[i].to = chunks[i + 1].from
        BY DEF IInv, TailConsistent
      <3> QED
        BY <1>6, <2>2, <3>1, <3>2
    <2>4. chunks' # <<>> /\ chunks'[Len(chunks')].to = total'
      <3>1. Len(chunks) \in 1 .. Len(chunks')
        BY <1>3, <1>6
      <3>2. chunks[Len(chunks)].to = total
        BY <1>2 DEF IInv, TailConsistent
      <3> QED
        BY <1>1, <1>3, <1>6, <2>2, <3>1, <3>2
    <2>5. size' = Joined'.to - Joined'.from
      <3>1. Joined' = [from |-> c.from + e, to |-> total]
        BY <1>1, <1>5, <1>6, <2>4 DEF Joined
      <3> QED
        BY <1>1, <1>4, <3>1
    <2> QED
      BY <2>1, <2>3, <2>4, <2>5 DEF TailConsistent
  <1>9. total > Cap
    BY <1>1, <1>4
  <1>10. KeepsLatest'
    <2>1. size' = Cap /\ Latest' = Cap
      BY <1>1, <1>9 DEF Latest
    <2>2. Joined' = [from |-> total' - size', to |-> total']
      <3>1. Joined' = [from |-> c.from + e, to |-> total]
        <4>1. chunks' # <<>> /\ chunks'[Len(chunks')].to = total'
          BY <1>3, <1>6, <1>8 DEF TailConsistent
        <4> QED
          BY <1>1, <1>5, <1>6, <4>1 DEF Joined
      <3> QED
        BY <1>1, <1>4, <2>1, <3>1
    <2> QED
      BY <2>1, <2>2 DEF KeepsLatest
  <1>11. size' >= Latest'
    BY <1>1, <1>9 DEF Latest
  <1> QED
    BY <1>7, <1>8, <1>10, <1>11 DEF IInv

LEMMA NextIInv == IInv /\ [Next]_vars => IInv'
  <1> SUFFICES ASSUME IInv, [Next]_vars PROVE IInv'
    OBVIOUS
  <1>1. CASE LoopEnds
    <2>1. /\ chunks' = chunks /\ size' = size /\ total' = total /\ read' = read
          /\ locked' = FALSE /\ size <= Cap
      BY <1>1, TailConstants DEF LoopEnds, Excess, IInv, TypeOK
    <2>2. TypeOK' /\ TailConsistent' /\ (size >= Latest)'
      BY <2>1 DEF IInv, TypeOK, TailConsistent, Joined, Latest
    <2>3. size = Latest
      <3>1. Cap \in Nat /\ size \in Nat /\ total \in Nat /\ size >= Latest
        BY TailConstants DEF IInv, TypeOK
      <3>2. size <= total
        <4>1. CASE chunks = <<>>
          BY <3>1, <4>1, ChunksCover
        <4>2. CASE chunks # <<>>
          BY <3>1, <4>2, ChunksCover DEF Chunk
        <4> QED
          BY <4>1, <4>2
      <3> QED
        BY <2>1, <3>1, <3>2 DEF Latest
    <2>4. Joined = [from |-> total - size, to |-> total]
      <3>1. CASE chunks = <<>>
        BY <3>1, ChunksCover DEF Joined
      <3>2. CASE chunks # <<>>
        <4>1. chunks[1].from = total - size
          BY <3>2, ChunksCover DEF Chunk
        <4>2. chunks[Len(chunks)].to = total
          BY <3>2 DEF IInv, TailConsistent
        <4> QED
          BY <3>2, <4>1, <4>2 DEF Joined
      <3> QED
        BY <3>1, <3>2
    <2>5. KeepsLatest'
      BY <2>1, <2>3, <2>4 DEF KeepsLatest, Joined, Latest
    <2> QED
      BY <2>2, <2>5 DEF IInv
  <1>2. CASE Snapshot
    <2>1. /\ chunks' = chunks /\ size' = size /\ total' = total /\ locked' = locked
          /\ read' = Joined
      BY <1>2 DEF Snapshot
    <2>2. Joined \in Chunk
      <3>1. CASE chunks = <<>>
        BY <3>1, TailConstants DEF Joined, Chunk, IInv, TypeOK
      <3>2. CASE chunks # <<>>
        BY <3>2, ChunksCover DEF Joined, Chunk
      <3> QED
        BY <3>1, <3>2
    <2> QED
      BY <2>1, <2>2 DEF IInv, TypeOK, TailConsistent, KeepsLatest, Joined, Latest
  <1>3. CASE UNCHANGED vars
    BY <1>3 DEF vars, IInv, TypeOK, TailConsistent, KeepsLatest, Joined, Latest
  <1> QED
    BY <1>1, <1>2, <1>3, AppendIInv, DropIInv, CutIInv DEF Next

-----------------------------------------------------------------------------
LEMMA Invariance == Spec => []IInv
  <1>1. Init => IInv
    BY InitIInv
  <1>2. IInv /\ [Next]_vars => IInv'
    BY NextIInv
  <1> QED
    BY <1>1, <1>2, PTL DEF Spec

\* Whatever the sizes of the chunks, when no append is at work the tail holds
\* exactly the last Cap bytes of stderr, or all of it while it is shorter.
THEOREM TailIsExact == Spec => []KeepsLatest
  <1>1. IInv => KeepsLatest
    BY DEF IInv
  <1> QED
    BY <1>1, Invariance, PTL

\* A snapshot, which excludes an append, joins exactly these bytes.
THEOREM SnapshotsAreExact == Spec => SnapshotExact
  <1> DEFINE Exact == read' # read =>
                        read'.to = total /\ read'.to - read'.from = Latest
  <1>1. IInv /\ [Next]_vars => [Exact]_vars
    <2> SUFFICES ASSUME IInv, Next, read' # read PROVE Exact
      BY DEF vars
    <2>1. Snapshot
      BY DEF Next, AppendChunk, DropOldest, CutOldest, LoopEnds
    <2>2. read' = [from |-> total - Latest, to |-> total] /\ size = Latest
      BY <2>1 DEF Snapshot, IInv, KeepsLatest
    <2>3. size \in Int /\ total \in Int
      BY ChunksCover
    <2> QED
      BY <2>2, <2>3
  <1> QED
    BY <1>1, Invariance, PTL DEF Spec, SnapshotExact
=============================================================================
