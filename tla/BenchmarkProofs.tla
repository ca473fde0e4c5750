--------------------------- MODULE BenchmarkProofs ---------------------------
(***************************************************************************)
(* Proofs about Benchmark, for every value of the constants: a model that   *)
(* loads is the one its metadata describes, what its metadata says of its    *)
(* dataset and split is true, the worker of the benchmark replays the packets *)
(* that the generator produced, and what it reports is what it measured.     *)
(***************************************************************************)
EXTENDS Benchmark, TimedQueueProofs \* for its induction on the natural numbers

-----------------------------------------------------------------------------
(* The model.  From the opening of the artifact to the end of the metadata,  *)
(* the job in hand is the split of the dataset its manifest names; once the  *)
(* artifact is written, it is the model of that split, whatever has become   *)
(* of the dataset and manifest files.                                       *)

Training == {"writing_artifact", "opening_metadata", "writing_metadata"}

JobIsSplit ==
  tool \in Training => job.split = Split(job.manifest.dataset)

ArtifactIsFitted ==
  tool \in {"opening_metadata", "writing_metadata"} => artifact = Fit(job.split.train)

MetadataNamesModel ==
  metadata # Unreadable =>
    metadata.artifact = Fit(Split(metadata.dataset.dataset).train)

BuildInv == JobIsSplit /\ ArtifactIsFitted /\ MetadataNamesModel

LEMMA MetadataFields ==
  ASSUME NEW m, NEW s, NEW a
  PROVE  Metadata(m, s, a).dataset = m /\ Metadata(m, s, a).artifact = a
BY DEF Metadata

LEMMA BuildInitial == BuildInit => BuildInv
<1> SUFFICES ASSUME BuildInit PROVE BuildInv
  OBVIOUS
<1> DEFINE s == Select(Packaged)
<1>1. /\ artifact = Fit(Split(s.rows).train) /\ tool = "idle"
      /\ metadata = Metadata(Manifest(s, s.rows), Split(s.rows), artifact)
  BY DEF BuildInit
<1>2. metadata.artifact = artifact /\ metadata.dataset.dataset = s.rows
  <2>1. Manifest(s, s.rows).dataset = s.rows
    BY DEF Manifest
  <2> HIDE DEF s
  <2>2. QED  BY <1>1, <2>1, MetadataFields
<1> HIDE DEF s
<1>3. QED  BY <1>1, <1>2 DEF BuildInv, JobIsSplit, ArtifactIsFitted, MetadataNamesModel, Training

\* The steps that leave artifact, metadata and a job of training alone.
LEMMA BuildUntouched ==
  ASSUME BuildInv, UNCHANGED <<artifact, metadata>>,
         tool' \notin Training \/ UNCHANGED <<tool, job>>
  PROVE  BuildInv'
BY DEF BuildInv, JobIsSplit, ArtifactIsFitted, MetadataNamesModel, Training

LEMMA BuildStep == BuildInv /\ BuildNext => BuildInv'
<1> SUFFICES ASSUME BuildInv, BuildNext PROVE BuildInv'
  OBVIOUS
<1>1. CASE PrepareFails \/ TrainFails
  BY <1>1, BuildUntouched DEF PrepareFails, TrainFails
<1>2. CASE OpenDataset
  BY <1>2, BuildUntouched DEF OpenDataset, Training
<1>3. CASE WriteDataset \/ OpenManifest \/ WriteManifest
  BY <1>3, BuildUntouched DEF WriteDataset, OpenManifest, WriteManifest, Training
<1>4. CASE Killed
  BY <1>4, BuildUntouched DEF Killed, Training
<1>5. CASE OpenArtifact
  <2>1. manifest.dataset = dataset
    BY <1>5 DEF OpenArtifact, CanTrain, ManifestMatches
  <2>2. job'.split = Split(job'.manifest.dataset) /\ tool' = "writing_artifact"
    BY <1>5, <2>1 DEF OpenArtifact
  <2>3. UNCHANGED metadata
    BY <1>5 DEF OpenArtifact
  <2>4. QED  BY <2>2, <2>3 DEF BuildInv, JobIsSplit, ArtifactIsFitted, MetadataNamesModel, Training
<1>6. CASE WriteArtifact
  BY <1>6 DEF WriteArtifact, BuildInv, JobIsSplit, ArtifactIsFitted, MetadataNamesModel, Training
<1>7. CASE OpenMetadata
  BY <1>7 DEF OpenMetadata, BuildInv, JobIsSplit, ArtifactIsFitted, MetadataNamesModel, Training
<1>8. CASE WriteMetadata
  <2>1. metadata'.dataset = job.manifest /\ metadata'.artifact = artifact
    BY <1>8, MetadataFields DEF WriteMetadata
  <2>2. artifact = Fit(Split(job.manifest.dataset).train)
    BY <1>8 DEF WriteMetadata, BuildInv, JobIsSplit, ArtifactIsFitted, Training
  <2>3. tool' = "idle"
    BY <1>8 DEF WriteMetadata
  <2>4. QED  BY <2>1, <2>2, <2>3 DEF BuildInv, JobIsSplit, ArtifactIsFitted, MetadataNamesModel, Training
<1>9. QED  BY <1>1, <1>2, <1>3, <1>4, <1>5, <1>6, <1>7, <1>8 DEF BuildNext

\* Whatever the tools were asked to do, wherever they were killed, and whatever
\* runs of the benchmark went on beside them: an artifact that DgaModel.load
\* accepts is the model fitted on the training part of the dataset that its
\* metadata names.
THEOREM ModelIsAccountedFor == Spec => []LoadedModelIsAccountedFor
<1>1. Init => BuildInv
  BY BuildInitial DEF Init
<1>2. BuildInv /\ [Next]_vars => BuildInv'
  <2> SUFFICES ASSUME BuildInv, [Next]_vars PROVE BuildInv'
    OBVIOUS
  <2>1. CASE BuildNext
    BY <2>1, BuildStep
  <2>2. CASE UNCHANGED buildVars
    BY <2>2, BuildUntouched DEF buildVars
  <2>3. QED  BY <2>1, <2>2 DEF Next, vars
<1>3. BuildInv => LoadedModelIsAccountedFor
  BY DEF BuildInv, MetadataNamesModel, LoadedModelIsAccountedFor, Loads
<1>4. QED  BY <1>1, <1>2, <1>3, PTL DEF Spec

-----------------------------------------------------------------------------
(* The selection.  Every turn of a reading loop keeps the counts, the list of *)
(* families and the names in step with the rows, so that what a selection    *)
(* says of its rows is true whenever it ends, whatever the lines.            *)

\* A row has a name of N and a family of F.
Row(N, F) == [name : N, label : 0..1, family : F]

Selections(N, F) ==
  [rows : Seq(Row(N, F)), taken : Nat, counts : [0..1 -> Nat],
   families : Seq([family : F, rows : Nat]), duplicates : Nat, invalid : Nat,
   failed : BOOLEAN]

\* Each name is in one row.
NamesDiffer(rows) ==
  \A i, j \in DOMAIN rows : rows[i].name = rows[j].name => i = j

\* The rows of one family.
RowsOf(rows, family) == Cardinality({i \in DOMAIN rows : rows[i].family = family})

\* What a selection says of its rows is true.
CountsAreTrue(s) == \A label \in 0..1 : s.counts[label] = CountOf(s.rows, label)

ListIsTrue(s) ==
  \A i \in DOMAIN s.families : s.families[i].rows = RowsOf(s.rows, s.families[i].family)

\* One row more counts for its own label and its own family.
LEMMA CountsOfAppend ==
  ASSUME NEW N, NEW F, NEW rows \in Seq(Row(N, F)), NEW r \in Row(N, F)
  PROVE  /\ \A label \in 0..1 :
              CountOf(Append(rows, r), label)
                = CountOf(rows, label) + (IF r.label = label THEN 1 ELSE 0)
         /\ \A family : RowsOf(Append(rows, r), family)
                = RowsOf(rows, family) + (IF r.family = family THEN 1 ELSE 0)
<1> DEFINE R == Row(N, F)
           l == [x \in R |-> x.label]
           g == [x \in R |-> x.family]
           more == Append(rows, r)
<1>1. r \in R /\ rows \in Seq(R) /\ more \in Seq(R)
  BY AppendProperties
<1>2. ASSUME NEW q \in Seq(R), NEW v
      PROVE  /\ CountOf(q, v) = Cardinality(PositionsOf(q, l, v))
             /\ RowsOf(q, v) = Cardinality(PositionsOf(q, g, v))
  <2>1. DOMAIN q = 1 .. Len(q) /\ \A i \in 1 .. Len(q) : q[i] \in R
    BY LenProperties
  <2>2. \A i \in 1 .. Len(q) : l[q[i]] = q[i].label /\ g[q[i]] = q[i].family
    BY <2>1
  <2>3. /\ {i \in DOMAIN q : q[i].label = v} = PositionsOf(q, l, v)
        /\ {i \in DOMAIN q : q[i].family = v} = PositionsOf(q, g, v)
    BY <2>1, <2>2 DEF PositionsOf
  <2> QED
    BY <2>3 DEF CountOf, RowsOf
<1>3. l[r] = r.label /\ g[r] = r.family
  BY <1>1
<1> HIDE DEF l, g, more, R
<1>4. ASSUME NEW v
      PROVE  /\ CountOf(more, v) = CountOf(rows, v) + (IF r.label = v THEN 1 ELSE 0)
             /\ RowsOf(more, v) = RowsOf(rows, v) + (IF r.family = v THEN 1 ELSE 0)
  <2>1. /\ Cardinality(PositionsOf(more, l, v))
             = Cardinality(PositionsOf(rows, l, v)) + (IF l[r] = v THEN 1 ELSE 0)
        /\ Cardinality(PositionsOf(more, g, v))
             = Cardinality(PositionsOf(rows, g, v)) + (IF g[r] = v THEN 1 ELSE 0)
    BY <1>1, PositionsOfAppend DEF more
  <2> QED
    BY <1>1, <1>2, <1>3, <2>1
<1> QED
  BY <1>4 DEF more

\* An empty list of rows has no row of any label or family.
LEMMA NothingCounted ==
  /\ \A label : CountOf(<<>>, label) = 0
  /\ \A family : RowsOf(<<>>, family) = 0
  /\ NamesDiffer(<<>>)
<1>1. DOMAIN <<>> = {}
  OBVIOUS
<1> QED
  BY <1>1, FS_EmptySet DEF CountOf, RowsOf, NamesDiffer

\* A selection that is reading the lines of a family of label.
Taking(N, F, fs, G, family) ==
  {s \in Selections(N, F) :
     /\ s.families = fs /\ NamesDiffer(s.rows) /\ CountsAreTrue(s) /\ ListIsTrue(s)
     /\ s.taken = RowsOf(s.rows, family)
     /\ \A i \in DOMAIN s.rows : s.rows[i].family \in G \cup {family}}

\* A name that no label goes with has not been seen.
LEMMA LabelsOfName ==
  ASSUME NEW N, NEW F, NEW rows \in Seq(Row(N, F)), NamesDiffer(rows), NEW name,
         NEW label \in 0..1,
         LabelsOf(rows, name) # {label}, LabelsOf(rows, name) # {1 - label}
  PROVE  \A i \in DOMAIN rows : rows[i].name # name
<1> SUFFICES ASSUME NEW i \in DOMAIN rows, rows[i].name = name PROVE FALSE
  OBVIOUS
<1>1. rows[i].label \in 0..1
  <2>1. rows[i] \in Row(N, F)
    BY LenProperties
  <2> QED
    BY <2>1 DEF Row
<1>2. LabelsOf(rows, name) = {rows[i].label}
  BY DEF LabelsOf, NamesDiffer
<1>3. label = rows[i].label \/ 1 - label = rows[i].label
  BY <1>1
<1> QED
  BY <1>2, <1>3

\* One turn of a reading loop.
LEMMA TakeKeeps ==
  ASSUME NEW N, NEW F, NEW fs, NEW G, NEW family \in F,
         \A i \in DOMAIN fs : fs[i].family # family,
         NEW s \in Taking(N, F, fs, G, family),
         NEW line \in N, NEW label \in 0..1, NEW limit
  PROVE  Take(s, line, label, family, limit) \in Taking(N, F, fs, G, family)
<1> DEFINE T == Taking(N, F, fs, G, family)
           t == Take(s, line, label, family, limit)
           r == [name |-> line, label |-> label, family |-> family]
<1>1. /\ s \in Selections(N, F) /\ s.families = fs /\ NamesDiffer(s.rows)
      /\ CountsAreTrue(s) /\ ListIsTrue(s) /\ s.taken = RowsOf(s.rows, family)
      /\ \A i \in DOMAIN s.rows : s.rows[i].family \in G \cup {family}
  BY DEF Taking
\* The rows stay as they are.
<1>2. ASSUME NEW u \in Selections(N, F), u.rows = s.rows, u.taken = s.taken,
             u.counts = s.counts, u.families = s.families
      PROVE  u \in T
  BY <1>1, <1>2 DEF Taking, CountsAreTrue, ListIsTrue
<1>3. [s EXCEPT !.failed = TRUE] \in T
  <2>1. [s EXCEPT !.failed = TRUE] \in Selections(N, F)
    BY <1>1 DEF Selections
  <2> QED
    BY <1>2, <2>1, <1>1 DEF Selections
<1>4. [s EXCEPT !.invalid = @ + 1] \in T
  <2>1. s.invalid \in Nat /\ s.invalid + 1 \in Nat
    BY <1>1 DEF Selections
  <2>2. [s EXCEPT !.invalid = @ + 1] \in Selections(N, F)
    BY <1>1, <2>1 DEF Selections
  <2> QED
    BY <1>2, <2>2, <1>1 DEF Selections
<1>5. [s EXCEPT !.duplicates = @ + 1] \in T
  <2>1. [s EXCEPT !.duplicates = @ + 1] \in Selections(N, F)
    BY <1>1 DEF Selections
  <2> QED
    BY <1>2, <2>1, <1>1 DEF Selections
<1> DEFINE a == [s EXCEPT !.rows = Append(@, r), !.taken = @ + 1, !.counts[label] = @ + 1]
<1>6. ASSUME LabelsOf(s.rows, line) # {label}, LabelsOf(s.rows, line) # {1 - label}
      PROVE  a \in T
  <2>1. s.rows \in Seq(Row(N, F)) /\ r \in Row(N, F)
    BY <1>1 DEF Selections, Row
  <2>2. \A i \in DOMAIN s.rows : s.rows[i].name # line
    BY <1>1, <1>6, <2>1, LabelsOfName
  <2> DEFINE more == Append(s.rows, r)
  <2>3. /\ more \in Seq(Row(N, F)) /\ Len(more) = Len(s.rows) + 1
        /\ \A i \in 1 .. Len(s.rows) : more[i] = s.rows[i]
        /\ more[Len(s.rows) + 1] = r
    BY <2>1, AppendProperties
  <2>4. /\ DOMAIN s.rows = 1 .. Len(s.rows) /\ Len(s.rows) \in Nat
        /\ DOMAIN more = 1 .. Len(s.rows) + 1
    BY <2>1, <2>3, LenProperties
  <2>5. \A i \in DOMAIN more : i \in DOMAIN s.rows \/ i = Len(s.rows) + 1
    BY <2>4
  <2>6. r.name = line /\ r.label = label /\ r.family = family
    OBVIOUS
  <2>7. /\ \A v \in 0..1 : CountOf(more, v)
                = CountOf(s.rows, v) + (IF label = v THEN 1 ELSE 0)
        /\ \A v : RowsOf(more, v) = RowsOf(s.rows, v) + (IF family = v THEN 1 ELSE 0)
    BY <2>1, <2>6, CountsOfAppend
  <2>8. /\ a.rows = more /\ a.taken = s.taken + 1 /\ a.families = s.families
        /\ a.counts = [s.counts EXCEPT ![label] = @ + 1]
        /\ a \in Selections(N, F)
    <3>1. s.counts \in [0..1 -> Nat] /\ s.taken \in Nat
      BY <1>1 DEF Selections
    <3>2. [s.counts EXCEPT ![label] = @ + 1] \in [0..1 -> Nat]
      BY <3>1
    <3>3. /\ a.rows = more /\ a.taken = s.taken + 1 /\ a.families = s.families
          /\ a.counts = [s.counts EXCEPT ![label] = @ + 1]
      BY <1>1 DEF Selections
    <3>4. s.taken + 1 \in Nat
      BY <3>1
    <3>5. a = [s EXCEPT !.rows = more, !.taken = s.taken + 1,
                      !.counts = [s.counts EXCEPT ![label] = @ + 1]]
      BY Zenon
    <3>6. ASSUME NEW m \in Seq(Row(N, F)), NEW n \in Nat, NEW c \in [0..1 -> Nat]
          PROVE  [s EXCEPT !.rows = m, !.taken = n, !.counts = c] \in Selections(N, F)
      BY <1>1 DEF Selections
    <3> HIDE DEF r, a, more
    <3>7. a \in Selections(N, F)
      BY <2>3, <3>2, <3>4, <3>5, <3>6
    <3> QED
      BY <3>3, <3>7
  <2> HIDE DEF a, more, r
  <2>9. NamesDiffer(a.rows)
    BY <1>1, <2>2, <2>3, <2>4, <2>5, <2>6, <2>8 DEF NamesDiffer
  <2>10. CountsAreTrue(a)
    <3>1. s.counts \in [0..1 -> Nat]
      BY <1>1 DEF Selections
    <3> QED
      BY <1>1, <2>7, <2>8, <3>1 DEF CountsAreTrue
  <2>11. ListIsTrue(a)
    <3> SUFFICES ASSUME NEW i \in DOMAIN fs
                 PROVE  fs[i].rows = RowsOf(more, fs[i].family)
      BY <1>1, <2>8 DEF ListIsTrue
    <3> DEFINE S == [family : F, rows : Nat]
    <3>1. fs \in Seq(S)
      BY <1>1 DEF Selections
    <3>2. fs[i] \in S
      <4> HIDE DEF S
      <4> QED
        BY <3>1, LenProperties
    <3>3. fs[i].rows = RowsOf(s.rows, fs[i].family) /\ fs[i].rows \in Nat
      BY <1>1, <3>2 DEF ListIsTrue
    <3>4. fs[i].family # family
      OBVIOUS
    <3> QED
      BY <2>7, <3>3, <3>4
  <2>12. a.taken = RowsOf(a.rows, family)
    BY <1>1, <2>7, <2>8
  <2>13. \A i \in DOMAIN a.rows : a.rows[i].family \in G \cup {family}
    BY <1>1, <2>3, <2>4, <2>5, <2>6, <2>8
  <2> QED
    BY <1>1, <2>8, <2>9, <2>10, <2>11, <2>12, <2>13 DEF Taking
<1>7. s \in T
  OBVIOUS
<1> HIDE DEF a, T
<1>8. t = IF s.failed \/ s.taken = limit THEN s
          ELSE CASE line = "unreadable" -> [s EXCEPT !.failed = TRUE]
         [] line = "invalid" -> [s EXCEPT !.invalid = @ + 1]
         [] LabelsOf(s.rows, line) = {1 - label} -> [s EXCEPT !.failed = TRUE]
         [] LabelsOf(s.rows, line) = {label} -> [s EXCEPT !.duplicates = @ + 1]
         [] OTHER -> a
  BY DEF Take, a
<1> QED
  BY <1>3, <1>4, <1>5, <1>6, <1>7, <1>8 DEF T

\* A whole reading loop.
LEMMA TakeLinesKeeps ==
  ASSUME NEW N, NEW F, NEW fs, NEW G, NEW family \in F,
         \A i \in DOMAIN fs : fs[i].family # family,
         NEW s, [s EXCEPT !.taken = 0] \in Taking(N, F, fs, G, family),
         NEW lines \in Seq(N), NEW label \in 0..1, NEW limit
  PROVE  TakeLines(s, lines, label, family, limit) \in Taking(N, F, fs, G, family)
<1> DEFINE A == Taking(N, F, fs, G, family)
           n == Len(lines)
           base == [s EXCEPT !.taken = 0]
           turn == [x \in (1 .. n) \X A |-> Take(x[2], lines[x[1]], label, family, limit)]
           Loop(f) == [i \in 0 .. n |->
                         IF i = 0 THEN base
                         ELSE Take(f[i - 1], lines[i], label, family, limit)]
           after == CHOOSE f : f = Loop(f)
<1>1. n \in Nat /\ \A i \in 1 .. n : lines[i] \in N
  BY LenProperties
<1>2. base \in A
  OBVIOUS
<1>3. \A i \in 1 .. n, t \in A : Take(t, lines[i], label, family, limit) \in A
  BY <1>1, TakeKeeps
<1>4. PICK f : Iterates(f, n, A, base, turn)
  <2>1. turn \in [(1 .. n) \X A -> A]
    BY <1>3
  <2> HIDE DEF turn, n, base, A
  <2> QED
    BY <1>1, <1>2, <2>1, LoopExists
<1> HIDE DEF base, A
<1>5. f \in [0 .. n -> A] /\ f[0] = base
  BY <1>4 DEF Iterates
<1>6. ASSUME NEW i \in 1 .. n PROVE f[i] = Take(f[i - 1], lines[i], label, family, limit)
  <2>1. i - 1 \in 0 .. n
    BY <1>1
  <2>2. f[i - 1] \in A
    BY <1>5, <2>1
  <2>3. f[i] = turn[<<i, f[i - 1]>>]
    BY <1>4 DEF Iterates
  <2> QED
    BY <2>2, <2>3
<1> HIDE DEF turn, n
<1>7. f = Loop(f)
  <2>1. \A i \in 0 .. n : f[i] = Loop(f)[i]
    <3> TAKE i \in 0 .. n
    <3>1. CASE i = 0
      BY <1>5, <3>1
    <3>2. CASE i # 0
      BY <1>1, <1>6, <3>2
    <3> QED
      BY <3>1, <3>2
  <2> QED
    BY <1>5, <2>1
<1>8. after = Loop(after)
  BY <1>7
<1>9. TakeLines(s, lines, label, family, limit) = after[n]
  BY DEF TakeLines, n, base
<1> HIDE DEF after
<1> DEFINE T == {i \in 0 .. n : after[i] \in A}
<1>10. 0 \in T
  BY <1>1, <1>2, <1>8
<1>11. ASSUME NEW i \in 0 .. n - 1, i \in T PROVE i + 1 \in T
  <2>1. i + 1 \in 0 .. n /\ i + 1 # 0 /\ i + 1 \in 1 .. n /\ (i + 1) - 1 = i
    BY <1>1
  <2>2. after[i + 1] = Take(after[i], lines[i + 1], label, family, limit)
    BY <1>8, <2>1
  <2>3. after[i + 1] \in A
    BY <1>3, <1>11, <2>1, <2>2
  <2> QED
    BY <2>1, <2>3
<1>12. 0 .. n \subseteq T
  <2> HIDE DEF T
  <2> QED
    BY <1>1, <1>10, <1>11, InductionUpTo
<1> QED
  BY <1>1, <1>9, <1>12 DEF A

\* A selection between two sources, of which those of the families G are read.
Listing(N, F, G) ==
  {s \in Selections(N, F) :
     /\ NamesDiffer(s.rows) /\ CountsAreTrue(s) /\ ListIsTrue(s)
     /\ \A i \in DOMAIN s.rows : s.rows[i].family \in G
     /\ \A i \in DOMAIN s.families : s.families[i].family \in G}

\* No row is of a family that is still to be read.
LEMMA BeginsTaking ==
  ASSUME NEW N, NEW F, NEW G, NEW s \in Listing(N, F, G), NEW family \in F, family \notin G
  PROVE  /\ [s EXCEPT !.taken = 0] \in Taking(N, F, s.families, G, family)
         /\ \A i \in DOMAIN s.families : s.families[i].family # family
<1>1. s \in Selections(N, F)
  BY DEF Listing
<1> DEFINE b == [s EXCEPT !.taken = 0]
<1>2. b \in Selections(N, F)
  BY <1>1 DEF Selections
<1>3. /\ b.rows = s.rows /\ b.taken = 0 /\ b.counts = s.counts /\ b.families = s.families
  BY <1>1 DEF Selections
<1> HIDE DEF b
<1>4. RowsOf(s.rows, family) = 0
  <2>1. {i \in DOMAIN s.rows : s.rows[i].family = family} = {}
    BY DEF Listing
  <2> QED
    BY <2>1, FS_EmptySet DEF RowsOf
<1>5. b \in Taking(N, F, s.families, G, family)
  BY <1>2, <1>3, <1>4 DEF Taking, Listing, CountsAreTrue, ListIsTrue
<1>6. \A i \in DOMAIN s.families : s.families[i].family # family
  BY DEF Listing
<1> QED
  BY <1>5, <1>6 DEF b

\* A family is read and listed.
LEMMA TakeFamilyKeeps ==
  ASSUME NEW N, NEW F, NEW G, NEW s \in Listing(N, F, G), NEW src,
         src.family \in F, src.family \notin G, src.lines \in Seq(N)
  PROVE  TakeFamily(s, src) \in Listing(N, F, G \cup {src.family})
<1> DEFINE family == src.family
           t == TakeLines(s, src.lines, 1, src.family, FamilyLimit)
           E == [family : F, rows : Nat]
           e == [family |-> src.family, rows |-> t.taken]
           u == [t EXCEPT !.failed = @ \/ t.taken = 0, !.families = Append(@, e)]
<1>1. t \in Taking(N, F, s.families, G, family)
  <2> DEFINE fs == s.families
             lines == src.lines
             one == 1
  <2>1. /\ [s EXCEPT !.taken = 0] \in Taking(N, F, fs, G, family)
        /\ \A i \in DOMAIN fs : fs[i].family # family
    BY BeginsTaking
  <2>2. family \in F /\ lines \in Seq(N) /\ one \in 0..1
    OBVIOUS
  <2> HIDE DEF family, fs, lines, one
  <2>3. TakeLines(s, lines, one, family, FamilyLimit) \in Taking(N, F, fs, G, family)
    BY <2>1, <2>2, TakeLinesKeeps
  <2> QED
    BY <2>3 DEF family, fs, lines, one
<1>2. TakeFamily(s, src) = IF s.failed THEN s ELSE u
  BY DEF TakeFamily
<1>3. s \in Listing(N, F, G \cup {family})
  BY DEF Listing
<1> HIDE DEF t
<1>4. /\ t \in Selections(N, F) /\ t.families = s.families /\ NamesDiffer(t.rows)
      /\ CountsAreTrue(t) /\ ListIsTrue(t) /\ t.taken = RowsOf(t.rows, family)
      /\ \A i \in DOMAIN t.rows : t.rows[i].family \in G \cup {family}
  BY <1>1 DEF Taking
<1>5. t.families \in Seq(E) /\ e \in E /\ e.family = family /\ e.rows = t.taken
  BY <1>4 DEF Selections
<1> HIDE DEF e, E
<1> DEFINE more == Append(t.families, e)
<1>6. /\ more \in Seq(E) /\ Len(more) = Len(t.families) + 1
      /\ \A i \in 1 .. Len(t.families) : more[i] = t.families[i]
      /\ more[Len(t.families) + 1] = e
  BY <1>5, AppendProperties
<1>7. /\ DOMAIN t.families = 1 .. Len(t.families) /\ Len(t.families) \in Nat
      /\ DOMAIN more = 1 .. Len(t.families) + 1
  BY <1>5, <1>6, LenProperties
<1>8. \A i \in DOMAIN more : i \in DOMAIN t.families \/ i = Len(t.families) + 1
  BY <1>7
<1>9. /\ u.families = more /\ u.rows = t.rows /\ u.counts = t.counts
      /\ u \in Selections(N, F)
  <2>1. ASSUME NEW b \in BOOLEAN, NEW m \in Seq(E)
        PROVE  /\ [t EXCEPT !.failed = b, !.families = m] \in Selections(N, F)
               /\ [t EXCEPT !.failed = b, !.families = m].families = m
               /\ [t EXCEPT !.failed = b, !.families = m].rows = t.rows
               /\ [t EXCEPT !.failed = b, !.families = m].counts = t.counts
    BY <1>4 DEF Selections, E
  <2>2. (t.failed \/ t.taken = 0) \in BOOLEAN
    OBVIOUS
  <2>3. u = [t EXCEPT !.failed = (t.failed \/ t.taken = 0), !.families = more]
    BY Zenon
  <2> HIDE DEF u, more
  <2> QED
    BY <1>6, <2>1, <2>2, <2>3
<1> HIDE DEF u, more
<1>10. NamesDiffer(u.rows) /\ CountsAreTrue(u)
  BY <1>4, <1>9 DEF CountsAreTrue
<1>11. ListIsTrue(u)
  BY <1>4, <1>5, <1>6, <1>7, <1>8, <1>9 DEF ListIsTrue
<1>12. \A i \in DOMAIN u.families : u.families[i].family \in G \cup {family}
  <2>1. \A i \in DOMAIN s.families : s.families[i].family \in G
    BY DEF Listing
  <2> QED
    BY <1>4, <1>5, <1>6, <1>7, <1>8, <1>9, <2>1
<1>13. u \in Listing(N, F, G \cup {family})
  BY <1>4, <1>9, <1>10, <1>11, <1>12 DEF Listing
<1> QED
  BY <1>2, <1>3, <1>13

\* The names, the families and the first k families of a snapshot.
LinesOf(sn)     == ToSet(sn.benign) \cup UNION {ToSet(sn.dga[i].lines) : i \in DOMAIN sn.dga}
SourcesOf(sn)   == {"benign"} \cup {sn.dga[i].family : i \in DOMAIN sn.dga}
ReadUpTo(sn, k) == {"benign"} \cup {sn.dga[i].family : i \in 1 .. k}

\* What the assumption on the snapshots says of the families read so far.
LEMMA SourcesAreTyped ==
  ASSUME NEW sn \in Snapshots \cup {Packaged}
  PROVE  /\ sn.benign \in Seq(LinesOf(sn)) /\ Len(sn.dga) \in Nat
         /\ \A k \in 1 .. Len(sn.dga) :
              /\ sn.dga[k].family \in SourcesOf(sn)
              /\ sn.dga[k].family \notin ReadUpTo(sn, k - 1)
              /\ sn.dga[k].lines \in Seq(LinesOf(sn))
              /\ ReadUpTo(sn, k - 1) \cup {sn.dga[k].family} = ReadUpTo(sn, k)
<1>1. /\ sn.benign \in Seq(ToSet(sn.benign)) /\ sn.dga \in Seq(ToSet(sn.dga))
      /\ \A i, j \in DOMAIN sn.dga :
           /\ sn.dga[i].lines \in Seq(ToSet(sn.dga[i].lines)) /\ sn.dga[i].family # "benign"
           /\ sn.dga[i].family = sn.dga[j].family => i = j
  BY SnapshotsAssumption
<1>2. Len(sn.dga) \in Nat /\ DOMAIN sn.dga = 1 .. Len(sn.dga)
  BY <1>1, LenProperties
<1>3. ASSUME NEW A, NEW q \in Seq(A), NEW B, A \subseteq B PROVE q \in Seq(B)
  BY <1>3
<1>4. sn.benign \in Seq(LinesOf(sn))
  BY <1>1, <1>3 DEF LinesOf
<1>5. ASSUME NEW k \in 1 .. Len(sn.dga)
      PROVE  /\ sn.dga[k].family \in SourcesOf(sn)
             /\ sn.dga[k].family \notin ReadUpTo(sn, k - 1)
             /\ sn.dga[k].lines \in Seq(LinesOf(sn))
             /\ ReadUpTo(sn, k - 1) \cup {sn.dga[k].family} = ReadUpTo(sn, k)
  <2>1. sn.dga[k].family \in SourcesOf(sn)
    BY <1>2 DEF SourcesOf
  <2>2. ToSet(sn.dga[k].lines) \subseteq LinesOf(sn)
    BY <1>2 DEF LinesOf
  <2>3. sn.dga[k].lines \in Seq(LinesOf(sn))
    BY <1>1, <1>2, <1>3, <2>2
  <2>4. /\ \A i \in 1 .. k - 1 : i \in DOMAIN sn.dga /\ i # k
        /\ k \in DOMAIN sn.dga
    BY <1>2
  <2>5. sn.dga[k].family \notin ReadUpTo(sn, k - 1)
    BY <1>1, <2>4 DEF ReadUpTo
  <2>6. 1 .. k = (1 .. k - 1) \cup {k}
    BY <1>2
  <2>7. ReadUpTo(sn, k - 1) \cup {sn.dga[k].family} = ReadUpTo(sn, k)
    BY <2>6 DEF ReadUpTo
  <2> QED
    BY <2>1, <2>3, <2>5, <2>7
<1> QED
  BY <1>2, <1>4, <1>5

\* What has been selected when the first k families are read.
Selected(sn, k) == Listing(LinesOf(sn), SourcesOf(sn), ReadUpTo(sn, k))

\* The benign source is read first, into an empty selection.
LEMMA BenignIsRead ==
  ASSUME NEW sn \in Snapshots \cup {Packaged}
  PROVE  TakeLines(NoSelection, sn.benign, 0, "benign", BenignLimit) \in Selected(sn, 0)
<1> DEFINE N == LinesOf(sn)
           F == SourcesOf(sn)
           benign == "benign"
           zero == 0
           lines == sn.benign
           none == {}
<1>1. /\ NoSelection \in Selections(N, F) /\ NoSelection.rows = <<>>
      /\ NoSelection.families = <<>>
      /\ \A label \in 0..1 : NoSelection.counts[label] = 0
  <2>1. <<>> \in Seq(Row(N, F)) /\ <<>> \in Seq([family : F, rows : Nat])
    OBVIOUS
  <2>2. [label \in 0..1 |-> 0] \in [0..1 -> Nat]
    OBVIOUS
  <2> QED
    BY <2>1, <2>2 DEF NoSelection, Selections
<1>2. DOMAIN <<>> = {}
  OBVIOUS
<1>3. NoSelection \in Listing(N, F, none)
  BY <1>1, <1>2, NothingCounted DEF Listing, CountsAreTrue, ListIsTrue
<1>4. benign \in F /\ lines \in Seq(N) /\ zero \in 0..1 /\ benign \notin none
  BY SourcesAreTyped DEF SourcesOf
<1> DEFINE fs == NoSelection.families
<1>5. /\ [NoSelection EXCEPT !.taken = 0] \in Taking(N, F, fs, none, benign)
      /\ \A i \in DOMAIN fs : fs[i].family # benign
  <2> HIDE DEF N, F, benign, zero, lines, none
  <2> QED
    BY <1>3, <1>4, BeginsTaking
<1> HIDE DEF N, F, benign, zero, lines, none, fs
<1> DEFINE t == TakeLines(NoSelection, lines, zero, benign, BenignLimit)
<1>6. t \in Taking(N, F, fs, none, benign)
  BY <1>4, <1>5, TakeLinesKeeps
<1> HIDE DEF t
<1>7. t \in Listing(N, F, none \cup {benign})
  BY <1>1, <1>2, <1>6 DEF Taking, Listing, fs
<1>8. none \cup {benign} = ReadUpTo(sn, 0)
  BY DEF none, benign, ReadUpTo
<1> QED
  BY <1>7, <1>8 DEF t, lines, zero, benign, N, F, Selected

\* The next family is not among those that have been read.
LEMMA FamilyIsRead ==
  ASSUME NEW sn \in Snapshots \cup {Packaged}, NEW k \in 1 .. Len(sn.dga),
         NEW s \in Selected(sn, k - 1)
  PROVE  TakeFamily(s, sn.dga[k]) \in Selected(sn, k)
<1> DEFINE src == sn.dga[k]
           G == ReadUpTo(sn, k - 1)
           N == LinesOf(sn)
           F == SourcesOf(sn)
<1>1. /\ src.family \in F /\ src.family \notin G /\ src.lines \in Seq(N)
      /\ G \cup {src.family} = ReadUpTo(sn, k)
  BY SourcesAreTyped
<1>2. s \in Listing(N, F, G)
  BY DEF Selected
<1> HIDE DEF src, G, N, F
<1>3. TakeFamily(s, src) \in Listing(N, F, G \cup {src.family})
  BY <1>1, <1>2, TakeFamilyKeeps
<1> QED
  BY <1>1, <1>3 DEF src, N, F, Selected

\* What a selection says of its rows is true, and no name is in it twice.
LEMMA SelectionIsTrue ==
  ASSUME NEW sn \in Snapshots \cup {Packaged}
  PROVE  Select(sn) \in Selected(sn, Len(sn.dga))
<1> DEFINE A == Selections(LinesOf(sn), SourcesOf(sn))
           n == Len(sn.dga)
           base == TakeLines(NoSelection, sn.benign, 0, "benign", BenignLimit)
           turn == [x \in (1 .. n) \X A |->
                      IF x[2] \in Selected(sn, x[1] - 1) THEN TakeFamily(x[2], sn.dga[x[1]])
                      ELSE x[2]]
           Loop(f) == [i \in 0 .. n |->
                         IF i = 0 THEN base ELSE TakeFamily(f[i - 1], sn.dga[i])]
           after == CHOOSE f : f = Loop(f)
<1>1. n \in Nat
  BY SourcesAreTyped
<1>2. base \in Selected(sn, 0)
  BY BenignIsRead
<1>3. \A k : Selected(sn, k) \subseteq A
  BY DEF Selected, Listing
<1> HIDE DEF base
<1>4. \A i \in 1 .. n : \A s \in Selected(sn, i - 1) :
         TakeFamily(s, sn.dga[i]) \in Selected(sn, i)
  BY FamilyIsRead
<1>5. PICK f : Iterates(f, n, A, base, turn)
  <2>1. turn \in [(1 .. n) \X A -> A]
    <3> HIDE DEF n, A
    <3>1. \A i \in 1 .. n, s \in A :
             (IF s \in Selected(sn, i - 1) THEN TakeFamily(s, sn.dga[i]) ELSE s) \in A
      BY <1>3, <1>4
    <3> QED
      BY <3>1
  <2>2. base \in A
    BY <1>2, <1>3
  <2> HIDE DEF turn, n, A
  <2> QED
    BY <1>1, <2>1, <2>2, LoopExists
<1> HIDE DEF n, A
<1>6. ASSUME NEW g, g[0] = base,
             \A i \in 1 .. n : g[i - 1] \in Selected(sn, i - 1)
                                 => g[i] = TakeFamily(g[i - 1], sn.dga[i])
      PROVE  \A i \in 0 .. n : g[i] \in Selected(sn, i)
  <2> DEFINE T == {i \in 0 .. n : g[i] \in Selected(sn, i)}
  <2>1. 0 \in T
    BY <1>1, <1>2, <1>6
  <2>2. ASSUME NEW i \in 0 .. n - 1, i \in T PROVE i + 1 \in T
    <3>1. i + 1 \in 0 .. n /\ i + 1 \in 1 .. n /\ (i + 1) - 1 = i
      BY <1>1
    <3>2. g[i + 1] = TakeFamily(g[i], sn.dga[i + 1]) /\ g[i] \in Selected(sn, i)
      BY <1>6, <2>2, <3>1
    <3>3. g[i + 1] \in Selected(sn, i + 1)
      BY <1>4, <3>1, <3>2
    <3> QED
      BY <3>1, <3>3
  <2>3. 0 .. n \subseteq T
    <3> HIDE DEF T
    <3> QED
      BY <1>1, <2>1, <2>2, InductionUpTo
  <2> QED
    BY <2>3
<1>7. f \in [0 .. n -> A] /\ f[0] = base
  BY <1>5 DEF Iterates
<1>8. ASSUME NEW i \in 1 .. n, f[i - 1] \in Selected(sn, i - 1)
      PROVE  f[i] = TakeFamily(f[i - 1], sn.dga[i])
  <2>1. f[i - 1] \in A
    BY <1>3, <1>8
  <2>2. f[i] = turn[<<i, f[i - 1]>>]
    BY <1>5 DEF Iterates
  <2> QED
    BY <1>8, <2>1, <2>2
<1> HIDE DEF turn
<1>9. f = Loop(f)
  <2>1. \A i \in 0 .. n : f[i] \in Selected(sn, i)
    BY <1>6, <1>7, <1>8
  <2>2. \A i \in 0 .. n : f[i] = Loop(f)[i]
    <3> TAKE i \in 0 .. n
    <3>1. CASE i = 0
      BY <1>7, <3>1
    <3>2. CASE i # 0
      <4>1. i \in 1 .. n /\ i - 1 \in 0 .. n
        BY <1>1, <3>2
      <4> QED
        BY <1>8, <2>1, <3>2, <4>1
    <3> QED
      BY <3>1, <3>2
  <2> QED
    BY <1>7, <2>2
<1>10. after = Loop(after)
  BY <1>9
<1>11. Select(sn) = after[n]
  BY DEF Select, n, base
<1> HIDE DEF after
<1>12. after[0] = base
  BY <1>1, <1>10
<1>13. ASSUME NEW i \in 1 .. n PROVE after[i] = TakeFamily(after[i - 1], sn.dga[i])
  <2>1. i \in 0 .. n /\ i # 0
    BY <1>1
  <2> QED
    BY <1>10, <2>1
<1>14. after[n] \in Selected(sn, n)
  BY <1>1, <1>6, <1>12, <1>13
<1> QED
  BY <1>11, <1>14 DEF n

-----------------------------------------------------------------------------
(* The split.  Each part has the rows of its places and no other, one by one. *)

\* The first i rows that are at the places and have the label.
PlacesOf(rows, places, label, i) == {j \in 1 .. i : j \in places /\ rows[j].label = label}

\* q holds those of the first i rows that are at the places.
HoldsRowsAt(q, rows, places, i) ==
  /\ \A j \in DOMAIN q : \E k \in 1 .. i : k \in places /\ q[j] = rows[k]
  /\ \A label \in 0..1 : CountOf(q, label) = Cardinality(PlacesOf(rows, places, label, i))

\* One row more is one more of its label, if it is at one of the places.
LEMMA PlacesOfNext ==
  ASSUME NEW rows, NEW places, NEW label, NEW i \in Nat
  PROVE  /\ IsFiniteSet(PlacesOf(rows, places, label, i))
         /\ Cardinality(PlacesOf(rows, places, label, i)) \in Nat
         /\ i + 1 \in places /\ rows[i + 1].label = label =>
              Cardinality(PlacesOf(rows, places, label, i + 1))
                = Cardinality(PlacesOf(rows, places, label, i)) + 1
         /\ ~(i + 1 \in places /\ rows[i + 1].label = label) =>
              Cardinality(PlacesOf(rows, places, label, i + 1))
                = Cardinality(PlacesOf(rows, places, label, i))
<1> DEFINE P == PlacesOf(rows, places, label, i)
           Q == PlacesOf(rows, places, label, i + 1)
<1>1. IsFiniteSet(P) /\ Cardinality(P) \in Nat
  <2>1. IsFiniteSet(1 .. i)
    BY SizeUpTo
  <2>2. P \subseteq 1 .. i
    BY DEF PlacesOf
  <2> HIDE DEF P
  <2> QED
    BY <2>1, <2>2, FS_Subset, FS_CardinalityType
<1>2. 1 .. i + 1 = (1 .. i) \cup {i + 1} /\ i + 1 \notin 1 .. i
  OBVIOUS
<1>3. CASE i + 1 \in places /\ rows[i + 1].label = label
  <2>1. Q = P \cup {i + 1} /\ i + 1 \notin P
    BY <1>2, <1>3 DEF PlacesOf
  <2> HIDE DEF P, Q
  <2>2. Cardinality(Q) = Cardinality(P) + 1
    BY <1>1, <2>1, FS_AddElement
  <2> QED
    BY <1>1, <1>3, <2>2 DEF P, Q
<1>4. CASE ~(i + 1 \in places /\ rows[i + 1].label = label)
  <2>1. Q = P
    BY <1>2, <1>4 DEF PlacesOf
  <2> HIDE DEF P, Q
  <2> QED
    BY <1>1, <1>4, <2>1 DEF P, Q
<1> QED
  BY <1>3, <1>4

\* One turn of the loop of split_rows.
LEMMA RowIsPlaced ==
  ASSUME NEW N, NEW F, NEW rows \in Seq(Row(N, F)), NEW places, NEW i \in 0 .. Len(rows) - 1,
         NEW q \in Seq(Row(N, F)), HoldsRowsAt(q, rows, places, i),
         NEW p, p = IF i + 1 \in places THEN Append(q, rows[i + 1]) ELSE q
  PROVE  p \in Seq(Row(N, F)) /\ HoldsRowsAt(p, rows, places, i + 1)
<1>1. Len(rows) \in Nat /\ i \in Nat /\ i + 1 \in 1 .. i + 1
  BY LenProperties
<1>2. i + 1 \in 1 .. Len(rows) /\ \A k \in 1 .. i : k \in 1 .. i + 1
  BY <1>1
<1>3. rows[i + 1] \in Row(N, F)
  BY <1>2, LenProperties
<1>6. ASSUME NEW label
      PROVE  /\ Cardinality(PlacesOf(rows, places, label, i)) \in Nat
             /\ i + 1 \in places /\ rows[i + 1].label = label =>
                  Cardinality(PlacesOf(rows, places, label, i + 1))
                    = Cardinality(PlacesOf(rows, places, label, i)) + 1
             /\ ~(i + 1 \in places /\ rows[i + 1].label = label) =>
                  Cardinality(PlacesOf(rows, places, label, i + 1))
                    = Cardinality(PlacesOf(rows, places, label, i))
  BY <1>1, PlacesOfNext
<1> DEFINE r == rows[i + 1]
<1>4. CASE i + 1 \in places
  <2>1. /\ p \in Seq(Row(N, F)) /\ Len(p) = Len(q) + 1 /\ p[Len(q) + 1] = r
        /\ \A j \in 1 .. Len(q) : p[j] = q[j]
    BY <1>3, <1>4, AppendProperties
  <2>2. DOMAIN q = 1 .. Len(q) /\ Len(q) \in Nat /\ DOMAIN p = 1 .. Len(q) + 1
    BY <2>1, LenProperties
  <2>3. \A j \in DOMAIN p : j \in DOMAIN q \/ j = Len(q) + 1
    BY <2>2
  <2>4. ASSUME NEW j \in DOMAIN p
        PROVE  \E k \in 1 .. i + 1 : k \in places /\ p[j] = rows[k]
    <3>1. CASE j \in DOMAIN q
      BY <1>2, <2>1, <2>2, <3>1 DEF HoldsRowsAt
    <3>2. CASE j = Len(q) + 1
      BY <1>1, <1>4, <2>1, <3>2
    <3> QED
      BY <2>3, <3>1, <3>2
  <2>5. ASSUME NEW label \in 0..1
        PROVE  CountOf(p, label) = Cardinality(PlacesOf(rows, places, label, i + 1))
    <3>1. CountOf(p, label) = CountOf(q, label) + (IF r.label = label THEN 1 ELSE 0)
      <4>1. p = Append(q, r)
        BY <1>4
      <4> HIDE DEF r
      <4> QED
        BY <1>3, <4>1, CountsOfAppend DEF r
    <3>2. Cardinality(PlacesOf(rows, places, label, i + 1))
            = Cardinality(PlacesOf(rows, places, label, i))
              + (IF r.label = label THEN 1 ELSE 0)
      BY <1>4, <1>6
    <3> QED
      BY <3>1, <3>2 DEF HoldsRowsAt
  <2> QED
    BY <2>1, <2>4, <2>5 DEF HoldsRowsAt
<1>5. CASE i + 1 \notin places
  <2>1. \A label \in 0..1 : Cardinality(PlacesOf(rows, places, label, i + 1))
                              = Cardinality(PlacesOf(rows, places, label, i))
    BY <1>5, <1>6
  <2> QED
    BY <1>2, <1>5, <2>1 DEF HoldsRowsAt
<1> QED
  BY <1>4, <1>5

\* The whole loop.
LEMMA RowsAtIs ==
  ASSUME NEW N, NEW F, NEW rows \in Seq(Row(N, F)), NEW places
  PROVE  /\ RowsAt(rows, places) \in Seq(Row(N, F))
         /\ HoldsRowsAt(RowsAt(rows, places), rows, places, Len(rows))
<1> DEFINE A == Seq(Row(N, F))
           n == Len(rows)
           base == <<>>
           turn == [x \in (1 .. n) \X A |->
                      IF x[1] \in places THEN Append(x[2], rows[x[1]]) ELSE x[2]]
           Loop(f) == [i \in 0 .. n |->
                         IF i = 0 THEN base
                         ELSE IF i \in places THEN Append(f[i - 1], rows[i]) ELSE f[i - 1]]
           kept == CHOOSE f : f = Loop(f)
<1>1. n \in Nat /\ \A i \in 1 .. n : rows[i] \in Row(N, F)
  BY LenProperties
<1>2. base \in A
  OBVIOUS
<1>3. \A i \in 1 .. n, q \in A : (IF i \in places THEN Append(q, rows[i]) ELSE q) \in A
  BY <1>1, AppendProperties
<1>4. PICK f : Iterates(f, n, A, base, turn)
  <2>1. turn \in [(1 .. n) \X A -> A]
    <3> HIDE DEF n, A
    <3> QED
      BY <1>3
  <2> HIDE DEF turn, n, base, A
  <2> QED
    BY <1>1, <1>2, <2>1, LoopExists
<1> HIDE DEF A
<1>5. f \in [0 .. n -> A] /\ f[0] = base
  BY <1>4 DEF Iterates
<1>6. ASSUME NEW i \in 1 .. n
      PROVE  f[i] = IF i \in places THEN Append(f[i - 1], rows[i]) ELSE f[i - 1]
  <2>1. i - 1 \in 0 .. n
    BY <1>1
  <2>2. f[i - 1] \in A
    BY <1>5, <2>1
  <2>3. f[i] = turn[<<i, f[i - 1]>>]
    BY <1>4 DEF Iterates
  <2> QED
    BY <2>2, <2>3
<1> HIDE DEF turn, n
<1>7. f = Loop(f)
  <2>1. \A i \in 0 .. n : f[i] = Loop(f)[i]
    <3> TAKE i \in 0 .. n
    <3>1. CASE i = 0
      BY <1>5, <3>1
    <3>2. CASE i # 0
      BY <1>1, <1>6, <3>2
    <3> QED
      BY <3>1, <3>2
  <2> QED
    BY <1>5, <2>1
<1>8. kept = Loop(kept)
  BY <1>7
<1>9. RowsAt(rows, places) = kept[n]
  BY DEF RowsAt, n
<1> HIDE DEF kept
<1> DEFINE T == {i \in 0 .. n : kept[i] \in A /\ HoldsRowsAt(kept[i], rows, places, i)}
<1>10. 0 \in T
  <2>1. kept[0] = <<>>
    BY <1>1, <1>8
  <2>2. DOMAIN <<>> = {}
    OBVIOUS
  <2>3. \A label : PlacesOf(rows, places, label, 0) = {}
    BY DEF PlacesOf
  <2>4. HoldsRowsAt(<<>>, rows, places, 0)
    BY <2>2, <2>3, NothingCounted, FS_EmptySet DEF HoldsRowsAt
  <2> QED
    BY <1>1, <1>2, <2>1, <2>4
<1>11. ASSUME NEW i \in 0 .. n - 1, i \in T PROVE i + 1 \in T
  <2>1. i + 1 \in 0 .. n /\ i + 1 # 0 /\ (i + 1) - 1 = i
    BY <1>1
  <2>2. kept[i + 1] = IF i + 1 \in places THEN Append(kept[i], rows[i + 1]) ELSE kept[i]
    BY <1>8, <2>1
  <2>3. kept[i] \in A /\ HoldsRowsAt(kept[i], rows, places, i)
    BY <1>11
  <2>4. kept[i + 1] \in A /\ HoldsRowsAt(kept[i + 1], rows, places, i + 1)
    <3> DEFINE q == kept[i]
               p == kept[i + 1]
    <3> HIDE DEF q, p
    <3> QED
      BY <2>2, <2>3, RowIsPlaced DEF A, n, p, q
  <2> QED
    BY <2>1, <2>4
<1>12. 0 .. n \subseteq T
  <2> HIDE DEF T
  <2> QED
    BY <1>1, <1>10, <1>11, InductionUpTo
<1>13. n \in T
  BY <1>1, <1>12
<1> QED
  BY <1>9, <1>13 DEF A, n

\* A split uses each row once and keeps every family and every name to one part.
LEMMA SplitIsTrue ==
  ASSUME NEW N, NEW F, NEW rows \in Seq(Row(N, F)), NamesDiffer(rows), CanSplit(rows),
         NEW s, s = Split(rows)
  PROVE  /\ \A label \in 0..1 :
              /\ CountOf(s.train, label) > 0 /\ CountOf(s.test, label) > 0
              /\ CountOf(s.train, label) + CountOf(s.test, label) = CountOf(rows, label)
         /\ FamiliesIn(s.train) \cap FamiliesIn(s.test) = {}
         /\ Cardinality(NamesIn(s.train) \cap NamesIn(s.test)) = 0
<1> DEFINE tests == {i \in DOMAIN rows : InTest(rows[i], rows)}
           rest  == DOMAIN rows \ tests
           n == Len(rows)
<1>1. s.train = RowsAt(rows, rest) /\ s.test = RowsAt(rows, tests)
  BY DEF Split
<1>2. /\ s.train \in Seq(Row(N, F)) /\ HoldsRowsAt(s.train, rows, rest, n)
      /\ s.test \in Seq(Row(N, F)) /\ HoldsRowsAt(s.test, rows, tests, n)
  BY <1>1, RowsAtIs
<1>3. n \in Nat /\ DOMAIN rows = 1 .. n
  BY LenProperties
<1>4. \A i \in 1 .. n : i \in tests <=> InTest(rows[i], rows)
  BY <1>3
<1>5. /\ \A j \in DOMAIN s.train : \E k \in 1 .. n : ~InTest(rows[k], rows) /\ s.train[j] = rows[k]
      /\ \A j \in DOMAIN s.test : \E k \in 1 .. n : InTest(rows[k], rows) /\ s.test[j] = rows[k]
  BY <1>2, <1>4 DEF HoldsRowsAt
<1>6. ASSUME NEW q \in Seq(Row(N, F)), LabelsIn(q) = {0, 1}, NEW label \in 0..1,
             CountOf(q, label) \in Nat
      PROVE  CountOf(q, label) > 0
  <2> DEFINE P == {i \in DOMAIN q : q[i].label = label}
  <2>1. P # {}
    <3>1. label \in {0, 1}
      OBVIOUS
    <3> QED
      BY <1>6, <3>1 DEF LabelsIn
  <2>2. IsFiniteSet(P)
    <3>1. IsFiniteSet(1 .. Len(q)) /\ DOMAIN q = 1 .. Len(q)
      BY LenProperties, SizeUpTo
    <3>2. P \subseteq 1 .. Len(q)
      BY <3>1
    <3> QED
      BY <3>1, <3>2, FS_Subset
  <2>3. CountOf(q, label) = Cardinality(P)
    BY DEF CountOf
  <2> HIDE DEF P
  <2>4. Cardinality(P) # 0
    BY <2>1, <2>2, FS_EmptySet
  <2> QED
    BY <1>6, <2>3, <2>4
<1>7. ASSUME NEW label \in 0..1
      PROVE  /\ CountOf(s.train, label) > 0 /\ CountOf(s.test, label) > 0
             /\ CountOf(s.train, label) + CountOf(s.test, label) = CountOf(rows, label)
  <2> DEFINE P == PlacesOf(rows, rest, label, n)
             Q == PlacesOf(rows, tests, label, n)
  <2>1. CountOf(s.train, label) = Cardinality(P) /\ CountOf(s.test, label) = Cardinality(Q)
    BY <1>2 DEF HoldsRowsAt
  <2>2. /\ IsFiniteSet(P) /\ Cardinality(P) \in Nat
        /\ IsFiniteSet(Q) /\ Cardinality(Q) \in Nat
    BY <1>3, PlacesOfNext
  <2>3. LabelsIn(s.train) = {0, 1} /\ LabelsIn(s.test) = {0, 1}
    BY DEF CanSplit
  <2>4. CountOf(s.train, label) > 0 /\ CountOf(s.test, label) > 0
    BY <1>2, <1>6, <2>1, <2>2, <2>3
  <2>5. CountOf(rows, label) = Cardinality(P \cup Q)
    <3>1. {i \in DOMAIN rows : rows[i].label = label} = P \cup Q
      BY <1>3 DEF PlacesOf
    <3> QED
      BY <3>1 DEF CountOf
  <2>6. P \cap Q = {}
    BY DEF PlacesOf
  <2> HIDE DEF P, Q
  <2>7. Cardinality(P \cup Q) = Cardinality(P) + Cardinality(Q)
    <3>1. Cardinality(P \cup Q) = Cardinality(P) + Cardinality(Q) - Cardinality(P \cap Q)
      BY <2>2, FS_Union
    <3>2. Cardinality(P \cap Q) = 0
      BY <2>6, FS_EmptySet
    <3> QED
      BY ONLY <2>2, <3>1, <3>2
  <2> QED
    BY <2>1, <2>4, <2>5, <2>7
<1>8. FamiliesIn(s.train) \cap FamiliesIn(s.test) = {}
  <2> SUFFICES ASSUME NEW j \in DOMAIN s.train, NEW k \in DOMAIN s.test,
                      s.train[j].label = 1, s.test[k].label = 1,
                      s.train[j].family = s.test[k].family
               PROVE  FALSE
    BY DEF FamiliesIn
  <2>1. PICK x \in 1 .. n : ~InTest(rows[x], rows) /\ s.train[j] = rows[x]
    BY <1>5
  <2>2. PICK y \in 1 .. n : InTest(rows[y], rows) /\ s.test[k] = rows[y]
    BY <1>5
  <2>3. rows[x].label = 1 /\ rows[y].label = 1 /\ rows[x].family = rows[y].family
    BY <2>1, <2>2
  <2> QED
    BY <2>1, <2>2, <2>3 DEF InTest
<1>9. NamesIn(s.train) \cap NamesIn(s.test) = {}
  <2> SUFFICES ASSUME NEW j \in DOMAIN s.train, NEW k \in DOMAIN s.test,
                      s.train[j].name = s.test[k].name
               PROVE  FALSE
    BY DEF NamesIn
  <2>1. PICK x \in 1 .. n : ~InTest(rows[x], rows) /\ s.train[j] = rows[x]
    BY <1>5
  <2>2. PICK y \in 1 .. n : InTest(rows[y], rows) /\ s.test[k] = rows[y]
    BY <1>5
  <2>3. x = y
    BY <1>3, <2>1, <2>2 DEF NamesDiffer
  <2> QED
    BY <2>1, <2>2, <2>3
<1> HIDE DEF tests, rest, n
<1> QED
  BY <1>7, <1>8, <1>9, FS_EmptySet


-----------------------------------------------------------------------------
(* The metadata.  The job that prepare has in hand is a selection, whose rows *)
(* are in the dataset when the manifest is written; so a readable manifest is *)
(* that of a selection, and what train writes is of such a manifest.         *)

\* A selection that did not fail, and what prepare writes of one.
IsSelection(s) == \E sn \in Snapshots \cup {Packaged} : ~Select(sn).failed /\ s = Select(sn)

IsManifest(m) == \E sn \in Snapshots \cup {Packaged} :
                   ~Select(sn).failed /\ m = Manifest(Select(sn), Select(sn).rows)

\* Metadata of the manifest of a selection that can be split is true.
LEMMA ManifestIsTrue ==
  ASSUME NEW m, IsManifest(m), CanSplit(m.dataset),
         NEW a, NEW d, d = Metadata(m, Split(m.dataset), a)
  PROVE  /\ \A label \in 0..1 :
              /\ m.counts[label] = CountOf(m.dataset, label)
              /\ d.train[label] > 0 /\ d.test[label] > 0
              /\ d.train[label] + d.test[label] = m.counts[label]
         /\ \A i \in DOMAIN m.families :
              m.families[i].rows = RowsOf(m.dataset, m.families[i].family)
         /\ d.familyOverlap = {} /\ d.nameOverlap = 0
<1>1. PICK sn \in Snapshots \cup {Packaged} : m = Manifest(Select(sn), Select(sn).rows)
  BY DEF IsManifest
<1> DEFINE s == Select(sn)
           N == LinesOf(sn)
           F == SourcesOf(sn)
           sp == Split(m.dataset)
<1>2. /\ s \in Selections(N, F) /\ NamesDiffer(s.rows) /\ CountsAreTrue(s) /\ ListIsTrue(s)
  BY SelectionIsTrue DEF Selected, Listing
<1> HIDE DEF s
<1>3. /\ m.dataset = s.rows /\ m.counts = s.counts /\ m.families = s.families
  BY <1>1 DEF Manifest, s
<1>4. s.rows \in Seq(Row(N, F))
  BY <1>2 DEF Selections
<1> HIDE DEF N, F
<1>5. /\ \A label \in 0..1 :
           /\ CountOf(sp.train, label) > 0 /\ CountOf(sp.test, label) > 0
           /\ CountOf(sp.train, label) + CountOf(sp.test, label) = CountOf(m.dataset, label)
      /\ FamiliesIn(sp.train) \cap FamiliesIn(sp.test) = {}
      /\ Cardinality(NamesIn(sp.train) \cap NamesIn(sp.test)) = 0
  BY <1>2, <1>3, <1>4, SplitIsTrue
<1>10. d = Metadata(m, sp, a)
  OBVIOUS
<1> HIDE DEF sp
<1>6. /\ \A label \in 0..1 : d.train[label] = CountOf(sp.train, label)
                              /\ d.test[label] = CountOf(sp.test, label)
      /\ d.familyOverlap = FamiliesIn(sp.train) \cap FamiliesIn(sp.test)
      /\ d.nameOverlap = Cardinality(NamesIn(sp.train) \cap NamesIn(sp.test))
  BY <1>10 DEF Metadata
<1>7. \A label \in 0..1 : m.counts[label] = CountOf(m.dataset, label)
  BY <1>2, <1>3 DEF CountsAreTrue
<1>8. \A i \in DOMAIN m.families :
        m.families[i].rows = RowsOf(m.dataset, m.families[i].family)
  BY <1>2, <1>3 DEF ListIsTrue
<1>9. \A label \in 0..1 :
        /\ m.counts[label] = CountOf(m.dataset, label)
        /\ d.train[label] > 0 /\ d.test[label] > 0
        /\ d.train[label] + d.test[label] = m.counts[label]
  BY <1>5, <1>6, <1>7
<1> QED
  BY <1>5, <1>6, <1>8, <1>9

\* The stages of prepare, once the sources have been read.
Preparing == {"writing_dataset", "opening_manifest", "writing_manifest"}

ManifestIsOfSelection == manifest # Unreadable => IsManifest(manifest)

JobIsSelection == tool \in Preparing => IsSelection(job)

DatasetIsSelected == tool \in {"opening_manifest", "writing_manifest"} => dataset = job.rows

JobCanSplit ==
  tool \in Training => IsManifest(job.manifest) /\ CanSplit(job.manifest.dataset)

\* Readable metadata describes the split of a selection's rows.
MetadataIsOfManifest ==
  metadata # Unreadable =>
    LET m == metadata.dataset
    IN  /\ IsManifest(m) /\ CanSplit(m.dataset)
        /\ metadata = Metadata(m, Split(m.dataset), metadata.artifact)

FilesInv ==
  /\ JobIsSplit /\ ManifestIsOfSelection /\ JobIsSelection /\ DatasetIsSelected
  /\ JobCanSplit /\ MetadataIsOfManifest

\* The repository's own metadata describes its own selection.
LEMMA FilesInitial == BuildInit => FilesInv
<1> SUFFICES ASSUME BuildInit PROVE FilesInv
  OBVIOUS
<1> DEFINE s == Select(Packaged)
           m == Manifest(s, s.rows)
<1>1. /\ tool = "idle" /\ manifest = Unreadable
      /\ metadata = Metadata(m, Split(s.rows), artifact)
  BY DEF BuildInit
<1>2. m.dataset = s.rows
  BY DEF Manifest
<1>3. IsManifest(m) /\ CanSplit(s.rows)
  BY PackagedAssumption DEF IsManifest
<1> HIDE DEF s, m
<1>4. metadata.dataset = m /\ metadata.artifact = artifact
  BY <1>1, MetadataFields
<1>5. MetadataIsOfManifest
  BY <1>1, <1>2, <1>3, <1>4 DEF MetadataIsOfManifest
<1> QED
  BY <1>1, <1>5 DEF FilesInv, JobIsSplit, ManifestIsOfSelection, JobIsSelection,
       DatasetIsSelected, JobCanSplit, Preparing, Training

\* A tool that is killed leaves a file that is whole, cut short or not yet written.
LEMMA FilesStep == FilesInv /\ BuildNext => FilesInv'
<1> SUFFICES ASSUME FilesInv, BuildNext PROVE FilesInv'
  OBVIOUS
<1> USE DEF FilesInv, JobIsSplit, ManifestIsOfSelection, JobIsSelection,
            DatasetIsSelected, JobCanSplit, MetadataIsOfManifest, Preparing, Training
<1>1. CASE PrepareFails \/ TrainFails
  BY <1>1 DEF PrepareFails, TrainFails, Begin
<1>2. CASE OpenDataset
  <2>1. IsSelection(job')
    BY <1>2 DEF OpenDataset, IsSelection
  <2> QED
    BY <1>2, <2>1 DEF OpenDataset, Begin
<1>3. CASE WriteDataset
  BY <1>3 DEF WriteDataset
<1>4. CASE OpenManifest
  BY <1>4 DEF OpenManifest
<1>5. CASE WriteManifest
  <2>1. IsSelection(job) /\ dataset = job.rows /\ manifest' = Manifest(job, dataset)
    BY <1>5 DEF WriteManifest
  <2>2. IsManifest(manifest')
    BY <2>1 DEF IsSelection, IsManifest
  <2> QED
    BY <1>5, <2>2 DEF WriteManifest
<1>6. CASE OpenArtifact
  <2>1. /\ manifest # Unreadable /\ manifest.dataset = dataset /\ CanSplit(dataset)
        /\ job' = [manifest |-> manifest, split |-> Split(dataset)]
    BY <1>6 DEF OpenArtifact, CanTrain, ManifestMatches
  <2>2. job'.manifest = manifest /\ job'.split = Split(job'.manifest.dataset)
    BY <2>1
  <2> QED
    BY <1>6, <2>1, <2>2 DEF OpenArtifact, Begin
<1>7. CASE WriteArtifact
  BY <1>7 DEF WriteArtifact
<1>8. CASE OpenMetadata
  BY <1>8 DEF OpenMetadata
<1>9. CASE WriteMetadata
  <2>1. /\ IsManifest(job.manifest) /\ CanSplit(job.manifest.dataset)
        /\ metadata' = Metadata(job.manifest, Split(job.manifest.dataset), artifact)
    BY <1>9 DEF WriteMetadata
  <2>2. metadata'.dataset = job.manifest /\ metadata'.artifact = artifact
    BY <2>1, MetadataFields
  <2>3. MetadataIsOfManifest'
    BY <2>1, <2>2
  <2> QED
    BY <1>9, <2>3 DEF WriteMetadata
<1>10. CASE Killed
  BY <1>10 DEF Killed
<1> QED
  BY <1>1, <1>2, <1>3, <1>4, <1>5, <1>6, <1>7, <1>8, <1>9, <1>10 DEF BuildNext

\* Whatever the sources hold and wherever the tools are killed: the metadata file,
\* when it can be read, has the true counts of the rows its model was made from,
\* label by label and family by family; both parts of the split have both labels
\* and together make up the dataset; and no family and no name is in both parts.
THEOREM MetadataTellsTheTruth == Spec => []MetadataIsTrue
<1>1. Init => FilesInv
  BY FilesInitial DEF Init
<1>2. FilesInv /\ [Next]_vars => FilesInv'
  <2> SUFFICES ASSUME FilesInv, [Next]_vars PROVE FilesInv'
    OBVIOUS
  <2>1. CASE BuildNext
    BY <2>1, FilesStep
  <2>2. CASE UNCHANGED buildVars
    BY <2>2 DEF buildVars, FilesInv, JobIsSplit, ManifestIsOfSelection, JobIsSelection,
                DatasetIsSelected, JobCanSplit, MetadataIsOfManifest, Preparing, Training
  <2> QED
    BY <2>1, <2>2 DEF Next, vars
<1>3. FilesInv => MetadataIsTrue
  <2> SUFFICES ASSUME FilesInv, metadata # Unreadable PROVE MetadataIsTrue
    BY DEF MetadataIsTrue
  <2> DEFINE m == metadata.dataset
             a == metadata.artifact
  <2>1. IsManifest(m) /\ CanSplit(m.dataset) /\ metadata = Metadata(m, Split(m.dataset), a)
    BY DEF FilesInv, MetadataIsOfManifest
  <2> DEFINE d == metadata
  <2> HIDE DEF m, a
  <2>2. /\ \A label \in 0..1 :
             /\ m.counts[label] = CountOf(m.dataset, label)
             /\ d.train[label] > 0 /\ d.test[label] > 0
             /\ d.train[label] + d.test[label] = m.counts[label]
        /\ \A i \in DOMAIN m.families :
             m.families[i].rows = RowsOf(m.dataset, m.families[i].family)
        /\ d.familyOverlap = {} /\ d.nameOverlap = 0
    <3>1. IsManifest(m) /\ CanSplit(m.dataset) /\ d = Metadata(m, Split(m.dataset), a)
      BY <2>1
    <3> HIDE DEF d
    <3> QED
      BY ONLY <3>1, ManifestIsTrue
  <2> QED
    BY <2>2 DEF MetadataIsTrue, m, RowsOf
<1> QED
  BY <1>1, <1>2, <1>3, PTL DEF Spec

-----------------------------------------------------------------------------
(* The replay. *)

Sequence(s) == s \in Seq({s[i] : i \in DOMAIN s})

\* The worker has been given nothing yet, and the copy may still be refused.
BeforeReplay == {"starting", "generating", "opening", "copying", "spawning"}
InReplay     == {"replaying", "emitting"}

CopyIsChecked ==
  /\ Sequence(copy)
  /\ phase = "spawning" => copy = info.pcap

WorkerIsFresh == phase \in BeforeReplay => replayed = <<>>

ReplayIsTyped ==
  phase \in InReplay => Sequence(info.pcap) /\ Sequence(input) /\ Sequence(replayed)

ReplayInv == CopyIsChecked /\ WorkerIsFresh /\ ReplayIsTyped /\ ReplayedIsValidated

LEMMA IsSequence == ASSUME NEW S, NEW s \in Seq(S) PROVE Sequence(s)
BY DEF Sequence

LEMMA AppendSequence ==
  ASSUME NEW s, NEW e, Sequence(s)
  PROVE  /\ Sequence(Append(s, e)) /\ Len(Append(s, e)) = Len(s) + 1
         /\ Append(s, e)[Len(s) + 1] = e /\ \A i \in 1 .. Len(s) : Append(s, e)[i] = s[i]
<1> DEFINE S == {s[i] : i \in DOMAIN s} \cup {e}
<1>1. s \in Seq(S)
  BY DEF Sequence
<1>2. /\ Append(s, e) \in Seq(S) /\ Len(Append(s, e)) = Len(s) + 1
      /\ Append(s, e)[Len(s) + 1] = e /\ \A i \in 1 .. Len(s) : Append(s, e)[i] = s[i]
  BY <1>1
<1> HIDE DEF S
<1>3. QED  BY <1>2, IsSequence

LEMMA TailSequence ==
  ASSUME NEW s, Sequence(s), s # <<>>
  PROVE  /\ Sequence(Tail(s)) /\ Len(s) \in Nat /\ Len(Tail(s)) = Len(s) - 1
         /\ \A i \in DOMAIN Tail(s) : i \in Int /\ i + 1 \in DOMAIN s /\ Tail(s)[i] = s[i + 1]
<1> DEFINE S == {s[i] : i \in DOMAIN s}
<1>1. s \in Seq(S)
  BY DEF Sequence
<1> HIDE DEF S
<1>2. Tail(s) \in Seq(S) /\ Len(s) \in Nat /\ Len(Tail(s)) = Len(s) - 1
  BY <1>1
<1>3. \A i \in DOMAIN Tail(s) : i \in Int /\ i + 1 \in DOMAIN s /\ Tail(s)[i] = s[i + 1]
  BY <1>1, <1>2
<1>4. QED  BY <1>2, <1>3, IsSequence

LEMMA EmptySequence == Sequence(<<>>)
BY DEF Sequence

LEMMA ReplayInitial == BenchInit => ReplayInv
BY EmptySequence DEF BenchInit, ReplayInv, CopyIsChecked, WorkerIsFresh, ReplayIsTyped,
  ReplayedIsValidated, BeforeReplay, InReplay

\* The steps after which the benchmark is where it was, or ended.
LEMMA ReplayUntouched ==
  ASSUME ReplayInv, UNCHANGED copy,
         phase' = "ended" \/ UNCHANGED <<phase, info, input, replayed>>
  PROVE  ReplayInv'
BY DEF ReplayInv, CopyIsChecked, WorkerIsFresh, ReplayIsTyped,
  ReplayedIsValidated, BeforeReplay, InReplay

LEMMA ReplayStep ==
  ASSUME ReplayInv, Progress \/ DrainSink \/ Environment
  PROVE  ReplayInv'
<1> USE DEF ReplayInv, BeforeReplay, InReplay
<1>1. CASE Begins \/ Generate \/ Open
  BY <1>1 DEF Begins, Generate, Open, Go, End, DriverIdle, WorkerIdle, pathVars, workerVars,
    CopyIsChecked, WorkerIsFresh, ReplayIsTyped, ReplayedIsValidated
<1>2. CASE CopyPacket
  BY <1>2, AppendSequence DEF CopyPacket, WorkerIdle, workerVars,
    CopyIsChecked, WorkerIsFresh, ReplayIsTyped, ReplayedIsValidated
<1>3. CASE Validate
  BY <1>3 DEF Validate, Go, End, DriverIdle, WorkerIdle, workerVars,
    CopyIsChecked, WorkerIsFresh, ReplayIsTyped, ReplayedIsValidated
<1>4. CASE StartWorker
  <2>1. CASE phase' = "ended"
    BY <1>4, <2>1, ReplayUntouched DEF StartWorker, DriverIdle
  <2>2. CASE phase' # "ended"
    <3>1. /\ phase = "spawning" /\ phase' = "replaying" /\ UNCHANGED <<copy, info, replayed>>
          /\ input' = copy
      BY <1>4, <2>2 DEF StartWorker, WorkerInput, Go, End, DriverIdle
    <3>2. copy = info.pcap /\ Sequence(copy) /\ replayed = <<>>
      BY <3>1 DEF CopyIsChecked, WorkerIsFresh
    <3>3. Len(copy) \in Nat /\ DOMAIN copy = 1 .. Len(copy) /\ Len(replayed) = 0
      BY <3>2 DEF Sequence
    <3>4. ReplayedIsValidated'
      BY <3>1, <3>2, <3>3 DEF ReplayedIsValidated
    <3>5. QED
      BY <3>1, <3>2, <3>4, EmptySequence DEF CopyIsChecked, WorkerIsFresh, ReplayIsTyped
  <2>3. QED  BY <2>1, <2>2
<1>5. CASE ProcessEvent \/ LosePacket
  <2>1. /\ phase \in InReplay /\ phase' \in InReplay
        /\ input # <<>> /\ input' = Tail(input) /\ UNCHANGED <<copy, info>>
        /\ replayed' = replayed \/ replayed' = Append(replayed, Head(input))
    BY <1>5 DEF ProcessEvent, LosePacket, Go, DriverIdle
  <2>2. Sequence(info.pcap) /\ Sequence(input) /\ Sequence(replayed)
    BY <2>1 DEF ReplayIsTyped
  <2>3. /\ Sequence(replayed') /\ Len(replayed) \in Nat /\ Len(info.pcap) \in Nat
        /\ Len(replayed') \in {Len(replayed), Len(replayed) + 1}
    BY <2>1, <2>2, AppendSequence DEF Sequence
  <2>4. /\ Sequence(input') /\ Len(input) \in Nat /\ Len(input') = Len(input) - 1
        /\ \A i \in DOMAIN input' :
             i \in Int /\ i + 1 \in DOMAIN input /\ input'[i] = input[i + 1]
    BY <2>1, <2>2, TailSequence
  <2>5. /\ Len(replayed) + Len(input) <= Len(info.pcap)
        /\ \A i \in DOMAIN input :
             input[i] = info.pcap[Len(info.pcap) - Len(input) + i]
    BY <2>1 DEF ReplayedIsValidated
  <2>6. Len(replayed') + Len(input') <= Len(info.pcap)
    BY <2>3, <2>4, <2>5
  <2>7. ASSUME NEW i \in DOMAIN input'
        PROVE  input'[i] = info.pcap[Len(info.pcap) - Len(input') + i]
    <3>1. input'[i] = info.pcap[Len(info.pcap) - Len(input) + (i + 1)]
      BY <2>4, <2>5
    <3>2. Len(info.pcap) - Len(input) + (i + 1) = Len(info.pcap) - Len(input') + i
      BY <2>3, <2>4
    <3>3. QED  BY <3>1, <3>2
  <2>8. QED
    BY <2>1, <2>2, <2>3, <2>4, <2>6, <2>7
    DEF CopyIsChecked, WorkerIsFresh, ReplayIsTyped, ReplayedIsValidated
<1>6. CASE EmitAlert
  BY <1>6 DEF EmitAlert, Go, DriverIdle,
    CopyIsChecked, WorkerIsFresh, ReplayIsTyped, ReplayedIsValidated
<1>7. CASE TooManyEvents \/ Report \/ Fails
  BY <1>7, ReplayUntouched DEF TooManyEvents, Report, Fails, End, DriverIdle
<1>8. CASE DrainSink \/ Replace \/ Rewrite
  BY <1>8, ReplayUntouched DEF DrainSink, Replace, Rewrite, WorkerIdle, workerVars
<1>9. QED  BY <1>1, <1>2, <1>3, <1>4, <1>5, <1>6, <1>7, <1>8 DEF Progress, Environment

\* Whatever becomes of the candidate, before, while or after it is read, and
\* however many packets Zeek loses: the packets that the worker has yet to replay
\* are the end of the capture that the generator produced for this run.
THEOREM ReplayIsValidated == Spec => []ReplayedIsValidated
<1>1. Init => ReplayInv
  BY ReplayInitial DEF Init
<1>2. ReplayInv /\ [Next]_vars => ReplayInv'
  <2> SUFFICES ASSUME ReplayInv, [Next]_vars PROVE ReplayInv'
    OBVIOUS
  <2>1. CASE Progress \/ DrainSink \/ Environment
    BY <2>1, ReplayStep
  <2>2. CASE UNCHANGED benchVars
    BY <2>2, ReplayUntouched DEF benchVars, pathVars, workerVars
  <2>3. QED  BY <2>1, <2>2 DEF Next, vars
<1>3. ReplayInv => ReplayedIsValidated
  BY DEF ReplayInv
<1>4. QED  BY <1>1, <1>2, <1>3, PTL DEF Spec

-----------------------------------------------------------------------------
(* The report. *)

\* The loop of the generator has a value after every candidate.
NameLists == Seq({VerifiedName} \cup ToSet(Candidates))

Keep(v, name, model) == IF name \in Flags(model) THEN Append(v, name) ELSE v

Kept(v, model, n) ==
  /\ v = [k \in 0 .. n |-> v[k]] /\ v[0] = <<VerifiedName>>
  /\ \A k \in 1 .. n : v[k] = Keep(v[k - 1], Candidates[k], model)
  /\ \A k \in 0 .. n : v[k] \in NameLists

LEMMA KeepsNames ==
  ASSUME NEW v \in NameLists, NEW name \in ToSet(Candidates), NEW model
  PROVE  Keep(v, name, model) \in NameLists
<1> DEFINE S == {VerifiedName} \cup ToSet(Candidates)
<1>1. name \in S /\ v \in Seq(S)
  BY DEF NameLists
<1> HIDE DEF S
<1>2. Append(v, name) \in Seq(S)
  BY <1>1
<1> QED
  BY <1>1, <1>2 DEF Keep, NameLists, S

LEMMA KeptExists ==
  ASSUME NEW model, NEW n \in Nat, Candidates \in Seq(ToSet(Candidates)), n <= Len(Candidates)
  PROVE  \E v : Kept(v, model, n)
<1> DEFINE T == {m \in 0 .. n : \E v : Kept(v, model, m)}
<1>1. 0 \in T
  <2>1. Kept([k \in 0 .. 0 |-> <<VerifiedName>>], model, 0)
    BY DEF Kept, NameLists
  <2> QED
    BY <2>1
<1>2. ASSUME NEW m \in 0 .. n - 1, m \in T PROVE m + 1 \in T
  <2>1. PICK v : Kept(v, model, m)
    BY <1>2
  <2> DEFINE w == [k \in 0 .. m + 1 |->
                     IF k = m + 1 THEN Keep(v[m], Candidates[m + 1], model) ELSE v[k]]
  <2>2. /\ \A k \in 0 .. m : w[k] = v[k]
        /\ w[m + 1] = Keep(v[m], Candidates[m + 1], model)
        /\ w = [k \in 0 .. m + 1 |-> w[k]]
    OBVIOUS
  <2> HIDE DEF w
  <2>3. w[0] = <<VerifiedName>>
    <3>1. 0 \in 0 .. m
      OBVIOUS
    <3> QED
      BY <2>1, <2>2, <3>1 DEF Kept
  <2>4. ASSUME NEW k \in 1 .. m + 1 PROVE w[k] = Keep(w[k - 1], Candidates[k], model)
    <3>1. CASE k = m + 1
      <4>1. k - 1 = m /\ m \in 0 .. m
        BY <3>1
      <4> QED
        BY <2>2, <3>1, <4>1
    <3>2. CASE k # m + 1
      <4>1. k \in 1 .. m /\ k \in 0 .. m /\ k - 1 \in 0 .. m
        BY <3>2
      <4> QED
        BY <2>1, <2>2, <4>1 DEF Kept
    <3> QED
      BY <3>1, <3>2
  <2>5. ASSUME NEW k \in 0 .. m + 1 PROVE w[k] \in NameLists
    <3>1. CASE k = m + 1
      <4>1. Candidates[m + 1] \in ToSet(Candidates) /\ v[m] \in NameLists
        BY <2>1 DEF ToSet, Kept
      <4> QED
        BY <2>2, <3>1, <4>1, KeepsNames
    <3>2. CASE k # m + 1
      <4>1. k \in 0 .. m
        BY <3>2
      <4> QED
        BY <2>1, <2>2, <4>1 DEF Kept
    <3> QED
      BY <3>1, <3>2
  <2>6. Kept(w, model, m + 1)
    BY <2>2, <2>3, <2>4, <2>5 DEF Kept
  <2> QED
    BY <2>6
<1> HIDE DEF T
<1>3. n \in T
  <2>1. 0 .. n \subseteq T
    BY <1>1, <1>2, InductionUpTo
  <2> QED
    BY <2>1
<1> QED
  BY <1>3 DEF T

LEMMA VerifiedNamesAreNames ==
  ASSUME NEW model
  PROVE  VerifiedNames(model) \in NameLists
<1> DEFINE N == Len(Candidates)
           Loop(f) == [n \in 0 .. N |->
                         IF n = 0 THEN <<VerifiedName>>
                         ELSE IF Candidates[n] \in Flags(model)
                              THEN Append(f[n - 1], Candidates[n])
                         ELSE f[n - 1]]
           verified == CHOOSE f : f = Loop(f)
<1>1. N \in Nat /\ Candidates \in Seq(ToSet(Candidates))
  BY NamesAssumption
<1>2. PICK v : Kept(v, model, N)
  BY <1>1, KeptExists
<1>3. v = Loop(v)
  <2>1. \A n \in 0 .. N : v[n] = Loop(v)[n]
    <3> TAKE n \in 0 .. N
    <3>1. CASE n = 0
      BY <1>1, <1>2, <3>1 DEF Kept
    <3>2. CASE n # 0
      <4>1. n \in 1 .. N
        BY <1>1, <3>2
      <4> QED
        BY <1>2, <3>2, <4>1 DEF Kept, Keep
    <3> QED
      BY <3>1, <3>2
  <2> QED
    BY <1>2, <2>1 DEF Kept
<1>4. verified = Loop(verified)
  BY <1>3
<1>5. VerifiedNames(model) = verified[N]
  BY DEF VerifiedNames
<1> HIDE DEF verified
<1>6. /\ verified[0] = <<VerifiedName>>
      /\ \A n \in 1 .. N : verified[n] = Keep(verified[n - 1], Candidates[n], model)
  <2>1. verified[0] = <<VerifiedName>>
    BY <1>1, <1>4
  <2>2. ASSUME NEW n \in 1 .. N PROVE verified[n] = Keep(verified[n - 1], Candidates[n], model)
    <3>1. n \in 0 .. N /\ n # 0
      BY <1>1
    <3> QED
      BY <1>4, <3>1 DEF Keep
  <2> QED
    BY <2>1, <2>2
<1> DEFINE T == {n \in 0 .. N : verified[n] \in NameLists}
<1>7. 0 \in T
  BY <1>1, <1>6 DEF NameLists
<1>8. ASSUME NEW n \in 0 .. N - 1, n \in T PROVE n + 1 \in T
  <2>1. n + 1 \in 1 .. N /\ (n + 1) - 1 = n /\ n + 1 \in 0 .. N
    BY <1>1
  <2>2. verified[n + 1] = Keep(verified[n], Candidates[n + 1], model)
    BY <1>6, <2>1
  <2>3. Candidates[n + 1] \in ToSet(Candidates) /\ verified[n] \in NameLists
    BY <1>1, <1>8, <2>1 DEF ToSet
  <2>4. verified[n + 1] \in NameLists
    BY <2>2, <2>3, KeepsNames
  <2> QED
    BY <2>1, <2>4
<1> HIDE DEF T
<1>9. 0 .. N \subseteq T
  BY <1>1, <1>7, <1>8, InductionUpTo
<1> QED
  BY <1>1, <1>5, <1>9 DEF T

\* Every packet after the first three is a DGA name, and only those are.
LEMMA FixtureCounts ==
  ASSUME NEW model
  PROVE  /\ Sequence(Fixture(model)) /\ Len(Fixture(model)) \in Nat
         /\ ExpectedAlerts(Fixture(model)).dga = Len(Fixture(model)) - 3
<1> DEFINE v == VerifiedNames(model)
           S == {"syn", "scan", BenignName, VerifiedName} \cup ToSet(Candidates)
           fixed == <<"syn", "scan", BenignName>>
           pcap == fixed \o v
           names == {i \in DOMAIN pcap : pcap[i] \notin {"syn", "scan", BenignName}}
<1>1. v \in Seq({VerifiedName} \cup ToSet(Candidates))
  BY VerifiedNamesAreNames DEF NameLists
<1>2. v \in Seq(S) /\ Len(v) \in Nat
  <2>1. {VerifiedName} \cup ToSet(Candidates) \subseteq S
    OBVIOUS
  <2> QED
    BY <1>1, <2>1, SeqMonotonic DEF S
<1>3. \A i \in 1 .. Len(v) : v[i] \notin {"syn", "scan", BenignName}
  <2> TAKE i \in 1 .. Len(v)
  <2>1. v[i] \in {VerifiedName} \cup ToSet(Candidates)
    BY <1>1
  <2> QED
    BY <2>1, NamesAssumption
<1>4. fixed \in Seq(S) /\ Len(fixed) = 3
  OBVIOUS
<1> HIDE DEF v, S
<1>5. /\ pcap \in Seq(S) /\ Len(pcap) = 3 + Len(v) /\ DOMAIN pcap = 1 .. 3 + Len(v)
      /\ pcap[1] = "syn" /\ pcap[2] = "scan" /\ pcap[3] = BenignName
      /\ \A i \in 4 .. 3 + Len(v) : pcap[i] = v[i - 3]
  BY <1>2, <1>4
<1> HIDE DEF pcap
<1>6. names = 4 .. 3 + Len(v)
  <2>1. ASSUME NEW i \in 1 .. 3 + Len(v)
        PROVE  pcap[i] \notin {"syn", "scan", BenignName} <=> i \in 4 .. 3 + Len(v)
    <3>1. CASE i \in {1, 2, 3}
      BY <1>5, <3>1
    <3>2. CASE i \notin {1, 2, 3}
      <4>1. i \in 4 .. 3 + Len(v) /\ i - 3 \in 1 .. Len(v)
        BY <1>2, <3>2
      <4> QED
        BY <1>3, <1>5, <4>1
    <3> QED
      BY <3>1, <3>2
  <2>2. 4 .. 3 + Len(v) \subseteq 1 .. 3 + Len(v)
    BY <1>2
  <2>3. names = {i \in 1 .. 3 + Len(v) : pcap[i] \notin {"syn", "scan", BenignName}}
    BY <1>5
  <2> HIDE DEF names
  <2> QED
    BY <2>1, <2>2, <2>3
<1>7. Cardinality(names) = Len(v)
  <2>1. Cardinality(4 .. 3 + Len(v)) = IF 4 > 3 + Len(v) THEN 0 ELSE (3 + Len(v)) - 4 + 1
    <3>1. 4 \in Int /\ 3 + Len(v) \in Int
      BY <1>2
    <3> QED
      BY ONLY <3>1, FS_Interval
  <2>2. Cardinality(4 .. 3 + Len(v)) = Len(v)
    BY <1>2, <2>1
  <2> QED
    BY <1>6, <2>2
<1>8. Fixture(model) = pcap /\ ExpectedAlerts(pcap).dga = Cardinality(names)
  BY DEF Fixture, ExpectedAlerts, pcap, v
<1> QED
  BY <1>2, <1>5, <1>7, <1>8, IsSequence

\* The packets of s up to n that raise an alert when the model is d.
Raises(packet, d) == packet = "scan" \/ packet \in Flags(d)
Raising(s, n, d)  == {i \in 1 .. n : Raises(s[i], d)}

\* An alert is that of packet number n, and its latency starts there.
IsAlertOf(alert, packet, n) == alert.cause = n /\ alert.from = n /\ alert.packet = packet

\* The last packet whose alert, if any, is out.
Answered == IF phase = "emitting" THEN samples - 1 ELSE samples

\* The alerts in log answer the packets of s up to n: each is that of its cause, in order,
\* and none is missing.
AlertsAnswer(log, s, n, d) ==
  /\ Sequence(log)
  /\ \A i \in DOMAIN log :
       /\ log[i].cause \in 1 .. n /\ log[i].from = log[i].cause
       /\ log[i].packet = s[log[i].cause]
       /\ i > 1 => log[i - 1].cause < log[i].cause
  /\ Len(log) = Cardinality(Raising(s, n, d))

NothingMeasured ==
  phase \in BeforeReplay =>
    samples = 0 /\ alerts = <<>> /\ replayed = <<>>

\* The generator's answer, once it is there.
InfoIsFixture ==
  phase \in {"opening", "copying", "spawning"} \cup InReplay => \E model : info = FixtureInfo(model)

\* As long as no packet is lost, what was replayed is the front of the capture.
NoneLost ==
  phase \in InReplay /\ Len(replayed) + Len(input) = Len(info.pcap) =>
    \A i \in 1 .. Len(replayed) : replayed[i] = info.pcap[i]

AlertsAreMeasured ==
  phase \in InReplay =>
    /\ samples = Len(replayed)
    /\ phase = "emitting" => samples > 0 /\ start = samples /\ RaisesAlert(replayed[samples])
    /\ AlertsAnswer(alerts, replayed, Answered, detector)

ReportsAtEnd == (phase # "ended" => status = NoStatus) /\ ReportIsHonest

ReportInv == NothingMeasured /\ InfoIsFixture /\ NoneLost /\ AlertsAreMeasured /\ ReportsAtEnd

LEMMA ReportInitial == BenchInit => ReportInv
BY DEF BenchInit, ReportInv, NothingMeasured, InfoIsFixture, NoneLost, AlertsAreMeasured,
  ReportsAtEnd, ReportIsHonest, BeforeReplay, InReplay, NoStatus

\* The steps of the driver, and those that change neither worker nor phase.
LEMMA ReportUntouched ==
  ASSUME ReportInv, UNCHANGED <<input, replayed, detector, samples, start, alerts>>,
         \/ UNCHANGED <<phase, info, status>>
         \/ phase' = "ended" /\ status' # 0
  PROVE  ReportInv'
<1>1. CASE UNCHANGED <<phase, info, status>>
  BY <1>1 DEF ReportInv, NothingMeasured, InfoIsFixture, NoneLost, AlertsAreMeasured,
    ReportsAtEnd, ReportIsHonest, AlertsAnswer, Answered, Raising, RaisesAlert
<1>2. CASE phase' = "ended" /\ status' # 0
  BY <1>2 DEF ReportInv, NothingMeasured, InfoIsFixture, NoneLost, AlertsAreMeasured,
    ReportsAtEnd, ReportIsHonest, BeforeReplay, InReplay
<1> QED
  BY <1>1, <1>2

LEMMA RaisingIsFinite ==
  ASSUME NEW s, NEW n \in Nat, NEW d
  PROVE  IsFiniteSet(Raising(s, n, d)) /\ Cardinality(Raising(s, n, d)) \in Nat
<1>1. Raising(s, n, d) \subseteq 1 .. n
  BY DEF Raising
<1>2. IsFiniteSet(1 .. n)
  BY FS_Interval
<1>3. IsFiniteSet(Raising(s, n, d))
  BY <1>1, <1>2, FS_Subset
<1> QED
  BY <1>3, FS_CardinalityType

\* A packet that raises no alert needs no answer.
LEMMA NothingToAnswer ==
  ASSUME NEW log, NEW s, NEW n \in Nat, NEW d, AlertsAnswer(log, s, n, d),
         ~Raises(s[n + 1], d)
  PROVE  AlertsAnswer(log, s, n + 1, d)
<1>1. Raising(s, n + 1, d) = Raising(s, n, d)
  BY DEF Raising
<1>2. \A k \in 1 .. n : k \in 1 .. n + 1
  OBVIOUS
<1> QED
  BY <1>1, <1>2 DEF AlertsAnswer

\* The answers depend on the packets up to n only.
LEMMA SameAnswers ==
  ASSUME NEW log, NEW s, NEW n \in Nat, NEW d, AlertsAnswer(log, s, n, d),
         NEW s2, \A i \in 1 .. n : s2[i] = s[i]
  PROVE  AlertsAnswer(log, s2, n, d)
<1>1. Raising(s2, n, d) = Raising(s, n, d)
  BY DEF Raising
<1> QED
  BY <1>1 DEF AlertsAnswer

\* The alert of the next packet.
LEMMA NextAnswer ==
  ASSUME NEW log, NEW s, NEW n \in Nat, NEW d, AlertsAnswer(log, s, n, d),
         Raises(s[n + 1], d), NEW a, IsAlertOf(a, s[n + 1], n + 1)
  PROVE  AlertsAnswer(Append(log, a), s, n + 1, d)
<1> DEFINE log2 == Append(log, a)
<1>1. /\ Sequence(log) /\ Len(log) = Cardinality(Raising(s, n, d))
      /\ \A i \in DOMAIN log :
           /\ log[i].cause \in 1 .. n /\ log[i].from = log[i].cause
           /\ log[i].packet = s[log[i].cause]
           /\ i > 1 => log[i - 1].cause < log[i].cause
  BY DEF AlertsAnswer
<1>2. Len(log) \in Nat /\ DOMAIN log = 1 .. Len(log)
  BY <1>1 DEF Sequence
<1>3. /\ Sequence(log2) /\ Len(log2) = Len(log) + 1 /\ log2[Len(log) + 1] = a
      /\ \A i \in 1 .. Len(log) : log2[i] = log[i]
  BY <1>1, AppendSequence
<1>4. DOMAIN log2 = 1 .. Len(log) + 1
  BY <1>3 DEF Sequence
<1> HIDE DEF log2
<1>5. ASSUME NEW i \in 1 .. Len(log) + 1
      PROVE  /\ log2[i].cause \in 1 .. n + 1 /\ log2[i].from = log2[i].cause
             /\ log2[i].packet = s[log2[i].cause]
             /\ i > 1 => log2[i - 1].cause < log2[i].cause
  <2>1. PICK m \in Nat : m = Len(log)
    BY <1>2
  <2>2. i \in 1 .. m + 1 /\ (i > 1 => i - 1 \in 1 .. m)
    BY <2>1
  <2>3. i > 1 => log2[i - 1] = log[i - 1] /\ log[i - 1].cause \in 1 .. n
    BY <1>1, <1>2, <1>3, <2>1, <2>2
  <2>4. CASE i \in 1 .. m
    <3>1. log2[i] = log[i] /\ log[i].cause \in 1 .. n /\ n \in Nat
      BY <1>1, <1>2, <1>3, <2>1, <2>4
    <3>2. log[i].cause \in 1 .. n + 1
      BY <3>1
    <3> QED
      BY <1>1, <1>2, <2>1, <2>3, <2>4, <3>1, <3>2
  <2>5. CASE i = m + 1
    <3>1. log2[i] = a
      BY <1>3, <2>1, <2>5
    <3>2. i > 1 => log2[i - 1].cause \in 1 .. n
      BY <2>3
    <3> QED
      BY <3>1, <3>2 DEF IsAlertOf
  <2> QED
    BY <2>2, <2>4, <2>5
<1>6. Len(log2) = Cardinality(Raising(s, n + 1, d))
  <2>1. Raising(s, n + 1, d) = Raising(s, n, d) \cup {n + 1} /\ n + 1 \notin Raising(s, n, d)
    BY DEF Raising
  <2> QED
    BY <1>1, <1>3, <2>1, RaisingIsFinite, FS_AddElement
<1> QED
  BY <1>3, <1>4, <1>5, <1>6 DEF AlertsAnswer, log2

LEMMA WorkerStarts ==
  ASSUME ReplayInv, ReportInv, StartWorker
  PROVE  ReportInv'
<1>1. CASE phase' = "ended"
  <2>1. status' = 1 /\ UNCHANGED <<input, replayed, detector, samples, start, alerts>>
    BY <1>1 DEF StartWorker, End, Go
  <2> QED
    BY <1>1, <2>1, ReportUntouched
<1>2. CASE phase' # "ended"
  <2>1. /\ phase = "spawning" /\ phase' = "replaying"
        /\ UNCHANGED <<info, replayed, samples, start, alerts, status>>
    BY <1>2 DEF StartWorker, Go, End, DriverIdle
  <2>2. samples = 0 /\ alerts = <<>> /\ replayed = <<>>
    BY <2>1 DEF ReportInv, NothingMeasured, BeforeReplay
  <2>3. Raising(replayed', 0, detector') = {}
    BY DEF Raising
  <2>4. AlertsAnswer(alerts', replayed', 0, detector')
    BY <2>1, <2>2, <2>3, EmptySequence, FS_EmptySet DEF AlertsAnswer
  <2>5. Answered' = 0 /\ Len(replayed') = 0
    BY <2>1, <2>2 DEF Answered
  <2>6. AlertsAreMeasured'
    BY <2>1, <2>2, <2>4, <2>5 DEF AlertsAreMeasured
  <2>7. NoneLost' /\ NothingMeasured' /\ InfoIsFixture' /\ ReportsAtEnd'
    BY <2>1, <2>5 DEF ReportInv, NoneLost, NothingMeasured, InfoIsFixture, ReportsAtEnd,
      ReportIsHonest, BeforeReplay, InReplay, NoStatus
  <2> QED
    BY <2>6, <2>7 DEF ReportInv
<1> QED
  BY <1>1, <1>2

LEMMA EventIsProcessed ==
  ASSUME ReplayInv, ReportInv, ProcessEvent
  PROVE  ReportInv'
<1> DEFINE e == Head(input)
<1>1. /\ phase = "replaying" /\ phase' \in InReplay /\ input # <<>> /\ input' = Tail(input)
      /\ replayed' = Append(replayed, e)
      /\ samples' = samples + 1 /\ start' = samples + 1
      /\ phase' = (IF RaisesAlert(e) THEN "emitting" ELSE "replaying")
      /\ UNCHANGED <<info, detector, alerts, status>>
  BY DEF ProcessEvent, PendingStart, Go, DriverIdle, InReplay
<1>2. /\ Sequence(info.pcap) /\ Sequence(input) /\ Sequence(replayed)
      /\ Len(replayed) + Len(input) <= Len(info.pcap)
      /\ \A i \in DOMAIN input : input[i] = info.pcap[Len(info.pcap) - Len(input) + i]
  BY <1>1 DEF ReplayInv, ReplayIsTyped, ReplayedIsValidated, InReplay
<1>3. samples = Len(replayed) /\ AlertsAnswer(alerts, replayed, Len(replayed), detector)
  BY <1>1 DEF ReportInv, AlertsAreMeasured, Answered, InReplay
<1>0. PICK n : n = Len(replayed)
  OBVIOUS
<1>4. n \in Nat /\ Len(info.pcap) \in Nat /\ Len(input) \in Nat \ {0} /\ 1 \in DOMAIN input
  <2>1. n \in Nat /\ Len(info.pcap) \in Nat
    BY <1>0, <1>2 DEF Sequence
  <2>2. Len(input) \in Nat \ {0} /\ DOMAIN input = 1 .. Len(input)
    BY <1>1, <1>2 DEF Sequence
  <2> QED
    BY <2>1, <2>2
<1>5. /\ Sequence(replayed') /\ Len(replayed') = n + 1 /\ replayed'[n + 1] = e
      /\ \A i \in 1 .. n : replayed'[i] = replayed[i]
  <2>1. Sequence(replayed') /\ Len(replayed') = n + 1
    BY <1>0, <1>1, <1>2, AppendSequence
  <2> QED
    BY <1>0, <1>1, <1>2, <2>1, AppendSequence
<1>6. Len(input') = Len(input) - 1
  BY <1>1, <1>2, TailSequence
<1>7. e = input[1]
  BY <1>1, <1>2 DEF Sequence
<1> HIDE DEF e
<1>8. NoneLost'
  <2> SUFFICES ASSUME Len(replayed') + Len(input') = Len(info'.pcap)
               PROVE  \A i \in 1 .. Len(replayed') : replayed'[i] = info'.pcap[i]
    BY DEF NoneLost
  <2>1. n + Len(input) = Len(info.pcap) /\ Len(info.pcap) - Len(input) + 1 = n + 1
    <3>1. Len(replayed') + Len(input') = Len(info.pcap)
      BY <1>1
    <3>2. (n + 1) + (Len(input) - 1) = Len(info.pcap)
      BY <1>5, <1>6, <3>1
    <3> QED
      BY <1>4, <3>2
  <2>2. \A i \in 1 .. n : replayed[i] = info.pcap[i]
    BY <1>0, <1>1, <2>1 DEF ReportInv, NoneLost, InReplay
  <2>3. e = info.pcap[n + 1]
    BY <1>2, <1>4, <1>7, <2>1
  <2>4. ASSUME NEW i \in 1 .. n + 1 PROVE replayed'[i] = info.pcap[i]
    <3>1. i \in 1 .. n \/ i = n + 1
      BY <1>4
    <3> QED
      BY <1>5, <2>2, <2>3, <3>1
  <2> QED
    BY <1>1, <1>5, <2>4
<1>9. AlertsAnswer(alerts', replayed', n, detector')
  BY <1>0, <1>1, <1>3, <1>4, <1>5, SameAnswers
<1>11. AlertsAreMeasured'
  <2>1. samples' = Len(replayed') /\ samples' = n + 1
    BY <1>0, <1>1, <1>3, <1>5
  <2>2. CASE RaisesAlert(e)
    <3>1. phase' = "emitting" /\ Answered' = n
      <4>1. phase' = "emitting"
        BY <1>1, <2>2
      <4>2. Answered' = samples' - 1
        BY <4>1 DEF Answered
      <4> QED
        BY <1>4, <2>1, <4>1, <4>2
    <3>2. samples' > 0 /\ start' = samples' /\ RaisesAlert(replayed[samples])'
      BY <1>1, <1>4, <1>5, <2>1, <2>2 DEF RaisesAlert
    <3> QED
      BY <1>9, <2>1, <3>1, <3>2 DEF AlertsAreMeasured
  <2>3. CASE ~RaisesAlert(e)
    <3>1. phase' = "replaying" /\ Answered' = n + 1
      BY <1>1, <1>4, <2>1, <2>3 DEF Answered
    <3>2. AlertsAnswer(alerts', replayed', n + 1, detector')
      BY <1>1, <1>4, <1>5, <1>9, <2>3, NothingToAnswer DEF RaisesAlert, Raises
    <3> QED
      BY <2>1, <3>1, <3>2 DEF AlertsAreMeasured
  <2> QED
    BY <2>2, <2>3
<1>12. NothingMeasured' /\ InfoIsFixture' /\ ReportsAtEnd'
  BY <1>1 DEF ReportInv, NothingMeasured, InfoIsFixture, ReportsAtEnd, ReportIsHonest,
    BeforeReplay, InReplay, NoStatus
<1> QED
  BY <1>8, <1>11, <1>12 DEF ReportInv

LEMMA PacketIsLost ==
  ASSUME ReplayInv, ReportInv, LosePacket
  PROVE  ReportInv'
<1>1. /\ phase = "replaying" /\ input # <<>> /\ input' = Tail(input)
      /\ UNCHANGED <<phase, info, replayed, detector, samples, start, alerts, status>>
  BY DEF LosePacket, DriverIdle
<1>2. /\ Sequence(info.pcap) /\ Sequence(input) /\ Sequence(replayed)
      /\ Len(replayed) + Len(input) <= Len(info.pcap)
  BY <1>1 DEF ReplayInv, ReplayIsTyped, ReplayedIsValidated, InReplay
<1>3. Len(input') = Len(input) - 1
  BY <1>1, <1>2, TailSequence
<1>4. Len(replayed') + Len(input') # Len(info'.pcap)
  <2>1. Len(replayed) \in Nat /\ Len(input) \in Nat /\ Len(info.pcap) \in Nat
    BY <1>2 DEF Sequence
  <2> QED
    BY <1>1, <1>2, <1>3, <2>1
<1>5. NoneLost'
  BY <1>4 DEF NoneLost
<1>6. AlertsAreMeasured'
  BY <1>1 DEF ReportInv, AlertsAreMeasured, AlertsAnswer, Answered, Raising, RaisesAlert, InReplay
<1>7. NothingMeasured' /\ InfoIsFixture' /\ ReportsAtEnd'
  BY <1>1 DEF ReportInv, NothingMeasured, InfoIsFixture, ReportsAtEnd, ReportIsHonest,
    BeforeReplay, InReplay, NoStatus
<1> QED
  BY <1>5, <1>6, <1>7 DEF ReportInv

LEMMA AlertIsEmitted ==
  ASSUME ReplayInv, ReportInv, EmitAlert
  PROVE  ReportInv'
<1> DEFINE a == [packet |-> Last(replayed), cause |-> samples, from |-> start]
<1>1. /\ phase = "emitting" /\ phase' = "replaying" /\ alerts' = Append(alerts, a)
      /\ UNCHANGED <<info, input, replayed, detector, samples, start, status>>
  BY DEF EmitAlert, Go, DriverIdle
<1>2. Sequence(replayed)
  BY <1>1 DEF ReplayInv, ReplayIsTyped, InReplay
<1>3. /\ samples = Len(replayed) /\ samples > 0 /\ start = samples
      /\ RaisesAlert(replayed[samples])
      /\ AlertsAnswer(alerts, replayed, samples - 1, detector)
  BY <1>1 DEF ReportInv, AlertsAreMeasured, Answered, InReplay
<1>4. PICK n : n = samples - 1
  OBVIOUS
<1>5. n \in Nat /\ samples = n + 1
  <2>1. Len(replayed) \in Nat
    BY <1>2 DEF Sequence
  <2> QED
    BY <1>3, <1>4, <2>1
<1>6. IsAlertOf(a, replayed[n + 1], n + 1)
  BY <1>3, <1>5 DEF IsAlertOf, Last
<1> HIDE DEF a
<1>7. AlertsAnswer(alerts', replayed', n + 1, detector')
  <2>1. Raises(replayed[n + 1], detector)
    BY <1>3, <1>5 DEF RaisesAlert, Raises
  <2>2. AlertsAnswer(alerts, replayed, n, detector)
    BY <1>3, <1>4
  <2> QED
    BY <1>1, <1>5, <1>6, <2>1, <2>2, NextAnswer
<1>8. AlertsAreMeasured'
  <2>1. samples' = Len(replayed') /\ Answered' = n + 1 /\ phase' # "emitting"
    BY <1>1, <1>3, <1>5 DEF Answered
  <2> QED
    BY <1>7, <2>1 DEF AlertsAreMeasured
<1>9. NoneLost' /\ NothingMeasured' /\ InfoIsFixture' /\ ReportsAtEnd'
  BY <1>1 DEF ReportInv, NoneLost, NothingMeasured, InfoIsFixture, ReportsAtEnd, ReportIsHonest,
    BeforeReplay, InReplay, NoStatus
<1> QED
  BY <1>8, <1>9 DEF ReportInv

LEMMA ReportIsMade ==
  ASSUME ReplayInv, ReportInv, Report
  PROVE  ReportInv'
<1>1. /\ phase = "replaying" /\ input = <<>> /\ phase' = "ended"
      /\ UNCHANGED <<info, input, replayed, detector, samples, start, alerts>>
      /\ status' = (IF samples > 0 /\ Verified THEN 0 ELSE 1)
  BY DEF Report, End, DriverIdle, WorkerIdle, workerVars
<1>2. CASE ~Verified \/ ~(samples > 0)
  BY <1>1, <1>2, ReportUntouched
<1>3. CASE Verified /\ samples > 0
  <2>1. PICK model : info = FixtureInfo(model)
    BY <1>1 DEF ReportInv, InfoIsFixture, InReplay
  <2> DEFINE pcap == Fixture(model)
  <2>2. info.pcap = pcap /\ info.events = Len(pcap) /\ info.byClass = ExpectedAlerts(pcap)
    BY <2>1 DEF FixtureInfo
  <2>3. Sequence(pcap) /\ Len(pcap) \in Nat /\ ExpectedAlerts(pcap).dga = Len(pcap) - 3
    BY FixtureCounts
  <2>4. ExpectedAlerts(pcap).scan = 1
    BY DEF ExpectedAlerts
  <2> HIDE DEF pcap
  <2>5. samples = Len(pcap) /\ AlertsByClass = ExpectedAlerts(pcap)
    BY <1>3, <2>2 DEF Verified
  <2>6. samples = Len(replayed) /\ AlertsAnswer(alerts, replayed, samples, detector)
    BY <1>1 DEF ReportInv, AlertsAreMeasured, Answered, InReplay
  <2>7. Sequence(replayed) /\ Len(input) = 0
    BY <1>1 DEF ReplayInv, ReplayIsTyped, InReplay
  <2>8. replayed = pcap
    <3>1. Len(replayed) + Len(input) = Len(info.pcap)
      BY <2>2, <2>3, <2>5, <2>6, <2>7
    <3>2. \A i \in 1 .. Len(replayed) : replayed[i] = pcap[i]
      BY <1>1, <2>2, <3>1 DEF ReportInv, NoneLost, InReplay
    <3>3. /\ replayed = [i \in 1 .. Len(replayed) |-> replayed[i]]
          /\ pcap = [i \in 1 .. Len(pcap) |-> pcap[i]]
      BY <2>3, <2>7 DEF Sequence
    <3> QED
      BY <2>5, <2>6, <3>2, <3>3
  <2>9. Len(alerts) = Len(pcap) - 2
    <3>1. Len(alerts) \in Nat
      BY <2>6 DEF AlertsAnswer, Sequence
    <3>2. AlertsByClass.dga = Len(alerts) - AlertsByClass.scan
      BY DEF AlertsByClass
    <3> QED
      BY <2>3, <2>4, <2>5, <3>1, <3>2
  <2>10. Len(alerts) = Cardinality({i \in DOMAIN replayed : RaisesAlert(replayed[i])})
    <3>1. DOMAIN replayed = 1 .. samples
      BY <2>6, <2>7 DEF Sequence
    <3> QED
      BY <2>6, <3>1 DEF AlertsAnswer, Raising, Raises, RaisesAlert
  <2>11. ReportIsHonest'
    <3>1. \A i \in DOMAIN alerts :
             /\ alerts[i].from = alerts[i].cause /\ alerts[i].packet = replayed[alerts[i].cause]
             /\ i > 1 => alerts[i - 1].cause < alerts[i].cause
      BY <2>6 DEF AlertsAnswer
    <3> QED
      BY <1>1, <2>2, <2>5, <2>8, <2>9, <2>10, <3>1 DEF ReportIsHonest, RaisesAlert
  <2> QED
    BY <1>1, <2>11 DEF ReportInv, NothingMeasured, InfoIsFixture, NoneLost, AlertsAreMeasured,
      ReportsAtEnd, BeforeReplay, InReplay
<1> QED
  BY <1>2, <1>3

LEMMA ReportStep ==
  ASSUME ReplayInv, ReportInv, Progress \/ DrainSink \/ Environment
  PROVE  ReportInv'
<1>1. CASE Begins \/ Generate \/ Open \/ CopyPacket \/ Validate
  <2>1. /\ phase \in BeforeReplay /\ UNCHANGED <<input, replayed, detector, samples, start, alerts>>
        /\ \/ phase' \in BeforeReplay /\ status' = status
           \/ phase' = "ended" /\ status' = 2
    BY <1>1 DEF Begins, Generate, Open, CopyPacket, Validate, End, Go, WorkerIdle, workerVars,
      BeforeReplay
  <2>2. CASE phase' = "ended" /\ status' = 2
    BY <2>1, <2>2, ReportUntouched
  <2>3. CASE phase' \in BeforeReplay /\ status' = status
    <3>1. InfoIsFixture'
      BY <1>1, <2>3 DEF ReportInv, InfoIsFixture, Begins, Generate, Open, CopyPacket, Validate,
        End, Go, DriverIdle, BeforeReplay, InReplay
    <3>2. NothingMeasured' /\ NoneLost' /\ AlertsAreMeasured' /\ ReportsAtEnd'
      BY <2>1, <2>3 DEF ReportInv, NothingMeasured, NoneLost, AlertsAreMeasured, ReportsAtEnd,
        ReportIsHonest, BeforeReplay, InReplay, NoStatus
    <3> QED
      BY <3>1, <3>2 DEF ReportInv
  <2> QED
    BY <2>1, <2>2, <2>3
<1>2. CASE StartWorker
  BY <1>2, WorkerStarts
<1>3. CASE ProcessEvent
  BY <1>3, EventIsProcessed
<1>4. CASE LosePacket
  BY <1>4, PacketIsLost
<1>5. CASE EmitAlert
  BY <1>5, AlertIsEmitted
<1>6. CASE Report
  BY <1>6, ReportIsMade
<1>7. CASE TooManyEvents \/ Fails
  BY <1>7, ReportUntouched DEF TooManyEvents, Fails, End, WorkerIdle, workerVars
<1>8. CASE DrainSink \/ Replace \/ Rewrite
  BY <1>8, ReportUntouched DEF DrainSink, Replace, Rewrite, WorkerIdle, workerVars
<1> QED
  BY <1>1, <1>2, <1>3, <1>4, <1>5, <1>6, <1>7, <1>8 DEF Progress, Environment

\* A benchmark that reports success has replayed every packet of the fixture that
\* the generator produced, whatever became of the candidate and whichever model
\* the worker loaded; every latency starts with the event that caused the alert,
\* and no alert of a replayed packet is missing.
THEOREM ReportsAreHonest == Spec => []ReportIsHonest
<1>1. Init => ReplayInv /\ ReportInv
  BY ReplayInitial, ReportInitial DEF Init
<1>2. ReplayInv /\ ReportInv /\ [Next]_vars => ReplayInv' /\ ReportInv'
  <2> SUFFICES ASSUME ReplayInv, ReportInv, [Next]_vars PROVE ReplayInv' /\ ReportInv'
    OBVIOUS
  <2>1. CASE Progress \/ DrainSink \/ Environment
    BY <2>1, ReplayStep, ReportStep
  <2>2. CASE UNCHANGED benchVars
    BY <2>2, ReplayUntouched, ReportUntouched DEF benchVars, pathVars, workerVars
  <2> QED
    BY <2>1, <2>2 DEF Next, vars
<1>3. ReportInv => ReportIsHonest
  BY DEF ReportInv, ReportsAtEnd
<1>4. QED  BY <1>1, <1>2, <1>3, PTL DEF Spec

=============================================================================
