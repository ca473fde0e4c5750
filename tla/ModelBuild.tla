----------------------------- MODULE ModelBuild -----------------------------
(***************************************************************************)
(* How the packaged DGA model comes about.  prepare_dns_dataset.py selects  *)
(* labelled names from a snapshot of its sources and writes a dataset and   *)
(* then its manifest; train_dga_model.py reads both, splits the rows, fits, *)
(* and writes an artifact and then its metadata; DgaModel.load accepts an   *)
(* artifact only with the metadata that describes it.                       *)
(*                                                                          *)
(* The tools run one at a time and may be killed between any two writes; a  *)
(* file that is being written is cut short.  The hash of a file is its      *)
(* content, and a fitted model is the rows it was fitted on.                *)
(***************************************************************************)
EXTENDS Naturals, FiniteSets, SequencesExt

CONSTANTS
  Snapshots,        \* [benign : lines, dga : sequence of [family, lines]]
  Packaged,         \* the snapshot behind the model in the repository
  BenignLimit, FamilyLimit, \* benign_limit, per_family_limit
  TestBenign,       \* the names for which _benign_is_test is true
  ShuffledFamilies, \* the families, in the order the fixed seed gives them
  MaxRuns           \* bound: runs of the two tools

VARIABLES
  dataset,  \* the rows of the dataset file; a missing file has none
  manifest, artifact, metadata, \* records; Unreadable if missing or cut short
  tool,     \* what the running tool does next, or "idle"
  job,      \* what it has computed
  runs

buildVars == <<dataset, manifest, artifact, metadata, tool, job, runs>>

Unreadable == [readable |-> FALSE]
NoJob      == [computed |-> FALSE]

-----------------------------------------------------------------------------
(* Selection.  A line is a name, as normalize_dns_name returns it, "invalid" *)
(* for what it refuses, or "unreadable": too long or not UTF-8.             *)

NoSelection == [rows |-> <<>>, taken |-> 0, counts |-> [label \in 0..1 |-> 0],
                families |-> <<>>, duplicates |-> 0, invalid |-> 0, failed |-> FALSE]

LabelsOf(rows, name) == {rows[i].label : i \in {j \in DOMAIN rows : rows[j].name = name}}

\* One turn of a reading loop.  The loop ends when its limit is reached.
Take(s, line, label, family, limit) ==
  IF s.failed \/ s.taken = limit THEN s
  ELSE CASE line = "unreadable" -> [s EXCEPT !.failed = TRUE]
         [] line = "invalid" -> [s EXCEPT !.invalid = @ + 1]
         [] LabelsOf(s.rows, line) = {1 - label} -> [s EXCEPT !.failed = TRUE]
         [] LabelsOf(s.rows, line) = {label} -> [s EXCEPT !.duplicates = @ + 1]
         [] OTHER -> [s EXCEPT !.rows = Append(@, [name |-> line, label |-> label,
                                                   family |-> family]),
                               !.taken = @ + 1, !.counts[label] = @ + 1]

TakeLines(s, lines, label, family, limit) ==
  LET after[i \in 0 .. Len(lines)] ==
        IF i = 0 THEN [s EXCEPT !.taken = 0]
        ELSE Take(after[i - 1], lines[i], label, family, limit)
  IN  after[Len(lines)]

\* A family whose file is missing or has no new valid name ends the run.
TakeFamily(s, source) ==
  LET t == TakeLines(s, source.lines, 1, source.family, FamilyLimit)
  IN  IF s.failed THEN s
      ELSE [t EXCEPT !.failed = @ \/ t.taken = 0,
                     !.families = Append(@, [family |-> source.family, rows |-> t.taken])]

Select(snapshot) ==
  LET after[i \in 0 .. Len(snapshot.dga)] ==
        IF i = 0 THEN TakeLines(NoSelection, snapshot.benign, 0, "benign", BenignLimit)
        ELSE TakeFamily(after[i - 1], snapshot.dga[i])
  IN  after[Len(snapshot.dga)]

\* The families of DEFAULT_DGA_FILES are distinct, and none is "benign".
ASSUME SnapshotsAssumption ==
  \A s \in Snapshots \cup {Packaged} :
    /\ s.benign \in Seq(ToSet(s.benign)) /\ s.dga \in Seq(ToSet(s.dga))
    /\ \A i, j \in DOMAIN s.dga :
         /\ s.dga[i].lines \in Seq(ToSet(s.dga[i].lines)) /\ s.dga[i].family # "benign"
         /\ s.dga[i].family = s.dga[j].family => i = j

Manifest(s, file) == [dataset |-> file, counts |-> s.counts, families |-> s.families,
                      duplicates |-> s.duplicates, invalid |-> s.invalid]

-----------------------------------------------------------------------------
(* Training. *)

NamesIn(rows)    == {rows[i].name : i \in DOMAIN rows}
LabelsIn(rows)   == {rows[i].label : i \in DOMAIN rows}
FamiliesIn(rows) == {rows[i].family : i \in {j \in DOMAIN rows : rows[j].label = 1}}
CountOf(rows, label) == Cardinality({i \in DOMAIN rows : rows[i].label = label})

\* load_rows refuses an empty file and a name that comes twice.
IsDataset(rows) == rows # <<>> /\ Cardinality(NamesIn(rows)) = Len(rows)

\* max(1, round(n * 0.25)), where round takes a half to the even neighbour.
TestFamilyCount(n) ==
  LET up == CASE n % 4 < 2 -> 0 [] n % 4 = 2 -> (n \div 4) % 2 [] n % 4 = 3 -> 1
  IN  IF n \div 4 + up = 0 THEN 1 ELSE n \div 4 + up

TestFamilies(rows) ==
  LET order == SelectSeq(ShuffledFamilies, LAMBDA f : f \in FamiliesIn(rows))
  IN  ToSet(SubSeq(order, 1, TestFamilyCount(Len(order))))

\* Faulty: every name is put in its part by its hash.
InTestByHash(row, rows) == row.name \in TestBenign

\* DGA rows go by whole family, benign rows by the hash of the name.
InTest(row, rows) ==
  IF row.label = 1 THEN row.family \in TestFamilies(rows) ELSE row.name \in TestBenign

RowsAt(rows, places) ==
  LET kept[i \in 0 .. Len(rows)] ==
        IF i = 0 THEN <<>>
        ELSE IF i \in places THEN Append(kept[i - 1], rows[i]) ELSE kept[i - 1]
  IN  kept[Len(rows)]

Split(rows) ==
  LET tests == {i \in DOMAIN rows : InTest(rows[i], rows)}
  IN  [train |-> RowsAt(rows, DOMAIN rows \ tests), test |-> RowsAt(rows, tests)]

CanSplit(rows) ==
  /\ Cardinality(FamiliesIn(rows)) >= 2
  /\ LabelsIn(Split(rows).train) = {0, 1} /\ LabelsIn(Split(rows).test) = {0, 1}

\* The model in the repository has been trained on its snapshot.
ASSUME PackagedAssumption ==
  ~Select(Packaged).failed /\ CanSplit(Select(Packaged).rows)

Fit(rows) == [fittedOn |-> rows]

\* What train_and_export writes about manifest m, split s and artifact file a.
Metadata(m, s, a) ==
  [dataset |-> m, artifact |-> a,
   train |-> [label \in 0..1 |-> CountOf(s.train, label)],
   test  |-> [label \in 0..1 |-> CountOf(s.test, label)],
   familyOverlap |-> FamiliesIn(s.train) \cap FamiliesIn(s.test),
   nameOverlap   |-> Cardinality(NamesIn(s.train) \cap NamesIn(s.test))]

-----------------------------------------------------------------------------
\* The repository has the model of the packaged snapshot, and no dataset.
BuildInit ==
  LET s == Select(Packaged)
  IN  /\ dataset = <<>> /\ manifest = Unreadable
      /\ artifact = Fit(Split(s.rows).train)
      /\ metadata = Metadata(Manifest(s, s.rows), Split(s.rows), artifact)
      /\ tool = "idle" /\ job = NoJob /\ runs = 0

Begin == tool = "idle" /\ runs < MaxRuns /\ runs' = runs + 1

\* Every source is read before the dataset is opened, which truncates it.
PrepareFails ==
  /\ Begin
  /\ \E snapshot \in Snapshots : Select(snapshot).failed
  /\ UNCHANGED <<dataset, manifest, artifact, metadata, tool, job>>

OpenDataset ==
  /\ Begin
  /\ \E snapshot \in Snapshots :
       /\ ~Select(snapshot).failed
       /\ job' = Select(snapshot)
       /\ \E n \in 0 .. Len(job'.rows) - 1 : dataset' = SubSeq(job'.rows, 1, n)
  /\ tool' = "writing_dataset"
  /\ UNCHANGED <<manifest, artifact, metadata>>

WriteDataset ==
  /\ tool = "writing_dataset"
  /\ dataset' = job.rows
  /\ tool' = "opening_manifest"
  /\ UNCHANGED <<manifest, artifact, metadata, job, runs>>

OpenManifest ==
  /\ tool = "opening_manifest"
  /\ manifest' = Unreadable
  /\ tool' = "writing_manifest"
  /\ UNCHANGED <<dataset, artifact, metadata, job, runs>>

WriteManifest ==
  /\ tool = "writing_manifest"
  /\ manifest' = Manifest(job, dataset)
  /\ tool' = "idle" /\ job' = NoJob
  /\ UNCHANGED <<dataset, artifact, metadata, runs>>

\* Faulty: any manifest will do.
ManifestIsReadable == manifest # Unreadable

ManifestMatches == manifest # Unreadable /\ manifest.dataset = dataset

CanTrain == ManifestMatches /\ IsDataset(dataset) /\ CanSplit(dataset)

TrainFails ==
  /\ Begin /\ ~CanTrain
  /\ UNCHANGED <<dataset, manifest, artifact, metadata, tool, job>>

\* The model is fitted; dump then truncates the artifact.
OpenArtifact ==
  /\ Begin /\ CanTrain
  /\ job' = [manifest |-> manifest, split |-> Split(dataset)]
  /\ artifact' = Unreadable
  /\ tool' = "writing_artifact"
  /\ UNCHANGED <<dataset, manifest, metadata>>

WriteArtifact ==
  /\ tool = "writing_artifact"
  /\ artifact' = Fit(job.split.train)
  /\ tool' = "opening_metadata"
  /\ UNCHANGED <<dataset, manifest, metadata, job, runs>>

OpenMetadata ==
  /\ tool = "opening_metadata"
  /\ metadata' = Unreadable
  /\ tool' = "writing_metadata"
  /\ UNCHANGED <<dataset, manifest, artifact, job, runs>>

WriteMetadata ==
  /\ tool = "writing_metadata"
  /\ metadata' = Metadata(job.manifest, job.split, artifact)
  /\ tool' = "idle" /\ job' = NoJob
  /\ UNCHANGED <<dataset, manifest, artifact, runs>>

\* The running tool is killed, or a write fails; the files stay as they are.
Killed ==
  /\ tool # "idle"
  /\ tool' = "idle" /\ job' = NoJob
  /\ UNCHANGED <<dataset, manifest, artifact, metadata, runs>>

BuildNext ==
  \/ PrepareFails \/ OpenDataset \/ WriteDataset \/ OpenManifest \/ WriteManifest
  \/ TrainFails \/ OpenArtifact \/ WriteArtifact \/ OpenMetadata \/ WriteMetadata
  \/ Killed

\* DgaModel.load accepts the two files: the metadata has the artifact's hash.
Loads == metadata # Unreadable /\ artifact # Unreadable /\ metadata.artifact = artifact

-----------------------------------------------------------------------------
\* However the tools were killed and run again, a model that loads is the one
\* fitted on the training part of the dataset that its metadata names.
LoadedModelIsAccountedFor ==
  Loads => artifact = Fit(Split(metadata.dataset.dataset).train)

\* What a readable metadata file says of its dataset is true, and its split uses
\* each row once and keeps every family and every name to one part, so that the
\* evaluation is of names and families the model has not seen.
MetadataIsTrue ==
  metadata # Unreadable =>
    LET m == metadata.dataset
    IN  /\ \A label \in 0..1 :
             /\ m.counts[label] = CountOf(m.dataset, label)
             /\ metadata.train[label] > 0 /\ metadata.test[label] > 0
             /\ metadata.train[label] + metadata.test[label] = m.counts[label]
        /\ \A i \in DOMAIN m.families :
             m.families[i].rows =
               Cardinality({j \in DOMAIN m.dataset :
                              m.dataset[j].family = m.families[i].family})
        /\ metadata.familyOverlap = {} /\ metadata.nameOverlap = 0
=============================================================================
