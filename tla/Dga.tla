-------------------------------- MODULE Dga --------------------------------
(***************************************************************************)
(* DgaDetector.process (detection/dga.py) and what the alert contract       *)
(* (contracts/alerts.py) demands of its alerts.  The detector keeps no      *)
(* state; a probability is in hundredths.  process is given the name that   *)
(* the event contract has normalized and the probability that the model     *)
(* has for it.                                                              *)
(***************************************************************************)
EXTENDS DnsName

CONSTANTS
  RawName,      \* query names as Zeek reports them
  Probability,  \* what the model may return, of 0..100
  Threshold     \* the model's decision_threshold

ASSUME DgaConstants ==
  /\ RawName \subseteq Seq(Char)
  /\ Threshold \in 1..99
  /\ Probability \subseteq 0..100

\* Faulty: the bounds of the severities are exclusive.
SeverityAbove(p) ==
  CASE p <= 85 -> "MEDIUM" [] p > 85 /\ p <= 95 -> "HIGH" [] p > 95 -> "CRITICAL"

Severity(p) ==
  CASE p < 85 -> "MEDIUM" [] p \in 85..94 -> "HIGH" [] p >= 95 -> "CRITICAL"

\* The names of the events that DnsEventV1 makes of the queries it does not refuse.
EventName == {Normalized(v) : v \in {r \in RawName : IsName(r)}}

Reports(p) == p >= Threshold

\* Its times are all that of the event, and are left out.
DgaAlert(name, p) ==
  [kind |-> "dga", query_name |-> name, dga_probability |-> p, features |-> Features(name),
   confidence |-> p, severity |-> Severity(p)]

-----------------------------------------------------------------------------
\* DgaLexicalEvidence: the ranges of its fields.
FeaturesInRange(f) ==
  /\ f.domain_length > 0 /\ f.label_count > 0 /\ f.longest_label > 0
  /\ {f.digits, f.hyphens, f.vowels} \subseteq 0 .. f.domain_length
  /\ f.unique_chars \in 1 .. f.domain_length
  /\ f.unique_bigrams \in 0 .. f.bigrams

\* DgaEvidence: a name that is normalized already, and features that are those
\* that the contract extracts from it once more.
ValidEvidence(a) ==
  /\ Len(a.query_name) \in 1..MaxName
  /\ IsName(a.query_name) /\ Normalized(a.query_name) = a.query_name
  /\ a.dga_probability >= Threshold
  /\ FeaturesInRange(a.features) /\ a.features = Features(a.query_name)

\* AlertV1.validate_evidence_consistency, for a DGA alert.
ValidAlert(a) ==
  /\ a.confidence = a.dga_probability
  /\ a.severity = IF a.confidence >= 95 THEN "CRITICAL"
                  ELSE IF a.confidence >= 85 THEN "HIGH" ELSE "MEDIUM"
  /\ ValidEvidence(a)
=============================================================================
