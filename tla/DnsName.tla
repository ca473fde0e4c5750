------------------------------ MODULE DnsName ------------------------------
(***************************************************************************)
(* Query names: their normalization (contracts/events.py) and the lexical   *)
(* features that the DGA model and its alerts are given (ml/dns_features.py)*)
(* A name is a sequence of characters; a few stand for each class that the  *)
(* code tells apart, and "_" for every character it refuses.  A ratio of    *)
(* the code is kept as its numerator, over the length or the count of       *)
(* bigrams; entropy and hashed n-grams are left out.                        *)
(***************************************************************************)
EXTENDS Integers, SequencesExt

CONSTANTS
  MaxName,  \* 253, and a query may have one more, the final dot
  MaxLabel  \* 63

ASSUME NameConstants == {MaxName, MaxLabel} \subseteq Nat \ {0}

Vowel     == {"a"}
Consonant == {"b"}
Digit     == {"1"}
Alnum     == Vowel \cup Consonant \cup Digit
Char      == Alnum \cup {"B", "-", ".", "_"}

Lower(c) == IF c = "B" THEN "b" ELSE c

-----------------------------------------------------------------------------
WithoutFinalDot(v) == IF v # <<>> /\ Last(v) = "." THEN Front(v) ELSE v

Normalized(v) == [i \in DOMAIN WithoutFinalDot(v) |-> Lower(v[i])]

\* split("."): the pieces between the dots, the empty ones too, cut one character
\* after the other.
Labels(n) ==
  LET cut[i \in 0 .. Len(n)] ==
        IF i = 0 THEN << <<>> >>
        ELSE IF n[i] = "." THEN Append(cut[i - 1], <<>>)
        ELSE [cut[i - 1] EXCEPT ![Len(cut[i - 1])] = Append(@, n[i])]
  IN  cut[Len(n)]

\* Faulty: an empty label is let through.
IsLabelOrEmpty(l) ==
  /\ Len(l) <= MaxLabel
  /\ l # <<>> => {Head(l), Last(l)} \subseteq Alnum
  /\ ToSet(l) \subseteq Alnum \cup {"-"}

IsLabel(l) ==
  /\ Len(l) \in 1..MaxLabel
  /\ {Head(l), Last(l)} \subseteq Alnum
  /\ ToSet(l) \subseteq Alnum \cup {"-"}

\* normalize_dns_name returns, and does not raise.
IsName(v) ==
  /\ Len(Normalized(v)) \in 1..MaxName
  /\ \A l \in ToSet(Labels(Normalized(v))) : IsLabel(l)

-----------------------------------------------------------------------------
\* The loops of _longest_run: over the characters of a label, from the longest run
\* so far, and over the labels.
RunStep(S, run, c) ==
  IF c \in S
  THEN [current |-> run.current + 1, longest |-> Max({run.longest, run.current + 1})]
  ELSE [run EXCEPT !.current = 0]

RunAfter(label, S, longest) ==
  LET run[i \in 0 .. Len(label)] ==
        IF i = 0 THEN [current |-> 0, longest |-> longest]
        ELSE RunStep(S, run[i - 1], label[i])
  IN  run[Len(label)].longest

\* Faulty: a run goes on from one label to the next.
RunAcrossLabels(labels, S) == RunAfter(FlattenSeq(labels), S, 0)

LongestRun(labels, S) ==
  LET longest[k \in 0 .. Len(labels)] ==
        IF k = 0 THEN 0 ELSE RunAfter(labels[k], S, longest[k - 1])
  IN  longest[Len(labels)]

Bigrams(labels) ==
  UNION {{<<k, i>> : i \in 1 .. Len(labels[k]) - 1} : k \in DOMAIN labels}

\* extract_dns_features on a name.
Features(v) ==
  LET labels  == Labels(Normalized(v))
      compact == FlattenSeq(labels)
      Count(S) == Cardinality({i \in DOMAIN compact : compact[i] \in S})
  IN  [domain_length  |-> Len(compact),
       label_count    |-> Len(labels),
       longest_label  |-> Max({Len(l) : l \in ToSet(labels)}),
       digits         |-> Count(Digit),
       hyphens        |-> Count({"-"}),
       vowels         |-> Count(Vowel),
       unique_chars   |-> Cardinality(ToSet(compact)),
       bigrams        |-> Cardinality(Bigrams(labels)),
       unique_bigrams |-> Cardinality({SubSeq(labels[b[1]], b[2], b[2] + 1) :
                                         b \in Bigrams(labels)}),
       consonant_run  |-> LongestRun(labels, Consonant),
       digit_run      |-> LongestRun(labels, Digit)]

-----------------------------------------------------------------------------
\* A longest run counted from scratch: the longest stretch of the name of which
\* every character is in S.
LongestStretch(n, S) ==
  LET stretches == {r \in (DOMAIN n) \X (DOMAIN n) :
                      r[1] <= r[2] /\ \A k \in r[1]..r[2] : n[k] \in S}
  IN  Max({0} \cup {r[2] - r[1] + 1 : r \in stretches})
=============================================================================
