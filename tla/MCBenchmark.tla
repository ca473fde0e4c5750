---------------------------- MODULE MCBenchmark ----------------------------
(* The tools with a few lines per source. *)
EXTENDS Benchmark

Source(benign, f1, f2) ==
  [benign |-> benign, dga |-> <<[family |-> "f1", lines |-> f1], [family |-> "f2", lines |-> f2]>>]

MCPackaged == Source(<<"b1", "t1">>, <<"d1">>, <<"d2">>)

\* Another selection, with lines that are discarded and a limit that is met; one
\* with a name of both labels; and one whose benign names are all test names.
MCSnapshots ==
  {Source(<<"invalid", "t1", "b1", "t1", "b2", "b3">>, <<"d1", "invalid">>,
          <<"d1", "d3", "t2", "d4">>),
   Source(<<"b1", "t1">>, <<"d1">>, <<"b1", "unreadable">>),
   Source(<<"t1">>, <<"d1">>, <<"d2">>)}

\* Names of either label have a hash; that of a DGA name is not asked for.
MCTestBenign == {"t1", "t2", "d2"}
MCShuffled   == <<"f2", "f1">>

\* Training on other rows makes a model that flags another candidate, but not
\* the name that every fixture has.
MCFlags(model) ==
  IF "b2" \in NamesIn(model.fittedOn) THEN {"c1", "c2"} ELSE {"v", "c1"}

MCCandidates == <<"c1", "c2">>
MCCaptures   == {<<"syn", "scan", "b", "v", "c1">>, <<"syn", "scan", "b", "v", "c1", "c2">>,
                 <<"syn", "scan", "b", "v", "v">>}
=============================================================================
