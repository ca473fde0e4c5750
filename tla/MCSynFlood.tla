----------------------------- MODULE MCSynFlood -----------------------------
(* A small instance of SynFlood for TLC. *)
EXTENDS SynFlood

CONSTANTS MaxTime
MCTime == 0 .. MaxTime

\* log2 in thousandths, rounded.
MCLog2 == <<0, 1000, 1585>>

Symmetry == Permutations(Source) \cup Permutations(Port) \cup Permutations(Uid)
=============================================================================
