----------------------------- MODULE MCPipeline -----------------------------
(* A small instance of Pipeline for TLC. *)
EXTENDS Pipeline, TLC

CONSTANTS MaxTime
MCTime == 0 .. MaxTime

MCLog2 == <<0, 1>>

\* Every query of a few characters, up to two more than a name may have.
MCRawName == UNION {[1..n -> {"b", "B", "-", ".", "_"}] : n \in 0 .. MaxName + 2}

Symmetry == Permutations(Source) \cup Permutations(Port) \cup Permutations(Uid)
=============================================================================
