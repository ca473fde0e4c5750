----------------------------- MODULE MCPortScan -----------------------------
(* Small instances of PortScan for TLC. *)
EXTENDS PortScan

CONSTANTS MaxTime
MCTime == 0 .. MaxTime

Symmetry == Permutations(Source) \cup Permutations(Host)
            \cup Permutations(Port) \cup Permutations(Uid)
=============================================================================
