---------------------------- MODULE MCZeekReplay ----------------------------
(* ZeekReplay with a pipe that holds fewer units than Zeek prints. *)
EXTENDS ZeekReplay
=============================================================================
