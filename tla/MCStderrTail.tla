---------------------------- MODULE MCStderrTail ----------------------------
(* StderrTail with chunks shorter and longer than the tail. *)
EXTENDS StderrTail
=============================================================================
