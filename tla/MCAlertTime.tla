---------------------------- MODULE MCAlertTime -----------------------------
(* AlertTime on a grid of quarters of a microsecond. *)
EXTENDS AlertTime
=============================================================================
