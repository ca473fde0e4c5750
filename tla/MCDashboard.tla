---------------------------- MODULE MCDashboard -----------------------------
(* Dashboard with one or two tabs. *)
EXTENDS Dashboard

CONSTANTS t1, t2

OneTab  == {t1}
TwoTabs == {t1, t2}
=============================================================================
