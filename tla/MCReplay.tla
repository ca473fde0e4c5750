------------------------------ MODULE MCReplay ------------------------------
(* The command line with a stream of a few units and short deadlines. *)
EXTENDS Cli
=============================================================================
