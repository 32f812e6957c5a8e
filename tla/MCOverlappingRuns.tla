-------------------------- MODULE MCOverlappingRuns --------------------------
(* A small instance of OverlappingRuns for TLC: a version and its revision. *)
EXTENDS OverlappingRuns
=============================================================================
