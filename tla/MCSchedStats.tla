---------------------------- MODULE MCSchedStats ----------------------------
(* SchedStats on small instances.                                          *)
EXTENDS SchedStats

CONSTANTS c0, c1
=============================================================================
