------------------------------- MODULE MCProc -------------------------------
(* Proc on small instances.                                                *)
EXTENDS Proc

CONSTANTS c0, c1
=============================================================================
