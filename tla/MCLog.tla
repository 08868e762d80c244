------------------------------- MODULE MCLog --------------------------------
(* Log on small instances.                                                 *)
EXTENDS Log, TLC

CONSTANTS p1, p2, b1, b2, b3, b4, b5

Symmetry == Permutations(Process) \cup Permutations(Block)
=============================================================================
