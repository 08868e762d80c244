------------------------------- MODULE MCPipe -------------------------------
(* Pipe on small instances.                                                *)
EXTENDS Pipe

CONSTANTS r1, w1, w2
=============================================================================
