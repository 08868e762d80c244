----------------------------- MODULE MCBufCache -----------------------------
(* Small instances of BufCache for TLC: p1 holds up to two buffers, as in   *)
(* bmap, p2 one.                                                            *)
EXTENDS BufCache
CONSTANTS p1, p2, k1, k2, k3
MCHeld == (p1 :> 2) @@ (p2 :> 1)
=============================================================================
