------------------------------- MODULE MCVm -------------------------------
(* Small instances of Vm for TLC.                                           *)
EXTENDS Vm
S(v, m) == [vaddr |-> v, memsz |-> m]
(* A segment in the first page, one that ends inside the second, one that   *)
(* is not aligned, one beyond KERNBASE and one that wraps around.           *)
SomeSegments == {S(0, 8), S(16, 8), S(8, 8), S(64, 32), S(152, 16)}

SomeSbrk == {-56, -16, -8, 8, 16, 40}
===========================================================================
