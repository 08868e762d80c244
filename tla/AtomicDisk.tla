----------------------------- MODULE AtomicDisk -----------------------------
(***************************************************************************)
(* What log.c promises its users: a disk whose contents after a crash are  *)
(* the contents at some moment when no operation was in progress.  An      *)
(* operation is everything a process writes between begin_op and end_op.   *)
(***************************************************************************)
CONSTANTS Process, Block, Value, InitValue

VARIABLES
    mem,      \* what running processes read
    dur,      \* what a restart would find
    active    \* processes inside an operation

vars == <<mem, dur, active>>

Init ==
    /\ mem = [b \in Block |-> InitValue]
    /\ dur = mem
    /\ active = {}

Begin(p) ==
    /\ p \notin active
    /\ active' = active \cup {p}
    /\ UNCHANGED <<mem, dur>>

Write(p) ==
    /\ p \in active
    /\ \E b \in Block, v \in Value : mem' = [mem EXCEPT ![b] = v]
    /\ UNCHANGED <<dur, active>>

End(p) ==
    /\ p \in active
    /\ active' = active \ {p}
    /\ UNCHANGED <<mem, dur>>

Commit ==
    /\ active = {}
    /\ dur' = mem
    /\ UNCHANGED <<mem, active>>

Crash ==
    /\ mem' = dur
    /\ active' = {}
    /\ UNCHANGED dur

Next ==
    \/ \E p \in Process : Begin(p) \/ Write(p) \/ End(p)
    \/ Commit
    \/ Crash

Spec == Init /\ [][Next]_vars
=============================================================================
