-------------------------------- MODULE Fifo --------------------------------
(***************************************************************************)
(* What a pipe promises: bytes leave in the order in which they entered,   *)
(* each exactly once, at most Capacity of them in between.  A write enters *)
(* in pieces, which may interleave with other writes, and may be cut short *)
(* only if the call fails; a read takes some of what is there.             *)
(***************************************************************************)
EXTENDS Naturals, Sequences

CONSTANTS Reader, Writer, Byte, Capacity, MaxWrite

VARIABLES
    queue,    \* bytes in the pipe
    rest,     \* what a write call has not yet put into the pipe
    got       \* what the last read call of a reader returned

vars == <<queue, rest, got>>

Init ==
    /\ queue = <<>>
    /\ rest = [w \in Writer |-> <<>>]
    /\ got = [r \in Reader |-> <<>>]

StartWrite(w) ==
    /\ rest[w] = <<>>
    /\ \E n \in 1..MaxWrite : \E s \in [1..n -> Byte] :
         rest' = [rest EXCEPT ![w] = s]
    /\ UNCHANGED <<queue, got>>

Put(w) ==
    /\ \E k \in 1..Len(rest[w]) :
         /\ Len(queue) + k <= Capacity
         /\ queue' = queue \o SubSeq(rest[w], 1, k)
         /\ \/ rest' = [rest EXCEPT ![w] = SubSeq(@, k + 1, Len(@))]
            \/ rest' = [rest EXCEPT ![w] = <<>>]
    /\ UNCHANGED got

Abandon(w) == rest' = [rest EXCEPT ![w] = <<>>] /\ UNCHANGED <<queue, got>>

Get(r) ==
    /\ \E k \in 1..Len(queue) :
         /\ got' = [got EXCEPT ![r] = SubSeq(queue, 1, k)]
         /\ queue' = SubSeq(queue, k + 1, Len(queue))
    /\ UNCHANGED rest

StartRead(r) == got' = [got EXCEPT ![r] = <<>>] /\ UNCHANGED <<queue, rest>>

(* Both ends closed: what is left is gone with the pipe.                   *)
Discard == queue' = <<>> /\ UNCHANGED <<rest, got>>

Next ==
    \/ \E w \in Writer : StartWrite(w) \/ Put(w) \/ Abandon(w)
    \/ \E r \in Reader : StartRead(r) \/ Get(r)
    \/ Discard

Spec == Init /\ [][Next]_vars
=============================================================================
