-------------------------------- MODULE Tty --------------------------------
(***************************************************************************)
(* What the console promises: a line that is edited until it is committed, *)
(* a queue of committed characters that readers take in order and at most  *)
(* one line at a time, and the last lines submitted, which can be recalled. *)
(***************************************************************************)
EXTENDS Integers, Sequences, SequencesExt

CONSTANTS
    Char, NL, EOF,   \* characters, among them newline and end of file
    Room,            \* characters committed or edited, but not read
    HistMax,         \* lines remembered
    Commands         \* names that can be completed

VARIABLES
    queue, line, past,
    at               \* the past line being browsed, 0 for none

vars == <<queue, line, past, at>>

Init == queue = <<>> /\ line = <<>> /\ past = <<>> /\ at = 0

Type(c) ==
    /\ c \notin {NL, EOF}
    /\ Len(queue) + Len(line) + 1 < Room
    /\ line' = Append(line, c) /\ at' = 0
    /\ UNCHANGED <<queue, past>>

(* The unread part of the line that c completes.                            *)
Whole == SubSeq(queue, SelectLastInSeq(queue, LAMBDA x : x = NL) + 1, Len(queue))
         \o line

Remember(l) ==
    LET all == Append(past, l) IN
    SubSeq(all, IF Len(all) > HistMax THEN 2 ELSE 1, Len(all))

(* A newline, an end of file or the last free place commits the line.       *)
Commit(c) ==
    /\ Len(queue) + Len(line) < Room
    /\ c \in {NL, EOF} \/ Len(queue) + Len(line) + 1 = Room
    /\ queue' = queue \o Append(line, c)
    /\ line' = <<>> /\ at' = 0
    /\ past' = IF c = NL /\ Whole # <<>> THEN Remember(Whole) ELSE past

Erase ==
    /\ line' \in {<<>>, Front(line)}
    /\ UNCHANGED <<queue, past, at>>

(* The line becomes past line at', or as much of it as there is room for.   *)
Show ==
    /\ LET s == IF at' = 0 THEN <<>> ELSE past[at'] IN
       \E n \in 0..Len(s) :
          /\ n = Len(s) \/ Len(queue) + n = Room
          /\ line' = SubSeq(s, 1, n)
    /\ UNCHANGED <<queue, past>>

Older ==
    /\ past # <<>>
    /\ at' = IF at = 0 THEN Len(past) ELSE IF at = 1 THEN 1 ELSE at - 1
    /\ Show

Newer ==
    /\ at # 0
    /\ at' = IF at = Len(past) THEN 0 ELSE at + 1
    /\ Show

(* The line is completed to a command.                                      *)
Complete ==
    /\ \E c \in Commands :
          line' = line \o SubSeq(c, Len(queue) + Len(line) + 1, Len(c))
    /\ UNCHANGED <<queue, past, at>>

(* Nothing after a newline or beyond an end of file is taken.               *)
Read ==
    /\ \E k \in 1..Len(queue) :
          /\ \A i \in 1..(k - 1) : queue[i] \notin {NL, EOF}
          /\ queue' = SubSeq(queue, k + 1, Len(queue))
    /\ UNCHANGED <<line, past, at>>

Next ==
    \/ \E c \in Char : Type(c) \/ Commit(c)
    \/ (line # <<>> /\ Erase) \/ Older \/ Newer \/ Complete \/ Read

Spec == Init /\ [][Next]_vars
============================================================================
