------------------------------ MODULE Console ------------------------------
(***************************************************************************)
(* Console input: the ring of console.c with line editing, history recall  *)
(* and completion, filled by the keyboard interrupt and emptied by readers. *)
(*                                                                         *)
(* One character of consoleintr, or one stretch of consoleread under       *)
(* cons.lock, is a step.  What is shown on the screen is left out.  The    *)
(* indices are natural numbers: MaxTyped keeps them below the wrap-around. *)
(***************************************************************************)
EXTENDS Integers, Sequences, FiniteSets, SequencesExt, FiniteSetsExt

CONSTANTS
    Plain,        \* printable characters
    NL, EOF,      \* '\n' and C('D')
    INPUT_BUF, HIST_MAX,
    commands,     \* the names completion knows, in order; one may come twice
    Reader,       \* processes that read the console
    ReadSizes,    \* n of consoleread
    MaxTyped      \* bound on the edit index

Char == Plain \cup {NL, EOF}
Commands == {commands[i] : i \in DOMAIN commands}

ASSUME ConsoleAssumption ==
    /\ INPUT_BUF \in Nat \ {0} /\ HIST_MAX \in Nat \ {0} /\ MaxTyped \in Nat
    /\ NL # EOF /\ {NL, EOF} \cap Plain = {}
    /\ ReadSizes \subseteq Nat \ {0}
    /\ \A c \in Commands : c \in Seq(Plain) /\ Len(c) < INPUT_BUF

VARIABLES
    buf, r, w, e,      \* struct input
    history,           \* HIST_MAX lines, '\0' at the end left out
    hist_count, hist_head, hist_pos,
    rd,                \* consoleread of each reader: label, n and what it has got
    killed

inputVars == <<buf, r, w, e>>
histVars == <<history, hist_count, hist_head, hist_pos>>
vars == <<inputVars, histVars, rd, killed>>

Init ==
    /\ buf = [i \in 0..(INPUT_BUF - 1) |-> NL]
    /\ r = 0 /\ w = 0 /\ e = 0
    /\ history = [i \in 0..(HIST_MAX - 1) |-> <<>>]
    /\ hist_count = 0 /\ hist_head = 0 /\ hist_pos = -1
    /\ rd = [p \in Reader |-> [pc |-> "idle", n |-> 0, got |-> 0]]
    /\ killed = [p \in Reader |-> FALSE]

(* The characters at positions a up to b - 1 of the input.                  *)
Text(a, b) == [i \in 1..(b - a) |-> buf[(a + i - 1) % INPUT_BUF]]

(* The ring with s, which is no longer than it, stored from position a on.   *)
Stored(a, s) == [j \in 0..(INPUT_BUF - 1) |->
                   LET i == (j - a) % INPUT_BUF IN
                   IF i < Len(s) THEN s[i + 1] ELSE buf[j]]

(***************************************************************************)
(* History.                                                                *)
(***************************************************************************)

(* history_add(): start of the line that ends at position last.             *)
LineStart(last) ==
    Max({r} \cup {i \in (r + 1)..last : buf[(i - 1) % INPUT_BUF] = NL})

HistoryAdd(last) ==
    LET s == Text(LineStart(last), last) IN
    IF s = <<>> THEN hist_pos' = -1 /\ UNCHANGED <<history, hist_count, hist_head>>
    ELSE /\ history' = [history EXCEPT ![hist_head] = s]
         /\ hist_head' = (hist_head + 1) % HIST_MAX
         /\ hist_count' = Min({hist_count + 1, HIST_MAX})
         /\ hist_pos' = -1

(* history_get(): logical index 0 is the oldest line.                       *)
FromSlotZero(i) == history[i]
HistoryGet(i) ==
    LET base == (hist_head - hist_count + HIST_MAX) % HIST_MAX IN
    history[(base + i) % HIST_MAX]

(* history_restore(): the edited line is replaced by line i, cut to size.   *)
HistoryRestore(i) ==
    LET s == IF i < 0 THEN <<>> ELSE HistoryGet(i)
        fits == SubSeq(s, 1, Min({Len(s), r + INPUT_BUF - w}))
    IN buf' = Stored(w, fits) /\ e' = w + Len(fits)

Up ==
    /\ hist_count > 0
    /\ hist_pos' = IF hist_pos = -1 THEN hist_count - 1
                   ELSE IF hist_pos > 0 THEN hist_pos - 1 ELSE hist_pos
    /\ HistoryRestore(hist_pos')
    /\ UNCHANGED <<r, w, history, hist_count, hist_head, rd, killed>>

Down ==
    /\ hist_pos # -1
    /\ hist_pos' = IF hist_pos < hist_count - 1 THEN hist_pos + 1 ELSE -1
    /\ HistoryRestore(hist_pos')
    /\ UNCHANGED <<r, w, history, hist_count, hist_head, rd, killed>>

(***************************************************************************)
(* The other keys of consoleintr().                                        *)
(***************************************************************************)
KillLine ==
    /\ e # w
    /\ e' = Max({w} \cup {i \in (w + 1)..e : buf[(i - 1) % INPUT_BUF] = NL})
    /\ UNCHANGED <<buf, r, w, histVars, rd, killed>>

Erasable == e # w
Backspace ==
    /\ Erasable
    /\ e' = e - 1
    /\ UNCHANGED <<buf, r, w, histVars, rd, killed>>

(* autocomplete(): the entries of commands[] that begin with the unread     *)
(* input; a name listed twice, as pwd is, has two and is never completed.   *)
(* It reads the ring without wrapping around; what lies behind the ring may *)
(* or may not look like the rest of a command.                              *)
Matching(inside, len) ==
    {i \in DOMAIN commands : /\ len <= Len(commands[i])
                             /\ SubSeq(commands[i], 1, Len(inside)) = inside}

Tab ==
    /\ LET len == e - r
           inside == Text(r, r + Min({len, INPUT_BUF - (r % INPUT_BUF)}))
       IN \E ms \in (IF Len(inside) = len THEN {Matching(inside, len)}
                     ELSE SUBSET Matching(inside, len)) :
          /\ Cardinality(ms) = 1
          /\ LET c == commands[CHOOSE i \in ms : TRUE]
                 rest == SubSeq(c, len + 1, Len(c))
             IN buf' = Stored(e, rest) /\ e' = e + Len(rest)
    /\ UNCHANGED <<r, w, histVars, rd, killed>>

(* What commits the line after character c is stored at position e.         *)
LineOrEof(c) == c \in {NL, EOF}
Commits(c) == c \in {NL, EOF} \/ e + 1 = r + INPUT_BUF

(* wakeup(&input.r).                                                        *)
NobodyWoken == rd
Woken == [p \in Reader |-> IF rd[p].pc = "asleep" THEN [rd[p] EXCEPT !.pc = "read"]
                           ELSE rd[p]]

HasRoom == e - r < INPUT_BUF

Key(c) ==
    /\ e < MaxTyped
    /\ HasRoom
    /\ buf' = Stored(e, <<c>>)
    /\ e' = e + 1
    /\ IF c = NL THEN HistoryAdd(e)
       ELSE hist_pos' = -1 /\ UNCHANGED <<history, hist_count, hist_head>>
    /\ IF Commits(c) THEN w' = e + 1 /\ rd' = Woken ELSE UNCHANGED <<w, rd>>
    /\ UNCHANGED <<r, killed>>

(***************************************************************************)
(* consoleread()                                                           *)
(***************************************************************************)
ReadCall(p) ==
    /\ rd[p].pc = "idle" /\ ~killed[p]
    /\ \E n \in ReadSizes : rd' = [rd EXCEPT ![p] = [pc |-> "read", n |-> n, got |-> 0]]
    /\ UNCHANGED <<inputVars, histVars, killed>>

(* How far a read that may take n more characters, after got, moves r, and  *)
(* whether it ends there.                                                   *)
EofTaken(got, i) == IF got + i > 1 THEN i - 1 ELSE i

Taken(n, got) ==
    LET q == Text(r, Min({w, r + n}))
        i == SelectInSeq(q, LAMBDA c : c \in {NL, EOF})
    IN IF i = 0 THEN [k |-> Len(q), done |-> Len(q) = n]
       ELSE [k |-> IF q[i] = NL THEN i ELSE EofTaken(got, i), done |-> TRUE]

ConsoleRead(p) ==
    /\ rd[p].pc = "read" /\ r # w
    /\ LET t == Taken(rd[p].n, rd[p].got) IN
       /\ r' = r + t.k
       /\ rd' = [rd EXCEPT ![p] =
                   IF t.done THEN [pc |-> "idle", n |-> 0, got |-> 0]
                   ELSE [pc |-> "read", n |-> @.n - t.k, got |-> @.got + t.k]]
    /\ UNCHANGED <<buf, w, e, histVars, killed>>

(* r == w: the killed check, and sleep() on input.r.  cons.lock is held in  *)
(* between, but kill() does not take it.                                    *)
ReadEmpty(p) ==
    /\ rd[p].pc = "read" /\ r = w
    /\ rd' = [rd EXCEPT ![p] = IF killed[p] THEN [pc |-> "idle", n |-> 0, got |-> 0]
                               ELSE [@ EXCEPT !.pc = "sleep"]]
    /\ UNCHANGED <<inputVars, histVars, killed>>

Sleep(p) ==
    /\ rd[p].pc = "sleep"
    /\ rd' = [rd EXCEPT ![p].pc = "asleep"]
    /\ UNCHANGED <<inputVars, histVars, killed>>

Kill(p) ==
    /\ ~killed[p] /\ rd[p].pc # "idle"
    /\ killed' = [killed EXCEPT ![p] = TRUE]
    /\ rd' = [rd EXCEPT ![p].pc = IF @ = "asleep" THEN "read" ELSE @]
    /\ UNCHANGED <<inputVars, histVars>>

(* cons.lock is free.                                                       *)
Unlocked == \A p \in Reader : rd[p].pc # "sleep"

Read(p) == ReadCall(p) \/ ConsoleRead(p) \/ ReadEmpty(p)

ConsoleIntr ==
    \/ \E c \in Char : Key(c)
    \/ Up \/ Down \/ KillLine \/ Backspace \/ Tab

Next ==
    \/ Unlocked /\ (ConsoleIntr \/ \E p \in Reader : Read(p))
    \/ \E p \in Reader : Sleep(p) \/ Kill(p)

Spec == Init /\ [][Next]_vars

(***************************************************************************)
(* Properties.                                                             *)
(***************************************************************************)

(* Every variable has its type; the indices are in order and span at most   *)
(* the ring, and the line being browsed is one that exists.                 *)
TypeOK ==
    /\ buf \in [0..(INPUT_BUF - 1) -> Char]
    /\ {r, w, e} \subseteq Nat /\ r <= w /\ w <= e /\ e - r <= INPUT_BUF
    /\ history \in [0..(HIST_MAX - 1) -> Seq(Char)]
    /\ hist_count \in 0..HIST_MAX /\ hist_head \in 0..(HIST_MAX - 1)
    /\ hist_pos \in -1..(hist_count - 1)
    /\ rd \in [Reader -> [pc : {"idle", "read", "sleep", "asleep"}, n : Nat, got : Nat]]
    /\ killed \in [Reader -> BOOLEAN]

(* A ring in which no character can be stored has committed characters for  *)
(* a reader: neither typing, recall nor completion can fill it with a line  *)
(* that no newline can end.                                                 *)
FullIsReadable == TypeOK /\ (e - r = INPUT_BUF => r # w)

(* A reader sleeps only while nothing is committed: every commit, also that *)
(* of an end of file or of a full ring, wakes it, and no reader goes to     *)
(* sleep past a commit.                                                     *)
SleeperHasNothing == \A p \in Reader : rd[p].pc = "asleep" => r = w

(* The console implements Tty: the ring, its three indices and the history  *)
(* ring behave as a queue, a line and a list of the last lines.             *)
Past == [i \in 1..hist_count |->
           history[(hist_head - hist_count + HIST_MAX + i - 1) % HIST_MAX]]
T == INSTANCE Tty WITH
        Room <- INPUT_BUF, HistMax <- HIST_MAX,
        queue <- Text(r, w), line <- Text(w, e), past <- Past, at <- hist_pos + 1
IsTty == T!Spec
============================================================================
