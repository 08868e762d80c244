---------------------------- MODULE ConsoleProofs ---------------------------
(***************************************************************************)
(* Proofs about Console, for any size of the ring and of the history, any  *)
(* set of commands and any number of readers.                              *)
(***************************************************************************)
EXTENDS Console, SequenceTheorems, FiniteSetTheorems, WellFoundedInduction, NaturalsInduction, TLAPS

(***************************************************************************)
(* The inductive invariant.                                                *)
(***************************************************************************)

(* A line that was recalled whole leaves room for the newline that ends it. *)
ShortLines == \A i \in 0..(HIST_MAX - 1) : Len(history[i]) < INPUT_BUF

(* Readers go to sleep and stay asleep only while nothing is committed.     *)
Waiting == \A p \in Reader : rd[p].pc \in {"sleep", "asleep"} => r = w

(* A reader in its loop may still take a character.                         *)
MayTake == \A p \in Reader : rd[p].pc # "idle" => rd[p].n > 0

Readable == e - r = INPUT_BUF => r # w

ConsoleInv == TypeOK /\ ShortLines /\ Waiting /\ MayTake /\ Readable

LEMMA Sizes == INPUT_BUF \in Nat /\ INPUT_BUF > 0 /\ HIST_MAX \in Nat /\ HIST_MAX > 0
BY ConsoleAssumption

(***************************************************************************)
(* Extremes of sets of positions.                                          *)
(***************************************************************************)
LEMMA Least ==
    ASSUME NEW S, S \subseteq Nat, S # {}
    PROVE  Min(S) \in S /\ \A y \in S : Min(S) <= y
<1> DEFINE Less == OpToRel(<, Nat)
<1>1. IsWellFoundedOn(Less, Nat)
  BY NatLessThanWellFounded, Zenon
<1>2. \E x \in S : \A y \in S : ~(<<y, x>> \in Less)
  <2> HIDE DEF Less
  <2> QED BY <1>1, WFMin
<1>3. PICK x \in S : \A y \in S : ~(y < x)
  BY <1>2 DEF OpToRel
<1>4. \A y \in S : x <= y
  BY <1>3
<1> QED
  BY <1>4 DEF Min

LEMMA Greatest ==
    ASSUME NEW S, NEW b \in Nat, S \subseteq 0..b, S # {}
    PROVE  Max(S) \in S /\ \A y \in S : y <= Max(S)
<1> DEFINE U == {b - i : i \in S}
<1>1. U \subseteq Nat
  OBVIOUS
<1>2. U # {}
  <2>1. PICK i \in S : TRUE
    OBVIOUS
  <2> QED BY b - i \in U
<1>3. Min(U) \in U /\ \A y \in U : Min(U) <= y
  <2> HIDE DEF U
  <2> QED BY <1>1, <1>2, Least
<1>4. PICK i \in S : Min(U) = b - i
  BY <1>3
<1>5. \A j \in S : i >= j
  <2> SUFFICES ASSUME NEW j \in S PROVE i >= j
    OBVIOUS
  <2>1. b - j \in U
    OBVIOUS
  <2>2. b - i <= b - j
    BY <1>3, <1>4, <2>1
  <2> QED BY <2>2
<1> QED
  BY <1>5 DEF Max

LEMMA LesserOfTwo ==
    ASSUME NEW a \in Int, NEW b \in Int
    PROVE  Min({a, b}) = IF a <= b THEN a ELSE b
BY DEF Min

(***************************************************************************)
(* The ring.                                                               *)
(***************************************************************************)
Ring == 0..(INPUT_BUF - 1)

(* The part of the type invariant that concerns the ring and its indices.   *)
RingOK == buf \in [Ring -> Char] /\ r \in Nat /\ w \in Nat /\ e \in Nat
          /\ r <= w /\ w <= e /\ e - r <= INPUT_BUF

LEMMA SlotInRing == ASSUME NEW a \in Int PROVE a % INPUT_BUF \in Ring
BY ConsoleAssumption DEF Ring

LEMMA TextIsLine ==
    ASSUME buf \in [Ring -> Char], NEW a \in Nat, NEW b \in Nat, a <= b
    PROVE  /\ Text(a, b) \in Seq(Char) /\ Len(Text(a, b)) = b - a
           /\ \A i \in 1..(b - a) : Text(a, b)[i] = buf[(a + i - 1) % INPUT_BUF]
<1>1. \A i \in 1..(b - a) : buf[(a + i - 1) % INPUT_BUF] \in Char
  <2> SUFFICES ASSUME NEW i \in 1..(b - a) PROVE buf[(a + i - 1) % INPUT_BUF] \in Char
    OBVIOUS
  <2>1. a + i - 1 \in Int
    OBVIOUS
  <2> QED BY <2>1, SlotInRing
<1>2. b - a \in Nat
  OBVIOUS
<1> QED
  BY <1>1, <1>2 DEF Text

LEMMA StoredIsRing ==
    ASSUME buf \in [Ring -> Char], NEW a \in Nat, NEW s \in Seq(Char)
    PROVE  Stored(a, s) \in [Ring -> Char]
<1> SUFFICES ASSUME NEW j \in Ring, NEW i, i = (j - a) % INPUT_BUF, i < Len(s)
             PROVE  s[i + 1] \in Char
  BY DEF Stored, Ring
<1>1. j - a \in Int
  BY ConsoleAssumption DEF Ring
<1>2. i \in Nat
  BY <1>1, SlotInRing, ConsoleAssumption DEF Ring
<1> QED
  BY <1>2

LEMMA RingOfInv == ConsoleInv => RingOK
BY DEF ConsoleInv, TypeOK, RingOK, Ring

(***************************************************************************)
(* History.                                                                *)
(***************************************************************************)
HistOK == /\ history \in [0..(HIST_MAX - 1) -> Seq(Char)]
          /\ hist_count \in 0..HIST_MAX /\ hist_head \in 0..(HIST_MAX - 1)
          /\ hist_pos \in -1..(hist_count - 1)

LEMMA LineStartInside ==
    ASSUME RingOK, NEW last \in Nat, r <= last PROVE LineStart(last) \in r..last
<1> DEFINE S == {r} \cup {i \in (r + 1)..last : buf[(i - 1) % INPUT_BUF] = NL}
<1>1. S \subseteq r..last /\ S \subseteq 0..last /\ S # {}
  BY DEF RingOK
<1>2. Max(S) \in S
  <2> HIDE DEF S
  <2> QED BY <1>1, Greatest
<1> QED
  BY <1>1, <1>2 DEF LineStart

LEMMA HistoryAdds ==
    ASSUME RingOK, HasRoom, HistOK, ShortLines, HistoryAdd(e)
    PROVE  HistOK' /\ ShortLines'
<1> DEFINE s == Text(LineStart(e), e)
<1>1. LineStart(e) \in r..e
  BY LineStartInside DEF RingOK
<1>2. s \in Seq(Char) /\ Len(s) < INPUT_BUF
  <2>1. LineStart(e) \in Nat /\ LineStart(e) <= e
    BY <1>1 DEF RingOK
  <2>2. s \in Seq(Char) /\ Len(s) = e - LineStart(e)
    BY <2>1, TextIsLine DEF RingOK
  <2> QED
    BY <1>1, <2>1, <2>2, ConsoleAssumption DEF RingOK, HasRoom
<1> HIDE DEF s
<1>3. CASE s = <<>>
  BY <1>3, ConsoleAssumption DEF HistoryAdd, HistOK, ShortLines, s
<1>4. CASE s # <<>>
  <2>1. /\ history' = [history EXCEPT ![hist_head] = s]
        /\ hist_head' = (hist_head + 1) % HIST_MAX
        /\ hist_count' = Min({hist_count + 1, HIST_MAX})
        /\ hist_pos' = -1
    BY <1>4 DEF HistoryAdd, s
  <2>2. history' \in [0..(HIST_MAX - 1) -> Seq(Char)] /\ ShortLines'
    BY <1>2, <2>1 DEF HistOK, ShortLines
  <2>3. hist_count' \in 0..HIST_MAX
    <3>1. hist_count + 1 \in Int /\ HIST_MAX \in Int
      BY ConsoleAssumption DEF HistOK
    <3>2. hist_count' = IF hist_count + 1 <= HIST_MAX THEN hist_count + 1 ELSE HIST_MAX
      BY <2>1, <3>1, LesserOfTwo
    <3> QED BY <3>2, ConsoleAssumption DEF HistOK
  <2>4. hist_head' \in 0..(HIST_MAX - 1)
    BY <2>1, ConsoleAssumption DEF HistOK
  <2> QED
    BY <2>1, <2>2, <2>3, <2>4, ConsoleAssumption DEF HistOK
<1> QED
  BY <1>3, <1>4

(* history_restore() recalls no more than the ring has room for.            *)
LEMMA Restored ==
    ASSUME RingOK, HistOK, ShortLines, NEW i \in Int, HistoryRestore(i), UNCHANGED <<r, w>>
    PROVE  RingOK' /\ Readable'
<1> DEFINE base == (hist_head - hist_count + HIST_MAX) % HIST_MAX
           s == IF i < 0 THEN <<>> ELSE HistoryGet(i)
           m == Min({Len(s), r + INPUT_BUF - w})
<1>1. s \in Seq(Char) /\ Len(s) < INPUT_BUF
  <2>1. CASE i < 0
    BY <2>1, ConsoleAssumption
  <2>2. CASE ~(i < 0)
    <3>1. base \in Int
      BY ConsoleAssumption DEF HistOK
    <3>2. (base + i) % HIST_MAX \in 0..(HIST_MAX - 1)
      <4> HIDE DEF base
      <4> QED BY <3>1, ConsoleAssumption
    <3>3. s = history[(base + i) % HIST_MAX]
      BY <2>2 DEF HistoryGet
    <3> HIDE DEF base
    <3> QED BY <3>2, <3>3 DEF HistOK, ShortLines
  <2> QED BY <2>1, <2>2
<1> HIDE DEF s
<1>2. m \in 0..Len(s) /\ m <= r + INPUT_BUF - w
  BY <1>1, LesserOfTwo, ConsoleAssumption DEF RingOK
<1> HIDE DEF m
<1>3. SubSeq(s, 1, m) \in Seq(Char) /\ Len(SubSeq(s, 1, m)) = m
  BY <1>1, <1>2
<1>4. buf' = Stored(w, SubSeq(s, 1, m)) /\ e' = w + m
  BY <1>3 DEF HistoryRestore, s, m
<1>5. buf' \in [Ring -> Char]
  BY <1>3, <1>4, StoredIsRing DEF RingOK
<1>6. RingOK'
  BY <1>2, <1>4, <1>5, ConsoleAssumption DEF RingOK
<1>7. Readable'
  BY <1>1, <1>2, <1>4, ConsoleAssumption DEF RingOK, Readable
<1> QED
  BY <1>6, <1>7

(***************************************************************************)
(* consoleread()                                                           *)
(***************************************************************************)
Rd == [pc : {"idle", "read", "sleep", "asleep"}, n : Nat, got : Nat]

(* A read takes no more than is committed and than it may still take, and   *)
(* ends when it has taken all it may.                                       *)
LEMMA TakenBounds ==
    ASSUME RingOK, r # w, NEW n \in Nat \ {0}, NEW got \in Nat
    PROVE  /\ Taken(n, got).k \in Nat /\ Taken(n, got).k <= n
           /\ r + Taken(n, got).k <= w
           /\ ~Taken(n, got).done => Taken(n, got).k < n
<1> DEFINE b == Min({w, r + n})
           q == Text(r, b)
           I == {i \in 1..Len(q) : q[i] \in {NL, EOF}}
           i == SelectInSeq(q, LAMBDA c : c \in {NL, EOF})
<1>1. b \in Nat /\ r < b /\ b <= w /\ b <= r + n
  BY LesserOfTwo DEF RingOK
<1> HIDE DEF b
<1>2. q \in Seq(Char) /\ Len(q) = b - r
  <2>1. r <= b /\ r \in Nat /\ buf \in [Ring -> Char]
    BY <1>1 DEF RingOK
  <2> QED BY <1>1, <2>1, TextIsLine
<1>3. i = IF I # {} THEN Min(I) ELSE 0
  BY DEF SelectInSeq
<1> HIDE DEF q
<1>4. I # {} => Min(I) \in I
  <2>1. I \subseteq Nat
    BY <1>2
  <2> HIDE DEF I
  <2> QED BY <2>1, Least
<1>5. i \in 0..Len(q)
  BY <1>2, <1>3, <1>4 DEF RingOK
<1> HIDE DEF i, I
<1>6. Taken(n, got) = IF i = 0 THEN [k |-> Len(q), done |-> Len(q) = n]
                      ELSE [k |-> IF q[i] = NL THEN i ELSE EofTaken(got, i), done |-> TRUE]
  BY DEF Taken, q, i, b
<1>7. CASE i = 0
  <2>1. Taken(n, got).k = Len(q)
    BY <1>6, <1>7
  <2>2. Len(q) = n => Taken(n, got).done
    <3>1. Taken(n, got) = [k |-> Len(q), done |-> Len(q) = n]
      BY <1>6, <1>7
    <3>2. \A d : [k |-> Len(q), done |-> d].done = d
      OBVIOUS
    <3>3. Taken(n, got).done = (Len(q) = n)
      BY <3>1, <3>2, Zenon
    <3> QED BY <3>3, Zenon
  <2>3. /\ Taken(n, got).k \in Nat /\ Taken(n, got).k <= n
        /\ r + Taken(n, got).k <= w
        /\ Len(q) # n => Taken(n, got).k < n
    BY <1>1, <1>2, <2>1 DEF RingOK
  <2> QED BY <2>2, <2>3
<1>8. CASE i # 0
  <2>1. Taken(n, got).k = (IF q[i] = NL THEN i ELSE EofTaken(got, i)) /\ Taken(n, got).done
    BY <1>6, <1>8
  <2>2. EofTaken(got, i) \in {i, i - 1}
    BY DEF EofTaken
  <2>3. Taken(n, got).k \in {i, i - 1}
    BY <2>1, <2>2
  <2> QED BY <1>1, <1>2, <1>5, <1>8, <2>1, <2>3 DEF RingOK
<1> QED
  BY <1>7, <1>8

(***************************************************************************)
(* Every step keeps the invariant.                                         *)
(***************************************************************************)
ReadersOK == /\ rd \in [Reader -> Rd] /\ killed \in [Reader -> BOOLEAN]
             /\ Waiting /\ MayTake

LEMMA InvParts ==
    ConsoleInv <=> RingOK /\ HistOK /\ ShortLines /\ ReadersOK /\ Readable
BY DEF ConsoleInv, TypeOK, RingOK, HistOK, ReadersOK, Ring, Rd

LEMMA InvInit == Init => ConsoleInv
<1> SUFFICES ASSUME Init PROVE ConsoleInv
  OBVIOUS
<1>1. RingOK /\ Readable
  BY ConsoleAssumption DEF Init, RingOK, Ring, Readable, Char
<1>2. HistOK /\ ShortLines
  BY ConsoleAssumption DEF Init, HistOK, ShortLines
<1>3. ReadersOK
  BY DEF Init, ReadersOK, Waiting, MayTake, Rd
<1> QED
  BY <1>1, <1>2, <1>3, InvParts

(* wakeup() leaves nobody asleep.                                           *)
LEMMA AllWoken ==
    ASSUME ReadersOK, Unlocked, rd' = Woken, killed' = killed PROVE ReadersOK'
<1>1. \A p \in Reader : /\ rd'[p] \in Rd /\ rd'[p].pc \notin {"sleep", "asleep"}
                        /\ rd'[p].n = rd[p].n
                        /\ rd'[p].pc # "idle" => rd[p].pc # "idle"
  BY DEF ReadersOK, Rd, Woken, Unlocked
<1>2. rd' \in [Reader -> Rd]
  BY <1>1 DEF Woken
<1>3. Waiting'
  BY <1>1 DEF Waiting
<1>4. MayTake'
  BY <1>1 DEF ReadersOK, MayTake
<1> QED
  BY <1>2, <1>3, <1>4 DEF ReadersOK

LEMMA ReadersStay ==
    ASSUME ReadersOK, UNCHANGED <<r, w, rd, killed>> PROVE ReadersOK'
BY DEF ReadersOK, Waiting, MayTake

LEMMA HistoryStays ==
    ASSUME HistOK, ShortLines, UNCHANGED histVars PROVE HistOK' /\ ShortLines'
BY DEF HistOK, ShortLines, histVars

LEMMA InvKey ==
    ASSUME ConsoleInv, Unlocked, NEW c \in Char, Key(c) PROVE ConsoleInv'
<1>1. RingOK /\ HistOK /\ ShortLines /\ ReadersOK /\ Readable
  BY InvParts
<1>2. buf' \in [Ring -> Char]
  <2>1. <<c>> \in Seq(Char)
    OBVIOUS
  <2> QED BY <1>1, <2>1, StoredIsRing DEF Key, RingOK
<1>3. RingOK' /\ Readable'
  BY <1>1, <1>2, ConsoleAssumption DEF Key, HasRoom, Commits, RingOK, Readable
<1>4. HistOK' /\ ShortLines'
  <2>1. CASE c = NL
    BY <1>1, <2>1, HistoryAdds DEF Key
  <2>2. CASE c # NL
    BY <1>1, <2>2, ConsoleAssumption DEF Key, HistOK, ShortLines
  <2> QED BY <2>1, <2>2
<1>5. ReadersOK'
  <2>1. CASE Commits(c)
    BY <1>1, <2>1, AllWoken DEF Key
  <2>2. CASE ~Commits(c)
    BY <1>1, <2>2, ReadersStay DEF Key
  <2> QED BY <2>1, <2>2
<1> QED
  BY <1>3, <1>4, <1>5, InvParts, PTL

LEMMA InvUp == ASSUME ConsoleInv, Up PROVE ConsoleInv'
<1>1. RingOK /\ HistOK /\ ShortLines /\ ReadersOK /\ Readable
  BY InvParts
<1>2. hist_pos' \in -1..(hist_count - 1) /\ hist_pos' \in Int
  BY <1>1, ConsoleAssumption DEF Up, HistOK
<1>3. RingOK' /\ Readable'
  BY <1>1, <1>2, Restored DEF Up
<1>4. HistOK' /\ ShortLines'
  BY <1>1, <1>2 DEF Up, HistOK, ShortLines
<1>5. ReadersOK'
  BY <1>1, ReadersStay DEF Up
<1> QED
  BY <1>3, <1>4, <1>5, InvParts, PTL

LEMMA InvDown == ASSUME ConsoleInv, Down PROVE ConsoleInv'
<1>1. RingOK /\ HistOK /\ ShortLines /\ ReadersOK /\ Readable
  BY InvParts
<1>2. hist_pos' \in -1..(hist_count - 1) /\ hist_pos' \in Int
  BY <1>1, ConsoleAssumption DEF Down, HistOK
<1>3. RingOK' /\ Readable'
  BY <1>1, <1>2, Restored DEF Down
<1>4. HistOK' /\ ShortLines'
  BY <1>1, <1>2 DEF Down, HistOK, ShortLines
<1>5. ReadersOK'
  BY <1>1, ReadersStay DEF Down
<1> QED
  BY <1>3, <1>4, <1>5, InvParts, PTL

(* A line that is cut, but not beyond its committed part.                   *)
LEMMA Cut ==
    ASSUME ConsoleInv, NEW n \in w..e, e' = n,
           UNCHANGED <<buf, r, w, histVars, rd, killed>>
    PROVE  ConsoleInv'
<1>1. RingOK /\ HistOK /\ ShortLines /\ ReadersOK /\ Readable
  BY InvParts
<1>2. r \in Nat /\ w \in Nat /\ e \in Nat /\ r <= w /\ e - r <= INPUT_BUF
  BY <1>1 DEF RingOK
<1>3. n \in Nat /\ w <= n /\ n - r <= INPUT_BUF /\ (n - r = INPUT_BUF => e - r = INPUT_BUF)
  BY <1>2, Sizes
<1>4. RingOK' /\ Readable'
  BY <1>1, <1>3 DEF RingOK, Readable
<1>5. HistOK' /\ ShortLines' /\ ReadersOK'
  BY <1>1, ReadersStay, HistoryStays
<1> QED
  BY <1>4, <1>5, InvParts, PTL

LEMMA InvKillLine == ASSUME ConsoleInv, KillLine PROVE ConsoleInv'
<1> DEFINE S == {w} \cup {i \in (w + 1)..e : buf[(i - 1) % INPUT_BUF] = NL}
<1>1. S \subseteq w..e /\ S \subseteq 0..e /\ S # {} /\ e \in Nat /\ w \in Nat
  BY RingOfInv DEF RingOK
<1>2. e' = Max(S)
  BY DEF KillLine
<1> HIDE DEF S
<1>3. Max(S) \in w..e
  BY <1>1, Greatest
<1> QED
  BY <1>2, <1>3, Cut DEF KillLine

LEMMA InvBackspace == ASSUME ConsoleInv, Backspace PROVE ConsoleInv'
<1>1. e - 1 \in w..e
  BY RingOfInv DEF RingOK, Backspace, Erasable
<1> QED
  BY <1>1, Cut DEF Backspace

(* autocomplete() completes to a command, which is shorter than the ring.   *)
LEMMA Completes ==
    ASSUME RingOK, Tab
    PROVE  \E c \in Commands : /\ e - r <= Len(c)
                               /\ buf' = Stored(e, SubSeq(c, e - r + 1, Len(c)))
                               /\ e' = e + Len(SubSeq(c, e - r + 1, Len(c)))
<1> DEFINE len == e - r
           inside == Text(r, r + Min({len, INPUT_BUF - (r % INPUT_BUF)}))
<1>1. PICK ms \in (IF Len(inside) = len THEN {Matching(inside, len)}
                   ELSE SUBSET Matching(inside, len)) :
          /\ Cardinality(ms) = 1
          /\ LET c == commands[CHOOSE i \in ms : TRUE]
                 rest == SubSeq(c, len + 1, Len(c))
             IN buf' = Stored(e, rest) /\ e' = e + Len(rest)
  BY DEF Tab
<1> HIDE DEF inside
<1>2. ms \subseteq Matching(inside, len)
  BY <1>1
<1>3. ms # {}
  <2>1. Cardinality(ms) = 1
    BY <1>1
  <2> QED BY <2>1, FS_EmptySet
<1>4. PICK i : i = CHOOSE j \in ms : TRUE
  OBVIOUS
<1>5. i \in ms
  BY <1>3, <1>4
<1>6. i \in DOMAIN commands /\ len <= Len(commands[i])
  BY <1>2, <1>5 DEF Matching
<1>7. PICK c \in Commands : c = commands[i]
  BY <1>6 DEF Commands
<1>8. /\ buf' = Stored(e, SubSeq(c, len + 1, Len(c)))
      /\ e' = e + Len(SubSeq(c, len + 1, Len(c)))
  BY <1>1, <1>4, <1>7
<1> QED
  BY <1>6, <1>7, <1>8

(* What completion adds to the line.                                        *)
LEMMA Completion ==
    ASSUME RingOK, NEW c \in Commands, e - r <= Len(c)
    PROVE  /\ c \in Seq(Char) /\ Len(c) \in Nat /\ Len(c) < INPUT_BUF
           /\ SubSeq(c, e - r + 1, Len(c)) \in Seq(Char)
           /\ Len(SubSeq(c, e - r + 1, Len(c))) = Len(c) - (e - r)
<1>1. c \in Seq(Char) /\ Len(c) \in Nat /\ Len(c) < INPUT_BUF
  BY ConsoleAssumption DEF Char
<1>2. PICK len \in Nat : len = e - r
  BY DEF RingOK
<1>3. SubSeq(c, len + 1, Len(c)) \in Seq(Char) /\ Len(SubSeq(c, len + 1, Len(c))) = Len(c) - len
  BY <1>1, <1>2
<1> QED
  BY <1>1, <1>2, <1>3

LEMMA InvTab == ASSUME ConsoleInv, Tab PROVE ConsoleInv'
<1>1. RingOK /\ HistOK /\ ShortLines /\ ReadersOK /\ Readable
  BY InvParts
<1>2. PICK c \in Commands : /\ e - r <= Len(c)
                            /\ buf' = Stored(e, SubSeq(c, e - r + 1, Len(c)))
                            /\ e' = e + Len(SubSeq(c, e - r + 1, Len(c)))
  BY <1>1, Completes
<1> DEFINE rest == SubSeq(c, e - r + 1, Len(c))
<1>3. /\ Len(c) \in Nat /\ Len(c) < INPUT_BUF
      /\ rest \in Seq(Char) /\ Len(rest) = Len(c) - (e - r)
  BY <1>1, <1>2, Completion
<1>4. buf' = Stored(e, rest) /\ e' = e + Len(rest)
  BY <1>2
<1> HIDE DEF rest
<1>5. buf' \in [Ring -> Char]
  BY <1>1, <1>3, <1>4, StoredIsRing DEF RingOK
<1>6. UNCHANGED <<r, w, histVars, rd, killed>>
  BY DEF Tab
<1>7. RingOK' /\ Readable'
  BY <1>1, <1>2, <1>3, <1>4, <1>5, <1>6, Sizes DEF RingOK, Readable
<1>8. HistOK' /\ ShortLines' /\ ReadersOK'
  BY <1>1, <1>6, ReadersStay, HistoryStays
<1> QED
  BY <1>7, <1>8, InvParts, PTL

LEMMA InvReadCall ==
    ASSUME ConsoleInv, NEW p \in Reader, ReadCall(p) PROVE ConsoleInv'
<1>1. RingOK /\ HistOK /\ ShortLines /\ ReadersOK /\ Readable
  BY InvParts
<1>2. RingOK' /\ Readable' /\ HistOK' /\ ShortLines'
  BY <1>1, HistoryStays DEF ReadCall, inputVars, RingOK, Readable
<1>3. PICK n \in ReadSizes : rd' = [rd EXCEPT ![p] = [pc |-> "read", n |-> n, got |-> 0]]
  BY DEF ReadCall
<1>4. n \in Nat /\ n > 0
  BY ConsoleAssumption
<1>5. rd' \in [Reader -> Rd] /\ UNCHANGED <<r, w, killed>>
  BY <1>1, <1>3, <1>4 DEF ReadersOK, Rd, ReadCall, inputVars
<1>6. Waiting' /\ MayTake'
  BY <1>1, <1>3, <1>4, <1>5 DEF ReadersOK, Waiting, MayTake, Rd
<1>7. ReadersOK'
  BY <1>1, <1>5, <1>6 DEF ReadersOK
<1> QED
  BY <1>2, <1>7, InvParts, PTL

LEMMA InvConsoleRead ==
    ASSUME ConsoleInv, NEW p \in Reader, ConsoleRead(p) PROVE ConsoleInv'
<1>1. RingOK /\ HistOK /\ ShortLines /\ ReadersOK /\ Readable
  BY InvParts
<1> DEFINE n == rd[p].n
           got == rd[p].got
           k == Taken(n, got).k
           done == Taken(n, got).done
<1>2. rd[p].pc = "read" /\ r # w /\ UNCHANGED <<buf, w, e, histVars, killed>>
  BY DEF ConsoleRead
<1>3. r' = r + k
  BY DEF ConsoleRead
<1>4. rd' = [rd EXCEPT ![p] = IF done THEN [pc |-> "idle", n |-> 0, got |-> 0]
                              ELSE [pc |-> "read", n |-> n - k, got |-> got + k]]
  BY <1>1 DEF ConsoleRead, ReadersOK
<1>5. n \in Nat \ {0} /\ got \in Nat
  BY <1>1, <1>2 DEF ReadersOK, MayTake, Rd
<1> HIDE DEF n, got
<1>6. k \in Nat /\ r + k <= w /\ k <= n /\ (~done => k < n)
  BY <1>1, <1>2, <1>5, TakenBounds
<1> HIDE DEF k, done
<1>7. RingOK' /\ Readable'
  BY <1>1, <1>2, <1>3, <1>6, ConsoleAssumption DEF RingOK, Readable
<1>8. HistOK' /\ ShortLines'
  BY <1>1, <1>2, HistoryStays
<1>9. rd'[p] \in Rd /\ rd'[p].pc \in {"idle", "read"} /\ (rd'[p].pc # "idle" => rd'[p].n > 0)
  <2>1. CASE done
    BY <1>1, <1>4, <2>1 DEF ReadersOK, Rd
  <2>2. CASE ~done
    <3>1. n - k \in Nat /\ n - k > 0 /\ got + k \in Nat
      BY <1>5, <1>6, <2>2
    <3>2. rd'[p] = [pc |-> "read", n |-> n - k, got |-> got + k]
      BY <1>1, <1>4, <2>2 DEF ReadersOK
    <3> QED BY <3>1, <3>2 DEF Rd
  <2> QED BY <2>1, <2>2
<1>10. \A q \in Reader \ {p} : rd'[q] = rd[q] /\ rd[q].pc \notin {"sleep", "asleep"}
  BY <1>1, <1>2, <1>4 DEF ReadersOK, Waiting
<1>11. rd' \in [Reader -> Rd]
  BY <1>1, <1>4, <1>9, <1>10 DEF ReadersOK
<1>12. Waiting' /\ MayTake'
  BY <1>1, <1>9, <1>10 DEF ReadersOK, Waiting, MayTake
<1>13. ReadersOK'
  BY <1>1, <1>2, <1>11, <1>12 DEF ReadersOK
<1> QED
  BY <1>7, <1>8, <1>13, InvParts, PTL

(* The other steps of a reader change only its own label, and killed.       *)
LEMMA InvReaderStep ==
    ASSUME ConsoleInv, NEW p \in Reader, ReadEmpty(p) \/ Sleep(p) \/ Kill(p)
    PROVE  ConsoleInv'
<1>1. RingOK /\ HistOK /\ ShortLines /\ ReadersOK /\ Readable
  BY InvParts
<1>2. UNCHANGED <<inputVars, histVars>>
  BY DEF ReadEmpty, Sleep, Kill
<1>3. RingOK' /\ Readable' /\ HistOK' /\ ShortLines'
  BY <1>1, <1>2, HistoryStays DEF inputVars, RingOK, Readable
<1>4. killed' \in [Reader -> BOOLEAN]
  BY <1>1, Zenon DEF ReadEmpty, Sleep, Kill, ReadersOK
<1>5. \A q \in Reader \ {p} : rd'[q] = rd[q]
  BY <1>1 DEF ReadersOK, ReadEmpty, Sleep, Kill
<1>6. /\ rd'[p] \in Rd
      /\ rd'[p].pc \in {"sleep", "asleep"} => r = w
      /\ rd'[p].pc # "idle" => rd'[p].n > 0
  <2>1. CASE ReadEmpty(p)
    <3>1. rd'[p] = [pc |-> "idle", n |-> 0, got |-> 0]
          \/ rd'[p] = [rd[p] EXCEPT !.pc = "sleep"]
      BY <1>1, <2>1 DEF ReadersOK, ReadEmpty
    <3>2. r = w /\ rd[p].pc = "read"
      BY <2>1 DEF ReadEmpty
    <3> QED BY <1>1, <3>1, <3>2 DEF ReadersOK, Rd, MayTake
  <2>2. CASE Sleep(p)
    <3>1. rd'[p] = [rd[p] EXCEPT !.pc = "asleep"] /\ rd[p].pc = "sleep"
      BY <1>1, <2>2 DEF ReadersOK, Sleep
    <3> QED BY <1>1, <3>1 DEF ReadersOK, Rd, MayTake, Waiting
  <2>3. CASE Kill(p)
    <3>1. rd'[p] = [rd[p] EXCEPT !.pc = IF rd[p].pc = "asleep" THEN "read" ELSE rd[p].pc]
      BY <1>1, <2>3 DEF ReadersOK, Kill
    <3>2. rd[p].pc # "idle"
      BY <2>3 DEF Kill
    <3> QED BY <1>1, <3>1, <3>2 DEF ReadersOK, Rd, MayTake, Waiting
  <2> QED BY <2>1, <2>2, <2>3
<1>7. rd' \in [Reader -> Rd]
  <2>1. \E x : rd' = [rd EXCEPT ![p] = x]
    BY DEF ReadEmpty, Sleep, Kill
  <2> QED BY <1>1, <1>5, <1>6, <2>1 DEF ReadersOK
<1>8. Waiting' /\ MayTake'
  BY <1>1, <1>2, <1>5, <1>6 DEF ReadersOK, Waiting, MayTake, inputVars
<1>9. ReadersOK'
  BY <1>4, <1>7, <1>8 DEF ReadersOK
<1> QED
  BY <1>3, <1>9, InvParts, PTL

(* The console keeps ConsoleInv in every reachable state: keyboard          *)
(* interrupts, readers and kill() in any order.                             *)
THEOREM ConsoleInvariant == Spec => []ConsoleInv
<1>1. ConsoleInv /\ [Next]_vars => ConsoleInv'
  <2> SUFFICES ASSUME ConsoleInv, [Next]_vars PROVE ConsoleInv'
    OBVIOUS
  <2>1. ASSUME Unlocked, ConsoleIntr PROVE ConsoleInv'
    BY <2>1, InvKey, InvUp, InvDown, InvKillLine, InvBackspace, InvTab DEF ConsoleIntr
  <2>2. ASSUME NEW p \in Reader, Read(p) PROVE ConsoleInv'
    BY <2>2, InvReadCall, InvConsoleRead, InvReaderStep DEF Read
  <2>3. ASSUME NEW p \in Reader, Sleep(p) \/ Kill(p) PROVE ConsoleInv'
    BY <2>3, InvReaderStep
  <2>4. CASE UNCHANGED vars
    <3>1. RingOK /\ HistOK /\ ShortLines /\ ReadersOK /\ Readable
      BY InvParts
    <3>2. RingOK' /\ Readable'
      BY <2>4, <3>1 DEF vars, inputVars, RingOK, Readable
    <3>3. HistOK' /\ ShortLines' /\ ReadersOK'
      BY <2>4, <3>1, HistoryStays, ReadersStay DEF vars, inputVars
    <3> QED BY <3>2, <3>3, InvParts, PTL
  <2> QED
    BY <2>1, <2>2, <2>3, <2>4 DEF Next
<1> QED
  BY <1>1, InvInit, PTL DEF Spec

(* FullIsReadable, for every size of the ring: however keys, recalls and    *)
(* completions follow each other, a full ring holds a committed character,  *)
(* so that the console cannot be stuck with a line no newline can end.      *)
THEOREM NeverStuckFull == Spec => []FullIsReadable
<1>1. ConsoleInv => FullIsReadable
  BY DEF ConsoleInv, Readable, FullIsReadable
<1> QED
  BY <1>1, ConsoleInvariant, PTL

(* SleeperHasNothing, for any number of readers: consoleintr() wakes them   *)
(* on every commit, and none goes to sleep past one.                        *)
THEOREM ReadersAreWoken == Spec => []SleeperHasNothing
<1>1. ConsoleInv => SleeperHasNothing
  BY DEF ConsoleInv, Waiting, SleeperHasNothing
<1> QED
  BY <1>1, ConsoleInvariant, PTL

(***************************************************************************)
(* The console is a line editor: Console implements Tty.                   *)
(***************************************************************************)

(* Remainders of numbers that differ by a multiple of n.                    *)
LEMMA ModSmall ==
    ASSUME NEW n \in Nat \ {0}, NEW a \in Int
    PROVE  /\ 0 <= a /\ a < n => a % n = a
           /\ n <= a /\ a < 2 * n => a % n = a - n
           /\ -n <= a /\ a < 0 => a % n = a + n
           /\ a % n \in 0..n-1
<1>1. 0 <= a /\ a < n => a % n = a
  OBVIOUS
<1>2. n <= a /\ a < 2 * n => a % n = a - n
  OBVIOUS
<1>3. -n <= a /\ a < 0 => a % n = a + n
  OBVIOUS
<1>4. a % n \in 0..n-1
  OBVIOUS
<1> QED
  BY <1>1, <1>2, <1>3, <1>4

LEMMA ModCofactor ==
    ASSUME NEW n \in Nat \ {0}, NEW a \in Int
    PROVE  \E q \in Int : a = n * q + (a % n)
<1>1. a \div n \in Int
  OBVIOUS
<1>2. a = n * (a \div n) + (a % n)
  BY SMTT(30)
<1> QED
  BY <1>1, <1>2

LEMMA ModMultiple ==
    ASSUME NEW n \in Nat \ {0}, NEW q \in Int, NEW a \in Int
    PROVE  (a + n * q) % n = a % n
<1>1. ASSUME NEW t \in Int, NEW b \in 0..n-1 PROVE (n * t + b) % n = b
  OBVIOUS
<1>2. PICK p \in Int : a = n * p + (a % n)
  BY ModCofactor
<1>3. a % n \in 0..n-1
  BY ModSmall
<1> DEFINE b == a % n
<1>4. a + n * q = n * (p + q) + b
  BY <1>2, <1>3
<1>5. (n * (p + q) + b) % n = b
  <2>1. b \in 0..n-1 /\ p + q \in Int
    BY <1>3
  <2> HIDE DEF b
  <2> QED BY <1>1, <2>1
<1> QED
  BY <1>4, <1>5

(* A remainder may be taken before an addition.                             *)
LEMMA ModSum ==
    ASSUME NEW n \in Nat \ {0}, NEW a \in Int, NEW b \in Int
    PROVE  ((a % n) + b) % n = (a + b) % n
<1>1. PICK q \in Int : a = n * q + (a % n)
  BY ModCofactor
<1>2. PICK c \in Int : c = a % n
  BY ModSmall
<1>3. PICK m \in Int : m = n * q
  OBVIOUS
<1>4. a + b = (c + b) + n * q
  BY <1>1, <1>2, <1>3
<1>5. ((c + b) + n * q) % n = (c + b) % n
  <2>1. c + b \in Int
    OBVIOUS
  <2> QED BY <2>1, ModMultiple
<1> QED
  BY <1>2, <1>4, <1>5

(* Text(), as a function of the ring.                                       *)
Chars(g, a, b) == [i \in 1..(b - a) |-> g[(a + i - 1) % INPUT_BUF]]

LEMMA TextIs == \A a, b : Text(a, b) = Chars(buf, a, b)
BY DEF Text, Chars

LEMMA CharsSeq ==
    ASSUME NEW g \in [Ring -> Char], NEW a \in Nat, NEW b \in Nat, a <= b
    PROVE  /\ Chars(g, a, b) \in Seq(Char) /\ Len(Chars(g, a, b)) = b - a
           /\ \A i \in 1..(b - a) : Chars(g, a, b)[i] = g[(a + i - 1) % INPUT_BUF]
<1>1. \A i \in 1..(b - a) : g[(a + i - 1) % INPUT_BUF] \in Char
  <2> SUFFICES ASSUME NEW i \in 1..(b - a) PROVE g[(a + i - 1) % INPUT_BUF] \in Char
    OBVIOUS
  <2>1. a + i - 1 \in Int
    OBVIOUS
  <2> QED BY <2>1, SlotInRing
<1>2. b - a \in Nat
  OBVIOUS
<1> QED
  BY <1>1, <1>2 DEF Chars

LEMMA NoChars == ASSUME NEW g, NEW a \in Nat PROVE Chars(g, a, a) = <<>>
<1>1. a - a = 0
  OBVIOUS
<1> QED
  BY <1>1 DEF Chars

(* What a position of the ring holds after s is stored from a on.           *)
LEMMA StoredAt ==
    ASSUME buf \in [Ring -> Char], NEW a \in Nat, NEW s \in Seq(Char), NEW x \in Nat,
           a + Len(s) <= x + INPUT_BUF, x < a + INPUT_BUF
    PROVE  Stored(a, s)[x % INPUT_BUF] =
             IF a <= x /\ x < a + Len(s) THEN s[x - a + 1] ELSE buf[x % INPUT_BUF]
<1> DEFINE j == x % INPUT_BUF
           d == x - a
<1>1. INPUT_BUF \in Nat \ {0} /\ Len(s) \in Nat /\ x \in Int /\ -a \in Int /\ d \in Int
  BY Sizes
<1>2. j \in Ring /\ j \in Int
  <2>1. j \in Ring
    BY <1>1, SlotInRing
  <2> HIDE DEF j
  <2> QED BY <1>1, <2>1 DEF Ring
<1>3. (j - a) % INPUT_BUF = d % INPUT_BUF
  <2>1. (j + (-a)) % INPUT_BUF = (x + (-a)) % INPUT_BUF
    <3> DEFINE m == -a
    <3>1. m \in Int
      BY <1>1
    <3> HIDE DEF m
    <3>2. (j + m) % INPUT_BUF = (x + m) % INPUT_BUF
      BY <1>1, <3>1, ModSum
    <3> QED BY <3>2 DEF m
  <2>2. j + (-a) = j - a /\ x + (-a) = d
    BY <1>1, <1>2
  <2> QED BY <2>1, <2>2
<1>4. d % INPUT_BUF = IF d < 0 THEN d + INPUT_BUF ELSE d
  <2>1. -INPUT_BUF <= d /\ d < INPUT_BUF
    BY <1>1
  <2> HIDE DEF d
  <2>2. d < 0 => d % INPUT_BUF = d + INPUT_BUF
    BY <1>1, <2>1, ModSmall
  <2>3. ~(d < 0) => 0 <= d
    BY <1>1
  <2>4. ~(d < 0) => d % INPUT_BUF = d
    BY <1>1, <2>1, <2>3, ModSmall
  <2> QED BY <2>2, <2>4
<1>5. Stored(a, s)[j] = IF (j - a) % INPUT_BUF < Len(s) THEN s[((j - a) % INPUT_BUF) + 1]
                        ELSE buf[j]
  BY <1>2 DEF Stored, Ring
<1> HIDE DEF j
<1>6. CASE d < 0
  <2>1. (j - a) % INPUT_BUF = d + INPUT_BUF /\ ~(d + INPUT_BUF < Len(s)) /\ ~(a <= x)
    BY <1>1, <1>3, <1>4, <1>6
  <2> QED BY <1>5, <2>1 DEF j
<1>7. CASE ~(d < 0)
  <2>1. (j - a) % INPUT_BUF = d
    BY <1>1, <1>3, <1>4, <1>7
  <2>2. a <= x /\ (x < a + Len(s) <=> d < Len(s))
    BY <1>1, <1>7
  <2> QED BY <1>5, <2>1, <2>2 DEF j
<1> QED
  BY <1>6, <1>7

(* Text that lies before what is stored, and is not overwritten.            *)
LEMMA CharsKept ==
    ASSUME buf \in [Ring -> Char], NEW a \in Nat, NEW s \in Seq(Char),
           NEW p \in Nat, NEW q \in Nat, q <= a, a + Len(s) <= p + INPUT_BUF
    PROVE  Chars(Stored(a, s), p, q) = Chars(buf, p, q)
<1> SUFFICES ASSUME NEW i \in 1..(q - p)
             PROVE  Stored(a, s)[(p + i - 1) % INPUT_BUF] = buf[(p + i - 1) % INPUT_BUF]
  BY DEF Chars
<1>1. INPUT_BUF \in Nat /\ INPUT_BUF > 0 /\ Len(s) \in Nat
  BY Sizes
<1>2. PICK x \in Nat : x = p + i - 1
  OBVIOUS
<1>3. a + Len(s) <= x + INPUT_BUF /\ x < a + INPUT_BUF /\ ~(a <= x)
  BY <1>1, <1>2
<1> QED
  BY <1>2, <1>3, StoredAt

(* Text that ends with what is stored.                                      *)
LEMMA CharsStored ==
    ASSUME buf \in [Ring -> Char], NEW a \in Nat, NEW s \in Seq(Char),
           NEW p \in Nat, p <= a, a + Len(s) <= p + INPUT_BUF
    PROVE  Chars(Stored(a, s), p, a + Len(s)) = Chars(buf, p, a) \o s
<1>1. INPUT_BUF \in Nat /\ INPUT_BUF > 0 /\ Len(s) \in Nat
  BY Sizes
<1>2. PICK b \in Nat : b = a + Len(s)
  BY <1>1
<1>3. PICK g : g = Stored(a, s)
  OBVIOUS
<1>4. g \in [Ring -> Char]
  BY <1>3, StoredIsRing
<1>5. PICK t : t = Chars(g, p, b)
  OBVIOUS
<1>6. PICK u : u = Chars(buf, p, a)
  OBVIOUS
<1>7. /\ t \in Seq(Char) /\ Len(t) = b - p
      /\ \A i \in 1..(b - p) : t[i] = g[(p + i - 1) % INPUT_BUF]
  <2>1. p <= b
    BY <1>1, <1>2
  <2> QED BY <1>4, <1>5, <2>1, CharsSeq
<1>8. /\ u \in Seq(Char) /\ Len(u) = a - p
      /\ \A i \in 1..(a - p) : u[i] = buf[(p + i - 1) % INPUT_BUF]
  BY <1>6, CharsSeq
<1>9. /\ u \o s \in Seq(Char) /\ Len(u \o s) = Len(u) + Len(s)
      /\ \A i \in 1..Len(u) + Len(s) :
            (u \o s)[i] = IF i <= Len(u) THEN u[i] ELSE s[i - Len(u)]
  BY <1>8, ConcatProperties, Zenon
<1>10. Len(u) + Len(s) = b - p
  BY <1>1, <1>2, <1>8
<1>11. ASSUME NEW i \in 1..(b - p) PROVE t[i] = (u \o s)[i]
  <2>1. PICK x \in Nat : x = p + i - 1
    OBVIOUS
  <2>2. a + Len(s) <= x + INPUT_BUF /\ x < a + INPUT_BUF /\ x < a + Len(s)
    BY <1>1, <1>2, <2>1
  <2>3. g[x % INPUT_BUF] = IF a <= x /\ x < a + Len(s) THEN s[x - a + 1]
                           ELSE buf[x % INPUT_BUF]
    BY <1>3, <2>2, StoredAt
  <2>4. t[i] = g[x % INPUT_BUF]
    BY <1>7, <2>1
  <2>5. CASE a <= x
    <3>1. x - a + 1 = i - Len(u) /\ ~(i <= Len(u))
      BY <1>8, <2>1, <2>5
    <3> QED BY <1>9, <1>10, <2>2, <2>3, <2>4, <2>5, <3>1
  <2>6. CASE ~(a <= x)
    <3>1. i <= Len(u) /\ i \in 1..(a - p)
      BY <1>8, <2>1, <2>6
    <3>2. u[i] = buf[x % INPUT_BUF]
      BY <1>8, <2>1, <3>1
    <3> QED BY <1>9, <1>10, <2>3, <2>4, <2>6, <3>1, <3>2
  <2> QED BY <2>5, <2>6
<1>12. t = u \o s
  BY <1>7, <1>9, <1>10, <1>11, SeqEqual
<1> QED
  BY <1>2, <1>3, <1>5, <1>6, <1>12

(* Two pieces of text that follow each other.                               *)
LEMMA CharsJoined ==
    ASSUME NEW g \in [Ring -> Char], NEW p \in Nat, NEW q \in Nat, NEW b \in Nat,
           p <= q, q <= b
    PROVE  Chars(g, p, b) = Chars(g, p, q) \o Chars(g, q, b)
<1>1. PICK t : t = Chars(g, p, b)
  OBVIOUS
<1>2. PICK u : u = Chars(g, p, q)
  OBVIOUS
<1>3. PICK v : v = Chars(g, q, b)
  OBVIOUS
<1>4. /\ t \in Seq(Char) /\ Len(t) = b - p
      /\ \A i \in 1..(b - p) : t[i] = g[(p + i - 1) % INPUT_BUF]
  <2>1. p <= b
    OBVIOUS
  <2> QED BY <1>1, <2>1, CharsSeq
<1>5. /\ u \in Seq(Char) /\ Len(u) = q - p
      /\ \A i \in 1..(q - p) : u[i] = g[(p + i - 1) % INPUT_BUF]
  BY <1>2, CharsSeq
<1>6. /\ v \in Seq(Char) /\ Len(v) = b - q
      /\ \A i \in 1..(b - q) : v[i] = g[(q + i - 1) % INPUT_BUF]
  BY <1>3, CharsSeq
<1>7. /\ u \o v \in Seq(Char) /\ Len(u \o v) = Len(u) + Len(v)
      /\ \A i \in 1..Len(u) + Len(v) :
            (u \o v)[i] = IF i <= Len(u) THEN u[i] ELSE v[i - Len(u)]
  BY <1>5, <1>6, ConcatProperties, Zenon
<1>8. Len(u) + Len(v) = b - p
  BY <1>5, <1>6
<1>9. ASSUME NEW i \in 1..(b - p) PROVE t[i] = (u \o v)[i]
  <2>1. CASE i <= q - p
    <3>1. i \in 1..(q - p)
      BY <2>1
    <3> QED BY <1>4, <1>5, <1>7, <1>8, <2>1, <3>1
  <2>2. CASE ~(i <= q - p)
    <3>1. i - Len(u) \in 1..(b - q) /\ q + (i - Len(u)) - 1 = p + i - 1
      BY <1>5, <2>2
    <3>2. v[i - Len(u)] = g[(p + i - 1) % INPUT_BUF]
      BY <1>6, <3>1
    <3> QED BY <1>4, <1>5, <1>7, <1>8, <2>2, <3>2
  <2> QED BY <2>1, <2>2
<1>10. t = u \o v
  BY <1>4, <1>7, <1>8, <1>9, SeqEqual
<1> QED
  BY <1>1, <1>2, <1>3, <1>10

(* A part of a text.                                                        *)
LEMMA CharsPart ==
    ASSUME NEW g \in [Ring -> Char], NEW p \in Nat, NEW b \in Nat, p <= b,
           NEW k \in 0..(b - p)
    PROVE  /\ SubSeq(Chars(g, p, b), k + 1, b - p) = Chars(g, p + k, b)
           /\ SubSeq(Chars(g, p, b), 1, k) = Chars(g, p, p + k)
<1>1. PICK t : t = Chars(g, p, b)
  OBVIOUS
<1>2. /\ t \in Seq(Char) /\ Len(t) = b - p
      /\ \A i \in 1..(b - p) : t[i] = g[(p + i - 1) % INPUT_BUF]
  BY <1>1, CharsSeq
<1>3. PICK q \in Nat : q = p + k
  OBVIOUS
<1>4. SubSeq(t, k + 1, b - p) = [i \in 1..(b - q) |-> t[k + i]]
  BY <1>2, <1>3
<1>5. SubSeq(t, 1, k) = [i \in 1..(q - p) |-> t[i]]
  BY <1>2, <1>3
<1>6. ASSUME NEW i \in 1..(b - q) PROVE t[k + i] = g[(q + i - 1) % INPUT_BUF]
  <2>1. k + i \in 1..(b - p) /\ p + (k + i) - 1 = q + i - 1
    BY <1>3
  <2> QED BY <1>2, <2>1
<1>7. \A i \in 1..(q - p) : t[i] = g[(p + i - 1) % INPUT_BUF]
  BY <1>2, <1>3
<1> QED
  BY <1>1, <1>3, <1>4, <1>5, <1>6, <1>7 DEF Chars

(***************************************************************************)
(* The history ring is the list of the last lines.                         *)
(***************************************************************************)
PastOf(h, k, n) == [i \in 1..n |-> h[(k - n + HIST_MAX + i - 1) % HIST_MAX]]

LEMMA PastIs == Past = PastOf(history, hist_head, hist_count)
BY DEF Past, PastOf

LEMMA PastSeq ==
    ASSUME NEW S, NEW h \in [0..(HIST_MAX - 1) -> S], NEW k \in 0..(HIST_MAX - 1),
           NEW n \in 0..HIST_MAX
    PROVE  /\ PastOf(h, k, n) \in Seq(S) /\ Len(PastOf(h, k, n)) = n
           /\ \A i \in 1..n : PastOf(h, k, n)[i] = h[(k - n + HIST_MAX + i - 1) % HIST_MAX]
<1>1. HIST_MAX \in Nat \ {0}
  BY Sizes
<1>2. \A i \in 1..n : h[(k - n + HIST_MAX + i - 1) % HIST_MAX] \in S
  <2> SUFFICES ASSUME NEW i \in 1..n
               PROVE  h[(k - n + HIST_MAX + i - 1) % HIST_MAX] \in S
    OBVIOUS
  <2>1. PICK x \in Int : x = k - n + HIST_MAX + i - 1
    BY <1>1
  <2>2. x % HIST_MAX \in 0..(HIST_MAX - 1)
    BY <1>1, ModSmall
  <2> QED BY <2>1, <2>2
<1>3. n \in Nat
  BY <1>1
<1> QED
  BY <1>2, <1>3 DEF PastOf

(* history_add(): the line is appended, and the oldest dropped if there are *)
(* too many.                                                                *)
LEMMA PastAdded ==
    ASSUME HistOK, NEW s \in Seq(Char),
           history' = [history EXCEPT ![hist_head] = s],
           hist_head' = (hist_head + 1) % HIST_MAX,
           hist_count' = IF hist_count + 1 <= HIST_MAX THEN hist_count + 1 ELSE HIST_MAX
    PROVE  Past' = SubSeq(Append(Past, s), IF hist_count + 1 > HIST_MAX THEN 2 ELSE 1,
                          hist_count + 1)
<1> DEFINE S == Seq(Char)
<1> HIDE DEF S
<1>1. PICK h \in [0..(HIST_MAX - 1) -> S] : h = history
  BY DEF HistOK, S
<1>2. PICK k \in 0..(HIST_MAX - 1) : k = hist_head
  BY DEF HistOK
<1>3. PICK n \in 0..HIST_MAX : n = hist_count
  BY DEF HistOK
<1>4. PICK m \in Nat : m = hist_count'
  BY Sizes DEF HistOK
<1>5. m = IF n + 1 <= HIST_MAX THEN n + 1 ELSE HIST_MAX
  BY <1>3, <1>4
<1>6. h \in [0..(HIST_MAX - 1) -> S] /\ s \in S
  BY DEF S
<1>7. HIST_MAX \in Nat \ {0} /\ n \in Nat /\ m \in 0..HIST_MAX
  BY <1>5, Sizes
<1>8. PICK c \in {1, 2} : c = IF n + 1 > HIST_MAX THEN 2 ELSE 1
  OBVIOUS
<1>9. n + 1 = m + c - 1
  BY <1>7, <1>8, <1>5
<1>10. PICK h2 : h2 = [h EXCEPT ![k] = s] /\ h2 = history'
  BY <1>1, <1>2
<1>11. PICK k2 \in Int : k2 = (k + 1) % HIST_MAX /\ k2 = hist_head' /\ k2 \in 0..(HIST_MAX - 1)
  <2>1. k + 1 \in Int
    BY <1>7
  <2>2. (k + 1) % HIST_MAX \in 0..(HIST_MAX - 1)
    BY <1>7, <2>1, ModSmall
  <2> QED BY <1>7, <1>2, <2>2
<1>12. PICK old : old = PastOf(h, k, n)
  OBVIOUS
<1>13. /\ old \in Seq(S) /\ Len(old) = n
      /\ \A i \in 1..n : old[i] = h[(k - n + HIST_MAX + i - 1) % HIST_MAX]
  BY <1>6, <1>12, PastSeq
<1>14. PICK new : new = PastOf(h2, k2, m)
  OBVIOUS
<1>15. /\ new \in Seq(S) /\ Len(new) = m
      /\ \A i \in 1..m : new[i] = h2[(k2 - m + HIST_MAX + i - 1) % HIST_MAX]
  <2>1. h2 \in [0..(HIST_MAX - 1) -> S]
    BY <1>6, <1>10
  <2>2. k2 \in 0..(HIST_MAX - 1) /\ m \in 0..HIST_MAX
    BY <1>7, <1>11
  <2>3. /\ PastOf(h2, k2, m) \in Seq(S) /\ Len(PastOf(h2, k2, m)) = m
        /\ \A i \in 1..m :
              PastOf(h2, k2, m)[i] = h2[(k2 - m + HIST_MAX + i - 1) % HIST_MAX]
    <3>1. \A i \in 1..m : h2[(k2 - m + HIST_MAX + i - 1) % HIST_MAX] \in S
      <4> SUFFICES ASSUME NEW i \in 1..m
                   PROVE  h2[(k2 - m + HIST_MAX + i - 1) % HIST_MAX] \in S
        OBVIOUS
      <4>1. PICK x \in Int : x = k2 - m + HIST_MAX + i - 1
        BY <1>7
      <4>2. x % HIST_MAX \in 0..(HIST_MAX - 1)
        BY <1>7, ModSmall
      <4> QED BY <2>1, <4>1, <4>2
    <3> QED BY <1>7, <3>1 DEF PastOf
  <2> QED BY <1>14, <2>3
<1>16. PICK all : all = Append(old, s)
  OBVIOUS
<1>17. /\ all \in Seq(S) /\ Len(all) = n + 1 /\ all[n + 1] = s
       /\ \A i \in 1..n : all[i] = old[i]
  BY <1>6, <1>13, <1>16
<1>18. SubSeq(all, c, n + 1) = [i \in 1..m |-> all[i + c - 1]]
  BY <1>7, <1>8, <1>9, <1>17
<1>19. ASSUME NEW i \in 1..m PROVE new[i] = all[i + c - 1]
  <2>1. PICK l \in 1..(n + 1) : l = i + c - 1
    BY <1>7, <1>8, <1>9
  <2>2. PICK x \in Int : x = k - n + HIST_MAX + l - 1
    BY <1>7
  <2>3. (k2 - m + HIST_MAX + i - 1) % HIST_MAX = x % HIST_MAX
    <3>1. PICK d \in Int : d = HIST_MAX + i - 1 - m
      BY <1>7
    <3>2. (((k + 1) % HIST_MAX) + d) % HIST_MAX = ((k + 1) + d) % HIST_MAX
      <4>1. k + 1 \in Int
        BY <1>7
      <4> QED BY <1>7, <4>1, ModSum
    <3>3. (k + 1) + d = x /\ k2 + d = k2 - m + HIST_MAX + i - 1
      BY <1>7, <1>9, <2>1, <2>2, <3>1
    <3> QED BY <1>11, <3>2, <3>3
  <2>4. new[i] = h2[x % HIST_MAX]
    BY <1>15, <2>3
  <2>5. CASE l = n + 1
    <3>1. x = k + HIST_MAX /\ HIST_MAX <= x /\ x < 2 * HIST_MAX
      BY <1>7, <2>2, <2>5
    <3>2. x % HIST_MAX = x - HIST_MAX
      BY <1>7, <3>1, ModSmall
    <3>3. x - HIST_MAX = k
      BY <1>7, <3>1
    <3>4. new[i] = s
      BY <1>6, <1>10, <2>4, <3>2, <3>3
    <3> QED BY <1>17, <2>1, <2>5, <3>4
  <2>6. CASE l # n + 1
    <3>1. l \in 1..n
      BY <2>6
    <3>2. x # k + HIST_MAX /\ k < x /\ x < k + HIST_MAX
      BY <1>7, <1>8, <2>1, <2>2, <3>1
    <3>3. x % HIST_MAX # k
      <4>1. CASE x < HIST_MAX
        <5>1. 0 <= x
          BY <1>7, <3>2
        <5>2. x % HIST_MAX = x
          BY <1>7, <4>1, <5>1, ModSmall
        <5> QED BY <1>7, <3>2, <5>2
      <4>2. CASE ~(x < HIST_MAX)
        <5>1. HIST_MAX <= x /\ x < 2 * HIST_MAX
          BY <1>7, <3>2, <4>2
        <5>2. x % HIST_MAX = x - HIST_MAX
          BY <1>7, <5>1, ModSmall
        <5> QED BY <1>7, <3>2, <5>2
      <4> QED BY <4>1, <4>2
    <3>4. x % HIST_MAX \in 0..(HIST_MAX - 1)
      BY <1>7, ModSmall
    <3>5. h2[x % HIST_MAX] = h[x % HIST_MAX]
      BY <1>6, <1>10, <3>3, <3>4
    <3>6. old[l] = h[x % HIST_MAX]
      BY <1>13, <2>2, <3>1
    <3> QED BY <1>17, <2>1, <2>4, <3>1, <3>5, <3>6
  <2> QED BY <2>5, <2>6
<1>20. new = [i \in 1..m |-> new[i]]
  BY <1>14 DEF PastOf
<1>21. new = SubSeq(all, c, n + 1)
  BY <1>18, <1>19, <1>20
<1>22. old = Past /\ new = Past'
  BY <1>1, <1>2, <1>3, <1>4, <1>10, <1>11, <1>12, <1>14 DEF Past, PastOf
<1> QED
  BY <1>8, <1>3, <1>16, <1>21, <1>22

LEMMA PastGet ==
    ASSUME HistOK, NEW i \in 0..(hist_count - 1)
    PROVE  /\ HistoryGet(i) = Past[i + 1] /\ HistoryGet(i) \in Seq(Char)
           /\ \E j \in 0..(HIST_MAX - 1) : HistoryGet(i) = history[j]
<1>1. /\ HIST_MAX \in Nat \ {0} /\ hist_count \in Nat
      /\ hist_count \in 0..HIST_MAX /\ hist_head \in 0..(HIST_MAX - 1)
  BY Sizes DEF HistOK
<1>2. PICK x \in Int : x = hist_head - hist_count + HIST_MAX
  BY <1>1
<1>3. HistoryGet(i) = history[((x % HIST_MAX) + i) % HIST_MAX]
  BY <1>2 DEF HistoryGet
<1>4. ((x % HIST_MAX) + i) % HIST_MAX = (x + i) % HIST_MAX
  <2>1. i \in Int
    BY <1>1
  <2> QED BY <1>1, <2>1, ModSum
<1>5. Past[i + 1] = history[(hist_head - hist_count + HIST_MAX + (i + 1) - 1) % HIST_MAX]
  BY <1>1 DEF Past
<1>6. hist_head - hist_count + HIST_MAX + (i + 1) - 1 = x + i
  BY <1>1, <1>2
<1>7. (x + i) % HIST_MAX \in 0..(HIST_MAX - 1)
  <2>1. x + i \in Int
    BY <1>1
  <2> QED BY <1>1, <2>1, ModSmall
<1> QED
  BY <1>3, <1>4, <1>5, <1>6, <1>7 DEF HistOK

(***************************************************************************)
(* Lines.  A newline is committed when it is stored, so there is none in   *)
(* the line being edited, nor in a line of the history.                    *)
(***************************************************************************)
Clean(s) == \A i \in 1..Len(s) : s[i] # NL

LinesClean == Clean(Chars(buf, w, e)) /\ \A i \in 0..(HIST_MAX - 1) : Clean(history[i])

(* The position after the last newline of a sequence.                       *)
NewlinesIn(q) == {i \in 1..Len(q) : q[i] = NL}
LastNewline(q) == IF NewlinesIn(q) # {} THEN Max(NewlinesIn(q)) ELSE 0

LEMMA LastNewlineIs ==
    ASSUME NEW q \in Seq(Char)
    PROVE  /\ LastNewline(q) \in 0..Len(q)
           /\ \A i \in NewlinesIn(q) : i <= LastNewline(q)
           /\ LastNewline(q) # 0 => LastNewline(q) \in NewlinesIn(q)
<1>1. Len(q) \in Nat /\ NewlinesIn(q) \subseteq 1..Len(q)
  BY DEF NewlinesIn
<1>2. CASE NewlinesIn(q) = {}
  BY <1>1, <1>2 DEF LastNewline
<1>3. CASE NewlinesIn(q) # {}
  <2>1. NewlinesIn(q) \subseteq 0..Len(q)
    BY <1>1
  <2>2. /\ Max(NewlinesIn(q)) \in NewlinesIn(q)
        /\ \A y \in NewlinesIn(q) : y <= Max(NewlinesIn(q))
    BY <1>1, <1>3, <2>1, Greatest
  <2> QED BY <1>1, <1>3, <2>2 DEF LastNewline
<1> QED
  BY <1>2, <1>3

(* history_add() finds the unread part of the line: what follows the last   *)
(* newline that is committed and not read, and the edited line.             *)
LEMMA LineFound ==
    ASSUME RingOK, LinesClean
    PROVE  /\ Text(LineStart(e), e) =
                SubSeq(Chars(buf, r, w), LastNewline(Chars(buf, r, w)) + 1, w - r)
                \o Chars(buf, w, e)
           /\ Clean(Text(LineStart(e), e)) /\ Text(LineStart(e), e) \in Seq(Char)
<1>1. /\ buf \in [Ring -> Char] /\ r \in Nat /\ w \in Nat /\ e \in Nat
      /\ r <= w /\ w <= e /\ r <= e
  BY DEF RingOK
<1>2. PICK q : q = Chars(buf, r, w)
  OBVIOUS
<1>3. /\ q \in Seq(Char) /\ Len(q) = w - r
      /\ \A i \in 1..(w - r) : q[i] = buf[(r + i - 1) % INPUT_BUF]
  BY <1>1, <1>2, CharsSeq
<1>4. PICK l : l = Chars(buf, w, e)
  OBVIOUS
<1>5. /\ l \in Seq(Char) /\ Len(l) = e - w
      /\ \A i \in 1..(e - w) : l[i] = buf[(w + i - 1) % INPUT_BUF]
  BY <1>1, <1>4, CharsSeq
<1>6. \A i \in 1..(e - w) : l[i] # NL
  BY <1>4, <1>5 DEF LinesClean, Clean
<1>7. PICK j \in 0..(w - r) : j = LastNewline(q)
  BY <1>3, LastNewlineIs
<1> DEFINE S == {r} \cup {i \in (r + 1)..e : buf[(i - 1) % INPUT_BUF] = NL}
<1>8. S \subseteq 0..e /\ S # {} /\ S \subseteq Nat
  BY <1>1
<1>9. r + j \in S
  <2>1. CASE j = 0
    BY <1>1, <2>1
  <2>2. CASE j # 0
    <3>1. j \in NewlinesIn(q)
      BY <1>3, <1>7, <2>2, LastNewlineIs
    <3>2. j \in 1..(w - r) /\ q[j] = NL
      BY <1>3, <3>1 DEF NewlinesIn
    <3>3. PICK y \in Nat : y = r + j
      BY <1>1
    <3>4. buf[(y - 1) % INPUT_BUF] = NL
      <4>1. q[j] = buf[(r + j - 1) % INPUT_BUF]
        BY <1>3, <3>2
      <4>2. r + j - 1 = y - 1
        BY <1>1, <3>3
      <4> QED BY <3>2, <4>1, <4>2
    <3>5. y \in (r + 1)..e
      BY <1>1, <3>2, <3>3
    <3> QED BY <3>3, <3>4, <3>5
  <2> QED BY <2>1, <2>2
<1>10. ASSUME NEW y \in S PROVE y <= r + j
  <2>1. CASE y = r
    BY <1>1, <2>1
  <2>2. CASE y # r
    <3>1. y \in (r + 1)..e /\ buf[(y - 1) % INPUT_BUF] = NL
      BY <2>2
    <3>2. ~(w < y)
      <4> SUFFICES ASSUME w < y PROVE FALSE
        OBVIOUS
      <4>1. y - w \in 1..(e - w) /\ w + (y - w) - 1 = y - 1
        BY <1>1, <3>1
      <4> QED BY <1>5, <1>6, <3>1, <4>1
    <3>3. y - r \in 1..(w - r) /\ r + (y - r) - 1 = y - 1
      BY <1>1, <3>1, <3>2
    <3>4. q[y - r] = NL
      BY <1>3, <3>1, <3>3
    <3>5. y - r \in NewlinesIn(q)
      BY <1>3, <3>3, <3>4 DEF NewlinesIn
    <3>6. y - r <= j
      BY <1>3, <1>7, <3>5, LastNewlineIs
    <3> QED BY <1>1, <1>8, <3>6
  <2> QED BY <2>1, <2>2
<1>11. LineStart(e) = Max(S)
  BY DEF LineStart
<1> HIDE DEF S
<1>12. Max(S) \in S /\ \A y \in S : y <= Max(S)
  BY <1>1, <1>8, Greatest
<1>13. PICK p \in Nat : p = r + j
  BY <1>1
<1>14. Max(S) = p
  <2>1. Max(S) <= p /\ p <= Max(S)
    BY <1>9, <1>10, <1>12, <1>13
  <2>2. Max(S) \in Nat
    BY <1>8, <1>12
  <2> QED BY <2>1, <2>2
<1>15. p <= w /\ p <= e /\ r <= p
  BY <1>1, <1>13
<1>16. Text(LineStart(e), e) = Chars(buf, p, e)
  BY <1>11, <1>14, TextIs
<1>17. Chars(buf, p, e) = Chars(buf, p, w) \o l
  BY <1>1, <1>4, <1>15, CharsJoined
<1>18. Chars(buf, p, w) = SubSeq(q, j + 1, w - r)
  BY <1>1, <1>2, <1>13, CharsPart
<1>19. /\ Chars(buf, p, e) \in Seq(Char) /\ Len(Chars(buf, p, e)) = e - p
       /\ \A i \in 1..(e - p) : Chars(buf, p, e)[i] = buf[(p + i - 1) % INPUT_BUF]
  BY <1>1, <1>15, CharsSeq
<1>20. ASSUME NEW i \in 1..(e - p) PROVE Chars(buf, p, e)[i] # NL
  <2> SUFFICES ASSUME Chars(buf, p, e)[i] = NL PROVE FALSE
    OBVIOUS
  <2>1. buf[(p + i - 1) % INPUT_BUF] = NL
    BY <1>19
  <2>2. p + i \in (r + 1)..e
    BY <1>1, <1>15
  <2>3. p + i \in S
    BY <2>1, <2>2 DEF S
  <2>4. p + i <= p
    BY <1>12, <1>14, <2>3
  <2> QED BY <2>4
<1>21. Clean(Chars(buf, p, e))
  BY <1>19, <1>20 DEF Clean
<1> QED
  BY <1>2, <1>4, <1>7, <1>16, <1>17, <1>18, <1>19, <1>21

(***************************************************************************)
(* Each step of the console is one of the line editor.                     *)
(***************************************************************************)
TtyInv == ConsoleInv /\ LinesClean

LEMMA TtyParts ==
    ASSUME TtyInv
    PROVE  /\ RingOK /\ HistOK /\ ShortLines /\ LinesClean
           /\ buf \in [Ring -> Char] /\ r \in Nat /\ w \in Nat /\ e \in Nat
           /\ r <= w /\ w <= e /\ e - r <= INPUT_BUF
           /\ INPUT_BUF \in Nat /\ INPUT_BUF > 0 /\ HIST_MAX \in Nat /\ HIST_MAX > 0
           /\ hist_count \in 0..HIST_MAX /\ hist_head \in 0..(HIST_MAX - 1)
           /\ hist_pos \in -1..(hist_count - 1)
<1>1. RingOK /\ HistOK /\ ShortLines /\ LinesClean
  BY InvParts DEF TtyInv
<1> QED
  BY <1>1, Sizes DEF RingOK, HistOK

LEMMA Queue ==
    ASSUME TtyInv
    PROVE  /\ Text(r, w) = Chars(buf, r, w) /\ Text(w, e) = Chars(buf, w, e)
           /\ Text(r, w) \in Seq(Char) /\ Len(Text(r, w)) = w - r
           /\ Text(w, e) \in Seq(Char) /\ Len(Text(w, e)) = e - w
           /\ Clean(Text(w, e))
<1>1. Text(r, w) = Chars(buf, r, w) /\ Text(w, e) = Chars(buf, w, e)
  BY TextIs
<1>2. Clean(Chars(buf, w, e))
  BY DEF TtyInv, LinesClean
<1> QED
  BY <1>1, <1>2, TtyParts, CharsSeq

LEMMA NextText ==
    /\ Text(r, w)' = Chars(buf', r', w') /\ Text(w, e)' = Chars(buf', w', e')
    /\ Past' = PastOf(history', hist_head', hist_count')
BY DEF Text, Chars, Past, PastOf

(* The parts of the state that a step leaves alone.                         *)
LEMMA HistKept ==
    ASSUME UNCHANGED <<history, hist_count, hist_head>> PROVE Past' = Past
BY DEF Past

LEMMA CleanAppend ==
    ASSUME NEW s \in Seq(Char), NEW c \in Char, Clean(s), c # NL
    PROVE  Clean(Append(s, c))
BY DEF Clean

(* A character is typed, without a commit.                                  *)
LEMMA KeyTypes ==
    ASSUME TtyInv, NEW c \in Char, Key(c), ~Commits(c)
    PROVE  T!Type(c) /\ LinesClean'
<1>1. /\ RingOK /\ HistOK /\ LinesClean /\ buf \in [Ring -> Char]
      /\ r \in Nat /\ w \in Nat /\ e \in Nat /\ r <= w /\ w <= e
      /\ INPUT_BUF \in Nat /\ INPUT_BUF > 0
  BY TtyParts
<1>2. /\ e - r < INPUT_BUF /\ buf' = Stored(e, <<c>>) /\ e' = e + 1 /\ r' = r /\ w' = w
      /\ c # NL /\ c # EOF /\ e + 1 # r + INPUT_BUF
      /\ hist_pos' = -1 /\ UNCHANGED <<history, hist_count, hist_head>>
  BY DEF Key, HasRoom, Commits
<1>3. <<c>> \in Seq(Char) /\ Len(<<c>>) = 1
  OBVIOUS
<1>4. e + Len(<<c>>) <= r + INPUT_BUF /\ e + Len(<<c>>) <= w + INPUT_BUF
  BY <1>1, <1>2, <1>3
<1>5. Chars(buf', r', w') = Chars(buf, r, w)
  BY <1>1, <1>2, <1>3, <1>4, CharsKept
<1>6. Chars(buf', w', e') = Chars(buf, w, e) \o <<c>>
  BY <1>1, <1>2, <1>3, <1>4, CharsStored
<1>7. PICK l \in Seq(Char) : l = Chars(buf, w, e) /\ Clean(l) /\ Len(l) = e - w
  BY Queue
<1>8. l \o <<c>> = Append(l, c)
  OBVIOUS
<1>9. Text(w, e)' = Append(Text(w, e), c) /\ Text(r, w)' = Text(r, w)
  BY <1>5, <1>6, <1>7, <1>8, NextText, Queue
<1>10. Past' = Past /\ hist_pos' + 1 = 0
  BY <1>2, HistKept
<1>11. Len(Text(r, w)) + Len(Text(w, e)) + 1 < INPUT_BUF
  <2>1. Len(Text(r, w)) = w - r /\ Len(Text(w, e)) = e - w
    BY Queue
  <2> QED BY <1>1, <1>2, <2>1
<1>12. T!Type(c)
  BY <1>2, <1>9, <1>10, <1>11 DEF T!Type
<1>13. Clean(Append(l, c))
  BY <1>2, <1>7, CleanAppend
<1>14. LinesClean'
  BY <1>1, <1>2, <1>6, <1>7, <1>8, <1>13 DEF LinesClean
<1> QED
  BY <1>12, <1>14

(* The line that a newline completes, as the line editor sees it.           *)
LEMMA WholeIs ==
    ASSUME TtyInv
    PROVE  /\ T!Whole = Text(LineStart(e), e)
           /\ Clean(T!Whole) /\ T!Whole \in Seq(Char)
<1>1. RingOK /\ LinesClean
  BY TtyParts
<1>2. Text(r, w) = Chars(buf, r, w) /\ Text(w, e) = Chars(buf, w, e) /\ Len(Text(r, w)) = w - r
  BY Queue
<1> DEFINE I == {i \in 1..Len(Text(r, w)) : Text(r, w)[i] = NL}
<1>3. T!Whole = SubSeq(Text(r, w), (IF I # {} THEN Max(I) ELSE 0) + 1, Len(Text(r, w)))
                \o Text(w, e)
  BY DEF T!Whole, T!SelectLastInSeq, T!Max, Max
<1>4. (IF I # {} THEN Max(I) ELSE 0) = LastNewline(Text(r, w))
  BY DEF LastNewline, NewlinesIn
<1> HIDE DEF I
<1>5. T!Whole = SubSeq(Chars(buf, r, w), LastNewline(Chars(buf, r, w)) + 1, w - r)
                \o Chars(buf, w, e)
  BY <1>2, <1>3, <1>4
<1> QED
  BY <1>1, <1>5, LineFound

(* history_add() remembers the line.                                        *)
LEMMA Remembers ==
    ASSUME TtyInv, HistoryAdd(e)
    PROVE  /\ Past' = IF T!Whole # <<>> THEN T!Remember(T!Whole) ELSE Past
           /\ hist_pos' = -1
           /\ \A i \in 0..(HIST_MAX - 1) : Clean(history'[i])
<1>1. PICK s \in Seq(Char) : s = T!Whole /\ s = Text(LineStart(e), e) /\ Clean(s)
  BY WholeIs
<1>2. /\ HistOK /\ hist_count \in 0..HIST_MAX /\ hist_head \in 0..(HIST_MAX - 1)
      /\ HIST_MAX \in Nat /\ HIST_MAX > 0 /\ LinesClean
  BY TtyParts
<1>3. history \in [0..(HIST_MAX - 1) -> Seq(Char)] /\ hist_count \in Nat
  BY <1>2 DEF HistOK
<1>4. CASE s = <<>>
  <2>1. hist_pos' = -1 /\ UNCHANGED <<history, hist_count, hist_head>>
    BY <1>1, <1>4 DEF HistoryAdd
  <2> QED BY <1>1, <1>2, <1>4, <2>1, HistKept DEF LinesClean
<1>5. CASE s # <<>>
  <2>1. /\ history' = [history EXCEPT ![hist_head] = s]
        /\ hist_head' = (hist_head + 1) % HIST_MAX
        /\ hist_count' = Min({hist_count + 1, HIST_MAX})
        /\ hist_pos' = -1
    BY <1>1, <1>5 DEF HistoryAdd
  <2>2. hist_count' = IF hist_count + 1 <= HIST_MAX THEN hist_count + 1 ELSE HIST_MAX
    <3>1. hist_count + 1 \in Int /\ HIST_MAX \in Int
      BY <1>2, <1>3
    <3> QED BY <2>1, <3>1, LesserOfTwo
  <2>5. Past' = SubSeq(Append(Past, s), IF hist_count + 1 > HIST_MAX THEN 2 ELSE 1,
                       hist_count + 1)
    BY <1>2, <2>1, <2>2, PastAdded
  <2>6. Past \in Seq(Seq(Char)) /\ Len(Past) = hist_count
    BY <1>2, <1>3, PastIs, PastSeq
  <2>7. Len(Append(Past, s)) = hist_count + 1
    BY <1>3, <2>6
  <2>8. T!Remember(s) = Past'
    BY <2>5, <2>7 DEF T!Remember
  <2>9. \A i \in 0..(HIST_MAX - 1) : Clean(history'[i])
    <3> SUFFICES ASSUME NEW i \in 0..(HIST_MAX - 1) PROVE Clean(history'[i])
      OBVIOUS
    <3>1. CASE i = hist_head
      BY <1>1, <1>3, <2>1, <3>1
    <3>2. CASE i # hist_head
      BY <1>2, <1>3, <2>1, <3>2 DEF LinesClean
    <3> QED BY <3>1, <3>2
  <2> QED BY <1>1, <1>5, <2>1, <2>8, <2>9
<1> QED
  BY <1>4, <1>5

(* A newline, an end of file or the last free place commits the line.       *)
LEMMA KeyCommits ==
    ASSUME TtyInv, NEW c \in Char, Key(c), Commits(c)
    PROVE  T!Commit(c) /\ LinesClean'
<1>1. /\ RingOK /\ HistOK /\ LinesClean /\ buf \in [Ring -> Char]
      /\ r \in Nat /\ w \in Nat /\ e \in Nat /\ r <= w /\ w <= e /\ r <= e
      /\ INPUT_BUF \in Nat /\ INPUT_BUF > 0
  BY TtyParts
<1>2. /\ e - r < INPUT_BUF /\ buf' = Stored(e, <<c>>) /\ e' = e + 1 /\ r' = r /\ w' = e + 1
      /\ c \in {NL, EOF} \/ e + 1 = r + INPUT_BUF
  BY DEF Key, HasRoom, Commits
<1>3. <<c>> \in Seq(Char) /\ Len(<<c>>) = 1
  OBVIOUS
<1>4. e + Len(<<c>>) <= r + INPUT_BUF
  BY <1>1, <1>2, <1>3
<1>5. Chars(buf', r', w') = Chars(buf, r, e) \o <<c>>
  BY <1>1, <1>2, <1>3, <1>4, CharsStored
<1>6. Chars(buf, r, e) = Chars(buf, r, w) \o Chars(buf, w, e)
  BY <1>1, CharsJoined
<1>7. PICK q \in Seq(Char) : q = Chars(buf, r, w) /\ q = Text(r, w) /\ Len(q) = w - r
  BY Queue
<1>8. PICK l \in Seq(Char) : l = Chars(buf, w, e) /\ l = Text(w, e) /\ Len(l) = e - w
  BY Queue
<1>9. (q \o l) \o <<c>> = q \o Append(l, c)
  <2>1. l \o <<c>> = Append(l, c)
    OBVIOUS
  <2>2. (q \o l) \o <<c>> = q \o (l \o <<c>>)
    BY <1>3, ConcatAssociative
  <2> QED BY <2>1, <2>2
<1>10. Text(r, w)' = Text(r, w) \o Append(Text(w, e), c)
  BY <1>5, <1>6, <1>7, <1>8, <1>9, NextText
<1>11. Chars(buf', w', e') = <<>>
  BY <1>1, <1>2, NoChars
<1>12. Text(w, e)' = <<>>
  BY <1>11, NextText
<1>13. Len(Text(r, w)) + Len(Text(w, e)) = e - r
  BY <1>1, <1>7, <1>8
<1>14. /\ Past' = IF c = NL /\ T!Whole # <<>> THEN T!Remember(T!Whole) ELSE Past
       /\ hist_pos' = -1
       /\ \A i \in 0..(HIST_MAX - 1) : Clean(history'[i])
  <2>1. CASE c = NL
    BY <2>1, Remembers DEF Key
  <2>2. CASE c # NL
    <3>1. hist_pos' = -1 /\ UNCHANGED <<history, hist_count, hist_head>>
      BY <2>2 DEF Key
    <3> QED BY <1>1, <2>2, <3>1, HistKept DEF LinesClean
  <2> QED BY <2>1, <2>2
<1>15. Len(Text(r, w)) + Len(Text(w, e)) + 1 = INPUT_BUF \/ c \in {NL, EOF}
  BY <1>1, <1>2, <1>13
<1>16. Len(Text(r, w)) + Len(Text(w, e)) < INPUT_BUF
  BY <1>2, <1>13
<1>17. hist_pos' + 1 = 0
  BY <1>14
<1>18. T!Commit(c)
  BY <1>10, <1>12, <1>14, <1>15, <1>16, <1>17 DEF T!Commit
<1>19. Clean(Chars(buf', w', e'))
  BY <1>11 DEF Clean
<1> QED
  BY <1>14, <1>18, <1>19 DEF LinesClean

LEMMA CleanPrefix ==
    ASSUME NEW s \in Seq(Char), NEW n \in 0..Len(s), Clean(s)
    PROVE  Clean(SubSeq(s, 1, n))
<1>1. SubSeq(s, 1, n) \in Seq(Char) /\ Len(SubSeq(s, 1, n)) = n
      /\ \A i \in 1..n : SubSeq(s, 1, n)[i] = s[i]
  OBVIOUS
<1> QED
  BY <1>1 DEF Clean

(* The line is cut to its first n characters.                               *)
LEMMA LineCut ==
    ASSUME TtyInv, NEW n \in 0..(e - w), e' = w + n,
           UNCHANGED <<buf, r, w, histVars>>
    PROVE  /\ Text(w, e)' = SubSeq(Text(w, e), 1, n) /\ LinesClean'
           /\ Text(r, w)' = Text(r, w) /\ Past' = Past /\ hist_pos' = hist_pos
<1>1. /\ buf \in [Ring -> Char] /\ LinesClean
      /\ r \in Nat /\ w \in Nat /\ e \in Nat /\ r <= w /\ w <= e
  BY TtyParts
<1>2. SubSeq(Chars(buf, w, e), 1, n) = Chars(buf, w, w + n)
  BY <1>1, CharsPart
<1>3. Text(w, e)' = SubSeq(Text(w, e), 1, n) /\ Text(r, w)' = Text(r, w)
  BY <1>2, NextText, Queue
<1>4. Past' = Past /\ hist_pos' = hist_pos /\ history' = history
  BY HistKept DEF histVars
<1>5. Clean(SubSeq(Text(w, e), 1, n))
  <2>1. PICK l \in Seq(Char) : l = Text(w, e) /\ Len(l) = e - w /\ Clean(l)
    BY Queue
  <2> QED BY <2>1, CleanPrefix
<1>6. LinesClean'
  BY <1>1, <1>3, <1>4, <1>5, NextText DEF LinesClean
<1> QED
  BY <1>3, <1>4, <1>6

LEMMA BackspaceErases ==
    ASSUME TtyInv, Backspace
    PROVE  Text(w, e) # <<>> /\ T!Erase /\ LinesClean'
<1>1. /\ r \in Nat /\ w \in Nat /\ e \in Nat /\ r <= w /\ w <= e
      /\ Text(w, e) \in Seq(Char) /\ Len(Text(w, e)) = e - w
  BY TtyParts, Queue
<1>2. e # w /\ e' = e - 1 /\ UNCHANGED <<buf, r, w, histVars>>
  BY DEF Backspace, Erasable
<1>3. PICK n \in 0..(e - w) : n = e - w - 1 /\ e' = w + n
  BY <1>1, <1>2
<1>4. /\ Text(w, e)' = SubSeq(Text(w, e), 1, n) /\ LinesClean'
      /\ Text(r, w)' = Text(r, w) /\ Past' = Past /\ hist_pos' = hist_pos
  BY <1>2, <1>3, LineCut
<1>5. T!Front(Text(w, e)) = SubSeq(Text(w, e), 1, n)
  BY <1>1, <1>3 DEF T!Front
<1>6. T!Erase
  BY <1>4, <1>5 DEF T!Erase
<1>7. Text(w, e) # <<>>
  BY <1>1, <1>2
<1> QED
  BY <1>4, <1>6, <1>7

(* Without a newline in the line, C('U') erases all of it.                  *)
LEMMA KillLineErases ==
    ASSUME TtyInv, KillLine
    PROVE  Text(w, e) # <<>> /\ T!Erase /\ LinesClean'
<1>1. /\ r \in Nat /\ w \in Nat /\ e \in Nat /\ r <= w /\ w <= e
      /\ Text(w, e) \in Seq(Char) /\ Len(Text(w, e)) = e - w /\ Clean(Text(w, e))
      /\ buf \in [Ring -> Char] /\ Text(w, e) = Chars(buf, w, e)
  BY TtyParts, Queue
<1> DEFINE S == {w} \cup {i \in (w + 1)..e : buf[(i - 1) % INPUT_BUF] = NL}
<1>2. e # w /\ e' = Max(S) /\ UNCHANGED <<buf, r, w, histVars>>
  BY DEF KillLine
<1>3. S = {w}
  <2> SUFFICES ASSUME NEW i \in (w + 1)..e, buf[(i - 1) % INPUT_BUF] = NL PROVE FALSE
    OBVIOUS
  <2>1. i - w \in 1..(e - w) /\ w + (i - w) - 1 = i - 1
    BY <1>1
  <2>2. Chars(buf, w, e)[i - w] = buf[(w + (i - w) - 1) % INPUT_BUF]
    BY <1>1, <2>1, CharsSeq
  <2>3. Text(w, e)[i - w] # NL
    BY <1>1, <2>1 DEF Clean
  <2> QED BY <1>1, <2>1, <2>2, <2>3
<1> HIDE DEF S
<1>4. Max(S) = w
  BY <1>1, <1>3 DEF Max
<1>5. PICK n \in 0..(e - w) : n = 0 /\ e' = w + n
  BY <1>1, <1>2, <1>4
<1>6. /\ Text(w, e)' = SubSeq(Text(w, e), 1, n) /\ LinesClean'
      /\ Text(r, w)' = Text(r, w) /\ Past' = Past /\ hist_pos' = hist_pos
  BY <1>2, <1>5, LineCut
<1>7. SubSeq(Text(w, e), 1, n) = <<>>
  BY <1>1, <1>5
<1>8. T!Erase
  BY <1>6, <1>7 DEF T!Erase
<1>9. Text(w, e) # <<>>
  BY <1>1, <1>2
<1> QED
  BY <1>6, <1>8, <1>9

(* history_restore() shows a line of the history, cut to what fits.         *)
LEMMA Shown ==
    ASSUME TtyInv, hist_pos' \in -1..(hist_count - 1), HistoryRestore(hist_pos'),
           UNCHANGED <<r, w, history, hist_count, hist_head>>
    PROVE  T!Show /\ LinesClean'
<1>1. /\ RingOK /\ HistOK /\ LinesClean /\ buf \in [Ring -> Char]
      /\ r \in Nat /\ w \in Nat /\ e \in Nat /\ r <= w /\ w <= e /\ e - r <= INPUT_BUF
      /\ INPUT_BUF \in Nat /\ INPUT_BUF > 0
      /\ hist_count \in 0..HIST_MAX /\ HIST_MAX \in Nat
  BY TtyParts
<1>2. PICK i \in -1..(hist_count - 1) : i = hist_pos'
  OBVIOUS
<1>3. PICK s \in Seq(Char) : /\ s = IF i < 0 THEN <<>> ELSE HistoryGet(i)
                             /\ s = IF i + 1 = 0 THEN <<>> ELSE Past[i + 1]
                             /\ Clean(s)
  <2>1. CASE i = -1
    <3>1. <<>> \in Seq(Char) /\ Clean(<<>>)
      BY DEF Clean
    <3>2. i < 0 /\ i + 1 = 0
      BY <2>1
    <3>3. /\ <<>> = IF i < 0 THEN <<>> ELSE HistoryGet(i)
          /\ <<>> = IF i + 1 = 0 THEN <<>> ELSE Past[i + 1]
      BY <3>2, Zenon
    <3> QED BY <3>1, <3>3, Zenon
  <2>2. CASE i # -1
    <3>1. i \in 0..(hist_count - 1)
      BY <1>1, <2>2
    <3>2. /\ HistoryGet(i) = Past[i + 1] /\ HistoryGet(i) \in Seq(Char)
          /\ \E j \in 0..(HIST_MAX - 1) : HistoryGet(i) = history[j]
      BY <1>1, <3>1, PastGet
    <3>3. Clean(HistoryGet(i))
      BY <1>1, <3>2 DEF LinesClean
    <3>4. ~(i < 0) /\ i + 1 # 0
      BY <1>1, <3>1
    <3> QED BY <3>2, <3>3, <3>4
  <2> QED BY <2>1, <2>2
<1>4. PICK n \in 0..Len(s) : /\ n = Min({Len(s), r + INPUT_BUF - w})
                             /\ n <= r + INPUT_BUF - w
                             /\ n = Len(s) \/ n = r + INPUT_BUF - w
  <2>1. Len(s) \in Nat /\ r + INPUT_BUF - w \in Nat
    BY <1>1
  <2>2. Min({Len(s), r + INPUT_BUF - w}) = IF Len(s) <= r + INPUT_BUF - w THEN Len(s)
                                           ELSE r + INPUT_BUF - w
    BY <2>1, LesserOfTwo
  <2> QED BY <2>1, <2>2
<1>5. PICK f \in Seq(Char) : f = SubSeq(s, 1, n) /\ Len(f) = n
  <2>1. SubSeq(s, 1, n) \in Seq(Char) /\ Len(SubSeq(s, 1, n)) = n
    OBVIOUS
  <2> QED BY <2>1, Zenon
<1>6. buf' = Stored(w, f) /\ e' = w + Len(f)
  BY <1>2, <1>3, <1>4, <1>5 DEF HistoryRestore
<1>7. w + Len(f) <= r + INPUT_BUF /\ w + Len(f) <= w + INPUT_BUF
  BY <1>1, <1>4, <1>5
<1>8. Chars(buf', r', w') = Chars(buf, r, w)
  BY <1>1, <1>6, <1>7, CharsKept
<1>9. Chars(buf', w', e') = f
  <2>1. Chars(buf', w', e') = Chars(buf, w, w) \o f
    <3>1. Chars(Stored(w, f), w, w + Len(f)) = Chars(buf, w, w) \o f
      <4>1. w <= w
        BY <1>1
      <4> QED BY <1>1, <1>7, <4>1, CharsStored
    <3> QED BY <1>6, <3>1
  <2>2. Chars(buf, w, w) = <<>>
    BY <1>1, NoChars
  <2>3. <<>> \o f = f
    OBVIOUS
  <2> QED BY <2>1, <2>2, <2>3
<1>10. Text(w, e)' = SubSeq(s, 1, n) /\ Text(r, w)' = Text(r, w) /\ Past' = Past
  BY <1>5, <1>8, <1>9, NextText, Queue, HistKept
<1>11. n = Len(s) \/ Len(Text(r, w)) + n = INPUT_BUF
  <2>1. Len(Text(r, w)) = w - r
    BY Queue
  <2> QED BY <1>1, <1>4, <2>1
<1>12. s = IF hist_pos' + 1 = 0 THEN <<>> ELSE Past[hist_pos' + 1]
  BY <1>2, <1>3
<1>13. T!Show
  BY <1>10, <1>11, <1>12 DEF T!Show
<1>14. Clean(f)
  BY <1>3, <1>5, CleanPrefix
<1> QED
  BY <1>1, <1>9, <1>13, <1>14 DEF LinesClean

LEMMA UpIsOlder == ASSUME TtyInv, Up PROVE T!Older /\ LinesClean'
<1>1. /\ hist_count \in 0..HIST_MAX /\ HIST_MAX \in Nat /\ hist_pos \in -1..(hist_count - 1)
      /\ HistOK
  BY TtyParts
<1>2. /\ hist_count > 0 /\ HistoryRestore(hist_pos')
      /\ hist_pos' = IF hist_pos = -1 THEN hist_count - 1
                     ELSE IF hist_pos > 0 THEN hist_pos - 1 ELSE hist_pos
      /\ UNCHANGED <<r, w, history, hist_count, hist_head>>
  BY DEF Up
<1>3. hist_pos' \in -1..(hist_count - 1)
  BY <1>1, <1>2
<1>4. T!Show /\ LinesClean'
  BY <1>2, <1>3, Shown
<1>5. Past \in Seq(Seq(Char)) /\ Len(Past) = hist_count
  BY <1>1, PastIs, PastSeq DEF HistOK
<1>6. Past # <<>>
  BY <1>1, <1>2, <1>5
<1>7. hist_pos' + 1 = IF hist_pos + 1 = 0 THEN Len(Past)
                      ELSE IF hist_pos + 1 = 1 THEN 1 ELSE (hist_pos + 1) - 1
  BY <1>1, <1>2, <1>5
<1> QED
  BY <1>4, <1>6, <1>7 DEF T!Older

LEMMA DownIsNewer == ASSUME TtyInv, Down PROVE T!Newer /\ LinesClean'
<1>1. /\ hist_count \in 0..HIST_MAX /\ HIST_MAX \in Nat /\ hist_pos \in -1..(hist_count - 1)
      /\ HistOK
  BY TtyParts
<1>2. /\ hist_pos # -1 /\ HistoryRestore(hist_pos')
      /\ hist_pos' = IF hist_pos < hist_count - 1 THEN hist_pos + 1 ELSE -1
      /\ UNCHANGED <<r, w, history, hist_count, hist_head>>
  BY DEF Down
<1>3. hist_pos' \in -1..(hist_count - 1)
  BY <1>1, <1>2
<1>4. T!Show /\ LinesClean'
  BY <1>2, <1>3, Shown
<1>5. Len(Past) = hist_count
  BY <1>1, PastIs, PastSeq DEF HistOK
<1>6. hist_pos + 1 # 0
  BY <1>1, <1>2
<1>7. hist_pos' + 1 = IF hist_pos + 1 = Len(Past) THEN 0 ELSE (hist_pos + 1) + 1
  BY <1>1, <1>2, <1>5
<1> QED
  BY <1>4, <1>6, <1>7 DEF T!Newer

LEMMA TabCompletes == ASSUME TtyInv, Tab PROVE T!Complete /\ LinesClean'
<1>1. /\ RingOK /\ LinesClean /\ buf \in [Ring -> Char]
      /\ r \in Nat /\ w \in Nat /\ e \in Nat /\ r <= w /\ w <= e /\ e - r <= INPUT_BUF
      /\ INPUT_BUF \in Nat
  BY TtyParts
<1>2. PICK c \in Commands : /\ e - r <= Len(c)
                            /\ buf' = Stored(e, SubSeq(c, e - r + 1, Len(c)))
                            /\ e' = e + Len(SubSeq(c, e - r + 1, Len(c)))
  BY <1>1, Completes
<1>3. PICK rest \in Seq(Char) :
          /\ rest = SubSeq(c, e - r + 1, Len(c)) /\ Len(rest) = Len(c) - (e - r)
          /\ c \in Seq(Char) /\ Len(c) \in Nat /\ Len(c) < INPUT_BUF
  BY <1>1, <1>2, Completion
<1>4. /\ buf' = Stored(e, rest) /\ e' = e + Len(rest)
      /\ r' = r /\ w' = w /\ UNCHANGED histVars
  BY <1>2, <1>3 DEF Tab
<1>5. e + Len(rest) <= r + INPUT_BUF /\ e + Len(rest) <= w + INPUT_BUF
  BY <1>1, <1>2, <1>3
<1>6. Chars(buf', r', w') = Chars(buf, r, w)
  BY <1>1, <1>4, <1>5, CharsKept
<1>7. Chars(buf', w', e') = Chars(buf, w, e) \o rest
  BY <1>1, <1>4, <1>5, CharsStored
<1>8. Text(w, e)' = Text(w, e) \o rest /\ Text(r, w)' = Text(r, w)
  BY <1>6, <1>7, NextText, Queue
<1>9. Past' = Past /\ hist_pos' = hist_pos /\ history' = history
  BY <1>4, HistKept DEF histVars
<1>10. Len(Text(r, w)) + Len(Text(w, e)) + 1 = e - r + 1
  <2>1. Len(Text(r, w)) = w - r /\ Len(Text(w, e)) = e - w
    BY Queue
  <2> QED BY <1>1, <2>1
<1>11. T!Complete
  BY <1>3, <1>8, <1>9, <1>10 DEF T!Complete
<1>12. \A i \in 1..Len(rest) : rest[i] # NL
  <2> SUFFICES ASSUME NEW i \in 1..Len(rest) PROVE rest[i] # NL
    OBVIOUS
  <2>1. PICK len \in Nat : len = e - r
    BY <1>1
  <2>2. rest[i] = c[len + i] /\ len + i \in 1..Len(c)
    BY <1>3, <2>1
  <2>3. c[len + i] \in Plain
    BY <2>2, ConsoleAssumption
  <2> QED BY <2>2, <2>3, ConsoleAssumption
<1>13. Clean(Text(w, e) \o rest)
  <2>1. PICK l \in Seq(Char) : l = Text(w, e) /\ Clean(l)
    BY Queue
  <2>2. \A i \in 1..Len(l) : l[i] # NL
    BY <2>1 DEF Clean
  <2>3. \A i \in 1..Len(l \o rest) : (l \o rest)[i] # NL
    BY <1>12, <2>2
  <2> QED BY <2>1, <2>3 DEF Clean
<1> QED
  BY <1>1, <1>8, <1>9, <1>11, <1>13, NextText DEF LinesClean

(* A read takes nothing after a newline or an end of file.                  *)
LEMMA TakenStops ==
    ASSUME RingOK, r # w, NEW n \in Nat \ {0}, NEW got \in Nat
    PROVE  \A x \in 1..(Taken(n, got).k - 1) : Text(r, w)[x] \notin {NL, EOF}
<1> DEFINE b == Min({w, r + n})
           q == Text(r, b)
           I == {i \in 1..Len(q) : q[i] \in {NL, EOF}}
           i == SelectInSeq(q, LAMBDA c : c \in {NL, EOF})
<1>1. b \in Nat /\ r < b /\ b <= w /\ b <= r + n
  BY LesserOfTwo DEF RingOK
<1> HIDE DEF b
<1>2. /\ buf \in [Ring -> Char] /\ r \in Nat /\ w \in Nat /\ r <= b /\ r <= w
  BY <1>1 DEF RingOK
<1>3. /\ q \in Seq(Char) /\ Len(q) = b - r
      /\ \A x \in 1..(b - r) : q[x] = buf[(r + x - 1) % INPUT_BUF]
  BY <1>1, <1>2, TextIsLine
<1>4. \A x \in 1..(w - r) : Text(r, w)[x] = buf[(r + x - 1) % INPUT_BUF]
  BY <1>2, TextIsLine
<1>5. i = IF I # {} THEN Min(I) ELSE 0
  BY DEF SelectInSeq
<1> HIDE DEF q
<1>6. I # {} => Min(I) \in I /\ \A y \in I : Min(I) <= y
  <2>1. I \subseteq Nat
    BY <1>3
  <2> HIDE DEF I
  <2> QED BY <2>1, Least
<1>7. I = {y \in 1..Len(q) : q[y] \in {NL, EOF}} /\ I \subseteq 1..Len(q)
  OBVIOUS
<1> HIDE DEF i, I
<1>8. i \in 0..Len(q) /\ (i = 0 => I = {}) /\ (i # 0 => \A y \in I : i <= y)
  <2>1. Len(q) \in Nat
    BY <1>3
  <2>2. CASE I = {}
    BY <1>5, <2>1, <2>2
  <2>3. CASE I # {}
    BY <1>5, <1>6, <1>7, <2>1, <2>3
  <2> QED BY <2>2, <2>3
<1>9. Taken(n, got) = IF i = 0 THEN [k |-> Len(q), done |-> Len(q) = n]
                      ELSE [k |-> IF q[i] = NL THEN i ELSE EofTaken(got, i), done |-> TRUE]
  BY DEF Taken, q, i, b
<1>10. PICK k \in 0..Len(q) : k = Taken(n, got).k /\ (i # 0 => k <= i)
  <2>1. CASE i = 0
    BY <1>3, <1>9, <2>1
  <2>2. CASE i # 0
    <3>1. Taken(n, got).k = IF q[i] = NL THEN i ELSE EofTaken(got, i)
      BY <1>9, <2>2
    <3>2. Taken(n, got).k \in {i, i - 1}
      BY <3>1 DEF EofTaken
    <3> QED BY <1>3, <1>8, <2>2, <3>2
  <2> QED BY <2>1, <2>2
<1> SUFFICES ASSUME NEW x \in 1..(k - 1) PROVE Text(r, w)[x] \notin {NL, EOF}
  BY <1>10
<1>11. x \in 1..Len(q) /\ x \in 1..(b - r) /\ x \in 1..(w - r)
  BY <1>1, <1>2, <1>3
<1>12. x \notin I
  BY <1>3, <1>8, <1>10, <1>11
<1>13. q[x] \notin {NL, EOF}
  BY <1>7, <1>11, <1>12
<1> QED
  BY <1>3, <1>4, <1>11, <1>13

(* A read that takes nothing, because it has to leave an end of file to the *)
(* next one, is no step of the line editor.                                 *)
LEMMA ReadTakes ==
    ASSUME TtyInv, NEW p \in Reader, ConsoleRead(p)
    PROVE  /\ T!Read \/ UNCHANGED T!vars
           /\ LinesClean'
<1>1. /\ RingOK /\ HistOK /\ LinesClean /\ buf \in [Ring -> Char]
      /\ r \in Nat /\ w \in Nat /\ e \in Nat /\ r <= w /\ w <= e
  BY TtyParts
<1>2. ReadersOK
  BY InvParts DEF TtyInv
<1>3. PICK n \in Nat \ {0} : n = rd[p].n
  BY <1>2 DEF ReadersOK, MayTake, Rd, ConsoleRead
<1>4. PICK got \in Nat : got = rd[p].got
  BY <1>2 DEF ReadersOK, Rd
<1>5. r # w /\ r' = r + Taken(n, got).k /\ UNCHANGED <<buf, w, e, histVars>>
  BY <1>3, <1>4 DEF ConsoleRead
<1>6. PICK k \in Nat : k = Taken(n, got).k /\ r + k <= w
  BY <1>1, <1>5, TakenBounds
<1>7. Text(w, e)' = Text(w, e)
  BY <1>5, NextText, Queue
<1>8. Past' = Past /\ hist_pos' = hist_pos /\ history' = history
  BY <1>5, HistKept DEF histVars
<1>9. LinesClean'
  BY <1>1, <1>5, <1>8 DEF LinesClean
<1>10. k \in 0..(w - r)
  BY <1>1, <1>6
<1>11. SubSeq(Chars(buf, r, w), k + 1, w - r) = Chars(buf, r + k, w)
  BY <1>1, <1>10, CharsPart
<1>12. Len(Text(r, w)) = w - r /\ Text(r, w) = Chars(buf, r, w)
  BY Queue
<1>13. Text(r, w)' = SubSeq(Text(r, w), k + 1, Len(Text(r, w)))
  BY <1>5, <1>6, <1>11, <1>12, NextText
<1>14. CASE k = 0
  <2>1. r' = r
    BY <1>1, <1>5, <1>6, <1>14
  <2>2. Text(r, w)' = Text(r, w)
    BY <1>5, <1>12, <2>1, NextText
  <2> QED BY <1>7, <1>8, <1>9, <2>2 DEF T!vars
<1>15. CASE k # 0
  <2>1. k \in 1..Len(Text(r, w))
    BY <1>1, <1>10, <1>12, <1>15
  <2>2. \A x \in 1..(k - 1) : Text(r, w)[x] \notin {NL, EOF}
    BY <1>1, <1>5, <1>6, TakenStops
  <2>3. T!Read
    BY <1>7, <1>8, <1>13, <2>1, <2>2 DEF T!Read
  <2> QED BY <1>9, <2>3
<1> QED
  BY <1>14, <1>15

LEMMA TtyInit == Init => T!Init /\ LinesClean
<1> SUFFICES ASSUME Init PROVE T!Init /\ LinesClean
  OBVIOUS
<1>1. r = 0 /\ w = 0 /\ e = 0 /\ hist_count = 0 /\ hist_pos = -1
      /\ history = [i \in 0..(HIST_MAX - 1) |-> <<>>]
  BY DEF Init
<1>2. Chars(buf, 0, 0) = <<>> /\ Clean(<<>>)
  BY NoChars DEF Clean
<1>3. Past = <<>>
  BY <1>1 DEF Past
<1>4. T!Init
  BY <1>1, <1>2, <1>3, TextIs DEF T!Init
<1>5. LinesClean
  BY <1>1, <1>2 DEF LinesClean
<1> QED
  BY <1>4, <1>5

(* A step that concerns only the readers.                                   *)
LEMMA ReadersStepAside ==
    ASSUME LinesClean, UNCHANGED <<inputVars, histVars>>
    PROVE  UNCHANGED T!vars /\ LinesClean'
<1>1. UNCHANGED <<buf, r, w, e, history, hist_count, hist_head, hist_pos>>
  BY DEF inputVars, histVars
<1>2. UNCHANGED T!vars
  BY <1>1 DEF T!vars, Text, Past
<1>3. LinesClean'
  BY <1>1 DEF LinesClean
<1> QED
  BY <1>2, <1>3

LEMMA TtyStep ==
    ASSUME TtyInv, [Next]_vars
    PROVE  [T!Next]_(T!vars) /\ LinesClean'
<1>1. LinesClean
  BY DEF TtyInv
<1>2. ASSUME NEW c \in Char, Key(c) PROVE [T!Next]_(T!vars) /\ LinesClean'
  <2>1. (T!Type(c) \/ T!Commit(c)) /\ LinesClean'
    BY <1>2, KeyTypes, KeyCommits
  <2> QED BY <2>1 DEF T!Next
<1>3. CASE Up \/ Down
  BY <1>3, UpIsOlder, DownIsNewer DEF T!Next
<1>4. CASE KillLine \/ Backspace
  BY <1>4, KillLineErases, BackspaceErases DEF T!Next
<1>5. CASE Tab
  BY <1>5, TabCompletes DEF T!Next
<1>6. ASSUME NEW p \in Reader, ConsoleRead(p) PROVE [T!Next]_(T!vars) /\ LinesClean'
  BY <1>6, ReadTakes DEF T!Next
<1>7. ASSUME NEW p \in Reader, ReadCall(p) \/ ReadEmpty(p) \/ Sleep(p) \/ Kill(p)
      PROVE  [T!Next]_(T!vars) /\ LinesClean'
  <2>1. UNCHANGED <<inputVars, histVars>>
    BY <1>7 DEF ReadCall, ReadEmpty, Sleep, Kill
  <2> QED BY <1>1, <2>1, ReadersStepAside
<1>8. CASE UNCHANGED vars
  <2>1. UNCHANGED <<inputVars, histVars>>
    BY <1>8 DEF vars
  <2> QED BY <1>1, <2>1, ReadersStepAside
<1> QED
  BY <1>2, <1>3, <1>4, <1>5, <1>6, <1>7, <1>8 DEF Next, ConsoleIntr, Read

(* No newline waits in the edited line or in the history, in any reachable  *)
(* state: consoleintr() commits a newline as it stores it, and what recall  *)
(* and completion store has none.                                           *)
THEOREM LinesStayClean == Spec => []LinesClean
<1>1. Init => LinesClean
  BY TtyInit
<1>2. ConsoleInv /\ LinesClean /\ [Next]_vars => LinesClean'
  BY TtyStep DEF TtyInv
<1> QED
  BY <1>1, <1>2, ConsoleInvariant, PTL DEF Spec

(* IsTty, for every size of the ring and of the history, any commands and   *)
(* any number of readers: through every wrap-around of the ring, recall,    *)
(* completion and read, console.c is a line editor with a queue of          *)
(* committed characters and a list of the last lines.                       *)
THEOREM ConsoleIsTty == Spec => IsTty
<1>1. Init => T!Init
  BY TtyInit
<1>2. ConsoleInv /\ LinesClean /\ [Next]_vars => [T!Next]_(T!vars)
  BY TtyStep DEF TtyInv
<1> QED
  BY <1>1, <1>2, ConsoleInvariant, LinesStayClean, PTL DEF Spec, IsTty, T!Spec
=============================================================================
