----------------------------- MODULE PipeProofs -----------------------------
(***************************************************************************)
(* Proofs about Pipe, for any number of readers and writers and any size   *)
(* of the ring and of the counters' word.                                  *)
(***************************************************************************)
EXTENDS Pipe, SequenceTheorems, TLAPS

(***************************************************************************)
(* Counters modulo Word.                                                   *)
(***************************************************************************)

(* % on the values the counters take, which are at most one word away.      *)
LEMMA ModSmall ==
    ASSUME NEW n \in Nat \ {0}, NEW a \in Int
    PROVE  /\ a \in 0..n-1 => a % n = a
           /\ n <= a /\ a < 2 * n => a % n = a - n
           /\ -n <= a /\ a < 0 => a % n = a + n
           /\ a % n \in 0..n-1
<1>1. a \in 0..n-1 => a % n = a
  OBVIOUS
<1>2. n <= a /\ a < 2 * n => a % n = a - n
  OBVIOUS
<1>3. -n <= a /\ a < 0 => a % n = a + n
  OBVIOUS
<1>4. a % n \in 0..n-1
  OBVIOUS
<1> QED
  BY <1>1, <1>2, <1>3, <1>4

(* The types of the two counters.                                           *)
Counters == nread \in 0..Word - 1 /\ nwrite \in 0..Word - 1

(* A sum of a counter and at most the ring, and the distance of two.        *)
LEMMA ModSum ==
    ASSUME NEW a \in 0..Word - 1, NEW k \in 0..PIPESIZE
    PROVE  /\ (a + k) % Word = IF a + k < Word THEN a + k ELSE a + k - Word
           /\ (a + k) % Word \in 0..Word - 1
<1>1. Word \in Nat \ {0} /\ PIPESIZE \in Nat \ {0} /\ PIPESIZE < Word
  BY PipeAssumption
<1> DEFINE s == a + k
<1>2. s \in Int /\ 0 <= s /\ s < 2 * Word
  BY <1>1
<1>3. CASE s < Word
  <2>1. s \in 0..Word - 1
    BY <1>1, <1>2, <1>3
  <2> HIDE DEF s
  <2>2. s % Word = s
    BY <1>1, <2>1, ModSmall
  <2> QED
    BY <1>3, <2>1, <2>2 DEF s
<1>4. CASE ~(s < Word)
  <2>1. Word <= s /\ s - Word \in 0..Word - 1
    BY <1>1, <1>2, <1>4
  <2> HIDE DEF s
  <2>2. s % Word = s - Word
    BY <1>1, <1>2, <2>1, ModSmall
  <2>3. s % Word \in 0..Word - 1
    BY <2>1, <2>2
  <2> QED
    BY <1>1, <1>4, <2>2, <2>3 DEF s
<1> QED
  BY <1>3, <1>4

LEMMA ModDistance ==
    ASSUME NEW a \in 0..Word - 1, NEW b \in 0..Word - 1
    PROVE  /\ (b - a) % Word = IF a <= b THEN b - a ELSE b - a + Word
           /\ (b - a) % Word \in 0..Word - 1
<1>1. Word \in Nat \ {0}
  BY PipeAssumption
<1> DEFINE d == b - a
<1>3. CASE a <= b
  <2>1. d \in 0..Word - 1
    BY <1>1, <1>3
  <2> HIDE DEF d
  <2>2. d % Word = d
    BY <1>1, <2>1, ModSmall
  <2> QED
    BY <1>3, <2>1, <2>2 DEF d
<1>4. CASE ~(a <= b)
  <2>1. d \in Int /\ -Word <= d /\ d < 0 /\ d + Word \in 0..Word - 1
    BY <1>1, <1>4
  <2> HIDE DEF d
  <2>2. d % Word = d + Word
    BY <1>1, <2>1, ModSmall
  <2> QED
    BY <1>4, <2>1, <2>2 DEF d
<1> QED
  BY <1>3, <1>4

(* The number of bytes in the pipe, and that the ring holds them.           *)
LEMMA CountValue ==
    ASSUME Counters
    PROVE  /\ Count = IF nread <= nwrite THEN nwrite - nread
                      ELSE nwrite - nread + Word
           /\ Count \in 0..Word - 1
BY ModDistance DEF Counters, Count

Bounded == Count <= PIPESIZE

(* The two tests of the code, on the number of bytes.                       *)
LEMMA FullEmpty ==
    Counters /\ Bounded => (Full <=> Count = PIPESIZE) /\ (Empty <=> Count = 0)
<1> SUFFICES ASSUME Counters, Bounded
             PROVE  (Full <=> Count = PIPESIZE) /\ (Empty <=> Count = 0)
  OBVIOUS
<1>1. Word \in Nat \ {0} /\ PIPESIZE \in Nat \ {0} /\ PIPESIZE < Word
  BY PipeAssumption
<1>2. (nread + PIPESIZE) % Word = IF nread + PIPESIZE < Word THEN nread + PIPESIZE
                                  ELSE nread + PIPESIZE - Word
  <2>1. PIPESIZE \in 0..PIPESIZE /\ nread \in 0..Word - 1
    BY <1>1 DEF Counters
  <2> QED BY <2>1, ModSum
<1> QED
  BY <1>1, <1>2, CountValue DEF Counters, Full, Empty

LEMMA FullEmptyNext ==
    (Counters /\ Bounded => (Full <=> Count = PIPESIZE) /\ (Empty <=> Count = 0))'
BY FullEmpty, PTL

(* Adding k bytes, and taking k bytes.                                      *)
LEMMA CountAfterWrite ==
    ASSUME Counters, Bounded, NEW k \in 0..PIPESIZE - Count,
           nwrite' = Advance(nwrite, k), nread' = nread
    PROVE  Counters' /\ Count' = Count + k
<1>1. Word \in Nat \ {0} /\ PIPESIZE \in Nat \ {0} /\ PIPESIZE < Word
  BY PipeAssumption
<1>2. Count \in 0..Word - 1
  BY CountValue
<1>3. k \in 0..PIPESIZE
  BY <1>1, <1>2 DEF Bounded
<1>4. /\ nwrite' \in 0..Word - 1
      /\ nwrite' = IF nwrite + k < Word THEN nwrite + k ELSE nwrite + k - Word
  BY <1>3, ModSum DEF Counters, Advance
<1>5. Counters'
  BY <1>4 DEF Counters
<1>6. Count' = IF nread' <= nwrite' THEN nwrite' - nread' ELSE nwrite' - nread' + Word
  BY <1>5, ModDistance DEF Counters, Count
<1> QED
  BY <1>1, <1>2, <1>3, <1>4, <1>5, <1>6, CountValue DEF Counters, Bounded

LEMMA CountAfterRead ==
    ASSUME Counters, Bounded, NEW k \in 0..Count,
           nread' = Advance(nread, k), nwrite' = nwrite
    PROVE  Counters' /\ Count' = Count - k
<1>1. Word \in Nat \ {0} /\ PIPESIZE \in Nat \ {0} /\ PIPESIZE < Word
  BY PipeAssumption
<1>2. Count \in 0..Word - 1
  BY CountValue
<1>3. k \in 0..PIPESIZE
  BY <1>1, <1>2 DEF Bounded
<1>4. /\ nread' \in 0..Word - 1
      /\ nread' = IF nread + k < Word THEN nread + k ELSE nread + k - Word
  BY <1>3, ModSum DEF Counters, Advance
<1>5. Counters'
  BY <1>4 DEF Counters
<1>6. Count' = IF nread' <= nwrite' THEN nwrite' - nread' ELSE nwrite' - nread' + Word
  BY <1>5, ModDistance DEF Counters, Count
<1> QED
  BY <1>1, <1>2, <1>3, <1>4, <1>5, <1>6, CountValue DEF Counters, Bounded

(***************************************************************************)
(* The inductive invariant.                                                *)
(***************************************************************************)

(* Ends of the pipe and the processes that hold them.                       *)
Ends ==
    /\ freed => \A p \in Process : pc[p] = "closed"
    /\ readopen <=> \E r \in Reader : pc[r] # "closed"
    /\ writeopen <=> \E w \in Writer : pc[w] # "closed"

(* The lock is held over exactly one stretch, from the check to the sleep.  *)
LockHeld == \A p \in Process : pc[p] = "check" <=> lock = p

(* What a process found before it slept still holds; it holds under the     *)
(* lock whatever kill() does, and beyond it as long as nothing wakes.       *)
Found ==
    /\ \A w \in Writer : pc[w] \in {"check", "asleep"} => Full /\ readopen
    /\ \A r \in Reader : pc[r] = "check" => Empty /\ writeopen
    /\ \A r \in Reader : pc[r] = "asleep" =>
           (Empty /\ writeopen) \/ \E w \in Writer : killed[w]

(* Only a call in progress has bytes left to write.                         *)
RestOfCall == \A w \in Writer : pc[w] \in {"idle", "closed"} => rest[w] = <<>>

PipeInv == TypeOK /\ Bounded /\ Ends /\ LockHeld /\ Found /\ RestOfCall

LEMMA InvInit == Init => PipeInv
<1> SUFFICES ASSUME Init PROVE PipeInv
  OBVIOUS
<1>1. TypeOK
  <2>1. rest \in [Writer -> Seq(Byte)] /\ got \in [Reader -> Seq(Byte)]
    <3>1. <<>> \in Seq(Byte)
      OBVIOUS
    <3> QED BY <3>1 DEF Init
  <2>2. want \in [Reader -> 0..MaxRead]
    BY PipeAssumption DEF Init
  <2>3. nread \in 0..Word - 1 /\ nwrite \in 0..Word - 1
    BY PipeAssumption DEF Init
  <2>4. killed \in [Process -> BOOLEAN] /\ pc \in [Process -> Labels]
    BY DEF Init, Labels
  <2> QED
    BY <2>1, <2>2, <2>3, <2>4 DEF Init, TypeOK
<1>2. Counters /\ Count = 0
  <2>1. Counters
    BY <1>1 DEF TypeOK, Counters
  <2> QED
    BY <2>1, CountValue DEF Init
<1>3. Bounded
  BY <1>2, PipeAssumption DEF Bounded
<1>4. Ends /\ LockHeld /\ Found /\ RestOfCall
  BY PipeAssumption DEF Init, Ends, LockHeld, Found, RestOfCall, Process
<1> QED
  BY <1>1, <1>3, <1>4 DEF PipeInv

(* Where the processes are after a step of p that wakes S.                  *)
LEMMA Moved ==
    ASSUME TypeOK, NEW S, NEW p \in Process, NEW l \in Labels, WakeAndGoto(S, p, l)
    PROVE  /\ pc' \in [Process -> Labels]
           /\ pc'[p] = l
           /\ \A q \in Process \ {p} :
                pc'[q] = IF q \in S /\ pc[q] = "asleep" THEN "ready" ELSE pc[q]
BY DEF WakeAndGoto, TypeOK, Labels

(* A call begins; the pipe is as it was.                                    *)
LEMMA InvStart ==
    ASSUME PipeInv, NEW p \in Process, pc[p] = "idle", Goto(p, "ready"),
           UNCHANGED <<pipeVars, lock, killed>>,
           rest' \in [Writer -> Seq(Byte)], want' \in [Reader -> 0..MaxRead],
           got' \in [Reader -> Seq(Byte)],
           \A w \in Writer \ {p} : rest'[w] = rest[w]
    PROVE  PipeInv'
<1>1. /\ pc' \in [Process -> Labels] /\ pc'[p] = "ready"
      /\ \A q \in Process \ {p} : pc'[q] = pc[q]
  BY Moved DEF PipeInv, Goto, Labels
<1>2. TypeOK'
  BY <1>1 DEF PipeInv, TypeOK, pipeVars
<1>3. Bounded'
  BY DEF PipeInv, Bounded, Count, pipeVars
<1>4. Ends'
  BY <1>1 DEF PipeInv, Ends, Process, pipeVars
<1>5. LockHeld'
  BY <1>1 DEF PipeInv, LockHeld
<1>6. Found'
  BY <1>1 DEF PipeInv, Found, Process, Full, Empty, pipeVars
<1>7. RestOfCall'
  BY <1>1 DEF PipeInv, RestOfCall, Process
<1> QED
  BY <1>2, <1>3, <1>4, <1>5, <1>6, <1>7 DEF PipeInv

LEMMA InvStartWrite ==
    ASSUME PipeInv, NEW w \in Writer, StartWrite(w)
    PROVE  PipeInv'
<1>1. PICK n \in 1..MaxWrite : \E s \in [1..n -> Byte] : rest' = [rest EXCEPT ![w] = s]
  BY DEF StartWrite
<1>2. PICK s \in [1..n -> Byte] : rest' = [rest EXCEPT ![w] = s]
  BY <1>1
<1>3. s \in Seq(Byte)
  BY <1>2, PipeAssumption
<1>4. rest' \in [Writer -> Seq(Byte)] /\ \A v \in Writer \ {w} : rest'[v] = rest[v]
  BY <1>2, <1>3 DEF PipeInv, TypeOK
<1> QED
  BY <1>4, InvStart DEF StartWrite, Process, PipeInv, TypeOK

LEMMA InvStartRead ==
    ASSUME PipeInv, NEW r \in Reader, StartRead(r)
    PROVE  PipeInv'
<1>1. want' \in [Reader -> 0..MaxRead]
  BY PipeAssumption DEF StartRead, PipeInv, TypeOK
<1>2. got' \in [Reader -> Seq(Byte)]
  BY DEF StartRead, PipeInv, TypeOK
<1> QED
  BY <1>1, <1>2, InvStart DEF StartRead, Process, PipeInv, TypeOK

LEMMA InvSleep ==
    ASSUME PipeInv, NEW p \in Process, Sleep(p)
    PROVE  PipeInv'
<1>1. /\ pc' \in [Process -> Labels] /\ pc'[p] = "asleep"
      /\ \A q \in Process \ {p} : pc'[q] = pc[q]
  BY Moved DEF PipeInv, Sleep, Goto, Labels
<1>2. TypeOK'
  BY <1>1 DEF PipeInv, TypeOK, Sleep, pipeVars, callVars
<1>3. Bounded'
  BY DEF PipeInv, Bounded, Count, Sleep, pipeVars
<1>4. Ends'
  BY <1>1 DEF PipeInv, Ends, Process, Sleep, pipeVars
<1>5. LockHeld'
  BY <1>1, PipeAssumption DEF PipeInv, LockHeld, Sleep, Process
<1>6. Found'
  BY <1>1 DEF PipeInv, Found, Process, Full, Empty, Sleep, pipeVars
<1>7. RestOfCall'
  BY <1>1 DEF PipeInv, RestOfCall, Process, Sleep, callVars
<1> QED
  BY <1>2, <1>3, <1>4, <1>5, <1>6, <1>7 DEF PipeInv

(* kill() wakes a sleeper and only it; a mark is never taken back.          *)
LEMMA InvKill ==
    ASSUME PipeInv, NEW p \in Process, Kill(p)
    PROVE  PipeInv'
<1>1. /\ pc' \in [Process -> Labels]
      /\ \A q \in Process : pc'[q] = pc[q] \/ (pc[q] = "asleep" /\ pc'[q] = "ready")
  <2>1. CASE pc[p] = "asleep"
    BY <2>1, Moved DEF PipeInv, Kill, Goto, Labels
  <2>2. CASE pc[p] # "asleep"
    BY <2>2 DEF PipeInv, TypeOK, Kill
  <2> QED BY <2>1, <2>2
<1>2. TypeOK'
  BY <1>1 DEF PipeInv, TypeOK, Kill, pipeVars, callVars
<1>3. Bounded'
  BY DEF PipeInv, Bounded, Count, Kill, pipeVars
<1>4. Ends'
  BY <1>1 DEF PipeInv, Ends, Process, Kill, pipeVars
<1>5. LockHeld'
  BY <1>1 DEF PipeInv, LockHeld, Kill, Process
<1>6. \A w \in Writer : killed[w] => killed'[w]
  BY DEF PipeInv, TypeOK, Kill, Process
<1>7. Found'
  BY <1>1, <1>6 DEF PipeInv, Found, Process, Full, Empty, Kill, pipeVars
<1>8. RestOfCall'
  BY <1>1 DEF PipeInv, RestOfCall, Process, Kill, callVars
<1> QED
  BY <1>2, <1>3, <1>4, <1>5, <1>7, <1>8 DEF PipeInv

(* What pipewrite copies: as much as fits, and the ring is full if bytes    *)
(* are left over.                                                           *)
LEMMA Copied ==
    ASSUME PipeInv, NEW w \in Writer
    PROVE  LET k == Fits(w)
               left == SubSeq(rest[w], k + 1, Len(rest[w]))
           IN /\ k \in 0..PIPESIZE - Count /\ k <= Len(rest[w])
              /\ left \in Seq(Byte)
              /\ left = <<>> <=> k = Len(rest[w])
              /\ left # <<>> => k = PIPESIZE - Count
<1> DEFINE k == Fits(w)
           left == SubSeq(rest[w], k + 1, Len(rest[w]))
<1>1. Count \in 0..Word - 1 /\ Count <= PIPESIZE /\ PIPESIZE \in Nat /\ Word \in Nat
  BY CountValue, PipeAssumption DEF PipeInv, TypeOK, Counters, Bounded
<1>2. rest[w] \in Seq(Byte) /\ Len(rest[w]) \in Nat
  BY DEF PipeInv, TypeOK
<1>3. k \in 0..PIPESIZE - Count /\ k <= Len(rest[w])
  BY <1>1, <1>2 DEF Fits, Room
<1>4. k # Len(rest[w]) => k = PIPESIZE - Count
  BY <1>1, <1>2 DEF Fits, Room
<1> HIDE DEF k
<1>5. left \in Seq(Byte) /\ Len(left) = Len(rest[w]) - k
  BY <1>1, <1>2, <1>3
<1>6. left = <<>> <=> k = Len(rest[w])
  <2> HIDE DEF left
  <2>1. left = <<>> <=> Len(left) = 0
    BY <1>5
  <2> QED BY <1>2, <1>3, <1>5, <2>1
<1> QED
  BY <1>3, <1>4, <1>5, <1>6 DEF k

LEMMA InvPipeWrite ==
    ASSUME PipeInv, NEW w \in Writer, PipeWrite(w)
    PROVE  PipeInv'
<1> DEFINE k == Fits(w)
           left == SubSeq(rest[w], k + 1, Len(rest[w]))
           returns == left = <<>> /\ rest' = [rest EXCEPT ![w] = <<>>]
                      /\ WakeAndGoto(WriteWakes, w, "idle") /\ UNCHANGED lock
           fails == left # <<>> /\ (~readopen \/ killed[w])
                    /\ rest' = [rest EXCEPT ![w] = <<>>]
                    /\ Goto(w, "idle") /\ UNCHANGED lock
           waits == left # <<>> /\ readopen /\ ~killed[w]
                    /\ rest' = [rest EXCEPT ![w] = left]
                    /\ WakeAndGoto(WriteWakes, w, "check") /\ lock' = w
<1>1. /\ k \in 0..PIPESIZE - Count /\ k <= Len(rest[w])
      /\ left \in Seq(Byte)
      /\ left # <<>> => k = PIPESIZE - Count
  BY Copied
<1>2. /\ pc[w] = "ready" /\ lock = Nobody
      /\ data' = [j \in 0..PIPESIZE - 1 |->
                    LET i == (j - nwrite) % PIPESIZE IN
                    IF i < k THEN rest[w][i + 1] ELSE data[j]]
      /\ nwrite' = Advance(nwrite, k)
      /\ UNCHANGED <<nread, readopen, writeopen, freed, killed, want, got>>
  BY DEF PipeWrite
<1>3. returns \/ fails \/ waits
  BY DEF PipeWrite
<1>4. w \in Process /\ Counters /\ Bounded
  BY DEF Process, PipeInv, TypeOK, Counters
<1> HIDE DEF k, left
<1>5. Counters' /\ Count' = Count + k
  BY <1>1, <1>2, <1>4, CountAfterWrite
<1>6. Bounded'
  BY <1>1, <1>4, <1>5, CountValue, PipeAssumption DEF Bounded
<1>7. data' \in [0..PIPESIZE - 1 -> Byte]
  <2> SUFFICES ASSUME NEW j \in 0..PIPESIZE - 1, NEW i, i = (j - nwrite) % PIPESIZE, i < k
               PROVE  rest[w][i + 1] \in Byte
    BY <1>2 DEF PipeInv, TypeOK
  <2>1. i \in 0..PIPESIZE - 1
    BY PipeAssumption DEF PipeInv, TypeOK
  <2>2. i + 1 \in 1..Len(rest[w]) /\ rest[w] \in Seq(Byte)
    BY <1>1, <2>1, <1>4, CountValue, PipeAssumption DEF PipeInv, TypeOK
  <2> QED
    BY <2>2
<1>8. rest' \in [Writer -> Seq(Byte)]
  <2>1. <<>> \in Seq(Byte)
    OBVIOUS
  <2> QED
    BY <1>1, <1>3, <2>1 DEF PipeInv, TypeOK
<1>9. /\ pc' \in [Process -> Labels]
      /\ pc'[w] = IF waits THEN "check" ELSE "idle"
      /\ \A q \in Process \ {w} :
            pc'[q] = IF ~fails /\ q \in Reader /\ pc[q] = "asleep" THEN "ready" ELSE pc[q]
  <2>1. TypeOK /\ {"check", "idle"} \subseteq Labels /\ WriteWakes = Reader
    BY DEF PipeInv, Labels, WriteWakes
  <2>2. CASE returns
    BY <1>4, <2>1, <2>2, Moved
  <2>3. CASE fails
    <3>1. WakeAndGoto({}, w, "idle")
      BY <2>3 DEF Goto
    <3> QED BY <1>4, <2>1, <2>3, <3>1, Moved
  <2>4. CASE waits
    BY <1>4, <2>1, <2>4, Moved
  <2> QED BY <1>3, <2>2, <2>3, <2>4
<1>10. lock' = IF waits THEN w ELSE Nobody
  BY <1>2, <1>3
<1>11. TypeOK'
  BY <1>2, <1>4, <1>5, <1>7, <1>8, <1>9, <1>10 DEF PipeInv, TypeOK, Counters
<1>12. Ends'
  BY <1>2, <1>4, <1>9 DEF PipeInv, Ends, Process
<1>13. LockHeld'
  BY <1>2, <1>4, <1>9, <1>10, PipeAssumption DEF PipeInv, LockHeld, Process
<1>14. waits => Full'
  BY <1>1, <1>4, <1>5, <1>6, FullEmptyNext, CountValue, PipeAssumption
<1>15. Full => Full'
  <2>1. Full => k = 0
    BY <1>1, <1>4, FullEmpty, PipeAssumption
  <2> QED
    BY <2>1, <1>4, <1>5, <1>6, FullEmpty, FullEmptyNext, CountValue, PipeAssumption
<1>16. Found'
  <2>1. ASSUME NEW v \in Writer, pc'[v] \in {"check", "asleep"} PROVE (Full /\ readopen)'
    BY <2>1, <1>2, <1>3, <1>9, <1>14, <1>15, PipeAssumption DEF PipeInv, Found, Process
  <2>2. \A r \in Reader : pc'[r] # "check"
    BY <1>2, <1>9, PipeAssumption DEF PipeInv, LockHeld, Process
  <2>3. ASSUME NEW r \in Reader, pc'[r] = "asleep"
        PROVE  \E v \in Writer : killed'[v]
    <3>1. fails /\ pc[r] = "asleep"
      BY <2>3, <1>9, PipeAssumption DEF Process
    <3>2. readopen
      BY <3>1 DEF PipeInv, Ends
    <3> QED
      BY <1>2, <3>1, <3>2
  <2> QED
    BY <2>1, <2>2, <2>3 DEF Found
<1>17. RestOfCall'
  BY <1>3, <1>4, <1>9, PipeAssumption DEF PipeInv, RestOfCall, Process, TypeOK
<1> QED
  BY <1>6, <1>11, <1>12, <1>13, <1>16, <1>17 DEF PipeInv

LEMMA InvPipeRead ==
    ASSUME PipeInv, NEW r \in Reader, PipeRead(r)
    PROVE  PipeInv'
<1> DEFINE k == IF want[r] <= Count THEN want[r] ELSE Count
           dies == Empty /\ writeopen /\ killed[r] /\ Goto(r, "idle")
                   /\ want' = [want EXCEPT ![r] = 0] /\ UNCHANGED <<nread, got, lock>>
           waits == Empty /\ writeopen /\ ~killed[r] /\ Goto(r, "check")
                    /\ lock' = r /\ UNCHANGED <<nread, got, want>>
           takes == ~(Empty /\ writeopen)
                    /\ got' = [got EXCEPT ![r] =
                                 [i \in 1..k |-> data[(nread + i - 1) % PIPESIZE]]]
                    /\ nread' = Advance(nread, k)
                    /\ want' = [want EXCEPT ![r] = 0]
                    /\ WakeAndGoto(ReadWakes, r, "idle") /\ UNCHANGED lock
<1>1. /\ pc[r] = "ready" /\ lock = Nobody
      /\ UNCHANGED <<data, nwrite, readopen, writeopen, freed, killed, rest>>
  BY DEF PipeRead
<1>2. dies \/ waits \/ takes
  BY DEF PipeRead
<1>3. r \in Process /\ r \notin Writer /\ Counters /\ Bounded
  BY PipeAssumption DEF Process, PipeInv, TypeOK, Counters
<1>4. Count \in 0..Word - 1 /\ k \in 0..Count
  BY <1>3, CountValue, PipeAssumption DEF PipeInv, TypeOK
<1> HIDE DEF k
<1>5. Counters' /\ Bounded'
  <2>1. CASE takes
    <3>1. Counters' /\ Count' = Count - k
      BY <1>1, <1>3, <1>4, <2>1, CountAfterRead
    <3> QED
      BY <1>3, <1>4, <3>1, PipeAssumption DEF Bounded
  <2>2. CASE dies \/ waits
    BY <1>1, <1>3, <2>2 DEF Counters, Bounded, Count
  <2> QED BY <1>2, <2>1, <2>2
<1>6. got' \in [Reader -> Seq(Byte)]
  <2>1. \A i \in 1..k : data[(nread + i - 1) % PIPESIZE] \in Byte
    <3> SUFFICES ASSUME NEW i \in 1..k PROVE data[(nread + i - 1) % PIPESIZE] \in Byte
      OBVIOUS
    <3>1. nread + i - 1 \in Int
      BY <1>3, <1>4, PipeAssumption DEF Counters
    <3>2. (nread + i - 1) % PIPESIZE \in 0..PIPESIZE - 1
      BY <3>1, PipeAssumption, ModSmall
    <3> QED
      BY <3>2 DEF PipeInv, TypeOK
  <2>2. [i \in 1..k |-> data[(nread + i - 1) % PIPESIZE]] \in Seq(Byte)
    BY <2>1, <1>4
  <2> QED
    BY <1>2, <2>2 DEF PipeInv, TypeOK
<1>7. /\ pc' \in [Process -> Labels]
      /\ pc'[r] = IF waits THEN "check" ELSE "idle"
      /\ \A q \in Process \ {r} :
            pc'[q] = IF takes /\ q \in Writer /\ pc[q] = "asleep" THEN "ready" ELSE pc[q]
  <2>1. TypeOK /\ {"check", "idle"} \subseteq Labels /\ ReadWakes = Writer
    BY DEF PipeInv, Labels, ReadWakes
  <2>2. CASE takes
    BY <1>3, <2>1, <2>2, Moved
  <2>3. CASE dies
    <3>1. WakeAndGoto({}, r, "idle")
      BY <2>3 DEF Goto
    <3> QED BY <1>3, <2>1, <2>3, <3>1, Moved
  <2>4. CASE waits
    <3>1. WakeAndGoto({}, r, "check")
      BY <2>4 DEF Goto
    <3> QED BY <1>3, <2>1, <2>4, <3>1, Moved
  <2> QED BY <1>2, <2>2, <2>3, <2>4
<1>8. lock' = IF waits THEN r ELSE Nobody
  BY <1>1, <1>2
<1>9. TypeOK'
  <2>1. want' \in [Reader -> 0..MaxRead]
    <3>1. want' = want \/ want' = [want EXCEPT ![r] = 0]
      BY <1>2
    <3>2. 0 \in 0..MaxRead
      BY PipeAssumption
    <3> QED
      BY <3>1, <3>2 DEF PipeInv, TypeOK
  <2> QED
    BY <1>1, <1>3, <1>5, <1>6, <1>7, <1>8, <2>1 DEF PipeInv, TypeOK, Counters
<1>10. Ends'
  BY <1>1, <1>3, <1>7 DEF PipeInv, Ends, Process
<1>11. LockHeld'
  BY <1>1, <1>3, <1>7, <1>8, PipeAssumption DEF PipeInv, LockHeld, Process
<1>12. Found'
  <2>1. ASSUME NEW v \in Writer, pc'[v] \in {"check", "asleep"} PROVE (Full /\ readopen)'
    <3>1. pc[v] = "asleep" /\ ~takes
      BY <2>1, <1>1, <1>3, <1>7, PipeAssumption DEF PipeInv, LockHeld, Process
    <3> QED
      BY <1>1, <1>2, <3>1 DEF PipeInv, Found, Full
  <2>2. ASSUME NEW q \in Reader, pc'[q] = "check" PROVE (Empty /\ writeopen)'
    <3>1. q = r /\ waits
      BY <2>2, <1>1, <1>7, PipeAssumption DEF PipeInv, LockHeld, Process
    <3> QED
      BY <1>1, <3>1 DEF Empty
  <2>3. ASSUME NEW q \in Reader, pc'[q] = "asleep"
        PROVE  (Empty /\ writeopen)' \/ \E w \in Writer : killed'[w]
    <3>1. pc[q] = "asleep"
      BY <2>3, <1>1, <1>7, PipeAssumption DEF Process
    <3>2. (Empty /\ writeopen) \/ \E w \in Writer : killed[w]
      BY <3>1 DEF PipeInv, Found
    <3>3. CASE \E w \in Writer : killed[w]
      BY <1>1, <3>3
    <3>4. CASE Empty /\ writeopen
      BY <1>1, <1>2, <3>4 DEF Empty
    <3> QED BY <3>2, <3>3, <3>4
  <2> QED
    BY <2>1, <2>2, <2>3 DEF Found
<1>13. RestOfCall'
  BY <1>1, <1>3, <1>7 DEF PipeInv, RestOfCall, Process
<1> QED
  BY <1>5, <1>9, <1>10, <1>11, <1>12, <1>13 DEF PipeInv

(* The last process of an end closes it and wakes the other side.           *)
LEMMA InvClose ==
    ASSUME PipeInv, NEW p \in Process, Close(p)
    PROVE  PipeInv'
<1> DEFINE lastWriter == p \in Writer /\ LastOf(Writer, p)
           lastReader == p \in Reader /\ LastOf(Reader, p)
<1>1. /\ pc[p] = "idle" /\ lock = Nobody
      /\ freed' = (~readopen' /\ ~writeopen')
      /\ UNCHANGED <<data, nread, nwrite, lock, killed, callVars>>
  BY DEF Close
<1>2. /\ writeopen' = (writeopen /\ ~lastWriter)
      /\ readopen' = (readopen /\ ~lastReader)
  BY PipeAssumption DEF Close, PipeInv, TypeOK
<1>3. /\ pc' \in [Process -> Labels]
      /\ pc'[p] = "closed"
      /\ \A q \in Process \ {p} :
           pc'[q] = IF /\ (lastWriter /\ q \in Reader) \/ (lastReader /\ q \in Writer)
                       /\ pc[q] = "asleep" THEN "ready" ELSE pc[q]
  <2>1. TypeOK /\ "closed" \in Labels
    BY DEF PipeInv, Labels
  <2>2. CASE lastWriter
    <3>1. WakeAndGoto(Reader, p, "closed")
      BY <2>2 DEF Close
    <3> QED BY <2>1, <2>2, <3>1, Moved, PipeAssumption
  <2>3. CASE ~lastWriter /\ lastReader
    <3>1. WakeAndGoto(Writer, p, "closed")
      BY <2>3 DEF Close
    <3> QED BY <2>1, <2>3, <3>1, Moved, PipeAssumption
  <2>4. CASE ~lastWriter /\ ~lastReader
    <3>1. WakeAndGoto({}, p, "closed")
      BY <2>4 DEF Close, Goto
    <3> QED BY <2>1, <2>4, <3>1, Moved
  <2> QED BY <2>2, <2>3, <2>4
<1>4. TypeOK'
  BY <1>1, <1>2, <1>3 DEF PipeInv, TypeOK, callVars
<1>5. Bounded'
  BY <1>1 DEF PipeInv, Bounded, Count
<1>6. Ends'
  <2>1. readopen' <=> \E r \in Reader : pc'[r] # "closed"
    <3>1. CASE p \in Reader
      BY <3>1, <1>1, <1>2, <1>3 DEF PipeInv, Ends, LastOf, Process
    <3>2. CASE p \notin Reader
      BY <3>2, <1>1, <1>2, <1>3 DEF PipeInv, Ends, Process
    <3> QED BY <3>1, <3>2
  <2>2. writeopen' <=> \E w \in Writer : pc'[w] # "closed"
    <3>1. CASE p \in Writer
      BY <3>1, <1>1, <1>2, <1>3 DEF PipeInv, Ends, LastOf, Process
    <3>2. CASE p \notin Writer
      BY <3>2, <1>1, <1>2, <1>3 DEF PipeInv, Ends, Process
    <3> QED BY <3>1, <3>2
  <2> QED
    BY <1>1, <2>1, <2>2 DEF Ends, Process
<1>7. LockHeld'
  BY <1>1, <1>3, PipeAssumption DEF PipeInv, LockHeld, Process
<1>8. Found'
  <2>1. ASSUME NEW v \in Writer, pc'[v] \in {"check", "asleep"} PROVE (Full /\ readopen)'
    <3>1. pc[v] = "asleep" /\ ~lastReader
      BY <2>1, <1>1, <1>3, PipeAssumption DEF PipeInv, LockHeld, Process
    <3> QED
      BY <1>1, <1>2, <3>1 DEF PipeInv, Found, Full
  <2>2. \A q \in Reader : pc'[q] # "check"
    BY <1>1, <1>3, PipeAssumption DEF PipeInv, LockHeld, Process
  <2>3. ASSUME NEW q \in Reader, pc'[q] = "asleep"
        PROVE  (Empty /\ writeopen)' \/ \E w \in Writer : killed'[w]
    <3>1. pc[q] = "asleep" /\ ~lastWriter
      BY <2>3, <1>1, <1>3, PipeAssumption DEF Process
    <3> QED
      BY <1>1, <1>2, <3>1 DEF PipeInv, Found, Empty
  <2> QED
    BY <2>1, <2>2, <2>3 DEF Found
<1>9. RestOfCall'
  BY <1>1, <1>3 DEF PipeInv, RestOfCall, Process, callVars
<1> QED
  BY <1>4, <1>5, <1>6, <1>7, <1>8, <1>9 DEF PipeInv

(* A new pipe can only take the place of one that nobody is inside.         *)
LEMMA InvPipeAlloc ==
    ASSUME PipeInv, PipeAlloc
    PROVE  PipeInv'
<1>1. lock = Nobody
  BY DEF PipeAlloc, PipeInv, Ends, LockHeld, TypeOK
<1>2. pc' = [p \in Process |-> "idle"] /\ lock' = Nobody
  BY <1>1 DEF PipeAlloc
<1>3. TypeOK'
  <2>1. nread' \in 0..Word - 1 /\ nwrite' \in 0..Word - 1
    BY PipeAssumption DEF PipeAlloc
  <2> QED
    BY <1>2, <2>1 DEF PipeAlloc, PipeInv, TypeOK, Labels, callVars
<1>4. Bounded'
  <2>1. Count' = 0
    BY PipeAssumption, ModDistance DEF PipeAlloc, Count
  <2> QED
    BY <2>1, PipeAssumption DEF Bounded
<1>5. Ends'
  BY <1>2, PipeAssumption DEF PipeAlloc, Ends, Process
<1>6. LockHeld' /\ Found'
  BY <1>2, PipeAssumption DEF LockHeld, Found, Process
<1>7. RestOfCall'
  BY <1>2 DEF PipeAlloc, PipeInv, Ends, RestOfCall, Process, callVars
<1> QED
  BY <1>3, <1>4, <1>5, <1>6, <1>7 DEF PipeInv

LEMMA InvNext == PipeInv /\ [Next]_vars => PipeInv'
<1> SUFFICES ASSUME PipeInv, [Next]_vars PROVE PipeInv'
  OBVIOUS
<1>1. ASSUME NEW w \in Writer, StartWrite(w) PROVE PipeInv'
  BY <1>1, InvStartWrite
<1>2. ASSUME NEW w \in Writer, PipeWrite(w) PROVE PipeInv'
  BY <1>2, InvPipeWrite
<1>3. ASSUME NEW r \in Reader, StartRead(r) PROVE PipeInv'
  BY <1>3, InvStartRead
<1>4. ASSUME NEW r \in Reader, PipeRead(r) PROVE PipeInv'
  BY <1>4, InvPipeRead
<1>5. ASSUME NEW p \in Process, Sleep(p) \/ Kill(p) \/ Close(p) PROVE PipeInv'
  BY <1>5, InvSleep, InvKill, InvClose
<1>6. CASE PipeAlloc
  BY <1>6, InvPipeAlloc
<1>7. CASE UNCHANGED vars
  BY <1>7 DEF vars, pipeVars, callVars, PipeInv, TypeOK, Bounded, Count, Ends, LockHeld,
              Found, Full, Empty, RestOfCall
<1> QED
  BY <1>1, <1>2, <1>3, <1>4, <1>5, <1>6, <1>7 DEF Next

THEOREM PipeInvariant == Spec => []PipeInv
BY InvInit, InvNext, PTL DEF Spec

(* Nobody is inside a call on a freed pipe, and an end is open as long as a *)
(* process holds it: pipeclose() frees the page exactly once it is unused.  *)
THEOREM NeverUsedAfterFree == Spec => []NoUseAfterFree
<1>1. PipeInv => NoUseAfterFree
  BY DEF PipeInv, Ends, NoUseAfterFree
<1> QED
  BY <1>1, PipeInvariant, PTL

(* The wakeups of pipewrite(), piperead() and pipeclose() suffice: whoever  *)
(* sleeps still has a reason to.                                            *)
THEOREM NobodyStranded == Spec => []NoneStranded
<1>1. PipeInv => NoneStranded
  BY DEF PipeInv, Found, NoneStranded
<1> QED
  BY <1>1, PipeInvariant, PTL

(***************************************************************************)
(* The ring is a queue: Pipe implements Fifo.                              *)
(***************************************************************************)

(* A multiple of n does not change a remainder.                             *)
LEMMA ModCofactor ==
    ASSUME NEW n \in Nat \ {0}, NEW a \in Int
    PROVE  \E q \in Int : a = n * q + (a % n)
<1>1. a \div n \in Int
  OBVIOUS
<1>2. a = n * (a \div n) + (a % n)
  BY SMTT(30)
<1> QED
  BY <1>1, <1>2

LEMMA ModMultiple ==
    ASSUME NEW n \in Nat \ {0}, NEW q \in Int, NEW a \in Int
    PROVE  (a + n * q) % n = a % n
<1>1. ASSUME NEW t \in Int, NEW b \in 0..n-1 PROVE (n * t + b) % n = b
  OBVIOUS
<1>2. PICK p \in Int : a = n * p + (a % n)
  BY ModCofactor
<1>3. a % n \in 0..n-1
  BY ModSmall
<1> DEFINE b == a % n
<1>4. a + n * q = n * (p + q) + b
  BY <1>2, <1>3
<1>5. (n * (p + q) + b) % n = b
  <2>1. b \in 0..n-1 /\ p + q \in Int
    BY <1>3
  <2> HIDE DEF b
  <2> QED BY <1>1, <2>1
<1> QED
  BY <1>4, <1>5

(* The ring's size divides the word, so a counter that has wrapped around   *)
(* still selects the same slot.                                             *)
LEMMA SlotOfWrapped ==
    ASSUME NEW a \in Int
    PROVE  (a - Word) % PIPESIZE = a % PIPESIZE
<1>1. Word \in Int /\ PIPESIZE \in Nat \ {0} /\ Word % PIPESIZE = 0
  BY PipeAssumption
<1>2. PICK q \in Int : Word = PIPESIZE * q + (Word % PIPESIZE)
  BY <1>1, ModCofactor
<1> DEFINE z == -q
<1>3. z \in Int /\ a - Word = a + PIPESIZE * z
  BY <1>1, <1>2
<1>4. (a + PIPESIZE * z) % PIPESIZE = a % PIPESIZE
  <2> HIDE DEF z
  <2> QED BY <1>1, <1>3, ModMultiple
<1> QED
  BY <1>3, <1>4

LEMMA SlotDifference ==
    ASSUME NEW a \in Int, NEW b \in Int
    PROVE  ((a % PIPESIZE) - b) % PIPESIZE = (a - b) % PIPESIZE
<1>1. PICK q \in Int : a = PIPESIZE * q + (a % PIPESIZE)
  BY PipeAssumption, ModCofactor
<1>2. a % PIPESIZE \in Int
  BY PipeAssumption
<1> DEFINE c == a % PIPESIZE
<1>3. a - b = (c - b) + PIPESIZE * q
  BY <1>1, <1>2, PipeAssumption
<1>4. ((c - b) + PIPESIZE * q) % PIPESIZE = (c - b) % PIPESIZE
  <2>1. c - b \in Int
    BY <1>2
  <2> HIDE DEF c
  <2> QED BY <2>1, PipeAssumption, ModMultiple
<1> QED
  BY <1>3, <1>4

(* How far slot (nread + i - 1) % PIPESIZE lies behind the write position.  *)
LEMMA SlotDistance ==
    ASSUME Counters, Bounded, NEW i \in 1..PIPESIZE
    PROVE  (((nread + i - 1) % PIPESIZE) - nwrite) % PIPESIZE =
             IF i <= Count THEN i - 1 - Count + PIPESIZE ELSE i - 1 - Count
<1>1. Word \in Nat \ {0} /\ PIPESIZE \in Nat \ {0} /\ PIPESIZE < Word
  BY PipeAssumption
<1>2. Count \in 0..PIPESIZE
  BY <1>1, CountValue DEF Bounded
<1> DEFINE x == nread + i - 1
<1>3. x \in Int /\ nwrite \in Int /\ x - nwrite \in Int
  BY <1>1 DEF Counters
<1>4. ((x % PIPESIZE) - nwrite) % PIPESIZE = (x - nwrite) % PIPESIZE
  <2> HIDE DEF x
  <2> QED BY <1>3, SlotDifference
<1> DEFINE d == i - 1 - Count
<1>5. d \in Int /\ -PIPESIZE <= d /\ d <= PIPESIZE - 1
  BY <1>1, <1>2
<1>6. (x - nwrite) % PIPESIZE = d % PIPESIZE
  <2>1. CASE nread <= nwrite
    <3>1. x - nwrite = d
      BY <1>1, <1>2, <2>1, CountValue DEF Counters
    <3> QED BY <3>1
  <2>2. CASE ~(nread <= nwrite)
    <3>1. x - nwrite - Word = d
      BY <1>1, <1>2, <2>2, CountValue DEF Counters
    <3>2. (x - nwrite - Word) % PIPESIZE = (x - nwrite) % PIPESIZE
      <4> HIDE DEF x
      <4> QED BY <1>3, SlotOfWrapped
    <3> QED BY <3>1, <3>2
  <2> QED BY <2>1, <2>2
<1>7. d % PIPESIZE = IF d < 0 THEN d + PIPESIZE ELSE d
  <2> HIDE DEF d
  <2>1. d < 0 => d % PIPESIZE = d + PIPESIZE
    BY <1>1, <1>5, ModSmall
  <2>2. ~(d < 0) => d \in 0..PIPESIZE - 1
    BY <1>1, <1>5
  <2>3. ~(d < 0) => d % PIPESIZE = d
    BY <1>1, <1>5, <2>2, ModSmall
  <2> QED BY <2>1, <2>3
<1> QED
  BY <1>2, <1>4, <1>6, <1>7

(* The contents are a sequence of Count bytes.                              *)
LEMMA ContentsSeq ==
    ASSUME Counters, Bounded, data \in [0..PIPESIZE - 1 -> Byte]
    PROVE  Contents \in Seq(Byte) /\ Len(Contents) = Count
<1>1. PIPESIZE \in Nat \ {0} /\ Count \in Nat
  BY CountValue, PipeAssumption
<1>2. \A i \in 1..Count : (nread + i - 1) % PIPESIZE \in 0..PIPESIZE - 1
  <2> SUFFICES ASSUME NEW i \in 1..Count
               PROVE  (nread + i - 1) % PIPESIZE \in 0..PIPESIZE - 1
    OBVIOUS
  <2>1. nread + i - 1 \in Int
    BY <1>1, PipeAssumption DEF Counters
  <2> QED BY <1>1, <2>1, ModSmall
<1>3. \A i \in 1..Count : data[(nread + i - 1) % PIPESIZE] \in Byte
  BY <1>2
<1> QED
  BY <1>1, <1>3 DEF Contents

(* pipewrite's loop appends the first k bytes of what is left to write.     *)
LEMMA ContentsAfterWrite ==
    ASSUME Counters, Bounded, data \in [0..PIPESIZE - 1 -> Byte],
           NEW s \in Seq(Byte), NEW k \in 0..PIPESIZE - Count, k <= Len(s),
           nwrite' = Advance(nwrite, k), nread' = nread,
           data' = [j \in 0..PIPESIZE - 1 |->
                      LET i == (j - nwrite) % PIPESIZE IN
                      IF i < k THEN s[i + 1] ELSE data[j]]
    PROVE  Contents' = Contents \o SubSeq(s, 1, k)
<1>1. Word \in Nat \ {0} /\ PIPESIZE \in Nat \ {0} /\ PIPESIZE < Word
  BY PipeAssumption
<1>2. Count \in 0..PIPESIZE /\ Count' = Count + k
  BY <1>1, CountValue, CountAfterWrite DEF Bounded
<1>3. ASSUME NEW i \in 1..Count + k
      PROVE  Contents'[i] = IF i <= Count THEN Contents[i] ELSE s[i - Count]
  <2> DEFINE j == (nread + i - 1) % PIPESIZE
             d == (j - nwrite) % PIPESIZE
  <2>1. i \in 1..PIPESIZE
    BY <1>1, <1>2
  <2>2. j \in 0..PIPESIZE - 1
    <3>1. nread + i - 1 \in Int
      BY <1>1, <1>2 DEF Counters
    <3> QED BY <1>1, <3>1, ModSmall
  <2>3. d = IF i <= Count THEN i - 1 - Count + PIPESIZE ELSE i - 1 - Count
    BY <2>1, SlotDistance
  <2>4. Contents'[i] = data'[j]
    BY <1>2 DEF Contents
  <2>5. data'[j] = IF d < k THEN s[d + 1] ELSE data[j]
    BY <2>2
  <2> HIDE DEF d
  <2>6. CASE i <= Count
    <3>1. ~(d < k)
      BY <1>1, <1>2, <2>3, <2>6
    <3>2. Contents[i] = data[j]
      BY <1>2, <2>6 DEF Contents
    <3> QED BY <2>4, <2>5, <2>6, <3>1, <3>2
  <2>7. CASE ~(i <= Count)
    <3>1. d < k /\ d + 1 = i - Count
      BY <1>1, <1>2, <2>3, <2>7
    <3> QED BY <2>4, <2>5, <2>7, <3>1
  <2> QED BY <2>6, <2>7
<1> DEFINE t == SubSeq(s, 1, k)
<1>4. t = [i \in 1..k |-> s[i]] /\ Len(t) = k /\ t \in Seq(Byte)
  BY <1>1, <1>2
<1>5. Contents \in Seq(Byte) /\ Len(Contents) = Count
  BY ContentsSeq
<1>6. /\ Contents \o t \in Seq(Byte) /\ Len(Contents \o t) = Count + k
      /\ \A i \in 1..Count + k :
            (Contents \o t)[i] = IF i <= Count THEN Contents[i] ELSE t[i - Count]
  <2> HIDE DEF t
  <2> DEFINE c == Contents
  <2>1. c \in Seq(Byte) /\ t \in Seq(Byte)
    BY <1>4, <1>5
  <2> HIDE DEF c
  <2>2. /\ c \o t \in Seq(Byte) /\ Len(c \o t) = Len(c) + Len(t)
        /\ \A i \in 1..Len(c) + Len(t) :
              (c \o t)[i] = IF i <= Len(c) THEN c[i] ELSE t[i - Len(c)]
    BY <2>1, ConcatProperties, Zenon
  <2>3. Len(c) = Count /\ Len(t) = k
    BY <1>4, <1>5 DEF c
  <2> QED BY <2>2, <2>3, Zenon DEF c
<1>7. \A i \in 1..Count + k : ~(i <= Count) => t[i - Count] = s[i - Count]
  BY <1>2, <1>4
<1> HIDE DEF t
<1>8. \A i \in 1..Count + k : Contents'[i] = (Contents \o t)[i]
  BY <1>3, <1>6, <1>7
<1>9. Contents' \in Seq(Byte) /\ Len(Contents') = Count + k
  <2>1. \A i \in 1..Count + k : Contents'[i] \in Byte
    BY <1>6, <1>8, ElementOfSeq
  <2> QED
    BY <1>2, <2>1 DEF Contents
<1>10. Contents' = Contents \o t
  BY <1>6, <1>8, <1>9, SeqEqual
<1> QED
  BY <1>10 DEF t

(* piperead's loop takes the first k bytes.                                 *)
LEMMA ContentsAfterRead ==
    ASSUME Counters, Bounded, data \in [0..PIPESIZE - 1 -> Byte], NEW k \in 0..Count,
           nread' = Advance(nread, k), nwrite' = nwrite, data' = data
    PROVE  /\ Contents' = SubSeq(Contents, k + 1, Len(Contents))
           /\ [i \in 1..k |-> data[(nread + i - 1) % PIPESIZE]] = SubSeq(Contents, 1, k)
<1>1. Word \in Nat \ {0} /\ PIPESIZE \in Nat \ {0} /\ PIPESIZE < Word
  BY PipeAssumption
<1>2. Count \in 0..PIPESIZE /\ Count' = Count - k
  BY <1>1, CountValue, CountAfterRead DEF Bounded
<1>3. Contents \in Seq(Byte) /\ Len(Contents) = Count
  BY ContentsSeq
<1>4. ASSUME NEW i \in 1..Count - k
      PROVE  (nread' + i - 1) % PIPESIZE = (nread + (k + i) - 1) % PIPESIZE
  <2> DEFINE x == nread + (k + i) - 1
  <2>1. x \in Int
    BY <1>1, <1>2 DEF Counters
  <2>2. nread' = IF nread + k < Word THEN nread + k ELSE nread + k - Word
    <3>1. nread \in 0..Word - 1 /\ k \in 0..PIPESIZE
      BY <1>1, <1>2 DEF Counters
    <3> QED BY <3>1, ModSum DEF Advance
  <2>3. nread' + i - 1 = x \/ nread' + i - 1 = x - Word
    BY <1>1, <1>2, <2>2 DEF Counters
  <2>4. (x - Word) % PIPESIZE = x % PIPESIZE
    <3> HIDE DEF x
    <3> QED BY <2>1, SlotOfWrapped
  <2> QED BY <2>3, <2>4
<1>5. \A i \in 1..Count - k : Contents'[i] = Contents[k + i]
  <2> SUFFICES ASSUME NEW i \in 1..Count - k PROVE Contents'[i] = Contents[k + i]
    OBVIOUS
  <2>1. k + i \in 1..Count
    BY <1>2
  <2>2. Contents[k + i] = data[(nread + (k + i) - 1) % PIPESIZE]
    BY <2>1 DEF Contents
  <2>3. Contents'[i] = data[(nread' + i - 1) % PIPESIZE]
    BY <1>2 DEF Contents
  <2> QED BY <1>4, <2>2, <2>3
<1>6. Contents' = [i \in 1..Count - k |-> Contents'[i]]
  BY <1>2 DEF Contents
<1>7. SubSeq(Contents, k + 1, Len(Contents)) = [i \in 1..Count - k |-> Contents[k + i]]
  <2> DEFINE c == Contents
  <2>1. c \in Seq(Byte) /\ Len(c) = Count
    BY <1>3
  <2> HIDE DEF c
  <2>2. SubSeq(c, k + 1, Len(c)) = [i \in 1..Count - k |-> c[k + i]]
    BY <1>2, <2>1
  <2> QED BY <2>2 DEF c
<1>8. Contents' = SubSeq(Contents, k + 1, Len(Contents))
  BY <1>5, <1>6, <1>7
<1>9. SubSeq(Contents, 1, k) = [i \in 1..k |-> Contents[i]]
  <2> DEFINE c == Contents
  <2>1. c \in Seq(Byte) /\ Len(c) = Count
    BY <1>3
  <2> HIDE DEF c
  <2>2. SubSeq(c, 1, k) = [i \in 1..k |-> c[i]]
    BY <1>2, <2>1
  <2> QED BY <2>2 DEF c
<1>10. \A i \in 1..k : Contents[i] = data[(nread + i - 1) % PIPESIZE]
  BY <1>2 DEF Contents
<1> QED
  BY <1>8, <1>9, <1>10

LEMMA FifoInit == Init => F!Init
<1> SUFFICES ASSUME Init PROVE F!Init
  OBVIOUS
<1>1. Counters /\ Count = 0
  <2>1. Counters
    BY InvInit DEF PipeInv, TypeOK, Counters
  <2> QED BY <2>1, CountValue DEF Init
<1>2. Contents = <<>>
  BY <1>1 DEF Contents
<1> QED
  BY <1>2 DEF Init, F!Init

LEMMA FifoWrite ==
    ASSUME PipeInv, NEW w \in Writer, PipeWrite(w)
    PROVE  [F!Next]_F!vars
<1> DEFINE k == Fits(w)
           left == SubSeq(rest[w], k + 1, Len(rest[w]))
<1>1. /\ k \in 0..PIPESIZE - Count /\ k <= Len(rest[w])
      /\ left \in Seq(Byte)
  BY Copied
<1>2. /\ nwrite' = Advance(nwrite, k) /\ nread' = nread
      /\ data' = [j \in 0..PIPESIZE - 1 |->
                    LET i == (j - nwrite) % PIPESIZE IN
                    IF i < k THEN rest[w][i + 1] ELSE data[j]]
      /\ got' = got
      /\ rest' = [rest EXCEPT ![w] = <<>>] \/ rest' = [rest EXCEPT ![w] = left]
  BY DEF PipeWrite
<1>3. /\ Counters /\ Bounded /\ data \in [0..PIPESIZE - 1 -> Byte]
      /\ rest \in [Writer -> Seq(Byte)] /\ Len(rest[w]) \in Nat
      /\ Count \in Nat /\ PIPESIZE \in Nat
  BY CountValue, PipeAssumption DEF PipeInv, TypeOK, Counters
<1>4. Contents \in Seq(Byte) /\ Len(Contents) = Count
  BY <1>3, ContentsSeq
<1> HIDE DEF k
<1>5. Contents' = Contents \o SubSeq(rest[w], 1, k)
  BY <1>1, <1>2, <1>3, ContentsAfterWrite
<1>6. CASE k = 0
  <2>1. Contents' = Contents
    <3> DEFINE c == Contents
    <3>1. c \in Seq(Byte)
      BY <1>4
    <3> HIDE DEF c
    <3>2. c \o SubSeq(rest[w], 1, 0) = c
      BY <3>1, <1>3
    <3> QED BY <1>5, <1>6, <3>2 DEF c
  <2>2. left = rest[w]
    BY <1>3, <1>6, SubSeqFull
  <2>3. rest' = [rest EXCEPT ![w] = <<>>] \/ rest' = rest
    BY <1>2, <1>3, <2>2
  <2> QED
    BY <1>2, <2>1, <2>3 DEF F!Next, F!Abandon, F!vars
<1>7. CASE k # 0
  <2>1. k \in 1..Len(rest[w]) /\ Len(Contents) + k <= PIPESIZE
    BY <1>1, <1>3, <1>4, <1>7
  <2>2. F!Put(w)
    BY <1>2, <1>5, <2>1 DEF F!Put
  <2> QED
    BY <2>2 DEF F!Next
<1> QED
  BY <1>6, <1>7

LEMMA FifoRead ==
    ASSUME PipeInv, NEW r \in Reader, PipeRead(r)
    PROVE  [F!Next]_F!vars
<1> DEFINE k == IF want[r] <= Count THEN want[r] ELSE Count
           takes == got' = [got EXCEPT ![r] =
                              [i \in 1..k |-> data[(nread + i - 1) % PIPESIZE]]]
                    /\ nread' = Advance(nread, k)
<1>1. UNCHANGED <<data, nwrite, rest>> /\ (UNCHANGED <<nread, got>> \/ takes)
  BY DEF PipeRead
<1>2. Counters /\ Bounded /\ data \in [0..PIPESIZE - 1 -> Byte]
  BY DEF PipeInv, TypeOK, Counters
<1>3. Count \in Nat /\ k \in 0..Count
  BY <1>2, CountValue, PipeAssumption DEF PipeInv, TypeOK
<1>4. Contents \in Seq(Byte) /\ Len(Contents) = Count
  BY <1>2, ContentsSeq
<1> HIDE DEF k
<1>5. CASE UNCHANGED <<nread, got>>
  <2>1. Contents' = Contents
    BY <1>1, <1>5 DEF Contents, Count
  <2> QED
    BY <1>1, <1>5, <2>1 DEF F!vars
<1>6. CASE takes
  <2>1. /\ Contents' = SubSeq(Contents, k + 1, Len(Contents))
        /\ got' = [got EXCEPT ![r] = SubSeq(Contents, 1, k)]
    BY <1>1, <1>2, <1>3, <1>6, ContentsAfterRead
  <2>2. CASE k = 0
    <3>1. SubSeq(Contents, 1, Len(Contents)) = Contents
      BY <1>4, SubSeqFull
    <3>2. SubSeq(Contents, 1, 0) = <<>>
      BY SubSeqEmpty
    <3>3. Contents' = Contents /\ got' = [got EXCEPT ![r] = <<>>]
      <4>1. k + 1 = 1
        BY <2>2
      <4> QED BY <2>1, <2>2, <3>1, <3>2, <4>1, Zenon
    <3>4. F!StartRead(r)
      BY <1>1, <3>3 DEF F!StartRead
    <3> QED BY <3>4 DEF F!Next
  <2>3. CASE k # 0
    <3>1. k \in 1..Len(Contents)
      BY <1>3, <1>4, <2>3
    <3>2. F!Get(r)
      BY <1>1, <2>1, <3>1 DEF F!Get
    <3> QED BY <3>2 DEF F!Next
  <2> QED BY <2>2, <2>3
<1> QED
  BY <1>1, <1>5, <1>6

LEMMA FifoNext == PipeInv /\ [Next]_vars => [F!Next]_F!vars
<1> SUFFICES ASSUME PipeInv, [Next]_vars PROVE [F!Next]_F!vars
  OBVIOUS
<1>1. ASSUME UNCHANGED <<data, nread, nwrite>> PROVE Contents' = Contents
  BY <1>1 DEF Contents, Count
<1>2. ASSUME NEW w \in Writer, StartWrite(w) PROVE [F!Next]_F!vars
  <2>1. rest[w] = <<>>
    BY <1>2 DEF StartWrite, PipeInv, RestOfCall
  <2>2. F!StartWrite(w)
    BY <1>1, <1>2, <2>1 DEF StartWrite, F!StartWrite, pipeVars
  <2> QED BY <2>2 DEF F!Next
<1>3. ASSUME NEW w \in Writer, PipeWrite(w) PROVE [F!Next]_F!vars
  BY <1>3, FifoWrite
<1>4. ASSUME NEW r \in Reader, StartRead(r) PROVE [F!Next]_F!vars
  <2>1. F!StartRead(r)
    BY <1>1, <1>4 DEF StartRead, F!StartRead, pipeVars
  <2> QED BY <2>1 DEF F!Next
<1>5. ASSUME NEW r \in Reader, PipeRead(r) PROVE [F!Next]_F!vars
  BY <1>5, FifoRead
<1>6. ASSUME NEW p \in Process, Sleep(p) \/ Kill(p) \/ Close(p) PROVE UNCHANGED F!vars
  BY <1>1, <1>6 DEF Sleep, Kill, Close, pipeVars, callVars, F!vars
<1>7. CASE PipeAlloc
  <2>1. Count' = 0
    BY <1>7, PipeAssumption, ModDistance DEF PipeAlloc, Count
  <2>2. Contents' = <<>>
    BY <2>1 DEF Contents
  <2>3. F!Discard
    BY <1>7, <2>2 DEF PipeAlloc, F!Discard, callVars
  <2> QED BY <2>3 DEF F!Next
<1>8. CASE UNCHANGED vars
  BY <1>1, <1>8 DEF vars, pipeVars, callVars, F!vars
<1> QED
  BY <1>2, <1>3, <1>4, <1>5, <1>6, <1>7, <1>8 DEF Next

(* The ring with its two wrapping counters is a bounded queue of bytes:     *)
(* pipewrite() and piperead() lose, repeat and reorder nothing.             *)
THEOREM PipeIsFifo == Spec => IsFifo
BY FifoInit, FifoNext, PipeInvariant, PTL DEF Spec, IsFifo, F!Spec
=============================================================================
