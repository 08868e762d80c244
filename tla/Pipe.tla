-------------------------------- MODULE Pipe --------------------------------
(***************************************************************************)
(* One pipe shared by processes that hold its read end or its write end:   *)
(* pipe.c, with the sleep, wakeup and kill of proc.c as it uses them.      *)
(*                                                                         *)
(* A critical section of p->lock is one step, except that kill() needs     *)
(* only ptable.lock and so may fall between the killed check of a call and *)
(* its sleep.  The counters are unsigned and wrap around at Word; the code *)
(* relies on PIPESIZE dividing 2^32.                                       *)
(***************************************************************************)
EXTENDS Integers, Sequences

CONSTANTS
    Reader,       \* processes that hold the read end
    Writer,       \* processes that hold the write end
    Killable,     \* processes somebody may kill
    Nobody,       \* "the lock is free"
    Byte,
    PIPESIZE,
    Word,         \* 2^32 in the code: the counters are uint
    MaxWrite,     \* bound: longest write
    MaxRead       \* bound: longest read

ASSUME PipeAssumption ==
    /\ Reader # {} /\ Writer # {}     \* pipealloc makes both ends
    /\ Reader \cap Writer = {} /\ Nobody \notin Reader \cup Writer
    /\ Killable \subseteq Reader \cup Writer
    /\ PIPESIZE \in Nat \ {0}
    /\ Word \in Nat /\ Word > PIPESIZE /\ Word % PIPESIZE = 0
    /\ MaxWrite \in Nat \ {0} /\ MaxRead \in Nat \ {0}

VARIABLES
    data,         \* p->data
    nread, nwrite,
    readopen, writeopen,
    freed,        \* the page of the pipe has been given back by kfree
    lock,         \* process holding p->lock into its sleep
    killed,       \* killed mark of each process
    pc,           \* where each process is
    rest,         \* bytes addr[i..n-1] of a pipewrite call
    want,         \* n of a piperead call
    got           \* what the last piperead returned

pipeVars == <<data, nread, nwrite, readopen, writeopen, freed>>
callVars == <<rest, want, got>>
vars == <<pipeVars, lock, killed, pc, callVars>>

Process == Reader \cup Writer

(* "ready" is before acquire, "check" between the killed check and sleep.   *)
Labels == {"idle", "ready", "check", "asleep", "closed"}

Advance(n, k) == (n + k) % Word

Count == (nwrite - nread) % Word
Full == nwrite = (nread + PIPESIZE) % Word
Empty == nread = nwrite

(* Position of every process when p goes to l and all of S are woken.       *)
WakeAndGoto(S, p, l) ==
    pc' = [q \in Process |-> IF q = p THEN l
                             ELSE IF q \in S /\ pc[q] = "asleep" THEN "ready"
                             ELSE pc[q]]

Goto(p, l) == WakeAndGoto({}, p, l)

Init ==
    /\ data \in [0..PIPESIZE - 1 -> Byte]
    /\ nread = 0 /\ nwrite = 0
    /\ readopen = TRUE /\ writeopen = TRUE
    /\ freed = FALSE
    /\ lock = Nobody
    /\ killed = [p \in Process |-> FALSE]
    /\ pc = [p \in Process |-> "idle"]
    /\ rest = [w \in Writer |-> <<>>]
    /\ want = [r \in Reader |-> 0]
    /\ got = [r \in Reader |-> <<>>]

(* write(): a killed process does not get past the entry of the system call *)
StartWrite(w) ==
    /\ pc[w] = "idle"
    /\ ~killed[w]
    /\ \E n \in 1..MaxWrite : \E s \in [1..n -> Byte] :
         rest' = [rest EXCEPT ![w] = s]
    /\ Goto(w, "ready")
    /\ UNCHANGED <<pipeVars, lock, killed, want, got>>

(* pipewrite() from acquire, or from its return out of sleep, to the next   *)
(* sleep or the return: copy what fits, then finish, fail or go to sleep.   *)
RoomForOneMore == PIPESIZE + 1 - Count
Room == PIPESIZE - Count
Fits(w) == IF Len(rest[w]) <= Room THEN Len(rest[w]) ELSE Room

NoReaderWoken == {}
WriteWakes == Reader     \* sleepers on &p->nread

PipeWrite(w) ==
    /\ pc[w] = "ready"
    /\ lock = Nobody
    /\ LET k == Fits(w)
           left == SubSeq(rest[w], k + 1, Len(rest[w]))
       IN /\ data' = [j \in 0..PIPESIZE - 1 |->
                        LET i == (j - nwrite) % PIPESIZE IN
                        IF i < k THEN rest[w][i + 1] ELSE data[j]]
          /\ nwrite' = Advance(nwrite, k)
          /\ \/ /\ left = <<>>
                /\ rest' = [rest EXCEPT ![w] = <<>>]
                /\ WakeAndGoto(WriteWakes, w, "idle")
                /\ UNCHANGED lock
             \/ /\ left # <<>>
                /\ ~readopen \/ killed[w]
                /\ rest' = [rest EXCEPT ![w] = <<>>]
                /\ Goto(w, "idle")
                /\ UNCHANGED lock
             \/ /\ left # <<>>
                /\ readopen /\ ~killed[w]
                /\ rest' = [rest EXCEPT ![w] = left]
                /\ WakeAndGoto(WriteWakes, w, "check")
                /\ lock' = w
    /\ UNCHANGED <<nread, readopen, writeopen, freed, killed, want, got>>

StartRead(r) ==
    /\ pc[r] = "idle"
    /\ ~killed[r]
    /\ \E n \in 1..MaxRead : want' = [want EXCEPT ![r] = n]
    /\ got' = [got EXCEPT ![r] = <<>>]
    /\ Goto(r, "ready")
    /\ UNCHANGED <<pipeVars, lock, killed, rest>>

(* piperead() likewise.                                                     *)
NoWriterWoken == {}
ReadWakes == Writer      \* sleepers on &p->nwrite

PipeRead(r) ==
    /\ pc[r] = "ready"
    /\ lock = Nobody
    /\ \/ /\ Empty /\ writeopen /\ killed[r]
          /\ Goto(r, "idle")
          /\ want' = [want EXCEPT ![r] = 0]
          /\ UNCHANGED <<nread, got, lock>>
       \/ /\ Empty /\ writeopen /\ ~killed[r]
          /\ Goto(r, "check")
          /\ lock' = r
          /\ UNCHANGED <<nread, got, want>>
       \/ /\ ~(Empty /\ writeopen)
          /\ LET k == IF want[r] <= Count THEN want[r] ELSE Count IN
             /\ got' = [got EXCEPT ![r] =
                          [i \in 1..k |-> data[(nread + i - 1) % PIPESIZE]]]
             /\ nread' = Advance(nread, k)
          /\ want' = [want EXCEPT ![r] = 0]
          /\ WakeAndGoto(ReadWakes, r, "idle")
          /\ UNCHANGED lock
    /\ UNCHANGED <<data, nwrite, readopen, writeopen, freed, killed, rest>>

(* sleep(): marked SLEEPING under ptable.lock before p->lock is released.   *)
Sleep(p) ==
    /\ pc[p] = "check"
    /\ Goto(p, "asleep")
    /\ lock' = Nobody
    /\ UNCHANGED <<pipeVars, killed, callVars>>

(* kill(): sets the mark, wakes the process only if it already sleeps.      *)
Kill(p) ==
    /\ p \in Killable
    /\ ~killed[p]
    /\ pc[p] # "closed"
    /\ killed' = [killed EXCEPT ![p] = TRUE]
    /\ IF pc[p] = "asleep" THEN Goto(p, "ready") ELSE UNCHANGED pc
    /\ UNCHANGED <<pipeVars, lock, callVars>>

(* fileclose() of the last descriptor of an end calls pipeclose().          *)
AnyOf(S, p) == TRUE
LastOf(S, p) == \A q \in S \ {p} : pc[q] = "closed"

Close(p) ==
    /\ pc[p] = "idle"
    /\ lock = Nobody
    /\ IF p \in Writer /\ LastOf(Writer, p)
       THEN /\ writeopen' = FALSE
            /\ WakeAndGoto(Reader, p, "closed")
            /\ UNCHANGED readopen
       ELSE IF p \in Reader /\ LastOf(Reader, p)
       THEN /\ readopen' = FALSE
            /\ WakeAndGoto(Writer, p, "closed")
            /\ UNCHANGED writeopen
       ELSE Goto(p, "closed") /\ UNCHANGED <<readopen, writeopen>>
    /\ freed' = (~readopen' /\ ~writeopen')
    /\ UNCHANGED <<data, nread, nwrite, lock, killed, callVars>>

(* pipealloc() of a new pipe, in the same page or another, for new          *)
(* processes.                                                               *)
PipeAlloc ==
    /\ freed
    /\ nread' = 0 /\ nwrite' = 0
    /\ readopen' = TRUE /\ writeopen' = TRUE
    /\ freed' = FALSE
    /\ killed' = [p \in Process |-> FALSE]
    /\ pc' = [p \in Process |-> "idle"]
    /\ UNCHANGED <<data, lock, callVars>>

Next ==
    \/ \E w \in Writer : StartWrite(w) \/ PipeWrite(w)
    \/ \E r \in Reader : StartRead(r) \/ PipeRead(r)
    \/ \E p \in Process : Sleep(p) \/ Kill(p) \/ Close(p)
    \/ PipeAlloc

Spec == Init /\ [][Next]_vars

(* The kernel finishes what it has begun, and readers keep reading.         *)
FairSpec ==
    /\ Spec
    /\ \A w \in Writer : WF_vars(PipeWrite(w))
    /\ \A r \in Reader : WF_vars(PipeRead(r)) /\ WF_vars(StartRead(r))
    /\ \A p \in Process : WF_vars(Sleep(p))

(* The contents of the pipe, oldest byte first.                             *)
Contents == [i \in 1..Count |-> data[(nread + i - 1) % PIPESIZE]]

F == INSTANCE Fifo WITH queue <- Contents, Capacity <- PIPESIZE

(***************************************************************************)
(* Properties.                                                             *)
(***************************************************************************)

(* Every variable has its type.                                             *)
TypeOK ==
    /\ data \in [0..PIPESIZE - 1 -> Byte]
    /\ nread \in 0..Word - 1 /\ nwrite \in 0..Word - 1
    /\ readopen \in BOOLEAN /\ writeopen \in BOOLEAN /\ freed \in BOOLEAN
    /\ lock \in Process \cup {Nobody}
    /\ killed \in [Process -> BOOLEAN]
    /\ pc \in [Process -> Labels]
    /\ rest \in [Writer -> Seq(Byte)]
    /\ want \in [Reader -> 0..MaxRead]
    /\ got \in [Reader -> Seq(Byte)]

(* The ring buffer is a queue of at most PIPESIZE bytes, also when the      *)
(* counters have wrapped around and readers and writers interleave.         *)
IsFifo == F!Spec

(* A writer sleeps only while the pipe is full and somebody can drain it, a *)
(* reader only while it is empty and somebody can fill it: no wakeup of     *)
(* pipewrite, piperead or pipeclose is lost, unless a killed writer left    *)
(* without its last one.                                                    *)
NoneStranded ==
    /\ \A w \in Writer : pc[w] = "asleep" => Full /\ readopen
    /\ \A r \in Reader : pc[r] = "asleep" =>
           (Empty /\ writeopen) \/ \E w \in Writer : killed[w]

(* No process is inside a call on a pipe that has been freed, and an end    *)
(* counts as open exactly as long as a process holds it.                    *)
NoUseAfterFree ==
    /\ TypeOK
    /\ freed => \A p \in Process : pc[p] = "closed"
    /\ readopen <=> \E r \in Reader : pc[r] # "closed"
    /\ writeopen <=> \E w \in Writer : pc[w] # "closed"

(* A write that waits for room returns, whether the reader drains the pipe  *)
(* or closes it while the writer sleeps, as long as nobody is killed and no *)
(* other writer takes the room.                                             *)
WriteReturns ==
    \A w \in Writer :
        pc[w] = "ready" ~> \/ pc[w] \in {"idle", "closed"}
                           \/ \E p \in Process : killed[p]
                           \/ \E v \in Writer \ {w} : pc[v] \notin {"idle", "closed"}
=============================================================================
