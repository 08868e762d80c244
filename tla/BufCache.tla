------------------------------ MODULE BufCache ------------------------------
(***************************************************************************)
(* The buffer cache over the disk driver: bio.c, sleeplock.c and ide.c.    *)
(*                                                                         *)
(* A critical section of bcache.lock, of a sleep lock's lk or of idelock   *)
(* is one step.  The contents of a block are a value; a buffer that is not *)
(* cached for any block (dev 0 in binit) has NoBlock.                      *)
(*                                                                         *)
(* The callers in fs.c and log.c hold at most two buffers at a time: bmap  *)
(* the indirect block while balloc reads the bitmap, itrunc the same while *)
(* bfree does, write_log and install_trans the two ends of a copy.  A      *)
(* process p has Held[p] hands, one buffer in each, and is inside bio.c    *)
(* with one of them at a time; it writes and releases what it holds in any *)
(* order.                                                                  *)
(***************************************************************************)
EXTENDS Integers, Sequences, FiniteSets, FiniteSetsExt, SequencesExt

CONSTANTS
    Process,
    Held,         \* Held[p]: buffers p holds at once, at most
    Block,        \* blocks of the disk, <<dev, blockno>> in the code
    Value,        \* contents of a block
    InitValue,    \* contents of the disk at boot, and of fresh memory
    Nobody, NoBlock,
    NBUF,         \* buffers
    MaxDirty      \* blocks the log leaves dirty in the cache (LOGSIZE)

Hand == UNION {{p} \X (1..Held[p]) : p \in Process}

ASSUME BufAssumption ==
    /\ InitValue \in Value /\ NoBlock \notin Block /\ Nobody \notin Hand
    /\ NBUF \in Nat \ {0} /\ MaxDirty \in Nat /\ IsFiniteSet(Hand)

Buf == 1..NBUF
None == 0

VARIABLES
    blockno,      \* b->dev and b->blockno
    valid, dirty, \* B_VALID and B_DIRTY of b->flags
    refcnt,
    holder,       \* hand holding the sleep lock b->lock
    data,         \* b->data
    stale,        \* history: the read of b failed and nobody has written b
    lru,          \* bcache.head: most recently used first
    queue,        \* idequeue
    started,      \* buffer the disk has been told to transfer
    disk,
    cur,          \* buffer a hand looks for, waits for or holds
    pc            \* where the process is with that buffer

bufVars == <<blockno, valid, dirty, refcnt, holder, data, stale>>
ideVars == <<queue, started, disk>>
vars == <<bufVars, lru, ideVars, cur, pc>>

(* "lock": in acquiresleep; "rw": about to call iderw; "io": in the wait    *)
(* loop of iderw; "release": brelse after releasesleep.                     *)
Labels == {"idle", "lock", "lock_asleep", "rw", "io", "io_asleep", "hold",
           "release", "panic"}

Init ==
    /\ blockno = [b \in Buf |-> NoBlock]
    /\ valid = [b \in Buf |-> FALSE] /\ dirty = [b \in Buf |-> FALSE]
    /\ refcnt = [b \in Buf |-> 0]
    /\ holder = [b \in Buf |-> Nobody]
    /\ data = [b \in Buf |-> InitValue] /\ stale = [b \in Buf |-> FALSE]
    /\ lru = Reverse([b \in Buf |-> b])
    /\ queue = <<>> /\ started = None
    /\ disk = [k \in Block |-> InitValue]
    /\ cur = [h \in Hand |-> None]
    /\ pc = [h \in Hand |-> "idle"]

(* The process is not inside bio.c with another of its buffers.             *)
Others(h) == {g \in Hand : g[1] = h[1] /\ g # h}
Outside(h) == \A g \in Others(h) : pc[g] \in {"idle", "hold"}

Goto(h, l) == pc' = [pc EXCEPT ![h] = l]

(* h goes to l, and wakeup() moves the sleepers on buffer b back to awake.  *)
GotoWake(h, l, b, asleep, awake) ==
    pc' = [g \in Hand |-> IF g = h THEN l
                             ELSE IF cur[g] = b /\ pc[g] = asleep THEN awake
                             ELSE pc[g]]

(***************************************************************************)
(* bget()                                                                  *)
(***************************************************************************)
Cached(k) == {b \in Buf : blockno[b] = k}

(* Positions in the LRU list of the buffers that may be recycled.           *)
EvictsDirty == {i \in DOMAIN lru : refcnt[lru[i]] = 0}
EvictsHeld == {i \in DOMAIN lru : ~dirty[lru[i]]}
Recyclable == {i \in DOMAIN lru : refcnt[lru[i]] = 0 /\ ~dirty[lru[i]]}

Found(h, k) ==
    /\ Cached(k) # {}
    /\ LET b == CHOOSE b \in Cached(k) : TRUE IN
       /\ refcnt' = [refcnt EXCEPT ![b] = @ + 1]
       /\ cur' = [cur EXCEPT ![h] = b]
    /\ Goto(h, "lock")
    /\ UNCHANGED <<blockno, valid, dirty>>

(* Not cached: recycle the least recently used buffer, or panic.            *)
Recycle(h, k) ==
    /\ Cached(k) = {}
    /\ IF Recyclable = {}
       THEN /\ Goto(h, "panic")
            /\ UNCHANGED <<blockno, valid, dirty, refcnt, cur>>
       ELSE LET b == lru[Max(Recyclable)] IN
            /\ blockno' = [blockno EXCEPT ![b] = k]
            /\ valid' = [valid EXCEPT ![b] = FALSE]
            /\ dirty' = [dirty EXCEPT ![b] = FALSE]
            /\ refcnt' = [refcnt EXCEPT ![b] = 1]
            /\ cur' = [cur EXCEPT ![h] = b]
            /\ Goto(h, "lock")

(* The first free hand takes the buffer, of a block the process does not    *)
(* hold yet: no caller asks for the same block twice.                       *)
Bget(h, k) ==
    /\ pc[h] = "idle" /\ Outside(h)
    /\ \A g \in Others(h) :
         /\ g[2] < h[2] => pc[g] = "hold"
         /\ pc[g] = "hold" => blockno[cur[g]] # k
    /\ Found(h, k) \/ Recycle(h, k)
    /\ UNCHANGED <<holder, data, stale, lru, ideVars>>

(* acquiresleep(), and the B_VALID test of bread() once the lock is held.   *)
AcquireSleep(h) ==
    /\ pc[h] = "lock"
    /\ LET b == cur[h] IN
       \/ /\ holder[b] # Nobody
          /\ Goto(h, "lock_asleep")
          /\ UNCHANGED holder
       \/ /\ holder[b] = Nobody
          /\ holder' = [holder EXCEPT ![b] = h]
          /\ Goto(h, IF valid[b] THEN "hold" ELSE "rw")
    /\ UNCHANGED <<blockno, valid, dirty, refcnt, data, stale, lru, ideVars, cur>>

(***************************************************************************)
(* What holders do: modify the buffer and bwrite() it, or log_write() it,  *)
(* which leaves it dirty in the cache, or read it.                         *)
(***************************************************************************)
Modify(b) ==
    /\ \E v \in Value : data' = [data EXCEPT ![b] = v]
    /\ dirty' = [dirty EXCEPT ![b] = TRUE]
    /\ stale' = [stale EXCEPT ![b] = FALSE]

Bwrite(h) ==
    /\ pc[h] = "hold" /\ Outside(h)
    /\ Modify(cur[h])
    /\ Goto(h, "rw")
    /\ UNCHANGED <<blockno, valid, refcnt, holder, lru, ideVars, cur>>

LogWrite(h) ==
    /\ pc[h] = "hold" /\ Outside(h)
    /\ Cardinality({b \in Buf : dirty[b] /\ b # cur[h]}) < MaxDirty
    /\ Modify(cur[h])
    /\ UNCHANGED <<blockno, valid, refcnt, holder, lru, ideVars, cur, pc>>

(* brelse(): releasesleep() with its wakeup, then the reference count.      *)
NoWakeup(h) == Goto(h, "release")
ReleaseWakes(h) == GotoWake(h, "release", cur[h], "lock_asleep", "lock")

ReleaseSleep(h) ==
    /\ pc[h] = "hold" /\ Outside(h)
    /\ holder' = [holder EXCEPT ![cur[h]] = Nobody]
    /\ ReleaseWakes(h)
    /\ UNCHANGED <<blockno, valid, dirty, refcnt, data, stale, lru, ideVars, cur>>

MovedToFront(b) == <<b>> \o RemoveAt(lru, CHOOSE i \in DOMAIN lru : lru[i] = b)
RefLeaked(n) == n
RefDropped(n) == n - 1

Brelse(h) ==
    /\ pc[h] = "release"
    /\ LET b == cur[h] IN
       /\ refcnt' = [refcnt EXCEPT ![b] = RefDropped(@)]
       /\ lru' = IF refcnt[b] = 1 THEN MovedToFront(b) ELSE lru
    /\ cur' = [cur EXCEPT ![h] = None]
    /\ Goto(h, "idle")
    /\ UNCHANGED <<blockno, valid, dirty, holder, data, stale, ideVars>>

(***************************************************************************)
(* ide.c                                                                   *)
(***************************************************************************)

(* iderw(): append b, start the disk if it was idle, and sleep.             *)
Iderw(h) ==
    /\ pc[h] = "rw"
    /\ queue' = Append(queue, cur[h])
    /\ started' = IF queue = <<>> THEN cur[h] ELSE started
    /\ Goto(h, "io")
    /\ UNCHANGED <<bufVars, lru, disk, cur>>

IderwLoop(h) ==
    /\ pc[h] = "io"
    /\ Goto(h, IF valid[cur[h]] /\ ~dirty[cur[h]] THEN "hold" ELSE "io_asleep")
    /\ UNCHANGED <<bufVars, lru, ideVars, cur>>

(* ideintr() for the request in progress: the transfer, the flags, the      *)
(* wakeup and idestart() of the next request.                               *)
NeverRestarts(q) == None
NextStarted(q) == IF q = <<>> THEN None ELSE Head(q)

Finish(b) ==
    /\ valid' = [valid EXCEPT ![b] = TRUE]
    /\ dirty' = [dirty EXCEPT ![b] = FALSE]
    /\ queue' = Tail(queue)
    /\ started' = NextStarted(Tail(queue))
    /\ GotoWake(Nobody, "idle", b, "io_asleep", "io")
    /\ UNCHANGED <<blockno, refcnt, holder, lru, cur>>

IdeIntr ==
    /\ started # None
    /\ LET b == Head(queue) IN
       /\ IF dirty[b]
          THEN /\ disk' = [disk EXCEPT ![blockno[b]] = data[b]]
               /\ UNCHANGED <<data, stale>>
          ELSE /\ data' = [data EXCEPT ![b] = disk[blockno[b]]]
               /\ stale' = [stale EXCEPT ![b] = FALSE]
               /\ UNCHANGED disk
       /\ Finish(b)

(* The disk reports an error for a read: idewait(1) is negative, nothing is *)
(* transferred, and the buffer is marked valid all the same.                *)
IdeIntrError ==
    /\ started # None
    /\ ~dirty[Head(queue)]
    /\ stale' = [stale EXCEPT ![Head(queue)] = TRUE]
    /\ Finish(Head(queue))
    /\ UNCHANGED <<data, disk>>

Step(h) ==
    \/ AcquireSleep(h) \/ Iderw(h) \/ IderwLoop(h) \/ ReleaseSleep(h)
    \/ Brelse(h)

Next ==
    \/ \E h \in Hand :
          (\E k \in Block : Bget(h, k)) \/ Bwrite(h) \/ LogWrite(h) \/ Step(h)
    \/ IdeIntr \/ IdeIntrError

Spec == Init /\ [][Next]_vars

(* A process in the driver keeps going, and the disk answers.               *)
FairSpec ==
    /\ Spec
    /\ \A h \in Hand : WF_vars(Iderw(h)) /\ WF_vars(IderwLoop(h))
    /\ WF_vars(IdeIntr \/ IdeIntrError)

(***************************************************************************)
(* Properties.                                                             *)
(***************************************************************************)

(* Every variable has its type.                                             *)
TypeOK ==
    /\ blockno \in [Buf -> Block \cup {NoBlock}]
    /\ valid \in [Buf -> BOOLEAN] /\ dirty \in [Buf -> BOOLEAN]
    /\ refcnt \in [Buf -> Nat]
    /\ holder \in [Buf -> Hand \cup {Nobody}]
    /\ data \in [Buf -> Value] /\ stale \in [Buf -> BOOLEAN]
    /\ lru \in Seq(Buf) /\ Len(lru) = NBUF
    /\ queue \in Seq(Buf) /\ started \in Buf \cup {None}
    /\ disk \in [Block -> Value]
    /\ cur \in [Hand -> Buf \cup {None}]
    /\ pc \in [Hand -> Labels]

(* bget() caches no block in two buffers, gives no buffer to a process that *)
(* another one is using for a different block, and counts the users of each *)
(* buffer exactly, however look-ups, recycling and releases interleave.     *)
OneBufferPerBlock ==
    /\ TypeOK
    /\ \A a, b \in Buf : blockno[a] = blockno[b] /\ a # b
                         => blockno[a] = NoBlock
    /\ \A b \in Buf : refcnt[b] = Cardinality({h \in Hand : cur[h] = b})
    /\ \A h \in Hand :
          pc[h] \in {"rw", "io", "io_asleep", "hold"} => holder[cur[h]] = h

(* What bread() of each block would return, failed reads aside.             *)
View == [k \in Block |->
            LET bs == {b \in Cached(k) : valid[b] /\ ~stale[b]} IN
            IF bs = {} THEN disk[k] ELSE data[CHOOSE b \in bs : TRUE]]

(* The contents of a block change only when the process that holds its      *)
(* buffer writes it: recycling, disk transfers and other processes lose no  *)
(* write and bring no old contents back.                                    *)
OnlyHoldersWrite ==
    [][\A k \in Block : View'[k] # View[k] =>
          \E h \in Hand : pc[h] = "hold" /\ blockno[cur[h]] = k]_vars

(* Nobody sleeps without a waker: a sleeper on a buffer's lock waits for a  *)
(* process that holds it, a sleeper in iderw for a request still in the     *)
(* disk queue; the disk works on the head of the queue.                     *)
SleeperHasWaker ==
    /\ \A h \in Hand :
          /\ pc[h] = "lock_asleep" => holder[cur[h]] # Nobody
          /\ pc[h] = "io_asleep" => cur[h] \in Range(queue)
    /\ queue # <<>> => started = Head(queue)

(* bget() finds no buffer only when the buffers in use, the one the caller  *)
(* already holds included, and the blocks the log may leave dirty account   *)
(* for all of them: the cache loses no buffer, and never panics with NBUF   *)
(* above MaxDirty plus all the buffers processes hold at once.              *)
PanicMeansPinned ==
    [][\A h \in Hand : pc[h] # "panic" /\ pc'[h] = "panic" =>
          Cardinality({g \in Hand \ {h} : cur[g] # None}) + MaxDirty >= NBUF]_vars

(* Every disk request is served, whatever is queued before it.              *)
RequestServed == \A h \in Hand : pc[h] = "rw" ~> pc[h] = "hold"
=============================================================================
