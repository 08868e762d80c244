--------------------------------- MODULE Log --------------------------------
(***************************************************************************)
(* The redo log of the file system: log.c, over the buffer cache and a     *)
(* disk whose block writes are atomic and synchronous.                     *)
(*                                                                         *)
(* A block's contents are the number of the operation that wrote it last,  *)
(* 0 at first.  A crash may happen at any step, also during recovery.      *)
(***************************************************************************)
EXTENDS Integers, Sequences, FiniteSets, Functions

CONSTANTS
    Process,        \* processes making file system calls
    Block,          \* home blocks of the file system
    MAXOPBLOCKS,    \* blocks begin_op reserves for an operation
    OpBlocks,       \* blocks an operation really writes, at most
    LOGSIZE,        \* in-memory capacity of the log header
    nlog,           \* sb.nlog: blocks of the on-disk log, header included
    NoBlock,        \* no buffer held
    MaxOps,         \* bound: operations started
    MaxCrashes      \* bound: crashes

ASSUME LogAssumption ==
    /\ MAXOPBLOCKS \in Nat \ {0} /\ OpBlocks \in 0..MAXOPBLOCKS
    /\ LOGSIZE \in Nat /\ MAXOPBLOCKS <= LOGSIZE
    /\ nlog \in Nat \ {0} /\ NoBlock \notin Block
    \* mkfs makes nlog = LOGSIZE, and log_write stops at nlog - 1: operations
    \* must stay that little below their reservation.
    /\ LOGSIZE + OpBlocks < nlog + MAXOPBLOCKS
    /\ IsFiniteSet(Process) /\ IsFiniteSet(Block)
    /\ MaxOps \in Nat /\ MaxCrashes \in Nat

VARIABLES
    disk,           \* home blocks on disk
    hdr,            \* on-disk log header: the block numbers, <<>> is n = 0
    logd,           \* on-disk log blocks
    cache,          \* contents of the blocks as bread returns them
    lh,             \* log.lh: block numbers of the current transaction
    outstanding,
    committing,
    tail,           \* local tail of write_log and install_trans
    pc,             \* where each process is in begin_op .. end_op
    todo,           \* blocks the operation of a process still writes
    cur,            \* buffer a process holds while it writes it
    op,             \* number of the operation of a process
    boot,           \* progress of initlog
    started,        \* operations started so far
    crashes         \* crashes so far

diskVars == <<disk, hdr, logd>>
logVars == <<lh, outstanding, committing, tail>>
opVars == <<todo, cur, op, started>>
vars == <<diskVars, cache, logVars, pc, opVars, boot, crashes>>

Labels == {"idle", "begin", "asleep", "op", "log_write", "write_log",
           "write_head", "install", "clear", "done", "panic"}
Boots == {"read_head", "install", "clear", "ready"}
Value == 0..MaxOps
LogSlots == 1..LOGSIZE

Init ==
    /\ disk = [b \in Block |-> 0]
    /\ hdr = <<>>
    /\ logd = [i \in LogSlots |-> 0]
    /\ cache = disk
    /\ lh = <<>> /\ outstanding = 0 /\ committing = FALSE /\ tail = 0
    /\ pc = [p \in Process |-> "idle"]
    /\ todo = [p \in Process |-> {}]
    /\ cur = [p \in Process |-> NoBlock]
    /\ op = [p \in Process |-> 0]
    /\ boot = "read_head"
    /\ started = 0
    /\ crashes = 0

Goto(p, l) == pc' = [pc EXCEPT ![p] = l]

(* wakeup(&log), together with the new position of p.                       *)
GotoOnly(p, l) == Goto(p, l)
WakeAndGoto(p, l) ==
    pc' = [q \in Process |-> IF q = p THEN l
                             ELSE IF pc[q] = "asleep" THEN "begin" ELSE pc[q]]

(***************************************************************************)
(* initlog() -> recover_from_log(), before any process makes a call.       *)
(***************************************************************************)
ReadHead ==
    /\ boot = "read_head"
    /\ lh' = hdr
    /\ tail' = 0
    /\ boot' = "install"
    /\ UNCHANGED <<diskVars, cache, outstanding, committing, pc, opVars,
                   crashes>>

(* One block of install_trans(), which reads the log block and overwrites   *)
(* the cached home block and the home block on disk.                        *)
InstallInCacheOnly ==
    /\ tail < Len(lh)
    /\ cache' = [cache EXCEPT ![lh[tail + 1]] = logd[tail + 1]]
    /\ tail' = tail + 1
    /\ UNCHANGED disk
InstallBlock ==
    /\ tail < Len(lh)
    /\ disk' = [disk EXCEPT ![lh[tail + 1]] = logd[tail + 1]]
    /\ cache' = [cache EXCEPT ![lh[tail + 1]] = logd[tail + 1]]
    /\ tail' = tail + 1

RecoverInstall ==
    /\ boot = "install"
    /\ \/ /\ InstallBlock
          /\ UNCHANGED <<lh, boot>>
       \/ /\ tail = Len(lh)
          /\ lh' = <<>>
          /\ boot' = "clear"
          /\ UNCHANGED <<disk, cache, tail>>
    /\ UNCHANGED <<hdr, logd, outstanding, committing, pc, opVars, crashes>>

RecoverClear ==
    /\ boot = "clear"
    /\ hdr' = lh
    /\ boot' = "ready"
    /\ UNCHANGED <<disk, logd, cache, logVars, pc, opVars, crashes>>

(***************************************************************************)
(* begin_op(), the writes of an operation, end_op().                       *)
(***************************************************************************)
StartCall(p) ==
    /\ boot = "ready"
    /\ pc[p] = "idle"
    /\ started < MaxOps
    /\ started' = started + 1
    /\ op' = [op EXCEPT ![p] = started + 1]
    /\ \E ws \in SUBSET Block :
         Cardinality(ws) <= OpBlocks /\ todo' = [todo EXCEPT ![p] = ws]
    /\ Goto(p, "begin")
    /\ UNCHANGED <<diskVars, cache, logVars, cur, boot, crashes>>

IgnoresThisCall == committing \/ Len(lh) + outstanding * MAXOPBLOCKS > LOGSIZE
MustWait ==
    committing \/ Len(lh) + (outstanding + 1) * MAXOPBLOCKS > LOGSIZE

Entered == outstanding + 1

BeginOp(p) ==
    /\ pc[p] = "begin"
    /\ IF MustWait
       THEN Goto(p, "asleep") /\ UNCHANGED outstanding
       ELSE Goto(p, "op") /\ outstanding' = Entered
    /\ UNCHANGED <<diskVars, cache, lh, committing, tail, opVars, boot,
                   crashes>>

(* The caller modifies a buffer it holds locked and calls log_write, which  *)
(* checks the size of the transaction before it takes log.lock.             *)
ModifyBlock(p) ==
    /\ pc[p] = "op"
    /\ \E b \in todo[p] :
         /\ \A q \in Process : cur[q] # b
         /\ cache' = [cache EXCEPT ![b] = op[p]]
         /\ cur' = [cur EXCEPT ![p] = b]
    /\ Goto(p, IF Len(lh) >= LOGSIZE \/ Len(lh) >= nlog - 1 \/ outstanding < 1
               THEN "panic" ELSE "log_write")
    /\ UNCHANGED <<diskVars, logVars, todo, op, started, boot, crashes>>

(* The locked part of log_write: append the block unless it is absorbed.    *)
LogWrite(p) ==
    /\ pc[p] = "log_write"
    /\ lh' = IF cur[p] \in Range(lh) THEN lh ELSE Append(lh, cur[p])
    /\ todo' = [todo EXCEPT ![p] = @ \ {cur[p]}]
    /\ cur' = [cur EXCEPT ![p] = NoBlock]
    /\ Goto(p, "op")
    /\ UNCHANGED <<diskVars, cache, outstanding, committing, tail, op, started,
                   boot, crashes>>

(* commit() does nothing for an empty transaction, else starts with the     *)
(* log blocks.                                                              *)
HeaderFirst == IF lh = <<>> THEN "done" ELSE "write_head"
CommitStart == IF lh = <<>> THEN "done" ELSE "write_log"

(* end_op(): the last operation out commits, any other wakes the waiters.   *)
EndOp(p) ==
    /\ pc[p] = "op"
    /\ todo[p] = {}
    /\ outstanding' = outstanding - 1
    /\ IF committing THEN Goto(p, "panic") /\ UNCHANGED <<committing, tail>>
       ELSE IF outstanding = 1
       THEN /\ committing' = TRUE
            /\ tail' = 0
            /\ Goto(p, CommitStart)
       ELSE WakeAndGoto(p, "idle") /\ UNCHANGED <<committing, tail>>
    /\ UNCHANGED <<diskVars, cache, lh, opVars, boot, crashes>>

(***************************************************************************)
(* commit(), without any lock.                                             *)
(***************************************************************************)
WriteLog(p) ==
    /\ pc[p] = "write_log"
    /\ \/ /\ tail < Len(lh)
          /\ logd' = [logd EXCEPT ![tail + 1] = cache[lh[tail + 1]]]
          /\ tail' = tail + 1
          /\ UNCHANGED pc
       \/ /\ tail = Len(lh)
          /\ Goto(p, "write_head")
          /\ UNCHANGED <<logd, tail>>
    /\ UNCHANGED <<disk, hdr, cache, lh, outstanding, committing, opVars, boot,
                   crashes>>

(* The commit point.                                                        *)
WriteHead(p) ==
    /\ pc[p] = "write_head"
    /\ hdr' = lh
    /\ tail' = 0
    /\ Goto(p, "install")
    /\ UNCHANGED <<disk, logd, cache, lh, outstanding, committing, opVars, boot,
                   crashes>>

InstallTrans(p) ==
    /\ pc[p] = "install"
    /\ \/ /\ InstallBlock
          /\ UNCHANGED <<lh, pc>>
       \/ /\ tail = Len(lh)
          /\ lh' = <<>>
          /\ Goto(p, "clear")
          /\ UNCHANGED <<disk, cache, tail>>
    /\ UNCHANGED <<hdr, logd, outstanding, committing, opVars, boot, crashes>>

ClearHead(p) ==
    /\ pc[p] = "clear"
    /\ hdr' = lh
    /\ Goto(p, "done")
    /\ UNCHANGED <<disk, logd, cache, logVars, opVars, boot, crashes>>

EndCommit(p) ==
    /\ pc[p] = "done"
    /\ committing' = FALSE
    /\ WakeAndGoto(p, "idle")
    /\ UNCHANGED <<diskVars, cache, lh, outstanding, tail, opVars, boot,
                   crashes>>

(* A crash loses everything in memory; later reads come from the disk.      *)
Crash ==
    /\ crashes < MaxCrashes
    /\ crashes' = crashes + 1
    /\ cache' = disk
    /\ lh' = <<>> /\ outstanding' = 0 /\ committing' = FALSE /\ tail' = 0
    /\ pc' = [p \in Process |-> "idle"]
    /\ todo' = [p \in Process |-> {}]
    /\ cur' = [p \in Process |-> NoBlock]
    /\ boot' = "read_head"
    /\ UNCHANGED <<diskVars, op, started>>

Recover == ReadHead \/ RecoverInstall \/ RecoverClear

Commit(p) ==
    \/ WriteLog(p) \/ WriteHead(p) \/ InstallTrans(p) \/ ClearHead(p)
    \/ EndCommit(p)

Call(p) == BeginOp(p) \/ ModifyBlock(p) \/ LogWrite(p) \/ EndOp(p) \/ Commit(p)

Next ==
    \/ Recover
    \/ \E p \in Process : StartCall(p) \/ Call(p)
    \/ Crash

Spec == Init /\ [][Next]_vars

(***************************************************************************)
(* The abstract disk.  What a restart would find is the home blocks,       *)
(* overlaid with the log once its header is on disk.                       *)
(***************************************************************************)
Recovered ==
    [b \in Block |->
        IF b \in Range(hdr)
        THEN logd[CHOOSE i \in DOMAIN hdr : hdr[i] = b] ELSE disk[b]]

InOp == {p \in Process : pc[p] \in {"op", "log_write", "panic"}}

A == INSTANCE AtomicDisk WITH
        mem <- IF boot = "ready" THEN cache ELSE Recovered,
        dur <- Recovered,
        active <- InOp,
        InitValue <- 0

(* Crash atomicity: whatever the interleaving of operations, group commit,  *)
(* installation, crash and recovery, a restart finds the effects of         *)
(* complete operations only, and never loses committed ones.                *)
CrashAtomic == A!Spec

(***************************************************************************)
(* Properties.                                                             *)
(***************************************************************************)

(* Every variable has its type.                                             *)
TypeOK ==
    /\ disk \in [Block -> Value]
    /\ hdr \in Seq(Block) /\ Len(hdr) <= LOGSIZE
    /\ logd \in [LogSlots -> Value]
    /\ cache \in [Block -> Value]
    /\ lh \in Seq(Block) /\ Len(lh) <= LOGSIZE
    /\ outstanding \in Nat
    /\ committing \in BOOLEAN
    /\ tail \in 0..LOGSIZE
    /\ pc \in [Process -> Labels]
    /\ todo \in [Process -> SUBSET Block]
    /\ cur \in [Process -> Block \cup {NoBlock}]
    /\ op \in [Process -> Value]
    /\ boot \in Boots
    /\ started \in 0..MaxOps
    /\ crashes \in 0..MaxCrashes

(* A process asleep in begin_op waits for a condition that still holds, and *)
(* somebody is left who will call wakeup when it changes.                   *)
SleeperMustWait ==
    \A p \in Process : pc[p] = "asleep" =>
        MustWait /\ (committing \/ outstanding > 0)

(* Between commits nothing is pending: when no operation is in progress and *)
(* nobody commits, every completed operation is in its home location and    *)
(* the log is empty.                                                        *)
QuiescentDurable ==
    boot = "ready" /\ outstanding = 0 /\ ~committing
    => hdr = <<>> /\ lh = <<>> /\ disk = cache

(* The reservation of begin_op is enough: log_write never finds the log too *)
(* full and the header never outgrows its block, end_op never meets a       *)
(* commit in progress.                                                      *)
NoPanic == TypeOK /\ \A p \in Process : pc[p] # "panic"
=============================================================================
