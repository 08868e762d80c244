# A verification of the kernel: TLA+ models, TLC runs, TLAPS proofs

The repository is xv6 for x86 with additions: a priority scheduler
(`setpriority`), per-process scheduling statistics (`getstats`, `ps`), a console
with history and completion, and the `wolfie` system call. This directory holds
TLA+ modules translated from its C sources, the TLC runs that check them on small
instances, and proofs that TLAPS checks for every instance. `PROJECT.json` maps
each definition to the source lines it stands for.

## The system

| Component | State | Operations | Hard because | Correct when |
|---|---|---|---|---|
| Process table, scheduler (`proc.c`) | `ptable.proc[]`, `cpus[].proc`, `nextpid`, `ptable.lock` | fork, exit, wait, sleep, wakeup, kill, setpriority, yield, sched, scheduler | the lock is held across `swtch`; states are published before the stack is left; sleep/wakeup; unlocked failure paths of fork | one CPU per kernel stack; nothing in use is freed; no exit, kill or wakeup is missed; the best process runs |
| Traps (`trap.c`) | `ticks`, `tickslock` | system calls, faults, timer and device interrupts | interrupts fall anywhere outside critical sections | killed processes exit; ticks are counted once |
| Statistics (`proc.c`, `trap.c`) | `wait_time`, `run_time`, `turnaround_time`, `creation_time`, `last_scheduled` | the accounting pass of the scheduler, `run_time++`, getstats | `ticks` and `run_time` are shared under two different locks | times are never negative and no tick is charged twice by the same code |
| Log (`log.c`) | on-disk header and log blocks, `log.lh`, `outstanding`, `committing` | begin_op, log_write, end_op, commit, recovery | crashes; group commit without a lock; limited space | a restart finds whole operations; waiters get in; the log never overflows |
| Pipes (`pipe.c`) | ring, `nread`, `nwrite`, `readopen`, `writeopen` | read, write, close, alloc | many sleepers, kills, wrap-around, freeing | bytes come out in order, once; nobody sleeps without reason; no use after free |
| Spin locks (`spinlock.c`) | `locked`, `cpu`, `ncli`, `intena` | acquire, release, pushcli, popcli | nesting with interrupts | mutual exclusion; interrupts restored |
| Sleep locks, buffer cache (`sleeplock.c`, `bio.c`) | LRU list, reference counts, flags | bget, bread, bwrite, brelse | two look-ups of one block, eviction | one buffer per block; no write is lost |
| Disk driver (`ide.c`) | request queue | iderw, ideintr | interrupt against queue and sleepers | every request is served, nobody sleeps on a finished one |
| Inodes, directories (`fs.c`, `sysfile.c`) | inode cache, directory entries, link counts | namex, create, link, unlink, chdir, iput | reference counts, lock order, deferred free | counts are exact; no inode is freed in use; nobody waits in a circle |
| Files (`file.c`, `sysfile.c`, `fs.c`) | file table, descriptors, offsets, block map, free map | open, dup, close, pipe, read, write | shared offsets, several transactions per call, running out | counts match holders; contents are what was written; blocks are exact after a crash |
| Console (`console.c`) | input ring, history ring | consoleintr, consoleread | indices modulo the ring, interrupts, recall and completion | a line is delivered as edited; the ring never jams |
| Memory (`kalloc.c`, `vm.c`, `exec.c`, `growproc`) | free list, page tables | kalloc, kfree, allocuvm, copyuvm, exec, sbrk | failure half way, odd sizes | no page is leaked or freed twice; the mapped pages match the size |
| Shell (`sh.c`) | command tree, descriptors, children | parsecmd, runcmd | recursion; pipe ends, waits and failures in a tree of processes | the tree is that of the grammar; plumbing follows it; everything ends |

Interactions: every blocking operation goes through `sleep`/`wakeup` of
`proc.c`; traps call into all of them; inodes and files write through the log,
the log sits on the buffer cache, the cache on the disk driver; `exit` closes
files and ends a transaction; the last close of an end closes the pipe; `fork`
and `exec` use the memory of `vm.c`; the shell is a client of all these calls.

## Modules

### Proc: process table, scheduler, traps

A slot is a number `1..NPROC`, 0 the null pointer. `state` to `pgdir` are the
fields of `struct proc`. `pc` is where the thread of a slot is in the kernel,
`np` the local of `fork`. For each CPU, `exec` is the process whose kernel
stack it is on (0: the scheduler's), `cproc` is `c->proc` and `intr` the progress
of a timer interrupt. `lock` and `tlock` are the holders of `ptable.lock` and
`tickslock`.

A critical section of `ptable.lock` that does not switch stacks is one step.
Where the lock crosses `swtch`, the steps are: take the lock and publish the new
state (`TimerDone`, `ExitZombie`, `WaitRound`, `Sleep`), switch to the
scheduler's stack (`Swtch`), clear `c->proc` and release (`SchedulerResume`);
choose, mark RUNNING and switch (`Scheduler`); release in the resumed thread
(`ThreadResume`, `WaitResume`). Unlocked reads and writes are steps of their own:
the killed checks of `trap`, the failure paths of `fork` and `allocproc`.
`sys_sleep` holds `tickslock` from its check to `sleep`; kill may come in
between. Memory allocation may fail at each call.

Other system calls are one action that changes nothing here. In particular a
process does not sleep in the file system in this module (inside `exit` too), and
`forkret`'s one-time `iinit` and `initlog` are left out: `Log` begins with them.

### SchedStats: time accounting

Extends `Proc`: each action is the action of `Proc` and what the same code does
to the accounting fields. A tick may fall between two reads of `ticks` in one
critical section on another CPU (`TickInScheduler`, `TickInIdle`, `TickInResume`,
`TickInAlloc`); only one can, since the handler then waits for `ptable.lock` in
`wakeup`. `run_time++` under `tickslock` and `run_time +=` under `ptable.lock` are
a data race: `CountInScheduler` and `CountInIdle` allow either update to be lost.
The actions with `Idle` are the rounds of `scheduler` that find nothing to run and
still do the accounting pass.

### Log and AtomicDisk

`Log` is `log.c` over a cache and a disk with atomic block writes. The contents
of a block are the number of the operation that last wrote it. `Crash` may
happen anywhere, also during recovery. `AtomicDisk` is the promise: what a
restart finds (`dur`) becomes what processes see (`mem`) only at a moment when no
operation is in progress. The refinement maps `dur` to the home blocks overlaid
with the log once its header is written, and `mem` to the cache.

### Pipe and Fifo

`Pipe` is `pipe.c` for one pipe, with several readers and writers. A critical
section of `p->lock` is one step, but `kill`, which does not take `p->lock`, may
fall between the killed check and the sleep. The counters wrap around at `Word`.
`Fifo` is the promise: a bounded queue, refined with the bytes between `nread`
and `nwrite` as its contents.

### BufCache: buffers, sleep locks, disk queue

`bio.c` and `ide.c` in one module, since a sleeper in one is woken by the
other. A buffer is a number; `holder` is the owner of its sleep lock, `lru` the
list of `bcache`, `queue` the one of the driver. `bmap` holds the indirect block
while `balloc` reads the free map, `itrunc` while `bfree` does, and `write_log` and
`install_trans` hold both ends of a copy: a process has up to `Held[p]` buffers, each in a hand
`<<p, i>>`, and is inside `bio.c` with one of them at a time. `PanicMeansPinned`
counts all of them, those of the caller too. A process looks a block up
(`Bget`: `Found` or `Recycle`), takes the lock (`AcquireSleep`), reads it if it
is not valid (`Iderw`, `IderwLoop`), changes it (`Bwrite`, `LogWrite`), and gives
it back (`ReleaseSleep`, `Brelse`, two critical sections as in the code).
`IdeIntr` finishes the head of the queue, `IdeIntrError` is a read the disk
reports as failed: the code marks the buffer valid all the same, and the history
variable `stale` keeps such buffers out of the statement about contents.

### Fs: inodes, directories, path names

The system calls that take path names, by several processes. Between two
acquisitions of inode locks the code is one step. `th[p]` holds the locals of
the call: `at` and `ip` are the inodes it holds references to, `rest` the path
still to be walked, `arg` the inode being put. `iput` is three steps (`Iput`,
`IputFree`, `IputRef`), as its critical sections are. A path is a sequence of
names, a directory a function from names to inode numbers. An inode with no
reference leaves the cache at once; the code does it when the entry is next
used. `lost` is a history variable for the entries of a directory that is freed
while a create is still on its way into it. `strayed` records that a call in a
removed directory followed its `..` to a parent that had been removed as well: that
inode may be free by now, or any other, and `NoUseAfterFree` and `LinksCounted`
speak of the behaviours up to there.

### File: open files and the contents of inodes

Descriptors, the file table, `bmap`, `balloc`, `itrunc`, `readi` and `writei`
over a disk with transactions. The log appears by its contract (`AtomicDisk`):
`installed` is what a restart finds, and becomes `disk` when the last open
transaction ends. `filewrite` is modelled chunk by chunk, and within a chunk
block by block; `op[p]` collects the blocks its transaction logs.
`open` and `pipe` take what they need in the order of the code, with other calls in
between: `SysOpen` a file, `OpenFd` a descriptor, or `OpenNoFd` closes the file and
puts the inode; `SysPipe` and `Pipealloc` the two files, `PipeFds` the page and both
descriptors, and `PipeNoPage` and `TakenBack` are the failures, after which
`PipeUndo` closes the files one by one. `exit` clears a descriptor in the step that
drops its reference (the code does so after `fileclose`; nobody else reads it).
`disk.text` and `moved` are history: the bytes as the calls intend them, at
the offset they intend. `Byte` makes all bytes written by one call distinct.

### Vm: pages and address spaces

The free list is its length, an address space the sets of its tables and pages
with `sz` and the stack pointer. `AllocPage` is `kalloc` and `mappages` with
`walkpgdir`, each of which may find no memory; the loops are the recursive
function in `AllocPages`.
Addresses, sizes and the stack pointer wrap around at `Word`. `exec` is five kinds of
steps, so that other processes allocate between them: `ExecStart`, `ExecLoad` for each
program header, `ExecStack`, `ExecPush` for each argument string and `ExecCommit`; `new`
is the image it builds, `argc` the strings pushed. `Copyout` goes through the pages
in the order of the code and asks `Uva2ka` about each. Where there is no page table,
between the image and the kernel or in the hole of the kernel's own map (`KernTabs`
are the tables that are there), `uva2ka` reads its entry at address 0, which is
code of the running program: what it finds is a choice, and a write to wherever it points
is the state `stray`, in which the model stops. A process that
has freed its own code cannot run on (`faulty`): it faults and exits.

### Console and Tty

The input ring with its three indices, editing, history recall, completion and
readers. `Tty` is the promise: a queue of committed characters, one line being
edited, and a bounded list of past lines. The refinement reads the queue
between `r` and `w`, the line between `w` and `e`, the past from the history
ring. `commands` is a list, as in the code: a name that is listed twice has two
matches and is not completed. `autocomplete` compares memory linearly past the end of the ring: what
lies there is unknown, so the match is a choice when the text wraps around.

### Sh: the shell

The parser is translated function by function and checked against the grammar
as a set of trees (`LineTrees`). `runcmd` is one action per command type and
fork; a process is a record with its command, descriptors and parent. A line that begins
with the bytes `cd ` is the builtin whatever follows (`cd | a` too); blanks are not tokens
here, so a line whose first token is `cd` may or may not be one. Programs
are external: they read a pipe to its end and exit. `open`, `pipe` and `fork`
may fail. `Plumbing` says, by recursion over the tree, what each program should
be connected to.

### Proof modules

`ProcProofs` (about `Proc` and `SchedStats`), `PipeProofs`, `LogProofs`,
`BufCacheProofs`, `FsProofs`, `FileProofs`, `ConsoleProofs` and `VmProofs` extend the
modules they are named after and hold their theorems; see Proofs below.

## Runs

| Run | Instance | Shows |
|---|---|---|
| `MCProc` | 3 slots, 2 CPUs, pids up to 4; `kill` and `setpriority` name pid 2 | types; `StackExclusive`, `CprocAgrees`, `EmbryoPrivate`, `ResourcesLive`, `NoMissedExit` |
| `MCProcLive` | 2 slots, 2 CPUs, 2 priorities, fair | `KillTakesEffect`: a killed process dies unless it is starved; `BestRuns`: the strictly best runnable process runs |
| `MCSchedStats` | 2 slots, 2 CPUs, 2 ticks | `TimesBounded`: times are charged once per charger; `NotOverdue`: no tick a sleeper waits for is missed |
| `MCLog` | 2 processes, 5 blocks, 3 operations, 2 crashes | `CrashAtomic` (implements `AtomicDisk`), `SleeperMustWait`, `QuiescentDurable`, `NoPanic` |
| `MCPipe` | 1 reader, 2 writers, kills, ring of 2, counters modulo 4, fair | `IsFifo` (implements `Fifo`), `NoneStranded`, `NoUseAfterFree`, `WriteReturns` |
| `MCBufCache` | 2 processes, one of which holds up to 2 buffers, 3 blocks, 2 buffers, one of which the log may keep dirty, fair | `OneBufferPerBlock`, `OnlyHoldersWrite`, `SleeperHasWaker`, `PanicMeansPinned`, `RequestServed` |
| `MCFs` | 2 processes, 3 inodes, 10 calls on `f`, `d`, `/d/f`, `/d/d`, `..`, until somebody strays | `RefsCounted`, `NoUseAfterFree`, `LinksCounted` |
| `MCFsLocks` | 2 processes, create and unlink of `/f` | violated: a circle of lock waits, see below |
| `MCFile` | 2 processes, 3 files, 2 descriptors, 2 inodes, 5 blocks, 5 calls, 1 crash | `FilesCounted`, `BlocksExact`, `ReadsBack`, `TransactionFits` |
| `MCConsole` | ring of 3, 2 past lines, 2 readers, 6 characters, 3 commands of which two are the same | `IsTty` (implements `Tty`), `FullIsReadable`, `SleeperHasNothing` |
| `MCVm` | 2 slots, 17 pages of 16 bytes, 2 pages per table, addresses modulo 160, words of 2 bytes, 2 arguments | `PagesAccounted`, `SizeMapped`, `ArgsAboveGuard` |
| `MCSh` | all lines of up to 3 tokens, many of 4 and some longer, 6 slots, 2 lines, 1 failing call, fair | `ParserAgrees`, `Plumbed`, `ForegroundDone`, `Settles` |

`MCFsLocks` ends in a counterexample. `create` locks the new inode, links it
into the directory and then puts the directory, still with the inode locked;
`iput` takes the directory's sleep lock. In between another process has
locked the directory to unlink the new name and waits for the inode. The
comment at `fs.c:149` says that the separation of `iget` and `ilock` "helps
avoid deadlock"; the lock taken in `iput` brings one back. `MCFs` reaches the
same states; its invariants hold in them too.

Further disagreements between the code and its comments or documents were met
while modelling. The modules contain the behaviour; no run states the opposite.

* `scheduler` takes the first slot among equals, so a process that yields is
  chosen again at once ("Give up the CPU for one scheduling round", `proc.c:439`).
* `kill` of pid 0, or of the pid a failed fork left behind, marks a free slot, and
  the next child there is born killed (`proc.c:549`).
* `run_time` is charged by the timer and again by the scheduler (`trap.c:58`,
  against `pstat.h:9`). The turnaround time reported falls when a process becomes
  a zombie (`proc.c:247`, against `pstat.h:10`).
* `setpriority` never yields; `Lab4_Scheduling.md` asks for an immediate switch when
  a process lowers its own priority.
* A writer that is killed returns without waking the readers of the bytes it
  has put in (`pipe.c:87`); `NoneStranded` exempts the pipes it leaves so. A kill
  between the killed check of `piperead` or `consoleread` and its sleep is slept
  through (`proc.c:552`).
* `begin_op` reserves against `LOGSIZE`, but `mkfs` gives the log `LOGSIZE` blocks
  including the header and `log_write` panics one block earlier; the operations of
  `fs.c` write fewer blocks than they reserve, and the constant `OpBlocks` says so.
* A read that the disk reports as failed leaves the buffer valid (`ide.c:118`,
  against `buf.h:12`).
* A file created or linked into a directory that is being removed is lost with it
  (`LinksCounted` counts it in `lost`); `link(f, "d/.")` locks `d` twice; an inode
  without links that is open in a crash is never freed.
* A process in a removed directory `d/e` may still follow its `..`, after `d` has been
  removed and freed too; `ilock` of that inode panics (`fs.c:309`). A directory's
  `..` is not counted as a reference, and `unlink` leaves it in place. The attempt to
  prove `NoUseAfterFree` showed it; `strayed` marks the place.
* `growproc` to size 0 frees the pages and reports failure (`proc.c:175`).
* `uva2ka` uses the result of `walkpgdir` without a test (`vm.c:355`): for an address
  without a page table it reads the entry at address 0, and the comment above `copyout`
  ("uva2ka ensures this only works for PTE_U pages", `vm.c:364`) depends on what the
  program there happens to hold. An argument of `exec` that takes `sp` below 0 can get
  there. A completed push is in the stack page all the same (`ArgsAboveGuard`): on
  its way up it would have to cross the guard page.
* `pwd` is listed twice in `commands` (`console.c:293`, `console.c:299`) and so never completed.
* `autocomplete` reads the ring linearly (`console.c:282`), and takes all unread
  input, committed lines included, for the word.
* Of several output redirections the first wins, since later ones wrap outward
  (`sh.c:475`); `>>` truncates nothing but does not append either (`sh.c:481`). `cd`
  chops the last character of its line after the newline has already been removed
  from it (`sh.c:271`).

### Bounds

`MaxPid` stops `fork`, `MaxTicks` the clock, `MaxOps` and `MaxCrashes` the log,
`MaxWrite` and `MaxRead` the length of pipe calls, `MaxLinks` link counts, `MaxCalls`
and `MaxCrashes` the calls of `File`, `MaxTyped` the console's index, `MaxLines` and
`MaxFail` the shell. Three slots hold init, a
parent and a child, so that orphans, zombies handed to init and a full table all
occur; four pids let two processes fork at the same time after a first fork, and
slots be reused; two CPUs are the fewest on which a stack could be shared. Two
ticks put one inside and one after a critical section. In `MCLog` two operations
fit into the log together, a third must wait if the first has left blocks behind,
and five blocks are as many as the log can hold; processes and blocks are
symmetric. Two crashes put one into the recovery of a log that is
not empty. In `MCPipe` two writers of two bytes each overfill a ring of two and must sleep, and
the counters wrap after four. In `MCBufCache` three blocks in two buffers force
recycling, and one dirty and one held buffer exhaust them, also when the one
held is the caller's own. That a process holds two buffers is enough: no caller in
`fs.c` or `log.c` holds three. In `MCFs` three inodes
are the root, a directory and a file or a directory in it, so that numbers are
freed and allocated again and a current directory and its parent can be removed
under a process; with three links at most, a second link to a name that exists
fails; the run stops at the states in which `strayed` becomes true. In `MCFile` a file has one direct and two indirect blocks of two bytes and
each block its own bit map block, so that a write of three bytes takes two
transactions, needs the indirect block, is unaligned, and can meet a full
disk. Three files let a pipe fail for want of a second file, a page, a first or a
second descriptor while the other process opens and closes. In `MCConsole` the ring wraps around twice. In `MCVm` 17 pages let two
processes exist and one build an image, and let memory run out at every
allocation. The strings are short, not a multiple of a word, longer than the stack page, and
longer than the image, so that `sp` wraps around; the top of the address space has
the kernel's table and a hole below it, and the two arguments `MAXARG` allows can be exceeded. In `MCSh` six slots hold a pipeline of three with the processes that
wait for it. Deadlock checking is off where a bound, a panic or the end of input
stops the system.

### Fairness

`MCProcLive`: a CPU in the kernel with interrupts off keeps going (weak fairness
of `Handover`), timer interrupts recur (`Timer`), and a CPU or thread that finds a
spinlock free again and again gets it in the end (strong fairness; the lock is a
test-and-set loop whose holders leave in bounded time). Nothing is assumed of
user code, nor of whom the scheduler chooses: `KillTakesEffect` has the absence of
starvation as a hypothesis. `Pipe`: the calls make progress and readers call read
again, without which a full pipe never drains. `BufCache`: a process inside
`iderw` keeps going and the disk answers a request, with data or with an error;
nothing is assumed of who gets a sleep lock. `Sh`: as long as some process of
the shell can take a step, one does. No process is promised its turn, so
`Settles` needs no fair scheduler.

## Proofs

Everything below holds for every value of the constants that satisfies the
assumptions: any number of processes, slots, CPUs, blocks, buffers or pages, and
any size of a ring, of the log or of memory. Each theorem `Spec => []P` rests on
an inductive invariant, since no `P` is inductive by itself: the initial states
satisfy it, every action preserves it (one lemma per action, or per group of
actions that touch the same state), and it implies `P`. The proof modules hold
the lemmas; the parts of an invariant are named and commented there.

### Assumptions

They are `ASSUME`d in the modules that declare the constants, and TLC evaluates
them in every run. Apart from types they say:

* `PipeAssumption`: there is a reader and a writer (`pipealloc` makes both ends),
  and `PIPESIZE` divides the range of the counters (512 divides 2^32; without it
  the ring would jump when they wrap around).
* `LogAssumption`: `LOGSIZE + OpBlocks < nlog + MAXOPBLOCKS`. `begin_op` reserves
  against `LOGSIZE`, while `log_write` panics at `nlog - 1`, one block earlier,
  because `mkfs` sets `nlog = LOGSIZE`. The proof of `NoPanic` needs operations to
  stay at least that one block below their reservation; `OpBlocks` is what they
  really write. Processes and blocks are finite sets.
* `BufAssumption`: finitely many processes and buffers held by each, so that reference
  counts are numbers.
* `FsAssumption`: finitely many processes and names, for the same reason; `.` and `..`
  are not among the names. `Calls` may be any set of calls on any paths.
* `FileAssumption`: at least six blocks per operation, so that a chunk of a write has a
  block, and no more indirect blocks than fit in a table. `FreeMapAssumption`: the
  free map has fewer than `MAXOPBLOCKS` blocks (`mkfs` makes it one block), as `itrunc`
  of a scattered file logs all of it and the inode.
* `ConsoleAssumption`: the names of commands are shorter than the ring.
* `VmAssumption`: `KERNBASE` is a multiple of what a page table maps, unsigned
  words reach beyond it and are a multiple of the page size, a page holds whole words
  and the longest argument list (`exec`'s `ustack` is 36 words), and memory holds at least what `userinit` needs: a
  stack, a directory, the kernel's tables, a table and a page.

### ProcProofs

* `TypeCorrect`: `Spec => []TypeOK`. It needs that the searches of the table find
  a slot: `MinInSet` (from the library's well-foundedness of the naturals) and
  `ChosenRunnable`.
* `OneCpuPerStack`: `Spec => []StackExclusive`. The timer handler yields
  `c->proc`, so it must be the process whose stack the CPU is on (`CprocAgrees`);
  the unlocked failure paths of `fork` overwrite a state, so the slot must be an
  EMBRYO that is on no CPU and that no other fork fills (`EmbryoPrivate`). `IInv` is
  their conjunction with `TypeOK`; the lemmas `EnterSched` and `SameRunning` carry
  most actions. `MyprocAgrees` and `ForkOwnsEmbryo` state the two strengthenings.
* `NothingFreedInUse` (`ResourcesLive`) and `WaitMissesNothing` (`NoMissedExit`), from
  `FamilyInv`: a process owns its stack and page directory until it is reaped
  (`Owned`); init stays, nobody is its own parent, and an EMBRYO gets its parent
  only when `fork` can no longer fail (`Parents`); who sleeps in `wait` sleeps on its
  own slot, has a child and has no zombie (`WaitersOK`). The last part needs all of
  the others: a child that becomes a zombie, one that is handed to init and a kill
  each must wake the right sleeper.

About `SchedStats`, in the same module:

* `TimesAreBounded` (`TimesBounded`) and `NobodyOversleeps` (`NotOverdue`), from
  `StatsInv`. `TimesBounded` alone does not survive a tick, since the timer counts
  `ticks` before it charges `run_time`: `Accounts` carries the one tick the
  interrupted process may still be owed (`InDebt`), and compares with
  `last_scheduled` what the scheduler has charged up to then. `Clock` says that only
  the boot CPU counts ticks, under `tickslock`; `Sleepers` that a process between
  its check and its sleep holds `tickslock`. A pass of the scheduler that finds nothing
  is proved like one that dispatches, with a tick or a lost count inside. The invariant of `Proc` is proved again for
  the steps in which a tick falls inside another CPU's critical section.

### PipeProofs

* `NeverUsedAfterFree` (`NoUseAfterFree`) and `NobodyStranded` (`NoneStranded`), from
  `PipeInv`: the number of bytes between the wrapping counters is at most
  `PIPESIZE` (`Bounded`), an end is open iff a process holds it (`Ends`), the lock is
  held from check to sleep (`LockHeld`), and what a sleeper found is still so
  (`Found`). The arithmetic of counters modulo `Word` is in the lemmas before it.
* `PipeIsFifo`: `Spec` implements `Fifo`, step by step, the liveness part of neither
  being involved.

### LogProofs

* `ReservationSuffices` (`NoPanic`): `Reserved` bounds the blocks logged plus the
  blocks that running operations have still to log, counted as a set of pairs.
* `NoLostWakeup` (`SleeperMustWait`) and `DurableBetweenCommits` (`QuiescentDurable`).
* `LogIsAtomic` (`CrashAtomic`): with a crash before or after every disk write,
  during recovery too, `Spec` implements `AtomicDisk`. `LogInv` therefore follows
  the commit and the recovery write by write (`Committed`, `Recovery`), and says that
  the log names no block twice (`Distinct`) and that only blocks of the current
  transaction differ from their home location (`Clean`).

### BufCacheProofs

* `BuffersAreUnique` (`OneBufferPerBlock`), `SleepersAreWoken` (`SleeperHasWaker`),
  `HoldersWrite` (`OnlyHoldersWrite`) and `PanicNeedsPins` (`PanicMeansPinned`), from
  `BufInv`: reference counts count the users (`Refs`), the holder of a sleep lock
  works on its buffer and the reverse (`Owners`), the disk queue has each buffer
  once and its holder waits for it (`Queued`), all by hand rather than by process, only useful transfers are asked for
  (`Asked`), a clean buffer equals the disk (`Coherent`), and at most `MaxDirty` buffers
  are left dirty by the log (`FewParked`).

### ConsoleProofs

* `NeverStuckFull` (`FullIsReadable`) and `ReadersAreWoken` (`SleeperHasNothing`), from
  `ConsoleInv`. The first needs that a recalled line leaves room for its newline
  (`ShortLines`), as `history_add` ensures.
* `ConsoleIsTty` (`IsTty`): the console implements `Tty`, for every size of the ring and of the
  history, any commands and any number of readers. `StoredAt` says what a position of
  the ring holds after a line is stored across its end; from it `CharsKept`,
  `CharsStored`, `CharsJoined` and `CharsPart` turn a change of the indices into a change of
  the queue and the line, and `PastAdded` and `PastGet` do the same for the ring of past
  lines. Then there is one lemma for each action (`KeyTypes`, `KeyCommits`, `KillLineErases`,
  `BackspaceErases`, `UpIsOlder`, `DownIsNewer`, `TabCompletes`, `ReadTakes`). The refinement needs
  one more invariant, `LinesClean` (`LinesStayClean`): there is no newline in the
  edited line nor in the history. Without it `C('U')`, which erases back to a newline, would
  not erase the line, and `history_add`, which searches back for one, would not find
  what `Tty` remembers. A read that takes nothing, because it leaves an end of file
  to the next, is a stuttering step.

### VmProofs

* `NoPageLeaks` (`PagesAccounted`), `MappedBelowSize` (`SizeMapped`) and `ArgumentsFit`
  (`ArgsAboveGuard`), from `VmInv`, which adds `Shapes`: what a process holds follows
  from its state. The last needs `StackInv` too: while `exec` pushes, its stack pointer is in
  the page above the guard page (`OnStack`). `GuardStops` is the step from one push to
  the next: `copyout` writes upwards and ends where the stack pointer was, so if it
  begins below the stack page, or at the top of the address space after `sp` has wrapped
  around, one of the pages it visits before is the guard page, which ends it. `AllocPagesKeeps` follows the loop of `allocuvm` and `copyuvm`
  round by round: no memory changes hands unaccounted, and it stops with the pages up to some
  point mapped, which `Deallocuvm` then finds. `PagesBelowIs` and `DivUnique` are the
  rounding; `NumberedChange` turns a change of one process into a change of the
  total.

### FsProofs

* `ReferencesExact` (`RefsCounted`), `NothingFreedInUse` (`NoUseAfterFree`) and
  `LinkCountsExact` (`LinksCounted`), from `FsInv`, the conjunction of `RefInv` and
  `LinkInv`.
* `RefInv` holds of every behaviour, strayed or not. `Threads` says what the locals of
  a call hold at each stage, also while it is inside `iput` (`Stage`): which of
  `at`, `ip` and `arg` point to an inode (`Slots`) and where the walk of the path
  will go on (`Flow`). `Counted` is the count itself, `Cache` that a valid entry
  equals the disk and is not free there, `Locks` that a call holds the locks of its
  stage, so that nobody changes an inode between its steps. The counts are sums
  over the five pointers of each process; `RefStep` reduces an action to
  what it does to those of its own process.
* `LinkInv` is claimed until somebody strays. `NoUseAfterFree` needs to know that an
  inode that is found by name is not free, hence that a link count is never below
  what names the inode; so the counts have to be right in the middle of calls, too.
  `LinkCount` adds the calls that have counted a link they have not written yet, or erased an
  entry they have not yet discounted (`InFlight`), to the entries, the
  subdirectories and `lost`. A directory has one entry, and its `..` names where
  that is (`Tree`); it has its dots (`HasDots`), and an inode that has just been
  allocated or is about to be freed has no link and is nobody else's (`Lonely`). `Relies` is what a call that has given up a
  lock may still believe of the inodes it holds. A freed inode keeps nothing
  (`Blank`): by `LinkCount`, once `nlink` is 0 and the last reference is being
  dropped, no entry, subdirectory or call names it.
* Each action is reduced by `LinksStep` to the entries, subdirectories and calls in
  flight it adds and removes; `QuietInv` serves the many that add none. The last two
  theorems follow from `LinkInv` at once, and from `LinkCount` when no call is
  in flight.

### FileProofs

* `FilesAreCounted` (`FilesCounted`), from `FileInv`. `Counts` is the count itself: `ref`
  equals the descriptors that hold the file plus the calls of `open` and `pipe` that have it
  and no descriptor yet, or give it back. It is preserved only because a process inside a call
  still has what it started from: a writer holds a descriptor of its file, whose
  inode and, under the inode lock, whose offset stay, and the files `open` and `pipealloc` have
  taken are nobody else's (`CallOK`). `Live`, that open files and closes under way
  keep their inode, is what makes the last `iput` the only step that frees one;
  `KeepsLive` and `NoRefs` carry it. `LeftAlone` and `Step` reduce an action to what it
  does to its own process; `OneCount`, `PipeMade` and `ForkHeld` count one descriptor,
  two, and all those of a parent. Offsets and sizes stay within the largest file
  (`IsFile`, `IsInode`, with `BmapKeeps` for what `bmap` leaves alone).
* `BlocksAreExact` (`BlocksExact`), from `BlockInv`. `Addr(n, t, k)` is the block at the end
  of path `k` of an inode; `MapOK` says that every block is at the end of one path at most
  (`OnePath`) and marked exactly then (`Marked`). Two facts make it inductive. All that lies
  below the size of a file is allocated (`Reaches`), so a write that does not
  grow the file leaves its inode alone, and it does no harm that `iupdate` is
  not called. And the inode in the cache differs from the one on the disk only under the lock
  of a write that will grow the file (`Synced`, `CopyOK`), so what `end_op` installs when nobody is
  left in a transaction has no allocated block that only the cache knows of. `MapAlloc`,
  `MapFree` and `PathsWritten` are `balloc`, `itrunc` and the copying of data; `BlockStep`
  reduces an action that takes no lock to what it does to the disk, and `Kept` is what it leaves
  to the other writers.
* `TransactionsFit` (`TransactionFits`), from `LogInv`. After `v` turns of its loop `writei` has
  logged at most two blocks for each (`CopyLog`); two more once the table of indirect blocks
  is among them (`Slack`), but one less when the write starts inside a block, as that one is there
  already (`Ragged`; it needs `Reaches`). `Turns` relates `v` to the bytes copied: all turns but the
  last end at the end of a block. `CopyFits` then shows that the chunk `filewrite` computes leaves room for
  the inode. It covers the transactions of `filewrite` and `fileclose`; those of
  `open` and `unlink` are one step here, and Log bounds them by its constants.
* `WrittenIsRead` (`ReadsBack`), from `TextInv`. `ByteAt` is the byte `readi` finds at a position and
  `disk.text` the file as the calls intend it. The two agree for every inode whose lock is free (`Unheld`)
  and on the installed disk (`Texts`); while a process is inside `writei`, they agree outside the range it
  has copied, and inside it the bytes are those of its buffer (`Sending`). The history of an open file's
  offset equals `off` (`Offsets`), which holds as `fileread` and `filewrite` move it under the inode lock.
  The step that matters is one turn of the loop (`TurnWrites`): `bmap` changes no block of data that is
  in use (`Intact`), the block copied to is at the end of no other path (`OnePath`), and the bytes of it
  outside the turn stay (`OtherBytes`). `SentReads` is the end of `writei`, with `OverwriteIs` for what
  the history becomes. Below the size `Reaches` says that there is a block, without which `readi` would
  have to allocate.

### Only model-checked

* Liveness (`KillTakesEffect`, `BestRuns`, `WriteReturns`, `RequestServed`, `Settles`):
  fairness is out of the prover's reach.
* All of `Sh`: its parser is recursive, and what a recursive operator computes for
  every input cannot be proved here.
* `NoLockCycle` of Fs, which the code violates (`MCFsLocks`).

## Plan

1. Done: Proc, SchedStats, Log with AtomicDisk, Pipe with Fifo, BufCache, Fs,
   File, Vm, Console with Tty, Sh; proofs about all of them except Sh.
2. Every safety property a passing run checks has a theorem, except those of Sh.
3. Open: spin locks with pushcli and popcli; the composition of Log and BufCache,
   with the log's commit reading and writing through buffers.

## Not modelled

Boot code and interrupt controllers, keyboard, serial port and screen, trap
frames and page table formats (hardware); `wolfie` and the user programs (no
shared state); the user allocator and library (private to one process); `mkfs`
(only the log size it chooses, `nlog`, and the empty file system); spin locks,
whose mutual exclusion all modules take as given; the size limit of the inode
cache; disks whose free map has `MAXOPBLOCKS` blocks or more, where `itrunc` of a scattered
file could log more blocks than it reserves.
Compiler and CPU memory ordering is taken to be sequentially consistent, except
for the race on `run_time`.
