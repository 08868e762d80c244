-------------------------------- MODULE Proc --------------------------------
(***************************************************************************)
(* The process table, the per-CPU scheduler and the process system calls   *)
(* of the kernel: proc.c, the trap dispatch of trap.c and the process part *)
(* of sysproc.c.                                                           *)
(*                                                                         *)
(* A slot of ptable.proc is a number 1..NPROC, 0 is the null pointer; slot *)
(* order matters, because every search of the table takes the first match. *)
(* The interleaving unit is a critical section of ptable.lock, an unlocked *)
(* access to shared process state, or a context switch.  The lock is       *)
(* handed over across swtch, so it is a variable: between the moment a     *)
(* thread leaves its RUNNING state and the moment the scheduler has        *)
(* resumed on its own stack, the CPU still executes on the kernel stack of *)
(* a process that others may already consider runnable, or dead.           *)
(***************************************************************************)
EXTENDS Integers, FiniteSetsExt

CONSTANTS
    NPROC,            \* slots of the process table (64 in param.h)
    CPU,              \* the processors
    BootCPU,          \* cpus[0], the only one that counts timer ticks
    NoCPU,            \* "nobody holds the lock"
    MIN_PRIORITY, MAX_PRIORITY, DEFAULT_PRIORITY,
    PidArgs,          \* pids processes pass to kill and setpriority
    PrioArgs,         \* priorities processes pass to setpriority
    MaxPid            \* bound: fork is not called once nextpid exceeds it

ASSUME ProcAssumption ==
    /\ NPROC \in Nat \ {0}
    /\ BootCPU \in CPU /\ NoCPU \notin CPU
    /\ MIN_PRIORITY \in Int /\ MAX_PRIORITY \in Int
    /\ DEFAULT_PRIORITY \in MIN_PRIORITY..MAX_PRIORITY
    /\ PidArgs \subseteq Int /\ PrioArgs \subseteq Int
    /\ MaxPid \in Nat \ {0}

Slots == 1..NPROC
Nil == 0
InitProc == 1            \* initproc: userinit fills the first slot
TicksChan == NPROC + 1   \* &ticks as a sleep channel; &proc[i] is slot i

VARIABLES
    state,      \* p->state
    pid,        \* p->pid
    parent,     \* p->parent
    killed,     \* p->killed
    chan,       \* p->chan
    priority,   \* p->priority
    kstack,     \* p->kstack points to an allocated page
    pgdir,      \* p->pgdir points to an allocated page directory
    pc,         \* where the thread of the slot is in the kernel
    np,         \* local np of fork: the slot being filled
    exec,       \* whose kernel stack a CPU is on; Nil is the scheduler's
    cproc,      \* c->proc
    intr,       \* progress of a timer interrupt on a CPU
    lock,       \* CPU holding ptable.lock
    tlock,      \* CPU holding tickslock
    nextpid

slotVars == <<state, pid, parent, killed, chan, priority, kstack, pgdir>>
threadVars == <<pc, np>>
cpuVars == <<exec, cproc, intr, lock, tlock>>
vars == <<slotVars, threadVars, cpuVars, nextpid>>

States == {"UNUSED", "EMBRYO", "SLEEPING", "RUNNABLE", "RUNNING", "ZOMBIE"}

(* Positions of a thread.  "user" is user mode; "sys" a system call after   *)
(* the killed check of its entry; "sysret" the killed check of its return;  *)
(* "trapret" the second killed check of an interrupt taken in user mode.    *)
Labels == {"none", "forkret", "user", "trapret", "sys", "sysret",
           "fork_kstack", "fork_copy", "fork_run", "wait",
           "sleep_lk", "asleep", "sleep_retry", "sleep_spin",
           "exit", "exiting", "zombie", "panic"}

(***************************************************************************)
(* Searches of the table.                                                  *)
(***************************************************************************)
FreeOrEmbryo == {p \in Slots : state[p] \in {"UNUSED", "EMBRYO"}}
Unused == {p \in Slots : state[p] = "UNUSED"}

Runnable == {p \in Slots : state[p] = "RUNNABLE"}

Children(p) == {q \in Slots : parent[q] = p}

LivingToo(p) == Children(p)
Zombies(p) == {q \in Children(p) : state[q] = "ZOMBIE"}

WithPid(i) == {p \in Slots : pid[p] = i}

(* scheduler(): a later process replaces chosen only if strictly better.    *)
ChosenBySlot == Min(Runnable)
Chosen == Min({p \in Runnable :
                  \A q \in Runnable : priority[p] <= priority[q]})

(* wakeup1 on a set of channels, as a new value of state.                   *)
Wakeup1(chans) ==
    [q \in Slots |-> IF state[q] = "SLEEPING" /\ chan[q] \in chans
                     THEN "RUNNABLE" ELSE state[q]]

(* The thread of p runs on CPU c, holds no spinlock and is not interrupted. *)
InThread(c, p, l) ==
    /\ exec[c] = p
    /\ pc[p] = l
    /\ intr[c] = "none"
    /\ lock # c
    /\ tlock # c

(* ptable.lock is still held when sched() is entered.                       *)
SchedUnlocked(c) == lock' = NoCPU
IntoSched(c) == lock' = c

Goto(p, l) == pc' = [pc EXCEPT ![p] = l]

Init ==
    /\ state = [p \in Slots |-> IF p = InitProc THEN "RUNNABLE" ELSE "UNUSED"]
    /\ pid = [p \in Slots |-> IF p = InitProc THEN 1 ELSE 0]
    /\ parent = [p \in Slots |-> Nil]
    /\ killed = [p \in Slots |-> FALSE]
    /\ chan = [p \in Slots |-> Nil]
    /\ priority = [p \in Slots |-> DEFAULT_PRIORITY]
    /\ kstack = [p \in Slots |-> p = InitProc]
    /\ pgdir = [p \in Slots |-> p = InitProc]
    /\ pc = [p \in Slots |-> IF p = InitProc THEN "forkret" ELSE "none"]
    /\ np = [p \in Slots |-> Nil]
    /\ exec = [c \in CPU |-> Nil]
    /\ cproc = [c \in CPU |-> Nil]
    /\ intr = [c \in CPU |-> "none"]
    /\ lock = NoCPU
    /\ tlock = NoCPU
    /\ nextpid = 2

(***************************************************************************)
(* trap(): entry and return of a system call, faults, timer interrupts.    *)
(***************************************************************************)
SyscallEnter(c, p) ==
    /\ InThread(c, p, "user")
    /\ Goto(p, IF killed[p] THEN "exit" ELSE "sys")
    /\ UNCHANGED <<slotVars, np, cpuVars, nextpid>>

SyscallReturn(c, p) ==
    /\ InThread(c, p, "sysret")
    /\ Goto(p, IF killed[p] THEN "exit" ELSE "user")
    /\ UNCHANGED <<slotVars, np, cpuVars, nextpid>>

(* A system call that changes no state of this module.                      *)
SyscallOther(c, p) ==
    /\ InThread(c, p, "sys")
    /\ Goto(p, "sysret")
    /\ UNCHANGED <<slotVars, np, cpuVars, nextpid>>

(* A fault in user mode: killed is set and the trap exits the process.      *)
Fault(c, p) ==
    /\ InThread(c, p, "user")
    /\ killed' = [killed EXCEPT ![p] = TRUE]
    /\ Goto(p, "exit")
    /\ UNCHANGED <<state, pid, parent, chan, priority, kstack, pgdir,
                   np, cpuVars, nextpid>>

(* A disk, keyboard or serial interrupt in user mode: what its handler does *)
(* is outside this module, but a killed process exits on the way back.      *)
DeviceTrap(c, p) ==
    /\ InThread(c, p, "user")
    /\ killed[p]
    /\ Goto(p, "exit")
    /\ UNCHANGED <<slotVars, np, cpuVars, nextpid>>

(* Interrupts are enabled on c: it neither holds a spinlock nor spins for   *)
(* one, is not already in a handler, and has not halted in panic().         *)
Interruptible(c) ==
    /\ intr[c] = "none"
    /\ lock # c
    /\ tlock # c
    /\ exec[c] # Nil => pc[exec[c]] \notin {"panic", "trapret", "sleep_spin"}

(* IRQ_TIMER on cpus[0]: acquire(&tickslock) and ticks++.                   *)
CountTick(c) ==
    /\ c = BootCPU
    /\ Interruptible(c)
    /\ tlock = NoCPU
    /\ tlock' = c
    /\ intr' = [intr EXCEPT ![c] = "tick"]

TimerTick(c) ==
    /\ CountTick(c)
    /\ UNCHANGED <<slotVars, threadVars, exec, cproc, lock, nextpid>>

(* IRQ_TIMER on the other CPUs only preempts.                               *)
TimerOther(c) ==
    /\ c # BootCPU
    /\ Interruptible(c)
    /\ intr' = [intr EXCEPT ![c] = "yield"]
    /\ UNCHANGED <<slotVars, threadVars, exec, cproc, lock, tlock, nextpid>>

(* wakeup(&ticks), called with tickslock held.                              *)
NobodyWoken == {}
TickWakes == {TicksChan}

TimerWakeup(c) ==
    /\ intr[c] = "tick"
    /\ lock = NoCPU
    /\ state' = Wakeup1(TickWakes)
    /\ intr' = [intr EXCEPT ![c] = "count"]
    /\ UNCHANGED <<pid, parent, killed, chan, priority, kstack, pgdir,
                   threadVars, exec, cproc, lock, tlock, nextpid>>

(* p->run_time++ for the interrupted process, then release(&tickslock).     *)
CountRun(c) ==
    /\ intr[c] = "count"
    /\ tlock' = NoCPU
    /\ intr' = [intr EXCEPT ![c] = "yield"]

TimerCount(c) ==
    /\ CountRun(c)
    /\ UNCHANGED <<slotVars, threadVars, exec, cproc, lock, nextpid>>

(* The rest of trap(): nothing in the scheduler; a killed process that was  *)
(* in user mode exits; any other process yields, keeping ptable.lock.       *)
TimerDone(c) ==
    /\ intr[c] = "yield"
    /\ intr' = [intr EXCEPT ![c] = "none"]
    /\ LET p == cproc[c] IN
       \/ /\ p = Nil
          /\ UNCHANGED <<state, pc, lock>>
       \/ /\ p # Nil /\ killed[p] /\ pc[p] = "user"
          /\ Goto(p, "exit")
          /\ UNCHANGED <<state, lock>>
       \/ /\ p # Nil /\ ~(killed[p] /\ pc[p] = "user")
          /\ lock = NoCPU
          /\ state' = [state EXCEPT ![p] = "RUNNABLE"]
          /\ IntoSched(c)
          /\ UNCHANGED pc
    /\ UNCHANGED <<pid, parent, killed, chan, priority, kstack, pgdir,
                   np, exec, cproc, tlock, nextpid>>

(* The killed check after a yield taken from user mode.                     *)
TrapReturn(c, p) ==
    /\ InThread(c, p, "trapret")
    /\ Goto(p, IF killed[p] THEN "exit" ELSE "user")
    /\ UNCHANGED <<slotVars, np, cpuVars, nextpid>>

(***************************************************************************)
(* fork(): allocproc under the lock, then kalloc and copyuvm, which may    *)
(* fail, without it; the failure paths write np->state unlocked.           *)
(***************************************************************************)
PidAfter == nextpid + 1

AllocProc(c, p) ==
    /\ InThread(c, p, "sys")
    /\ lock = NoCPU
    /\ Unused # {} => nextpid <= MaxPid
    /\ IF Unused = {}
       THEN /\ Goto(p, "sysret")
            /\ UNCHANGED <<state, pid, priority, np, nextpid>>
       ELSE LET q == Min(Unused) IN
            /\ state' = [state EXCEPT ![q] = "EMBRYO"]
            /\ pid' = [pid EXCEPT ![q] = nextpid]
            /\ nextpid' = PidAfter
            /\ priority' = [priority EXCEPT ![q] = DEFAULT_PRIORITY]
            /\ np' = [np EXCEPT ![p] = q]
            /\ Goto(p, "fork_kstack")
    /\ UNCHANGED <<parent, killed, chan, kstack, pgdir, exec, cproc, lock>>

ForkAlloc(c, p) == AllocProc(c, p) /\ UNCHANGED <<intr, tlock>>

ForkKstack(c, p) ==
    /\ InThread(c, p, "fork_kstack")
    /\ \/ /\ kstack' = [kstack EXCEPT ![np[p]] = TRUE]
          /\ pc' = [pc EXCEPT ![p] = "fork_copy", ![np[p]] = "forkret"]
          /\ UNCHANGED <<state, np>>
       \/ /\ state' = [state EXCEPT ![np[p]] = "UNUSED"]
          /\ np' = [np EXCEPT ![p] = Nil]
          /\ Goto(p, "sysret")
          /\ UNCHANGED kstack
    /\ UNCHANGED <<pid, parent, killed, chan, priority, pgdir, cpuVars,
                   nextpid>>

ForkCopy(c, p) ==
    /\ InThread(c, p, "fork_copy")
    /\ \/ /\ pgdir' = [pgdir EXCEPT ![np[p]] = TRUE]
          /\ parent' = [parent EXCEPT ![np[p]] = p]
          /\ priority' = [priority EXCEPT ![np[p]] = priority[p]]
          /\ Goto(p, "fork_run")
          /\ UNCHANGED <<state, kstack, np>>
       \/ /\ kstack' = [kstack EXCEPT ![np[p]] = FALSE]
          /\ state' = [state EXCEPT ![np[p]] = "UNUSED"]
          /\ np' = [np EXCEPT ![p] = Nil]
          /\ pc' = [pc EXCEPT ![p] = "sysret", ![np[p]] = "none"]
          /\ UNCHANGED <<pgdir, parent, priority>>
    /\ UNCHANGED <<pid, killed, chan, cpuVars, nextpid>>

ForkRun(c, p) ==
    /\ InThread(c, p, "fork_run")
    /\ lock = NoCPU
    /\ state' = [state EXCEPT ![np[p]] = "RUNNABLE"]
    /\ np' = [np EXCEPT ![p] = Nil]
    /\ Goto(p, "sysret")
    /\ UNCHANGED <<pid, parent, killed, chan, priority, kstack, pgdir,
                   cpuVars, nextpid>>

(***************************************************************************)
(* exit() and wait().                                                      *)
(***************************************************************************)
SysExit(c, p) ==
    /\ InThread(c, p, "sys")
    /\ Goto(p, "exit")
    /\ UNCHANGED <<slotVars, np, cpuVars, nextpid>>

(* exit() up to acquire: init panics, any other process closes its files.   *)
ExitStart(c, p) ==
    /\ InThread(c, p, "exit")
    /\ Goto(p, IF p = InitProc THEN "panic" ELSE "exiting")
    /\ UNCHANGED <<slotVars, np, cpuVars, nextpid>>

(* Channels exit() wakes, and the parents after it.                         *)
InitChanOnly(p) == IF Zombies(p) # {} THEN {InitProc} ELSE {}
ExitChans(p) ==
    {parent[p]} \cup (IF Zombies(p) # {} THEN {InitProc} ELSE {})

Reparented(p) ==
    [q \in Slots |-> IF q \in Children(p) THEN InitProc ELSE parent[q]]

(* The locked part of exit(): wake the parent, hand the children to init    *)
(* (waking it if one is already dead), become a zombie; the lock stays      *)
(* held into sched().                                                       *)
ExitZombie(c, p) ==
    /\ InThread(c, p, "exiting")
    /\ lock = NoCPU
    /\ state' = [Wakeup1(ExitChans(p)) EXCEPT ![p] = "ZOMBIE"]
    /\ parent' = Reparented(p)
    /\ Goto(p, "zombie")
    /\ IntoSched(c)
    /\ UNCHANGED <<pid, killed, chan, priority, kstack, pgdir, np, exec,
                   cproc, intr, tlock, nextpid>>

(* One round of the loop of wait(), entered and left with the lock held by  *)
(* c unless it returns.                                                     *)
WaitRound(c, p) ==
    \/ /\ Zombies(p) # {}
       /\ LET q == Min(Zombies(p)) IN
          /\ kstack' = [kstack EXCEPT ![q] = FALSE]
          /\ pgdir' = [pgdir EXCEPT ![q] = FALSE]
          /\ pid' = [pid EXCEPT ![q] = 0]
          /\ parent' = [parent EXCEPT ![q] = Nil]
          /\ killed' = [killed EXCEPT ![q] = FALSE]
          /\ state' = [state EXCEPT ![q] = "UNUSED"]
          /\ pc' = [pc EXCEPT ![p] = "sysret", ![q] = "none"]
       /\ chan' = [chan EXCEPT ![p] = Nil]
       /\ lock' = NoCPU
    \/ /\ Zombies(p) = {}
       /\ Children(p) = {} \/ killed[p]
       /\ Goto(p, "sysret")
       /\ chan' = [chan EXCEPT ![p] = Nil]
       /\ lock' = NoCPU
       /\ UNCHANGED <<state, pid, parent, killed, kstack, pgdir>>
    \/ /\ Zombies(p) = {}
       /\ Children(p) # {} /\ ~killed[p]
       /\ chan' = [chan EXCEPT ![p] = p]
       /\ state' = [state EXCEPT ![p] = "SLEEPING"]
       /\ Goto(p, "wait")
       /\ IntoSched(c)
       /\ UNCHANGED <<pid, parent, killed, kstack, pgdir>>

WaitCall(c, p) ==
    /\ InThread(c, p, "sys")
    /\ lock = NoCPU
    /\ WaitRound(c, p)
    /\ UNCHANGED <<priority, np, exec, cproc, intr, tlock, nextpid>>

(* sleep() returns into the loop of wait(), still holding ptable.lock.      *)
WaitResume(c, p) ==
    /\ exec[c] = p /\ lock = c /\ state[p] = "RUNNING"
    /\ pc[p] = "wait"
    /\ WaitRound(c, p)
    /\ UNCHANGED <<priority, np, exec, cproc, intr, tlock, nextpid>>

(***************************************************************************)
(* sys_sleep(): the check of its loop and the sleep, under tickslock until *)
(* sleep() has ptable.lock.  Whether enough ticks have passed is left      *)
(* open.                                                                   *)
(***************************************************************************)
KilledSleepsOn(p) == TRUE
MaySleepOn(p) == ~killed[p]

SleepCheck(c, p) ==
    /\ \E l \in {"sys", "sleep_spin"} : InThread(c, p, l)
    /\ tlock = NoCPU
    /\ \/ /\ Goto(p, "sysret")       \* time is up, or killed
          /\ UNCHANGED tlock
       \/ /\ MaySleepOn(p)
          /\ Goto(p, "sleep_lk")
          /\ tlock' = c
    /\ UNCHANGED <<slotVars, np, exec, cproc, intr, lock, nextpid>>

(* sleep() has released ptable.lock and spins for tickslock, now with       *)
(* interrupts off.                                                          *)
SleepReacquire(c, p) ==
    /\ InThread(c, p, "sleep_retry")
    /\ Goto(p, "sleep_spin")
    /\ UNCHANGED <<slotVars, np, cpuVars, nextpid>>

Sleep(c, p) ==
    /\ exec[c] = p /\ pc[p] = "sleep_lk" /\ intr[c] = "none"
    /\ tlock = c
    /\ lock = NoCPU
    /\ IntoSched(c)
    /\ tlock' = NoCPU
    /\ chan' = [chan EXCEPT ![p] = TicksChan]
    /\ state' = [state EXCEPT ![p] = "SLEEPING"]
    /\ Goto(p, "asleep")
    /\ UNCHANGED <<pid, parent, killed, priority, kstack, pgdir, np, exec,
                   cproc, intr, nextpid>>

(***************************************************************************)
(* kill() and setpriority(): the first slot whose pid matches.             *)
(***************************************************************************)
KillWakes(q) ==
    IF state[q] = "SLEEPING" THEN [state EXCEPT ![q] = "RUNNABLE"] ELSE state

Kill(c, p) ==
    /\ InThread(c, p, "sys")
    /\ lock = NoCPU
    /\ \E i \in PidArgs :
         IF WithPid(i) = {}
         THEN UNCHANGED <<killed, state>>
         ELSE LET q == Min(WithPid(i)) IN
              /\ killed' = [killed EXCEPT ![q] = TRUE]
              /\ state' = KillWakes(q)
    /\ Goto(p, "sysret")
    /\ UNCHANGED <<pid, parent, chan, priority, kstack, pgdir, np, cpuVars,
                   nextpid>>

NoMaximum(prio) == prio >= MIN_PRIORITY
ValidPriority(prio) == prio >= MIN_PRIORITY /\ prio <= MAX_PRIORITY

SetPriority(c, p) ==
    /\ InThread(c, p, "sys")
    /\ lock = NoCPU
    /\ \E i \in PidArgs, prio \in PrioArgs :
         IF ~ValidPriority(prio) \/ WithPid(i) = {}
         THEN UNCHANGED priority
         ELSE priority' = [priority EXCEPT ![Min(WithPid(i))] = prio]
    /\ Goto(p, "sysret")
    /\ UNCHANGED <<state, pid, parent, killed, chan, kstack, pgdir, np,
                   cpuVars, nextpid>>

(***************************************************************************)
(* Context switches.  sched() panics unless the state has left RUNNING, so *)
(* a CPU that holds the lock on the stack of a process is on its way out   *)
(* when that process is not RUNNING and has just been resumed when it is.  *)
(***************************************************************************)
Swtch(c) ==
    /\ exec[c] # Nil
    /\ lock = c
    /\ state[exec[c]] # "RUNNING"
    /\ exec' = [exec EXCEPT ![c] = Nil]
    /\ UNCHANGED <<slotVars, threadVars, cproc, intr, lock, tlock, nextpid>>

(* scheduler() after swtch: switchkvm, c->proc = 0, release.                *)
ProcNotCleared(c) ==
    /\ exec[c] = Nil
    /\ lock = c
    /\ lock' = NoCPU
    /\ UNCHANGED <<slotVars, threadVars, exec, cproc, nextpid>>

SwtchBack(c) ==
    /\ exec[c] = Nil
    /\ lock = c
    /\ cproc' = [cproc EXCEPT ![c] = Nil]
    /\ lock' = NoCPU
    /\ UNCHANGED <<slotVars, threadVars, exec, nextpid>>

SchedulerResume(c) == SwtchBack(c) /\ UNCHANGED <<intr, tlock>>

(* scheduler(): acquire, choose, switchuvm, swtch to the chosen thread.     *)
Dispatch(c) ==
    /\ exec[c] = Nil
    /\ intr[c] = "none"
    /\ lock = NoCPU
    /\ Runnable # {}
    /\ LET p == Chosen IN
       /\ cproc' = [cproc EXCEPT ![c] = p]
       /\ state' = [state EXCEPT ![p] = "RUNNING"]
       /\ exec' = [exec EXCEPT ![c] = p]
    /\ lock' = c
    /\ UNCHANGED <<pid, parent, killed, chan, priority, kstack, pgdir,
                   threadVars, nextpid>>

Scheduler(c) == Dispatch(c) /\ UNCHANGED <<intr, tlock>>

(* The resumed thread releases the lock: in forkret, at the end of sleep,   *)
(* or at the end of yield, where an interrupt from user mode goes on to its *)
(* second killed check.                                                     *)
ThreadResume(c, p) ==
    /\ exec[c] = p /\ lock = c /\ state[p] = "RUNNING"
    /\ pc[p] # "wait"
    /\ lock' = NoCPU
    /\ Goto(p, CASE pc[p] = "forkret" -> "user"
                 [] pc[p] = "asleep"  -> "sleep_retry"
                 [] pc[p] = "user"    -> "trapret"
                 [] OTHER -> pc[p])
    /\ chan' = IF pc[p] = "asleep" THEN [chan EXCEPT ![p] = Nil] ELSE chan
    /\ UNCHANGED <<state, pid, parent, killed, priority, kstack, pgdir, np,
                   exec, cproc, intr, tlock, nextpid>>

ThreadStep(c, p) ==
    \/ SyscallEnter(c, p) \/ SyscallReturn(c, p) \/ SyscallOther(c, p)
    \/ Fault(c, p) \/ DeviceTrap(c, p) \/ TrapReturn(c, p)
    \/ ForkAlloc(c, p) \/ ForkKstack(c, p) \/ ForkCopy(c, p) \/ ForkRun(c, p)
    \/ SysExit(c, p) \/ ExitStart(c, p) \/ ExitZombie(c, p)
    \/ WaitCall(c, p)
    \/ SleepCheck(c, p) \/ Sleep(c, p) \/ SleepReacquire(c, p)
    \/ Kill(c, p) \/ SetPriority(c, p)

Resume(c, p) == WaitResume(c, p) \/ ThreadResume(c, p)

CpuStep(c) ==
    \/ TimerTick(c) \/ TimerOther(c) \/ TimerWakeup(c) \/ TimerCount(c)
    \/ TimerDone(c)
    \/ Swtch(c) \/ SchedulerResume(c) \/ Scheduler(c)

Next ==
    \E c \in CPU : \/ CpuStep(c)
                  \/ \E p \in Slots : ThreadStep(c, p) \/ Resume(c, p)

Spec == Init /\ [][Next]_vars

(***************************************************************************)
(* Fairness.  A CPU in the kernel keeps executing, timer interrupts recur, *)
(* and whoever waits for a lock that is free again and again gets it.      *)
(* User code is under no obligation, and nothing is assumed of whom the    *)
(* scheduler chooses.                                                      *)
(***************************************************************************)
(* Steps a CPU takes with interrupts off and without waiting for anyone.    *)
Handover(c) ==
    \/ Swtch(c) \/ SchedulerResume(c) \/ TimerCount(c)
    \/ \E p \in Slots : Resume(c, p)

Timer(c) == TimerTick(c) \/ TimerOther(c) \/ TimerWakeup(c) \/ TimerDone(c)

KernelStep(p) == pc[p] # "user" /\ \E c \in CPU : ThreadStep(c, p)

Fairness ==
    /\ \A c \in CPU : WF_vars(Handover(c)) /\ SF_vars(Timer(c))
                      /\ SF_vars(Scheduler(c))
    /\ \A p \in Slots : SF_vars(KernelStep(p))

FairSpec == Spec /\ Fairness

(***************************************************************************)
(* Properties.                                                             *)
(***************************************************************************)

(* Every variable has its type.                                             *)
TypeOK ==
    /\ state \in [Slots -> States]
    /\ pid \in [Slots -> Nat]
    /\ parent \in [Slots -> Slots \cup {Nil}]
    /\ killed \in [Slots -> BOOLEAN]
    /\ chan \in [Slots -> Slots \cup {Nil, TicksChan}]
    /\ priority \in [Slots -> MIN_PRIORITY..MAX_PRIORITY]
    /\ kstack \in [Slots -> BOOLEAN]
    /\ pgdir \in [Slots -> BOOLEAN]
    /\ pc \in [Slots -> Labels]
    /\ np \in [Slots -> Slots \cup {Nil}]
    /\ exec \in [CPU -> Slots \cup {Nil}]
    /\ cproc \in [CPU -> Slots \cup {Nil}]
    /\ intr \in [CPU -> {"none", "tick", "count", "yield"}]
    /\ lock \in CPU \cup {NoCPU}
    /\ tlock \in CPU \cup {NoCPU}
    /\ nextpid \in Nat

(* Two CPUs never execute on the kernel stack of the same process, and a    *)
(* CPU on the stack of a process either runs it or holds ptable.lock on the *)
(* way out: what the hand-over of the lock across swtch is for.             *)
StackExclusive ==
    /\ \A c, d \in CPU : exec[c] = exec[d] /\ exec[c] # Nil => c = d
    /\ \A c \in CPU : exec[c] # Nil /\ lock # c => state[exec[c]] = "RUNNING"
    /\ \A p \in Slots : state[p] = "RUNNING" => \E c \in CPU : exec[c] = p

(* What makes StackExclusive inductive.  c->proc is the process whose stack *)
(* the CPU is on, until the scheduler, holding the lock, has cleared it; a  *)
(* handler for interrupts never runs inside a critical section.             *)
CprocAgrees ==
    \A c \in CPU :
        /\ exec[c] # Nil =>
             /\ cproc[c] = exec[c]
             /\ state[exec[c]] \in {"RUNNABLE", "RUNNING", "SLEEPING", "ZOMBIE"}
        /\ exec[c] = Nil /\ lock # c => cproc[c] = Nil
        /\ intr[c] # "none" => lock # c

(* The slot fork() fills without the lock is an EMBRYO nobody else fills,   *)
(* so that its unlocked writes to np->state are harmless.                   *)
Forking(p) == pc[p] \in {"fork_kstack", "fork_copy", "fork_run"}

EmbryoPrivate ==
    /\ \A p \in Slots : Forking(p) => np[p] # Nil /\ state[np[p]] = "EMBRYO"
    /\ \A p, q \in Slots : Forking(p) /\ Forking(q) /\ np[p] = np[q] => p = q

IInv == TypeOK /\ StackExclusive /\ CprocAgrees /\ EmbryoPrivate

(* The kernel stack and page directory a CPU is using, or that a thread     *)
(* will be resumed with, are not freed: wait() reaps a zombie only after    *)
(* the CPU has left its stack and its page directory.                       *)
ResourcesLive ==
    /\ \A c \in CPU : \A p \in {exec[c], cproc[c]} \ {Nil} :
         kstack[p] /\ pgdir[p]
    /\ \A p \in Slots : state[p] \in {"RUNNABLE", "RUNNING", "SLEEPING"}
         => kstack[p] /\ pgdir[p]

(* Every process but init has a parent that can still reap it, and a free   *)
(* slot is nobody's child: exit() reparents before it becomes a zombie, and *)
(* a failed fork leaves no child behind that wait() would wait for.         *)
ParentAlive ==
    \A p \in Slots :
        /\ state[p] \in {"RUNNABLE", "RUNNING", "SLEEPING", "ZOMBIE"}
           /\ p # InitProc
           => /\ parent[p] # Nil
              /\ state[parent[p]] \in {"RUNNABLE", "RUNNING", "SLEEPING"}
        /\ state[p] = "UNUSED" => parent[p] = Nil

(* A process asleep in wait() has a child, none of its children is a        *)
(* zombie, and it has not been killed: neither exit, nor the reparenting    *)
(* of somebody else's zombie to init, nor kill is missed, and nobody is     *)
(* left without a parent to wait for it.                                    *)
NoMissedExit ==
    /\ ParentAlive
    /\ \A p \in Slots :
        state[p] = "SLEEPING" /\ pc[p] = "wait" =>
            /\ Children(p) # {}
            /\ \A q \in Children(p) : state[q] # "ZOMBIE"
            /\ ~killed[p]

(* kill() takes effect: a process that has been killed becomes a zombie if  *)
(* the scheduler does not starve it, although kill may fall between the     *)
(* killed check of sys_sleep and its sleep, or hit the process runnable, in *)
(* user mode, or asleep in wait.  (Not once init has exited, which halts a  *)
(* CPU for good.)                                                           *)
KillTakesEffect ==
    \A p \in Slots :
        []<>(state[p] # "RUNNABLE") =>
            (killed[p] /\ state[p] \in {"RUNNABLE", "RUNNING", "SLEEPING"}
             ~> state[p] = "ZOMBIE" \/ pc[InitProc] = "panic")

(* "The scheduler always selects the highest-priority process": a process   *)
(* that stays runnable with the strictly best priority is not kept waiting, *)
(* neither by preemption points nor by the lock.                            *)
Best(p) ==
    /\ p \in Runnable
    /\ \A q \in Slots \ {p} : state[q] \in {"RUNNABLE", "RUNNING"}
                              => priority[p] < priority[q]

BestRuns ==
    \A p \in Slots : []<>~Best(p) \/ <>(pc[InitProc] = "panic")
=============================================================================
