----------------------------- MODULE SchedStats -----------------------------
(***************************************************************************)
(* Time accounting of the scheduler: ticks, the wait, run and turnaround   *)
(* times that getstats() and ps report, and the deadline of sys_sleep.     *)
(* Every action is an action of Proc together with what the same code does *)
(* to the accounting fields.                                               *)
(*                                                                         *)
(* ticks is written under tickslock and read under ptable.lock or under no *)
(* lock at all, once per use in the source, so a tick counted by cpus[0]   *)
(* may fall between two reads of the same critical section on another CPU. *)
(* At most one can: the handler then waits for ptable.lock in wakeup().    *)
(* Such a critical section and the tick inside it are one action (TickIn). *)
(***************************************************************************)
EXTENDS Proc

CONSTANTS
    MaxTicks,     \* bound: timer ticks counted
    SleepArgs     \* arguments of sys_sleep

ASSUME StatsAssumption == MaxTicks \in Nat /\ SleepArgs \subseteq Nat

VARIABLES
    ticks,
    wait_time, run_time, turnaround_time, creation_time, last_scheduled,
    until       \* ticks0 + n of the sys_sleep a process is in

accounts == <<wait_time, run_time, turnaround_time, creation_time,
              last_scheduled>>
statVars == <<ticks, accounts, until>>
allVars == <<vars, statVars>>

Zero == [p \in Slots |-> 0]

StatsInit ==
    /\ Init
    /\ ticks = 0
    /\ wait_time = Zero /\ run_time = Zero /\ turnaround_time = Zero
    /\ creation_time = Zero /\ last_scheduled = Zero
    /\ until = Zero

(***************************************************************************)
(* The accounting pass of scheduler().  It reads ticks twice per slot: for *)
(* the time added and for the new last_scheduled.  A tick that falls after *)
(* the first k reads is seen by the later ones only.                       *)
(***************************************************************************)
NoTick == 2 * NPROC

ReadDiff(p, k) == IF 2 * p - 1 <= k THEN ticks ELSE ticks + 1
ReadLast(p, k) == IF 2 * p <= k THEN ticks ELSE ticks + 1

Accounted(p) == state[p] # "UNUSED" /\ last_scheduled[p] # 0

Elapsed(p, k) == ReadDiff(p, k) - last_scheduled[p]

RunAfterPass(k) ==
    [p \in Slots |->
        run_time[p] + IF Accounted(p) /\ state[p] = "RUNNING"
                      THEN Elapsed(p, k) ELSE 0]

WaitAfterPass(k) ==
    [p \in Slots |->
        wait_time[p] + IF Accounted(p) /\ state[p] = "RUNNABLE"
                       THEN Elapsed(p, k) ELSE 0]

LastNotMoved(k) == last_scheduled
LastAfterPass(k) ==
    [p \in Slots |-> IF Accounted(p) THEN ReadLast(p, k) ELSE last_scheduled[p]]

(* The pass, then the store into the chosen process, which reads t.         *)
PassAndChoose(k, t) ==
    /\ run_time' = RunAfterPass(k)
    /\ wait_time' = WaitAfterPass(k)
    /\ last_scheduled' = [LastAfterPass(k) EXCEPT ![Chosen] = t]
    /\ UNCHANGED <<turnaround_time, creation_time, until>>

SchedulerStats(c) ==
    /\ Scheduler(c)
    /\ PassAndChoose(NoTick, ticks)
    /\ UNCHANGED ticks

(* A round of scheduler() that finds nothing to run still does the pass.    *)
FindsNothing(c) ==
    /\ exec[c] = Nil /\ intr[c] = "none" /\ lock = NoCPU
    /\ Runnable = {}

PassOnly(k) ==
    /\ run_time' = RunAfterPass(k)
    /\ wait_time' = WaitAfterPass(k)
    /\ last_scheduled' = LastAfterPass(k)
    /\ UNCHANGED <<turnaround_time, creation_time, until>>

IdlePass(c) ==
    /\ FindsNothing(c)
    /\ PassOnly(NoTick)
    /\ UNCHANGED <<vars, ticks>>

(* scheduler() after swtch: charge the process that ran; t1 and t2 are the  *)
(* two reads of ticks.                                                      *)
ChargeRun(c, t1, t2) ==
    LET p == cproc[c] IN
    /\ run_time' = [run_time EXCEPT ![p] =
                      @ + IF last_scheduled[p] # 0
                          THEN t1 - last_scheduled[p] ELSE 0]
    /\ last_scheduled' = [last_scheduled EXCEPT ![p] = t2]
    /\ UNCHANGED <<wait_time, turnaround_time, creation_time, until>>

SchedulerResumeStats(c) ==
    /\ SchedulerResume(c)
    /\ ChargeRun(c, ticks, ticks)
    /\ UNCHANGED ticks

(* allocproc(): the slot it takes starts from zero.                         *)
OpenAccount(t1, t2) ==
    IF Unused = {}
    THEN UNCHANGED <<accounts, until>>
    ELSE LET q == Min(Unused) IN
         /\ wait_time' = [wait_time EXCEPT ![q] = 0]
         /\ run_time' = [run_time EXCEPT ![q] = 0]
         /\ turnaround_time' = [turnaround_time EXCEPT ![q] = 0]
         /\ creation_time' = [creation_time EXCEPT ![q] = t1]
         /\ last_scheduled' = [last_scheduled EXCEPT ![q] = t2]
         /\ UNCHANGED until

ForkAllocStats(c, p) ==
    /\ ForkAlloc(c, p)
    /\ OpenAccount(ticks, ticks)
    /\ UNCHANGED ticks

(* exit() computes the turnaround time before it closes the files.          *)
ExitStartStats(c, p) ==
    /\ ExitStart(c, p)
    /\ turnaround_time' =
         IF p = InitProc THEN turnaround_time
         ELSE [turnaround_time EXCEPT ![p] = ticks - creation_time[p]]
    /\ UNCHANGED <<ticks, wait_time, run_time, creation_time, last_scheduled,
                   until>>

(* sys_sleep: ticks0 is read once, the loop compares ticks - ticks0 with n. *)
SleepCheckStats(c, p) ==
    /\ SleepCheck(c, p)
    /\ \E n \in SleepArgs :
         LET end == IF pc[p] = "sys" THEN ticks + n ELSE until[p] IN
         /\ pc'[p] = IF ticks < end /\ ~killed[p] THEN "sleep_lk" ELSE "sysret"
         /\ until' = [until EXCEPT ![p] = IF pc'[p] = "sysret" THEN 0 ELSE end]
    /\ UNCHANGED <<ticks, accounts>>

(* The timer handler of cpus[0]: ticks++, and later run_time++ of the       *)
(* process it interrupted, under tickslock only.                            *)
TimerTickStats(c) ==
    /\ TimerTick(c)
    /\ ticks < MaxTicks
    /\ ticks' = ticks + 1
    /\ UNCHANGED <<accounts, until>>

RunCounted(run, p) == IF p = Nil THEN run ELSE [run EXCEPT ![p] = @ + 1]

TimerCountStats(c) ==
    /\ TimerCount(c)
    /\ run_time' = RunCounted(run_time, cproc[c])
    /\ UNCHANGED <<ticks, wait_time, turnaround_time, creation_time,
                   last_scheduled, until>>

(***************************************************************************)
(* Races with the timer handler of cpus[0].                                *)
(***************************************************************************)
TickMeanwhile(c) ==
    /\ c # BootCPU
    /\ CountTick(BootCPU)
    /\ ticks < MaxTicks
    /\ ticks' = ticks + 1

TickInScheduler(c) ==
    /\ Dispatch(c)
    /\ TickMeanwhile(c)
    /\ \E k \in 0..NoTick : PassAndChoose(k, ticks + 1)

TickInIdle(c) ==
    /\ FindsNothing(c)
    /\ TickMeanwhile(c)
    /\ \E k \in 0..NoTick : PassOnly(k)
    /\ UNCHANGED <<slotVars, threadVars, exec, cproc, lock, nextpid>>

TickInResume(c) ==
    /\ SwtchBack(c)
    /\ TickMeanwhile(c)
    /\ ChargeRun(c, ticks, ticks + 1)

TickInAlloc(c, p) ==
    /\ AllocProc(c, p)
    /\ TickMeanwhile(c)
    /\ OpenAccount(ticks, ticks + 1)

(* The unlocked run_time++ races with the pass over the same process on     *)
(* another CPU, whether it finds something to run or not: either update may *)
(* be lost.                                                                 *)
RacedRuns ==
    LET p == cproc[BootCPU]
        pass == RunAfterPass(NoTick)
    IN {pass, RunCounted(pass, p),
        IF p = Nil THEN pass ELSE [pass EXCEPT ![p] = run_time[p] + 1]}

CountMeanwhile(c) ==
    /\ c # BootCPU
    /\ CountRun(BootCPU)
    /\ run_time' \in RacedRuns
    /\ wait_time' = WaitAfterPass(NoTick)
    /\ UNCHANGED <<ticks, turnaround_time, creation_time, until>>

CountInScheduler(c) ==
    /\ Dispatch(c)
    /\ CountMeanwhile(c)
    /\ last_scheduled' = [LastAfterPass(NoTick) EXCEPT ![Chosen] = ticks]

CountInIdle(c) ==
    /\ FindsNothing(c)
    /\ CountMeanwhile(c)
    /\ last_scheduled' = LastAfterPass(NoTick)
    /\ UNCHANGED <<slotVars, threadVars, exec, cproc, lock, nextpid>>

(* Actions of Proc whose code does not touch the accounting.                *)
OtherThreadStep(c, p) ==
    \/ SyscallEnter(c, p) \/ SyscallReturn(c, p) \/ SyscallOther(c, p)
    \/ Fault(c, p) \/ DeviceTrap(c, p) \/ TrapReturn(c, p)
    \/ ForkKstack(c, p) \/ ForkCopy(c, p) \/ ForkRun(c, p)
    \/ SysExit(c, p) \/ ExitZombie(c, p)
    \/ WaitCall(c, p) \/ Resume(c, p)
    \/ Sleep(c, p) \/ SleepReacquire(c, p)
    \/ Kill(c, p) \/ SetPriority(c, p)

OtherCpuStep(c) ==
    TimerOther(c) \/ TimerWakeup(c) \/ TimerDone(c) \/ Swtch(c)

StatsNext ==
    \E c \in CPU :
        \/ SchedulerStats(c) \/ IdlePass(c) \/ SchedulerResumeStats(c)
        \/ TimerTickStats(c) \/ TimerCountStats(c)
        \/ TickInScheduler(c) \/ TickInResume(c) \/ CountInScheduler(c)
        \/ TickInIdle(c) \/ CountInIdle(c)
        \/ OtherCpuStep(c) /\ UNCHANGED statVars
        \/ \E p \in Slots :
             \/ ForkAllocStats(c, p) \/ TickInAlloc(c, p)
             \/ ExitStartStats(c, p) \/ SleepCheckStats(c, p)
             \/ OtherThreadStep(c, p) /\ UNCHANGED statVars

StatsSpec == StatsInit /\ [][StatsNext]_allVars

(***************************************************************************)
(* Properties.                                                             *)
(***************************************************************************)

(* The accounting variables have their types; in particular no time is     *)
(* negative.                                                               *)
StatsTypeOK ==
    /\ ticks \in Nat
    /\ wait_time \in [Slots -> Nat]
    /\ run_time \in [Slots -> Nat]
    /\ turnaround_time \in [Slots -> Nat]
    /\ creation_time \in [Slots -> Nat]
    /\ last_scheduled \in [Slots -> Nat]
    /\ until \in [Slots -> Nat]

(* The time a process has been charged for waiting is at most the time     *)
(* from its creation to its last accounting, whatever CPU accounts for it  *)
(* and wherever a tick falls; run_time is counted twice, by the timer      *)
(* handler and by the scheduler, but each at most once per tick.           *)
TimesBounded ==
    /\ StatsTypeOK
    /\ \A p \in Slots : state[p] # "UNUSED" =>
        /\ creation_time[p] <= last_scheduled[p]
        /\ last_scheduled[p] <= ticks
        /\ wait_time[p] <= last_scheduled[p] - creation_time[p]
        /\ run_time[p] + wait_time[p]
              <= (last_scheduled[p] - creation_time[p]) + (ticks - creation_time[p])

(* A process does not sleep past its deadline: when nobody holds tickslock *)
(* a sleeper in sys_sleep still has ticks to wait for, so the wakeup of    *)
(* the last one was not lost between its check and its sleep.              *)
NotOverdue ==
    \A p \in Slots :
        state[p] = "SLEEPING" /\ pc[p] = "asleep" /\ tlock = NoCPU
        => ticks < until[p]
=============================================================================
