----------------------------- MODULE ProcProofs -----------------------------
(***************************************************************************)
(* Proofs about Proc and, in the second part, SchedStats, for any number   *)
(* of slots and CPUs and any number of ticks.                              *)
(***************************************************************************)
EXTENDS SchedStats, WellFoundedInduction, TLAPS

(* A search of the table that finds something returns the lowest match.    *)
LEMMA MinInSet ==
    ASSUME NEW S \in SUBSET Nat, S # {}
    PROVE  Min(S) \in S /\ \A y \in S : Min(S) <= y
<1> DEFINE Less == {ss \in Nat \X Nat : ss[1] < ss[2]}
<1>1. IsWellFoundedOn(Less, Nat)
  BY NatLessThanWellFounded, Zenon DEF OpToRel
<1>2. PICK x \in S : \A y \in S : ~(<<y, x>> \in Less)
  <2> HIDE DEF Less
  <2> QED BY <1>1, WFMin
<1>3. ASSUME NEW y \in S PROVE x <= y
  <2>1. x \in Nat /\ y \in Nat
    OBVIOUS
  <2>2. ~(<<y, x>> \in Less)
    BY <1>2
  <2>3. ~(y < x)
    BY <2>1, <2>2
  <2> QED
    BY <2>1, <2>3
<1> QED
  BY <1>3 DEF Min

(* The scheduler's choice is a runnable process of the best priority.       *)
LEMMA ChosenRunnable ==
    ASSUME TypeOK, Runnable # {}
    PROVE  Chosen \in Runnable
<1> DEFINE Offsets == {priority[q] - MIN_PRIORITY : q \in Runnable}
<1>1. Offsets \in SUBSET Nat /\ Offsets # {}
  <2>1. \A q \in Runnable : priority[q] \in MIN_PRIORITY..MAX_PRIORITY
    BY DEF TypeOK, Runnable
  <2>2. \A q \in Runnable : priority[q] - MIN_PRIORITY \in Nat
    BY <2>1, ProcAssumption
  <2> QED
    BY <2>2
<1>2. PICK r \in Runnable : priority[r] - MIN_PRIORITY = Min(Offsets)
  <2>1. Min(Offsets) \in Offsets
    <3> HIDE DEF Offsets
    <3> QED BY <1>1, MinInSet
  <2> QED BY <2>1
<1>3. \A q \in Runnable : Min(Offsets) <= priority[q] - MIN_PRIORITY
  <2>1. \A y \in Offsets : Min(Offsets) <= y
    <3> HIDE DEF Offsets
    <3> QED BY <1>1, MinInSet
  <2> QED BY <2>1
<1> DEFINE BestOnes == {p \in Runnable :
                         \A q \in Runnable : priority[p] <= priority[q]}
<1>4. r \in BestOnes
  BY <1>2, <1>3, ProcAssumption DEF TypeOK, Runnable
<1>5. BestOnes \in SUBSET Nat
  BY DEF Runnable, Slots
<1>6. Min(BestOnes) \in BestOnes
  <2> HIDE DEF BestOnes
  <2> QED BY <1>4, <1>5, MinInSet
<1> QED
  BY <1>6 DEF Chosen

(* Steps that touch nothing but the position of one thread.                 *)
LEMMA GotoType ==
    ASSUME TypeOK, NEW p, NEW l \in Labels, Goto(p, l),
           UNCHANGED <<slotVars, np, cpuVars, nextpid>>
    PROVE  TypeOK'
BY DEF TypeOK, Goto, slotVars, cpuVars

LEMMA WaitRoundType ==
    ASSUME TypeOK, NEW c \in CPU, NEW p \in Slots, WaitRound(c, p),
           UNCHANGED <<priority, np, exec, cproc, intr, tlock, nextpid>>
    PROVE  TypeOK'
<1>1. pc' \in [Slots -> Labels]
  <2>1. \/ \E q : pc' = [pc EXCEPT ![p] = "sysret", ![q] = "none"]
        \/ Goto(p, "sysret") \/ Goto(p, "wait")
    BY DEF WaitRound
  <2> QED BY <2>1 DEF TypeOK, Goto, Labels
<1>2. state' \in [Slots -> States]
  BY DEF WaitRound, TypeOK, States
<1>3. /\ pid' \in [Slots -> Nat]
      /\ parent' \in [Slots -> Slots \cup {Nil}]
  BY DEF WaitRound, TypeOK
<1>4. /\ killed' \in [Slots -> BOOLEAN]
      /\ kstack' \in [Slots -> BOOLEAN]
      /\ pgdir' \in [Slots -> BOOLEAN]
  BY DEF WaitRound, TypeOK
<1>5. chan' \in [Slots -> Slots \cup {Nil, TicksChan}]
  BY DEF WaitRound, TypeOK
<1>6. lock' \in CPU \cup {NoCPU}
  BY DEF WaitRound, IntoSched
<1> QED
  BY <1>1, <1>2, <1>3, <1>4, <1>5, <1>6 DEF TypeOK

LEMMA TypeThread ==
    ASSUME TypeOK, NEW c \in CPU, NEW p \in Slots, ThreadStep(c, p)
    PROVE  TypeOK'
<1>1. CASE SyscallEnter(c, p)
  <2>1. (IF killed[p] THEN "exit" ELSE "sys") \in Labels
    BY DEF Labels
  <2> QED BY <1>1, <2>1, GotoType DEF SyscallEnter
<1>2. CASE SyscallReturn(c, p)
  <2>1. (IF killed[p] THEN "exit" ELSE "user") \in Labels
    BY DEF Labels
  <2> QED BY <1>2, <2>1, GotoType DEF SyscallReturn
<1>3. CASE SyscallOther(c, p)
  BY <1>3, GotoType DEF SyscallOther, Labels
<1>4. CASE Fault(c, p)
  BY <1>4 DEF Fault, TypeOK, Goto, Labels, cpuVars
<1>5. CASE TrapReturn(c, p)
  <2>1. (IF killed[p] THEN "exit" ELSE "user") \in Labels
    BY DEF Labels
  <2> QED BY <1>5, <2>1, GotoType DEF TrapReturn
<1>6. CASE ForkAlloc(c, p)
  <2>1. CASE Unused = {}
    BY <1>6, <2>1 DEF ForkAlloc, AllocProc, TypeOK, Goto, Labels
  <2>2. CASE Unused # {}
    <3>1. Min(Unused) \in Slots
      <4>1. Unused \in SUBSET Nat
        BY DEF Unused, Slots
      <4> QED BY <2>2, <4>1, MinInSet DEF Unused
    <3> QED
      BY <1>6, <2>2, <3>1, ProcAssumption
      DEF ForkAlloc, AllocProc, PidAfter, TypeOK, Goto, Labels, States
  <2> QED BY <2>1, <2>2
<1>7. CASE ForkKstack(c, p)
  BY <1>7 DEF ForkKstack, TypeOK, Goto, Labels, States, cpuVars
<1>8. CASE ForkCopy(c, p)
  <2>1. \/ Goto(p, "fork_run")
        \/ pc' = [pc EXCEPT ![p] = "sysret", ![np[p]] = "none"]
    BY <1>8 DEF ForkCopy
  <2>2. pc' \in [Slots -> Labels]
    BY <2>1 DEF TypeOK, Goto, Labels
  <2>3. /\ state' \in [Slots -> States]
        /\ parent' \in [Slots -> Slots \cup {Nil}]
        /\ np' \in [Slots -> Slots \cup {Nil}]
    BY <1>8 DEF ForkCopy, TypeOK, States
  <2>4. /\ priority' \in [Slots -> MIN_PRIORITY..MAX_PRIORITY]
        /\ kstack' \in [Slots -> BOOLEAN]
        /\ pgdir' \in [Slots -> BOOLEAN]
    BY <1>8 DEF ForkCopy, TypeOK
  <2> QED
    BY <1>8, <2>2, <2>3, <2>4 DEF ForkCopy, TypeOK, cpuVars
<1>9. CASE ForkRun(c, p)
  BY <1>9 DEF ForkRun, TypeOK, Goto, Labels, States, cpuVars
<1>10. CASE SysExit(c, p)
  BY <1>10, GotoType DEF SysExit, Labels
<1>11. CASE ExitStart(c, p)
  <2>1. (IF p = InitProc THEN "panic" ELSE "exiting") \in Labels
    BY DEF Labels
  <2> QED BY <1>11, <2>1, GotoType DEF ExitStart
<1>12. CASE ExitZombie(c, p)
  <2>1. Reparented(p) \in [Slots -> Slots \cup {Nil}]
    BY ProcAssumption DEF Reparented, TypeOK, Slots, InitProc
  <2>2. Wakeup1(ExitChans(p)) \in [Slots -> States]
    BY DEF Wakeup1, TypeOK, States
  <2> QED
    BY <1>12, <2>1, <2>2 DEF ExitZombie, IntoSched, TypeOK, Goto, Labels, States
<1>13. CASE WaitCall(c, p)
  BY <1>13, WaitRoundType DEF WaitCall
<1>14. CASE SleepCheck(c, p)
  BY <1>14 DEF SleepCheck, TypeOK, Goto, Labels, slotVars
<1>15. CASE Sleep(c, p)
  BY <1>15 DEF Sleep, IntoSched, TypeOK, Goto, Labels, States
<1>16. CASE SleepReacquire(c, p)
  BY <1>16, GotoType DEF SleepReacquire, Labels
<1>17. CASE Kill(c, p)
  BY <1>17 DEF Kill, KillWakes, TypeOK, Goto, Labels, States, cpuVars
<1>18. CASE SetPriority(c, p)
  BY <1>18, ProcAssumption
  DEF SetPriority, ValidPriority, TypeOK, Goto, Labels, cpuVars
<1>19. CASE DeviceTrap(c, p)
  BY <1>19, GotoType DEF DeviceTrap, Labels
<1> QED
  BY <1>1, <1>2, <1>3, <1>4, <1>5, <1>6, <1>7, <1>8, <1>9, <1>10, <1>11,
     <1>12, <1>13, <1>14, <1>15, <1>16, <1>17, <1>18, <1>19 DEF ThreadStep

LEMMA TypeResume ==
    ASSUME TypeOK, NEW c \in CPU, NEW p \in Slots, Resume(c, p)
    PROVE  TypeOK'
<1>1. CASE WaitResume(c, p)
  BY <1>1, WaitRoundType DEF WaitResume
<1>2. CASE ThreadResume(c, p)
  BY <1>2 DEF ThreadResume, TypeOK, Goto, Labels
<1> QED BY <1>1, <1>2 DEF Resume

LEMMA TypeCpu ==
    ASSUME TypeOK, NEW c \in CPU, CpuStep(c)
    PROVE  TypeOK'
<1>1. CASE TimerTick(c)
  BY <1>1 DEF TimerTick, CountTick, TypeOK, slotVars, threadVars
<1>2. CASE TimerOther(c)
  BY <1>2 DEF TimerOther, TypeOK, slotVars, threadVars
<1>3. CASE TimerWakeup(c)
  BY <1>3 DEF TimerWakeup, Wakeup1, TypeOK, threadVars, States
<1>4. CASE TimerCount(c)
  BY <1>4 DEF TimerCount, CountRun, TypeOK, slotVars, threadVars
<1>5. CASE TimerDone(c)
  BY <1>5 DEF TimerDone, IntoSched, TypeOK, Goto, Labels, States
<1>6. CASE Swtch(c)
  BY <1>6 DEF Swtch, TypeOK, slotVars, threadVars
<1>7. CASE SchedulerResume(c)
  BY <1>7 DEF SchedulerResume, SwtchBack, TypeOK, slotVars, threadVars
<1>8. CASE Scheduler(c)
  <2>1. Chosen \in Slots
    BY <1>8, ChosenRunnable DEF Scheduler, Dispatch, Runnable
  <2> QED
    BY <1>8, <2>1 DEF Scheduler, Dispatch, TypeOK, States, threadVars
<1> QED
  BY <1>1, <1>2, <1>3, <1>4, <1>5, <1>6, <1>7, <1>8 DEF CpuStep

LEMMA TypeNext ==
    ASSUME TypeOK, [Next]_vars
    PROVE  TypeOK'
<1>1. CASE Next
  BY <1>1, TypeThread, TypeResume, TypeCpu DEF Next
<1>2. CASE UNCHANGED vars
  BY <1>2 DEF TypeOK, vars, slotVars, threadVars, cpuVars
<1> QED BY <1>1, <1>2

LEMMA TypeInit ==
    ASSUME Init
    PROVE  TypeOK
<1>1. /\ state \in [Slots -> States]
      /\ pc \in [Slots -> Labels]
  BY DEF Init, States, Labels
<1>2. priority \in [Slots -> MIN_PRIORITY..MAX_PRIORITY]
  BY ProcAssumption DEF Init
<1> QED
  BY <1>1, <1>2 DEF Init, TypeOK

(* Spec keeps every variable of the process table in its type, for every    *)
(* number of slots and CPUs: no search of proc.c returns a slot that does   *)
(* not exist, and no priority outside the legal range is ever stored.       *)
THEOREM TypeCorrect == Spec => []TypeOK
BY TypeInit, TypeNext, PTL DEF Spec

(***************************************************************************)
(* One CPU per kernel stack.                                               *)
(***************************************************************************)
Rest == StackExclusive /\ CprocAgrees /\ EmbryoPrivate

LEMMA NilNoSlot == Nil \notin Slots
BY DEF Nil, Slots

(* A thread that is not in a critical section runs a RUNNING process.       *)
LEMMA InThreadRuns ==
    ASSUME IInv, NEW c \in CPU, NEW p \in Slots, NEW l, InThread(c, p, l)
    PROVE  /\ exec[c] = p /\ state[p] = "RUNNING"
           /\ intr[c] = "none" /\ lock # c
BY NilNoSlot DEF IInv, StackExclusive, InThread

(* While nobody holds the lock, whatever stack a CPU is on is the stack of  *)
(* a RUNNING process, and c->proc says which.                               *)
LEMMA FreeLock ==
    ASSUME IInv, lock = NoCPU
    PROVE  \A d \in CPU : /\ exec[d] # Nil => state[exec[d]] = "RUNNING"
                          /\ cproc[d] = exec[d]
BY ProcAssumption DEF IInv, StackExclusive, CprocAgrees

(* Steps outside critical sections that only move one thread, not into      *)
(* fork; other CPUs may take an interrupt.                                  *)
LEMMA QuietThread ==
    ASSUME IInv, NEW p \in Slots,
           NEW l \in Labels \ {"fork_kstack", "fork_copy", "fork_run"},
           Goto(p, l), UNCHANGED <<state, np, exec, cproc, lock>>,
           \A d \in CPU : lock = d => intr'[d] = intr[d]
    PROVE  Rest'
<1>1. StackExclusive' /\ CprocAgrees'
  BY DEF IInv, StackExclusive, CprocAgrees
<1>2. \A q \in Slots : Forking(q)' => Forking(q)
  BY DEF Forking, Goto, IInv, TypeOK
<1>3. EmbryoPrivate'
  BY <1>2 DEF IInv, EmbryoPrivate
<1> QED BY <1>1, <1>3 DEF Rest

(* Steps that leave every CPU and the set of RUNNING processes as they are, *)
(* and the states of processes on a CPU inside a critical section.          *)
LEMMA SameRunning ==
    ASSUME IInv, TypeOK', UNCHANGED <<exec, cproc, lock>>,
           \A d \in CPU : lock = d => intr'[d] = intr[d],
           \A q \in Slots : state[q] = "RUNNING" <=> state'[q] = "RUNNING",
           \A d \in CPU : exec[d] # Nil /\ lock = d
                             => state'[exec[d]] = state[exec[d]]
    PROVE  StackExclusive' /\ CprocAgrees'
<1>1. \A d \in CPU : exec[d] # Nil => exec[d] \in Slots
  BY DEF IInv, TypeOK
<1>2. StackExclusive'
  BY <1>1 DEF IInv, StackExclusive
<1>3. \A d \in CPU : exec[d] # Nil =>
        state'[exec[d]] \in {"RUNNABLE", "RUNNING", "SLEEPING", "ZOMBIE"}
  BY <1>1 DEF IInv, StackExclusive, CprocAgrees
<1>4. CprocAgrees'
  BY <1>3 DEF IInv, CprocAgrees
<1> QED BY <1>2, <1>4

(* Entering sched(): the process a CPU runs leaves RUNNING, and the CPU     *)
(* keeps the lock it has taken.                                             *)
LEMMA EnterSched ==
    ASSUME IInv, TypeOK', NEW c \in CPU, NEW p \in Slots,
           exec[c] = p, lock \in {NoCPU, c}, lock' = c, state[p] = "RUNNING",
           intr'[c] = "none", \A d \in CPU \ {c} : intr'[d] = intr[d],
           UNCHANGED <<exec, cproc>>,
           state'[p] \in {"RUNNABLE", "SLEEPING", "ZOMBIE"},
           \A q \in Slots \ {p} :
               state[q] = "RUNNING" <=> state'[q] = "RUNNING"
    PROVE  StackExclusive' /\ CprocAgrees'
<1>1. \A d \in CPU : exec[d] # Nil => exec[d] \in Slots
  BY DEF IInv, TypeOK
<1>2. \A d \in CPU \ {c} : lock # d /\ exec[d] # p
  BY NilNoSlot, ProcAssumption DEF IInv, StackExclusive
<1>3. \A d \in CPU \ {c} : exec[d] # Nil => state'[exec[d]] = "RUNNING"
  BY <1>1, <1>2 DEF IInv, StackExclusive
<1>4. StackExclusive'
  BY <1>1, <1>2, <1>3 DEF IInv, StackExclusive
<1>5. CprocAgrees'
  BY <1>1, <1>2, <1>3, NilNoSlot DEF IInv, CprocAgrees
<1> QED BY <1>4, <1>5

(* Steps that neither start a fork nor touch an embryo.                     *)
LEMMA SameEmbryos ==
    ASSUME IInv, UNCHANGED np,
           \A q \in Slots : Forking(q)' => Forking(q),
           \A q \in Slots : state[q] = "EMBRYO" => state'[q] = "EMBRYO"
    PROVE  EmbryoPrivate'
BY DEF IInv, TypeOK, EmbryoPrivate

(* One round of wait(), with the lock taken before or at entry.             *)
LEMMA RestWaitRound ==
    ASSUME IInv, TypeOK', NEW c \in CPU, NEW p \in Slots, WaitRound(c, p),
           exec[c] = p, state[p] = "RUNNING", lock \in {NoCPU, c},
           intr[c] = "none", UNCHANGED <<np, exec, cproc, intr>>
    PROVE  Rest'
<1>1. EmbryoPrivate'
  <2>1. \A q \in Slots : Forking(q)' => Forking(q)
    BY DEF IInv, TypeOK, WaitRound, Forking, Goto
  <2>2. \A q \in Slots : state[q] = "EMBRYO" => state'[q] = "EMBRYO"
    <3>1. CASE Zombies(p) # {}
      <4>1. Min(Zombies(p)) \in Zombies(p)
        <5>1. Zombies(p) \in SUBSET Nat
          BY DEF Zombies, Children, Slots
        <5> QED BY <3>1, <5>1, MinInSet
      <4> QED BY <3>1, <4>1 DEF WaitRound, Zombies, IInv, TypeOK
    <3>2. CASE Zombies(p) = {}
      BY <3>2 DEF WaitRound, IInv, TypeOK
    <3> QED BY <3>1, <3>2
  <2> QED BY <2>1, <2>2, SameEmbryos
<1>2. CASE Zombies(p) # {}
  <2>1. Min(Zombies(p)) \in Slots /\ state[Min(Zombies(p))] = "ZOMBIE"
    <3>1. Zombies(p) \in SUBSET Nat
      BY DEF Zombies, Children, Slots
    <3> QED BY <1>2, <3>1, MinInSet DEF Zombies, Children
  <2>2. lock' = NoCPU /\ state' = [state EXCEPT ![Min(Zombies(p))] = "UNUSED"]
    BY <1>2 DEF WaitRound
  <2>3. \A d \in CPU : exec[d] # Nil =>
          /\ exec[d] \in Slots
          /\ state[exec[d]] = "RUNNING" /\ state'[exec[d]] = "RUNNING"
    BY <2>1, <2>2, ProcAssumption DEF IInv, TypeOK, StackExclusive
  <2>4. StackExclusive'
    BY <2>1, <2>2, <2>3 DEF IInv, TypeOK, StackExclusive
  <2>5. CprocAgrees'
    BY <2>2, <2>3, NilNoSlot, ProcAssumption DEF IInv, CprocAgrees
  <2> QED BY <1>1, <2>4, <2>5 DEF Rest
<1>3. CASE Zombies(p) = {} /\ (Children(p) = {} \/ killed[p])
  <2>1. lock' = NoCPU /\ state' = state
    BY <1>3 DEF WaitRound
  <2>2. StackExclusive'
    BY <2>1, ProcAssumption DEF IInv, StackExclusive
  <2>3. CprocAgrees'
    BY <2>1, NilNoSlot, ProcAssumption DEF IInv, CprocAgrees
  <2> QED BY <1>1, <2>2, <2>3 DEF Rest
<1>4. CASE Zombies(p) = {} /\ Children(p) # {} /\ ~killed[p]
  <2>1. lock' = c /\ state' = [state EXCEPT ![p] = "SLEEPING"]
    BY <1>4 DEF WaitRound, IntoSched
  <2>2. StackExclusive' /\ CprocAgrees'
    BY <2>1, EnterSched DEF IInv, TypeOK
  <2> QED BY <1>1, <2>2 DEF Rest
<1> QED BY <1>2, <1>3, <1>4

(* allocproc(), whatever interrupts another CPU takes meanwhile.            *)
LEMMA RestAlloc ==
    ASSUME IInv, TypeOK', NEW c \in CPU, NEW p \in Slots, AllocProc(c, p)
    PROVE  Rest'
<1>1. lock = NoCPU /\ lock' = NoCPU /\ UNCHANGED <<exec, cproc>>
      /\ \A d \in CPU : lock # d
  BY ProcAssumption DEF AllocProc
<1>2. CASE Unused = {}
  <2>1. Goto(p, "sysret") /\ UNCHANGED <<state, np>>
    BY <1>2 DEF AllocProc
  <2> QED BY <1>1, <2>1, QuietThread DEF Labels
<1>3. CASE Unused # {}
  <2> DEFINE q == Min(Unused)
  <2>1. q \in Slots /\ state[q] = "UNUSED"
    <3>1. Unused \in SUBSET Nat
      BY DEF Unused, Slots
    <3> QED BY <1>3, <3>1, MinInSet DEF Unused
  <2>2. /\ state' = [state EXCEPT ![q] = "EMBRYO"]
        /\ np' = [np EXCEPT ![p] = q]
        /\ pc' = [pc EXCEPT ![p] = "fork_kstack"]
    BY <1>3 DEF AllocProc, Goto
  <2> HIDE DEF q
  <2>3. StackExclusive' /\ CprocAgrees'
    BY <1>1, <2>1, <2>2, SameRunning DEF IInv, TypeOK
  <2>4. \A r \in Slots \ {p} : Forking(r)' =>
           Forking(r) /\ np'[r] = np[r] /\ np[r] # q
    BY <2>1, <2>2 DEF IInv, TypeOK, EmbryoPrivate, Forking
  <2>5. np'[p] = q /\ state'[q] = "EMBRYO" /\ q # Nil
    BY <2>1, <2>2, NilNoSlot DEF IInv, TypeOK
  <2>6. EmbryoPrivate'
    BY <2>2, <2>4, <2>5 DEF IInv, TypeOK, EmbryoPrivate
  <2> QED BY <2>3, <2>6 DEF Rest
<1> QED BY <1>2, <1>3

LEMMA RestThread ==
    ASSUME IInv, TypeOK', NEW c \in CPU, NEW p \in Slots, ThreadStep(c, p)
    PROVE  Rest'
<1> DEFINE Plain == Labels \ {"fork_kstack", "fork_copy", "fork_run"}
<1>1. CASE SyscallEnter(c, p)
  <2>1. (IF killed[p] THEN "exit" ELSE "sys") \in Plain
    BY DEF Labels
  <2> QED BY <1>1, <2>1, QuietThread DEF SyscallEnter, slotVars, cpuVars
<1>2. CASE SyscallReturn(c, p)
  <2>1. (IF killed[p] THEN "exit" ELSE "user") \in Plain
    BY DEF Labels
  <2> QED BY <1>2, <2>1, QuietThread DEF SyscallReturn, slotVars, cpuVars
<1>3. CASE SyscallOther(c, p)
  BY <1>3, QuietThread DEF SyscallOther, Labels, slotVars, cpuVars
<1>4. CASE Fault(c, p)
  BY <1>4, QuietThread DEF Fault, Labels, slotVars, cpuVars
<1>5. CASE TrapReturn(c, p)
  <2>1. (IF killed[p] THEN "exit" ELSE "user") \in Plain
    BY DEF Labels
  <2> QED BY <1>5, <2>1, QuietThread DEF TrapReturn, slotVars, cpuVars
<1>6. CASE SysExit(c, p)
  BY <1>6, QuietThread DEF SysExit, Labels, slotVars, cpuVars
<1>7. CASE ExitStart(c, p)
  <2>1. (IF p = InitProc THEN "panic" ELSE "exiting") \in Plain
    BY DEF Labels
  <2> QED BY <1>7, <2>1, QuietThread DEF ExitStart, slotVars, cpuVars
<1>8. CASE SleepReacquire(c, p)
  BY <1>8, QuietThread DEF SleepReacquire, Labels, slotVars, cpuVars
<1>9. CASE SetPriority(c, p)
  BY <1>9, QuietThread DEF SetPriority, Labels, slotVars, cpuVars
<1>10. CASE SleepCheck(c, p)
  <2>1. \E l \in Plain : Goto(p, l)
    BY <1>10 DEF SleepCheck, Labels
  <2> QED BY <1>10, <2>1, QuietThread DEF SleepCheck, slotVars
<1>11. CASE ForkAlloc(c, p)
  BY <1>11, RestAlloc DEF ForkAlloc
<1>12. ASSUME Forking(p), NEW l, InThread(c, p, l)
       PROVE  /\ np[p] \in Slots /\ state[np[p]] = "EMBRYO" /\ np[p] # p
              /\ state[p] = "RUNNING"
              /\ \A d \in CPU : exec[d] # np[p]
  <2>1. state[p] = "RUNNING"
    BY <1>12, InThreadRuns
  <2>2. np[p] \in Slots /\ state[np[p]] = "EMBRYO"
    BY <1>12 DEF IInv, TypeOK, EmbryoPrivate
  <2>3. \A d \in CPU : exec[d] # np[p]
    BY <2>2, NilNoSlot DEF IInv, CprocAgrees
  <2> QED BY <2>1, <2>2, <2>3
(* Leaving fork(), with the child runnable or its slot freed.               *)
<1>13. ASSUME Forking(p), NEW l, InThread(c, p, l),
              NEW s \in {"UNUSED", "RUNNABLE"},
              state' = [state EXCEPT ![np[p]] = s],
              np' = [np EXCEPT ![p] = Nil],
              pc'[p] = "sysret",
              \A r \in Slots \ {p} : Forking(r)' => Forking(r),
              UNCHANGED <<exec, cproc, intr, lock>>
       PROVE  Rest'
  <2>1. StackExclusive' /\ CprocAgrees'
    BY <1>12, <1>13, SameRunning DEF IInv, TypeOK
  <2>2. \A r \in Slots : Forking(r)' =>
           r # p /\ Forking(r) /\ np'[r] = np[r] /\ np[r] # np[p]
    BY <1>13 DEF IInv, TypeOK, EmbryoPrivate, Forking
  <2>3. EmbryoPrivate'
    BY <1>12, <1>13, <2>2 DEF IInv, TypeOK, EmbryoPrivate
  <2> QED BY <2>1, <2>3 DEF Rest
<1>14. CASE ForkKstack(c, p)
  <2>1. Forking(p) /\ InThread(c, p, "fork_kstack")
    BY <1>14 DEF ForkKstack, InThread, Forking
  <2>2. CASE pc' = [pc EXCEPT ![p] = "fork_copy", ![np[p]] = "forkret"]
             /\ UNCHANGED <<state, np>>
    <3>1. \A r \in Slots : Forking(r)' => Forking(r)
      BY <2>1, <2>2, <1>12 DEF IInv, TypeOK, Forking
    <3> QED
      BY <1>14, <2>2, <3>1, SameRunning, SameEmbryos
      DEF ForkKstack, cpuVars, Rest
  <2>3. CASE state' = [state EXCEPT ![np[p]] = "UNUSED"]
             /\ np' = [np EXCEPT ![p] = Nil] /\ Goto(p, "sysret")
    <3>1. pc'[p] = "sysret"
          /\ \A r \in Slots \ {p} : Forking(r)' => Forking(r)
      BY <2>3 DEF Goto, IInv, TypeOK, Forking
    <3> QED BY <1>14, <2>1, <2>3, <3>1, <1>13 DEF ForkKstack, cpuVars
  <2> QED BY <1>14, <2>2, <2>3 DEF ForkKstack
<1>15. CASE ForkCopy(c, p)
  <2>1. Forking(p) /\ InThread(c, p, "fork_copy")
    BY <1>15 DEF ForkCopy, InThread, Forking
  <2>2. CASE Goto(p, "fork_run") /\ UNCHANGED <<state, np>>
    <3>1. \A r \in Slots : Forking(r)' => Forking(r)
      BY <2>1, <2>2 DEF Goto, IInv, TypeOK, Forking
    <3> QED
      BY <1>15, <2>2, <3>1, SameRunning, SameEmbryos
      DEF ForkCopy, cpuVars, Rest
  <2>3. CASE /\ state' = [state EXCEPT ![np[p]] = "UNUSED"]
             /\ np' = [np EXCEPT ![p] = Nil]
             /\ pc' = [pc EXCEPT ![p] = "sysret", ![np[p]] = "none"]
    <3>1. pc'[p] = "sysret"
          /\ \A r \in Slots \ {p} : Forking(r)' => Forking(r)
      BY <2>1, <2>3, <1>12 DEF IInv, TypeOK, Forking
    <3> QED BY <1>15, <2>1, <2>3, <3>1, <1>13 DEF ForkCopy, cpuVars
  <2> QED BY <1>15, <2>2, <2>3 DEF ForkCopy
<1>16. CASE ForkRun(c, p)
  <2>1. Forking(p) /\ InThread(c, p, "fork_run")
    BY <1>16 DEF ForkRun, InThread, Forking
  <2>2. pc'[p] = "sysret"
        /\ \A r \in Slots \ {p} : Forking(r)' => Forking(r)
    BY <1>16 DEF ForkRun, Goto, IInv, TypeOK, Forking
  <2> QED BY <1>16, <2>1, <2>2, <1>13 DEF ForkRun, cpuVars
<1>17. CASE ExitZombie(c, p)
  <2>1. exec[c] = p /\ state[p] = "RUNNING" /\ intr[c] = "none"
    BY <1>17, InThreadRuns DEF ExitZombie
  <2>2. \A q \in Slots \ {p} :
          /\ state[q] = "RUNNING" <=> state'[q] = "RUNNING"
          /\ state[q] = "EMBRYO" => state'[q] = "EMBRYO"
    BY <1>17 DEF ExitZombie, Wakeup1, IInv, TypeOK
  <2>3. state'[p] = "ZOMBIE"
    BY <1>17 DEF ExitZombie, Wakeup1
  <2>4. StackExclusive' /\ CprocAgrees'
    BY <1>17, <2>1, <2>2, <2>3, EnterSched DEF ExitZombie, IntoSched
  <2>5. \A q \in Slots : Forking(q)' => Forking(q)
    BY <1>17 DEF ExitZombie, Goto, IInv, TypeOK, Forking
  <2>6. EmbryoPrivate'
    BY <1>17, <2>1, <2>2, <2>5, SameEmbryos DEF ExitZombie
  <2> QED BY <2>4, <2>6 DEF Rest
<1>18. CASE WaitCall(c, p)
  BY <1>18, InThreadRuns, RestWaitRound DEF WaitCall
<1>19. CASE Sleep(c, p)
  <2>1. state[p] = "RUNNING"
    BY <1>19, FreeLock, NilNoSlot DEF Sleep
  <2>2. state' = [state EXCEPT ![p] = "SLEEPING"]
    BY <1>19 DEF Sleep
  <2>3. StackExclusive' /\ CprocAgrees'
    BY <1>19, <2>1, <2>2, EnterSched DEF Sleep, IntoSched, IInv, TypeOK
  <2>4. \A q \in Slots : Forking(q)' => Forking(q)
    BY <1>19 DEF Sleep, Goto, IInv, TypeOK, Forking
  <2>5. EmbryoPrivate'
    BY <1>19, <2>1, <2>2, <2>4, SameEmbryos DEF Sleep, IInv, TypeOK
  <2> QED BY <2>3, <2>5 DEF Rest
<1>20. CASE Kill(c, p)
  <2>1. \A q \in Slots :
          /\ state[q] = "RUNNING" <=> state'[q] = "RUNNING"
          /\ state[q] = "EMBRYO" => state'[q] = "EMBRYO"
    BY <1>20 DEF Kill, KillWakes, IInv, TypeOK
  <2>2. \A d \in CPU : lock # d
    BY <1>20, ProcAssumption DEF Kill
  <2>3. StackExclusive' /\ CprocAgrees'
    BY <1>20, <2>1, <2>2, SameRunning DEF Kill, cpuVars
  <2>4. \A q \in Slots : Forking(q)' => Forking(q)
    BY <1>20 DEF Kill, Goto, IInv, TypeOK, Forking
  <2>5. EmbryoPrivate'
    BY <1>20, <2>1, <2>4, SameEmbryos DEF Kill
  <2> QED BY <2>3, <2>5 DEF Rest
<1>21. CASE DeviceTrap(c, p)
  BY <1>21, QuietThread DEF DeviceTrap, Labels, slotVars, cpuVars
<1> QED
  BY <1>1, <1>2, <1>3, <1>4, <1>5, <1>6, <1>7, <1>8, <1>9, <1>10, <1>11,
     <1>14, <1>15, <1>16, <1>17, <1>18, <1>19, <1>20, <1>21 DEF ThreadStep

LEMMA RestResume ==
    ASSUME IInv, TypeOK', NEW c \in CPU, NEW p \in Slots, Resume(c, p)
    PROVE  Rest'
<1>1. intr[c] = "none"
  <2>1. lock = c
    BY DEF Resume, WaitResume, ThreadResume
  <2> QED BY <2>1 DEF IInv, CprocAgrees
<1>2. CASE WaitResume(c, p)
  BY <1>1, <1>2, RestWaitRound DEF WaitResume
<1>3. CASE ThreadResume(c, p)
  <2>1. StackExclusive'
    BY <1>3, ProcAssumption DEF ThreadResume, IInv, StackExclusive
  <2>2. CprocAgrees'
    BY <1>3, NilNoSlot, ProcAssumption DEF ThreadResume, IInv, CprocAgrees
  <2>3. \A q \in Slots : Forking(q)' => Forking(q)
    BY <1>3 DEF ThreadResume, Goto, IInv, TypeOK, Forking
  <2>4. EmbryoPrivate'
    BY <1>3, <2>3, SameEmbryos DEF ThreadResume
  <2> QED BY <2>1, <2>2, <2>4 DEF Rest
<1> QED BY <1>2, <1>3 DEF Resume

(* The scheduler takes over from a process, or hands the CPU to one,        *)
(* whatever interrupts another CPU takes meanwhile.                         *)
LEMMA RestSwtchBack ==
    ASSUME IInv, TypeOK', NEW c \in CPU, SwtchBack(c)
    PROVE  Rest'
<1>1. StackExclusive'
  BY ProcAssumption DEF SwtchBack, slotVars, IInv, StackExclusive
<1>2. CprocAgrees'
  BY ProcAssumption DEF SwtchBack, slotVars, IInv, CprocAgrees, TypeOK
<1>3. EmbryoPrivate'
  BY DEF SwtchBack, slotVars, threadVars, IInv, EmbryoPrivate, Forking
<1> QED BY <1>1, <1>2, <1>3 DEF Rest

LEMMA RestDispatch ==
    ASSUME IInv, TypeOK', NEW c \in CPU, Dispatch(c), intr'[c] = "none"
    PROVE  Rest'
<1> DEFINE p == Chosen
<1>1. p \in Slots /\ state[p] = "RUNNABLE"
  BY ChosenRunnable DEF Dispatch, Runnable, IInv
<1>2. /\ lock = NoCPU /\ lock' = c /\ exec[c] = Nil
      /\ cproc' = [cproc EXCEPT ![c] = p]
      /\ state' = [state EXCEPT ![p] = "RUNNING"]
      /\ exec' = [exec EXCEPT ![c] = p]
      /\ UNCHANGED threadVars
  BY DEF Dispatch
<1> HIDE DEF p
<1>3. \A d \in CPU : exec[d] # p
  BY <1>1, <1>2, FreeLock, NilNoSlot
<1>4. \A d \in CPU \ {c} :
        /\ exec'[d] = exec[d] /\ cproc'[d] = cproc[d] /\ lock # d
        /\ exec[d] # Nil => state[exec[d]] = "RUNNING"
                             /\ state'[exec[d]] = "RUNNING"
  BY <1>1, <1>2, <1>3, FreeLock, ProcAssumption DEF IInv, TypeOK
<1>5. exec'[c] = p /\ cproc'[c] = p /\ state'[p] = "RUNNING"
  BY <1>1, <1>2 DEF IInv, TypeOK
<1>6. StackExclusive'
  <2>1. \A q \in Slots : state'[q] = "RUNNING" => \E d \in CPU : exec'[d] = q
    <3> SUFFICES ASSUME NEW q \in Slots, state'[q] = "RUNNING", q # p
                 PROVE  \E d \in CPU : exec'[d] = q
      BY <1>5
    <3>1. state[q] = "RUNNING"
      BY <1>2 DEF IInv, TypeOK
    <3>2. PICK d \in CPU : exec[d] = q
      BY <3>1 DEF IInv, StackExclusive
    <3>3. d # c
      BY <3>2, <1>2, NilNoSlot
    <3> QED BY <3>2, <3>3, <1>4
  <2> QED BY <1>2, <1>3, <1>4, <1>5, <2>1 DEF IInv, StackExclusive
<1>7. CprocAgrees'
  BY <1>1, <1>2, <1>4, <1>5, NilNoSlot DEF IInv, CprocAgrees
<1>8. EmbryoPrivate'
  BY <1>1, <1>2, SameEmbryos DEF IInv, TypeOK, Forking, threadVars
<1> QED BY <1>6, <1>7, <1>8 DEF Rest

LEMMA RestCpu ==
    ASSUME IInv, TypeOK', NEW c \in CPU, CpuStep(c)
    PROVE  Rest'
(* An interrupt is taken only outside critical sections.                    *)
<1>1. ASSUME lock # c \/ intr'[c] = "none",
             \A d \in CPU \ {c} : intr'[d] = intr[d],
             UNCHANGED <<state, threadVars, exec, cproc, lock>>
      PROVE  Rest'
  <2>1. StackExclusive' /\ EmbryoPrivate'
    BY <1>1 DEF IInv, StackExclusive, EmbryoPrivate, Forking, threadVars
  <2>2. CprocAgrees'
    BY <1>1 DEF IInv, CprocAgrees
  <2> QED BY <2>1, <2>2 DEF Rest
<1>2. CASE TimerTick(c)
  BY <1>1, <1>2 DEF TimerTick, CountTick, Interruptible, slotVars, IInv, TypeOK
<1>3. CASE TimerOther(c)
  BY <1>1, <1>3 DEF TimerOther, Interruptible, slotVars, IInv, TypeOK
<1>4. CASE TimerCount(c)
  BY <1>1, <1>4 DEF TimerCount, CountRun, slotVars, IInv, TypeOK, CprocAgrees
<1>5. CASE TimerWakeup(c)
  <2>1. \A q \in Slots :
          /\ state[q] = "RUNNING" <=> state'[q] = "RUNNING"
          /\ state[q] = "EMBRYO" => state'[q] = "EMBRYO"
    BY <1>5 DEF TimerWakeup, Wakeup1, IInv, TypeOK
  <2>2. \A d \in CPU : exec[d] # Nil =>
          exec[d] \in Slots /\ state'[exec[d]] = "RUNNING"
    BY <1>5, <2>1, FreeLock DEF TimerWakeup, IInv, TypeOK
  <2>3. lock' = lock /\ \A d \in CPU : lock # d
    BY <1>5, ProcAssumption DEF TimerWakeup
  <2>4. StackExclusive'
    BY <1>5, <2>1, <2>2 DEF TimerWakeup, IInv, StackExclusive
  <2>5. CprocAgrees'
    BY <1>5, <2>2, <2>3 DEF TimerWakeup, IInv, CprocAgrees
  <2>6. EmbryoPrivate'
    BY <1>5, <2>1, SameEmbryos DEF TimerWakeup, threadVars, Forking
  <2> QED BY <2>4, <2>5, <2>6 DEF Rest
<1>6. CASE TimerDone(c)
  <2> DEFINE p == cproc[c]
  <2>1. CASE UNCHANGED <<state, lock>>
    <3>1. \A d \in CPU : intr'[d] # "none" => intr[d] # "none"
      BY <1>6 DEF TimerDone, IInv, TypeOK
    <3>2. StackExclusive'
      BY <1>6, <2>1 DEF TimerDone, IInv, StackExclusive
    <3>3. CprocAgrees'
      BY <1>6, <2>1, <3>1 DEF TimerDone, IInv, CprocAgrees
    <3>4. \A q \in Slots : Forking(q)' => Forking(q)
      BY <1>6 DEF TimerDone, Goto, IInv, TypeOK, Forking
    <3>5. EmbryoPrivate'
      BY <1>6, <2>1, <3>4, SameEmbryos DEF TimerDone
    <3> QED BY <3>2, <3>3, <3>5 DEF Rest
  <2>2. CASE /\ p # Nil /\ lock = NoCPU /\ lock' = c
             /\ state' = [state EXCEPT ![p] = "RUNNABLE"]
             /\ UNCHANGED pc
    <3>1. p \in Slots /\ exec[c] = p /\ state[p] = "RUNNING"
      BY <2>2, FreeLock DEF IInv, TypeOK
    <3>2. /\ intr'[c] = "none" /\ \A d \in CPU \ {c} : intr'[d] = intr[d]
          /\ UNCHANGED <<exec, cproc, np>>
      BY <1>6 DEF TimerDone, IInv, TypeOK
    <3> HIDE DEF p
    <3>3. StackExclusive' /\ CprocAgrees'
      BY <2>2, <3>1, <3>2, EnterSched DEF IInv, TypeOK
    <3>4. EmbryoPrivate'
      BY <2>2, <3>1, <3>2, SameEmbryos DEF IInv, TypeOK, Forking
    <3> QED BY <3>3, <3>4 DEF Rest
  <2> QED BY <1>6, <2>1, <2>2 DEF TimerDone, IntoSched
<1>7. CASE Swtch(c)
  <2>1. \A d \in CPU : exec'[d] = IF d = c THEN Nil ELSE exec[d]
    BY <1>7 DEF Swtch, IInv, TypeOK
  <2>2. StackExclusive'
    BY <1>7, <2>1, NilNoSlot DEF Swtch, slotVars, IInv, StackExclusive
  <2>3. CprocAgrees'
    BY <1>7, <2>1 DEF Swtch, slotVars, IInv, CprocAgrees
  <2>4. EmbryoPrivate'
    BY <1>7 DEF Swtch, slotVars, threadVars, IInv, EmbryoPrivate, Forking
  <2> QED BY <2>2, <2>3, <2>4 DEF Rest
<1>8. CASE SchedulerResume(c)
  BY <1>8, RestSwtchBack DEF SchedulerResume
<1>9. CASE Scheduler(c)
  BY <1>9, RestDispatch DEF Scheduler, Dispatch
<1> QED
  BY <1>2, <1>3, <1>4, <1>5, <1>6, <1>7, <1>8, <1>9 DEF CpuStep

(* The inductive invariant: initially true and kept by every step.          *)
LEMMA IInvInit ==
    ASSUME Init
    PROVE  IInv
<1>1. TypeOK
  BY TypeInit
<1>2. \A p \in Slots : state[p] # "RUNNING" /\ ~Forking(p)
  BY DEF Init, Forking
<1>3. StackExclusive /\ CprocAgrees
  BY <1>2 DEF Init, StackExclusive, CprocAgrees
<1> QED BY <1>1, <1>2, <1>3 DEF IInv, EmbryoPrivate

LEMMA IInvNext ==
    ASSUME IInv, [Next]_vars
    PROVE  IInv'
<1>1. TypeOK'
  BY TypeNext DEF IInv
<1>2. CASE Next
  <2>1. Rest'
    BY <1>1, <1>2, RestThread, RestResume, RestCpu DEF Next
  <2> QED BY <1>1, <2>1 DEF Rest, IInv
<1>3. CASE UNCHANGED vars
  BY <1>1, <1>3 DEF vars, slotVars, threadVars, cpuVars, IInv, StackExclusive,
                    CprocAgrees, EmbryoPrivate, Forking
<1> QED BY <1>2, <1>3

(* The inductive invariant holds in every reachable state.                  *)
THEOREM IInvCorrect == Spec => []IInv
BY IInvInit, IInvNext, PTL DEF Spec

(* Two CPUs never execute on the kernel stack of one process: handing       *)
(* ptable.lock over across swtch suffices, for every number of slots and    *)
(* CPUs, although yield, sleep and exit announce the new state of a process *)
(* while they still run on its stack.                                       *)
THEOREM OneCpuPerStack == Spec => []StackExclusive
<1>1. IInv => StackExclusive
  BY DEF IInv
<1> QED BY <1>1, IInvCorrect, PTL

(* c->proc, which myproc() reads, names the process whose stack the CPU is  *)
(* on until the scheduler has taken over, and no interrupt handler runs     *)
(* while its CPU is in a critical section of ptable.lock.                   *)
THEOREM MyprocAgrees == Spec => []CprocAgrees
<1>1. IInv => CprocAgrees
  BY DEF IInv
<1> QED BY <1>1, IInvCorrect, PTL

(* fork() may write np->state without ptable.lock: the slot it fills stays  *)
(* an EMBRYO that no other fork, wait, kill or exit takes or changes.       *)
THEOREM ForkOwnsEmbryo == Spec => []EmbryoPrivate
<1>1. IInv => EmbryoPrivate
  BY DEF IInv
<1> QED BY <1>1, IInvCorrect, PTL

(***************************************************************************)
(* Parents, children and what a process owns.                              *)
(***************************************************************************)
Alive == {"RUNNABLE", "RUNNING", "SLEEPING"}
Used == Alive \cup {"ZOMBIE"}

(* A process keeps its kernel stack and page directory until it is reaped,  *)
(* and whatever c->proc points to has not been.  fork() gets them one by    *)
(* one.                                                                     *)
Owned ==
    /\ \A p \in Slots : state[p] \in Used => kstack[p] /\ pgdir[p]
    /\ \A c \in CPU : cproc[c] # Nil => state[cproc[c]] \in Used
    /\ \A p \in Slots : /\ pc[p] \in {"fork_copy", "fork_run"} => kstack[np[p]]
                        /\ pc[p] = "fork_run" => pgdir[np[p]]

(* init is there for good, nobody is its own parent, and a slot being       *)
(* filled has its parent only once fork() can no longer fail.               *)
Parents ==
    /\ ParentAlive
    /\ state[InitProc] \in Alive /\ pc[InitProc] \notin {"exiting", "zombie"}
    /\ parent[InitProc] = Nil
    /\ \A p \in Slots : parent[p] # p
    /\ \A p \in Slots :
          /\ pc[p] \in {"fork_kstack", "fork_copy"} => parent[np[p]] = Nil
          /\ pc[p] = "fork_run" => parent[np[p]] = p

(* Whoever sleeps in wait() sleeps on its own slot and has what to wait for. *)
Waits(p) == state[p] = "SLEEPING" /\ pc[p] = "wait"
WaitersOK ==
    \A p \in Slots : Waits(p) =>
        /\ chan[p] = p /\ ~killed[p]
        /\ \E q \in Slots : parent[q] = p
        /\ \A q \in Slots : parent[q] = p => state[q] # "ZOMBIE"

FamilyInv == Owned /\ Parents /\ WaitersOK

ForkLabels == {"fork_kstack", "fork_copy", "fork_run"}

LEMMA InitSlot == InitProc \in Slots
BY ProcAssumption DEF InitProc, Slots

LEMMA FamilyInit == ASSUME Init PROVE FamilyInv
<1>1. \A p \in Slots : /\ state[p] = IF p = InitProc THEN "RUNNABLE" ELSE "UNUSED"
                       /\ pc[p] = IF p = InitProc THEN "forkret" ELSE "none"
                       /\ parent[p] = Nil
  BY DEF Init
<1>2. kstack[InitProc] /\ pgdir[InitProc] /\ \A c \in CPU : cproc[c] = Nil
  BY InitSlot, Zenon DEF Init
<1>3. Owned
  BY <1>1, <1>2 DEF Owned, Used, Alive
<1>4. Parents
  BY <1>1, InitSlot, NilNoSlot DEF Parents, ParentAlive, Alive
<1>5. WaitersOK
  BY <1>1 DEF WaitersOK, Waits
<1> QED
  BY <1>3, <1>4, <1>5 DEF FamilyInv

(* Steps that neither create nor reap a process and change no parent.       *)
LEMMA SameFamily ==
    ASSUME IInv, IInv', FamilyInv, UNCHANGED <<parent, kstack, pgdir>>,
           \A q \in Slots : \/ state'[q] = state[q]
                            \/ state[q] \in Alive /\ state'[q] \in Alive,
           \A q \in Slots : pc'[q] \in ForkLabels => pc'[q] = pc[q] /\ np'[q] = np[q],
           pc'[InitProc] \notin {"exiting", "zombie"},
           \A c \in CPU : cproc'[c] # Nil =>
               cproc'[c] = cproc[c] \/ state'[cproc'[c]] \in Used
    PROVE  Owned' /\ Parents'
<1>1. \A q \in Slots : /\ state'[q] \in Used <=> state[q] \in Used
                       /\ state'[q] \in Alive <=> state[q] \in Alive
                       /\ state'[q] = "ZOMBIE" <=> state[q] = "ZOMBIE"
                       /\ state'[q] = "UNUSED" <=> state[q] = "UNUSED"
  BY DEF Used, Alive
<1>2. TypeOK /\ TypeOK'
  BY DEF IInv
<1>3. Owned'
  <2>1. \A p \in Slots : state'[p] \in Used => kstack'[p] /\ pgdir'[p]
    BY <1>1 DEF FamilyInv, Owned
  <2>2. \A c \in CPU : cproc'[c] # Nil => state'[cproc'[c]] \in Used
    BY <1>1, <1>2 DEF FamilyInv, Owned, TypeOK
  <2>3. \A p \in Slots : /\ pc'[p] \in {"fork_copy", "fork_run"} => kstack'[np'[p]]
                         /\ pc'[p] = "fork_run" => pgdir'[np'[p]]
    BY DEF FamilyInv, Owned, ForkLabels
  <2> QED BY <2>1, <2>2, <2>3 DEF Owned
<1>4. Parents'
  <2>1. ParentAlive'
    <3>1. \A p \in Slots : parent[p] # Nil => parent[p] \in Slots
      BY <1>2 DEF TypeOK
    <3> QED BY <1>1, <3>1 DEF FamilyInv, Parents, ParentAlive, Used, Alive
  <2>2. \A p \in Slots :
          /\ pc'[p] \in {"fork_kstack", "fork_copy"} => parent'[np'[p]] = Nil
          /\ pc'[p] = "fork_run" => parent'[np'[p]] = p
    BY DEF FamilyInv, Parents, ForkLabels
  <2> QED BY <1>1, <2>1, <2>2, InitSlot DEF FamilyInv, Parents
<1> QED
  BY <1>3, <1>4

(* ... and put nobody to sleep in wait().                                   *)
LEMMA Kept ==
    ASSUME IInv, IInv', FamilyInv, UNCHANGED <<parent, kstack, pgdir>>,
           \A q \in Slots : \/ state'[q] = state[q]
                            \/ state[q] \in Alive /\ state'[q] \in Alive,
           \A q \in Slots : pc'[q] \in ForkLabels => pc'[q] = pc[q] /\ np'[q] = np[q],
           pc'[InitProc] \notin {"exiting", "zombie"},
           \A c \in CPU : cproc'[c] # Nil =>
               cproc'[c] = cproc[c] \/ state'[cproc'[c]] \in Used,
           \A q \in Slots : Waits(q)' =>
               Waits(q) /\ chan'[q] = chan[q] /\ killed'[q] = killed[q]
    PROVE  FamilyInv'
<1>1. \A q \in Slots : state'[q] = "ZOMBIE" <=> state[q] = "ZOMBIE"
  BY DEF Alive
<1>2. Owned' /\ Parents'
  BY SameFamily
<1>3. WaitersOK'
  <2> SUFFICES ASSUME NEW p \in Slots, Waits(p)'
               PROVE  /\ chan'[p] = p /\ ~killed'[p]
                      /\ \E q \in Slots : parent'[q] = p
                      /\ \A q \in Slots : parent'[q] = p => state'[q] # "ZOMBIE"
    BY DEF WaitersOK
  <2>1. Waits(p) /\ chan'[p] = chan[p] /\ killed'[p] = killed[p]
    OBVIOUS
  <2>2. chan[p] = p /\ ~killed[p]
    BY <2>1 DEF FamilyInv, WaitersOK
  <2>3. /\ \E q \in Slots : parent[q] = p
        /\ \A q \in Slots : parent[q] = p => state[q] # "ZOMBIE"
    BY <2>1 DEF FamilyInv, WaitersOK
  <2> QED BY <1>1, <2>1, <2>2, <2>3
<1> QED
  BY <1>2, <1>3 DEF FamilyInv

(* Steps that only move one thread, neither into fork nor into wait().      *)
LEMMA Moves ==
    ASSUME IInv, IInv', FamilyInv, NEW p \in Slots,
           NEW l \in Labels \ (ForkLabels \cup {"wait", "zombie"}), Goto(p, l),
           l = "exiting" => p # InitProc,
           UNCHANGED <<state, parent, kstack, pgdir, np, cproc>>,
           \A q \in Slots \ {p} : killed'[q] = killed[q] /\ chan'[q] = chan[q]
    PROVE  FamilyInv'
<1>1. pc'[p] = l /\ \A q \in Slots \ {p} : pc'[q] = pc[q]
  BY DEF IInv, TypeOK, Goto
<1>2. \A q \in Slots : pc'[q] \in ForkLabels => pc'[q] = pc[q] /\ np'[q] = np[q]
  BY <1>1
<1>3. pc'[InitProc] \notin {"exiting", "zombie"}
  BY <1>1, InitSlot DEF FamilyInv, Parents
<1>4. \A q \in Slots : Waits(q)' =>
               Waits(q) /\ chan'[q] = chan[q] /\ killed'[q] = killed[q]
  BY <1>1 DEF Waits
<1> QED
  BY <1>2, <1>3, <1>4, Kept

(* The slot that fork() fills belongs to nobody else.                       *)
LEMMA OfForker ==
    ASSUME IInv, FamilyInv, NEW c \in CPU, NEW p \in Slots, NEW l \in ForkLabels,
           InThread(c, p, l)
    PROVE  /\ pc[p] = l /\ state[p] = "RUNNING" /\ np[p] \in Slots
           /\ state[np[p]] = "EMBRYO" /\ np[p] # p /\ np[p] # InitProc
           /\ \A r \in Slots : pc[r] \in ForkLabels /\ r # p => np[r] # np[p]
           /\ \A d \in CPU : cproc[d] # np[p]
<1>1. pc[p] = l /\ state[p] = "RUNNING" /\ Forking(p)
  BY InThreadRuns DEF InThread, Forking, ForkLabels
<1>2. np[p] \in Slots /\ state[np[p]] = "EMBRYO"
  BY <1>1 DEF IInv, TypeOK, EmbryoPrivate
<1>3. \A r \in Slots : pc[r] \in ForkLabels /\ r # p => np[r] # np[p]
  BY <1>1 DEF IInv, EmbryoPrivate, Forking, ForkLabels
<1>4. \A d \in CPU : cproc[d] # np[p]
  BY <1>2, NilNoSlot DEF FamilyInv, Owned, Used, Alive
<1>5. np[p] # InitProc
  BY <1>2 DEF FamilyInv, Parents, Alive
<1> QED
  BY <1>1, <1>2, <1>3, <1>4, <1>5

LEMMA FamilyAlloc ==
    ASSUME IInv, IInv', FamilyInv, NEW c \in CPU, NEW p \in Slots, ForkAlloc(c, p)
    PROVE  FamilyInv'
<1>1. CASE Unused = {}
  <2>1. /\ Goto(p, "sysret")
        /\ UNCHANGED <<state, parent, chan, kstack, pgdir, np, cproc, killed>>
    BY <1>1 DEF ForkAlloc, AllocProc
  <2> QED BY <2>1, Moves DEF Labels, ForkLabels
<1>2. CASE Unused # {}
  <2>1. Min(Unused) \in Unused
    <3>1. Unused \in SUBSET Nat
      BY DEF Unused, Slots
    <3> QED BY <1>2, <3>1, MinInSet
  <2>2. PICK q \in Slots : q = Min(Unused) /\ state[q] = "UNUSED"
    BY <2>1 DEF Unused
  <2>3. /\ state' = [state EXCEPT ![q] = "EMBRYO"]
        /\ np' = [np EXCEPT ![p] = q] /\ Goto(p, "fork_kstack")
        /\ UNCHANGED <<parent, killed, chan, kstack, pgdir, cproc>>
    BY <1>2, <2>2 DEF ForkAlloc, AllocProc
  <2>4. TypeOK
    BY DEF IInv
  <2>5. /\ state'[q] = "EMBRYO" /\ \A s \in Slots \ {q} : state'[s] = state[s]
        /\ np'[p] = q /\ pc'[p] = "fork_kstack"
        /\ \A s \in Slots \ {p} : np'[s] = np[s] /\ pc'[s] = pc[s]
    BY <2>3, <2>4 DEF TypeOK, Goto
  <2>6. parent[q] = Nil /\ q # InitProc
    BY <2>2 DEF FamilyInv, Parents, ParentAlive, Alive
  <2>7. Owned'
    <3>1. \A s \in Slots : state'[s] \in Used => kstack'[s] /\ pgdir'[s]
      BY <2>3, <2>5 DEF FamilyInv, Owned, Used, Alive
    <3>2. \A d \in CPU : cproc'[d] # Nil => state'[cproc'[d]] \in Used
      BY <2>2, <2>3, <2>4, <2>5 DEF FamilyInv, Owned, Used, Alive, TypeOK
    <3>3. \A s \in Slots : /\ pc'[s] \in {"fork_copy", "fork_run"} => kstack'[np'[s]]
                           /\ pc'[s] = "fork_run" => pgdir'[np'[s]]
      BY <2>3, <2>5 DEF FamilyInv, Owned
    <3> QED BY <3>1, <3>2, <3>3 DEF Owned
  <2>8. Parents'
    <3>1. ParentAlive'
      BY <2>2, <2>3, <2>4, <2>5 DEF FamilyInv, Parents, ParentAlive, TypeOK
    <3>2. \A s \in Slots :
          /\ pc'[s] \in {"fork_kstack", "fork_copy"} => parent'[np'[s]] = Nil
          /\ pc'[s] = "fork_run" => parent'[np'[s]] = s
      BY <2>3, <2>5, <2>6 DEF FamilyInv, Parents
    <3>3. /\ state'[InitProc] \in Alive /\ pc'[InitProc] \notin {"exiting", "zombie"}
          /\ parent'[InitProc] = Nil /\ \A s \in Slots : parent'[s] # s
      BY <2>3, <2>5, <2>6, InitSlot DEF FamilyInv, Parents
    <3> QED BY <3>1, <3>2, <3>3 DEF Parents
  <2>9. WaitersOK'
    <3> SUFFICES ASSUME NEW s \in Slots, Waits(s)'
                 PROVE  /\ chan'[s] = s /\ ~killed'[s]
                        /\ \E t \in Slots : parent'[t] = s
                        /\ \A t \in Slots : parent'[t] = s => state'[t] # "ZOMBIE"
      BY DEF WaitersOK
    <3>1. Waits(s)
      BY <2>5 DEF Waits
    <3> QED BY <2>3, <2>5, <3>1 DEF FamilyInv, WaitersOK
  <2> QED BY <2>7, <2>8, <2>9 DEF FamilyInv
<1> QED
  BY <1>1, <1>2

(* The failure paths of fork() leave a free slot that is nobody's child.    *)
LEMMA FailedFork ==
    ASSUME IInv, FamilyInv, NEW p \in Slots, NEW q \in Slots,
           state[q] = "EMBRYO", p # q, q # InitProc, parent[q] = Nil,
           \A r \in Slots : pc[r] \in ForkLabels /\ r # p => np[r] # q,
           \A d \in CPU : cproc[d] # q,
           state' = [state EXCEPT ![q] = "UNUSED"], np' = [np EXCEPT ![p] = Nil],
           pc'[p] = "sysret", pc'[q] \in {pc[q], "none"},
           \A s \in Slots \ {p, q} : pc'[s] = pc[s],
           \A s \in Slots \ {q} : kstack'[s] = kstack[s],
           UNCHANGED <<parent, killed, chan, pgdir, cproc>>
    PROVE  FamilyInv'
<1>1. TypeOK
  BY DEF IInv
<1>2. /\ state'[q] = "UNUSED" /\ \A s \in Slots \ {q} : state'[s] = state[s]
      /\ \A s \in Slots \ {p} : np'[s] = np[s]
  BY <1>1 DEF TypeOK
<1>3. ASSUME NEW s \in Slots, pc'[s] \in ForkLabels
      PROVE  pc[s] = pc'[s] /\ np'[s] = np[s] /\ np[s] \in Slots /\ np[s] # q
  <2>1. s # p /\ pc[s] = pc'[s]
    BY <1>3 DEF ForkLabels
  <2> QED
    BY <1>2, <1>3, <2>1 DEF IInv, TypeOK, EmbryoPrivate, Forking, ForkLabels
<1>4. Owned'
  <2>1. \A s \in Slots : state'[s] \in Used => kstack'[s] /\ pgdir'[s]
    BY <1>2 DEF FamilyInv, Owned, Used, Alive
  <2>2. \A d \in CPU : cproc'[d] # Nil => state'[cproc'[d]] \in Used
    BY <1>1, <1>2 DEF FamilyInv, Owned, TypeOK
  <2>3. \A s \in Slots : /\ pc'[s] \in {"fork_copy", "fork_run"} => kstack'[np'[s]]
                         /\ pc'[s] = "fork_run" => pgdir'[np'[s]]
    BY <1>3 DEF FamilyInv, Owned, ForkLabels
  <2> QED BY <2>1, <2>2, <2>3 DEF Owned
<1>5. Parents'
  <2>1. ParentAlive'
    BY <1>1, <1>2, NilNoSlot DEF FamilyInv, Parents, ParentAlive, TypeOK
  <2>2. \A s \in Slots :
        /\ pc'[s] \in {"fork_kstack", "fork_copy"} => parent'[np'[s]] = Nil
        /\ pc'[s] = "fork_run" => parent'[np'[s]] = s
    BY <1>3 DEF FamilyInv, Parents, ForkLabels
  <2>3. /\ state'[InitProc] \in Alive /\ pc'[InitProc] \notin {"exiting", "zombie"}
        /\ parent'[InitProc] = Nil /\ \A s \in Slots : parent'[s] # s
    BY <1>2, InitSlot DEF FamilyInv, Parents
  <2> QED BY <2>1, <2>2, <2>3 DEF Parents
<1>6. WaitersOK'
  <2> SUFFICES ASSUME NEW s \in Slots, Waits(s)'
               PROVE  /\ chan'[s] = s /\ ~killed'[s]
                      /\ \E t \in Slots : parent'[t] = s
                      /\ \A t \in Slots : parent'[t] = s => state'[t] # "ZOMBIE"
    BY DEF WaitersOK
  <2>1. Waits(s)
    BY <1>2 DEF Waits
  <2> QED BY <1>2, <2>1 DEF FamilyInv, WaitersOK
<1> QED BY <1>4, <1>5, <1>6 DEF FamilyInv

LEMMA FamilyKstack ==
    ASSUME IInv, IInv', FamilyInv, NEW c \in CPU, NEW p \in Slots, ForkKstack(c, p)
    PROVE  FamilyInv'
<1>1. /\ pc[p] = "fork_kstack" /\ state[p] = "RUNNING" /\ np[p] \in Slots
      /\ state[np[p]] = "EMBRYO" /\ np[p] # p /\ np[p] # InitProc
      /\ \A r \in Slots : pc[r] \in ForkLabels /\ r # p => np[r] # np[p]
      /\ \A d \in CPU : cproc[d] # np[p]
  BY OfForker DEF ForkKstack, ForkLabels
<1>2. PICK q \in Slots : q = np[p]
  BY <1>1
<1>3. UNCHANGED <<parent, killed, chan, pgdir, cproc>>
  BY DEF ForkKstack, cpuVars
<1>4. TypeOK /\ parent[q] = Nil
  BY <1>1, <1>2 DEF IInv, FamilyInv, Parents
<1>5. CASE /\ kstack' = [kstack EXCEPT ![q] = TRUE]
           /\ pc' = [pc EXCEPT ![p] = "fork_copy", ![q] = "forkret"]
           /\ UNCHANGED <<state, np>>
  <2>1. /\ pc'[p] = "fork_copy" /\ pc'[q] = "forkret"
        /\ \A s \in Slots \ {p, q} : pc'[s] = pc[s]
    BY <1>1, <1>2, <1>4, <1>5 DEF TypeOK
  <2>2. kstack'[q] /\ \A s \in Slots \ {q} : kstack'[s] = kstack[s]
    BY <1>4, <1>5 DEF TypeOK
  <2>3. Owned'
    <3>1. \A s \in Slots : state'[s] \in Used => kstack'[s] /\ pgdir'[s]
      BY <1>1, <1>2, <1>3, <1>5, <2>2 DEF FamilyInv, Owned
    <3>2. \A d \in CPU : cproc'[d] # Nil => state'[cproc'[d]] \in Used
      BY <1>3, <1>5 DEF FamilyInv, Owned
    <3>3. \A s \in Slots : /\ pc'[s] \in {"fork_copy", "fork_run"} => kstack'[np'[s]]
                           /\ pc'[s] = "fork_run" => pgdir'[np'[s]]
      <4> SUFFICES ASSUME NEW s \in Slots, pc'[s] \in {"fork_copy", "fork_run"}
                   PROVE  kstack'[np'[s]] /\ (pc'[s] = "fork_run" => pgdir'[np'[s]])
        OBVIOUS
      <4>1. CASE s = p
        BY <1>2, <1>5, <2>1, <2>2, <4>1
      <4>2. CASE s # p
        <5>1. s # q /\ pc[s] = pc'[s] /\ np'[s] = np[s]
          BY <1>5, <2>1, <4>2
        <5>2. kstack[np[s]] /\ (pc[s] = "fork_run" => pgdir[np[s]])
          BY <5>1 DEF FamilyInv, Owned
        <5>3. np[s] \in Slots /\ np[s] # q
          BY <1>1, <1>2, <5>1, <4>2 DEF IInv, TypeOK, EmbryoPrivate, Forking, ForkLabels
        <5> QED BY <1>3, <2>2, <5>1, <5>2, <5>3
      <4> QED BY <4>1, <4>2
    <3> QED BY <3>1, <3>2, <3>3 DEF Owned
  <2>4. Parents'
    <3>1. ParentAlive'
      BY <1>3, <1>5 DEF FamilyInv, Parents, ParentAlive
    <3>2. \A s \in Slots :
          /\ pc'[s] \in {"fork_kstack", "fork_copy"} => parent'[np'[s]] = Nil
          /\ pc'[s] = "fork_run" => parent'[np'[s]] = s
      BY <1>2, <1>3, <1>4, <1>5, <2>1 DEF FamilyInv, Parents
    <3>3. /\ state'[InitProc] \in Alive /\ pc'[InitProc] \notin {"exiting", "zombie"}
          /\ parent'[InitProc] = Nil /\ \A s \in Slots : parent'[s] # s
      BY <1>1, <1>2, <1>3, <1>5, <2>1, InitSlot DEF FamilyInv, Parents
    <3> QED BY <3>1, <3>2, <3>3 DEF Parents
  <2>5. WaitersOK'
    <3> SUFFICES ASSUME NEW s \in Slots, Waits(s)'
                 PROVE  /\ chan'[s] = s /\ ~killed'[s]
                        /\ \E t \in Slots : parent'[t] = s
                        /\ \A t \in Slots : parent'[t] = s => state'[t] # "ZOMBIE"
      BY DEF WaitersOK
    <3>1. Waits(s)
      BY <1>5, <2>1 DEF Waits
    <3> QED BY <1>3, <1>5, <3>1 DEF FamilyInv, WaitersOK
  <2> QED BY <2>3, <2>4, <2>5 DEF FamilyInv
<1>6. CASE /\ state' = [state EXCEPT ![q] = "UNUSED"] /\ np' = [np EXCEPT ![p] = Nil]
           /\ Goto(p, "sysret") /\ UNCHANGED kstack
  <2>1. pc'[p] = "sysret" /\ \A s \in Slots \ {p} : pc'[s] = pc[s]
    BY <1>4, <1>6 DEF TypeOK, Goto
  <2>2. /\ state[q] = "EMBRYO" /\ p # q /\ q # InitProc /\ parent[q] = Nil
        /\ \A r \in Slots : pc[r] \in ForkLabels /\ r # p => np[r] # q
        /\ \A d \in CPU : cproc[d] # q
        /\ pc'[q] \in {pc[q], "none"}
    BY <1>1, <1>2, <1>4, <2>1
  <2>3. /\ \A s \in Slots \ {q} : kstack'[s] = kstack[s]
        /\ \A s \in Slots \ {p, q} : pc'[s] = pc[s]
    BY <1>6, <2>1
  <2> QED
    BY <1>3, <1>6, <2>1, <2>2, <2>3, FailedFork
<1> QED
  BY <1>2, <1>5, <1>6 DEF ForkKstack

LEMMA FamilyCopy ==
    ASSUME IInv, IInv', FamilyInv, NEW c \in CPU, NEW p \in Slots, ForkCopy(c, p)
    PROVE  FamilyInv'
<1>1. /\ pc[p] = "fork_copy" /\ state[p] = "RUNNING" /\ np[p] \in Slots
      /\ state[np[p]] = "EMBRYO" /\ np[p] # p /\ np[p] # InitProc
      /\ \A r \in Slots : pc[r] \in ForkLabels /\ r # p => np[r] # np[p]
      /\ \A d \in CPU : cproc[d] # np[p]
  BY OfForker DEF ForkCopy, ForkLabels
<1>2. PICK q \in Slots : q = np[p]
  BY <1>1
<1>3. UNCHANGED <<killed, chan, cproc>>
  BY DEF ForkCopy, cpuVars
<1>4. TypeOK /\ parent[q] = Nil /\ kstack[q]
  BY <1>1, <1>2 DEF IInv, FamilyInv, Parents, Owned
<1>5. CASE /\ pgdir' = [pgdir EXCEPT ![q] = TRUE]
           /\ parent' = [parent EXCEPT ![q] = p]
           /\ Goto(p, "fork_run")
           /\ UNCHANGED <<state, kstack, np>>
  <2>1. pc'[p] = "fork_run" /\ \A s \in Slots \ {p} : pc'[s] = pc[s]
    BY <1>4, <1>5 DEF TypeOK, Goto
  <2>2. pgdir'[q] /\ \A s \in Slots \ {q} : pgdir'[s] = pgdir[s]
    BY <1>4, <1>5 DEF TypeOK
  <2>3. parent'[q] = p /\ \A s \in Slots \ {q} : parent'[s] = parent[s]
    BY <1>4, <1>5 DEF TypeOK
  <2>4. ASSUME NEW s \in Slots, pc'[s] \in ForkLabels, s # p
        PROVE  pc[s] = pc'[s] /\ np'[s] = np[s] /\ np[s] \in Slots /\ np[s] # q
    BY <1>1, <1>2, <1>5, <2>1, <2>4 DEF IInv, TypeOK, EmbryoPrivate, Forking, ForkLabels
  <2>5. Owned'
    <3>1. \A s \in Slots : state'[s] \in Used => kstack'[s] /\ pgdir'[s]
      BY <1>1, <1>2, <1>3, <1>5, <2>2 DEF FamilyInv, Owned
    <3>2. \A d \in CPU : cproc'[d] # Nil => state'[cproc'[d]] \in Used
      BY <1>3, <1>5 DEF FamilyInv, Owned
    <3>3. \A s \in Slots : /\ pc'[s] \in {"fork_copy", "fork_run"} => kstack'[np'[s]]
                           /\ pc'[s] = "fork_run" => pgdir'[np'[s]]
      <4> SUFFICES ASSUME NEW s \in Slots, pc'[s] \in {"fork_copy", "fork_run"}
                   PROVE  kstack'[np'[s]] /\ (pc'[s] = "fork_run" => pgdir'[np'[s]])
        OBVIOUS
      <4>1. CASE s = p
        BY <1>2, <1>4, <1>5, <2>2, <4>1
      <4>2. CASE s # p
        <5>1. pc[s] = pc'[s] /\ np'[s] = np[s] /\ np[s] \in Slots /\ np[s] # q
          BY <2>4, <4>2 DEF ForkLabels
        <5>2. kstack[np[s]] /\ (pc[s] = "fork_run" => pgdir[np[s]])
          BY <5>1 DEF FamilyInv, Owned
        <5> QED BY <1>5, <2>2, <5>1, <5>2
      <4> QED BY <4>1, <4>2
    <3> QED BY <3>1, <3>2, <3>3 DEF Owned
  <2>6. Parents'
    <3>1. ParentAlive'
      BY <1>1, <1>2, <1>5, <2>3 DEF FamilyInv, Parents, ParentAlive
    <3>2. \A s \in Slots :
          /\ pc'[s] \in {"fork_kstack", "fork_copy"} => parent'[np'[s]] = Nil
          /\ pc'[s] = "fork_run" => parent'[np'[s]] = s
      BY <1>2, <1>5, <2>1, <2>3, <2>4 DEF FamilyInv, Parents, ForkLabels
    <3>3. /\ state'[InitProc] \in Alive /\ pc'[InitProc] \notin {"exiting", "zombie"}
          /\ parent'[InitProc] = Nil /\ \A s \in Slots : parent'[s] # s
      BY <1>1, <1>2, <1>5, <2>1, <2>3, InitSlot DEF FamilyInv, Parents
    <3> QED BY <3>1, <3>2, <3>3 DEF Parents
  <2>7. WaitersOK'
    <3> SUFFICES ASSUME NEW s \in Slots, Waits(s)'
                 PROVE  /\ chan'[s] = s /\ ~killed'[s]
                        /\ \E t \in Slots : parent'[t] = s
                        /\ \A t \in Slots : parent'[t] = s => state'[t] # "ZOMBIE"
      BY DEF WaitersOK
    <3>1. Waits(s)
      BY <1>5, <2>1 DEF Waits
    <3>2. /\ chan[s] = s /\ ~killed[s]
          /\ \E t \in Slots : parent[t] = s
          /\ \A t \in Slots : parent[t] = s => state[t] # "ZOMBIE"
      BY <3>1 DEF FamilyInv, WaitersOK
    <3>3. \E t \in Slots : parent'[t] = s
      BY <1>4, <2>3, <3>2, NilNoSlot
    <3>4. \A t \in Slots : parent'[t] = s => state'[t] # "ZOMBIE"
      BY <1>1, <1>2, <1>5, <2>3, <3>2
    <3> QED BY <1>3, <3>2, <3>3, <3>4
  <2> QED BY <2>5, <2>6, <2>7 DEF FamilyInv
<1>6. CASE /\ kstack' = [kstack EXCEPT ![q] = FALSE]
           /\ state' = [state EXCEPT ![q] = "UNUSED"] /\ np' = [np EXCEPT ![p] = Nil]
           /\ pc' = [pc EXCEPT ![p] = "sysret", ![q] = "none"]
           /\ UNCHANGED <<pgdir, parent>>
  <2>1. /\ pc'[p] = "sysret" /\ pc'[q] = "none"
        /\ \A s \in Slots \ {p, q} : pc'[s] = pc[s]
    BY <1>1, <1>2, <1>4, <1>6 DEF TypeOK
  <2>2. \A s \in Slots \ {q} : kstack'[s] = kstack[s]
    BY <1>4, <1>6 DEF TypeOK
  <2>3. /\ state[q] = "EMBRYO" /\ p # q /\ q # InitProc /\ parent[q] = Nil
        /\ \A r \in Slots : pc[r] \in ForkLabels /\ r # p => np[r] # q
        /\ \A d \in CPU : cproc[d] # q
    BY <1>1, <1>2, <1>4
  <2> QED
    BY <1>3, <1>6, <2>1, <2>2, <2>3, FailedFork
<1> QED
  BY <1>2, <1>5, <1>6 DEF ForkCopy

LEMMA FamilyForkRun ==
    ASSUME IInv, IInv', FamilyInv, NEW c \in CPU, NEW p \in Slots, ForkRun(c, p)
    PROVE  FamilyInv'
<1>1. /\ pc[p] = "fork_run" /\ state[p] = "RUNNING" /\ np[p] \in Slots
      /\ state[np[p]] = "EMBRYO" /\ np[p] # p /\ np[p] # InitProc
      /\ \A r \in Slots : pc[r] \in ForkLabels /\ r # p => np[r] # np[p]
      /\ \A d \in CPU : cproc[d] # np[p]
  BY OfForker DEF ForkRun, ForkLabels
<1>2. PICK q \in Slots : q = np[p]
  BY <1>1
<1>3. /\ state' = [state EXCEPT ![q] = "RUNNABLE"] /\ np' = [np EXCEPT ![p] = Nil]
      /\ Goto(p, "sysret") /\ UNCHANGED <<parent, killed, chan, kstack, pgdir, cproc>>
  BY <1>2 DEF ForkRun, cpuVars
<1>4. TypeOK /\ parent[q] = p /\ kstack[q] /\ pgdir[q]
  BY <1>1, <1>2 DEF IInv, FamilyInv, Parents, Owned
<1>5. /\ state'[q] = "RUNNABLE" /\ \A s \in Slots \ {q} : state'[s] = state[s]
      /\ pc'[p] = "sysret" /\ \A s \in Slots \ {p} : pc'[s] = pc[s] /\ np'[s] = np[s]
  BY <1>3, <1>4 DEF TypeOK, Goto
<1>6. Owned'
  <2>1. \A s \in Slots : state'[s] \in Used => kstack'[s] /\ pgdir'[s]
    BY <1>3, <1>4, <1>5 DEF FamilyInv, Owned
  <2>2. \A d \in CPU : cproc'[d] # Nil => state'[cproc'[d]] \in Used
    BY <1>1, <1>2, <1>3, <1>4, <1>5 DEF FamilyInv, Owned, TypeOK
  <2>3. \A s \in Slots : /\ pc'[s] \in {"fork_copy", "fork_run"} => kstack'[np'[s]]
                         /\ pc'[s] = "fork_run" => pgdir'[np'[s]]
    BY <1>3, <1>5 DEF FamilyInv, Owned
  <2> QED BY <2>1, <2>2, <2>3 DEF Owned
<1>7. Parents'
  <2>1. ParentAlive'
    BY <1>1, <1>2, <1>3, <1>4, <1>5, NilNoSlot DEF FamilyInv, Parents, ParentAlive, TypeOK
  <2>2. \A s \in Slots :
        /\ pc'[s] \in {"fork_kstack", "fork_copy"} => parent'[np'[s]] = Nil
        /\ pc'[s] = "fork_run" => parent'[np'[s]] = s
    BY <1>3, <1>5 DEF FamilyInv, Parents
  <2>3. /\ state'[InitProc] \in Alive /\ pc'[InitProc] \notin {"exiting", "zombie"}
        /\ parent'[InitProc] = Nil /\ \A s \in Slots : parent'[s] # s
    BY <1>1, <1>2, <1>3, <1>5, InitSlot DEF FamilyInv, Parents
  <2> QED BY <2>1, <2>2, <2>3 DEF Parents
<1>8. WaitersOK'
  <2> SUFFICES ASSUME NEW s \in Slots, Waits(s)'
               PROVE  /\ chan'[s] = s /\ ~killed'[s]
                      /\ \E t \in Slots : parent'[t] = s
                      /\ \A t \in Slots : parent'[t] = s => state'[t] # "ZOMBIE"
    BY DEF WaitersOK
  <2>1. Waits(s)
    BY <1>5 DEF Waits
  <2> QED BY <1>3, <1>5, <2>1 DEF FamilyInv, WaitersOK
<1> QED BY <1>6, <1>7, <1>8 DEF FamilyInv

(* exit() hands its children to init before it becomes a zombie, and wakes  *)
(* whoever waits for it or, through init, for its dead children.            *)
LEMMA FamilyExit ==
    ASSUME IInv, IInv', FamilyInv, NEW c \in CPU, NEW p \in Slots, ExitZombie(c, p)
    PROVE  FamilyInv'
<1>1. pc[p] = "exiting" /\ state[p] = "RUNNING" /\ p # InitProc /\ TypeOK
  BY InThreadRuns DEF ExitZombie, InThread, FamilyInv, Parents, IInv
<1>2. /\ state' = [Wakeup1(ExitChans(p)) EXCEPT ![p] = "ZOMBIE"]
      /\ parent' = Reparented(p) /\ Goto(p, "zombie")
      /\ UNCHANGED <<killed, chan, kstack, pgdir, np, cproc>>
  BY DEF ExitZombie
<1>3. /\ state'[p] = "ZOMBIE"
      /\ \A q \in Slots \ {p} :
            state'[q] = IF state[q] = "SLEEPING" /\ chan[q] \in ExitChans(p)
                        THEN "RUNNABLE" ELSE state[q]
  BY <1>2 DEF Wakeup1
<1>4. \A q \in Slots : parent'[q] = IF parent[q] = p THEN InitProc ELSE parent[q]
  BY <1>2 DEF Reparented, Children
<1>5. pc'[p] = "zombie" /\ \A q \in Slots \ {p} : pc'[q] = pc[q]
  BY <1>1, <1>2 DEF TypeOK, Goto
<1>6. \A q \in Slots : /\ state'[q] \in Used <=> state[q] \in Used
                       /\ q # p => (state'[q] \in Alive <=> state[q] \in Alive)
                       /\ state'[q] = "UNUSED" <=> state[q] = "UNUSED"
                       /\ q # p => (state'[q] = "ZOMBIE" <=> state[q] = "ZOMBIE")
  BY <1>1, <1>3 DEF Used, Alive
<1>7. ASSUME NEW s \in Slots, pc'[s] \in ForkLabels
      PROVE  s # p /\ pc[s] = pc'[s] /\ np'[s] = np[s] /\ np[s] \in Slots
  <2>1. s # p /\ pc[s] = pc'[s]
    BY <1>5, <1>7 DEF ForkLabels
  <2> QED
    BY <1>1, <1>2, <1>7, <2>1 DEF IInv, TypeOK, EmbryoPrivate, Forking, ForkLabels
<1>8. Owned'
  <2>1. \A s \in Slots : state'[s] \in Used => kstack'[s] /\ pgdir'[s]
    BY <1>2, <1>6 DEF FamilyInv, Owned
  <2>2. \A d \in CPU : cproc'[d] # Nil => state'[cproc'[d]] \in Used
    BY <1>1, <1>2, <1>6 DEF FamilyInv, Owned, TypeOK
  <2>3. \A s \in Slots : /\ pc'[s] \in {"fork_copy", "fork_run"} => kstack'[np'[s]]
                         /\ pc'[s] = "fork_run" => pgdir'[np'[s]]
    BY <1>2, <1>7 DEF FamilyInv, Owned, ForkLabels
  <2> QED BY <2>1, <2>2, <2>3 DEF Owned
<1>9. Parents'
  <2>1. ParentAlive'
    <3>1. state[InitProc] \in Alive /\ state'[InitProc] \in Alive
      BY <1>1, <1>6, InitSlot DEF FamilyInv, Parents
    <3>2. ASSUME NEW q \in Slots, state'[q] \in Used, q # InitProc
          PROVE  parent'[q] # Nil /\ state'[parent'[q]] \in Alive
      <4>1. parent[q] \in Slots /\ state[parent[q]] \in Alive
        BY <1>1, <1>6, <3>2 DEF FamilyInv, Parents, ParentAlive, Used, Alive, TypeOK
      <4> QED BY <1>4, <1>6, <3>1, <4>1, InitSlot, NilNoSlot
    <3>3. ASSUME NEW q \in Slots, state'[q] = "UNUSED" PROVE parent'[q] = Nil
      BY <1>4, <1>6, <3>3, NilNoSlot DEF FamilyInv, Parents, ParentAlive
    <3> QED BY <3>2, <3>3 DEF ParentAlive, Used, Alive
  <2>2. \A s \in Slots :
        /\ pc'[s] \in {"fork_kstack", "fork_copy"} => parent'[np'[s]] = Nil
        /\ pc'[s] = "fork_run" => parent'[np'[s]] = s
    BY <1>4, <1>7, NilNoSlot DEF FamilyInv, Parents, ForkLabels
  <2>3. parent'[InitProc] = Nil /\ \A s \in Slots : parent'[s] # s
    BY <1>4, InitSlot, NilNoSlot DEF FamilyInv, Parents
  <2>4. state'[InitProc] \in Alive /\ pc'[InitProc] \notin {"exiting", "zombie"}
    BY <1>1, <1>5, <1>6, InitSlot DEF FamilyInv, Parents
  <2> QED BY <2>1, <2>2, <2>3, <2>4 DEF Parents
<1>10. WaitersOK'
  <2> SUFFICES ASSUME NEW s \in Slots, Waits(s)'
               PROVE  /\ chan'[s] = s /\ ~killed'[s]
                      /\ \E t \in Slots : parent'[t] = s
                      /\ \A t \in Slots : parent'[t] = s => state'[t] # "ZOMBIE"
    BY DEF WaitersOK
  <2>1. s # p /\ Waits(s) /\ chan[s] \notin ExitChans(p)
    BY <1>3, <1>5 DEF Waits
  <2>2. /\ chan[s] = s /\ ~killed[s]
        /\ \E t \in Slots : parent[t] = s
        /\ \A t \in Slots : parent[t] = s => state[t] # "ZOMBIE"
    BY <2>1 DEF FamilyInv, WaitersOK
  <2>3. s # parent[p] /\ (s = InitProc => Zombies(p) = {})
    BY <2>1, <2>2 DEF ExitChans
  <2>4. \E t \in Slots : parent'[t] = s
    BY <1>4, <2>1, <2>2
  <2>5. ASSUME NEW t \in Slots, parent'[t] = s PROVE state'[t] # "ZOMBIE"
    <3>1. t # p
      BY <1>4, <2>3, <2>5 DEF FamilyInv, Parents
    <3>2. CASE parent[t] = p
      BY <1>4, <1>6, <2>3, <2>5, <3>1, <3>2 DEF Zombies, Children
    <3>3. CASE parent[t] # p
      BY <1>4, <1>6, <2>2, <2>5, <3>1, <3>3
    <3> QED BY <3>2, <3>3
  <2> QED BY <1>2, <2>2, <2>4, <2>5
<1> QED BY <1>8, <1>9, <1>10 DEF FamilyInv

(* wait() reaps a zombie no CPU is on, and sleeps only when there is        *)
(* somebody to wait for.                                                    *)
LEMMA FamilyWait ==
    ASSUME IInv, IInv', FamilyInv, NEW c \in CPU, NEW p \in Slots, WaitRound(c, p),
           exec[c] = p, state[p] = "RUNNING", lock \in {NoCPU, c},
           UNCHANGED <<np, cproc>>
    PROVE  FamilyInv'
<1>1. TypeOK
  BY DEF IInv
<1>2. CASE Zombies(p) # {}
  <2>1. Min(Zombies(p)) \in Zombies(p)
    <3>1. Zombies(p) \in SUBSET Nat
      BY DEF Zombies, Children, Slots
    <3> QED BY <1>2, <3>1, MinInSet
  <2>2. PICK q \in Slots : q = Min(Zombies(p)) /\ parent[q] = p /\ state[q] = "ZOMBIE"
    BY <2>1 DEF Zombies, Children
  <2>3. /\ kstack' = [kstack EXCEPT ![q] = FALSE]
        /\ pgdir' = [pgdir EXCEPT ![q] = FALSE]
        /\ parent' = [parent EXCEPT ![q] = Nil]
        /\ killed' = [killed EXCEPT ![q] = FALSE]
        /\ state' = [state EXCEPT ![q] = "UNUSED"]
        /\ pc' = [pc EXCEPT ![p] = "sysret", ![q] = "none"]
        /\ chan' = [chan EXCEPT ![p] = Nil]
    BY <1>2, <2>2 DEF WaitRound
  <2>4. q # p /\ q # InitProc
    BY <2>2 DEF FamilyInv, Parents, Alive
  <2>5. /\ state'[q] = "UNUSED" /\ parent'[q] = Nil
        /\ \A s \in Slots \ {q} : state'[s] = state[s] /\ parent'[s] = parent[s]
    BY <1>1, <2>3 DEF TypeOK
  <2>6. \A s \in Slots \ {q} : kstack'[s] = kstack[s] /\ pgdir'[s] = pgdir[s]
                               /\ killed'[s] = killed[s]
    BY <1>1, <2>3 DEF TypeOK
  <2>7. /\ pc'[p] = "sysret" /\ pc'[q] = "none"
        /\ \A s \in Slots \ {p, q} : pc'[s] = pc[s] /\ chan'[s] = chan[s]
    BY <1>1, <2>3, <2>4 DEF TypeOK
  <2>8. \A d \in CPU : cproc[d] # q
    <3> SUFFICES ASSUME NEW d \in CPU, cproc[d] = q PROVE FALSE
      OBVIOUS
    <3>1. d # c
      BY <2>4, NilNoSlot DEF IInv, CprocAgrees
    <3>2. lock # d
      BY <3>1, ProcAssumption
    <3>3. exec[d] = q
      BY <3>2, NilNoSlot DEF IInv, CprocAgrees
    <3> QED BY <2>2, <3>2, <3>3, NilNoSlot DEF IInv, StackExclusive
  <2>9. ASSUME NEW s \in Slots, pc'[s] \in ForkLabels
        PROVE  pc[s] = pc'[s] /\ np'[s] = np[s] /\ np[s] \in Slots /\ np[s] # q
    <3>1. s # p /\ pc[s] = pc'[s]
      BY <2>7, <2>9 DEF ForkLabels
    <3> QED
      BY <1>1, <2>2, <2>9, <3>1 DEF IInv, TypeOK, EmbryoPrivate, Forking, ForkLabels
  <2>10. Owned'
    <3>1. \A s \in Slots : state'[s] \in Used => kstack'[s] /\ pgdir'[s]
      BY <2>5, <2>6 DEF FamilyInv, Owned, Used, Alive
    <3>2. \A d \in CPU : cproc'[d] # Nil => state'[cproc'[d]] \in Used
      BY <1>1, <2>5, <2>8 DEF FamilyInv, Owned, TypeOK
    <3>3. \A s \in Slots : /\ pc'[s] \in {"fork_copy", "fork_run"} => kstack'[np'[s]]
                           /\ pc'[s] = "fork_run" => pgdir'[np'[s]]
      BY <2>6, <2>9 DEF FamilyInv, Owned, ForkLabels
    <3> QED BY <3>1, <3>2, <3>3 DEF Owned
  <2>11. Parents'
    <3>1. ParentAlive'
      <4>1. ASSUME NEW s \in Slots, state'[s] \in Used, s # InitProc
            PROVE  parent'[s] # Nil /\ state'[parent'[s]] \in Alive
        <5>1. s # q
          BY <2>5, <4>1 DEF Used, Alive
        <5>2. parent[s] \in Slots /\ state[parent[s]] \in Alive
          BY <1>1, <2>5, <4>1, <5>1 DEF FamilyInv, Parents, ParentAlive, Used, Alive, TypeOK
        <5>3. parent[s] # q
          BY <2>2, <5>2 DEF Alive
        <5> QED BY <2>5, <5>1, <5>2, <5>3, NilNoSlot
      <4>2. ASSUME NEW s \in Slots, state'[s] = "UNUSED" PROVE parent'[s] = Nil
        BY <2>5, <4>2 DEF FamilyInv, Parents, ParentAlive
      <4> QED BY <4>1, <4>2 DEF ParentAlive, Used, Alive
    <3>2. \A s \in Slots :
          /\ pc'[s] \in {"fork_kstack", "fork_copy"} => parent'[np'[s]] = Nil
          /\ pc'[s] = "fork_run" => parent'[np'[s]] = s
      BY <2>5, <2>9 DEF FamilyInv, Parents, ForkLabels
    <3>3. /\ state'[InitProc] \in Alive /\ pc'[InitProc] \notin {"exiting", "zombie"}
          /\ parent'[InitProc] = Nil /\ \A s \in Slots : parent'[s] # s
      BY <2>4, <2>5, <2>7, InitSlot, NilNoSlot DEF FamilyInv, Parents
    <3> QED BY <3>1, <3>2, <3>3 DEF Parents
  <2>12. WaitersOK'
    <3> SUFFICES ASSUME NEW s \in Slots, Waits(s)'
                 PROVE  /\ chan'[s] = s /\ ~killed'[s]
                        /\ \E t \in Slots : parent'[t] = s
                        /\ \A t \in Slots : parent'[t] = s => state'[t] # "ZOMBIE"
      BY DEF WaitersOK
    <3>1. s # p /\ s # q /\ Waits(s)
      BY <2>5, <2>7 DEF Waits
    <3>2. /\ chan[s] = s /\ ~killed[s]
          /\ \E t \in Slots : parent[t] = s
          /\ \A t \in Slots : parent[t] = s => state[t] # "ZOMBIE"
      BY <3>1 DEF FamilyInv, WaitersOK
    <3>3. chan'[s] = chan[s] /\ killed'[s] = killed[s]
      BY <2>6, <2>7, <3>1
    <3>4. \E t \in Slots : parent'[t] = s
      BY <2>2, <2>5, <3>1, <3>2
    <3>5. \A t \in Slots : parent'[t] = s => state'[t] # "ZOMBIE"
      BY <2>5, <3>2
    <3> QED BY <3>2, <3>3, <3>4, <3>5
  <2> QED BY <2>10, <2>11, <2>12 DEF FamilyInv
<1>3. CASE Zombies(p) = {} /\ (Children(p) = {} \/ killed[p])
  <2>1. /\ Goto(p, "sysret") /\ chan' = [chan EXCEPT ![p] = Nil]
        /\ UNCHANGED <<state, parent, killed, kstack, pgdir>>
    BY <1>3 DEF WaitRound
  <2>2. \A q \in Slots \ {p} : killed'[q] = killed[q] /\ chan'[q] = chan[q]
    BY <1>1, <2>1 DEF TypeOK
  <2> QED BY <2>1, <2>2, Moves DEF Labels, ForkLabels
<1>4. CASE Zombies(p) = {} /\ Children(p) # {} /\ ~killed[p]
  <2>1. /\ Goto(p, "wait") /\ chan' = [chan EXCEPT ![p] = p]
        /\ state' = [state EXCEPT ![p] = "SLEEPING"]
        /\ UNCHANGED <<parent, killed, kstack, pgdir>>
    BY <1>4 DEF WaitRound
  <2>2. /\ pc'[p] = "wait" /\ chan'[p] = p /\ state'[p] = "SLEEPING"
        /\ \A q \in Slots \ {p} : pc'[q] = pc[q] /\ chan'[q] = chan[q] /\ state'[q] = state[q]
    BY <1>1, <2>1 DEF TypeOK, Goto
  <2>3. pc'[InitProc] \notin {"exiting", "zombie"}
    BY <2>2, InitSlot DEF FamilyInv, Parents
  <2>4. \A q \in Slots : pc'[q] \in ForkLabels => pc'[q] = pc[q] /\ np'[q] = np[q]
    BY <2>2 DEF ForkLabels
  <2>5. Owned' /\ Parents'
    BY <2>1, <2>2, <2>3, <2>4, SameFamily DEF Alive
  <2>6. WaitersOK'
    <3> SUFFICES ASSUME NEW s \in Slots, Waits(s)'
                 PROVE  /\ chan'[s] = s /\ ~killed'[s]
                        /\ \E t \in Slots : parent'[t] = s
                        /\ \A t \in Slots : parent'[t] = s => state'[t] # "ZOMBIE"
      BY DEF WaitersOK
    <3>1. CASE s = p
      BY <1>4, <2>1, <2>2, <3>1 DEF Zombies, Children
    <3>2. CASE s # p
      <4>1. Waits(s)
        BY <2>2, <3>2 DEF Waits
      <4>2. /\ chan[s] = s /\ ~killed[s]
            /\ \E t \in Slots : parent[t] = s
            /\ \A t \in Slots : parent[t] = s => state[t] # "ZOMBIE"
        BY <4>1 DEF FamilyInv, WaitersOK
      <4> QED BY <2>1, <2>2, <3>2, <4>2
    <3> QED BY <3>1, <3>2
  <2> QED BY <2>5, <2>6 DEF FamilyInv
<1> QED BY <1>2, <1>3, <1>4

LEMMA FamilyThread ==
    ASSUME IInv, IInv', FamilyInv, NEW c \in CPU, NEW p \in Slots, ThreadStep(c, p)
    PROVE  FamilyInv'
<1>1. CASE SyscallEnter(c, p)
  <2>1. (IF killed[p] THEN "exit" ELSE "sys")
           \in Labels \ (ForkLabels \cup {"wait", "zombie", "exiting"})
    BY DEF Labels, ForkLabels
  <2> QED BY <1>1, <2>1, Moves DEF SyscallEnter, slotVars, cpuVars
<1>2. CASE SyscallReturn(c, p) \/ TrapReturn(c, p)
  <2>1. (IF killed[p] THEN "exit" ELSE "user")
           \in Labels \ (ForkLabels \cup {"wait", "zombie", "exiting"})
    BY DEF Labels, ForkLabels
  <2> QED BY <1>2, <2>1, Moves DEF SyscallReturn, TrapReturn, slotVars, cpuVars
<1>3. CASE SyscallOther(c, p) \/ DeviceTrap(c, p) \/ SysExit(c, p) \/ SleepReacquire(c, p)
  <2>1. {"sysret", "exit", "sleep_spin"}
           \subseteq Labels \ (ForkLabels \cup {"wait", "zombie", "exiting"})
    BY DEF Labels, ForkLabels
  <2>2. PICK l \in {"sysret", "exit", "sleep_spin"} : Goto(p, l)
    BY <1>3 DEF SyscallOther, DeviceTrap, SysExit, SleepReacquire
  <2>3. UNCHANGED <<slotVars, np, cpuVars>>
    BY <1>3 DEF SyscallOther, DeviceTrap, SysExit, SleepReacquire
  <2> QED BY <2>1, <2>2, <2>3, Moves DEF slotVars, cpuVars
<1>4. CASE Fault(c, p)
  <2>1. \A q \in Slots \ {p} : killed'[q] = killed[q] /\ chan'[q] = chan[q]
    BY <1>4 DEF Fault, IInv, TypeOK
  <2>2. "exit" \in Labels \ (ForkLabels \cup {"wait", "zombie", "exiting"})
    BY DEF Labels, ForkLabels
  <2> QED BY <1>4, <2>1, <2>2, Moves DEF Fault, cpuVars
<1>5. CASE ExitStart(c, p)
  <2>1. /\ (IF p = InitProc THEN "panic" ELSE "exiting")
              \in Labels \ (ForkLabels \cup {"wait", "zombie"})
        /\ (IF p = InitProc THEN "panic" ELSE "exiting") = "exiting" => p # InitProc
    BY DEF Labels, ForkLabels
  <2> QED BY <1>5, <2>1, Moves DEF ExitStart, slotVars, cpuVars
<1>6. CASE SleepCheck(c, p)
  <2>1. {"sysret", "sleep_lk"}
           \subseteq Labels \ (ForkLabels \cup {"wait", "zombie", "exiting"})
    BY DEF Labels, ForkLabels
  <2>2. PICK l \in {"sysret", "sleep_lk"} : Goto(p, l)
    BY <1>6 DEF SleepCheck
  <2> QED BY <1>6, <2>1, <2>2, Moves DEF SleepCheck, slotVars
<1>7. CASE SetPriority(c, p)
  <2>1. "sysret" \in Labels \ (ForkLabels \cup {"wait", "zombie", "exiting"})
    BY DEF Labels, ForkLabels
  <2> QED BY <1>7, <2>1, Moves DEF SetPriority, cpuVars
<1>8. CASE Kill(c, p)
  <2>1. TypeOK /\ Goto(p, "sysret") /\ UNCHANGED <<parent, chan, kstack, pgdir, np, cproc>>
    BY <1>8 DEF Kill, cpuVars, IInv
  <2>2. \/ UNCHANGED <<killed, state>>
        \/ \E q : killed' = [killed EXCEPT ![q] = TRUE] /\ state' = KillWakes(q)
    BY <1>8 DEF Kill
  <2>3. pc'[p] = "sysret" /\ \A q \in Slots \ {p} : pc'[q] = pc[q]
    BY <2>1 DEF TypeOK, Goto
  <2>4. \A q \in Slots : state'[q] = state[q] \/ (state[q] \in Alive /\ state'[q] \in Alive)
    BY <2>1, <2>2 DEF TypeOK, KillWakes, Alive
  <2>5. \A q \in Slots : state'[q] = "SLEEPING" => state[q] = "SLEEPING" /\ killed'[q] = killed[q]
    <3>1. CASE UNCHANGED <<killed, state>>
      BY <3>1
    <3>2. ASSUME NEW v, killed' = [killed EXCEPT ![v] = TRUE], state' = KillWakes(v),
                 NEW q \in Slots, state'[q] = "SLEEPING"
          PROVE  state[q] = "SLEEPING" /\ killed'[q] = killed[q]
      <4>1. state[q] = "SLEEPING" /\ q # v
        BY <2>1, <3>2 DEF KillWakes, TypeOK
      <4> QED BY <2>1, <3>2, <4>1 DEF TypeOK
    <3> QED BY <2>2, <3>1, <3>2
  <2>6. \A q \in Slots : Waits(q)' =>
               Waits(q) /\ chan'[q] = chan[q] /\ killed'[q] = killed[q]
    BY <2>1, <2>3, <2>5 DEF Waits
  <2>7. /\ \A q \in Slots : pc'[q] \in ForkLabels => pc'[q] = pc[q] /\ np'[q] = np[q]
        /\ pc'[InitProc] \notin {"exiting", "zombie"}
    BY <2>1, <2>3, InitSlot DEF FamilyInv, Parents, ForkLabels
  <2> QED BY <2>1, <2>4, <2>6, <2>7, Kept
<1>9. CASE Sleep(c, p)
  <2>1. /\ TypeOK /\ UNCHANGED <<parent, killed, kstack, pgdir, np, cproc>>
        /\ Goto(p, "asleep") /\ state' = [state EXCEPT ![p] = "SLEEPING"]
        /\ chan' = [chan EXCEPT ![p] = TicksChan]
    BY <1>9 DEF Sleep, IInv
  <2>2. /\ pc'[p] = "asleep"
        /\ \A q \in Slots \ {p} : pc'[q] = pc[q] /\ state'[q] = state[q] /\ chan'[q] = chan[q]
    BY <2>1 DEF TypeOK, Goto
  <2>3. state[p] = "RUNNING" /\ state'[p] = "SLEEPING"
    BY <1>9, <2>1, FreeLock, NilNoSlot DEF Sleep, TypeOK
  <2>4. \A q \in Slots : Waits(q)' =>
               Waits(q) /\ chan'[q] = chan[q] /\ killed'[q] = killed[q]
    BY <2>1, <2>2 DEF Waits
  <2>5. /\ \A q \in Slots : pc'[q] \in ForkLabels => pc'[q] = pc[q] /\ np'[q] = np[q]
        /\ pc'[InitProc] \notin {"exiting", "zombie"}
        /\ \A q \in Slots : state'[q] = state[q] \/ (state[q] \in Alive /\ state'[q] \in Alive)
    BY <2>1, <2>2, <2>3, InitSlot DEF FamilyInv, Parents, ForkLabels, Alive
  <2> QED BY <2>1, <2>4, <2>5, Kept
<1>10. CASE WaitCall(c, p)
  BY <1>10, InThreadRuns, FamilyWait DEF WaitCall
<1> QED
  BY <1>1, <1>2, <1>3, <1>4, <1>5, <1>6, <1>7, <1>8, <1>9, <1>10, FamilyAlloc,
     FamilyKstack, FamilyCopy, FamilyForkRun, FamilyExit DEF ThreadStep

LEMMA FamilyResume ==
    ASSUME IInv, IInv', FamilyInv, NEW c \in CPU, NEW p \in Slots, Resume(c, p)
    PROVE  FamilyInv'
<1>1. CASE WaitResume(c, p)
  BY <1>1, FamilyWait DEF WaitResume
<1>2. CASE ThreadResume(c, p)
  <2>1. /\ TypeOK /\ UNCHANGED <<state, parent, killed, kstack, pgdir, np, cproc>>
        /\ state[p] = "RUNNING"
    BY <1>2 DEF ThreadResume, IInv
  <2>2. pc'[p] \in {pc[p], "user", "sleep_retry", "trapret"}
        /\ \A q \in Slots \ {p} : pc'[q] = pc[q]
    BY <1>2, <2>1 DEF ThreadResume, TypeOK, Goto
  <2>3. \A q \in Slots \ {p} : chan'[q] = chan[q]
    BY <1>2, <2>1 DEF ThreadResume, TypeOK
  <2>4. \A q \in Slots : Waits(q)' =>
               Waits(q) /\ chan'[q] = chan[q] /\ killed'[q] = killed[q]
    BY <2>1, <2>2, <2>3 DEF Waits
  <2>5. /\ \A q \in Slots : pc'[q] \in ForkLabels => pc'[q] = pc[q] /\ np'[q] = np[q]
        /\ pc'[InitProc] \notin {"exiting", "zombie"}
    BY <2>1, <2>2, InitSlot DEF FamilyInv, Parents, ForkLabels
  <2> QED BY <2>1, <2>4, <2>5, Kept
<1> QED BY <1>1, <1>2 DEF Resume

LEMMA FamilyCpu ==
    ASSUME IInv, IInv', FamilyInv, NEW c \in CPU, CpuStep(c)
    PROVE  FamilyInv'
<1>1. TypeOK /\ UNCHANGED <<parent, killed, chan, kstack, pgdir, np>>
  BY DEF IInv, CpuStep, TimerTick, TimerOther, TimerWakeup, TimerCount, TimerDone, Swtch,
         SchedulerResume, SwtchBack, Scheduler, Dispatch, slotVars, threadVars
<1>2. pc'[InitProc] \notin {"exiting", "zombie"}
      /\ \A q \in Slots : pc'[q] = pc[q] \/ pc'[q] = "exit"
  <2>1. pc' = pc \/ \E q : Goto(q, "exit")
    BY DEF CpuStep, TimerTick, TimerOther, TimerWakeup, TimerCount, TimerDone, Swtch,
           SchedulerResume, SwtchBack, Scheduler, Dispatch, threadVars
  <2>2. \A q \in Slots : pc'[q] = pc[q] \/ pc'[q] = "exit"
    BY <1>1, <2>1 DEF TypeOK, Goto
  <2> QED BY <2>2, InitSlot DEF FamilyInv, Parents
<1>3. ASSUME \A q \in Slots : \/ state'[q] = state[q]
                              \/ state[q] \in Alive /\ state'[q] \in Alive \ {"SLEEPING"},
             \A d \in CPU : cproc'[d] # Nil =>
               cproc'[d] = cproc[d] \/ state'[cproc'[d]] \in Used
      PROVE  FamilyInv'
  <2>1. \A q \in Slots : Waits(q)' =>
               Waits(q) /\ chan'[q] = chan[q] /\ killed'[q] = killed[q]
    BY <1>1, <1>2, <1>3 DEF Waits
  <2>2. \A q \in Slots : pc'[q] \in ForkLabels => pc'[q] = pc[q] /\ np'[q] = np[q]
    BY <1>1, <1>2 DEF ForkLabels
  <2>3. \A q \in Slots : state'[q] = state[q] \/ (state[q] \in Alive /\ state'[q] \in Alive)
    BY <1>3
  <2> QED BY <1>1, <1>2, <1>3, <2>1, <2>2, <2>3, Kept
<1>4. CASE TimerTick(c) \/ TimerOther(c) \/ TimerCount(c) \/ Swtch(c)
  BY <1>3, <1>4 DEF TimerTick, TimerOther, TimerCount, Swtch, slotVars
<1>5. CASE TimerWakeup(c)
  BY <1>3, <1>5 DEF TimerWakeup, Wakeup1, Alive
<1>6. CASE TimerDone(c)
  <2>1. cproc' = cproc
    BY <1>6 DEF TimerDone
  <2>2. CASE state' = state
    BY <1>3, <2>1, <2>2
  <2>3. CASE cproc[c] # Nil /\ lock = NoCPU /\ state' = [state EXCEPT ![cproc[c]] = "RUNNABLE"]
    <3>1. cproc[c] \in Slots /\ state[cproc[c]] = "RUNNING"
      BY <1>1, <2>3, FreeLock DEF TypeOK
    <3> QED BY <1>1, <1>3, <2>1, <2>3, <3>1 DEF Alive, TypeOK
  <2> QED BY <1>6, <2>2, <2>3 DEF TimerDone
<1>7. CASE SchedulerResume(c)
  BY <1>1, <1>3, <1>7 DEF SchedulerResume, SwtchBack, slotVars, TypeOK
<1>8. CASE Scheduler(c)
  <2>1. PICK p \in Slots : p = Chosen /\ state[p] = "RUNNABLE"
    BY <1>1, <1>8, ChosenRunnable DEF Scheduler, Dispatch, Runnable
  <2>2. cproc' = [cproc EXCEPT ![c] = p] /\ state' = [state EXCEPT ![p] = "RUNNING"]
    BY <1>8, <2>1 DEF Scheduler, Dispatch
  <2>3. state'[p] = "RUNNING" /\ \A q \in Slots \ {p} : state'[q] = state[q]
    BY <1>1, <2>2 DEF TypeOK
  <2>4. \A d \in CPU : cproc'[d] # Nil => cproc'[d] = cproc[d] \/ cproc'[d] = p
    BY <1>1, <2>2 DEF TypeOK
  <2> QED BY <1>3, <2>1, <2>3, <2>4 DEF Alive, Used
<1> QED
  BY <1>4, <1>5, <1>6, <1>7, <1>8 DEF CpuStep

LEMMA FamilyNext ==
    ASSUME IInv, FamilyInv, [Next]_vars
    PROVE  FamilyInv'
<1>1. IInv'
  BY IInvNext
<1>2. CASE Next
  BY <1>1, <1>2, FamilyThread, FamilyResume, FamilyCpu DEF Next
<1>3. CASE UNCHANGED vars
  <2>1. Owned' /\ Parents'
    BY <1>3 DEF vars, slotVars, threadVars, cpuVars, FamilyInv, Owned, Parents, ParentAlive
  <2>2. WaitersOK'
    BY <1>3 DEF vars, slotVars, threadVars, cpuVars, FamilyInv, WaitersOK, Waits
  <2> QED BY <2>1, <2>2 DEF FamilyInv
<1> QED BY <1>2, <1>3

(* The invariant about parents, children and resources holds in every       *)
(* reachable state.                                                         *)
THEOREM FamilyCorrect == Spec => [](IInv /\ FamilyInv)
<1>1. Init => IInv /\ FamilyInv
  BY IInvInit, FamilyInit
<1>2. IInv /\ FamilyInv /\ [Next]_vars => (IInv /\ FamilyInv)'
  BY IInvNext, FamilyNext
<1> QED BY <1>1, <1>2, PTL DEF Spec

(* wait() frees the kernel stack and page directory of a process only when  *)
(* no CPU is on them any more and nobody can resume it, for every number of *)
(* slots and CPUs: a zombie is seen with ptable.lock held, which the CPU of *)
(* the zombie gives up only in the scheduler.                               *)
THEOREM NothingFreedInUse == Spec => []ResourcesLive
<1>1. IInv /\ FamilyInv => ResourcesLive
  <2> SUFFICES ASSUME IInv, FamilyInv PROVE ResourcesLive
    OBVIOUS
  <2>1. \A c \in CPU : exec[c] # Nil => exec[c] \in Slots /\ state[exec[c]] \in Used
    BY DEF IInv, TypeOK, CprocAgrees, Used, Alive
  <2>2. \A c \in CPU : cproc[c] # Nil => cproc[c] \in Slots /\ state[cproc[c]] \in Used
    BY DEF IInv, TypeOK, FamilyInv, Owned
  <2>3. \A p \in Slots : state[p] \in Used => kstack[p] /\ pgdir[p]
    BY DEF FamilyInv, Owned
  <2> QED BY <2>1, <2>2, <2>3 DEF ResourcesLive, Used, Alive
<1> QED BY <1>1, FamilyCorrect, PTL

(* No exit, reparenting or kill is missed by a process asleep in wait(),    *)
(* and every process but init always has a living parent, for every number  *)
(* of slots and CPUs.                                                       *)
THEOREM WaitMissesNothing == Spec => []NoMissedExit
<1>1. IInv /\ FamilyInv => NoMissedExit
  <2> SUFFICES ASSUME IInv, FamilyInv PROVE NoMissedExit
    OBVIOUS
  <2>1. ASSUME NEW p \in Slots, state[p] = "SLEEPING", pc[p] = "wait"
        PROVE  /\ Children(p) # {} /\ ~killed[p]
               /\ \A q \in Children(p) : state[q] # "ZOMBIE"
    <3>1. /\ ~killed[p]
          /\ \E q \in Slots : parent[q] = p
          /\ \A q \in Slots : parent[q] = p => state[q] # "ZOMBIE"
      BY <2>1 DEF FamilyInv, WaitersOK, Waits
    <3> QED BY <3>1 DEF Children
  <2>2. ParentAlive
    BY DEF FamilyInv, Parents
  <2> QED BY <2>1, <2>2 DEF NoMissedExit
<1> QED BY <1>1, FamilyCorrect, PTL

(***************************************************************************)
(* SchedStats: the charged times stay within the time that has passed, and *)
(* no process oversleeps.                                                  *)
(***************************************************************************)

(* The handler that counts ticks runs on cpus[0] only, holding tickslock    *)
(* until it has charged the interrupted process.                            *)
Counting(c) == intr[c] \in {"tick", "count"}
Clock == \A c \in CPU : Counting(c) => c = BootCPU /\ tlock = c

(* A tick is counted before run_time++, which is still to come for p.       *)
Pending(p) == p = cproc[BootCPU] /\ Counting(BootCPU)

InDebt(p) == IF Pending(p) THEN 1 ELSE 0

AccountOK(p) ==
    /\ creation_time[p] <= ticks
    /\ last_scheduled[p] <= ticks
    /\ state[p] # "UNUSED" =>
        /\ creation_time[p] <= last_scheduled[p]
        /\ wait_time[p] <= last_scheduled[p] - creation_time[p]
        /\ run_time[p] + wait_time[p] + InDebt(p)
              <= (last_scheduled[p] - creation_time[p]) + (ticks - creation_time[p])

Accounts == \A p \in Slots : AccountOK(p)

(* Between its check and its sleep a process holds tickslock, so no tick is *)
(* counted; a sleeper whose time is up is about to be woken.                *)
HoldsTicks(p) ==
    \E c \in CPU : exec[c] = p /\ tlock = c /\ intr[c] = "none" /\ lock # c

Sleepers ==
    \A p \in Slots :
        /\ pc[p] = "sleep_lk" => ticks < until[p] /\ HoldsTicks(p)
        /\ state[p] = "SLEEPING" /\ pc[p] = "asleep" =>
              chan[p] = TicksChan /\ (ticks < until[p] \/ intr[BootCPU] = "tick")

StatsInv == IInv /\ StatsTypeOK /\ Clock /\ Accounts /\ Sleepers

(***************************************************************************)
(* The invariant of Proc, with a tick inside a critical section.           *)
(***************************************************************************)
LEMMA JointTypes ==
    ASSUME TypeOK, NEW c \in CPU, c # BootCPU,
           CountTick(BootCPU) \/ CountRun(BootCPU),
           \/ Dispatch(c) \/ SwtchBack(c)
           \/ \E p \in Slots : AllocProc(c, p)
    PROVE  TypeOK'
<1>1. /\ intr' \in [CPU -> {"none", "tick", "count", "yield"}]
      /\ tlock' \in CPU \cup {NoCPU}
  BY ProcAssumption DEF TypeOK, CountTick, CountRun
<1>2. CASE Dispatch(c)
  <2>1. Chosen \in Slots
    BY <1>2, ChosenRunnable DEF Dispatch, Runnable
  <2> QED
    BY <1>1, <1>2, <2>1 DEF Dispatch, TypeOK, States, threadVars
<1>3. CASE SwtchBack(c)
  BY <1>1, <1>3 DEF SwtchBack, TypeOK, slotVars, threadVars
<1>4. ASSUME NEW p \in Slots, AllocProc(c, p)
      PROVE  TypeOK'
  <2>1. CASE Unused = {}
    BY <1>1, <1>4, <2>1 DEF AllocProc, TypeOK, Goto, Labels
  <2>2. CASE Unused # {}
    <3>1. Min(Unused) \in Slots
      <4>1. Unused \in SUBSET Nat
        BY DEF Unused, Slots
      <4> QED BY <2>2, <4>1, MinInSet DEF Unused
    <3> QED
      BY <1>1, <1>4, <2>2, <3>1, ProcAssumption
      DEF AllocProc, PidAfter, TypeOK, Goto, Labels, States
  <2> QED BY <2>1, <2>2
<1> QED BY <1>2, <1>3, <1>4

LEMMA JointSteps ==
    ASSUME IInv, NEW c \in CPU, c # BootCPU,
           CountTick(BootCPU) \/ CountRun(BootCPU),
           \/ Dispatch(c) \/ SwtchBack(c)
           \/ \E p \in Slots : AllocProc(c, p)
    PROVE  IInv'
<1>1. TypeOK'
  BY JointTypes DEF IInv
<1>2. intr'[c] = intr[c]
  BY DEF IInv, TypeOK, CountTick, CountRun
<1>3. CASE Dispatch(c)
  <2>1. intr'[c] = "none"
    BY <1>2, <1>3 DEF Dispatch
  <2> QED BY <1>1, <1>3, <2>1, RestDispatch DEF Rest, IInv
<1>4. CASE SwtchBack(c)
  BY <1>1, <1>4, RestSwtchBack DEF Rest, IInv
<1>5. ASSUME NEW p \in Slots, AllocProc(c, p)
      PROVE  IInv'
  BY <1>1, <1>5, RestAlloc DEF Rest, IInv
<1> QED BY <1>3, <1>4, <1>5

LEMMA ProcInv ==
    ASSUME IInv, StatsNext
    PROVE  IInv'
<1> PICK c \in CPU :
        \/ SchedulerStats(c) \/ IdlePass(c) \/ SchedulerResumeStats(c)
        \/ TimerTickStats(c) \/ TimerCountStats(c)
        \/ TickInScheduler(c) \/ TickInResume(c) \/ CountInScheduler(c)
        \/ TickInIdle(c) \/ CountInIdle(c)
        \/ OtherCpuStep(c)
        \/ \E p \in Slots :
             \/ ForkAllocStats(c, p) \/ TickInAlloc(c, p)
             \/ ExitStartStats(c, p) \/ SleepCheckStats(c, p)
             \/ OtherThreadStep(c, p)
  BY DEF StatsNext
<1>1. CASE TickInScheduler(c) \/ TickInResume(c) \/ CountInScheduler(c)
           \/ \E p \in Slots : TickInAlloc(c, p)
  <2>1. /\ c # BootCPU
        /\ CountTick(BootCPU) \/ CountRun(BootCPU)
        /\ Dispatch(c) \/ SwtchBack(c) \/ \E p \in Slots : AllocProc(c, p)
    BY <1>1 DEF TickInScheduler, TickInResume, TickInAlloc, TickMeanwhile,
                CountInScheduler, CountMeanwhile
  <2> QED BY <2>1, JointSteps
<1>2. CASE SchedulerStats(c) \/ SchedulerResumeStats(c) \/ TimerTickStats(c)
           \/ TimerCountStats(c) \/ OtherCpuStep(c)
  <2>1. CpuStep(c)
    BY <1>2 DEF SchedulerStats, SchedulerResumeStats, TimerTickStats,
                TimerCountStats, OtherCpuStep, CpuStep
  <2> QED BY <2>1, IInvNext DEF Next
<1>3. ASSUME NEW p \in Slots,
             \/ ForkAllocStats(c, p) \/ ExitStartStats(c, p)
             \/ SleepCheckStats(c, p) \/ OtherThreadStep(c, p)
      PROVE  IInv'
  <2>1. ThreadStep(c, p) \/ Resume(c, p)
    BY <1>3 DEF ForkAllocStats, ExitStartStats, SleepCheckStats,
                OtherThreadStep, ThreadStep
  <2> QED BY <2>1, IInvNext DEF Next
<1>4. CASE IdlePass(c)
  BY <1>4, IInvNext DEF IdlePass
<1>5. CASE TickInIdle(c) \/ CountInIdle(c)
  <2>1. TimerTick(BootCPU) \/ TimerCount(BootCPU)
    BY <1>5 DEF TickInIdle, CountInIdle, TickMeanwhile, CountMeanwhile,
                TimerTick, TimerCount
  <2> QED BY <2>1, IInvNext, ProcAssumption DEF Next, CpuStep
<1> QED BY <1>1, <1>2, <1>3, <1>4, <1>5

(***************************************************************************)
(* What a step of a thread that does not touch the accounting may change.  *)
(***************************************************************************)
Others(p) ==
    \A q \in Slots \ {p} :
        /\ state'[q] = "SLEEPING" => state[q] = "SLEEPING"
        /\ chan'[q] = chan[q]
        /\ pc'[q] = pc[q] \/ pc'[q] \in {"none", "forkret"}

NoBirth == \A q \in Slots : state'[q] # "UNUSED" => state[q] # "UNUSED"

Frame(c, p) ==
    /\ UNCHANGED <<exec, cproc, intr>>
    /\ exec[c] = p
    /\ lock' \in {lock, NoCPU, c}
    /\ Others(p)

(* p neither holds tickslock for a sleep nor goes to sleep on ticks.        *)
Awake(c, p) ==
    /\ tlock' = tlock
    /\ pc'[p] = "sleep_lk" => lock = c /\ pc[p] = "sleep_lk"
    /\ ~(state'[p] = "SLEEPING" /\ pc'[p] = "asleep")

LEMMA FrameQuiet ==
    ASSUME IInv, NEW c \in CPU, NEW p \in Slots, NEW l \in Labels,
           NEW m \in Labels \ {"sleep_lk", "asleep"}, InThread(c, p, l), Goto(p, m),
           UNCHANGED <<state, chan, exec, cproc, intr, lock, tlock>>
    PROVE  Frame(c, p) /\ NoBirth /\ Awake(c, p)
<1>1. pc'[p] = m /\ \A q \in Slots \ {p} : pc'[q] = pc[q]
  BY DEF Goto, IInv, TypeOK
<1> QED BY <1>1 DEF Frame, Awake, NoBirth, Others, InThread

LEMMA FrameWait ==
    ASSUME IInv, NEW c \in CPU, NEW p \in Slots, WaitRound(c, p),
           exec[c] = p, state[p] = "RUNNING", UNCHANGED <<exec, cproc, intr, tlock>>
    PROVE  Frame(c, p) /\ NoBirth /\ Awake(c, p)
<1>1. lock' \in {NoCPU, c}
  BY DEF WaitRound, IntoSched
<1>2. chan' \in {[chan EXCEPT ![p] = Nil], [chan EXCEPT ![p] = p]}
  BY DEF WaitRound
<1>3. \A q \in Slots \ {p} : chan'[q] = chan[q]
  BY <1>2 DEF IInv, TypeOK
<1>4. PICK q : \/ /\ q \in Slots /\ state[q] = "ZOMBIE"
                  /\ state' = [state EXCEPT ![q] = "UNUSED"]
                  /\ pc' = [pc EXCEPT ![p] = "sysret", ![q] = "none"]
               \/ state' = state /\ pc' = [pc EXCEPT ![p] = "sysret"]
               \/ /\ state' = [state EXCEPT ![p] = "SLEEPING"]
                  /\ pc' = [pc EXCEPT ![p] = "wait"]
  <2>1. CASE Zombies(p) # {}
    <3>1. Zombies(p) \in SUBSET Nat
      BY DEF Zombies, Children, Slots
    <3>2. Min(Zombies(p)) \in Slots /\ state[Min(Zombies(p))] = "ZOMBIE"
      BY <2>1, <3>1, MinInSet DEF Zombies, Children
    <3> QED BY <2>1, <3>2 DEF WaitRound
  <2>2. CASE Zombies(p) = {}
    BY <2>2 DEF WaitRound, Goto
  <2> QED BY <2>1, <2>2
<1>5. NoBirth
  BY <1>4 DEF NoBirth, IInv, TypeOK
<1>6. Others(p)
  BY <1>3, <1>4 DEF Others, IInv, TypeOK
<1>7. pc'[p] \notin {"sleep_lk", "asleep"}
  BY <1>4 DEF IInv, TypeOK
<1> QED BY <1>1, <1>5, <1>6, <1>7 DEF Frame, Awake

LEMMA FrameFork ==
    ASSUME IInv, NEW c \in CPU, NEW p \in Slots,
           ForkKstack(c, p) \/ ForkCopy(c, p) \/ ForkRun(c, p)
    PROVE  Frame(c, p) /\ NoBirth /\ Awake(c, p)
<1>1. PICK l \in {"fork_kstack", "fork_copy", "fork_run"} : InThread(c, p, l)
  BY DEF ForkKstack, ForkCopy, ForkRun
<1>2. exec[c] = p /\ state[p] = "RUNNING" /\ Forking(p)
  BY <1>1, InThreadRuns DEF InThread, Forking
<1>3. np[p] \in Slots /\ state[np[p]] = "EMBRYO" /\ np[p] # p
  BY <1>2 DEF IInv, TypeOK, EmbryoPrivate
<1>4. UNCHANGED <<exec, cproc, intr, lock, tlock, chan>>
  BY DEF ForkKstack, ForkCopy, ForkRun, cpuVars
<1>5. /\ state' = state \/ \E s \in {"UNUSED", "RUNNABLE"} :
                               state' = [state EXCEPT ![np[p]] = s]
      /\ \E m \in {"fork_copy", "fork_run", "sysret"} :
            \/ pc' = [pc EXCEPT ![p] = m]
            \/ \E n \in {"none", "forkret"} : pc' = [pc EXCEPT ![p] = m, ![np[p]] = n]
  BY DEF ForkKstack, ForkCopy, ForkRun, Goto
<1>6. NoBirth
  BY <1>3, <1>5 DEF NoBirth, IInv, TypeOK
<1>7. /\ pc'[p] \in {"fork_copy", "fork_run", "sysret"}
      /\ \A q \in Slots \ {p} : pc'[q] = pc[q] \/ pc'[q] \in {"none", "forkret"}
  BY <1>3, <1>5 DEF IInv, TypeOK
<1>8. \A q \in Slots : state'[q] = "SLEEPING" => state[q] = "SLEEPING"
  BY <1>3, <1>5 DEF IInv, TypeOK
<1> QED BY <1>2, <1>4, <1>6, <1>7, <1>8 DEF Frame, Awake, Others

LEMMA FrameExit ==
    ASSUME IInv, NEW c \in CPU, NEW p \in Slots, ExitZombie(c, p)
    PROVE  Frame(c, p) /\ NoBirth /\ Awake(c, p)
<1>1. exec[c] = p /\ state[p] = "RUNNING"
  BY InThreadRuns DEF ExitZombie
<1>2. /\ UNCHANGED <<exec, cproc, intr, tlock, chan>> /\ lock' = c
      /\ pc' = [pc EXCEPT ![p] = "zombie"]
      /\ state' = [Wakeup1(ExitChans(p)) EXCEPT ![p] = "ZOMBIE"]
  BY DEF ExitZombie, IntoSched, Goto
<1>3. \A q \in Slots : Wakeup1(ExitChans(p))[q] \in {state[q], "RUNNABLE"}
        /\ (state[q] = "UNUSED" => Wakeup1(ExitChans(p))[q] = "UNUSED")
  BY DEF Wakeup1
<1>4. \A q \in Slots \ {p} : state'[q] = Wakeup1(ExitChans(p))[q]
  BY <1>2 DEF Wakeup1
<1>5. NoBirth
  BY <1>1, <1>3, <1>4 DEF NoBirth
<1>6. pc'[p] = "zombie" /\ \A q \in Slots \ {p} : pc'[q] = pc[q]
  BY <1>2 DEF IInv, TypeOK
<1>7. Others(p)
  BY <1>2, <1>3, <1>4, <1>6 DEF Others
<1> QED BY <1>1, <1>2, <1>5, <1>6, <1>7 DEF Frame, Awake

LEMMA FrameKill ==
    ASSUME IInv, NEW c \in CPU, NEW p \in Slots, Kill(c, p)
    PROVE  Frame(c, p) /\ NoBirth /\ Awake(c, p)
<1>1. exec[c] = p
  BY DEF Kill, InThread
<1>2. \A q \in Slots : \/ state'[q] = state[q]
                       \/ state[q] = "SLEEPING" /\ state'[q] = "RUNNABLE"
  BY DEF Kill, KillWakes, IInv, TypeOK
<1>3. UNCHANGED <<exec, cproc, intr, lock, tlock, chan>>
      /\ pc' = [pc EXCEPT ![p] = "sysret"]
  BY DEF Kill, Goto, cpuVars
<1>4. pc'[p] = "sysret" /\ \A q \in Slots \ {p} : pc'[q] = pc[q]
  BY <1>3 DEF IInv, TypeOK
<1> QED BY <1>1, <1>2, <1>3, <1>4 DEF Frame, Awake, NoBirth, Others

LEMMA FrameResume ==
    ASSUME IInv, NEW c \in CPU, NEW p \in Slots, Resume(c, p)
    PROVE  Frame(c, p) /\ NoBirth /\ Awake(c, p)
<1>1. CASE WaitResume(c, p)
  BY <1>1, FrameWait DEF WaitResume
<1>2. CASE ThreadResume(c, p)
  <2>1. /\ exec[c] = p /\ lock = c /\ lock' = NoCPU
        /\ UNCHANGED <<state, exec, cproc, intr, tlock>> /\ state[p] = "RUNNING"
    BY <1>2 DEF ThreadResume
  <2>2. \A q \in Slots \ {p} : chan'[q] = chan[q] /\ pc'[q] = pc[q]
    BY <1>2 DEF ThreadResume, Goto, IInv, TypeOK
  <2>3. pc'[p] = "sleep_lk" => pc[p] = "sleep_lk"
    BY <1>2 DEF ThreadResume, Goto, IInv, TypeOK
  <2> QED BY <2>1, <2>2, <2>3 DEF Frame, Awake, NoBirth, Others
<1> QED BY <1>1, <1>2 DEF Resume

LEMMA FrameOther ==
    ASSUME IInv, NEW c \in CPU, NEW p \in Slots, OtherThreadStep(c, p)
    PROVE  \/ Frame(c, p) /\ NoBirth /\ Awake(c, p)
           \/ Sleep(c, p)
<1>1. CASE \/ SyscallEnter(c, p) \/ SyscallReturn(c, p) \/ SyscallOther(c, p)
           \/ Fault(c, p) \/ DeviceTrap(c, p) \/ TrapReturn(c, p)
           \/ SysExit(c, p) \/ SleepReacquire(c, p) \/ SetPriority(c, p)
  <2>1. \E l \in Labels : InThread(c, p, l)
    BY <1>1 DEF SyscallEnter, SyscallReturn, SyscallOther, Fault, DeviceTrap,
                TrapReturn, SysExit, SleepReacquire, SetPriority, Labels
  <2>2. \E m \in {"exit", "sys", "user", "sysret", "sleep_spin"} : Goto(p, m)
    BY <1>1 DEF SyscallEnter, SyscallReturn, SyscallOther, Fault, DeviceTrap,
                TrapReturn, SysExit, SleepReacquire, SetPriority
  <2>3. UNCHANGED <<state, chan, exec, cproc, intr, lock, tlock>>
    BY <1>1 DEF SyscallEnter, SyscallReturn, SyscallOther, Fault, DeviceTrap,
                TrapReturn, SysExit, SleepReacquire, SetPriority, slotVars, cpuVars
  <2>4. {"exit", "sys", "user", "sysret", "sleep_spin"}
           \subseteq Labels \ {"sleep_lk", "asleep"}
    BY DEF Labels
  <2> QED BY <2>1, <2>2, <2>3, <2>4, FrameQuiet
<1>2. CASE WaitCall(c, p)
  BY <1>2, InThreadRuns, FrameWait DEF WaitCall
<1> QED
  BY <1>1, <1>2, FrameFork, FrameExit, FrameKill, FrameResume DEF OtherThreadStep

(***************************************************************************)
(* tickslock and the timer handler.                                        *)
(***************************************************************************)
LEMMA ClockKept ==
    ASSUME IInv, Clock,
           \/ tlock' = tlock /\ \A d \in CPU : Counting(d)' => Counting(d)
           \/ CountTick(BootCPU)
           \/ \E c \in CPU : CountRun(c)
           \/ UNCHANGED intr /\ tlock = NoCPU
           \/ UNCHANGED intr /\ \E c \in CPU : tlock = c /\ intr[c] = "none"
    PROVE  Clock'
<1>1. CASE tlock' = tlock /\ \A d \in CPU : Counting(d)' => Counting(d)
  BY <1>1 DEF Clock
<1>2. CASE CountTick(BootCPU)
  <2>1. \A d \in CPU : ~Counting(d)
    BY <1>2, ProcAssumption DEF Clock, CountTick
  <2>2. \A d \in CPU \ {BootCPU} : intr'[d] = intr[d]
    BY <1>2 DEF CountTick, IInv, TypeOK
  <2> QED BY <1>2, <2>1, <2>2 DEF Clock, CountTick, Counting
<1>3. ASSUME NEW c \in CPU, CountRun(c)
      PROVE  Clock'
  <2>1. \A d \in CPU \ {c} : ~Counting(d) /\ intr'[d] = intr[d]
    BY <1>3 DEF Clock, CountRun, Counting, IInv, TypeOK
  <2>2. intr'[c] = "yield"
    BY <1>3 DEF CountRun, IInv, TypeOK
  <2> QED BY <2>1, <2>2 DEF Clock, Counting
<1>4. CASE UNCHANGED intr /\ tlock = NoCPU
  BY <1>4, ProcAssumption DEF Clock, Counting
<1>5. CASE UNCHANGED intr /\ \E c \in CPU : tlock = c /\ intr[c] = "none"
  BY <1>5 DEF Clock, Counting
<1> QED BY <1>1, <1>2, <1>3, <1>4, <1>5

LEMMA ClockNext ==
    ASSUME IInv, Clock, StatsNext
    PROVE  Clock'
<1> PICK c \in CPU :
        \/ SchedulerStats(c) \/ IdlePass(c) \/ SchedulerResumeStats(c)
        \/ TimerTickStats(c) \/ TimerCountStats(c)
        \/ TickInScheduler(c) \/ TickInResume(c) \/ CountInScheduler(c)
        \/ TickInIdle(c) \/ CountInIdle(c)
        \/ OtherCpuStep(c)
        \/ \E p \in Slots :
             \/ ForkAllocStats(c, p) \/ TickInAlloc(c, p)
             \/ ExitStartStats(c, p) \/ SleepCheckStats(c, p)
             \/ OtherThreadStep(c, p)
  BY DEF StatsNext
<1>1. ASSUME UNCHANGED <<intr, tlock>> PROVE Clock'
  BY <1>1, ClockKept DEF Counting
<1>2. CASE SchedulerStats(c) \/ IdlePass(c) \/ SchedulerResumeStats(c)
  BY <1>1, <1>2 DEF SchedulerStats, IdlePass, SchedulerResumeStats, Scheduler,
                    SchedulerResume, vars, cpuVars
<1>3. ASSUME NEW p \in Slots, ForkAllocStats(c, p) \/ ExitStartStats(c, p)
      PROVE  Clock'
  BY <1>1, <1>3 DEF ForkAllocStats, ForkAlloc, ExitStartStats, ExitStart, cpuVars
<1>4. CASE TimerTickStats(c) \/ TickInScheduler(c) \/ TickInResume(c)
           \/ TickInIdle(c) \/ \E p \in Slots : TickInAlloc(c, p)
  <2>1. CountTick(BootCPU)
    BY <1>4 DEF TimerTickStats, TimerTick, CountTick, TickInScheduler, TickInResume,
                TickInAlloc, TickInIdle, TickMeanwhile
  <2> QED BY <2>1, ClockKept
<1>5. CASE TimerCountStats(c) \/ CountInScheduler(c) \/ CountInIdle(c)
  <2>1. \E d \in CPU : CountRun(d)
    BY <1>5, ProcAssumption DEF TimerCountStats, TimerCount, CountInScheduler,
                                 CountInIdle, CountMeanwhile
  <2> QED BY <2>1, ClockKept
<1>6. ASSUME NEW p \in Slots, SleepCheckStats(c, p)
      PROVE  Clock'
  BY <1>6, ClockKept DEF SleepCheckStats, SleepCheck
<1>7. CASE OtherCpuStep(c)
  <2>1. tlock' = tlock
    BY <1>7 DEF OtherCpuStep, TimerOther, TimerWakeup, TimerDone, Swtch
  <2>2. \A d \in CPU : Counting(d)' => Counting(d)
    BY <1>7 DEF OtherCpuStep, TimerOther, TimerWakeup, TimerDone, Swtch, Counting,
                IInv, TypeOK
  <2> QED BY <2>1, <2>2, ClockKept
<1>8. ASSUME NEW p \in Slots, OtherThreadStep(c, p)
      PROVE  Clock'
  <2>1. CASE Frame(c, p) /\ Awake(c, p)
    BY <1>1, <2>1 DEF Frame, Awake
  <2>2. CASE Sleep(c, p)
    BY <2>2, ClockKept DEF Sleep
  <2> QED BY <1>8, <2>1, <2>2, FrameOther
<1> QED
  BY <1>2, <1>3, <1>4, <1>5, <1>6, <1>7, <1>8

(***************************************************************************)
(* The accounts.                                                           *)
(***************************************************************************)

(* A tick inside the pass is seen by all reads after it.                    *)
LEMMA ReadsInOrder ==
    ASSUME ticks \in Nat, NEW p \in Slots, NEW k \in 0..NoTick
    PROVE  /\ ReadDiff(p, k) \in Nat /\ ReadLast(p, k) \in Nat
           /\ ticks <= ReadDiff(p, k) /\ ReadDiff(p, k) <= ReadLast(p, k)
           /\ ReadLast(p, k) <= ticks + 1
           /\ k = NoTick => ReadLast(p, k) = ticks
BY ProcAssumption DEF ReadDiff, ReadLast, NoTick, Slots

LEMMA PassOne ==
    ASSUME StatsTypeOK, NEW p \in Slots, AccountOK(p), NEW k \in 0..NoTick
    PROVE  /\ RunAfterPass(k)[p] \in Nat
           /\ WaitAfterPass(k)[p] \in Nat
           /\ LastAfterPass(k)[p] \in Nat
           /\ run_time[p] <= RunAfterPass(k)[p]
           /\ last_scheduled[p] <= LastAfterPass(k)[p]
           /\ LastAfterPass(k)[p] <= ticks + 1
           /\ k = NoTick => LastAfterPass(k)[p] <= ticks
           /\ state[p] # "UNUSED" =>
                /\ WaitAfterPass(k)[p] <= LastAfterPass(k)[p] - creation_time[p]
                /\ RunAfterPass(k)[p] + WaitAfterPass(k)[p] + InDebt(p)
                     <= (LastAfterPass(k)[p] - creation_time[p])
                        + (ticks - creation_time[p])
<1> DEFINE d == ReadDiff(p, k)
           l == ReadLast(p, k)
<1>1. /\ ticks \in Nat /\ wait_time[p] \in Nat /\ run_time[p] \in Nat
      /\ creation_time[p] \in Nat /\ last_scheduled[p] \in Nat
  BY DEF StatsTypeOK
<1>2. /\ d \in Nat /\ l \in Nat /\ ticks <= d /\ d <= l /\ l <= ticks + 1
      /\ k = NoTick => l = ticks
  BY <1>1, ReadsInOrder
<1>3. /\ RunAfterPass(k)[p] = run_time[p] + IF Accounted(p) /\ state[p] = "RUNNING"
                                            THEN d - last_scheduled[p] ELSE 0
      /\ WaitAfterPass(k)[p] = wait_time[p] + IF Accounted(p) /\ state[p] = "RUNNABLE"
                                              THEN d - last_scheduled[p] ELSE 0
      /\ LastAfterPass(k)[p] = IF Accounted(p) THEN l ELSE last_scheduled[p]
  BY DEF RunAfterPass, WaitAfterPass, LastAfterPass, Elapsed
<1>4. InDebt(p) \in {0, 1}
  BY DEF InDebt
<1> HIDE DEF d, l
<1>5. CASE ~Accounted(p)
  BY <1>1, <1>2, <1>3, <1>4, <1>5 DEF AccountOK
<1>6. CASE Accounted(p) /\ state[p] = "RUNNING"
  BY <1>1, <1>2, <1>3, <1>4, <1>6 DEF AccountOK
<1>7. CASE Accounted(p) /\ state[p] = "RUNNABLE"
  BY <1>1, <1>2, <1>3, <1>4, <1>7 DEF AccountOK
<1>8. CASE Accounted(p) /\ state[p] \notin {"RUNNABLE", "RUNNING"}
  BY <1>1, <1>2, <1>3, <1>4, <1>8 DEF AccountOK
<1> QED BY <1>5, <1>6, <1>7, <1>8

(* One account after a step: what may be added to the times.                *)
LEMMA AccountStep ==
    ASSUME StatsTypeOK, StatsTypeOK', NEW p \in Slots, AccountOK(p),
           creation_time'[p] = creation_time[p],
           last_scheduled[p] <= last_scheduled'[p], last_scheduled'[p] <= ticks',
           ticks <= ticks',
           state'[p] # "UNUSED" =>
               /\ state[p] # "UNUSED"
               /\ wait_time'[p] <= last_scheduled'[p] - creation_time[p]
               /\ run_time'[p] + wait_time'[p] + InDebt(p)'
                     <= (last_scheduled'[p] - creation_time[p])
                        + (ticks' - creation_time[p])
    PROVE  AccountOK(p)'
<1>1. /\ ticks \in Nat /\ creation_time[p] \in Nat /\ last_scheduled[p] \in Nat
      /\ ticks' \in Nat /\ last_scheduled'[p] \in Nat
  BY DEF StatsTypeOK
<1> QED BY <1>1 DEF AccountOK

(* The pass of scheduler() over all slots.                                  *)
LEMMA AfterPass ==
    ASSUME IInv, StatsTypeOK, Accounts, NEW k \in 0..NoTick, NoBirth,
           ticks' \in {ticks, ticks + 1}, k = NoTick \/ ticks' = ticks + 1,
           wait_time' = WaitAfterPass(k),
           \/ last_scheduled' = LastAfterPass(k)
           \/ last_scheduled' = [LastAfterPass(k) EXCEPT ![Chosen] = ticks'],
           run_time' \in [Slots -> Nat],
           \A p \in Slots : run_time'[p] + InDebt(p)'
                <= RunAfterPass(k)[p] + InDebt(p) + (ticks' - ticks),
           UNCHANGED <<turnaround_time, creation_time, until>>
    PROVE  StatsTypeOK' /\ Accounts'
<1>1. \A p \in Slots :
        /\ RunAfterPass(k)[p] \in Nat /\ WaitAfterPass(k)[p] \in Nat
        /\ LastAfterPass(k)[p] \in Nat /\ LastAfterPass(k)[p] <= ticks'
        /\ last_scheduled[p] <= LastAfterPass(k)[p]
        /\ state[p] # "UNUSED" =>
             /\ WaitAfterPass(k)[p] <= LastAfterPass(k)[p] - creation_time[p]
             /\ RunAfterPass(k)[p] + WaitAfterPass(k)[p] + InDebt(p)
                  <= (LastAfterPass(k)[p] - creation_time[p])
                     + (ticks - creation_time[p])
  BY PassOne DEF Accounts
<1>2. ticks \in Nat /\ ticks' \in Nat /\ ticks <= ticks'
  BY DEF StatsTypeOK
<1>3. WaitAfterPass(k) \in [Slots -> Nat]
  <2>1. WaitAfterPass(k) = [p \in Slots |-> WaitAfterPass(k)[p]]
    BY DEF WaitAfterPass
  <2> QED BY <1>1, <2>1
<1>4. LastAfterPass(k) \in [Slots -> Nat]
  <2>1. LastAfterPass(k) = [p \in Slots |-> LastAfterPass(k)[p]]
    BY DEF LastAfterPass
  <2> QED BY <1>1, <2>1
<1>5. StatsTypeOK'
  BY <1>2, <1>3, <1>4 DEF StatsTypeOK
<1>6. \A p \in Slots : last_scheduled'[p] \in {LastAfterPass(k)[p], ticks'}
  BY <1>4
<1>7. ASSUME NEW p \in Slots PROVE AccountOK(p)'
  <2>1. /\ creation_time'[p] = creation_time[p] /\ creation_time[p] \in Nat
        /\ wait_time'[p] = WaitAfterPass(k)[p]
        /\ run_time'[p] \in Nat /\ last_scheduled'[p] \in Nat
        /\ last_scheduled[p] \in Nat
    BY <1>5 DEF StatsTypeOK
  <2>2. InDebt(p) \in Nat /\ InDebt(p)' \in Nat
    BY DEF InDebt
  <2>3. LastAfterPass(k)[p] <= last_scheduled'[p] /\ last_scheduled'[p] <= ticks'
    BY <1>1, <1>2, <1>6
  <2>4. state'[p] # "UNUSED" => state[p] # "UNUSED"
    BY DEF NoBirth
  <2>5. last_scheduled[p] <= last_scheduled'[p]
    BY <1>1, <2>1, <2>3
  <2>6. run_time'[p] + InDebt(p)'
          <= RunAfterPass(k)[p] + InDebt(p) + (ticks' - ticks)
    OBVIOUS
  <2>7. state'[p] # "UNUSED" =>
          /\ state[p] # "UNUSED"
          /\ wait_time'[p] <= last_scheduled'[p] - creation_time[p]
          /\ run_time'[p] + wait_time'[p] + InDebt(p)'
                <= (last_scheduled'[p] - creation_time[p])
                   + (ticks' - creation_time[p])
    <3> HAVE state'[p] # "UNUSED"
    <3>1. /\ WaitAfterPass(k)[p] <= LastAfterPass(k)[p] - creation_time[p]
          /\ RunAfterPass(k)[p] + WaitAfterPass(k)[p] + InDebt(p)
               <= (LastAfterPass(k)[p] - creation_time[p])
                  + (ticks - creation_time[p])
          /\ RunAfterPass(k)[p] \in Nat /\ WaitAfterPass(k)[p] \in Nat
          /\ LastAfterPass(k)[p] \in Nat
      BY <1>1, <2>4
    <3> QED BY <1>2, <2>1, <2>2, <2>3, <2>4, <2>6, <3>1
  <2> QED BY <1>2, <1>5, <2>1, <2>3, <2>5, <2>7, AccountStep DEF Accounts
<1> QED BY <1>5, <1>7 DEF Accounts

(* Debts are made by a tick and paid by run_time++.                         *)
LEMMA Debts ==
    ASSUME NEW p
    PROVE  /\ InDebt(p) \in {0, 1} /\ InDebt(p)' \in {0, 1}
           /\ Pending(p) => InDebt(p) = 1
           /\ ~Pending(p)' => InDebt(p)' = 0
           /\ (Pending(p)' => Pending(p)) => InDebt(p)' <= InDebt(p)
BY DEF InDebt

LEMMA SameAccounts ==
    ASSUME IInv, StatsTypeOK, Accounts, NoBirth,
           \A p \in Slots : Pending(p)' => Pending(p),
           UNCHANGED <<ticks, wait_time, run_time, creation_time, last_scheduled>>
    PROVE  Accounts'
<1> SUFFICES ASSUME NEW p \in Slots PROVE AccountOK(p)'
  BY DEF Accounts
<1>1. AccountOK(p) /\ (state'[p] # "UNUSED" => state[p] # "UNUSED")
  BY DEF Accounts, NoBirth
<1>2. InDebt(p)' <= InDebt(p) /\ InDebt(p) \in {0, 1} /\ InDebt(p)' \in {0, 1}
  BY Debts
<1>3. /\ ticks \in Nat /\ wait_time[p] \in Nat /\ run_time[p] \in Nat
      /\ creation_time[p] \in Nat /\ last_scheduled[p] \in Nat
  BY DEF StatsTypeOK
<1> QED BY <1>1, <1>2, <1>3 DEF AccountOK

LEMMA DispatchFrame ==
    ASSUME IInv, NEW c \in CPU, Dispatch(c)
    PROVE  /\ NoBirth
           /\ \A q \in Slots : state'[q] = "SLEEPING" => state[q] = "SLEEPING"
           /\ \A d \in CPU \ {c} : cproc'[d] = cproc[d]
           /\ UNCHANGED <<pc, chan>>
           /\ exec[c] = Nil /\ \A d \in CPU \ {c} : exec'[d] = exec[d]
<1>1. Chosen \in Slots /\ state[Chosen] = "RUNNABLE"
  BY ChosenRunnable DEF Dispatch, Runnable, IInv
<1>2. /\ state' = [state EXCEPT ![Chosen] = "RUNNING"]
      /\ cproc' = [cproc EXCEPT ![c] = Chosen]
      /\ exec' = [exec EXCEPT ![c] = Chosen]
      /\ UNCHANGED <<pc, chan>> /\ exec[c] = Nil
  BY DEF Dispatch, threadVars
<1>3. \A q \in Slots : \/ state'[q] = state[q]
                       \/ q = Chosen /\ state'[q] = "RUNNING"
  BY <1>2 DEF IInv, TypeOK
<1>4. \A d \in CPU \ {c} : cproc'[d] = cproc[d] /\ exec'[d] = exec[d]
  BY <1>2 DEF IInv, TypeOK
<1> QED BY <1>1, <1>2, <1>3, <1>4 DEF NoBirth

LEMMA PassTypes ==
    ASSUME StatsTypeOK, Accounts, NEW k \in 0..NoTick
    PROVE  RunAfterPass(k) \in [Slots -> Nat]
<1>1. RunAfterPass(k) = [p \in Slots |-> RunAfterPass(k)[p]]
  BY DEF RunAfterPass
<1>2. \A p \in Slots : RunAfterPass(k)[p] \in Nat
  BY PassOne DEF Accounts
<1> QED BY <1>1, <1>2

LEMMA WholePass == NoTick \in 0..NoTick
BY ProcAssumption DEF NoTick

LEMMA AccountsScheduler ==
    ASSUME IInv, StatsTypeOK, Accounts, NEW c \in CPU,
           SchedulerStats(c) \/ IdlePass(c)
    PROVE  StatsTypeOK' /\ Accounts'
<1>1. /\ wait_time' = WaitAfterPass(NoTick) /\ run_time' = RunAfterPass(NoTick)
      /\ \/ last_scheduled' = LastAfterPass(NoTick)
         \/ last_scheduled' = [LastAfterPass(NoTick) EXCEPT ![Chosen] = ticks']
      /\ UNCHANGED <<ticks, turnaround_time, creation_time, until>>
  BY DEF SchedulerStats, IdlePass, PassOnly, PassAndChoose
<1>2. NoBirth /\ \A p \in Slots : Pending(p)' => Pending(p)
  <2>1. CASE SchedulerStats(c)
    <3>1. Dispatch(c) /\ intr' = intr
      BY <2>1 DEF SchedulerStats, Scheduler
    <3>2. NoBirth /\ \A d \in CPU \ {c} : cproc'[d] = cproc[d]
      BY <3>1, DispatchFrame
    <3>3. ~Counting(c)
      BY <3>1 DEF Dispatch, Counting
    <3> QED BY <3>1, <3>2, <3>3, ProcAssumption DEF Pending, Counting
  <2>2. CASE IdlePass(c)
    BY <2>2 DEF IdlePass, vars, slotVars, cpuVars, NoBirth, Pending, Counting
  <2> QED BY <2>1, <2>2
<1>3. RunAfterPass(NoTick) \in [Slots -> Nat]
  BY PassTypes, WholePass
<1>4. \A p \in Slots : run_time'[p] + InDebt(p)'
                <= RunAfterPass(NoTick)[p] + InDebt(p) + (ticks' - ticks)
  <2> SUFFICES ASSUME NEW p \in Slots
               PROVE  run_time'[p] + InDebt(p)'
                <= RunAfterPass(NoTick)[p] + InDebt(p) + (ticks' - ticks)
    OBVIOUS
  <2>1. InDebt(p)' <= InDebt(p) /\ InDebt(p) \in {0, 1} /\ InDebt(p)' \in {0, 1}
    BY <1>2, Debts
  <2>2. ticks \in Nat /\ ticks' = ticks /\ run_time'[p] = RunAfterPass(NoTick)[p]
        /\ run_time'[p] \in Nat
    BY <1>1, <1>3 DEF StatsTypeOK
  <2> QED BY <2>1, <2>2
<1> QED BY <1>1, <1>2, <1>3, <1>4, WholePass, AfterPass

(* The pass with a tick after its first k reads, whether it chooses or not.  *)
LEMMA AccountsTickInPass ==
    ASSUME IInv, StatsTypeOK, Accounts, NEW c \in CPU,
           TickInScheduler(c) \/ TickInIdle(c)
    PROVE  StatsTypeOK' /\ Accounts'
<1>1. PICK k \in 0..NoTick : PassAndChoose(k, ticks + 1) \/ PassOnly(k)
  BY DEF TickInScheduler, TickInIdle
<1>2. ticks' = ticks + 1 /\ ticks \in Nat
  BY DEF TickInScheduler, TickInIdle, TickMeanwhile, StatsTypeOK
<1>3. RunAfterPass(k) \in [Slots -> Nat]
  BY PassTypes
<1>4. \A p \in Slots : run_time'[p] + InDebt(p)'
                <= RunAfterPass(k)[p] + InDebt(p) + (ticks' - ticks)
  <2> SUFFICES ASSUME NEW p \in Slots
               PROVE  run_time'[p] + InDebt(p)'
                <= RunAfterPass(k)[p] + InDebt(p) + (ticks' - ticks)
    OBVIOUS
  <2>1. InDebt(p) \in {0, 1} /\ InDebt(p)' \in {0, 1}
    BY Debts
  <2>2. run_time'[p] = RunAfterPass(k)[p] /\ run_time'[p] \in Nat
    BY <1>1, <1>3 DEF PassAndChoose, PassOnly
  <2> QED BY <1>2, <2>1, <2>2
<1>5. NoBirth
  BY DispatchFrame DEF TickInScheduler, TickInIdle, slotVars, NoBirth
<1>6. /\ wait_time' = WaitAfterPass(k) /\ run_time' = RunAfterPass(k)
      /\ \/ last_scheduled' = LastAfterPass(k)
         \/ last_scheduled' = [LastAfterPass(k) EXCEPT ![Chosen] = ticks']
      /\ UNCHANGED <<turnaround_time, creation_time, until>>
  BY <1>1, <1>2 DEF PassAndChoose, PassOnly
<1> QED BY <1>2, <1>3, <1>4, <1>5, <1>6, AfterPass

LEMMA AccountsCountInPass ==
    ASSUME IInv, StatsTypeOK, Accounts, NEW c \in CPU,
           CountInScheduler(c) \/ CountInIdle(c)
    PROVE  StatsTypeOK' /\ Accounts'
<1> DEFINE run == RunAfterPass(NoTick)
<1>1. /\ wait_time' = WaitAfterPass(NoTick)
      /\ \/ last_scheduled' = LastAfterPass(NoTick)
         \/ last_scheduled' = [LastAfterPass(NoTick) EXCEPT ![Chosen] = ticks']
      /\ UNCHANGED <<ticks, turnaround_time, creation_time, until>>
      /\ c # BootCPU /\ CountRun(BootCPU)
  BY DEF CountInScheduler, CountInIdle, CountMeanwhile
<1>2. NoBirth /\ cproc'[BootCPU] = cproc[BootCPU]
  BY <1>1, DispatchFrame, ProcAssumption
     DEF CountInScheduler, CountInIdle, slotVars, NoBirth
<1>3. run \in [Slots -> Nat] /\ run_time \in [Slots -> Nat] /\ ticks \in Nat
  BY PassTypes, WholePass DEF StatsTypeOK
<1>4. cproc[BootCPU] # Nil => cproc[BootCPU] \in Slots
  BY ProcAssumption DEF IInv, TypeOK
<1>5. intr'[BootCPU] = "yield" /\ intr[BootCPU] = "count"
  BY <1>1, ProcAssumption DEF CountRun, IInv, TypeOK
<1>6. \/ run_time' = run
      \/ /\ cproc[BootCPU] \in Slots
         /\ \/ run_time' = [run EXCEPT ![cproc[BootCPU]] = @ + 1]
            \/ run_time' = [run EXCEPT ![cproc[BootCPU]] = run_time[cproc[BootCPU]] + 1]
  BY <1>4 DEF CountInScheduler, CountInIdle, CountMeanwhile, RacedRuns, RunCounted
<1>7. run_time' \in [Slots -> Nat]
  <2> HIDE DEF run
  <2> QED BY <1>3, <1>6
<1>8. ASSUME NEW p \in Slots
      PROVE  run_time'[p] + InDebt(p)' <= run[p] + InDebt(p) + (ticks' - ticks)
  <2>1. ~Pending(p)' /\ InDebt(p)' = 0 /\ InDebt(p) \in {0, 1}
    BY <1>5, Debts DEF Pending, Counting
  <2>2. run_time[p] <= run[p] /\ run[p] \in Nat /\ run_time[p] \in Nat
    BY <1>3, PassOne, WholePass DEF Accounts
  <2>3. CASE p = cproc[BootCPU]
    <3>1. InDebt(p) = 1
      BY <1>5, <2>3 DEF InDebt, Pending, Counting
    <3>2. run_time'[p] <= run[p] + 1 /\ run_time'[p] \in Nat
      <4> HIDE DEF run
      <4> QED BY <1>3, <1>6, <1>7, <2>2, <2>3
    <3> HIDE DEF run
    <3> QED BY <1>1, <1>3, <2>1, <2>2, <3>1, <3>2
  <2>4. CASE p # cproc[BootCPU]
    <3>1. run_time'[p] = run[p]
      <4> HIDE DEF run
      <4> QED BY <1>3, <1>6, <2>4
    <3> HIDE DEF run
    <3> QED BY <1>1, <1>3, <2>1, <2>2, <3>1
  <2> QED BY <2>3, <2>4
<1> QED BY <1>1, <1>2, <1>7, <1>8, WholePass, AfterPass

(* scheduler() after swtch, with or without a tick between its reads.       *)
LEMMA AccountsResume ==
    ASSUME IInv, StatsTypeOK, Accounts, NEW c \in CPU, SwtchBack(c),
           ticks' \in {ticks, ticks + 1}, ChargeRun(c, ticks, ticks'),
           \A p \in Slots : InDebt(p)' <= InDebt(p) + (ticks' - ticks)
    PROVE  StatsTypeOK' /\ Accounts'
<1> DEFINE p == cproc[c]
<1>1. NoBirth
  BY DEF SwtchBack, slotVars, NoBirth
<1>2. ticks \in Nat /\ ticks' \in Nat /\ ticks <= ticks'
  BY DEF StatsTypeOK
<1>3. /\ run_time' = [run_time EXCEPT ![p] =
                      @ + IF last_scheduled[p] # 0
                          THEN ticks - last_scheduled[p] ELSE 0]
      /\ last_scheduled' = [last_scheduled EXCEPT ![p] = ticks']
      /\ UNCHANGED <<wait_time, turnaround_time, creation_time, until>>
  BY DEF ChargeRun
<1>4. \A q \in Slots : /\ last_scheduled[q] \in Nat /\ last_scheduled[q] <= ticks
                       /\ run_time[q] \in Nat
  BY DEF Accounts, AccountOK, StatsTypeOK
<1>5. run_time' \in [Slots -> Nat] /\ last_scheduled' \in [Slots -> Nat]
  <2> HIDE DEF p
  <2>1. p \in Slots => (IF last_scheduled[p] # 0
                         THEN ticks - last_scheduled[p] ELSE 0) \in Nat
    BY <1>2, <1>4
  <2>2. CASE p \in Slots
    <3>1. run_time[p] + (IF last_scheduled[p] # 0
                         THEN ticks - last_scheduled[p] ELSE 0) \in Nat
      BY <1>4, <2>1, <2>2
    <3>2. run_time' = [run_time EXCEPT ![p] = run_time[p]
                         + IF last_scheduled[p] # 0
                           THEN ticks - last_scheduled[p] ELSE 0]
      BY <1>3
    <3> QED BY <1>2, <1>3, <3>1, <3>2 DEF StatsTypeOK
  <2>3. CASE p \notin Slots
    <3>1. run_time' = run_time /\ last_scheduled' = last_scheduled
      BY <1>3, <2>3 DEF StatsTypeOK
    <3> QED BY <3>1 DEF StatsTypeOK
  <2> QED BY <2>2, <2>3
<1>6. StatsTypeOK'
  BY <1>2, <1>3, <1>5 DEF StatsTypeOK
<1>7. ASSUME NEW q \in Slots PROVE AccountOK(q)'
  <2>1. AccountOK(q) /\ InDebt(q) \in {0, 1} /\ InDebt(q)' \in {0, 1}
        /\ InDebt(q)' <= InDebt(q) + (ticks' - ticks)
        /\ (state'[q] # "UNUSED" => state[q] # "UNUSED")
    BY <1>1, Debts DEF Accounts, NoBirth
  <2>2. /\ wait_time[q] \in Nat /\ run_time[q] \in Nat /\ creation_time[q] \in Nat
        /\ last_scheduled[q] \in Nat /\ last_scheduled[q] <= ticks
        /\ creation_time'[q] = creation_time[q] /\ wait_time'[q] = wait_time[q]
    BY <1>3, <1>4 DEF StatsTypeOK
  <2>3. /\ run_time'[q] \in Nat /\ last_scheduled'[q] \in Nat
        /\ run_time'[q] <= run_time[q] + (last_scheduled'[q] - last_scheduled[q])
        /\ last_scheduled[q] <= last_scheduled'[q]
        /\ last_scheduled'[q] <= ticks'
    <3>1. CASE q = p
      <4>1. /\ run_time'[q] = run_time[q] + IF last_scheduled[q] # 0
                                            THEN ticks - last_scheduled[q] ELSE 0
            /\ last_scheduled'[q] = ticks'
        BY <1>3, <3>1 DEF StatsTypeOK
      <4>2. CASE last_scheduled[q] # 0
        BY <1>2, <2>2, <4>1, <4>2
      <4>3. CASE last_scheduled[q] = 0
        BY <1>2, <2>2, <4>1, <4>3
      <4> QED BY <4>2, <4>3
    <3>2. CASE q # p
      <4>1. run_time'[q] = run_time[q] /\ last_scheduled'[q] = last_scheduled[q]
        BY <1>3, <3>2 DEF StatsTypeOK
      <4> QED BY <1>2, <2>2, <4>1
    <3> QED BY <3>1, <3>2
  <2> QED BY <1>2, <2>1, <2>2, <2>3 DEF AccountOK
<1> QED BY <1>6, <1>7 DEF Accounts

(* allocproc(), with or without a tick between its reads.                   *)
LEMMA AccountsAlloc ==
    ASSUME IInv, StatsTypeOK, Accounts, NEW c \in CPU, NEW p \in Slots,
           AllocProc(c, p), ticks' \in {ticks, ticks + 1}, OpenAccount(ticks, ticks'),
           \A q \in Slots : InDebt(q)' <= InDebt(q) + (ticks' - ticks)
    PROVE  StatsTypeOK' /\ Accounts'
<1>1. ticks \in Nat /\ ticks' \in Nat /\ ticks <= ticks'
  BY DEF StatsTypeOK
<1>2. ASSUME NEW q \in Slots, state'[q] # "UNUSED" => state[q] # "UNUSED",
             wait_time'[q] = wait_time[q], run_time'[q] = run_time[q],
             creation_time'[q] = creation_time[q],
             last_scheduled'[q] = last_scheduled[q]
      PROVE  AccountOK(q)'
  <2>1. AccountOK(q) /\ InDebt(q) \in {0, 1} /\ InDebt(q)' \in {0, 1}
        /\ InDebt(q)' <= InDebt(q) + (ticks' - ticks)
    BY Debts DEF Accounts
  <2>2. /\ wait_time[q] \in Nat /\ run_time[q] \in Nat /\ creation_time[q] \in Nat
        /\ last_scheduled[q] \in Nat
    BY DEF StatsTypeOK
  <2> QED BY <1>1, <1>2, <2>1, <2>2 DEF AccountOK
<1>3. CASE Unused = {}
  <2>1. UNCHANGED <<state, accounts, until>>
    BY <1>3 DEF AllocProc, OpenAccount
  <2>2. StatsTypeOK'
    BY <1>1, <2>1 DEF StatsTypeOK, accounts
  <2> QED BY <1>2, <2>1, <2>2 DEF Accounts, accounts
<1>4. CASE Unused # {}
  <2>1. PICK n \in Slots : n = Min(Unused) /\ state[n] = "UNUSED"
    <3>1. Unused \in SUBSET Nat
      BY DEF Unused, Slots
    <3> QED BY <1>4, <3>1, MinInSet DEF Unused
  <2>2. /\ wait_time' = [wait_time EXCEPT ![n] = 0]
        /\ run_time' = [run_time EXCEPT ![n] = 0]
        /\ turnaround_time' = [turnaround_time EXCEPT ![n] = 0]
        /\ creation_time' = [creation_time EXCEPT ![n] = ticks]
        /\ last_scheduled' = [last_scheduled EXCEPT ![n] = ticks']
        /\ UNCHANGED until
    BY <1>4, <2>1 DEF OpenAccount
  <2>3. state' = [state EXCEPT ![n] = "EMBRYO"] /\ lock = NoCPU /\ cproc' = cproc
    BY <1>4, <2>1 DEF AllocProc
  <2>4. StatsTypeOK'
    BY <1>1, <2>2 DEF StatsTypeOK
  <2>5. ~Pending(n)'
    <3>1. cproc[BootCPU] = exec[BootCPU]
          /\ (exec[BootCPU] # Nil => state[exec[BootCPU]] = "RUNNING")
      BY <2>3, FreeLock, ProcAssumption
    <3>2. cproc[BootCPU] # n
      BY <2>1, <3>1, NilNoSlot
    <3> QED BY <2>3, <3>2 DEF Pending
  <2>6. AccountOK(n)'
    <3>1. InDebt(n)' = 0
      BY <2>5, Debts
    <3>2. /\ wait_time'[n] = 0 /\ run_time'[n] = 0
          /\ creation_time'[n] = ticks /\ last_scheduled'[n] = ticks'
      BY <2>1, <2>2 DEF StatsTypeOK
    <3> QED BY <1>1, <3>1, <3>2 DEF AccountOK
  <2>7. ASSUME NEW q \in Slots, q # n PROVE AccountOK(q)'
    <3>1. /\ state'[q] = state[q]
          /\ wait_time'[q] = wait_time[q] /\ run_time'[q] = run_time[q]
          /\ creation_time'[q] = creation_time[q]
          /\ last_scheduled'[q] = last_scheduled[q]
      BY <2>2, <2>3, <2>7 DEF StatsTypeOK, IInv, TypeOK
    <3> QED BY <1>2, <3>1
  <2> QED BY <2>4, <2>6, <2>7 DEF Accounts
<1> QED BY <1>3, <1>4

(* cpus[0] is interrupted: ticks++ now, run_time++ later.                   *)
LEMMA TickDebts ==
    ASSUME StatsTypeOK, ticks' = ticks + 1
    PROVE  \A p \in Slots : InDebt(p)' <= InDebt(p) + (ticks' - ticks)
<1> SUFFICES ASSUME NEW p \in Slots
             PROVE  InDebt(p)' <= InDebt(p) + (ticks' - ticks)
  OBVIOUS
<1>1. ticks \in Nat /\ InDebt(p) \in {0, 1} /\ InDebt(p)' \in {0, 1}
  BY Debts DEF StatsTypeOK
<1> QED BY <1>1

LEMMA NoTickDebts ==
    ASSUME StatsTypeOK, ticks' = ticks, \A p \in Slots : Pending(p)' => Pending(p)
    PROVE  \A p \in Slots : InDebt(p)' <= InDebt(p) + (ticks' - ticks)
<1> SUFFICES ASSUME NEW p \in Slots
             PROVE  InDebt(p)' <= InDebt(p) + (ticks' - ticks)
  OBVIOUS
<1>1. /\ ticks \in Nat /\ InDebt(p) \in {0, 1} /\ InDebt(p)' \in {0, 1}
      /\ InDebt(p)' <= InDebt(p)
  BY Debts DEF StatsTypeOK
<1> QED BY <1>1

LEMMA AccountsTick ==
    ASSUME IInv, StatsTypeOK, Accounts, NEW c \in CPU, TimerTickStats(c)
    PROVE  StatsTypeOK' /\ Accounts'
<1>1. ticks' = ticks + 1 /\ UNCHANGED <<state, accounts, until>>
      /\ CountTick(c)
  BY DEF TimerTickStats, TimerTick, slotVars
<1>2. StatsTypeOK'
  BY <1>1 DEF StatsTypeOK, accounts
<1>3. ASSUME NEW p \in Slots PROVE AccountOK(p)'
  <2>1. /\ wait_time[p] \in Nat /\ run_time[p] \in Nat /\ creation_time[p] \in Nat
        /\ last_scheduled[p] \in Nat /\ ticks \in Nat
    BY DEF StatsTypeOK
  <2>2. AccountOK(p) /\ InDebt(p) \in {0, 1} /\ InDebt(p)' \in {0, 1}
        /\ InDebt(p)' <= InDebt(p) + (ticks' - ticks)
    BY <1>1, Debts, TickDebts DEF Accounts
  <2> QED BY <1>1, <2>1, <2>2 DEF AccountOK, accounts
<1> QED BY <1>2, <1>3 DEF Accounts

LEMMA AccountsCount ==
    ASSUME IInv, Clock, StatsTypeOK, Accounts, NEW c \in CPU, TimerCountStats(c)
    PROVE  StatsTypeOK' /\ Accounts'
<1>1. /\ run_time' = RunCounted(run_time, cproc[c]) /\ CountRun(c)
      /\ UNCHANGED <<ticks, wait_time, turnaround_time, creation_time,
                      last_scheduled, until, state, cproc>>
  BY DEF TimerCountStats, TimerCount, slotVars
<1>2. c = BootCPU /\ intr[c] = "count" /\ intr'[c] = "yield"
  BY <1>1 DEF CountRun, Clock, Counting, IInv, TypeOK
<1>3. \/ cproc[c] \notin Slots /\ run_time' = run_time
      \/ cproc[c] \in Slots /\ run_time' = [run_time EXCEPT ![cproc[c]] = @ + 1]
  BY <1>1, NilNoSlot DEF RunCounted, IInv, TypeOK
<1>4. StatsTypeOK'
  <2>1. cproc[c] \in Slots => run_time[cproc[c]] + 1 \in Nat
    BY DEF StatsTypeOK
  <2>2. run_time' \in [Slots -> Nat]
    BY <1>3, <2>1 DEF StatsTypeOK
  <2> QED BY <1>1, <2>2 DEF StatsTypeOK
<1>5. ASSUME NEW p \in Slots PROVE AccountOK(p)'
  <2>1. /\ wait_time[p] \in Nat /\ run_time[p] \in Nat /\ creation_time[p] \in Nat
        /\ last_scheduled[p] \in Nat /\ ticks \in Nat
    BY DEF StatsTypeOK
  <2>2. AccountOK(p) /\ InDebt(p)' = 0 /\ InDebt(p) \in {0, 1}
    BY <1>2, Debts DEF Accounts, Pending, Counting
  <2>3. run_time'[p] = run_time[p] + InDebt(p)
    <3>1. CASE p = cproc[c]
      <4>1. InDebt(p) = 1
        BY <1>2, <3>1 DEF InDebt, Pending, Counting
      <4> QED BY <1>3, <3>1, <4>1 DEF StatsTypeOK
    <3>2. CASE p # cproc[c]
      <4>1. InDebt(p) = 0
        BY <1>2, <3>2 DEF InDebt, Pending
      <4>2. run_time'[p] = run_time[p]
        BY <1>3, <3>2 DEF StatsTypeOK
      <4> QED BY <2>1, <4>1, <4>2
    <3> QED BY <3>1, <3>2
  <2> QED BY <1>1, <2>1, <2>2, <2>3 DEF AccountOK
<1> QED BY <1>4, <1>5 DEF Accounts

(* Steps that touch at most until and turnaround_time.                      *)
LEMMA AccountsThread ==
    ASSUME IInv, StatsTypeOK, Accounts, NEW c \in CPU, NEW p \in Slots,
           \/ OtherThreadStep(c, p) /\ UNCHANGED statVars
           \/ ExitStartStats(c, p) \/ SleepCheckStats(c, p)
    PROVE  StatsTypeOK' /\ Accounts'
<1>1. UNCHANGED <<cproc, intr>> /\ NoBirth
  <2>1. CASE OtherThreadStep(c, p)
    <3>1. CASE Sleep(c, p)
      <4>1. state[p] = "RUNNING"
        BY <3>1, FreeLock, NilNoSlot DEF Sleep
      <4> QED BY <3>1, <4>1 DEF Sleep, NoBirth, IInv, TypeOK
    <3> QED BY <2>1, <3>1, FrameOther DEF Frame
  <2>2. CASE ExitStartStats(c, p) \/ SleepCheckStats(c, p)
    BY <2>2 DEF ExitStartStats, ExitStart, SleepCheckStats, SleepCheck, slotVars,
                cpuVars, NoBirth
  <2> QED BY <2>1, <2>2
<1>2. UNCHANGED <<ticks, wait_time, run_time, creation_time, last_scheduled>>
  BY DEF ExitStartStats, SleepCheckStats, statVars, accounts
<1>3. \A q \in Slots : Pending(q)' => Pending(q)
  BY <1>1 DEF Pending, Counting
<1>4. Accounts'
  BY <1>1, <1>2, <1>3, SameAccounts
<1>5. turnaround_time' \in [Slots -> Nat]
  <2>1. CASE ExitStartStats(c, p)
    <3>1. ticks - creation_time[p] \in Nat
      BY DEF Accounts, AccountOK, StatsTypeOK
    <3> QED BY <2>1, <3>1 DEF ExitStartStats, StatsTypeOK
  <2>2. CASE turnaround_time' = turnaround_time
    BY <2>2 DEF StatsTypeOK
  <2> QED BY <2>1, <2>2 DEF SleepCheckStats, statVars, accounts
<1>6. until' \in [Slots -> Nat]
  <2>1. CASE SleepCheckStats(c, p)
    <3>1. PICK n \in SleepArgs :
            until' = [until EXCEPT ![p] = IF pc'[p] = "sysret" THEN 0
                        ELSE IF pc[p] = "sys" THEN ticks + n ELSE until[p]]
      BY <2>1 DEF SleepCheckStats
    <3>2. ticks + n \in Nat /\ until[p] \in Nat
      BY StatsAssumption DEF StatsTypeOK
    <3> QED BY <3>1, <3>2 DEF StatsTypeOK
  <2>2. CASE until' = until
    BY <2>2 DEF StatsTypeOK
  <2> QED BY <2>1, <2>2 DEF ExitStartStats, statVars
<1> QED BY <1>2, <1>4, <1>5, <1>6 DEF StatsTypeOK

LEMMA AccountsCpu ==
    ASSUME IInv, StatsTypeOK, Accounts, NEW c \in CPU, OtherCpuStep(c),
           UNCHANGED statVars
    PROVE  StatsTypeOK' /\ Accounts'
<1>1. cproc' = cproc /\ \A d \in CPU : Counting(d)' => Counting(d)
  BY DEF OtherCpuStep, TimerOther, TimerWakeup, TimerDone, Swtch, Counting,
         IInv, TypeOK
<1>2. NoBirth
  <2>1. CASE TimerWakeup(c)
    BY <2>1 DEF TimerWakeup, Wakeup1, NoBirth
  <2>2. CASE TimerDone(c)
    <3>1. \/ UNCHANGED state
          \/ /\ lock = NoCPU /\ cproc[c] # Nil
             /\ state' = [state EXCEPT ![cproc[c]] = "RUNNABLE"]
      BY <2>2 DEF TimerDone
    <3>2. lock = NoCPU /\ cproc[c] # Nil => state[cproc[c]] = "RUNNING"
      BY FreeLock
    <3> QED BY <3>1, <3>2 DEF NoBirth, IInv, TypeOK
  <2>3. CASE TimerOther(c) \/ Swtch(c)
    BY <2>3 DEF TimerOther, Swtch, slotVars, NoBirth
  <2> QED BY <2>1, <2>2, <2>3 DEF OtherCpuStep
<1>3. \A q \in Slots : Pending(q)' => Pending(q)
  BY <1>1, ProcAssumption DEF Pending
<1>4. Accounts'
  BY <1>2, <1>3, SameAccounts DEF statVars, accounts
<1> QED BY <1>4 DEF StatsTypeOK, statVars, accounts

LEMMA AccountsNext ==
    ASSUME IInv, StatsTypeOK, Clock, Accounts, StatsNext
    PROVE  StatsTypeOK' /\ Accounts'
<1> PICK c \in CPU :
        \/ SchedulerStats(c) \/ IdlePass(c) \/ SchedulerResumeStats(c)
        \/ TimerTickStats(c) \/ TimerCountStats(c)
        \/ TickInScheduler(c) \/ TickInResume(c) \/ CountInScheduler(c)
        \/ TickInIdle(c) \/ CountInIdle(c)
        \/ OtherCpuStep(c) /\ UNCHANGED statVars
        \/ \E p \in Slots :
             \/ ForkAllocStats(c, p) \/ TickInAlloc(c, p)
             \/ ExitStartStats(c, p) \/ SleepCheckStats(c, p)
             \/ OtherThreadStep(c, p) /\ UNCHANGED statVars
  BY DEF StatsNext
<1>1. CASE SchedulerResumeStats(c)
  <2>1. SwtchBack(c) /\ intr' = intr /\ ticks' = ticks /\ ChargeRun(c, ticks, ticks)
    BY <1>1 DEF SchedulerResumeStats, SchedulerResume
  <2>2. \A p \in Slots : Pending(p)' => Pending(p)
    <3>1. \A d \in CPU : cproc'[d] = cproc[d] \/ cproc'[d] = Nil
      BY <2>1 DEF SwtchBack, IInv, TypeOK
    <3> QED BY <2>1, <3>1, NilNoSlot, ProcAssumption DEF Pending, Counting
  <2> QED BY <2>1, <2>2, NoTickDebts, AccountsResume
<1>2. CASE TickInResume(c)
  <2>1. SwtchBack(c) /\ ticks' = ticks + 1 /\ ChargeRun(c, ticks, ticks + 1)
    BY <1>2 DEF TickInResume, TickMeanwhile
  <2> QED BY <2>1, TickDebts, AccountsResume
<1>3. ASSUME NEW p \in Slots, ForkAllocStats(c, p)
      PROVE  StatsTypeOK' /\ Accounts'
  <2>1. AllocProc(c, p) /\ intr' = intr /\ ticks' = ticks /\ OpenAccount(ticks, ticks)
    BY <1>3 DEF ForkAllocStats, ForkAlloc
  <2>2. \A q \in Slots : Pending(q)' => Pending(q)
    BY <2>1 DEF AllocProc, Pending, Counting
  <2> QED BY <2>1, <2>2, NoTickDebts, AccountsAlloc
<1>4. ASSUME NEW p \in Slots, TickInAlloc(c, p)
      PROVE  StatsTypeOK' /\ Accounts'
  <2>1. AllocProc(c, p) /\ ticks' = ticks + 1 /\ OpenAccount(ticks, ticks + 1)
    BY <1>4 DEF TickInAlloc, TickMeanwhile
  <2> QED BY <2>1, TickDebts, AccountsAlloc
<1> QED
  BY <1>1, <1>2, <1>3, <1>4, AccountsScheduler, AccountsTickInPass,
     AccountsCountInPass, AccountsTick, AccountsCount, AccountsThread, AccountsCpu

(***************************************************************************)
(* Sleepers.                                                               *)
(***************************************************************************)

(* While a tick is being counted nobody is between the check of sys_sleep   *)
(* and its sleep.                                                           *)
LEMMA NoneFallingAsleep ==
    ASSUME Clock, Sleepers,
           tlock = NoCPU \/ \E c \in CPU : Counting(c)
    PROVE  \A p \in Slots : pc[p] # "sleep_lk"
<1> SUFFICES ASSUME NEW p \in Slots, pc[p] = "sleep_lk" PROVE FALSE
  OBVIOUS
<1>1. PICK d \in CPU : tlock = d /\ intr[d] = "none"
  BY DEF Sleepers, HoldsTicks
<1>2. ~Counting(d)
  BY <1>1 DEF Counting
<1> QED BY <1>1, <1>2, ProcAssumption DEF Clock

LEMMA SleepersTick ==
    ASSUME IInv, Clock, Sleepers, CountTick(BootCPU), UNCHANGED <<chan, until>>,
           \A q \in Slots : state'[q] = "SLEEPING" => state[q] = "SLEEPING",
           \A q \in Slots : pc'[q] \in {"sleep_lk", "asleep"} => pc'[q] = pc[q]
    PROVE  Sleepers'
<1>1. \A p \in Slots : pc[p] # "sleep_lk"
  BY NoneFallingAsleep DEF CountTick
<1>2. intr'[BootCPU] = "tick"
  BY ProcAssumption DEF CountTick, IInv, TypeOK
<1> QED BY <1>1, <1>2 DEF Sleepers

(* A step of the thread of p that has nothing to do with sleeping.          *)
LEMMA SleepersFrame ==
    ASSUME IInv, Sleepers, NEW c \in CPU, NEW p \in Slots, Frame(c, p), Awake(c, p),
           UNCHANGED <<ticks, until>>
    PROVE  Sleepers'
<1> SUFFICES ASSUME NEW q \in Slots
             PROVE  /\ pc'[q] = "sleep_lk" => ticks' < until'[q] /\ HoldsTicks(q)'
                    /\ state'[q] = "SLEEPING" /\ pc'[q] = "asleep" =>
                         /\ chan'[q] = TicksChan
                         /\ ticks' < until'[q] \/ intr'[BootCPU] = "tick"
  BY DEF Sleepers
<1>1. ASSUME pc'[q] = "sleep_lk"
      PROVE  ticks' < until'[q] /\ HoldsTicks(q)'
  <2>1. pc[q] = "sleep_lk"
    BY <1>1 DEF Frame, Awake, Others
  <2>2. PICK d \in CPU : exec[d] = q /\ tlock = d /\ intr[d] = "none" /\ lock # d
    BY <2>1 DEF Sleepers, HoldsTicks
  <2>3. d # c
    <3>1. CASE q = p
      BY <1>1, <2>2, <3>1 DEF Awake
    <3>2. CASE q # p
      BY <2>2, <3>2 DEF Frame
    <3> QED BY <3>1, <3>2
  <2>4. lock' # d
    BY <2>2, <2>3, ProcAssumption DEF Frame
  <2> QED BY <2>1, <2>2, <2>4 DEF Sleepers, HoldsTicks, Frame, Awake
<1>2. ASSUME state'[q] = "SLEEPING", pc'[q] = "asleep"
      PROVE  /\ chan'[q] = TicksChan
             /\ ticks' < until'[q] \/ intr'[BootCPU] = "tick"
  <2>1. q # p
    BY <1>2 DEF Awake
  <2>2. state[q] = "SLEEPING" /\ pc[q] = "asleep" /\ chan'[q] = chan[q]
    BY <1>2, <2>1 DEF Frame, Others
  <2> QED BY <2>2 DEF Sleepers, Frame
<1> QED BY <1>1, <1>2

(* sleep(): tickslock is released only after the process has become a       *)
(* sleeper on ticks.                                                        *)
LEMMA SleepersSleep ==
    ASSUME IInv, Clock, Sleepers, NEW c \in CPU, NEW p \in Slots, Sleep(c, p),
           UNCHANGED <<ticks, until>>
    PROVE  Sleepers'
<1>1. /\ pc[p] = "sleep_lk" /\ tlock = c /\ exec[c] = p /\ intr' = intr
      /\ chan' = [chan EXCEPT ![p] = TicksChan]
      /\ state' = [state EXCEPT ![p] = "SLEEPING"]
      /\ pc' = [pc EXCEPT ![p] = "asleep"]
  BY DEF Sleep, Goto
<1>2. \A q \in Slots \ {p} : /\ chan'[q] = chan[q] /\ state'[q] = state[q]
                             /\ pc'[q] = pc[q] /\ pc[q] # "sleep_lk"
  BY <1>1 DEF IInv, TypeOK, Sleepers, HoldsTicks
<1>3. chan'[p] = TicksChan /\ pc'[p] = "asleep" /\ ticks < until[p]
  BY <1>1 DEF IInv, TypeOK, Sleepers
<1> QED BY <1>1, <1>2, <1>3 DEF Sleepers

(* The check of sys_sleep.                                                  *)
LEMMA SleepersCheck ==
    ASSUME IInv, StatsTypeOK, Clock, Sleepers, NEW c \in CPU, NEW p \in Slots,
           SleepCheckStats(c, p)
    PROVE  Sleepers'
<1>1. /\ exec[c] = p /\ intr[c] = "none" /\ lock # c /\ tlock = NoCPU
      /\ UNCHANGED <<state, chan, exec, intr, lock, ticks>>
  BY DEF SleepCheckStats, SleepCheck, InThread, slotVars
<1>2. \A q \in Slots : pc[q] # "sleep_lk"
  BY <1>1, NoneFallingAsleep
<1>3. PICK n \in SleepArgs :
         LET till == IF pc[p] = "sys" THEN ticks + n ELSE until[p] IN
         /\ pc'[p] = IF ticks < till /\ ~killed[p] THEN "sleep_lk" ELSE "sysret"
         /\ until' = [until EXCEPT ![p] = IF pc'[p] = "sysret" THEN 0 ELSE till]
  BY DEF SleepCheckStats
<1>4. \A q \in Slots \ {p} : pc'[q] = pc[q]
  BY DEF SleepCheckStats, SleepCheck, Goto, IInv, TypeOK
<1>5. \A q \in Slots \ {p} : until'[q] = until[q]
  BY <1>3 DEF StatsTypeOK
<1>6. pc'[p] = "sleep_lk" => tlock' = c
  BY DEF SleepCheckStats, SleepCheck, Goto, IInv, TypeOK
<1>7. pc'[p] = "sleep_lk" => ticks' < until'[p] /\ HoldsTicks(p)'
  <2> HAVE pc'[p] = "sleep_lk"
  <2>1. ticks' < until'[p]
    BY <1>1, <1>3 DEF StatsTypeOK
  <2> QED BY <1>1, <1>6, <2>1 DEF HoldsTicks
<1>8. pc'[p] # "asleep"
  BY <1>3
<1> QED BY <1>1, <1>2, <1>4, <1>5, <1>7, <1>8 DEF Sleepers

(* Steps that leave threads, sleepers and the counting of ticks alone.      *)
LEMMA SleepersStay ==
    ASSUME IInv, Sleepers, UNCHANGED <<pc, chan, until, ticks, tlock>>,
           \A q \in Slots : state'[q] = "SLEEPING" => state[q] = "SLEEPING",
           \A d \in CPU : exec[d] # Nil /\ tlock = d /\ intr[d] = "none" /\ lock # d
                => exec'[d] = exec[d] /\ intr'[d] = "none" /\ lock' # d,
           intr[BootCPU] = "tick" => intr'[BootCPU] = "tick"
    PROVE  Sleepers'
<1>1. \A q \in Slots : pc'[q] = "sleep_lk" => HoldsTicks(q)'
  <2> TAKE q \in Slots
  <2> HAVE pc'[q] = "sleep_lk"
  <2>1. PICK d \in CPU : exec[d] = q /\ tlock = d /\ intr[d] = "none" /\ lock # d
    BY DEF Sleepers, HoldsTicks
  <2> QED BY <2>1, NilNoSlot DEF HoldsTicks
<1> QED BY <1>1 DEF Sleepers

(* run_time++ comes after the sleepers have been woken.                     *)
LEMMA SleepersCount ==
    ASSUME IInv, Clock, Sleepers, CountRun(BootCPU),
           UNCHANGED <<pc, chan, until, ticks>>,
           \A q \in Slots : state'[q] = "SLEEPING" => state[q] = "SLEEPING"
    PROVE  Sleepers'
<1>1. \A q \in Slots : pc[q] # "sleep_lk"
  BY NoneFallingAsleep, ProcAssumption DEF CountRun, Counting
<1>2. intr[BootCPU] # "tick"
  BY DEF CountRun
<1> QED BY <1>1, <1>2 DEF Sleepers

LEMMA SleepersCpu ==
    ASSUME IInv, Clock, Sleepers, NEW c \in CPU, OtherCpuStep(c),
           UNCHANGED <<until, ticks>>
    PROVE  Sleepers'
<1>1. CASE TimerOther(c)
  <2>1. /\ tlock # c /\ UNCHANGED <<state, pc, chan, exec, lock, tlock>>
        /\ c # BootCPU /\ \A d \in CPU \ {c} : intr'[d] = intr[d]
    BY <1>1 DEF TimerOther, Interruptible, slotVars, threadVars, IInv, TypeOK
  <2> QED BY <2>1, ProcAssumption, SleepersStay
<1>2. CASE TimerWakeup(c)
  <2>1. intr[c] = "tick" /\ UNCHANGED <<pc, chan>> /\ state' = Wakeup1(TickWakes)
    BY <1>2 DEF TimerWakeup, threadVars
  <2>2. \A q \in Slots : pc[q] # "sleep_lk"
    BY <2>1, NoneFallingAsleep DEF Counting
  <2>3. \A q \in Slots : state'[q] = "SLEEPING" =>
                            state[q] = "SLEEPING" /\ chan[q] # TicksChan
    BY <2>1 DEF Wakeup1, TickWakes
  <2> QED BY <2>1, <2>2, <2>3 DEF Sleepers
<1>3. CASE TimerDone(c)
  <2>1. /\ intr[c] = "yield" /\ lock' \in {lock, c}
        /\ UNCHANGED <<chan, exec, tlock>>
        /\ \A d \in CPU \ {c} : intr'[d] = intr[d]
    BY <1>3 DEF TimerDone, IntoSched, IInv, TypeOK
  <2>2. \A q \in Slots :
          /\ state'[q] = "SLEEPING" => state[q] = "SLEEPING"
          /\ pc'[q] \in {"sleep_lk", "asleep"} => pc'[q] = pc[q]
    BY <1>3 DEF TimerDone, Goto, IInv, TypeOK
  <2>3. ASSUME NEW q \in Slots, pc'[q] = "sleep_lk"
        PROVE  ticks < until[q] /\ HoldsTicks(q)'
    <3>1. pc[q] = "sleep_lk"
      BY <2>2, <2>3
    <3>2. PICK d \in CPU : exec[d] = q /\ tlock = d /\ intr[d] = "none" /\ lock # d
      BY <3>1 DEF Sleepers, HoldsTicks
    <3>3. d # c
      BY <2>1, <3>2
    <3> QED BY <2>1, <3>1, <3>2, <3>3 DEF Sleepers, HoldsTicks
  <2>4. intr[BootCPU] = "tick" => intr'[BootCPU] = "tick"
    BY <2>1, ProcAssumption
  <2> QED BY <2>1, <2>2, <2>3, <2>4 DEF Sleepers
<1>4. CASE Swtch(c)
  <2>1. /\ lock = c /\ UNCHANGED <<state, pc, chan, intr, lock, tlock>>
        /\ \A d \in CPU \ {c} : exec'[d] = exec[d]
    BY <1>4 DEF Swtch, slotVars, threadVars, IInv, TypeOK
  <2> QED BY <2>1, SleepersStay
<1> QED BY <1>1, <1>2, <1>3, <1>4 DEF OtherCpuStep

(* allocproc() changes only the thread that calls it and a free slot.       *)
LEMMA AllocFrame ==
    ASSUME IInv, NEW c \in CPU, NEW p \in Slots, AllocProc(c, p)
    PROVE  /\ UNCHANGED <<exec, cproc, chan, lock>> /\ exec[c] = p
           /\ \A q \in Slots : state'[q] = "SLEEPING" => state[q] = "SLEEPING"
           /\ pc'[p] \in {"sysret", "fork_kstack"}
           /\ \A q \in Slots \ {p} : pc'[q] = pc[q]
<1>1. pc' = [pc EXCEPT ![p] = "sysret"] \/ pc' = [pc EXCEPT ![p] = "fork_kstack"]
  BY DEF AllocProc, Goto
<1>2. state' = state \/ state' = [state EXCEPT ![Min(Unused)] = "EMBRYO"]
  BY DEF AllocProc
<1> QED BY <1>1, <1>2 DEF AllocProc, InThread, IInv, TypeOK

LEMMA SleepersNext ==
    ASSUME IInv, StatsTypeOK, Clock, Sleepers, StatsNext
    PROVE  Sleepers'
<1> PICK c \in CPU :
        \/ SchedulerStats(c) \/ IdlePass(c) \/ SchedulerResumeStats(c)
        \/ TimerTickStats(c) \/ TimerCountStats(c)
        \/ TickInScheduler(c) \/ TickInResume(c) \/ CountInScheduler(c)
        \/ TickInIdle(c) \/ CountInIdle(c)
        \/ OtherCpuStep(c) /\ UNCHANGED statVars
        \/ \E p \in Slots :
             \/ ForkAllocStats(c, p) \/ TickInAlloc(c, p)
             \/ ExitStartStats(c, p) \/ SleepCheckStats(c, p)
             \/ OtherThreadStep(c, p) /\ UNCHANGED statVars
  BY DEF StatsNext
<1>1. CASE SchedulerStats(c)
  <2>1. Dispatch(c) /\ UNCHANGED <<intr, tlock, ticks, until>> /\ lock' = c
    BY <1>1 DEF SchedulerStats, Scheduler, Dispatch, PassAndChoose
  <2> QED BY <2>1, DispatchFrame, SleepersStay
<1>2. CASE IdlePass(c)
  BY <1>2, SleepersStay DEF IdlePass, PassOnly, vars, slotVars, threadVars, cpuVars
<1>3. CASE SchedulerResumeStats(c)
  <2>1. UNCHANGED <<state, pc, chan, exec, intr, tlock, ticks, until>> /\ lock' = NoCPU
    BY <1>3 DEF SchedulerResumeStats, SchedulerResume, SwtchBack, ChargeRun, slotVars,
                threadVars
  <2> QED BY <2>1, ProcAssumption, SleepersStay
<1>4. CASE TimerTickStats(c)
  <2>1. CountTick(BootCPU) /\ UNCHANGED <<state, pc, chan, until>>
    BY <1>4 DEF TimerTickStats, TimerTick, CountTick, slotVars, threadVars
  <2> QED BY <2>1, SleepersTick
<1>5. CASE TimerCountStats(c)
  <2>1. CountRun(c) /\ UNCHANGED <<state, pc, chan, until, ticks>>
    BY <1>5 DEF TimerCountStats, TimerCount, slotVars, threadVars
  <2>2. c = BootCPU
    BY <2>1 DEF CountRun, Clock, Counting
  <2> QED BY <2>1, <2>2, SleepersCount
<1>6. CASE TickInScheduler(c)
  <2>1. CountTick(BootCPU) /\ Dispatch(c) /\ UNCHANGED until
    BY <1>6 DEF TickInScheduler, TickMeanwhile, PassAndChoose
  <2> QED BY <2>1, DispatchFrame, SleepersTick
<1>7. CASE TickInResume(c)
  <2>1. CountTick(BootCPU) /\ UNCHANGED <<state, pc, chan, until>>
    BY <1>7 DEF TickInResume, TickMeanwhile, SwtchBack, ChargeRun, slotVars, threadVars
  <2> QED BY <2>1, SleepersTick
<1>8. CASE CountInScheduler(c)
  <2>1. CountRun(BootCPU) /\ Dispatch(c) /\ UNCHANGED <<until, ticks>>
    BY <1>8 DEF CountInScheduler, CountMeanwhile
  <2> QED BY <2>1, DispatchFrame, SleepersCount
<1>14. CASE TickInIdle(c)
  <2>1. CountTick(BootCPU) /\ UNCHANGED <<state, pc, chan, until>>
    BY <1>14 DEF TickInIdle, TickMeanwhile, PassOnly, slotVars, threadVars
  <2> QED BY <2>1, SleepersTick
<1>15. CASE CountInIdle(c)
  <2>1. CountRun(BootCPU) /\ UNCHANGED <<state, pc, chan, until, ticks>>
    BY <1>15 DEF CountInIdle, CountMeanwhile, slotVars, threadVars
  <2> QED BY <2>1, SleepersCount
<1>9. CASE OtherCpuStep(c) /\ UNCHANGED statVars
  BY <1>9, SleepersCpu DEF statVars
<1>10. ASSUME NEW p \in Slots, ForkAllocStats(c, p)
       PROVE  Sleepers'
  <2>1. AllocProc(c, p) /\ UNCHANGED <<intr, tlock, ticks, until>>
    BY <1>10 DEF ForkAllocStats, ForkAlloc, OpenAccount
  <2>2. Frame(c, p) /\ Awake(c, p)
    BY <2>1, AllocFrame DEF Frame, Awake, Others
  <2> QED BY <2>1, <2>2, SleepersFrame
<1>11. ASSUME NEW p \in Slots, TickInAlloc(c, p)
       PROVE  Sleepers'
  <2>1. AllocProc(c, p) /\ CountTick(BootCPU) /\ UNCHANGED until
    BY <1>11 DEF TickInAlloc, TickMeanwhile, OpenAccount
  <2>2. \A q \in Slots : pc'[q] \in {"sleep_lk", "asleep"} => pc'[q] = pc[q]
    BY <2>1, AllocFrame
  <2> QED BY <2>1, <2>2, AllocFrame, SleepersTick
<1>12. ASSUME NEW p \in Slots, ExitStartStats(c, p)
       PROVE  Sleepers'
  <2>1. /\ InThread(c, p, "exit") /\ UNCHANGED <<ticks, until>>
        /\ UNCHANGED <<state, chan, exec, cproc, intr, lock, tlock>>
        /\ \E m \in {"panic", "exiting"} : Goto(p, m)
    BY <1>12 DEF ExitStartStats, ExitStart, slotVars, cpuVars
  <2>2. "exit" \in Labels /\ {"panic", "exiting"} \subseteq Labels \ {"sleep_lk", "asleep"}
    BY DEF Labels
  <2> QED BY <2>1, <2>2, FrameQuiet, SleepersFrame
<1>13. ASSUME NEW p \in Slots, OtherThreadStep(c, p), UNCHANGED statVars
       PROVE  Sleepers'
  BY <1>13, FrameOther, SleepersFrame, SleepersSleep DEF statVars
<1> QED
  BY <1>1, <1>2, <1>3, <1>4, <1>5, <1>6, <1>7, <1>8, <1>9, <1>10, <1>11, <1>12,
     <1>13, <1>14, <1>15, SleepersCheck

(***************************************************************************)
(* Theorems.                                                               *)
(***************************************************************************)
LEMMA StatsInvInit ==
    ASSUME StatsInit
    PROVE  StatsInv
<1>1. IInv
  BY IInvInit DEF StatsInit
<1>2. StatsTypeOK
  BY DEF StatsInit, StatsTypeOK, Zero
<1>3. Clock /\ \A p \in Slots : ~Pending(p)
  BY ProcAssumption DEF StatsInit, Init, Clock, Counting, Pending
<1>4. Accounts
  <2>1. \A p \in Slots : InDebt(p) = 0
    BY <1>3 DEF InDebt
  <2> QED BY <2>1 DEF StatsInit, Zero, Accounts, AccountOK
<1>5. Sleepers
  BY DEF StatsInit, Init, Sleepers
<1> QED BY <1>1, <1>2, <1>3, <1>4, <1>5 DEF StatsInv

LEMMA StatsInvNext ==
    ASSUME StatsInv, [StatsNext]_allVars
    PROVE  StatsInv'
<1>1. CASE StatsNext
  BY <1>1, ProcInv, ClockNext, AccountsNext, SleepersNext DEF StatsInv
<1>2. CASE UNCHANGED allVars
  <2>1. IInv'
    BY <1>2, IInvNext DEF allVars, StatsInv
  <2>2. UNCHANGED <<state, cproc, intr, tlock, pc, chan, exec, lock>>
        /\ UNCHANGED <<ticks, wait_time, run_time, turnaround_time, creation_time,
                       last_scheduled, until>>
    BY <1>2 DEF allVars, vars, slotVars, threadVars, cpuVars, statVars, accounts
  <2>3. StatsTypeOK' /\ Clock' /\ Sleepers'
    BY <2>2 DEF StatsInv, StatsTypeOK, Clock, Counting, Sleepers, HoldsTicks
  <2>4. Accounts'
    <3>1. NoBirth /\ \A p \in Slots : Pending(p)' => Pending(p)
      BY <2>2 DEF NoBirth, Pending, Counting
    <3> QED BY <2>2, <3>1, SameAccounts DEF StatsInv
  <2> QED BY <2>1, <2>3, <2>4 DEF StatsInv
<1> QED BY <1>1, <1>2

(* The inductive invariant of the accounting, which contains that of the    *)
(* process table: one CPU per stack also holds when ticks fall inside the   *)
(* critical sections of other CPUs.                                         *)
THEOREM StatsInvariant == StatsSpec => []StatsInv
BY StatsInvInit, StatsInvNext, PTL DEF StatsSpec

(* The times that getstats() and ps report stay within the life time of the *)
(* process, wherever a tick falls between the reads of ticks in scheduler() *)
(* and allocproc(), and whichever of two racing updates of run_time is      *)
(* lost.                                                                    *)
THEOREM TimesAreBounded == StatsSpec => []TimesBounded
<1>1. StatsInv => TimesBounded
  <2> SUFFICES ASSUME StatsInv, NEW p \in Slots, state[p] # "UNUSED"
               PROVE  /\ creation_time[p] <= last_scheduled[p]
                      /\ last_scheduled[p] <= ticks
                      /\ wait_time[p] <= last_scheduled[p] - creation_time[p]
                      /\ run_time[p] + wait_time[p]
                            <= (last_scheduled[p] - creation_time[p])
                               + (ticks - creation_time[p])
    BY DEF TimesBounded, StatsInv
  <2>1. /\ wait_time[p] \in Nat /\ run_time[p] \in Nat /\ creation_time[p] \in Nat
        /\ last_scheduled[p] \in Nat /\ ticks \in Nat
    BY DEF StatsInv, StatsTypeOK
  <2>2. AccountOK(p) /\ InDebt(p) \in {0, 1}
    BY Debts DEF StatsInv, Accounts
  <2> QED BY <2>1, <2>2 DEF AccountOK
<1> QED BY <1>1, StatsInvariant, PTL

(* sys_sleep misses no tick: the process holds tickslock from the check of  *)
(* its loop until sleep() has ptable.lock, and wakeup(&ticks) comes before  *)
(* the handler releases tickslock, so nobody sleeps past the deadline.      *)
THEOREM NobodyOversleeps == StatsSpec => []NotOverdue
<1>1. StatsInv => NotOverdue
  BY ProcAssumption DEF StatsInv, NotOverdue, Sleepers, Clock, Counting
<1> QED BY <1>1, StatsInvariant, PTL

=============================================================================
