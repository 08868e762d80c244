------------------------------ MODULE LogProofs -----------------------------
(***************************************************************************)
(* Proofs about Log, for any number of processes and blocks and any sizes  *)
(* of the log and of its reservations.                                     *)
(***************************************************************************)
EXTENDS Log, FiniteSetTheorems, TLAPS

(***************************************************************************)
(* The inductive invariant.                                                *)
(***************************************************************************)

(* No process is in a call before recovery has finished.                    *)
Quiet == boot # "ready" => ~committing /\ \A p \in Process : pc[p] = "idle"

(* outstanding counts the operations between begin_op and end_op.           *)
Counted == outstanding = Cardinality(InOp)

(* A commit is the business of one process, with no operation in progress.  *)
Commits == {"write_log", "write_head", "install", "clear", "done"}
Committers ==
    /\ committing <=> \E p \in Process : pc[p] \in Commits
    /\ \A p, q \in Process : pc[p] \in Commits /\ pc[q] \in Commits => p = q
    /\ committing => outstanding = 0

(* A process in log_write holds the buffer of a block it has still to log,  *)
(* and no other process holds that one.                                     *)
Held ==
    /\ \A p \in Process : pc[p] # "panic"
    /\ \A p \in Process : IF pc[p] = "log_write" THEN cur[p] \in todo[p]
                          ELSE cur[p] = NoBlock
    /\ \A p, q \in Process : cur[p] = cur[q] /\ p # q => cur[p] = NoBlock

(* The blocks that running operations have still to log fit in, together    *)
(* with the ones already logged.                                            *)
Shares == \A p \in Process : Cardinality(todo[p]) <= OpBlocks
Pending == {x \in Process \X Block : x[1] \in InOp /\ x[2] \in todo[x[1]]}
Reserved ==
    InOp # {} => Len(lh) + Cardinality(Pending) <= LOGSIZE - MAXOPBLOCKS + OpBlocks

(* No block is in the log twice.                                            *)
Once(s) == \A i, j \in 1..Len(s) : s[i] = s[j] => i = j
Distinct == Once(lh) /\ Once(hdr)

(* Progress of recovery: how much of the log is installed.                  *)
Installed(s, n) == \A i \in 1..n : disk[s[i]] = logd[i]
Recovery ==
    /\ boot # "ready" => cache = disk
    /\ boot = "install" => lh = hdr /\ tail <= Len(lh) /\ Installed(lh, tail)
    /\ boot = "clear" => lh = <<>> /\ Installed(hdr, Len(hdr))

(* Progress of a commit: how much of the transaction is in the log, and     *)
(* how much of the log is installed.                                        *)
Logged(n) == \A i \in 1..n : logd[i] = cache[lh[i]]
Committed ==
    /\ boot = "ready" /\ (\A p \in Process : pc[p] \notin {"install", "clear"}) => hdr = <<>>
    /\ \A p \in Process :
         /\ pc[p] = "write_log" => tail <= Len(lh) /\ Logged(tail)
         /\ pc[p] = "write_head" => Logged(Len(lh))
         /\ pc[p] = "install" => /\ hdr = lh /\ tail <= Len(lh)
                                 /\ Logged(Len(lh)) /\ Installed(lh, tail)
         /\ pc[p] = "clear" => lh = <<>> /\ Installed(hdr, Len(hdr))
         /\ pc[p] = "done" => lh = <<>>

(* Only blocks of the current transaction differ from their home block.     *)
Clean ==
    /\ boot = "ready" =>
         \A b \in Block : b \notin Range(lh) /\ (\A q \in Process : cur[q] # b)
                          => disk[b] = cache[b]
    /\ boot = "ready" /\ outstanding = 0 /\ ~committing => lh = <<>>

LogInv ==
    /\ TypeOK /\ Quiet /\ Counted /\ Committers /\ Held /\ Shares /\ Reserved
    /\ Distinct /\ Recovery /\ Committed /\ Clean /\ SleeperMustWait

(***************************************************************************)
(* Counting.                                                               *)
(***************************************************************************)

LEMMA InOpFinite == IsFiniteSet(InOp) /\ Cardinality(InOp) \in Nat
<1>1. InOp \in SUBSET Process
  BY DEF InOp
<1>2. IsFiniteSet(InOp)
  BY <1>1, LogAssumption, FS_Subset
<1> QED
  BY <1>2, FS_CardinalityType

(* Sets of at most k elements, one for each member of S, have at most       *)
(* Cardinality(S) * k elements between them.                                *)
LEMMA PairsBound ==
    ASSUME NEW S, IsFiniteSet(S), NEW B, IsFiniteSet(B), NEW T \in [S -> SUBSET B],
           NEW k \in Nat, \A x \in S : Cardinality(T[x]) <= k
    PROVE  LET P == {z \in S \X B : z[2] \in T[z[1]]}
           IN IsFiniteSet(P) /\ Cardinality(P) \in Nat /\ Cardinality(P) <= Cardinality(S) * k
<1> DEFINE P == {z \in S \X B : z[2] \in T[z[1]]}
<1>1. \A x \in S : \E f : f \in Injection(T[x], 1..k)
  <2> SUFFICES ASSUME NEW x \in S PROVE \E f : f \in Injection(T[x], 1..k)
    OBVIOUS
  <2> DEFINE n == Cardinality(T[x])
  <2>1. IsFiniteSet(T[x])
    <3>1. T[x] \in SUBSET B
      OBVIOUS
    <3> QED BY <3>1, FS_Subset
  <2>2. n \in Nat /\ n <= k
    BY <2>1, FS_CardinalityType
  <2>3. IsFiniteSet(1..n) /\ Cardinality(1..n) = n
    BY <2>2, FS_Interval
  <2>4. ExistsBijection(T[x], 1..n)
    BY <2>1, <2>3, FS_SameCardinalityBij
  <2>5. PICK f \in [T[x] -> 1..n] : f \in Injection(T[x], 1..n)
    BY <2>4 DEF ExistsBijection, Bijection, Injection
  <2>6. f \in Injection(T[x], 1..k)
    <3>1. f \in [T[x] -> 1..k]
      BY <2>2, <2>5
    <3> QED BY <3>1, <2>5 DEF Injection
  <2> QED BY <2>6
<1> DEFINE inj == [x \in S |-> CHOOSE f : f \in Injection(T[x], 1..k)]
           h == [z \in P |-> <<z[1], inj[z[1]][z[2]]>>]
<1>2. \A x \in S : inj[x] \in Injection(T[x], 1..k)
  BY <1>1
<1>3. ASSUME NEW x \in S
      PROVE  /\ \A b \in T[x] : inj[x][b] \in 1..k
             /\ \A a, b \in T[x] : inj[x][a] = inj[x][b] => a = b
  <2> HIDE DEF inj
  <2> QED BY <1>2 DEF Injection, IsInjective
<1>4. h \in Injection(P, S \X (1..k))
  <2> HIDE DEF inj
  <2>1. h \in [P -> S \X (1..k)]
    BY <1>3
  <2>2. ASSUME NEW y \in P, NEW z \in P, h[y] = h[z] PROVE y = z
    <3>1. y[1] = z[1] /\ inj[y[1]][y[2]] = inj[z[1]][z[2]]
      BY <2>2
    <3>2. y[2] = z[2]
      BY <3>1, <1>3
    <3> QED BY <3>1, <3>2
  <2> QED BY <2>1, <2>2 DEF Injection, IsInjective
<1>5. IsFiniteSet(1..k) /\ Cardinality(1..k) = k
  BY FS_Interval
<1>6. IsFiniteSet(S \X (1..k)) /\ Cardinality(S \X (1..k)) = Cardinality(S) * k
  BY <1>5, FS_Product
<1>7. IsFiniteSet(P) /\ Cardinality(P) <= Cardinality(S) * k
  <2> HIDE DEF P, h
  <2> QED BY <1>4, <1>6, FS_Injection
<1>8. Cardinality(P) \in Nat
  BY <1>7, FS_CardinalityType
<1> QED
  BY <1>7, <1>8

(* Every operation in progress stays within its share.                      *)
LEMMA PendingBound ==
    TypeOK /\ Shares =>
        /\ IsFiniteSet(Pending) /\ Cardinality(Pending) \in Nat
        /\ Cardinality(Pending) <= Cardinality(InOp) * OpBlocks
<1> SUFFICES ASSUME TypeOK, Shares
             PROVE  /\ IsFiniteSet(Pending) /\ Cardinality(Pending) \in Nat
                    /\ Cardinality(Pending) <= Cardinality(InOp) * OpBlocks
  OBVIOUS
<1> DEFINE T == [p \in InOp |-> todo[p]]
           P == {z \in InOp \X Block : z[2] \in T[z[1]]}
<1>1. InOp \subseteq Process /\ IsFiniteSet(InOp)
  BY InOpFinite DEF InOp
<1>2. T \in [InOp -> SUBSET Block] /\ \A p \in InOp : Cardinality(T[p]) <= OpBlocks
  BY <1>1 DEF TypeOK, Shares
<1>3. OpBlocks \in Nat /\ IsFiniteSet(Block)
  BY LogAssumption
<1>4. Pending = P
  BY <1>1 DEF Pending
<1>5. IsFiniteSet(P) /\ Cardinality(P) \in Nat /\ Cardinality(P) <= Cardinality(InOp) * OpBlocks
  <2> HIDE DEF T
  <2> QED BY <1>1, <1>2, <1>3, PairsBound
<1> QED
  BY <1>4, <1>5

LEMMA LogInvInit == Init => LogInv
<1> SUFFICES ASSUME Init PROVE LogInv
  OBVIOUS
<1>1. TypeOK
  <2>1. hdr \in Seq(Block) /\ Len(hdr) <= LOGSIZE /\ lh \in Seq(Block) /\ Len(lh) <= LOGSIZE
    BY LogAssumption DEF Init
  <2>2. 0 \in Value /\ started \in 0..MaxOps /\ crashes \in 0..MaxCrashes /\ tail \in 0..LOGSIZE
    BY LogAssumption DEF Init, Value
  <2> QED
    BY <2>1, <2>2 DEF Init, TypeOK, Labels, Boots
<1>2. InOp = {}
  BY DEF Init, InOp
<1>3. Counted
  BY <1>2, FS_EmptySet DEF Init, Counted
<1>4. Shares
  BY LogAssumption, FS_EmptySet DEF Init, Shares
<1>5. Quiet /\ Committers /\ Held /\ Reserved /\ Distinct
  BY <1>2 DEF Init, Quiet, Committers, Commits, Held, Reserved, Distinct, Once
<1>6. Recovery /\ Committed /\ Clean /\ SleeperMustWait
  BY DEF Init, Recovery, Committed, Clean, SleeperMustWait
<1> QED
  BY <1>1, <1>3, <1>4, <1>5, <1>6 DEF LogInv

(* What is known during a commit, and during an operation.                  *)
LEMMA DuringCommit ==
    ASSUME LogInv, NEW p \in Process, pc[p] \in Commits
    PROVE  /\ boot = "ready" /\ committing /\ outstanding = 0 /\ InOp = {}
           /\ \A q \in Process : cur[q] = NoBlock
           /\ \A q \in Process \ {p} : pc[q] \notin Commits
           /\ \A b \in Block \ Range(lh) : disk[b] = cache[b]
<1>1. boot = "ready"
  BY DEF LogInv, Quiet, Commits
<1>2. committing /\ outstanding = 0
  BY DEF LogInv, Committers
<1>3. InOp = {}
  BY <1>2, InOpFinite, FS_EmptySet DEF LogInv, Counted
<1>4. \A q \in Process : cur[q] = NoBlock
  BY <1>3 DEF LogInv, Held, InOp
<1>5. \A q \in Process \ {p} : pc[q] \notin Commits
  BY DEF LogInv, Committers
<1>6. \A b \in Block \ Range(lh) : disk[b] = cache[b]
  BY <1>1, <1>4, LogAssumption DEF LogInv, Clean
<1> QED
  BY <1>1, <1>2, <1>3, <1>4, <1>5, <1>6

LEMMA DuringOp ==
    ASSUME LogInv, NEW p \in InOp
    PROVE  /\ boot = "ready" /\ ~committing /\ outstanding >= 1 /\ outstanding \in Nat
           /\ \A q \in Process : pc[q] \notin Commits
           /\ hdr = <<>>
<1>1. p \in Process /\ pc[p] \in {"op", "log_write", "panic"}
  BY DEF InOp
<1>2. boot = "ready"
  BY <1>1 DEF LogInv, Quiet
<1>3. outstanding \in Nat /\ outstanding >= 1
  <2>1. Cardinality(InOp) # 0
    BY InOpFinite, FS_EmptySet
  <2> QED BY <2>1, InOpFinite DEF LogInv, Counted
<1>4. ~committing /\ \A q \in Process : pc[q] \notin Commits
  BY <1>3 DEF LogInv, Committers
<1>5. hdr = <<>>
  BY <1>2, <1>4 DEF LogInv, Committed, Commits
<1> QED
  BY <1>2, <1>3, <1>4, <1>5

(***************************************************************************)
(* Recovery.                                                               *)
(***************************************************************************)

(* Before the file system is ready there are no operations and nothing is   *)
(* reserved, so what counts is only the progress of recovery.               *)
LEMMA InvRecover ==
    ASSUME LogInv, boot # "ready", TypeOK', Distinct', Recovery',
           boot' = "ready" => hdr' = <<>> /\ lh' = <<>> /\ cache' = disk',
           UNCHANGED <<outstanding, committing, pc, opVars>>
    PROVE  LogInv'
<1>1. ~committing /\ \A p \in Process : pc[p] = "idle"
  BY DEF LogInv, Quiet
<1>2. InOp' = InOp /\ InOp = {}
  BY <1>1 DEF InOp
<1>3. Quiet' /\ Committers' /\ Held' /\ Counted'
  BY <1>1, <1>2 DEF LogInv, Quiet, Committers, Held, Counted, opVars
<1>4. Shares' /\ Reserved'
  BY <1>2 DEF LogInv, Shares, Reserved, opVars
<1>5. Committed' /\ SleeperMustWait'
  BY <1>1 DEF Committed, SleeperMustWait
<1>6. Clean'
  BY <1>1 DEF Clean
<1> QED
  BY <1>3, <1>4, <1>5, <1>6 DEF LogInv

LEMMA InvReadHead == ASSUME LogInv, ReadHead PROVE LogInv'
<1>1. TypeOK'
  BY LogAssumption DEF LogInv, TypeOK, ReadHead, diskVars, opVars, Boots
<1>2. Distinct'
  BY DEF LogInv, Distinct, Once, ReadHead, diskVars
<1>3. Recovery'
  <2>1. lh' \in Seq(Block) /\ tail' = 0 /\ 0 <= Len(lh')
    BY DEF LogInv, TypeOK, ReadHead
  <2> QED
    BY <2>1 DEF LogInv, Recovery, Installed, ReadHead, diskVars
<1> QED
  BY <1>1, <1>2, <1>3, InvRecover DEF ReadHead

(* One more block of a log without repetitions is installed.                *)
LEMMA InstallOne ==
    ASSUME TypeOK, Once(lh), tail <= Len(lh), Installed(lh, tail), InstallBlock,
           UNCHANGED <<lh, logd>>
    PROVE  /\ tail' = tail + 1 /\ tail' <= Len(lh)
           /\ lh[tail + 1] \in Block /\ logd[tail + 1] \in Value
           /\ tail' \in 0..LOGSIZE
           /\ disk' \in [Block -> Value] /\ cache' \in [Block -> Value]
           /\ (Installed(lh, tail))'
<1>1. tail \in Nat /\ Len(lh) \in Nat /\ tail < Len(lh) /\ LOGSIZE \in Nat /\ Len(lh) <= LOGSIZE
  BY LogAssumption DEF TypeOK, InstallBlock
<1>2. tail' = tail + 1 /\ tail' <= Len(lh) /\ tail + 1 \in 1..Len(lh) /\ tail' \in 0..LOGSIZE
  BY <1>1 DEF InstallBlock
<1>3. lh[tail + 1] \in Block /\ logd[tail + 1] \in Value
  BY <1>1, <1>2 DEF TypeOK, LogSlots
<1>4. disk' \in [Block -> Value] /\ cache' \in [Block -> Value]
  BY <1>3 DEF TypeOK, InstallBlock
<1>5. ASSUME NEW i \in 1..tail' PROVE disk'[lh[i]] = logd[i]
  <2>1. i \in 1..Len(lh)
    BY <1>1, <1>2
  <2>2. lh[i] \in Block
    BY <2>1 DEF TypeOK
  <2>3. CASE i = tail + 1
    BY <2>2, <2>3 DEF InstallBlock, TypeOK
  <2>4. CASE i # tail + 1
    <3>1. i \in 1..tail
      BY <1>1, <1>2, <2>4
    <3>2. lh[i] # lh[tail + 1]
      BY <1>2, <2>1, <2>4 DEF Once
    <3>3. disk'[lh[i]] = disk[lh[i]]
      BY <2>2, <3>2 DEF InstallBlock, TypeOK
    <3> QED BY <3>1, <3>3 DEF Installed
  <2> QED BY <2>3, <2>4
<1> QED
  BY <1>2, <1>3, <1>4, <1>5 DEF Installed

LEMMA InvRecoverInstall == ASSUME LogInv, RecoverInstall PROVE LogInv'
<1>1. /\ boot = "install" /\ lh = hdr /\ tail <= Len(lh) /\ Installed(lh, tail)
      /\ cache = disk
      /\ UNCHANGED <<hdr, logd, outstanding, committing, pc, opVars, crashes>>
  BY DEF RecoverInstall, LogInv, Recovery
<1>2. CASE InstallBlock /\ UNCHANGED <<lh, boot>>
  <2>1. /\ tail' <= Len(lh) /\ tail' \in 0..LOGSIZE /\ (Installed(lh, tail))'
        /\ disk' \in [Block -> Value] /\ cache' \in [Block -> Value]
    BY <1>1, <1>2, InstallOne DEF LogInv, Distinct
  <2>2. TypeOK'
    BY <1>1, <1>2, <2>1 DEF LogInv, TypeOK, opVars
  <2>3. Distinct'
    BY <1>1, <1>2 DEF LogInv, Distinct, Once
  <2>4. Recovery'
    <3>1. cache' = disk'
      BY <1>1, <1>2 DEF InstallBlock
    <3> QED
      BY <1>1, <1>2, <2>1, <3>1 DEF Recovery
  <2> QED
    BY <1>1, <1>2, <2>2, <2>3, <2>4, InvRecover
<1>3. CASE tail = Len(lh) /\ lh' = <<>> /\ boot' = "clear" /\ UNCHANGED <<disk, cache, tail>>
  <2>1. TypeOK'
    <3>1. lh' \in Seq(Block) /\ Len(lh') <= LOGSIZE
      BY <1>3, LogAssumption
    <3> QED BY <1>1, <1>3, <3>1 DEF LogInv, TypeOK, opVars, Boots
  <2>2. Distinct'
    BY <1>1, <1>3 DEF LogInv, Distinct, Once
  <2>3. Recovery'
    BY <1>1, <1>3 DEF Recovery, Installed
  <2> QED
    BY <1>1, <1>3, <2>1, <2>2, <2>3, InvRecover
<1> QED
  BY <1>2, <1>3 DEF RecoverInstall

LEMMA InvRecoverClear == ASSUME LogInv, RecoverClear PROVE LogInv'
<1>1. boot = "clear" /\ lh = <<>> /\ cache = disk
  BY DEF RecoverClear, LogInv, Recovery
<1>2. TypeOK'
  BY DEF LogInv, TypeOK, RecoverClear, logVars, opVars, Boots
<1>3. Distinct'
  BY DEF LogInv, Distinct, Once, RecoverClear, logVars
<1>4. Recovery'
  BY DEF Recovery, RecoverClear
<1> QED
  BY <1>1, <1>2, <1>3, <1>4, InvRecover DEF RecoverClear, logVars, opVars

LEMMA InvCrash == ASSUME LogInv, Crash PROVE LogInv'
<1>1. TypeOK'
  <2>1. lh' \in Seq(Block) /\ Len(lh') <= LOGSIZE
    BY LogAssumption DEF Crash
  <2>2. crashes' \in 0..MaxCrashes
    BY LogAssumption DEF Crash, LogInv, TypeOK
  <2>3. tail' \in 0..LOGSIZE /\ outstanding' \in Nat
    BY LogAssumption DEF Crash
  <2>4. /\ pc' \in [Process -> Labels] /\ todo' \in [Process -> SUBSET Block]
        /\ cur' \in [Process -> Block \cup {NoBlock}]
    BY DEF Crash, Labels
  <2>5. cache' \in [Block -> Value]
    BY DEF LogInv, TypeOK, Crash
  <2>6. committing' \in BOOLEAN /\ boot' \in Boots
    BY DEF Crash, Boots
  <2> QED
    BY <2>1, <2>2, <2>3, <2>4, <2>5, <2>6 DEF LogInv, TypeOK, Crash, diskVars
<1>2. InOp' = {}
  BY DEF Crash, InOp
<1>3. Counted' /\ Shares' /\ Reserved'
  <2>1. Shares'
    BY LogAssumption, FS_EmptySet DEF Crash, Shares
  <2> QED
    BY <1>2, <2>1, FS_EmptySet DEF Counted, Reserved, Crash
<1>4. Quiet' /\ Committers' /\ Held'
  BY DEF Crash, Quiet, Committers, Commits, Held
<1>5. Distinct'
  BY DEF Crash, LogInv, Distinct, Once, diskVars
<1>6. Recovery' /\ Committed' /\ Clean' /\ SleeperMustWait'
  BY DEF Crash, Recovery, Committed, Clean, SleeperMustWait, diskVars
<1> QED
  BY <1>1, <1>3, <1>4, <1>5, <1>6 DEF LogInv

(***************************************************************************)
(* Operations.                                                             *)
(***************************************************************************)
LEMMA InvStartCall == ASSUME LogInv, NEW p \in Process, StartCall(p) PROVE LogInv'
<1>1. PICK ws \in SUBSET Block : Cardinality(ws) <= OpBlocks /\ todo' = [todo EXCEPT ![p] = ws]
  BY DEF StartCall
<1>2. /\ boot = "ready" /\ pc[p] = "idle" /\ pc' = [pc EXCEPT ![p] = "begin"]
      /\ started' = started + 1 /\ started < MaxOps /\ op' = [op EXCEPT ![p] = started + 1]
      /\ UNCHANGED <<diskVars, cache, logVars, cur, boot, crashes>>
  BY DEF StartCall, Goto
<1>3. pc \in [Process -> Labels] /\ todo \in [Process -> SUBSET Block]
  BY DEF LogInv, TypeOK
<1>4. /\ pc'[p] = "begin" /\ \A q \in Process \ {p} : pc'[q] = pc[q]
      /\ todo'[p] = ws /\ \A q \in Process \ {p} : todo'[q] = todo[q]
  BY <1>1, <1>2, <1>3
<1>5. TypeOK'
  <2>1. started' \in 0..MaxOps /\ started + 1 \in Value
    BY <1>2, LogAssumption DEF LogInv, TypeOK, Value
  <2>2. pc' \in [Process -> Labels] /\ todo' \in [Process -> SUBSET Block]
    BY <1>1, <1>2, <1>3 DEF Labels
  <2>3. op' \in [Process -> Value]
    BY <1>2, <2>1 DEF LogInv, TypeOK
  <2> QED
    BY <1>2, <2>1, <2>2, <2>3 DEF LogInv, TypeOK, diskVars, logVars
<1>6. InOp' = InOp
  BY <1>2, <1>4 DEF InOp
<1>7. Pending' = Pending
  BY <1>2, <1>4, <1>6 DEF Pending, InOp
<1>8. Counted' /\ Shares' /\ Reserved'
  BY <1>1, <1>2, <1>4, <1>6, <1>7 DEF LogInv, Counted, Shares, Reserved, logVars
<1>9. Quiet' /\ Committers'
  BY <1>2, <1>4 DEF LogInv, Quiet, Committers, Commits, logVars
<1>10. Held'
  BY <1>2, <1>4 DEF LogInv, Held
<1>11. Distinct'
  BY <1>2 DEF LogInv, Distinct, Once, diskVars, logVars
<1>12. Recovery' /\ Clean'
  BY <1>2 DEF LogInv, Recovery, Clean, Installed, diskVars, logVars
<1>13. Committed'
  BY <1>2, <1>4 DEF LogInv, Committed, Logged, Installed, diskVars, logVars
<1>14. SleeperMustWait'
  BY <1>2, <1>4 DEF LogInv, SleeperMustWait, MustWait, logVars
<1> QED
  BY <1>5, <1>8, <1>9, <1>10, <1>11, <1>12, <1>13, <1>14 DEF LogInv

(* begin_op(): the reservation.                                             *)
LEMMA ShareFits ==
    ASSUME NEW n \in Nat, NEW l \in Nat, l + (n + 1) * MAXOPBLOCKS <= LOGSIZE
    PROVE  l + (n + 1) * OpBlocks <= LOGSIZE - MAXOPBLOCKS + OpBlocks
<1>1. MAXOPBLOCKS \in Nat /\ OpBlocks \in Nat /\ OpBlocks <= MAXOPBLOCKS /\ LOGSIZE \in Nat
  BY LogAssumption
<1>2. n * OpBlocks <= n * MAXOPBLOCKS
  BY <1>1
<1>3. (n + 1) * OpBlocks = n * OpBlocks + OpBlocks /\ (n + 1) * MAXOPBLOCKS = n * MAXOPBLOCKS + MAXOPBLOCKS
  BY <1>1
<1>4. n * OpBlocks \in Nat /\ n * MAXOPBLOCKS \in Nat
  BY <1>1
<1> QED
  BY <1>1, <1>2, <1>3, <1>4

LEMMA PendingBoundNext ==
    (TypeOK /\ Shares =>
        /\ IsFiniteSet(Pending) /\ Cardinality(Pending) \in Nat
        /\ Cardinality(Pending) <= Cardinality(InOp) * OpBlocks)'
BY PendingBound, PTL

LEMMA InvBeginOp == ASSUME LogInv, NEW p \in Process, BeginOp(p) PROVE LogInv'
<1>1. /\ pc[p] = "begin"
      /\ UNCHANGED <<diskVars, cache, lh, committing, tail, opVars, boot, crashes>>
  BY DEF BeginOp
<1>2. /\ boot = "ready" /\ pc \in [Process -> Labels] /\ p \notin InOp
      /\ outstanding \in Nat /\ Len(lh) \in Nat /\ lh \in Seq(Block)
  BY <1>1 DEF LogInv, Quiet, TypeOK, InOp
<1>3. Distinct' /\ Recovery'
  BY <1>1, <1>2 DEF LogInv, Distinct, Once, Recovery, diskVars
<1>4. Shares'
  BY <1>1 DEF LogInv, Shares, opVars
<1>5. CASE MustWait
  <2>1. pc' = [pc EXCEPT ![p] = "asleep"] /\ outstanding' = outstanding
    BY <1>5 DEF BeginOp, Goto
  <2>2. pc'[p] = "asleep" /\ \A q \in Process \ {p} : pc'[q] = pc[q]
    BY <1>2, <2>1
  <2>3. TypeOK'
    BY <1>1, <1>2, <2>1 DEF LogInv, TypeOK, diskVars, opVars, Labels
  <2>4. InOp' = InOp
    BY <1>1, <2>2 DEF InOp
  <2>5. Pending' = Pending
    BY <1>1, <2>4 DEF Pending, opVars
  <2>6. Counted' /\ Reserved'
    BY <1>1, <2>1, <2>4, <2>5 DEF LogInv, Counted, Reserved
  <2>7. Quiet' /\ Committers' /\ Held'
    BY <1>1, <1>2, <2>1, <2>2 DEF LogInv, Quiet, Committers, Commits, Held, opVars
  <2>8. Committed'
    BY <1>1, <2>2 DEF LogInv, Committed, Logged, Installed, diskVars
  <2>9. Clean'
    BY <1>1, <2>1 DEF LogInv, Clean, diskVars, opVars
  <2>10. committing \/ outstanding > 0
    <3> SUFFICES ASSUME ~committing, outstanding = 0 PROVE FALSE
      BY <1>2
    <3>1. lh = <<>>
      BY <1>2 DEF LogInv, Clean
    <3>2. Len(lh) + (outstanding + 1) * MAXOPBLOCKS <= LOGSIZE
      BY <3>1, LogAssumption
    <3> QED
      BY <1>5, <3>2, LogAssumption, <1>2 DEF MustWait
  <2>11. SleeperMustWait'
    BY <1>1, <1>5, <2>1, <2>2, <2>10 DEF LogInv, SleeperMustWait, MustWait
  <2> QED
    BY <1>3, <1>4, <2>3, <2>6, <2>7, <2>8, <2>9, <2>11 DEF LogInv
<1>6. CASE ~MustWait
  <2>1. pc' = [pc EXCEPT ![p] = "op"] /\ outstanding' = outstanding + 1
    BY <1>6 DEF BeginOp, Goto, Entered
  <2>2. pc'[p] = "op" /\ \A q \in Process \ {p} : pc'[q] = pc[q]
    BY <1>2, <2>1
  <2>3. ~committing /\ Len(lh) + (outstanding + 1) * MAXOPBLOCKS <= LOGSIZE
    BY <1>2, <1>6, LogAssumption DEF MustWait
  <2>4. TypeOK'
    BY <1>1, <1>2, <2>1 DEF LogInv, TypeOK, diskVars, opVars, Labels
  <2>5. InOp' = InOp \cup {p}
    BY <1>1, <2>2 DEF InOp
  <2>6. Counted'
    BY <1>2, <2>1, <2>5, InOpFinite, FS_AddElement DEF LogInv, Counted
  <2>7. Reserved'
    <3>1. /\ Cardinality(Pending') \in Nat
          /\ Cardinality(Pending') <= (outstanding + 1) * OpBlocks
      BY <1>4, <2>1, <2>4, <2>6, PendingBoundNext DEF Counted
    <3>2. Len(lh) + (outstanding + 1) * OpBlocks <= LOGSIZE - MAXOPBLOCKS + OpBlocks
      BY <1>2, <2>3, ShareFits
    <3>3. /\ (outstanding + 1) * OpBlocks \in Nat
          /\ LOGSIZE - MAXOPBLOCKS + OpBlocks \in Int
      BY <1>2, LogAssumption
    <3>4. Len(lh) + Cardinality(Pending') <= LOGSIZE - MAXOPBLOCKS + OpBlocks
      <4> DEFINE c == Cardinality(Pending')  m == (outstanding + 1) * OpBlocks
                 n == LOGSIZE - MAXOPBLOCKS + OpBlocks
      <4>1. c \in Nat /\ m \in Nat /\ n \in Int /\ c <= m /\ Len(lh) + m <= n
        BY <3>1, <3>2, <3>3
      <4> HIDE DEF c, m, n
      <4>2. Len(lh) + c <= n
        BY <1>2, <4>1
      <4> QED BY <4>2 DEF c, n
    <3> QED
      BY <1>1, <3>4 DEF Reserved
  <2>8. Quiet' /\ Held'
    BY <1>1, <1>2, <2>1, <2>2 DEF LogInv, Quiet, Held, opVars
  <2>9. Committers'
    BY <1>1, <2>2, <2>3 DEF LogInv, Committers, Commits
  <2>10. Committed'
    BY <1>1, <2>2 DEF LogInv, Committed, Logged, Installed, diskVars
  <2>11. Clean'
    BY <1>1, <1>2, <2>1 DEF LogInv, Clean, diskVars, opVars
  <2>12. SleeperMustWait'
    <3> SUFFICES ASSUME NEW q \in Process, pc'[q] = "asleep" PROVE FALSE
      BY DEF SleeperMustWait
    <3>1. pc[q] = "asleep"
      BY <2>2
    <3> QED
      BY <1>6, <3>1 DEF LogInv, SleeperMustWait
  <2> QED
    BY <1>3, <1>4, <2>4, <2>6, <2>7, <2>8, <2>9, <2>10, <2>11, <2>12 DEF LogInv
<1> QED
  BY <1>5, <1>6

(* The reservation is enough: with a block still to log there is room.      *)
LEMMA RoomInLog ==
    ASSUME LogInv, NEW p \in InOp, NEW b \in todo[p]
    PROVE  Len(lh) < LOGSIZE /\ Len(lh) < nlog - 1 /\ Len(lh) + 1 <= LOGSIZE
<1>1. p \in Process /\ b \in Block
  BY DEF InOp, LogInv, TypeOK
<1>2. <<p, b>> \in Pending
  BY <1>1 DEF Pending
<1>3. IsFiniteSet(Pending) /\ Cardinality(Pending) \in Nat
  BY PendingBound DEF LogInv
<1>4. Cardinality(Pending) >= 1
  <2>1. Cardinality(Pending) # 0
    BY <1>2, <1>3, FS_EmptySet
  <2> QED BY <1>3, <2>1
<1>5. Len(lh) + Cardinality(Pending) <= LOGSIZE - MAXOPBLOCKS + OpBlocks
  BY DEF LogInv, Reserved
<1>6. Len(lh) \in Nat
  BY DEF LogInv, TypeOK
<1> QED
  BY <1>3, <1>4, <1>5, <1>6, LogAssumption

LEMMA InvModifyBlock == ASSUME LogInv, NEW p \in Process, ModifyBlock(p) PROVE LogInv'
<1>1. pc[p] = "op" /\ p \in InOp
  BY DEF ModifyBlock, InOp
<1>2. PICK b \in todo[p] : /\ \A q \in Process : cur[q] # b
                           /\ cache' = [cache EXCEPT ![b] = op[p]]
                           /\ cur' = [cur EXCEPT ![p] = b]
  BY DEF ModifyBlock
<1>3. UNCHANGED <<diskVars, logVars, todo, op, started, boot, crashes>>
  BY DEF ModifyBlock
<1>4. /\ boot = "ready" /\ ~committing /\ outstanding >= 1 /\ outstanding \in Nat
      /\ \A q \in Process : pc[q] \notin Commits
      /\ hdr = <<>>
  BY <1>1, DuringOp
<1>5. pc' = [pc EXCEPT ![p] = "log_write"]
  <2>1. Len(lh) < LOGSIZE /\ Len(lh) < nlog - 1
    BY <1>1, <1>2, RoomInLog
  <2>2. ~(Len(lh) >= LOGSIZE \/ Len(lh) >= nlog - 1 \/ outstanding < 1)
    BY <1>4, <2>1, LogAssumption DEF LogInv, TypeOK
  <2> QED
    BY <2>2 DEF ModifyBlock, Goto
<1>6. /\ pc \in [Process -> Labels] /\ b \in Block /\ cur \in [Process -> Block \cup {NoBlock}]
      /\ op[p] \in Value /\ cache \in [Block -> Value]
  BY DEF LogInv, TypeOK
<1>7. /\ pc'[p] = "log_write" /\ \A q \in Process \ {p} : pc'[q] = pc[q]
      /\ cur'[p] = b /\ \A q \in Process \ {p} : cur'[q] = cur[q]
      /\ \A c \in Block \ {b} : cache'[c] = cache[c]
  BY <1>2, <1>5, <1>6
<1>8. TypeOK'
  <2>1. pc' \in [Process -> Labels]
    BY <1>5, <1>6 DEF Labels
  <2>2. cache' \in [Block -> Value] /\ cur' \in [Process -> Block \cup {NoBlock}]
    BY <1>2, <1>6
  <2> QED
    BY <1>3, <2>1, <2>2 DEF LogInv, TypeOK, diskVars, logVars
<1>9. InOp' = InOp
  BY <1>1, <1>7 DEF InOp
<1>10. Pending' = Pending
  BY <1>3, <1>9 DEF Pending
<1>11. Counted' /\ Shares' /\ Reserved'
  BY <1>3, <1>9, <1>10 DEF LogInv, Counted, Shares, Reserved, logVars
<1>12. Quiet' /\ Committers'
  BY <1>3, <1>4, <1>7 DEF LogInv, Quiet, Committers, Commits, logVars
<1>13. Held'
  <2>1. \A q \in Process : pc'[q] # "panic"
    BY <1>7 DEF LogInv, Held
  <2>2. \A q \in Process : IF pc'[q] = "log_write" THEN cur'[q] \in todo'[q]
                            ELSE cur'[q] = NoBlock
    BY <1>2, <1>3, <1>7 DEF LogInv, Held
  <2>3. \A q, r \in Process : cur'[q] = cur'[r] /\ q # r => cur'[q] = NoBlock
    BY <1>2, <1>7 DEF LogInv, Held
  <2> QED BY <2>1, <2>2, <2>3 DEF Held
<1>14. Distinct' /\ Recovery'
  BY <1>3, <1>4 DEF LogInv, Distinct, Once, Recovery, diskVars, logVars
<1>15. Committed'
  BY <1>3, <1>4, <1>7 DEF Committed, Commits, diskVars
<1>16. Clean'
  <2>1. ASSUME NEW c \in Block, c \notin Range(lh), \A q \in Process : cur'[q] # c
        PROVE  disk[c] = cache'[c]
    <3>1. c # b /\ \A q \in Process : cur[q] # c
      <4>1. c # b
        BY <1>7, <2>1
      <4>2. cur[p] = NoBlock
        BY <1>1 DEF LogInv, Held
      <4>3. c # NoBlock
        BY LogAssumption
      <4> QED BY <1>7, <2>1, <4>1, <4>2, <4>3
    <3> QED
      BY <1>4, <1>7, <2>1, <3>1 DEF LogInv, Clean
  <2> QED
    BY <1>3, <1>4, <2>1 DEF Clean, diskVars, logVars
<1>17. SleeperMustWait'
  BY <1>3, <1>7 DEF LogInv, SleeperMustWait, MustWait, logVars
<1> QED
  BY <1>8, <1>11, <1>12, <1>13, <1>14, <1>15, <1>16, <1>17 DEF LogInv

LEMMA InvLogWrite == ASSUME LogInv, NEW p \in Process, LogWrite(p) PROVE LogInv'
<1> DEFINE b == cur[p]
<1>1. /\ pc[p] = "log_write" /\ p \in InOp
      /\ lh' = IF b \in Range(lh) THEN lh ELSE Append(lh, b)
      /\ todo' = [todo EXCEPT ![p] = @ \ {b}]
      /\ cur' = [cur EXCEPT ![p] = NoBlock]
      /\ pc' = [pc EXCEPT ![p] = "op"]
      /\ UNCHANGED <<diskVars, cache, outstanding, committing, tail, op, started, boot, crashes>>
  BY DEF LogWrite, InOp, Goto
<1>2. /\ boot = "ready" /\ ~committing /\ outstanding >= 1 /\ outstanding \in Nat
      /\ \A q \in Process : pc[q] \notin Commits
      /\ hdr = <<>>
  BY <1>1, DuringOp
<1>3. /\ pc \in [Process -> Labels] /\ cur \in [Process -> Block \cup {NoBlock}]
      /\ todo \in [Process -> SUBSET Block] /\ lh \in Seq(Block) /\ Len(lh) \in Nat
  BY DEF LogInv, TypeOK
<1>4. b \in todo[p] /\ b \in Block
  BY <1>1, <1>3 DEF LogInv, Held
<1>5. Len(lh) + 1 <= LOGSIZE
  BY <1>1, <1>4, RoomInLog
<1>6. /\ pc'[p] = "op" /\ \A q \in Process \ {p} : pc'[q] = pc[q]
      /\ cur'[p] = NoBlock /\ \A q \in Process \ {p} : cur'[q] = cur[q]
      /\ todo'[p] = todo[p] \ {b} /\ \A q \in Process \ {p} : todo'[q] = todo[q]
  BY <1>1, <1>3
<1> HIDE DEF b
<1>7. /\ lh' \in Seq(Block) /\ Len(lh') <= LOGSIZE /\ Len(lh') \in Nat
      /\ Len(lh) <= Len(lh') /\ Len(lh') <= Len(lh) + 1
      /\ Once(lh')
      /\ \A c \in Block : c \in Range(lh) \/ c = b => c \in Range(lh')
  <2>1. CASE b \in Range(lh)
    BY <1>1, <1>3, <1>5, <2>1, LogAssumption DEF LogInv, Distinct
  <2>2. CASE b \notin Range(lh)
    <3>1. lh' = Append(lh, b)
      BY <1>1, <2>2
    <3>2. /\ lh' \in Seq(Block) /\ Len(lh') = Len(lh) + 1
          /\ \A i \in 1..Len(lh) : lh'[i] = lh[i]
          /\ lh'[Len(lh) + 1] = b
      BY <1>3, <1>4, <3>1
    <3>3. \A i \in 1..Len(lh) : lh[i] # b
      BY <1>3, <2>2 DEF Range
    <3>4. Once(lh')
      <4> SUFFICES ASSUME NEW i \in 1..Len(lh'), NEW j \in 1..Len(lh'), lh'[i] = lh'[j]
                   PROVE  i = j
        BY DEF Once
      <4>1. i = Len(lh) + 1 \/ i \in 1..Len(lh)
        BY <1>3, <3>2
      <4>2. j = Len(lh) + 1 \/ j \in 1..Len(lh)
        BY <1>3, <3>2
      <4>3. CASE i \in 1..Len(lh) /\ j \in 1..Len(lh)
        BY <3>2, <4>3 DEF LogInv, Distinct, Once
      <4> QED
        BY <3>2, <3>3, <4>1, <4>2, <4>3
    <3>5. \A c \in Block : c \in Range(lh) \/ c = b => c \in Range(lh')
      <4>1. DOMAIN lh = 1..Len(lh) /\ DOMAIN lh' = 1..Len(lh')
        BY <1>3, <3>2
      <4>2. Len(lh) + 1 \in 1..Len(lh') /\ 1..Len(lh) \subseteq 1..Len(lh')
        BY <1>3, <3>2
      <4> QED
        BY <3>2, <4>1, <4>2 DEF Range
    <3> QED
      BY <1>3, <1>5, <3>2, <3>4, <3>5
  <2> QED BY <2>1, <2>2
<1>8. TypeOK'
  <2>1. /\ pc' \in [Process -> Labels] /\ cur' \in [Process -> Block \cup {NoBlock}]
        /\ todo' \in [Process -> SUBSET Block]
    BY <1>1, <1>3 DEF Labels
  <2> QED
    BY <1>1, <1>7, <2>1 DEF LogInv, TypeOK, diskVars
<1>9. InOp' = InOp
  BY <1>1, <1>6 DEF InOp
<1>10. Pending' = Pending \ {<<p, b>>} /\ <<p, b>> \in Pending
  BY <1>1, <1>4, <1>6, <1>9 DEF Pending
<1>11. IsFiniteSet(Pending) /\ Cardinality(Pending) \in Nat
  BY PendingBound DEF LogInv
<1>12. Cardinality(Pending') = Cardinality(Pending) - 1
  BY <1>10, <1>11, FS_RemoveElement
<1>13. Counted'
  BY <1>1, <1>9 DEF LogInv, Counted
<1>14. Shares'
  <2> SUFFICES ASSUME NEW q \in Process PROVE Cardinality(todo'[q]) <= OpBlocks
    BY DEF Shares
  <2>1. IsFiniteSet(todo[q]) /\ Cardinality(todo[q]) \in Nat /\ Cardinality(todo[q]) <= OpBlocks
    <3>1. todo[q] \in SUBSET Block
      BY <1>3
    <3>2. IsFiniteSet(todo[q])
      BY <3>1, LogAssumption, FS_Subset
    <3> QED BY <3>2, FS_CardinalityType DEF LogInv, Shares
  <2>2. CASE q = p
    <3>1. Cardinality(todo[p] \ {b}) <= Cardinality(todo[p]) /\ Cardinality(todo[p] \ {b}) \in Nat
      <4>1. Cardinality(todo[p] \ {b}) = IF b \in todo[p] THEN Cardinality(todo[p]) - 1
                                         ELSE Cardinality(todo[p])
        BY <2>1, <2>2, FS_RemoveElement
      <4>2. IsFiniteSet(todo[p] \ {b})
        BY <2>1, <2>2, FS_RemoveElement
      <4>3. Cardinality(todo[p] \ {b}) \in Nat
        BY <4>2, FS_CardinalityType
      <4> QED BY <2>1, <2>2, <4>1, <4>3
    <3>2. todo'[q] = todo[p] \ {b}
      BY <1>6, <2>2
    <3>3. OpBlocks \in Nat
      BY LogAssumption
    <3>4. PICK x, y : x = Cardinality(todo[p] \ {b}) /\ y = Cardinality(todo[p])
      OBVIOUS
    <3>5. x <= y /\ x \in Nat /\ y \in Nat /\ y <= OpBlocks
      BY <2>1, <2>2, <3>1, <3>4
    <3>6. x <= OpBlocks
      BY <3>3, <3>5
    <3> QED BY <3>2, <3>4, <3>6
  <2>3. CASE q # p
    BY <1>6, <2>1, <2>3
  <2> QED BY <2>2, <2>3
<1>15. Reserved'
  <2>1. Len(lh) + Cardinality(Pending) <= LOGSIZE - MAXOPBLOCKS + OpBlocks
    BY <1>1 DEF LogInv, Reserved
  <2>2. Len(lh') + Cardinality(Pending') <= LOGSIZE - MAXOPBLOCKS + OpBlocks
    BY <1>3, <1>7, <1>11, <1>12, <2>1, LogAssumption
  <2> QED BY <2>2 DEF Reserved
<1>16. Quiet' /\ Committers'
  BY <1>1, <1>2, <1>6 DEF LogInv, Quiet, Committers, Commits
<1>17. Held'
  BY <1>6 DEF LogInv, Held
<1>18. Distinct' /\ Recovery'
  BY <1>1, <1>2, <1>7 DEF LogInv, Distinct, Recovery, diskVars, Once
<1>19. Committed'
  BY <1>1, <1>2, <1>6 DEF Committed, Commits, diskVars
<1>20. Clean'
  <2>1. ASSUME NEW c \in Block, c \notin Range(lh'), \A q \in Process : cur'[q] # c
        PROVE  disk[c] = cache[c]
    <3>1. c \notin Range(lh) /\ c # b
      BY <1>7, <2>1
    <3>2. \A q \in Process : cur[q] # c
      BY <1>6, <2>1, <3>1 DEF b
    <3> QED
      BY <1>2, <3>1, <3>2 DEF LogInv, Clean
  <2> QED
    BY <1>1, <1>2, <2>1 DEF Clean, diskVars
<1>21. SleeperMustWait'
  <2> SUFFICES ASSUME NEW q \in Process, pc'[q] = "asleep"
               PROVE  MustWait' /\ (committing' \/ outstanding' > 0)
    BY DEF SleeperMustWait
  <2>1. MustWait
    BY <1>6 DEF LogInv, SleeperMustWait
  <2>2. Len(lh) + (outstanding + 1) * MAXOPBLOCKS > LOGSIZE
    BY <1>2, <2>1 DEF MustWait
  <2>3. (outstanding + 1) * MAXOPBLOCKS \in Nat
    BY <1>2, LogAssumption
  <2>4. Len(lh') + (outstanding + 1) * MAXOPBLOCKS > LOGSIZE
    BY <1>3, <1>7, <2>2, <2>3, LogAssumption
  <2> QED
    BY <1>1, <1>2, <2>4 DEF MustWait
<1> QED
  BY <1>8, <1>13, <1>14, <1>15, <1>16, <1>17, <1>18, <1>19, <1>20, <1>21 DEF LogInv

(* end_op(): the last operation out starts the commit.                      *)
LEMMA Woken ==
    ASSUME TypeOK, NEW p \in Process, NEW l \in Labels, WakeAndGoto(p, l)
    PROVE  /\ pc' \in [Process -> Labels] /\ pc'[p] = l
           /\ \A q \in Process \ {p} : pc'[q] = IF pc[q] = "asleep" THEN "begin" ELSE pc[q]
BY DEF WakeAndGoto, TypeOK, Labels

LEMMA InvEndOp == ASSUME LogInv, NEW p \in Process, EndOp(p) PROVE LogInv'
<1>1. /\ pc[p] = "op" /\ p \in InOp /\ todo[p] = {}
      /\ outstanding' = outstanding - 1
      /\ UNCHANGED <<diskVars, cache, lh, opVars, boot, crashes>>
  BY DEF EndOp, InOp
<1>2. /\ boot = "ready" /\ ~committing /\ outstanding >= 1 /\ outstanding \in Nat
      /\ \A q \in Process : pc[q] \notin Commits
      /\ hdr = <<>>
  BY <1>1, DuringOp
<1>3. TypeOK /\ pc \in [Process -> Labels] /\ Len(lh) \in Nat
  BY DEF LogInv, TypeOK
<1>4. Distinct' /\ Recovery' /\ Shares'
  BY <1>1, <1>2 DEF LogInv, Distinct, Once, Recovery, Shares, diskVars, opVars
<1>5. ASSUME InOp' = InOp \ {p} PROVE Counted' /\ Reserved'
  <2>1. Counted'
    BY <1>1, <1>2, <1>5, InOpFinite, FS_RemoveElement DEF LogInv, Counted
  <2>2. Pending' = Pending
    BY <1>1, <1>5 DEF Pending, opVars
  <2> QED
    BY <1>1, <1>5, <2>1, <2>2 DEF LogInv, Reserved
<1>6. CASE outstanding = 1
  <2>1. /\ committing' = TRUE /\ tail' = 0 /\ pc' = [pc EXCEPT ![p] = CommitStart]
        /\ outstanding' = 0
    BY <1>1, <1>2, <1>6 DEF EndOp, Goto
  <2>2. /\ pc'[p] = CommitStart /\ \A q \in Process \ {p} : pc'[q] = pc[q]
        /\ CommitStart \in {"done", "write_log"}
        /\ CommitStart = "done" => lh = <<>>
    BY <1>3, <2>1 DEF CommitStart
  <2>3. TypeOK'
    <3>1. pc' \in [Process -> Labels] /\ committing' \in BOOLEAN
      BY <1>3, <2>1, <2>2 DEF Labels
    <3>2. tail' \in 0..LOGSIZE /\ outstanding' \in Nat
      BY <2>1, LogAssumption
    <3> QED
      BY <1>1, <3>1, <3>2 DEF LogInv, TypeOK, diskVars, opVars
  <2>4. InOp' = InOp \ {p}
    BY <2>2 DEF InOp
  <2>5. Quiet' /\ Held'
    BY <1>1, <1>2, <2>2 DEF LogInv, Quiet, Held, opVars
  <2>6. Committers'
    BY <1>2, <2>1, <2>2 DEF Committers, Commits
  <2>7. Committed'
    <3>1. \A q \in Process : pc'[q] \notin {"install", "clear", "write_head"}
      BY <1>2, <2>2 DEF Commits
    <3>2. tail' <= Len(lh') /\ (Logged(tail))'
      BY <1>1, <1>3, <2>1 DEF Logged
    <3> QED
      BY <1>1, <1>2, <2>2, <3>1, <3>2 DEF Committed, Commits, diskVars
  <2>8. Clean'
    BY <1>1, <2>1 DEF LogInv, Clean, diskVars, opVars
  <2>9. SleeperMustWait'
    BY <2>1 DEF SleeperMustWait, MustWait
  <2> QED
    BY <1>4, <1>5, <2>3, <2>4, <2>5, <2>6, <2>7, <2>8, <2>9 DEF LogInv
<1>7. CASE outstanding # 1
  <2>1. WakeAndGoto(p, "idle") /\ committing' = committing /\ tail' = tail
    BY <1>2, <1>7 DEF EndOp
  <2>2. /\ pc' \in [Process -> Labels] /\ pc'[p] = "idle"
        /\ \A q \in Process \ {p} : pc'[q] = IF pc[q] = "asleep" THEN "begin" ELSE pc[q]
    BY <1>3, <2>1, Woken DEF Labels
  <2>3. TypeOK'
    <3>1. outstanding' \in Nat
      BY <1>1, <1>2
    <3> QED
      BY <1>1, <2>1, <2>2, <3>1 DEF LogInv, TypeOK, diskVars, opVars
  <2>4. InOp' = InOp \ {p}
    BY <2>2 DEF InOp
  <2>5. Quiet' /\ Held'
    BY <1>1, <1>2, <2>2 DEF LogInv, Quiet, Held, opVars
  <2>6. Committers'
    BY <1>2, <2>1, <2>2 DEF Committers, Commits
  <2>7. Committed'
    BY <1>1, <1>2, <2>2 DEF Committed, Commits, diskVars
  <2>8. Clean'
    BY <1>1, <1>2, <1>7, <2>1 DEF LogInv, Clean, diskVars, opVars
  <2>9. SleeperMustWait'
    BY <2>2 DEF SleeperMustWait
  <2> QED
    BY <1>4, <1>5, <2>3, <2>4, <2>5, <2>6, <2>7, <2>8, <2>9 DEF LogInv
<1> QED
  BY <1>6, <1>7

(***************************************************************************)
(* commit().                                                               *)
(***************************************************************************)

(* A step of the committer: nothing but the progress of the commit matters. *)
LEMMA InvCommitStep ==
    ASSUME LogInv, NEW p \in Process, pc[p] \in Commits, pc'[p] \in Commits,
           pc' \in [Process -> Labels], \A q \in Process \ {p} : pc'[q] = pc[q],
           TypeOK', Distinct', Committed',
           \A b \in Block \ Range(lh') : disk'[b] = cache'[b],
           UNCHANGED <<outstanding, committing, opVars, boot>>
    PROVE  LogInv'
<1>1. /\ boot = "ready" /\ committing /\ outstanding = 0 /\ InOp = {}
      /\ \A q \in Process \ {p} : pc[q] \notin Commits
  BY DuringCommit
<1>2. InOp' = InOp
  BY <1>1 DEF InOp, Commits
<1>3. Counted' /\ Shares' /\ Reserved'
  BY <1>1, <1>2 DEF LogInv, Counted, Shares, Reserved, opVars
<1>4. Quiet' /\ Committers'
  BY <1>1 DEF Quiet, Committers
<1>5. Held'
  BY DEF LogInv, Held, Commits, opVars
<1>6. Recovery' /\ Clean'
  BY <1>1 DEF Recovery, Clean
<1>7. SleeperMustWait'
  BY <1>1 DEF SleeperMustWait, MustWait
<1> QED
  BY <1>3, <1>4, <1>5, <1>6, <1>7 DEF LogInv

LEMMA InvWriteLog == ASSUME LogInv, NEW p \in Process, WriteLog(p) PROVE LogInv'
<1>1. /\ pc[p] = "write_log" /\ pc[p] \in Commits
      /\ UNCHANGED <<disk, hdr, cache, lh, outstanding, committing, opVars, boot, crashes>>
  BY DEF WriteLog, Commits
<1>2. /\ boot = "ready" /\ \A q \in Process \ {p} : pc[q] \notin Commits
      /\ \A b \in Block \ Range(lh) : disk[b] = cache[b]
  BY <1>1, DuringCommit
<1>3. tail <= Len(lh) /\ Logged(tail) /\ hdr = <<>>
  BY <1>1, <1>2 DEF LogInv, Committed, Commits
<1>4. /\ TypeOK /\ tail \in Nat /\ Len(lh) \in Nat /\ pc \in [Process -> Labels]
      /\ lh \in Seq(Block) /\ Len(lh) <= LOGSIZE /\ LOGSIZE \in Nat
  BY LogAssumption DEF LogInv, TypeOK
<1>5. Distinct'
  BY <1>1 DEF LogInv, Distinct, Once
<1>6. \A b \in Block \ Range(lh') : disk'[b] = cache'[b]
  BY <1>1, <1>2
<1>7. CASE tail < Len(lh) /\ logd' = [logd EXCEPT ![tail + 1] = cache[lh[tail + 1]]]
           /\ tail' = tail + 1 /\ UNCHANGED pc
  <2>1. tail + 1 \in 1..Len(lh) /\ tail + 1 \in LogSlots /\ tail' \in 0..LOGSIZE /\ tail' <= Len(lh)
    BY <1>4, <1>7 DEF LogSlots
  <2>2. cache[lh[tail + 1]] \in Value
    BY <1>4, <2>1 DEF TypeOK
  <2>3. TypeOK'
    BY <1>1, <1>4, <1>7, <2>1, <2>2 DEF TypeOK, opVars
  <2>4. (Logged(tail))'
    <3> SUFFICES ASSUME NEW i \in 1..tail' PROVE logd'[i] = cache[lh[i]]
      BY <1>1 DEF Logged
    <3>1. i \in LogSlots
      BY <1>4, <2>1, <1>7 DEF LogSlots
    <3>2. CASE i = tail + 1
      BY <1>4, <1>7, <3>1, <3>2 DEF TypeOK
    <3>3. CASE i # tail + 1
      <4>1. i \in 1..tail
        BY <1>4, <1>7, <3>3
      <4> QED BY <1>3, <1>4, <1>7, <3>1, <3>3, <4>1 DEF TypeOK, Logged
    <3> QED BY <3>2, <3>3
  <2>5. Committed'
    BY <1>1, <1>2, <1>3, <1>7, <2>1, <2>4 DEF Committed, Commits
  <2> QED
    BY <1>1, <1>4, <1>5, <1>6, <1>7, <2>3, <2>5, InvCommitStep
<1>8. CASE tail = Len(lh) /\ Goto(p, "write_head") /\ UNCHANGED <<logd, tail>>
  <2>1. /\ pc' \in [Process -> Labels] /\ pc'[p] = "write_head"
        /\ \A q \in Process \ {p} : pc'[q] = pc[q]
    BY <1>4, <1>8 DEF Goto, Labels
  <2>2. TypeOK'
    BY <1>1, <1>4, <1>8, <2>1 DEF TypeOK, opVars
  <2>3. Committed'
    BY <1>1, <1>2, <1>3, <1>8, <2>1 DEF Committed, Commits, Logged
  <2>4. pc'[p] \in Commits
    BY <2>1 DEF Commits
  <2> QED
    BY <1>1, <1>5, <1>6, <2>1, <2>2, <2>3, <2>4, InvCommitStep
<1> QED
  BY <1>7, <1>8 DEF WriteLog

LEMMA InvWriteHead == ASSUME LogInv, NEW p \in Process, WriteHead(p) PROVE LogInv'
<1>1. /\ pc[p] = "write_head" /\ pc[p] \in Commits
      /\ hdr' = lh /\ tail' = 0 /\ pc' = [pc EXCEPT ![p] = "install"]
      /\ UNCHANGED <<disk, logd, cache, lh, outstanding, committing, opVars, boot, crashes>>
  BY DEF WriteHead, Commits, Goto
<1>2. /\ boot = "ready" /\ \A q \in Process \ {p} : pc[q] \notin Commits
      /\ \A b \in Block \ Range(lh) : disk[b] = cache[b]
  BY <1>1, DuringCommit
<1>3. Logged(Len(lh))
  BY <1>1 DEF LogInv, Committed
<1>4. TypeOK /\ pc \in [Process -> Labels] /\ Len(lh) \in Nat
  BY DEF LogInv, TypeOK
<1>5. /\ pc' \in [Process -> Labels] /\ pc'[p] = "install" /\ pc'[p] \in Commits
      /\ \A q \in Process \ {p} : pc'[q] = pc[q]
  BY <1>1, <1>4 DEF Labels, Commits
<1>6. TypeOK'
  BY <1>1, <1>4, <1>5, LogAssumption DEF TypeOK, opVars
<1>7. Distinct'
  BY <1>1 DEF LogInv, Distinct, Once
<1>8. Committed'
  <2>1. tail' <= Len(lh') /\ (Installed(lh, tail))' /\ (Logged(Len(lh)))'
    BY <1>1, <1>3, <1>4 DEF Installed, Logged
  <2> QED
    BY <1>1, <1>2, <1>5, <2>1 DEF Committed, Commits
<1> QED
  BY <1>1, <1>2, <1>5, <1>6, <1>7, <1>8, InvCommitStep

(* Installing a block leaves the cache as it is: the log holds what the     *)
(* cache holds.                                                             *)
LEMMA InvInstallTrans == ASSUME LogInv, NEW p \in Process, InstallTrans(p) PROVE LogInv'
<1>1. /\ pc[p] = "install" /\ pc[p] \in Commits
      /\ UNCHANGED <<hdr, logd, outstanding, committing, opVars, boot, crashes>>
  BY DEF InstallTrans, Commits
<1>2. /\ boot = "ready" /\ \A q \in Process \ {p} : pc[q] \notin Commits
      /\ \A b \in Block \ Range(lh) : disk[b] = cache[b]
  BY <1>1, DuringCommit
<1>3. hdr = lh /\ tail <= Len(lh) /\ Logged(Len(lh)) /\ Installed(lh, tail) /\ Once(lh)
  BY <1>1 DEF LogInv, Committed, Distinct
<1>4. /\ TypeOK /\ tail \in Nat /\ Len(lh) \in Nat /\ pc \in [Process -> Labels]
      /\ lh \in Seq(Block) /\ disk \in [Block -> Value] /\ cache \in [Block -> Value]
  BY LogAssumption DEF LogInv, TypeOK
<1>5. CASE InstallBlock /\ UNCHANGED <<lh, pc>>
  <2>1. /\ tail' = tail + 1 /\ tail' <= Len(lh) /\ tail' \in 0..LOGSIZE
        /\ lh[tail + 1] \in Block /\ (Installed(lh, tail))'
        /\ disk' \in [Block -> Value] /\ cache' \in [Block -> Value]
    BY <1>1, <1>3, <1>4, <1>5, InstallOne
  <2>2. tail + 1 \in 1..Len(lh)
    BY <1>4, <2>1
  <2>3. logd[tail + 1] = cache[lh[tail + 1]]
    BY <1>3, <2>2 DEF Logged
  <2>4. cache' = cache
    BY <1>4, <1>5, <2>1, <2>3 DEF InstallBlock
  <2>5. TypeOK'
    BY <1>1, <1>4, <1>5, <2>1 DEF TypeOK, opVars
  <2>6. Distinct'
    BY <1>1, <1>5 DEF LogInv, Distinct, Once
  <2>7. Committed'
    <3>1. (Logged(Len(lh)))'
      BY <1>1, <1>3, <1>5, <2>4 DEF Logged
    <3> QED
      BY <1>1, <1>2, <1>3, <1>5, <2>1, <3>1 DEF Committed, Commits
  <2>8. \A b \in Block \ Range(lh') : disk'[b] = cache'[b]
    <3> SUFFICES ASSUME NEW b \in Block, b \notin Range(lh) PROVE disk'[b] = cache[b]
      BY <1>5, <2>4
    <3>1. b # lh[tail + 1]
      BY <1>4, <2>2 DEF Range
    <3>2. disk'[b] = disk[b]
      BY <1>4, <1>5, <3>1 DEF InstallBlock
    <3> QED BY <1>2, <3>2
  <2> QED
    BY <1>1, <1>4, <1>5, <2>5, <2>6, <2>7, <2>8, InvCommitStep
<1>6. CASE tail = Len(lh) /\ lh' = <<>> /\ Goto(p, "clear") /\ UNCHANGED <<disk, cache, tail>>
  <2>1. /\ pc' \in [Process -> Labels] /\ pc'[p] = "clear" /\ pc'[p] \in Commits
        /\ \A q \in Process \ {p} : pc'[q] = pc[q]
    BY <1>4, <1>6 DEF Goto, Labels, Commits
  <2>2. TypeOK'
    <3>1. lh' \in Seq(Block) /\ Len(lh') <= LOGSIZE
      BY <1>6, LogAssumption
    <3> QED BY <1>1, <1>4, <1>6, <2>1, <3>1 DEF TypeOK, opVars
  <2>3. Distinct'
    BY <1>1, <1>6 DEF LogInv, Distinct, Once
  <2>4. Committed'
    <3>1. (Installed(hdr, Len(hdr)))'
      BY <1>1, <1>3, <1>6 DEF Installed
    <3> QED
      BY <1>1, <1>2, <1>6, <2>1, <3>1 DEF Committed, Commits
  <2>5. ASSUME NEW b \in Block PROVE disk[b] = cache[b]
    <3>1. CASE b \in Range(lh)
      <4>1. PICK i \in 1..Len(lh) : lh[i] = b
        BY <1>4, <3>1 DEF Range
      <4> QED BY <1>3, <1>6, <4>1 DEF Installed, Logged
    <3> QED BY <1>2, <3>1
  <2>6. \A b \in Block \ Range(lh') : disk'[b] = cache'[b]
    BY <1>6, <2>5
  <2> QED
    BY <1>1, <2>1, <2>2, <2>3, <2>4, <2>6, InvCommitStep
<1> QED
  BY <1>5, <1>6 DEF InstallTrans

LEMMA InvClearHead == ASSUME LogInv, NEW p \in Process, ClearHead(p) PROVE LogInv'
<1>1. /\ pc[p] = "clear" /\ pc[p] \in Commits
      /\ hdr' = lh /\ pc' = [pc EXCEPT ![p] = "done"]
      /\ UNCHANGED <<disk, logd, cache, lh, outstanding, committing, tail, opVars, boot, crashes>>
  BY DEF ClearHead, Commits, Goto, logVars
<1>2. /\ boot = "ready" /\ \A q \in Process \ {p} : pc[q] \notin Commits
      /\ \A b \in Block \ Range(lh) : disk[b] = cache[b]
  BY <1>1, DuringCommit
<1>3. TypeOK /\ pc \in [Process -> Labels] /\ lh = <<>>
  BY <1>1 DEF LogInv, TypeOK, Committed
<1>4. /\ pc' \in [Process -> Labels] /\ pc'[p] = "done" /\ pc'[p] \in Commits
      /\ \A q \in Process \ {p} : pc'[q] = pc[q]
  BY <1>1, <1>3 DEF Labels, Commits
<1>5. TypeOK'
  BY <1>1, <1>3, <1>4 DEF TypeOK, opVars
<1>6. Distinct'
  BY <1>1 DEF LogInv, Distinct, Once
<1>7. Committed'
  BY <1>1, <1>2, <1>3, <1>4 DEF Committed, Commits
<1> QED
  BY <1>1, <1>2, <1>4, <1>5, <1>6, <1>7, InvCommitStep

LEMMA InvEndCommit == ASSUME LogInv, NEW p \in Process, EndCommit(p) PROVE LogInv'
<1>1. /\ pc[p] = "done" /\ pc[p] \in Commits
      /\ committing' = FALSE /\ WakeAndGoto(p, "idle")
      /\ UNCHANGED <<diskVars, cache, lh, outstanding, tail, opVars, boot, crashes>>
  BY DEF EndCommit, Commits
<1>2. /\ boot = "ready" /\ outstanding = 0 /\ InOp = {}
      /\ \A q \in Process \ {p} : pc[q] \notin Commits
  BY <1>1, DuringCommit
<1>3. TypeOK /\ lh = <<>> /\ hdr = <<>>
  BY <1>1, <1>2 DEF LogInv, Committed, Commits
<1>4. /\ pc' \in [Process -> Labels] /\ pc'[p] = "idle"
      /\ \A q \in Process \ {p} : pc'[q] = IF pc[q] = "asleep" THEN "begin" ELSE pc[q]
  BY <1>1, <1>3, Woken DEF Labels
<1>5. TypeOK'
  BY <1>1, <1>3, <1>4 DEF TypeOK, diskVars, opVars
<1>6. InOp' = InOp
  BY <1>2, <1>4 DEF InOp
<1>7. Counted' /\ Shares' /\ Reserved'
  BY <1>1, <1>2, <1>6 DEF LogInv, Counted, Shares, Reserved, opVars
<1>8. Quiet' /\ Committers'
  BY <1>1, <1>2, <1>4 DEF Quiet, Committers, Commits
<1>9. Held'
  BY <1>1, <1>4 DEF LogInv, Held, opVars
<1>10. Distinct' /\ Recovery'
  BY <1>1, <1>2 DEF LogInv, Distinct, Once, Recovery, diskVars
<1>11. Committed'
  BY <1>1, <1>2, <1>3, <1>4 DEF Committed, Commits, diskVars
<1>12. Clean'
  BY <1>1, <1>3 DEF LogInv, Clean, diskVars, opVars
<1>13. SleeperMustWait'
  BY <1>4 DEF SleeperMustWait
<1> QED
  BY <1>5, <1>7, <1>8, <1>9, <1>10, <1>11, <1>12, <1>13 DEF LogInv

LEMMA InvStutter == ASSUME LogInv, UNCHANGED vars PROVE LogInv'
BY DEF LogInv, vars, diskVars, logVars, opVars, TypeOK, Quiet, Counted, Committers, Held,
       Shares, Pending, Reserved, Distinct, Once, Recovery, Installed, Committed, Logged,
       Clean, SleeperMustWait, MustWait, InOp

LEMMA LogInvNext == ASSUME LogInv, [Next]_vars PROVE LogInv'
<1>1. ASSUME Recover PROVE LogInv'
  BY <1>1, InvReadHead, InvRecoverInstall, InvRecoverClear DEF Recover
<1>2. ASSUME NEW p \in Process, StartCall(p) \/ BeginOp(p) \/ ModifyBlock(p) \/ LogWrite(p) \/ EndOp(p)
      PROVE  LogInv'
  BY <1>2, InvStartCall, InvBeginOp, InvModifyBlock, InvLogWrite, InvEndOp
<1>3. ASSUME NEW p \in Process, Commit(p) PROVE LogInv'
  BY <1>3, InvWriteLog, InvWriteHead, InvInstallTrans, InvClearHead, InvEndCommit DEF Commit
<1> QED
  BY <1>1, <1>2, <1>3, InvCrash, InvStutter DEF Next, Call

(* The counters and reservations of log.c, and how far a commit or a        *)
(* recovery has got, agree with the disk in every reachable state.          *)
THEOREM LogInvariant == Spec => []LogInv
<1>1. LogInv /\ [Next]_vars => LogInv'
  BY LogInvNext
<1> QED
  BY LogInvInit, <1>1, PTL DEF Spec

(* log_write never finds the log too full, the header never outgrows its    *)
(* block, and end_op never meets a commit in progress: the space begin_op   *)
(* reserves is enough for any number of concurrent operations.              *)
THEOREM ReservationSuffices == Spec => []NoPanic
<1>1. LogInv => NoPanic
  BY DEF LogInv, Held, NoPanic
<1> QED
  BY LogInvariant, <1>1, PTL

(* A process asleep in begin_op waits for a condition that still holds, and *)
(* somebody is left who will call wakeup: no wakeup is lost.                *)
THEOREM NoLostWakeup == Spec => []SleeperMustWait
<1>1. LogInv => SleeperMustWait
  BY DEF LogInv
<1> QED
  BY LogInvariant, <1>1, PTL

(* When no operation is in progress and nobody commits, every completed     *)
(* operation is in its home location and the log is empty.                  *)
THEOREM DurableBetweenCommits == Spec => []QuiescentDurable
<1>1. LogInv => QuiescentDurable
  <2> SUFFICES ASSUME LogInv, boot = "ready", outstanding = 0, ~committing
               PROVE  hdr = <<>> /\ lh = <<>> /\ disk = cache
    BY DEF QuiescentDurable
  <2>1. InOp = {}
    BY InOpFinite, FS_EmptySet DEF LogInv, Counted
  <2>2. \A q \in Process : cur[q] = NoBlock
    BY <2>1 DEF LogInv, Held, InOp
  <2>3. hdr = <<>> /\ lh = <<>>
    BY DEF LogInv, Committed, Committers, Commits, Clean
  <2>4. \A b \in Block : disk[b] = cache[b]
    BY <2>2, <2>3, LogAssumption DEF LogInv, Clean, Range
  <2>5. disk = cache
    BY <2>4 DEF LogInv, TypeOK
  <2> QED BY <2>3, <2>5
<1> QED
  BY LogInvariant, <1>1, PTL

(***************************************************************************)
(* Crash atomicity: Log implements AtomicDisk.  What a restart would find  *)
(* changes at the commit point only.                                       *)
(***************************************************************************)

LEMMA RecoveredValue ==
    TypeOK /\ Once(hdr) =>
        \A b \in Block :
            /\ b \notin Range(hdr) => Recovered[b] = disk[b]
            /\ \A i \in 1..Len(hdr) : hdr[i] = b => Recovered[b] = logd[i]
<1> SUFFICES ASSUME TypeOK, Once(hdr), NEW b \in Block
             PROVE  /\ b \notin Range(hdr) => Recovered[b] = disk[b]
                    /\ \A i \in 1..Len(hdr) : hdr[i] = b => Recovered[b] = logd[i]
  OBVIOUS
<1>1. hdr \in Seq(Block) /\ DOMAIN hdr = 1..Len(hdr)
  BY DEF TypeOK
<1>2. b \notin Range(hdr) => Recovered[b] = disk[b]
  BY DEF Recovered
<1>3. ASSUME NEW i \in 1..Len(hdr), hdr[i] = b PROVE Recovered[b] = logd[i]
  <2>1. b \in Range(hdr)
    BY <1>1, <1>3 DEF Range
  <2>2. (CHOOSE j \in DOMAIN hdr : hdr[j] = b) = i
    BY <1>1, <1>3 DEF Once
  <2> QED BY <2>1, <2>2 DEF Recovered
<1> QED
  BY <1>2, <1>3

(* Two states in which a restart finds the same in every block.             *)
LEMMA RecoveredIs ==
    ASSUME NEW f, NEW S, f \in [Block -> S], \A b \in Block : Recovered[b] = f[b]
    PROVE  Recovered = f
BY DEF Recovered

(* With an empty header, and once the log is installed, it is the disk.     *)
LEMMA RecoveredDisk ==
    TypeOK /\ Once(hdr) /\ Installed(hdr, Len(hdr)) => Recovered = disk
<1> SUFFICES ASSUME TypeOK, Once(hdr), Installed(hdr, Len(hdr)) PROVE Recovered = disk
  OBVIOUS
<1>1. ASSUME NEW b \in Block PROVE Recovered[b] = disk[b]
  <2>1. CASE b \in Range(hdr)
    <3>1. PICK i \in 1..Len(hdr) : hdr[i] = b
      BY <2>1 DEF Range, TypeOK
    <3> QED BY <3>1, RecoveredValue DEF Installed
  <2> QED BY <2>1, RecoveredValue
<1> QED
  BY <1>1, RecoveredIs DEF TypeOK

LEMMA RecoveredEmpty == TypeOK /\ hdr = <<>> => Recovered = disk
<1>1. hdr = <<>> => Once(hdr) /\ Installed(hdr, Len(hdr))
  BY DEF Once, Installed
<1> QED
  BY <1>1, RecoveredDisk

LEMMA RecoveredSame == ASSUME UNCHANGED diskVars PROVE Recovered' = Recovered
BY DEF Recovered, diskVars

(* Installing a block of a committed transaction.                           *)
LEMMA RecoveredInstall ==
    ASSUME TypeOK, hdr = lh, InstallBlock, UNCHANGED <<hdr, logd>>
    PROVE  Recovered' = Recovered
<1>1. tail + 1 \in 1..Len(hdr) /\ hdr \in Seq(Block) /\ disk \in [Block -> Value]
  BY LogAssumption DEF TypeOK, InstallBlock
<1>2. hdr[tail + 1] \in Range(hdr)
  BY <1>1 DEF Range
<1>3. \A b \in Block : b \notin Range(hdr) => disk'[b] = disk[b]
  BY <1>1, <1>2 DEF InstallBlock
<1> QED
  BY <1>3 DEF Recovered

(* The commit point makes everything in the cache durable.                  *)
LEMMA RecoveredCommit ==
    ASSUME LogInv, NEW p \in Process, WriteHead(p) PROVE Recovered' = cache
<1>1. /\ pc[p] = "write_head" /\ pc[p] \in Commits
      /\ hdr' = lh /\ UNCHANGED <<disk, logd, cache, lh>>
  BY DEF WriteHead, Commits
<1>2. \A b \in Block \ Range(lh) : disk[b] = cache[b]
  BY <1>1, DuringCommit
<1>3. Logged(Len(lh)) /\ lh \in Seq(Block) /\ Once(lh)
  BY <1>1 DEF LogInv, Committed, TypeOK, Distinct
<1>4. (TypeOK /\ Once(hdr))'
  BY InvWriteHead, <1>1, <1>3 DEF LogInv, Once
<1>5. \A b \in Block :
        /\ b \notin Range(lh) => Recovered'[b] = disk[b]
        /\ \A i \in 1..Len(lh) : lh[i] = b => Recovered'[b] = logd[i]
  <2>1. (\A b \in Block :
            /\ b \notin Range(hdr) => Recovered[b] = disk[b]
            /\ \A i \in 1..Len(hdr) : hdr[i] = b => Recovered[b] = logd[i])'
    BY <1>4, RecoveredValue, PTL
  <2> QED BY <1>1, <2>1
<1>6. ASSUME NEW b \in Block PROVE Recovered'[b] = cache[b]
  <2>1. CASE b \in Range(lh)
    <3>1. PICK i \in 1..Len(lh) : lh[i] = b
      BY <1>3, <2>1 DEF Range
    <3> QED BY <1>3, <1>5, <3>1 DEF Logged
  <2> QED BY <1>2, <1>5, <2>1
<1> QED
  BY <1>6 DEF Recovered, LogInv, TypeOK

LEMMA AtomicInit == Init => A!Init
<1> SUFFICES ASSUME Init PROVE A!Init
  OBVIOUS
<1>1. Recovered = disk
  BY LogInvInit, RecoveredEmpty DEF LogInv, Init
<1>2. InOp = {}
  BY DEF Init, InOp
<1> QED
  BY <1>1, <1>2 DEF Init, A!Init

(* The steps that a user of the disk does not notice.                       *)
LEMMA AtomicRecover ==
    ASSUME LogInv, Recover PROVE UNCHANGED A!vars
<1>1. TypeOK /\ TypeOK' /\ Once(hdr)
  BY InvReadHead, InvRecoverInstall, InvRecoverClear DEF Recover, LogInv, Distinct
<1>2. pc' = pc
  BY DEF Recover, ReadHead, RecoverInstall, RecoverClear
<1>3. InOp' = InOp
  BY <1>2 DEF InOp
<1>4. CASE ReadHead
  <2>1. Recovered' = Recovered
    BY <1>4, RecoveredSame DEF ReadHead
  <2> QED BY <1>3, <1>4, <2>1 DEF ReadHead, A!vars
<1>5. CASE RecoverInstall
  <2>1. boot = "install" /\ lh = hdr
    BY <1>5 DEF RecoverInstall, LogInv, Recovery
  <2>2. Recovered' = Recovered
    <3>1. CASE InstallBlock
      BY <1>1, <1>5, <2>1, <3>1, RecoveredInstall DEF RecoverInstall
    <3>2. CASE ~InstallBlock
      BY <1>5, <3>2, RecoveredSame DEF RecoverInstall, diskVars
    <3> QED BY <3>1, <3>2
  <2>3. boot' # "ready"
    BY <1>5, <2>1 DEF RecoverInstall
  <2> QED BY <1>3, <2>1, <2>2, <2>3 DEF A!vars
<1>6. CASE RecoverClear
  <2>1. /\ boot = "clear" /\ lh = <<>> /\ cache = disk /\ Installed(hdr, Len(hdr))
        /\ hdr' = <<>> /\ disk' = disk /\ cache' = cache /\ boot' = "ready"
    BY <1>6 DEF RecoverClear, LogInv, Recovery
  <2>2. Recovered = disk
    BY <1>1, <2>1, RecoveredDisk
  <2>3. (Recovered = disk)'
    <3>1. (TypeOK /\ hdr = <<>>)'
      BY <1>1, <2>1
    <3> QED BY <3>1, RecoveredEmpty, PTL
  <2> QED BY <1>3, <2>1, <2>2, <2>3 DEF A!vars
<1> QED
  BY <1>4, <1>5, <1>6 DEF Recover

LEMMA AtomicCommit ==
    ASSUME LogInv, NEW p \in Process, Commit(p)
    PROVE  A!Commit \/ UNCHANGED A!vars
<1>1. pc[p] \in Commits
  BY DEF Commit, Commits, WriteLog, WriteHead, InstallTrans, ClearHead, EndCommit
<1>2. boot = "ready" /\ InOp = {} /\ \A q \in Process \ {p} : pc[q] \notin Commits
  BY <1>1, DuringCommit
<1>3. boot' = "ready"
  BY <1>2 DEF Commit, WriteLog, WriteHead, InstallTrans, ClearHead, EndCommit
<1>4. TypeOK /\ TypeOK' /\ Once(hdr) /\ pc \in [Process -> Labels]
  BY InvWriteLog, InvWriteHead, InvInstallTrans, InvClearHead, InvEndCommit
     DEF Commit, LogInv, Distinct, TypeOK
<1>5. InOp' = {}
  <2>1. CASE EndCommit(p)
    <3>1. /\ pc'[p] = "idle"
          /\ \A q \in Process \ {p} : pc'[q] = IF pc[q] = "asleep" THEN "begin" ELSE pc[q]
      BY <1>4, <2>1, Woken DEF EndCommit, Labels
    <3> QED BY <1>2, <3>1 DEF InOp
  <2>2. CASE ~EndCommit(p)
    <3>1. /\ pc'[p] \notin {"op", "log_write", "panic"}
          /\ \A q \in Process \ {p} : pc'[q] = pc[q]
      BY <1>1, <1>4, <2>2 DEF Commit, WriteLog, WriteHead, InstallTrans, ClearHead, Goto, Commits
    <3> QED BY <1>2, <3>1 DEF InOp
  <2> QED BY <2>1, <2>2
<1>6. CASE WriteLog(p)
  <2>1. hdr = <<>> /\ hdr' = hdr /\ disk' = disk /\ cache' = cache
    BY <1>2, <1>6 DEF WriteLog, LogInv, Committed, Commits
  <2>2. Recovered = disk
    BY <1>4, <2>1, RecoveredEmpty
  <2>3. (Recovered = disk)'
    <3>1. (TypeOK /\ hdr = <<>>)'
      BY <1>4, <2>1
    <3> QED BY <3>1, RecoveredEmpty, PTL
  <2> QED BY <1>2, <1>3, <1>5, <2>1, <2>2, <2>3 DEF A!vars
<1>7. CASE WriteHead(p)
  <2>1. Recovered' = cache /\ cache' = cache
    BY <1>7, RecoveredCommit DEF WriteHead
  <2> QED BY <1>2, <1>3, <1>5, <2>1 DEF A!Commit
<1>8. CASE InstallTrans(p)
  <2>1. hdr = lh /\ Logged(Len(lh)) /\ UNCHANGED <<hdr, logd>>
    BY <1>8 DEF InstallTrans, LogInv, Committed
  <2>2. CASE InstallBlock
    <3>1. Recovered' = Recovered
      BY <1>4, <2>1, <2>2, RecoveredInstall
    <3>2. cache' = cache
      <4>1. tail + 1 \in 1..Len(lh)
        BY <1>4, <2>2, LogAssumption DEF TypeOK, InstallBlock
      <4>2. logd[tail + 1] = cache[lh[tail + 1]]
        BY <2>1, <4>1 DEF Logged
      <4> QED BY <1>4, <2>2, <4>2 DEF InstallBlock, TypeOK
    <3> QED BY <1>2, <1>3, <1>5, <3>1, <3>2 DEF A!vars
  <2>3. CASE ~InstallBlock
    <3>1. UNCHANGED diskVars /\ cache' = cache
      BY <1>8, <2>3 DEF InstallTrans, diskVars
    <3> QED BY <1>2, <1>3, <1>5, <3>1, RecoveredSame DEF A!vars
  <2> QED BY <2>2, <2>3
<1>9. CASE ClearHead(p)
  <2>1. /\ lh = <<>> /\ Installed(hdr, Len(hdr))
        /\ hdr' = <<>> /\ disk' = disk /\ cache' = cache
    BY <1>9 DEF ClearHead, LogInv, Committed
  <2>2. Recovered = disk
    BY <1>4, <2>1, RecoveredDisk
  <2>3. (Recovered = disk)'
    <3>1. (TypeOK /\ hdr = <<>>)'
      BY <1>4, <2>1
    <3> QED BY <3>1, RecoveredEmpty, PTL
  <2> QED BY <1>2, <1>3, <1>5, <2>1, <2>2, <2>3 DEF A!vars
<1>10. CASE EndCommit(p)
  <2>1. UNCHANGED diskVars /\ cache' = cache
    BY <1>10 DEF EndCommit
  <2> QED BY <1>2, <1>3, <1>5, <2>1, RecoveredSame DEF A!vars
<1> QED
  BY <1>6, <1>7, <1>8, <1>9, <1>10 DEF Commit

(* The steps of an operation.                                               *)
LEMMA AtomicOperation ==
    ASSUME LogInv, NEW p \in Process,
           StartCall(p) \/ BeginOp(p) \/ ModifyBlock(p) \/ LogWrite(p) \/ EndOp(p)
    PROVE  A!Begin(p) \/ A!Write(p) \/ A!End(p) \/ UNCHANGED A!vars
<1>1. TypeOK /\ pc \in [Process -> Labels]
  BY DEF LogInv, TypeOK
<1>2. Recovered' = Recovered /\ boot' = boot
  BY RecoveredSame DEF StartCall, BeginOp, ModifyBlock, LogWrite, EndOp
<1>3. CASE StartCall(p)
  <2>1. pc[p] = "idle" /\ pc' = [pc EXCEPT ![p] = "begin"] /\ cache' = cache
    BY <1>3 DEF StartCall, Goto
  <2>2. InOp' = InOp
    BY <1>1, <2>1 DEF InOp
  <2> QED BY <1>2, <2>1, <2>2 DEF A!vars
<1>4. CASE BeginOp(p)
  <2>1. pc[p] = "begin" /\ cache' = cache
    BY <1>4 DEF BeginOp
  <2>2. CASE MustWait
    <3>1. pc' = [pc EXCEPT ![p] = "asleep"]
      BY <1>4, <2>2 DEF BeginOp, Goto
    <3>2. InOp' = InOp
      BY <1>1, <2>1, <3>1 DEF InOp
    <3> QED BY <1>2, <2>1, <3>2 DEF A!vars
  <2>3. CASE ~MustWait
    <3>1. pc' = [pc EXCEPT ![p] = "op"]
      BY <1>4, <2>3 DEF BeginOp, Goto
    <3>2. InOp' = InOp \cup {p} /\ p \notin InOp
      BY <1>1, <2>1, <3>1 DEF InOp
    <3> QED BY <1>2, <2>1, <3>2 DEF A!Begin
  <2> QED BY <2>2, <2>3
<1>5. CASE ModifyBlock(p)
  <2>1. p \in InOp /\ boot = "ready"
    <3>1. p \in InOp
      BY <1>5 DEF ModifyBlock, InOp
    <3> QED BY <3>1, DuringOp
  <2>2. \E b \in Block, v \in Value : cache' = [cache EXCEPT ![b] = v]
    <3>1. PICK b \in todo[p] : cache' = [cache EXCEPT ![b] = op[p]]
      BY <1>5 DEF ModifyBlock
    <3> QED BY <1>1, <3>1 DEF TypeOK
  <2>3. InOp' = InOp
    <3>1. pc[p] = "op" /\ \E l \in {"panic", "log_write"} : pc' = [pc EXCEPT ![p] = l]
      BY <1>5 DEF ModifyBlock, Goto
    <3> QED BY <1>1, <3>1 DEF InOp
  <2> QED BY <1>2, <2>1, <2>2, <2>3 DEF A!Write
<1>6. CASE LogWrite(p)
  <2>1. pc[p] = "log_write" /\ pc' = [pc EXCEPT ![p] = "op"] /\ cache' = cache
    BY <1>6 DEF LogWrite, Goto
  <2>2. InOp' = InOp
    BY <1>1, <2>1 DEF InOp
  <2> QED BY <1>2, <2>1, <2>2 DEF A!vars
<1>7. CASE EndOp(p)
  <2>1. pc[p] = "op" /\ cache' = cache /\ p \in InOp
    BY <1>7 DEF EndOp, InOp
  <2>2. ~committing
    BY <2>1, DuringOp
  <2>3. InOp' = InOp \ {p}
    <3>1. CASE outstanding = 1
      <4>1. pc' = [pc EXCEPT ![p] = CommitStart] /\ CommitStart \in {"done", "write_log"}
        BY <1>7, <2>2, <3>1 DEF EndOp, Goto, CommitStart
      <4> QED BY <1>1, <4>1 DEF InOp
    <3>2. CASE outstanding # 1
      <4>1. /\ pc'[p] = "idle"
            /\ \A q \in Process \ {p} : pc'[q] = IF pc[q] = "asleep" THEN "begin" ELSE pc[q]
        BY <1>1, <1>7, <2>2, <3>2, Woken DEF EndOp, Labels
      <4> QED BY <4>1 DEF InOp
    <3> QED BY <3>1, <3>2
  <2> QED BY <1>2, <2>1, <2>3 DEF A!End
<1> QED
  BY <1>3, <1>4, <1>5, <1>6, <1>7

LEMMA AtomicNext == ASSUME LogInv, [Next]_vars PROVE [A!Next]_(A!vars)
<1>1. CASE Recover
  BY <1>1, AtomicRecover
<1>2. ASSUME NEW p \in Process, StartCall(p) \/ Call(p) PROVE [A!Next]_(A!vars)
  BY <1>2, AtomicOperation, AtomicCommit DEF Call, A!Next
<1>3. CASE Crash
  <2>1. Recovered' = Recovered
    BY <1>3, RecoveredSame DEF Crash
  <2>2. InOp' = {} /\ boot' = "read_head"
    BY <1>3 DEF Crash, InOp
  <2> QED BY <2>1, <2>2 DEF A!Next, A!Crash
<1>4. CASE UNCHANGED vars
  <2>1. Recovered' = Recovered /\ InOp' = InOp /\ boot' = boot /\ cache' = cache
    BY <1>4, RecoveredSame DEF vars, InOp
  <2> QED BY <2>1 DEF A!vars
<1> QED
  BY <1>1, <1>2, <1>3, <1>4 DEF Next

(* Crash atomicity: whatever the interleaving of operations, group commit,  *)
(* installation, crash and recovery, a restart finds the effects of         *)
(* complete operations only, and never loses committed ones.                *)
THEOREM LogIsAtomic == Spec => CrashAtomic
BY AtomicInit, AtomicNext, LogInvariant, PTL DEF Spec, CrashAtomic, A!Spec
=============================================================================
