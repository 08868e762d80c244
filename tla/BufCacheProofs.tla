---------------------------- MODULE BufCacheProofs --------------------------
(***************************************************************************)
(* Proofs about BufCache, for any number of processes, blocks and buffers. *)
(***************************************************************************)
EXTENDS BufCache, FiniteSetTheorems, TLAPS

(***************************************************************************)
(* The inductive invariant.                                                *)
(***************************************************************************)

(* The LRU list holds every buffer.                                         *)
Listed == \A b \in Buf : \E i \in 1..NBUF : lru[i] = b

(* No block is cached twice.                                                *)
Unique == \A a, b \in Buf : blockno[a] = blockno[b] /\ a # b => blockno[a] = NoBlock

(* refcnt counts the processes that use a buffer; a buffer in use is cached *)
(* for a block.                                                             *)
Users(b) == {h \in Hand : cur[h] = b}
Refs ==
    /\ \A b \in Buf : refcnt[b] = Cardinality(Users(b))
    /\ \A h \in Hand : IF pc[h] \in {"idle", "panic"} THEN cur[h] = None
                          ELSE cur[h] \in Buf /\ blockno[cur[h]] \in Block

(* The sleep lock of a buffer is held by the process that works on it.      *)
Disk == {"rw", "io", "io_asleep"}
Working == Disk \cup {"hold"}
Owners ==
    /\ \A h \in Hand : pc[h] \in Working => holder[cur[h]] = h
    /\ \A b \in Buf : holder[b] # Nobody => cur[holder[b]] = b /\ pc[holder[b]] \in Working

(* The disk queue holds the buffers whose holders wait for it, once each.   *)
Queued ==
    /\ \A i, j \in 1..Len(queue) : queue[i] = queue[j] => i = j
    /\ \A i \in 1..Len(queue) :
          /\ holder[queue[i]] # Nobody
          /\ pc[holder[queue[i]]] \in {"io", "io_asleep"}
    /\ \A h \in Hand : pc[h] \in {"io", "io_asleep"} =>
          \/ \E i \in 1..Len(queue) : queue[i] = cur[h]
          \/ pc[h] = "io" /\ valid[cur[h]] /\ ~dirty[cur[h]]
    /\ started = NextStarted(queue)

(* What is asked of the disk is a read of a buffer that is not valid or a   *)
(* write of one that is dirty.                                              *)
Asked ==
    /\ \A h \in Hand : /\ pc[h] = "hold" => valid[cur[h]]
                       /\ pc[h] = "rw" => dirty[cur[h]] \/ ~valid[cur[h]]
    /\ \A i \in 1..Len(queue) : dirty[queue[i]] \/ ~valid[queue[i]]

(* A clean buffer holds what is on the disk, a dirty one what was written.  *)
Coherent ==
    \A b \in Buf :
        /\ dirty[b] => valid[b] /\ ~stale[b] /\ blockno[b] \in Block
        /\ valid[b] /\ ~dirty[b] /\ ~stale[b] => blockno[b] \in Block /\ data[b] = disk[blockno[b]]

(* Buffers stay dirty without being written only on behalf of the log.      *)
Parked == {b \in Buf : dirty[b] /\ \A h \in Hand : cur[h] = b => pc[h] \notin Disk}
FewParked == Cardinality(Parked) <= MaxDirty

BufInv ==
    /\ TypeOK /\ Listed /\ Unique /\ Refs /\ Owners /\ Queued /\ Asked /\ Coherent
    /\ FewParked
    /\ \A h \in Hand : pc[h] = "lock_asleep" => holder[cur[h]] # Nobody

LEMMA BufFacts == /\ None \notin Buf /\ Nobody \notin Hand /\ NoBlock \notin Block
                  /\ NBUF \in Nat /\ NBUF >= 1 /\ IsFiniteSet(Buf) /\ Cardinality(Buf) = NBUF
<1>1. NBUF \in Nat /\ NBUF >= 1
  BY BufAssumption
<1>2. IsFiniteSet(1..NBUF) /\ Cardinality(1..NBUF) = NBUF
  BY <1>1, FS_Interval
<1> QED
  BY <1>1, <1>2, BufAssumption DEF Buf, None

LEMMA FiniteUsers ==
    ASSUME NEW U \in SUBSET Hand PROVE IsFiniteSet(U) /\ Cardinality(U) \in Nat
BY BufAssumption, FS_Subset, FS_CardinalityType

LEMMA FiniteBuffers ==
    ASSUME NEW T \in SUBSET Buf PROVE IsFiniteSet(T) /\ Cardinality(T) \in Nat
BY BufFacts, FS_Subset, FS_CardinalityType

LEMMA FewerParked == ASSUME FewParked, Parked' \subseteq Parked PROVE FewParked'
<1>1. Parked \in SUBSET Buf /\ Parked' \in SUBSET Parked
  BY DEF Parked
<1>2. IsFiniteSet(Parked) /\ Cardinality(Parked) \in Nat /\ Cardinality(Parked') \in Nat
  BY <1>1, FiniteBuffers
<1>3. Cardinality(Parked') <= Cardinality(Parked)
  BY <1>1, <1>2, FS_Subset
<1> QED
  BY <1>2, <1>3, BufAssumption DEF FewParked

(* A nonempty set of list positions has a last one.                         *)
LEMMA LastPosition ==
    ASSUME NEW n \in Nat, NEW S \in SUBSET (1..n), S # {} PROVE Max(S) \in S
<1> DEFINE Less == OpToRel(<, Nat)
           T == {n - i : i \in S}
<1>1. IsWellFoundedOn(Less, Nat)
  BY NatLessThanWellFounded, Zenon
<1>2. T \subseteq Nat /\ T # {}
  <2>1. \A i \in S : n - i \in Nat
    OBVIOUS
  <2>2. PICK i \in S : TRUE
    OBVIOUS
  <2>3. n - i \in T
    OBVIOUS
  <2> QED BY <2>1, <2>3
<1>3. \E x \in T : \A y \in T : ~(<<y, x>> \in Less)
  <2> HIDE DEF Less, T
  <2> QED BY <1>1, <1>2, WFMin
<1>4. PICK x \in T : \A y \in T : ~(y < x)
  BY <1>2, <1>3 DEF OpToRel
<1>5. PICK i \in S : x = n - i
  BY <1>4
<1>6. \A j \in S : i >= j
  BY <1>4, <1>5
<1> QED
  BY <1>6 DEF Max

LEMMA BufInvInit == Init => BufInv
<1> SUFFICES ASSUME Init PROVE BufInv
  OBVIOUS
<1>1. lru \in [1..NBUF -> Buf] /\ \A b \in Buf : lru[NBUF - b + 1] = b /\ NBUF - b + 1 \in 1..NBUF
  <2> DEFINE id == [b \in Buf |-> b]
  <2>1. id \in Seq(Buf) /\ Len(id) = NBUF /\ \A i \in 1..NBUF : id[i] = i
    BY BufFacts DEF Buf
  <2>2. lru = [i \in 1..NBUF |-> id[(NBUF - i) + 1]]
    BY <2>1 DEF Init, Reverse
  <2> QED
    BY <2>1, <2>2, BufFacts DEF Buf
<1>2. lru \in Seq(Buf) /\ Len(lru) = NBUF
  BY <1>1, BufFacts
<1>3. TypeOK
  BY <1>2, BufAssumption DEF Init, TypeOK, Labels
<1>4. Listed
  BY <1>1 DEF Listed
<1>5. Unique /\ Coherent
  BY DEF Init, Unique, Coherent
<1>6. Refs
  <2>1. \A b \in Buf : Users(b) = {}
    BY BufFacts DEF Init, Users
  <2> QED BY <2>1, FS_EmptySet DEF Init, Refs
<1>7. Owners /\ Asked
  BY DEF Init, Owners, Asked, Working, Disk
<1>8. Queued
  BY DEF Init, Queued, NextStarted
<1>9. FewParked
  <2>1. Parked = {}
    BY DEF Init, Parked
  <2> QED BY <2>1, FS_EmptySet, BufAssumption DEF FewParked
<1> QED
  BY <1>3, <1>4, <1>5, <1>6, <1>7, <1>8, <1>9 DEF BufInv, Init

(* A process that works on a buffer has it to itself.                       *)
LEMMA AtWork ==
    ASSUME BufInv, NEW h \in Hand, pc[h] \in Working
    PROVE  /\ cur[h] \in Buf /\ holder[cur[h]] = h /\ blockno[cur[h]] \in Block
           /\ h # Nobody
           /\ \A g \in Hand : cur[g] = cur[h] /\ pc[g] \in Working => g = h
           /\ pc[h] \notin {"io", "io_asleep"} => \A i \in 1..Len(queue) : queue[i] # cur[h]
<1>1. cur[h] \in Buf /\ blockno[cur[h]] \in Block
  BY DEF BufInv, Refs, Working, Disk
<1>2. holder[cur[h]] = h /\ \A g \in Hand : cur[g] = cur[h] /\ pc[g] \in Working => g = h
  BY DEF BufInv, Owners
<1>3. pc[h] \notin {"io", "io_asleep"} => \A i \in 1..Len(queue) : queue[i] # cur[h]
  BY <1>2 DEF BufInv, Queued
<1> QED
  BY <1>1, <1>2, <1>3, BufAssumption

(* One more user of a buffer, one less.                                     *)
LEMMA UserAdded ==
    ASSUME TypeOK, NEW h \in Hand, NEW b \in Buf, cur[h] = None,
           cur' = [cur EXCEPT ![h] = b]
    PROVE  /\ Users(b)' = Users(b) \cup {h}
           /\ Cardinality(Users(b)') = Cardinality(Users(b)) + 1
           /\ \A a \in Buf \ {b} : Users(a)' = Users(a)
<1>1. cur \in [Hand -> Buf \cup {None}]
  BY DEF TypeOK
<1>2. /\ Users(b)' = Users(b) \cup {h} /\ h \notin Users(b)
      /\ \A a \in Buf \ {b} : Users(a)' = Users(a)
  BY <1>1, BufFacts DEF Users
<1>3. IsFiniteSet(Users(b))
  <2>1. Users(b) \in SUBSET Hand
    BY DEF Users
  <2> QED BY <2>1, FiniteUsers
<1>4. Cardinality(Users(b) \cup {h}) = Cardinality(Users(b)) + 1
  BY <1>2, <1>3, FS_AddElement
<1> QED
  BY <1>2, <1>4

LEMMA UserRemoved ==
    ASSUME TypeOK, NEW h \in Hand, NEW b \in Buf, cur[h] = b,
           cur' = [cur EXCEPT ![h] = None]
    PROVE  /\ Users(b)' = Users(b) \ {h}
           /\ Cardinality(Users(b)') = Cardinality(Users(b)) - 1
           /\ \A a \in Buf \ {b} : Users(a)' = Users(a)
<1>1. cur \in [Hand -> Buf \cup {None}]
  BY DEF TypeOK
<1>2. /\ Users(b)' = Users(b) \ {h} /\ h \in Users(b)
      /\ \A a \in Buf \ {b} : Users(a)' = Users(a)
  BY <1>1, BufFacts DEF Users
<1>3. IsFiniteSet(Users(b))
  <2>1. Users(b) \in SUBSET Hand
    BY DEF Users
  <2> QED BY <2>1, FiniteUsers
<1>4. Cardinality(Users(b) \ {h}) = Cardinality(Users(b)) - 1
  BY <1>2, <1>3, FS_RemoveElement
<1> QED
  BY <1>2, <1>4

(* A step that neither touches the queue nor moves a process in iderw.      *)
LEMMA QueuedFrame ==
    ASSUME TypeOK, Queued, UNCHANGED <<queue, started>>,
           \A i \in 1..Len(queue) : holder'[queue[i]] = holder[queue[i]],
           \A g \in Hand : pc[g] \in {"io", "io_asleep"} \/ pc'[g] \in {"io", "io_asleep"} =>
               /\ pc'[g] = pc[g] /\ cur'[g] = cur[g]
               /\ valid'[cur[g]] = valid[cur[g]] /\ dirty'[cur[g]] = dirty[cur[g]]
    PROVE  Queued'
<1>1. \A i \in 1..Len(queue) : holder[queue[i]] \in Hand \cup {Nobody}
  BY DEF TypeOK
<1>2. \A i \in 1..Len(queue) : holder'[queue[i]] # Nobody
                              /\ pc'[holder'[queue[i]]] \in {"io", "io_asleep"}
  BY <1>1 DEF Queued
<1>3. \A g \in Hand : pc'[g] \in {"io", "io_asleep"} =>
          \/ \E i \in 1..Len(queue) : queue[i] = cur'[g]
          \/ pc'[g] = "io" /\ valid'[cur'[g]] /\ ~dirty'[cur'[g]]
  BY DEF Queued
<1> QED
  BY <1>2, <1>3 DEF Queued, NextStarted

(***************************************************************************)
(* bget()                                                                  *)
(***************************************************************************)
LEMMA InvFound ==
    ASSUME BufInv, NEW h \in Hand, NEW k \in Block, Bget(h, k), Found(h, k)
    PROVE  BufInv'
<1>1. PICK b \in Buf :
      /\ pc[h] = "idle" /\ blockno[b] = k
      /\ refcnt' = [refcnt EXCEPT ![b] = @ + 1]
      /\ cur' = [cur EXCEPT ![h] = b]
      /\ pc' = [pc EXCEPT ![h] = "lock"]
      /\ UNCHANGED <<blockno, valid, dirty, holder, data, stale, lru, ideVars>>
  BY DEF Bget, Found, Goto, Cached
<1>2. b \in Buf /\ blockno[b] = k
  BY <1>1
<1>3. /\ TypeOK /\ pc \in [Hand -> Labels] /\ cur \in [Hand -> Buf \cup {None}]
      /\ refcnt \in [Buf -> Nat] /\ cur[h] = None
  BY <1>1 DEF BufInv, TypeOK, Refs
<1>4. /\ pc'[h] = "lock" /\ \A g \in Hand \ {h} : pc'[g] = pc[g]
      /\ cur'[h] = b /\ \A g \in Hand \ {h} : cur'[g] = cur[g]
      /\ refcnt'[b] = refcnt[b] + 1 /\ \A a \in Buf \ {b} : refcnt'[a] = refcnt[a]
  BY <1>1, <1>2, <1>3
<1>5. TypeOK'
  BY <1>1, <1>2, <1>3 DEF TypeOK, Labels, ideVars
<1>6. Listed' /\ Unique' /\ Coherent'
  BY <1>1 DEF BufInv, Listed, Unique, Coherent, ideVars
<1>7. Refs'
  <2>1. \A a \in Buf : refcnt'[a] = Cardinality(Users(a)')
    <3>1. /\ Cardinality(Users(b)') = Cardinality(Users(b)) + 1
          /\ \A a \in Buf \ {b} : Users(a)' = Users(a)
      BY <1>1, <1>2, <1>3, UserAdded
    <3> QED BY <1>2, <1>4, <3>1 DEF BufInv, Refs
  <2>2. \A g \in Hand : IF pc'[g] \in {"idle", "panic"} THEN cur'[g] = None
                           ELSE cur'[g] \in Buf /\ blockno'[cur'[g]] \in Block
    BY <1>1, <1>2, <1>4 DEF BufInv, Refs
  <2> QED BY <2>1, <2>2 DEF Refs
<1>8. Owners'
  BY <1>1, <1>4, <1>5, <1>3 DEF BufInv, Owners, TypeOK, Working, Disk
<1>9. Queued'
  BY <1>1, <1>4, QueuedFrame DEF BufInv, ideVars
<1>10. Asked'
  BY <1>1, <1>4 DEF BufInv, Asked, ideVars
<1>11. FewParked'
  <2>1. Parked' \subseteq Parked
    BY <1>1, <1>3, <1>4, BufFacts DEF Parked
  <2> QED BY <2>1, FewerParked DEF BufInv
<1>12. \A g \in Hand : pc'[g] = "lock_asleep" => holder'[cur'[g]] # Nobody
  BY <1>1, <1>4 DEF BufInv
<1> QED
  BY <1>5, <1>6, <1>7, <1>8, <1>9, <1>10, <1>11, <1>12 DEF BufInv

(* A buffer without users is idle: unlocked and not in the disk queue.      *)
LEMMA Unused ==
    ASSUME BufInv, NEW b \in Buf, refcnt[b] = 0
    PROVE  /\ \A g \in Hand : cur[g] # b
           /\ holder[b] = Nobody
           /\ \A i \in 1..Len(queue) : queue[i] # b
<1>1. Users(b) = {}
  <2>1. Users(b) \in SUBSET Hand /\ Cardinality(Users(b)) = 0
    BY DEF Users, BufInv, Refs
  <2> QED BY <2>1, FiniteUsers, FS_EmptySet
<1>2. \A g \in Hand : cur[g] # b
  BY <1>1 DEF Users
<1>3. holder[b] = Nobody
  BY <1>2 DEF BufInv, Owners, TypeOK
<1> QED
  BY <1>2, <1>3 DEF BufInv, Queued

LEMMA Recycled ==
    ASSUME TypeOK, Recyclable # {}
    PROVE  LET b == lru[Max(Recyclable)] IN b \in Buf /\ refcnt[b] = 0 /\ ~dirty[b]
<1>1. lru \in Seq(Buf) /\ Len(lru) = NBUF /\ DOMAIN lru = 1..NBUF
  BY DEF TypeOK
<1>2. Recyclable \in SUBSET (1..NBUF)
  BY <1>1 DEF Recyclable
<1>3. Max(Recyclable) \in Recyclable
  BY <1>2, BufFacts, LastPosition
<1> DEFINE m == Max(Recyclable)
<1>4. m \in Recyclable
  BY <1>3
<1> HIDE DEF m
<1>5. m \in DOMAIN lru /\ refcnt[lru[m]] = 0 /\ ~dirty[lru[m]]
  BY <1>4, Zenon DEF Recyclable
<1>6. m \in 1..NBUF
  BY <1>2, <1>4
<1>7. lru[m] \in Buf
  BY <1>1, <1>6
<1> QED
  BY <1>5, <1>7 DEF m

LEMMA InvRecycle ==
    ASSUME BufInv, NEW h \in Hand, NEW k \in Block, Bget(h, k), Recycle(h, k),
           Recyclable # {}
    PROVE  BufInv'
<1>1. TypeOK /\ pc[h] = "idle" /\ cur[h] = None /\ \A b \in Buf : blockno[b] # k
  BY DEF Bget, Recycle, Cached, BufInv, Refs
<1>2. PICK b \in Buf :
        /\ refcnt[b] = 0 /\ ~dirty[b]
        /\ blockno' = [blockno EXCEPT ![b] = k]
        /\ valid' = [valid EXCEPT ![b] = FALSE]
        /\ dirty' = [dirty EXCEPT ![b] = FALSE]
        /\ refcnt' = [refcnt EXCEPT ![b] = 1]
        /\ cur' = [cur EXCEPT ![h] = b]
        /\ pc' = [pc EXCEPT ![h] = "lock"]
        /\ UNCHANGED <<holder, data, stale, lru, ideVars>>
  <2> DEFINE v == lru[Max(Recyclable)]
  <2>1. v \in Buf /\ refcnt[v] = 0 /\ ~dirty[v]
    BY <1>1, Recycled
  <2>2. /\ blockno' = [blockno EXCEPT ![v] = k]
        /\ valid' = [valid EXCEPT ![v] = FALSE]
        /\ dirty' = [dirty EXCEPT ![v] = FALSE]
        /\ refcnt' = [refcnt EXCEPT ![v] = 1]
        /\ cur' = [cur EXCEPT ![h] = v]
        /\ pc' = [pc EXCEPT ![h] = "lock"]
        /\ UNCHANGED <<holder, data, stale, lru, ideVars>>
    BY DEF Recycle, Bget, Goto
  <2> HIDE DEF v
  <2> QED BY <2>1, <2>2
<1>3. /\ \A g \in Hand : cur[g] # b
      /\ holder[b] = Nobody
      /\ \A i \in 1..Len(queue) : queue[i] # b
  BY <1>2, Unused
<1>4. /\ pc \in [Hand -> Labels] /\ cur \in [Hand -> Buf \cup {None}]
      /\ refcnt \in [Buf -> Nat] /\ blockno \in [Buf -> Block \cup {NoBlock}]
      /\ valid \in [Buf -> BOOLEAN] /\ dirty \in [Buf -> BOOLEAN]
      /\ holder \in [Buf -> Hand \cup {Nobody}] /\ queue \in Seq(Buf)
  BY <1>1 DEF TypeOK
<1>5. /\ pc'[h] = "lock" /\ \A g \in Hand \ {h} : pc'[g] = pc[g]
      /\ cur'[h] = b /\ \A g \in Hand \ {h} : cur'[g] = cur[g]
      /\ refcnt'[b] = 1 /\ \A a \in Buf \ {b} : refcnt'[a] = refcnt[a]
      /\ blockno'[b] = k /\ \A a \in Buf \ {b} : blockno'[a] = blockno[a]
  BY <1>2, <1>4
<1>6. /\ ~valid'[b] /\ \A a \in Buf \ {b} : valid'[a] = valid[a]
      /\ ~dirty'[b] /\ \A a \in Buf \ {b} : dirty'[a] = dirty[a]
  BY <1>2, <1>4, Zenon
<1>7. TypeOK'
  BY <1>1, <1>2, <1>4 DEF TypeOK, Labels, ideVars
<1>8. Listed' /\ Unique'
  BY <1>1, <1>2, <1>5 DEF BufInv, Listed, Unique
<1>9. Coherent'
  <2> SUFFICES ASSUME NEW a \in Buf
               PROVE  /\ dirty'[a] => valid'[a] /\ ~stale[a] /\ blockno'[a] \in Block
                      /\ valid'[a] /\ ~dirty'[a] /\ ~stale[a]
                         => blockno'[a] \in Block /\ data[a] = disk[blockno'[a]]
    BY <1>2 DEF Coherent, ideVars
  <2>1. CASE a = b
    BY <1>6, <2>1
  <2>2. CASE a # b
    BY <1>5, <1>6, <2>2 DEF BufInv, Coherent
  <2> QED BY <2>1, <2>2
<1>10. Refs'
  <2>1. \A a \in Buf : refcnt'[a] = Cardinality(Users(a)')
    <3>1. /\ Cardinality(Users(b)') = Cardinality(Users(b)) + 1
          /\ \A a \in Buf \ {b} : Users(a)' = Users(a)
      BY <1>1, <1>2, UserAdded
    <3> QED BY <1>2, <1>5, <3>1 DEF BufInv, Refs
  <2>2. \A g \in Hand : IF pc'[g] \in {"idle", "panic"} THEN cur'[g] = None
                           ELSE cur'[g] \in Buf /\ blockno'[cur'[g]] \in Block
    BY <1>2, <1>3, <1>5 DEF BufInv, Refs
  <2> QED BY <2>1, <2>2 DEF Refs
<1>11. Owners'
  BY <1>1, <1>2, <1>4, <1>5 DEF BufInv, Owners, Working, Disk
<1>12. Queued'
  <2>1. \A g \in Hand : pc[g] \in {"io", "io_asleep"} \/ pc'[g] \in {"io", "io_asleep"} =>
            /\ pc'[g] = pc[g] /\ cur'[g] = cur[g] /\ cur[g] \in Buf \ {b}
    BY <1>1, <1>3, <1>5 DEF BufInv, Refs
  <2> QED
    BY <1>1, <1>2, <1>6, <2>1, QueuedFrame DEF BufInv, ideVars
<1>13. Asked'
  <2>1. \A g \in Hand : pc'[g] \in {"hold", "rw"} =>
            /\ pc'[g] = pc[g] /\ cur'[g] = cur[g] /\ cur[g] \in Buf \ {b}
    BY <1>1, <1>3, <1>5 DEF BufInv, Refs
  <2>2. \A i \in 1..Len(queue) : queue[i] \in Buf \ {b}
    BY <1>3, <1>4
  <2> QED
    BY <1>2, <1>6, <2>1, <2>2 DEF BufInv, Asked, ideVars
<1>14. FewParked'
  <2>1. Parked' \subseteq Parked
    BY <1>1, <1>3, <1>5, <1>6, BufFacts DEF Parked
  <2> QED BY <2>1, FewerParked DEF BufInv
<1>15. \A g \in Hand : pc'[g] = "lock_asleep" => holder'[cur'[g]] # Nobody
  BY <1>2, <1>5 DEF BufInv
<1> QED
  BY <1>7, <1>8, <1>9, <1>10, <1>11, <1>12, <1>13, <1>14, <1>15 DEF BufInv

(* The moves between the attempts to take a sleep lock.                     *)
Waits(g) ==
    /\ pc[g] \in {"lock", "lock_asleep", "release"}
    /\ pc'[g] \in {"lock", "lock_asleep", "release"}
    /\ pc'[g] = "lock_asleep" => holder[cur[g]] # Nobody

(* A step that only moves processes, none of them in, into or out of the    *)
(* disk driver or the possession of a buffer.                               *)
LEMMA InvMove ==
    ASSUME BufInv, UNCHANGED <<bufVars, lru, ideVars, cur>>, pc' \in [Hand -> Labels],
           \A g \in Hand : pc'[g] = pc[g] \/ Waits(g) \/ (pc[g] = "idle" /\ pc'[g] = "panic")
    PROVE  BufInv'
<1>1. TypeOK'
  BY DEF BufInv, TypeOK, bufVars, ideVars
<1>2. Listed' /\ Unique' /\ Coherent'
  BY DEF BufInv, Listed, Unique, Coherent, bufVars, ideVars
<1>3. Refs'
  <2>1. \A b \in Buf : Users(b)' = Users(b)
    BY DEF Users
  <2> QED BY <2>1 DEF BufInv, Refs, bufVars, Waits
<1>4. Owners'
  <2>1. \A g \in Hand : pc'[g] \in Working <=> pc[g] \in Working
    BY DEF Working, Disk, Waits
  <2>2. \A b \in Buf : holder[b] \in Hand \cup {Nobody}
    BY DEF BufInv, TypeOK
  <2> QED BY <2>1, <2>2 DEF BufInv, Owners, bufVars
<1>5. Queued'
  BY QueuedFrame DEF BufInv, bufVars, ideVars, Waits
<1>6. Asked'
  <2>1. \A g \in Hand : pc'[g] \in {"hold", "rw"} => pc'[g] = pc[g]
    BY DEF Waits
  <2> QED BY <2>1 DEF BufInv, Asked, bufVars, ideVars
<1>7. FewParked'
  <2>1. \A g \in Hand : pc[g] \in Disk => pc'[g] \in Disk
    BY DEF Disk, Waits
  <2>2. Parked' \subseteq Parked
    BY <2>1 DEF Parked, bufVars
  <2> QED BY <2>2, FewerParked DEF BufInv
<1>8. \A g \in Hand : pc'[g] = "lock_asleep" => holder'[cur'[g]] # Nobody
  BY DEF BufInv, bufVars, Waits
<1> QED
  BY <1>1, <1>2, <1>3, <1>4, <1>5, <1>6, <1>7, <1>8 DEF BufInv

LEMMA InvBget == ASSUME BufInv, NEW h \in Hand, NEW k \in Block, Bget(h, k) PROVE BufInv'
<1>1. CASE Found(h, k)
  BY <1>1, InvFound
<1>2. CASE Recycle(h, k) /\ Recyclable # {}
  BY <1>2, InvRecycle
<1>3. CASE Recycle(h, k) /\ Recyclable = {}
  <2>1. /\ pc[h] = "idle" /\ pc' = [pc EXCEPT ![h] = "panic"]
        /\ UNCHANGED <<bufVars, lru, ideVars, cur>>
    BY <1>3 DEF Bget, Recycle, Goto, bufVars
  <2>2. /\ pc' \in [Hand -> Labels] /\ pc'[h] = "panic"
        /\ \A g \in Hand \ {h} : pc'[g] = pc[g]
    BY <2>1 DEF BufInv, TypeOK, Labels
  <2>3. \A g \in Hand : pc'[g] = pc[g] \/ Waits(g) \/ (pc[g] = "idle" /\ pc'[g] = "panic")
    BY <2>1, <2>2
  <2> QED
    BY <2>1, <2>2, <2>3, InvMove
<1> QED
  BY <1>1, <1>2, <1>3 DEF Bget

(***************************************************************************)
(* acquiresleep() and releasesleep().                                      *)
(***************************************************************************)
LEMMA InvAcquireSleep == ASSUME BufInv, NEW h \in Hand, AcquireSleep(h) PROVE BufInv'
<1>1. /\ pc[h] = "lock" /\ pc \in [Hand -> Labels]
      /\ UNCHANGED <<blockno, valid, dirty, refcnt, data, stale, lru, ideVars, cur>>
  BY DEF AcquireSleep, BufInv, TypeOK
<1>2. PICK b \in Buf : b = cur[h] /\ blockno[b] \in Block
  BY <1>1 DEF BufInv, Refs
<1>3. CASE holder[b] # Nobody
  <2>1. pc' = [pc EXCEPT ![h] = "lock_asleep"] /\ holder' = holder
    BY <1>2, <1>3 DEF AcquireSleep, Goto
  <2>2. /\ pc' \in [Hand -> Labels] /\ pc'[h] = "lock_asleep"
        /\ \A g \in Hand \ {h} : pc'[g] = pc[g]
    BY <1>1, <2>1 DEF Labels
  <2>3. \A g \in Hand : pc'[g] = pc[g] \/ Waits(g)
    BY <1>1, <1>2, <1>3, <2>2 DEF Waits
  <2>4. UNCHANGED <<bufVars, lru, ideVars, cur>>
    BY <1>1, <2>1 DEF bufVars
  <2> QED
    BY <2>2, <2>3, <2>4, InvMove
<1>4. CASE holder[b] = Nobody
  <2>1. PICK l \in {"hold", "rw"} :
          /\ holder' = [holder EXCEPT ![b] = h]
          /\ pc' = [pc EXCEPT ![h] = l]
          /\ l = "hold" => valid[b]
          /\ l = "rw" => ~valid[b]
    BY <1>2, <1>4 DEF AcquireSleep, Goto
  <2>2. /\ holder \in [Buf -> Hand \cup {Nobody}] /\ queue \in Seq(Buf)
        /\ pc'[h] = l /\ \A g \in Hand \ {h} : pc'[g] = pc[g]
        /\ holder'[b] = h /\ \A a \in Buf \ {b} : holder'[a] = holder[a]
    BY <1>1, <2>1 DEF BufInv, TypeOK
  <2>3. TypeOK'
    BY <1>1, <1>2, <2>1 DEF BufInv, TypeOK, Labels, ideVars
  <2>4. Listed' /\ Unique' /\ Coherent'
    BY <1>1 DEF BufInv, Listed, Unique, Coherent, ideVars
  <2>5. Refs'
    <3>1. \A a \in Buf : Users(a)' = Users(a)
      BY <1>1 DEF Users
    <3> QED BY <1>1, <1>2, <2>2, <3>1 DEF BufInv, Refs
  <2>6. Owners'
    <3>1. \A g \in Hand : pc[g] \in Working => cur[g] # b
      BY <1>4, BufAssumption DEF BufInv, Owners
    <3>2. pc[h] \notin Working /\ pc'[h] \in Working /\ h # Nobody
      BY <1>1, <2>2, BufAssumption DEF Working, Disk
    <3>3. \A g \in Hand : pc'[g] \in Working => holder'[cur'[g]] = g
      <4> SUFFICES ASSUME NEW g \in Hand \ {h}, pc[g] \in Working
                   PROVE  holder'[cur[g]] = g
        BY <1>1, <1>2, <2>2
      <4>1. cur[g] \in Buf \ {b} /\ holder[cur[g]] = g
        BY <3>1, AtWork
      <4> QED BY <2>2, <4>1
    <3>4. \A a \in Buf : holder'[a] # Nobody =>
              cur'[holder'[a]] = a /\ pc'[holder'[a]] \in Working
      <4> SUFFICES ASSUME NEW a \in Buf \ {b}, holder[a] # Nobody
                   PROVE  cur[holder[a]] = a /\ pc'[holder[a]] \in Working
        BY <1>1, <1>2, <2>2, <3>2
      <4>1. holder[a] \in Hand /\ cur[holder[a]] = a /\ pc[holder[a]] \in Working
        BY <2>2 DEF BufInv, Owners
      <4> QED BY <2>2, <3>2, <4>1
    <3> QED BY <3>3, <3>4 DEF Owners
  <2>7. Queued'
    <3>1. \A i \in 1..Len(queue) : queue[i] \in Buf \ {b}
      BY <1>4, <2>2 DEF BufInv, Queued
    <3> QED BY <1>1, <2>2, <3>1, QueuedFrame DEF BufInv, ideVars
  <2>8. Asked'
    BY <1>1, <1>2, <2>1, <2>2 DEF BufInv, Asked, ideVars
  <2>9. FewParked'
    <3>1. Parked' \subseteq Parked
      BY <1>1, <2>2 DEF Parked, Disk
    <3> QED BY <3>1, FewerParked DEF BufInv
  <2>10. \A g \in Hand : pc'[g] = "lock_asleep" => holder'[cur'[g]] # Nobody
    <3> SUFFICES ASSUME NEW g \in Hand \ {h}, pc[g] = "lock_asleep"
                 PROVE  holder'[cur[g]] # Nobody
      BY <1>1, <2>2
    <3>1. cur[g] \in Buf /\ holder[cur[g]] # Nobody
      BY DEF BufInv, Refs
    <3> QED BY <2>2, <3>1, BufAssumption
  <2> QED
    BY <2>3, <2>4, <2>5, <2>6, <2>7, <2>8, <2>9, <2>10 DEF BufInv
<1> QED
  BY <1>3, <1>4

LEMMA InvReleaseSleep == ASSUME BufInv, NEW h \in Hand, ReleaseSleep(h) PROVE BufInv'
<1>1. /\ pc[h] = "hold" /\ pc[h] \in Working
      /\ UNCHANGED <<blockno, valid, dirty, refcnt, data, stale, lru, ideVars, cur>>
  BY DEF ReleaseSleep, Working
<1>2. PICK b \in Buf : b = cur[h]
  BY <1>1, AtWork
<1>3. /\ holder[b] = h /\ blockno[b] \in Block
      /\ \A g \in Hand : cur[g] = b /\ pc[g] \in Working => g = h
      /\ \A i \in 1..Len(queue) : queue[i] # b
  BY <1>1, <1>2, AtWork
<1>4. /\ holder' = [holder EXCEPT ![b] = Nobody]
      /\ pc' = [g \in Hand |-> IF g = h THEN "release"
                                 ELSE IF cur[g] = b /\ pc[g] = "lock_asleep" THEN "lock"
                                 ELSE pc[g]]
  BY <1>2 DEF ReleaseSleep, ReleaseWakes, GotoWake
<1>5. /\ holder \in [Buf -> Hand \cup {Nobody}] /\ pc \in [Hand -> Labels]
      /\ queue \in Seq(Buf)
  BY DEF BufInv, TypeOK
<1>6. /\ holder'[b] = Nobody /\ \A a \in Buf \ {b} : holder'[a] = holder[a]
      /\ pc'[h] = "release"
      /\ \A g \in Hand \ {h} :
            \/ pc'[g] = pc[g] /\ ~(cur[g] = b /\ pc[g] = "lock_asleep")
            \/ pc[g] = "lock_asleep" /\ pc'[g] = "lock"
  BY <1>4, <1>5
<1>7. TypeOK'
  <2>1. pc' \in [Hand -> Labels]
    BY <1>4, <1>5 DEF Labels
  <2> QED BY <1>1, <1>4, <1>5, <2>1 DEF BufInv, TypeOK, ideVars
<1>8. Listed' /\ Unique' /\ Coherent'
  BY <1>1 DEF BufInv, Listed, Unique, Coherent, ideVars
<1>9. Refs'
  <2>1. \A a \in Buf : Users(a)' = Users(a)
    BY <1>1 DEF Users
  <2> QED BY <1>1, <1>6, <2>1 DEF BufInv, Refs
<1>10. \A g \in Hand : pc'[g] \in Working => g # h /\ pc[g] = pc'[g]
  BY <1>6 DEF Working, Disk
<1>11. Owners'
  <2>1. ASSUME NEW g \in Hand, pc'[g] \in Working PROVE holder'[cur'[g]] = g
    <3>1. g # h /\ pc[g] \in Working
      BY <1>10, <2>1
    <3>2. cur[g] \in Buf /\ cur[g] # b /\ holder[cur[g]] = g
      BY <1>3, <3>1, AtWork
    <3> QED BY <1>1, <1>6, <3>2
  <2>2. ASSUME NEW a \in Buf, holder'[a] # Nobody
        PROVE  cur'[holder'[a]] = a /\ pc'[holder'[a]] \in Working
    <3>1. a # b /\ holder'[a] = holder[a]
      BY <1>6, <2>2
    <3>2. holder[a] \in Hand /\ cur[holder[a]] = a /\ pc[holder[a]] \in Working
      BY <1>5, <2>2, <3>1 DEF BufInv, Owners
    <3>3. holder[a] # h
      BY <1>2, <3>1, <3>2
    <3> QED BY <1>1, <1>6, <3>1, <3>2, <3>3 DEF Working, Disk
  <2> QED BY <2>1, <2>2 DEF Owners
<1>12. Queued'
  <2>1. \A i \in 1..Len(queue) : queue[i] \in Buf \ {b}
    BY <1>3, <1>5
  <2>2. \A g \in Hand : pc[g] \in {"io", "io_asleep"} \/ pc'[g] \in {"io", "io_asleep"} =>
            pc'[g] = pc[g]
    BY <1>1, <1>6
  <2> QED BY <1>1, <1>6, <2>1, <2>2, QueuedFrame DEF BufInv, ideVars
<1>13. Asked'
  <2>1. \A g \in Hand : pc'[g] \in {"hold", "rw"} => pc'[g] = pc[g]
    BY <1>6
  <2> QED BY <1>1, <2>1 DEF BufInv, Asked, ideVars
<1>14. FewParked'
  <2>1. \A g \in Hand : pc[g] \in Disk => pc'[g] = pc[g]
    BY <1>1, <1>6 DEF Disk
  <2>2. Parked' \subseteq Parked
    BY <1>1, <2>1 DEF Parked
  <2> QED BY <2>2, FewerParked DEF BufInv
<1>15. ASSUME NEW g \in Hand, pc'[g] = "lock_asleep" PROVE holder'[cur'[g]] # Nobody
  <2>1. pc[g] = "lock_asleep" /\ cur[g] # b
    BY <1>6, <1>15
  <2>2. cur[g] \in Buf /\ holder[cur[g]] # Nobody
    BY <2>1 DEF BufInv, Refs
  <2> QED BY <1>1, <1>6, <2>1, <2>2
<1> QED
  BY <1>7, <1>8, <1>9, <1>11, <1>12, <1>13, <1>14, <1>15 DEF BufInv

(***************************************************************************)
(* Writes by the holder.                                                   *)
(***************************************************************************)

(* Common to bwrite() and log_write(): the buffer becomes dirty.            *)
LEMMA InvModify ==
    ASSUME BufInv, NEW h \in Hand, pc[h] = "hold", Modify(cur[h]),
           pc' \in [Hand -> Labels], pc'[h] \in {"hold", "rw"},
           \A g \in Hand \ {h} : pc'[g] = pc[g],
           FewParked',
           UNCHANGED <<blockno, valid, refcnt, holder, lru, ideVars, cur>>
    PROVE  BufInv'
<1>1. pc[h] \in Working
  BY DEF Working
<1>2. PICK b \in Buf : b = cur[h]
  BY <1>1, AtWork
<1>3. /\ holder[b] = h /\ blockno[b] \in Block /\ valid[b]
      /\ \A i \in 1..Len(queue) : queue[i] # b
  BY <1>1, <1>2, AtWork DEF BufInv, Asked
<1>4. PICK v \in Value : /\ data' = [data EXCEPT ![b] = v]
                         /\ dirty' = [dirty EXCEPT ![b] = TRUE]
                         /\ stale' = [stale EXCEPT ![b] = FALSE]
  BY <1>2 DEF Modify
<1>5. /\ data \in [Buf -> Value] /\ dirty \in [Buf -> BOOLEAN] /\ stale \in [Buf -> BOOLEAN]
      /\ queue \in Seq(Buf) /\ holder \in [Buf -> Hand \cup {Nobody}]
  BY DEF BufInv, TypeOK
<1>6. \A a \in Buf \ {b} : data'[a] = data[a]
  BY <1>4, <1>5
<1>7. /\ dirty'[b] /\ \A a \in Buf \ {b} : dirty'[a] = dirty[a]
      /\ ~stale'[b] /\ \A a \in Buf \ {b} : stale'[a] = stale[a]
  BY <1>4, <1>5, Zenon
<1>8. TypeOK'
  <2>1. data' \in [Buf -> Value]
    BY <1>4, <1>5
  <2>2. dirty' \in [Buf -> BOOLEAN] /\ stale' \in [Buf -> BOOLEAN]
    BY <1>4, <1>5
  <2> QED BY <2>1, <2>2 DEF BufInv, TypeOK, ideVars
<1>9. Listed' /\ Unique'
  BY DEF BufInv, Listed, Unique
<1>10. Refs'
  <2>1. \A a \in Buf : Users(a)' = Users(a)
    BY DEF Users
  <2> QED BY <1>1, <2>1 DEF BufInv, Refs, Working, Disk
<1>11. Owners'
  <2>1. \A g \in Hand : pc'[g] \in Working <=> pc[g] \in Working
    BY <1>1 DEF Working, Disk
  <2> QED BY <1>5, <2>1 DEF BufInv, Owners
<1>12. \A g \in Hand : pc[g] \in Working /\ g # h => cur[g] \in Buf \ {b}
  BY <1>1, <1>2, AtWork
<1>13. Queued'
  <2>1. \A g \in Hand : pc[g] \in {"io", "io_asleep"} \/ pc'[g] \in {"io", "io_asleep"} =>
            pc'[g] = pc[g] /\ g # h /\ pc[g] \in Working
    BY DEF Working, Disk
  <2> QED BY <1>7, <1>12, <2>1, QueuedFrame DEF BufInv, ideVars
<1>14. Asked'
  <2>1. ASSUME NEW g \in Hand
        PROVE  /\ pc'[g] = "hold" => valid[cur[g]]
               /\ pc'[g] = "rw" => dirty'[cur[g]] \/ ~valid[cur[g]]
    <3>1. CASE g = h
      BY <1>2, <1>3, <1>7, <3>1
    <3>2. CASE g # h
      <4>1. pc[g] = "rw" => cur[g] \in Buf \ {b}
        BY <1>12, <3>2 DEF Working, Disk
      <4> QED BY <1>7, <3>2, <4>1 DEF BufInv, Asked
    <3> QED BY <3>1, <3>2
  <2>2. \A i \in 1..Len(queue) : dirty'[queue[i]] \/ ~valid[queue[i]]
    <3>1. \A i \in 1..Len(queue) : queue[i] \in Buf \ {b}
      BY <1>3, <1>5
    <3> QED BY <1>7, <3>1 DEF BufInv, Asked
  <2> QED BY <2>1, <2>2 DEF Asked, ideVars
<1>15. Coherent'
  <2> SUFFICES ASSUME NEW a \in Buf
               PROVE  /\ dirty'[a] => valid[a] /\ ~stale'[a] /\ blockno[a] \in Block
                      /\ valid[a] /\ ~dirty'[a] /\ ~stale'[a]
                         => blockno[a] \in Block /\ data'[a] = disk[blockno[a]]
    BY DEF Coherent, ideVars
  <2>1. CASE a = b
    BY <1>3, <1>7, <2>1
  <2>2. CASE a # b
    BY <1>6, <1>7, <2>2 DEF BufInv, Coherent
  <2> QED BY <2>1, <2>2
<1>16. \A g \in Hand : pc'[g] = "lock_asleep" => holder'[cur'[g]] # Nobody
  BY DEF BufInv
<1> QED
  BY <1>8, <1>9, <1>10, <1>11, <1>13, <1>14, <1>15, <1>16 DEF BufInv

LEMMA InvBwrite == ASSUME BufInv, NEW h \in Hand, Bwrite(h) PROVE BufInv'
<1>1. /\ pc[h] = "hold" /\ pc[h] \in Working /\ Modify(cur[h]) /\ pc' = [pc EXCEPT ![h] = "rw"]
      /\ UNCHANGED <<blockno, valid, refcnt, holder, lru, ideVars, cur>>
  BY DEF Bwrite, Goto, Working
<1>2. /\ pc' \in [Hand -> Labels] /\ pc'[h] = "rw"
      /\ \A g \in Hand \ {h} : pc'[g] = pc[g]
  BY <1>1 DEF BufInv, TypeOK, Labels
<1>3. FewParked'
  <2>1. dirty \in [Buf -> BOOLEAN] /\ dirty' = [dirty EXCEPT ![cur[h]] = TRUE]
    BY <1>1 DEF Modify, BufInv, TypeOK
  <2>2. \A a \in Buf : a # cur[h] => dirty'[a] = dirty[a]
    BY <2>1, Zenon
  <2>3. Parked' \subseteq Parked
    <3> SUFFICES ASSUME NEW a \in Parked' PROVE a \in Parked
      OBVIOUS
    <3>1. a \in Buf /\ dirty'[a] /\ a # cur[h]
      BY <1>1, <1>2 DEF Parked, Disk
    <3>2. \A g \in Hand : cur[g] = a => pc[g] \notin Disk
      BY <1>1, <1>2, <3>1 DEF Parked
    <3> QED BY <2>2, <3>1, <3>2 DEF Parked
  <2> QED BY <2>3, FewerParked DEF BufInv
<1> QED
  BY <1>1, <1>2, <1>3, InvModify

LEMMA InvLogWrite == ASSUME BufInv, NEW h \in Hand, LogWrite(h) PROVE BufInv'
<1> DEFINE others == {b \in Buf : dirty[b] /\ b # cur[h]}
<1>1. /\ pc[h] = "hold" /\ Modify(cur[h]) /\ Cardinality(others) < MaxDirty /\ pc' = pc
      /\ UNCHANGED <<blockno, valid, refcnt, holder, lru, ideVars, cur>>
  BY DEF LogWrite
<1>2. pc' \in [Hand -> Labels] /\ cur[h] \in Buf
  BY <1>1 DEF BufInv, TypeOK, Refs
<1>3. FewParked'
  <2>1. dirty \in [Buf -> BOOLEAN] /\ dirty' = [dirty EXCEPT ![cur[h]] = TRUE]
    BY <1>1 DEF Modify, BufInv, TypeOK
  <2>2. \A a \in Buf : a # cur[h] => dirty'[a] = dirty[a]
    BY <2>1, Zenon
  <2>3. Parked' \in SUBSET (others \cup {cur[h]}) /\ Parked' \in SUBSET Buf
    BY <2>2 DEF Parked
  <2>4. others \in SUBSET Buf
    OBVIOUS
  <2>5. IsFiniteSet(others) /\ Cardinality(others) \in Nat
    BY <2>4, FiniteBuffers
  <2>6. /\ IsFiniteSet(others \cup {cur[h]})
        /\ Cardinality(others \cup {cur[h]}) <= Cardinality(others) + 1
        /\ Cardinality(others \cup {cur[h]}) \in Nat
    <3> HIDE DEF others
    <3>1. /\ IsFiniteSet(others \cup {cur[h]})
          /\ Cardinality(others \cup {cur[h]}) = IF cur[h] \in others THEN Cardinality(others)
                                                 ELSE Cardinality(others) + 1
      BY <2>5, FS_AddElement
    <3> QED BY <2>5, <3>1
  <2>7. Cardinality(Parked') <= Cardinality(others \cup {cur[h]}) /\ Cardinality(Parked') \in Nat
    <3> HIDE DEF others
    <3> QED BY <2>3, <2>6, FS_Subset, FiniteBuffers
  <2>8. Cardinality(Parked') <= MaxDirty
    <3> HIDE DEF others
    <3> QED BY <1>1, <2>5, <2>6, <2>7, BufAssumption
  <2> QED BY <2>8 DEF FewParked
<1> QED
  BY <1>1, <1>2, <1>3, InvModify

(***************************************************************************)
(* brelse()                                                                *)
(***************************************************************************)

(* Moving a buffer to the front keeps the list a list of all buffers.       *)
LEMMA StillListed ==
    ASSUME TypeOK, Listed, NEW b \in Buf
    PROVE  /\ MovedToFront(b) \in Seq(Buf) /\ Len(MovedToFront(b)) = NBUF
           /\ \A a \in Buf : \E i \in 1..NBUF : MovedToFront(b)[i] = a
<1> DEFINE n == CHOOSE i \in DOMAIN lru : lru[i] = b
           rest == RemoveAt(lru, n)
<1>1. lru \in Seq(Buf) /\ Len(lru) = NBUF /\ DOMAIN lru = 1..NBUF /\ NBUF \in Nat /\ NBUF >= 1
  BY BufFacts DEF TypeOK
<1>2. n \in 1..NBUF /\ lru[n] = b
  BY <1>1 DEF Listed
<1> HIDE DEF n
<1>3. /\ SubSeq(lru, 1, n - 1) \in Seq(Buf) /\ Len(SubSeq(lru, 1, n - 1)) = n - 1
      /\ \A i \in 1..n - 1 : SubSeq(lru, 1, n - 1)[i] = lru[i]
  BY <1>1, <1>2
<1>4. /\ SubSeq(lru, n + 1, NBUF) \in Seq(Buf) /\ Len(SubSeq(lru, n + 1, NBUF)) = NBUF - n
      /\ \A i \in 1..NBUF - n : SubSeq(lru, n + 1, NBUF)[i] = lru[i + n]
  BY <1>1, <1>2
<1>5. /\ rest \in Seq(Buf) /\ Len(rest) = NBUF - 1
      /\ \A i \in 1..n - 1 : rest[i] = lru[i]
      /\ \A i \in n..NBUF - 1 : rest[i] = lru[i + 1]
  <2> DEFINE s == SubSeq(lru, 1, n - 1)
             t == SubSeq(lru, n + 1, NBUF)
  <2>1. rest = s \o t
    BY <1>1 DEF RemoveAt
  <2>2. /\ s \in Seq(Buf) /\ Len(s) = n - 1 /\ \A i \in 1..n - 1 : s[i] = lru[i]
        /\ t \in Seq(Buf) /\ Len(t) = NBUF - n /\ \A i \in 1..NBUF - n : t[i] = lru[i + n]
    BY <1>3, <1>4
  <2> HIDE DEF s, t, rest
  <2>3. rest \in Seq(Buf) /\ Len(rest) = NBUF - 1
    BY <1>1, <1>2, <2>1, <2>2
  <2>4. \A i \in 1..n - 1 : rest[i] = lru[i]
    BY <1>1, <1>2, <2>1, <2>2
  <2>5. ASSUME NEW i \in n..NBUF - 1 PROVE rest[i] = lru[i + 1]
    <3>1. i - (n - 1) \in 1..NBUF - n /\ i \in 1..(Len(s) + Len(t)) /\ ~(i <= Len(s))
      BY <1>1, <1>2, <2>2
    <3>2. rest[i] = t[i - (n - 1)]
      BY <2>1, <2>2, <3>1
    <3>3. (i - (n - 1)) + n = i + 1
      BY <1>1, <1>2
    <3> QED BY <2>2, <3>1, <3>2, <3>3
  <2> QED BY <2>3, <2>4, <2>5
<1>6. MovedToFront(b) = <<b>> \o rest
  BY DEF MovedToFront, n
<1> HIDE DEF rest
<1> DEFINE m == <<b>> \o rest
<1>7. m \in Seq(Buf) /\ Len(m) = NBUF /\ m[1] = b /\ \A i \in 2..NBUF : m[i] = rest[i - 1]
  <2>1. <<b>> \in Seq(Buf) /\ Len(<<b>>) = 1 /\ <<b>>[1] = b
    OBVIOUS
  <2> QED BY <1>1, <1>5, <2>1
<1> HIDE DEF m
<1>8. ASSUME NEW a \in Buf PROVE \E i \in 1..NBUF : m[i] = a
  <2>1. PICK j \in 1..NBUF : lru[j] = a
    BY DEF Listed
  <2>2. CASE j = n
    BY <1>1, <1>2, <1>7, <2>1, <2>2
  <2>3. CASE j < n
    <3>1. j \in 1..n - 1 /\ j + 1 \in 2..NBUF /\ (j + 1) - 1 = j
      BY <1>1, <1>2, <2>1, <2>3
    <3>2. m[j + 1] = a
      BY <1>5, <1>7, <2>1, <3>1
    <3> QED BY <1>1, <3>1, <3>2
  <2>4. CASE j > n
    <3>1. j - 1 \in n..NBUF - 1 /\ j \in 2..NBUF /\ (j - 1) + 1 = j
      BY <1>1, <1>2, <2>1, <2>4
    <3>2. m[j] = a
      BY <1>5, <1>7, <2>1, <3>1
    <3> QED BY <1>1, <3>1, <3>2
  <2> QED BY <1>2, <2>1, <2>2, <2>3, <2>4
<1> QED
  BY <1>6, <1>7, <1>8 DEF m

LEMMA InvBrelse == ASSUME BufInv, NEW h \in Hand, Brelse(h) PROVE BufInv'
<1>1. /\ pc[h] = "release" /\ cur' = [cur EXCEPT ![h] = None]
      /\ pc' = [pc EXCEPT ![h] = "idle"]
      /\ UNCHANGED <<blockno, valid, dirty, holder, data, stale, ideVars>>
  BY DEF Brelse, Goto
<1>2. PICK b \in Buf : b = cur[h]
  BY <1>1 DEF BufInv, Refs
<1>3. /\ refcnt' = [refcnt EXCEPT ![b] = @ - 1]
      /\ lru' = MovedToFront(b) \/ lru' = lru
  BY <1>2 DEF Brelse, RefDropped
<1>4. /\ TypeOK /\ pc \in [Hand -> Labels] /\ cur \in [Hand -> Buf \cup {None}]
      /\ refcnt \in [Buf -> Nat] /\ holder \in [Buf -> Hand \cup {Nobody}]
  BY DEF BufInv, TypeOK
<1>5. /\ pc'[h] = "idle" /\ \A g \in Hand \ {h} : pc'[g] = pc[g]
      /\ cur'[h] = None /\ \A g \in Hand \ {h} : cur'[g] = cur[g]
      /\ refcnt'[b] = refcnt[b] - 1 /\ \A a \in Buf \ {b} : refcnt'[a] = refcnt[a]
  BY <1>1, <1>2, <1>3, <1>4
<1>6. lru' \in Seq(Buf) /\ Len(lru') = NBUF /\ Listed'
  <2>1. CASE lru' = lru
    BY <2>1 DEF BufInv, TypeOK, Listed
  <2>2. CASE lru' = MovedToFront(b)
    <3>1. /\ lru' \in Seq(Buf) /\ Len(lru') = NBUF
          /\ \A a \in Buf : \E i \in 1..NBUF : lru'[i] = a
      BY <1>4, <2>2, StillListed DEF BufInv
    <3> QED BY <3>1 DEF Listed
  <2> QED BY <1>3, <2>1, <2>2
<1>7. \A a \in Buf : refcnt'[a] = Cardinality(Users(a)')
  <2>1. /\ Cardinality(Users(b)') = Cardinality(Users(b)) - 1
        /\ \A a \in Buf \ {b} : Users(a)' = Users(a)
    BY <1>1, <1>2, <1>4, UserRemoved
  <2> QED BY <1>5, <2>1 DEF BufInv, Refs
<1>8. TypeOK'
  <2>1. refcnt'[b] \in Nat
    <3>1. Users(b)' \in SUBSET Hand
      BY DEF Users
    <3> QED BY <1>7, <3>1, FiniteUsers
  <2>2. refcnt' \in [Buf -> Nat]
    BY <1>3, <1>4, <1>5, <2>1
  <2>3. cur' \in [Hand -> Buf \cup {None}] /\ pc' \in [Hand -> Labels]
    BY <1>1, <1>4 DEF Labels
  <2> QED BY <1>1, <1>6, <2>2, <2>3 DEF BufInv, TypeOK, ideVars
<1>9. Unique' /\ Coherent'
  BY <1>1 DEF BufInv, Unique, Coherent, ideVars
<1>10. Refs'
  BY <1>1, <1>5, <1>7 DEF BufInv, Refs
<1>11. Owners'
  BY <1>1, <1>4, <1>5 DEF BufInv, Owners, Working, Disk
<1>12. Queued'
  BY <1>1, <1>4, <1>5, QueuedFrame DEF BufInv, ideVars
<1>13. Asked'
  BY <1>1, <1>5 DEF BufInv, Asked, ideVars
<1>14. FewParked'
  <2>1. Parked' \subseteq Parked
    BY <1>1, <1>5 DEF Parked, Disk
  <2> QED BY <2>1, FewerParked DEF BufInv
<1>15. \A g \in Hand : pc'[g] = "lock_asleep" => holder'[cur'[g]] # Nobody
  BY <1>1, <1>5 DEF BufInv
<1> QED
  BY <1>6, <1>8, <1>9, <1>10, <1>11, <1>12, <1>13, <1>14, <1>15 DEF BufInv

(***************************************************************************)
(* iderw() and ideintr().                                                  *)
(***************************************************************************)
LEMMA InvIderw == ASSUME BufInv, NEW h \in Hand, Iderw(h) PROVE BufInv'
<1>1. /\ pc[h] = "rw" /\ pc[h] \in Working
      /\ pc' = [pc EXCEPT ![h] = "io"]
      /\ UNCHANGED <<bufVars, lru, disk, cur>>
  BY DEF Iderw, Goto, Working, Disk
<1>2. PICK b \in Buf : b = cur[h]
  BY <1>1, AtWork
<1>3. /\ holder[b] = h /\ h # Nobody /\ \A i \in 1..Len(queue) : queue[i] # b
      /\ dirty[b] \/ ~valid[b]
  BY <1>1, <1>2, AtWork DEF BufInv, Asked
<1>4. /\ queue' = Append(queue, b)
      /\ started' = IF queue = <<>> THEN b ELSE started
  BY <1>2 DEF Iderw
<1>5. /\ pc \in [Hand -> Labels] /\ queue \in Seq(Buf) /\ Len(queue) \in Nat
      /\ holder \in [Buf -> Hand \cup {Nobody}]
  BY DEF BufInv, TypeOK
<1>6. pc'[h] = "io" /\ \A g \in Hand \ {h} : pc'[g] = pc[g]
  BY <1>1, <1>5
<1>7. /\ queue' \in Seq(Buf) /\ Len(queue') = Len(queue) + 1 /\ queue'[Len(queue) + 1] = b
      /\ \A i \in 1..Len(queue) : queue'[i] = queue[i]
      /\ \A i \in 1..Len(queue') : i = Len(queue) + 1 \/ i \in 1..Len(queue)
  BY <1>4, <1>5
<1>8. TypeOK'
  <2>1. started' \in Buf \cup {None}
    BY <1>4 DEF BufInv, TypeOK
  <2>2. pc' \in [Hand -> Labels]
    BY <1>1, <1>5 DEF Labels
  <2> QED BY <1>1, <1>7, <2>1, <2>2 DEF BufInv, TypeOK, bufVars
<1>9. Listed' /\ Unique' /\ Coherent'
  BY <1>1 DEF BufInv, Listed, Unique, Coherent, bufVars
<1>10. Refs'
  <2>1. \A a \in Buf : Users(a)' = Users(a)
    BY <1>1 DEF Users
  <2> QED BY <1>1, <1>6, <2>1 DEF BufInv, Refs, bufVars
<1>11. Owners'
  <2>1. \A g \in Hand : pc'[g] \in Working <=> pc[g] \in Working
    BY <1>1, <1>6 DEF Working, Disk
  <2> QED BY <1>1, <1>5, <2>1 DEF BufInv, Owners, bufVars
<1>12. Queued'
  <2>1. \A i, j \in 1..Len(queue') : queue'[i] = queue'[j] => i = j
    BY <1>3, <1>7 DEF BufInv, Queued
  <2>2. ASSUME NEW i \in 1..Len(queue')
        PROVE  holder[queue'[i]] # Nobody /\ pc'[holder[queue'[i]]] \in {"io", "io_asleep"}
    <3>1. CASE i = Len(queue) + 1
      BY <1>3, <1>6, <1>7, <3>1
    <3>2. CASE i \in 1..Len(queue)
      <4>1. /\ queue'[i] = queue[i] /\ queue[i] \in Buf /\ holder[queue[i]] # Nobody
            /\ pc[holder[queue[i]]] \in {"io", "io_asleep"}
        BY <1>5, <1>7, <3>2 DEF BufInv, Queued
      <4> QED BY <1>5, <1>6, <4>1
    <3> QED BY <1>7, <3>1, <3>2
  <2>3. ASSUME NEW g \in Hand, pc'[g] \in {"io", "io_asleep"}
        PROVE  \/ \E i \in 1..Len(queue') : queue'[i] = cur[g]
               \/ pc'[g] = "io" /\ valid[cur[g]] /\ ~dirty[cur[g]]
    <3>1. CASE g = h
      <4>1. Len(queue) + 1 \in 1..Len(queue')
        BY <1>5, <1>7
      <4> QED BY <1>2, <1>7, <3>1, <4>1
    <3>2. CASE g # h /\ \E i \in 1..Len(queue) : queue[i] = cur[g]
      <4>1. 1..Len(queue) \subseteq 1..Len(queue')
        BY <1>5, <1>7
      <4> QED BY <1>7, <3>2, <4>1
    <3>3. CASE g # h /\ ~\E i \in 1..Len(queue) : queue[i] = cur[g]
      BY <1>6, <2>3, <3>3 DEF BufInv, Queued
    <3> QED BY <3>1, <3>2, <3>3
  <2>4. started' = NextStarted(queue')
    <3>1. CASE queue = <<>>
      BY <1>4, <3>1 DEF NextStarted
    <3>2. CASE queue # <<>>
      <4>1. 1 \in 1..Len(queue) /\ Head(queue) = queue[1] /\ Head(queue') = queue'[1] /\ queue' # <<>>
        BY <1>5, <1>7, <3>2
      <4> QED BY <1>4, <1>7, <3>2, <4>1 DEF BufInv, Queued, NextStarted
    <3> QED BY <3>1, <3>2
  <2> QED BY <1>1, <2>1, <2>2, <2>3, <2>4 DEF Queued, bufVars
<1>13. Asked'
  <2>1. \A g \in Hand : pc'[g] \in {"hold", "rw"} => pc'[g] = pc[g]
    BY <1>6
  <2>2. \A i \in 1..Len(queue') : dirty[queue'[i]] \/ ~valid[queue'[i]]
    BY <1>3, <1>7 DEF BufInv, Asked
  <2> QED BY <1>1, <2>1, <2>2 DEF BufInv, Asked, bufVars
<1>14. FewParked'
  <2>1. \A g \in Hand : pc[g] \in Disk => pc'[g] \in Disk
    BY <1>6 DEF Disk
  <2>2. Parked' \subseteq Parked
    BY <1>1, <2>1 DEF Parked, bufVars
  <2> QED BY <2>2, FewerParked DEF BufInv
<1>15. \A g \in Hand : pc'[g] = "lock_asleep" => holder'[cur'[g]] # Nobody
  BY <1>1, <1>6 DEF BufInv, bufVars
<1> QED
  BY <1>8, <1>9, <1>10, <1>11, <1>12, <1>13, <1>14, <1>15 DEF BufInv

LEMMA InvIderwLoop == ASSUME BufInv, NEW h \in Hand, IderwLoop(h) PROVE BufInv'
<1>1. /\ pc[h] = "io" /\ pc[h] \in Working
      /\ UNCHANGED <<bufVars, lru, ideVars, cur>>
  BY DEF IderwLoop, Working, Disk
<1>2. PICK b \in Buf : b = cur[h]
  BY <1>1, AtWork
<1>3. PICK l \in {"hold", "io_asleep"} :
        /\ pc' = [pc EXCEPT ![h] = l]
        /\ l = "hold" => valid[b] /\ ~dirty[b]
        /\ l = "io_asleep" => ~(valid[b] /\ ~dirty[b])
  BY <1>2 DEF IderwLoop, Goto
<1>4. /\ pc \in [Hand -> Labels] /\ queue \in Seq(Buf)
      /\ holder \in [Buf -> Hand \cup {Nobody}]
  BY DEF BufInv, TypeOK
<1>5. pc'[h] = l /\ \A g \in Hand \ {h} : pc'[g] = pc[g]
  BY <1>3, <1>4
<1>6. TypeOK'
  <2>1. pc' \in [Hand -> Labels]
    BY <1>3, <1>4 DEF Labels
  <2> QED BY <1>1, <2>1 DEF BufInv, TypeOK, bufVars, ideVars
<1>7. Listed' /\ Unique' /\ Coherent'
  BY <1>1 DEF BufInv, Listed, Unique, Coherent, bufVars, ideVars
<1>8. Refs'
  <2>1. \A a \in Buf : Users(a)' = Users(a)
    BY <1>1 DEF Users
  <2> QED BY <1>1, <1>5, <2>1 DEF BufInv, Refs, bufVars
<1>9. Owners'
  <2>1. \A g \in Hand : pc'[g] \in Working <=> pc[g] \in Working
    BY <1>1, <1>5 DEF Working, Disk
  <2> QED BY <1>1, <1>4, <2>1 DEF BufInv, Owners, bufVars
<1>10. Queued'
  <2>1. ASSUME NEW i \in 1..Len(queue)
        PROVE  holder[queue[i]] # Nobody /\ pc'[holder[queue[i]]] \in {"io", "io_asleep"}
    <3>1. /\ queue[i] \in Buf /\ holder[queue[i]] # Nobody
          /\ pc[holder[queue[i]]] \in {"io", "io_asleep"}
      BY <1>4 DEF BufInv, Queued
    <3>2. CASE holder[queue[i]] = h
      <4>1. queue[i] = b
        BY <1>2, <3>1, <3>2 DEF BufInv, Owners
      <4>2. dirty[b] \/ ~valid[b]
        BY <4>1 DEF BufInv, Asked
      <4> QED BY <1>3, <1>5, <3>1, <3>2, <4>2
    <3>3. CASE holder[queue[i]] # h
      BY <1>4, <1>5, <3>1, <3>3
    <3> QED BY <3>2, <3>3
  <2>2. ASSUME NEW g \in Hand, pc'[g] \in {"io", "io_asleep"}
        PROVE  \/ \E i \in 1..Len(queue) : queue[i] = cur[g]
               \/ pc'[g] = "io" /\ valid[cur[g]] /\ ~dirty[cur[g]]
    <3>1. CASE g = h
      <4>1. l = "io_asleep"
        BY <1>3, <1>5, <2>2, <3>1
      <4> QED BY <1>1, <1>2, <1>3, <3>1, <4>1 DEF BufInv, Queued
    <3>2. CASE g # h
      BY <1>5, <2>2, <3>2 DEF BufInv, Queued
    <3> QED BY <3>1, <3>2
  <2> QED BY <1>1, <2>1, <2>2 DEF BufInv, Queued, NextStarted, bufVars, ideVars
<1>11. Asked'
  <2>1. \A g \in Hand : pc'[g] \in {"hold", "rw"} => g = h \/ pc'[g] = pc[g]
    BY <1>5
  <2> QED BY <1>1, <1>2, <1>3, <1>5, <2>1 DEF BufInv, Asked, bufVars, ideVars
<1>12. FewParked'
  <2>1. Parked' \subseteq Parked
    <3> SUFFICES ASSUME NEW a \in Parked' PROVE a \in Parked
      OBVIOUS
    <3>1. a \in Buf /\ dirty[a] /\ \A g \in Hand : cur[g] = a => pc'[g] \notin Disk
      BY <1>1 DEF Parked, bufVars
    <3>2. cur[h] # a
      BY <1>2, <1>3, <1>5, <3>1 DEF Disk
    <3> QED BY <1>5, <3>1, <3>2 DEF Parked
  <2> QED BY <2>1, FewerParked DEF BufInv
<1>13. \A g \in Hand : pc'[g] = "lock_asleep" => holder'[cur'[g]] # Nobody
  BY <1>1, <1>5 DEF BufInv, bufVars
<1> QED
  BY <1>6, <1>7, <1>8, <1>9, <1>10, <1>11, <1>12, <1>13 DEF BufInv

(* The end of a transfer, whatever became of the data.                      *)
LEMMA InvFinish ==
    ASSUME BufInv, started # None, Finish(Head(queue)), Coherent',
           data' \in [Buf -> Value], stale' \in [Buf -> BOOLEAN], disk' \in [Block -> Value]
    PROVE  BufInv'
<1>1. /\ queue \in Seq(Buf) /\ Len(queue) \in Nat /\ queue # <<>>
      /\ pc \in [Hand -> Labels] /\ holder \in [Buf -> Hand \cup {Nobody}]
      /\ valid \in [Buf -> BOOLEAN] /\ dirty \in [Buf -> BOOLEAN]
  BY DEF BufInv, TypeOK, Queued, NextStarted
<1>2. PICK b \in Buf : b = Head(queue) /\ b = queue[1]
  BY <1>1
<1>3. /\ valid' = [valid EXCEPT ![b] = TRUE]
      /\ dirty' = [dirty EXCEPT ![b] = FALSE]
      /\ queue' = Tail(queue)
      /\ started' = NextStarted(queue')
      /\ pc' = [g \in Hand |-> IF cur[g] = b /\ pc[g] = "io_asleep" THEN "io" ELSE pc[g]]
      /\ UNCHANGED <<blockno, refcnt, holder, lru, cur>>
  BY <1>2, BufAssumption DEF Finish, GotoWake
<1>4. /\ valid'[b] /\ \A a \in Buf \ {b} : valid'[a] = valid[a]
      /\ ~dirty'[b] /\ \A a \in Buf \ {b} : dirty'[a] = dirty[a]
  BY <1>1, <1>3, Zenon
<1>5. \A g \in Hand :
        \/ pc'[g] = pc[g] /\ ~(cur[g] = b /\ pc[g] = "io_asleep")
        \/ pc[g] = "io_asleep" /\ pc'[g] = "io" /\ cur[g] = b
  BY <1>1, <1>3
<1>6. /\ queue' \in Seq(Buf) /\ Len(queue') = Len(queue) - 1 /\ 1 \in 1..Len(queue)
      /\ \A i \in 1..Len(queue') : queue'[i] = queue[i + 1] /\ i + 1 \in 1..Len(queue) /\ i + 1 # 1
      /\ \A i \in 1..Len(queue) : i = 1 \/ (i - 1 \in 1..Len(queue') /\ queue'[i - 1] = queue[i])
  BY <1>1, <1>3
<1>7. \A i \in 1..Len(queue') : queue'[i] \in Buf \ {b}
  BY <1>2, <1>6 DEF BufInv, Queued
<1>8. /\ holder[b] \in Hand /\ pc[holder[b]] \in {"io", "io_asleep"} /\ cur[holder[b]] = b
      /\ \A g \in Hand : pc[g] \in Working /\ cur[g] = b => g = holder[b]
  BY <1>1, <1>2, <1>6 DEF BufInv, Queued, Owners
<1>9. TypeOK'
  <2>1. started' \in Buf \cup {None}
    BY <1>3, <1>6 DEF NextStarted
  <2>2. pc' \in [Hand -> Labels]
    BY <1>1, <1>3 DEF Labels
  <2>3. valid' \in [Buf -> BOOLEAN] /\ dirty' \in [Buf -> BOOLEAN]
    BY <1>1, <1>3
  <2> QED BY <1>3, <1>6, <2>1, <2>2, <2>3 DEF BufInv, TypeOK
<1>10. Listed' /\ Unique'
  BY <1>3 DEF BufInv, Listed, Unique
<1>11. Refs'
  <2>1. \A a \in Buf : Users(a)' = Users(a)
    BY <1>3 DEF Users
  <2> QED BY <1>3, <1>5, <2>1 DEF BufInv, Refs
<1>12. Owners'
  <2>1. \A g \in Hand : pc'[g] \in Working <=> pc[g] \in Working
    BY <1>5 DEF Working, Disk
  <2> QED BY <1>1, <1>3, <2>1 DEF BufInv, Owners
<1>13. Queued'
  <2>1. ASSUME NEW i \in 1..Len(queue'), NEW j \in 1..Len(queue'), queue'[i] = queue'[j]
        PROVE  i = j
    <3>1. i + 1 = j + 1
      BY <1>6, <2>1 DEF BufInv, Queued
    <3> QED BY <1>6, <3>1
  <2>2. ASSUME NEW i \in 1..Len(queue')
        PROVE  holder[queue'[i]] # Nobody /\ pc'[holder[queue'[i]]] \in {"io", "io_asleep"}
    <3>1. holder[queue'[i]] # Nobody /\ pc[holder[queue'[i]]] \in {"io", "io_asleep"}
      BY <1>6 DEF BufInv, Queued
    <3>2. holder[queue'[i]] \in Hand
      BY <1>1, <1>7, <3>1
    <3> QED BY <1>5, <3>1, <3>2
  <2>3. ASSUME NEW g \in Hand, pc'[g] \in {"io", "io_asleep"}
        PROVE  \/ \E i \in 1..Len(queue') : queue'[i] = cur[g]
               \/ pc'[g] = "io" /\ valid'[cur[g]] /\ ~dirty'[cur[g]]
    <3>1. pc[g] \in {"io", "io_asleep"}
      BY <1>5, <2>3
    <3>2. CASE cur[g] = b
      BY <1>4, <1>5, <2>3, <3>2
    <3>3. CASE cur[g] # b
      <4>1. pc'[g] = pc[g] /\ cur[g] \in Buf
        BY <1>5, <3>1, <3>3 DEF BufInv, Refs
      <4>2. CASE \E i \in 1..Len(queue) : queue[i] = cur[g]
        BY <1>2, <1>6, <3>3, <4>2
      <4>3. CASE pc[g] = "io" /\ valid[cur[g]] /\ ~dirty[cur[g]]
        BY <1>4, <3>3, <4>1, <4>3
      <4> QED BY <3>1, <4>2, <4>3 DEF BufInv, Queued
    <3> QED BY <3>2, <3>3
  <2> QED BY <1>3, <2>1, <2>2, <2>3 DEF Queued
<1>14. Asked'
  <2>1. ASSUME NEW g \in Hand
        PROVE  /\ pc'[g] = "hold" => valid'[cur[g]]
               /\ pc'[g] = "rw" => dirty'[cur[g]] \/ ~valid'[cur[g]]
    <3>1. CASE pc'[g] \notin {"hold", "rw"}
      BY <3>1
    <3>2. CASE pc'[g] \in {"hold", "rw"}
      <4>1. pc'[g] = pc[g] /\ pc[g] \in Working
        BY <1>5, <3>2 DEF Working, Disk
      <4>2. cur[g] \in Buf \ {b}
        BY <1>8, <3>2, <4>1, AtWork
      <4> QED BY <1>4, <4>1, <4>2 DEF BufInv, Asked
    <3> QED BY <3>1, <3>2
  <2>2. \A i \in 1..Len(queue') : dirty'[queue'[i]] \/ ~valid'[queue'[i]]
    BY <1>4, <1>6, <1>7 DEF BufInv, Asked
  <2> QED BY <1>3, <2>1, <2>2 DEF Asked
<1>15. FewParked'
  <2>1. \A g \in Hand : pc[g] \in Disk => pc'[g] \in Disk
    BY <1>5 DEF Disk
  <2>2. Parked' \subseteq Parked
    BY <1>3, <1>4, <2>1 DEF Parked
  <2> QED BY <2>2, FewerParked DEF BufInv
<1>16. \A g \in Hand : pc'[g] = "lock_asleep" => holder'[cur'[g]] # Nobody
  BY <1>3, <1>5 DEF BufInv
<1> QED
  BY <1>9, <1>10, <1>11, <1>12, <1>13, <1>14, <1>15, <1>16 DEF BufInv

(* The disk works on a buffer that is cached for a block, and either is     *)
(* dirty or has no contents yet.                                            *)
LEMMA InTransfer ==
    ASSUME BufInv, started # None
    PROVE  /\ Head(queue) \in Buf /\ blockno[Head(queue)] \in Block
           /\ dirty[Head(queue)] \/ ~valid[Head(queue)]
<1>1. queue \in Seq(Buf) /\ queue # <<>> /\ 1 \in 1..Len(queue) /\ Head(queue) = queue[1]
  BY DEF BufInv, TypeOK, Queued, NextStarted
<1>2. Head(queue) \in Buf /\ holder[Head(queue)] # Nobody
  BY <1>1 DEF BufInv, Queued
<1>3. holder[Head(queue)] \in Hand /\ cur[holder[Head(queue)]] = Head(queue)
      /\ pc[holder[Head(queue)]] \in {"io", "io_asleep"}
  BY <1>1, <1>2 DEF BufInv, TypeOK, Owners, Queued
<1>4. blockno[Head(queue)] \in Block
  BY <1>3 DEF BufInv, Refs
<1> QED
  BY <1>1, <1>2, <1>4 DEF BufInv, Asked

LEMMA InvIdeIntr == ASSUME BufInv, IdeIntr PROVE BufInv'
<1>1. started # None /\ Finish(Head(queue))
  BY DEF IdeIntr
<1>2. PICK b \in Buf : b = Head(queue) /\ blockno[b] \in Block
  BY <1>1, InTransfer
<1>3. /\ data \in [Buf -> Value] /\ stale \in [Buf -> BOOLEAN] /\ disk \in [Block -> Value]
      /\ valid \in [Buf -> BOOLEAN] /\ dirty \in [Buf -> BOOLEAN]
  BY DEF BufInv, TypeOK
<1>4. valid' = [valid EXCEPT ![b] = TRUE] /\ dirty' = [dirty EXCEPT ![b] = FALSE] /\ blockno' = blockno
  BY <1>1, <1>2 DEF Finish
<1>5. /\ valid'[b] /\ \A a \in Buf \ {b} : valid'[a] = valid[a]
      /\ ~dirty'[b] /\ \A a \in Buf \ {b} : dirty'[a] = dirty[a]
  BY <1>3, <1>4, Zenon
<1>6. CASE dirty[b]
  <2>1. disk' = [disk EXCEPT ![blockno[b]] = data[b]] /\ data' = data /\ stale' = stale
    BY <1>2, <1>6 DEF IdeIntr
  <2>2. disk'[blockno[b]] = data[b] /\ \A k \in Block \ {blockno[b]} : disk'[k] = disk[k]
    BY <1>2, <1>3, <2>1
  <2>3. disk' \in [Block -> Value]
    BY <1>2, <1>3, <2>1
  <2>4. Coherent'
    <3> SUFFICES ASSUME NEW a \in Buf
                 PROVE  /\ dirty'[a] => valid'[a] /\ ~stale[a] /\ blockno[a] \in Block
                        /\ valid'[a] /\ ~dirty'[a] /\ ~stale[a]
                           => blockno[a] \in Block /\ data[a] = disk'[blockno[a]]
      BY <1>4, <2>1 DEF Coherent
    <3>1. CASE a = b
      BY <1>2, <1>5, <2>2, <3>1
    <3>2. CASE a # b
      <4>1. blockno[a] \in Block => blockno[a] # blockno[b]
        BY <3>2, BufAssumption DEF BufInv, Unique
      <4> QED BY <1>5, <2>2, <3>2, <4>1 DEF BufInv, Coherent
    <3> QED BY <3>1, <3>2
  <2> QED BY <1>1, <1>3, <2>1, <2>3, <2>4, InvFinish
<1>7. CASE ~dirty[b]
  <2>1. data' = [data EXCEPT ![b] = disk[blockno[b]]] /\ stale' = [stale EXCEPT ![b] = FALSE] /\ disk' = disk
    BY <1>2, <1>7 DEF IdeIntr
  <2>2. data'[b] = disk[blockno[b]] /\ \A a \in Buf \ {b} : data'[a] = data[a]
    BY <1>3, <2>1
  <2>3. ~stale'[b] /\ \A a \in Buf \ {b} : stale'[a] = stale[a]
    BY <1>3, <2>1, Zenon
  <2>4. data' \in [Buf -> Value]
    BY <1>2, <1>3, <2>1
  <2>5. stale' \in [Buf -> BOOLEAN]
    BY <1>3, <2>1
  <2>6. Coherent'
    <3> SUFFICES ASSUME NEW a \in Buf
                 PROVE  /\ dirty'[a] => valid'[a] /\ ~stale'[a] /\ blockno[a] \in Block
                        /\ valid'[a] /\ ~dirty'[a] /\ ~stale'[a]
                           => blockno[a] \in Block /\ data'[a] = disk[blockno[a]]
      BY <1>4, <2>1 DEF Coherent
    <3>1. CASE a = b
      BY <1>2, <1>5, <2>2, <3>1
    <3>2. CASE a # b
      BY <1>5, <2>2, <2>3, <3>2 DEF BufInv, Coherent
    <3> QED BY <3>1, <3>2
  <2> QED BY <1>1, <1>3, <2>1, <2>4, <2>5, <2>6, InvFinish
<1> QED
  BY <1>6, <1>7

LEMMA InvIdeIntrError == ASSUME BufInv, IdeIntrError PROVE BufInv'
<1>1. started # None /\ Finish(Head(queue)) /\ data' = data /\ disk' = disk
  BY DEF IdeIntrError
<1>2. PICK b \in Buf : b = Head(queue)
  BY <1>1, InTransfer
<1>3. /\ data \in [Buf -> Value] /\ stale \in [Buf -> BOOLEAN] /\ disk \in [Block -> Value]
      /\ valid \in [Buf -> BOOLEAN] /\ dirty \in [Buf -> BOOLEAN]
  BY DEF BufInv, TypeOK
<1>4. /\ valid' = [valid EXCEPT ![b] = TRUE] /\ dirty' = [dirty EXCEPT ![b] = FALSE]
      /\ blockno' = blockno /\ stale' = [stale EXCEPT ![b] = TRUE]
  BY <1>1, <1>2 DEF Finish, IdeIntrError
<1>5. /\ valid'[b] /\ \A a \in Buf \ {b} : valid'[a] = valid[a]
      /\ ~dirty'[b] /\ \A a \in Buf \ {b} : dirty'[a] = dirty[a]
      /\ stale'[b] /\ \A a \in Buf \ {b} : stale'[a] = stale[a]
  BY <1>3, <1>4, Zenon
<1>6. stale' \in [Buf -> BOOLEAN]
  BY <1>3, <1>4
<1>7. Coherent'
  <2> SUFFICES ASSUME NEW a \in Buf
               PROVE  /\ dirty'[a] => valid'[a] /\ ~stale'[a] /\ blockno[a] \in Block
                      /\ valid'[a] /\ ~dirty'[a] /\ ~stale'[a]
                         => blockno[a] \in Block /\ data[a] = disk[blockno[a]]
    BY <1>1, <1>4 DEF Coherent
  <2>1. CASE a = b
    BY <1>5, <2>1
  <2>2. CASE a # b
    BY <1>5, <2>2 DEF BufInv, Coherent
  <2> QED BY <2>1, <2>2
<1> QED
  BY <1>1, <1>3, <1>6, <1>7, InvFinish

LEMMA BufInvStutter == ASSUME BufInv, UNCHANGED vars PROVE BufInv'
<1>1. \A a \in Buf : Users(a)' = Users(a)
  BY DEF Users, vars
<1>2. Refs'
  BY <1>1 DEF BufInv, Refs, vars, bufVars
<1>3. FewParked'
  BY DEF BufInv, FewParked, Parked, vars, bufVars
<1> QED
  BY <1>2, <1>3 DEF BufInv, vars, bufVars, ideVars, TypeOK, Listed, Unique, Owners, Queued,
                    NextStarted, Asked, Coherent

LEMMA BufInvNext == ASSUME BufInv, [Next]_vars PROVE BufInv'
<1>1. ASSUME NEW h \in Hand, NEW k \in Block, Bget(h, k) PROVE BufInv'
  BY <1>1, InvBget
<1>2. ASSUME NEW h \in Hand, Bwrite(h) \/ LogWrite(h) PROVE BufInv'
  BY <1>2, InvBwrite, InvLogWrite
<1>3. ASSUME NEW h \in Hand, Step(h) PROVE BufInv'
  BY <1>3, InvAcquireSleep, InvIderw, InvIderwLoop, InvReleaseSleep, InvBrelse DEF Step
<1> QED
  BY <1>1, <1>2, <1>3, InvIdeIntr, InvIdeIntrError, BufInvStutter DEF Next

(* The reference counts, sleep locks, flags and disk queue of the cache     *)
(* agree in every reachable state.                                          *)
THEOREM BufInvariant == Spec => []BufInv
<1>1. BufInv /\ [Next]_vars => BufInv'
  BY BufInvNext
<1> QED
  BY BufInvInit, <1>1, PTL DEF Spec

(* bget() caches no block in two buffers, gives no buffer to a process that *)
(* another one is using for a different block, and counts its users exactly.*)
THEOREM BuffersAreUnique == Spec => []OneBufferPerBlock
<1>1. BufInv => OneBufferPerBlock
  <2> SUFFICES ASSUME BufInv PROVE OneBufferPerBlock
    OBVIOUS
  <2>1. \A b \in Buf : refcnt[b] = Cardinality({h \in Hand : cur[h] = b})
    BY DEF BufInv, Refs, Users
  <2>2. \A h \in Hand :
            pc[h] \in {"rw", "io", "io_asleep", "hold"} => holder[cur[h]] = h
    BY DEF BufInv, Owners, Working, Disk
  <2> QED
    BY <2>1, <2>2 DEF BufInv, Unique, OneBufferPerBlock
<1> QED
  BY BufInvariant, <1>1, PTL

(* A sleeper on a buffer's lock waits for a process that holds it, a        *)
(* sleeper in iderw for a request still in the disk queue, whose head the   *)
(* disk works on.                                                           *)
THEOREM SleepersAreWoken == Spec => []SleeperHasWaker
<1>1. BufInv => SleeperHasWaker
  <2> SUFFICES ASSUME BufInv PROVE SleeperHasWaker
    OBVIOUS
  <2>1. ASSUME NEW h \in Hand, pc[h] = "io_asleep" PROVE cur[h] \in Range(queue)
    <3>1. PICK i \in 1..Len(queue) : queue[i] = cur[h]
      BY <2>1 DEF BufInv, Queued
    <3>2. queue \in Seq(Buf) /\ DOMAIN queue = 1..Len(queue)
      BY DEF BufInv, TypeOK
    <3> QED BY <3>1, <3>2 DEF Range
  <2>2. queue # <<>> => started = Head(queue)
    BY DEF BufInv, Queued, NextStarted
  <2> QED
    BY <2>1, <2>2 DEF BufInv, SleeperHasWaker
<1> QED
  BY BufInvariant, <1>1, PTL

(***************************************************************************)
(* The contents of the blocks.                                             *)
(***************************************************************************)

(* What bread() returns is what a dirty buffer of the block holds, or else  *)
(* what is on the disk.                                                     *)
Viewed ==
    \A k \in Block :
        /\ \A b \in Buf : blockno[b] = k /\ dirty[b] => View[k] = data[b]
        /\ (\A b \in Buf : blockno[b] = k => ~dirty[b]) => View[k] = disk[k]

LEMMA ViewValue == BufInv => Viewed
<1> SUFFICES ASSUME BufInv, NEW k \in Block
             PROVE  /\ \A b \in Buf : blockno[b] = k /\ dirty[b] => View[k] = data[b]
                    /\ (\A b \in Buf : blockno[b] = k => ~dirty[b]) => View[k] = disk[k]
  BY DEF Viewed
<1> DEFINE bs == {b \in Cached(k) : valid[b] /\ ~stale[b]}
<1>1. View[k] = IF bs = {} THEN disk[k] ELSE data[CHOOSE b \in bs : TRUE]
  BY DEF View
<1>2. \A b \in bs : b \in Buf /\ blockno[b] = k /\ valid[b] /\ ~stale[b]
  BY DEF Cached
<1>3. \A a, b \in bs : a = b
  BY <1>2, BufAssumption DEF BufInv, Unique
<1>4. ASSUME NEW b \in bs PROVE View[k] = data[b]
  <2>1. (CHOOSE a \in bs : TRUE) = b
    BY <1>3
  <2> QED BY <1>1, <2>1
<1>5. ASSUME NEW b \in Buf, blockno[b] = k, dirty[b] PROVE View[k] = data[b]
  <2>1. b \in bs
    BY <1>5 DEF Cached, BufInv, Coherent
  <2> QED BY <1>4, <2>1
<1>6. ASSUME \A b \in Buf : blockno[b] = k => ~dirty[b] PROVE View[k] = disk[k]
  <2>1. CASE bs = {}
    BY <1>1, <2>1
  <2>2. CASE bs # {}
    <3>1. PICK b \in bs : TRUE
      BY <2>2
    <3>2. data[b] = disk[k]
      BY <1>2, <1>6 DEF BufInv, Coherent
    <3> QED BY <1>4, <3>2
  <2> QED BY <2>1, <2>2
<1> QED
  BY <1>5, <1>6

(* A step that changes neither a block on the disk nor its dirty buffer.    *)
LEMMA ViewFrame ==
    ASSUME BufInv, BufInv', NEW k \in Block, disk'[k] = disk[k],
           \A b \in Buf : (blockno[b] = k /\ dirty[b]) = (blockno'[b] = k /\ dirty'[b]),
           \A b \in Buf : blockno[b] = k /\ dirty[b] => data'[b] = data[b]
    PROVE  View'[k] = View[k]
<1>1. /\ \A b \in Buf : blockno[b] = k /\ dirty[b] => View[k] = data[b]
      /\ (\A b \in Buf : blockno[b] = k => ~dirty[b]) => View[k] = disk[k]
  BY ViewValue DEF Viewed
<1>2. Viewed'
  BY ViewValue, PTL
<1>3. /\ \A b \in Buf : blockno'[b] = k /\ dirty'[b] => View'[k] = data'[b]
      /\ (\A b \in Buf : blockno'[b] = k => ~dirty'[b]) => View'[k] = disk'[k]
  BY <1>2 DEF Viewed
<1>4. CASE \E b \in Buf : blockno[b] = k /\ dirty[b]
  BY <1>1, <1>3, <1>4
<1>5. CASE \A b \in Buf : ~(blockno[b] = k /\ dirty[b])
  BY <1>1, <1>3, <1>5
<1> QED
  BY <1>4, <1>5

(* A write by the holder of a buffer is a write to its block only.          *)
LEMMA ViewModify ==
    ASSUME BufInv, BufInv', NEW h \in Hand, pc[h] = "hold", Modify(cur[h]),
           UNCHANGED <<blockno, disk>>, NEW k \in Block, blockno[cur[h]] # k
    PROVE  View'[k] = View[k]
<1>1. \E v \in Value : data' = [data EXCEPT ![cur[h]] = v]
  BY DEF Modify
<1>2. dirty' = [dirty EXCEPT ![cur[h]] = TRUE]
  BY DEF Modify
<1>3. data \in [Buf -> Value] /\ dirty \in [Buf -> BOOLEAN]
  BY DEF BufInv, TypeOK
<1>4. \A b \in Buf : b # cur[h] => data'[b] = data[b]
  BY <1>1, <1>3
<1>5. \A b \in Buf : b # cur[h] => dirty'[b] = dirty[b]
  BY <1>2, <1>3, Zenon
<1> QED
  BY <1>4, <1>5, ViewFrame

(* A transfer: a write makes the disk agree with the buffer, a read comes   *)
(* into a buffer that was not dirty.                                        *)
LEMMA ViewTransfer ==
    ASSUME BufInv, BufInv', IdeIntr \/ IdeIntrError, NEW k \in Block
    PROVE  View'[k] = View[k]
<1>1. started # None /\ Finish(Head(queue))
  BY DEF IdeIntr, IdeIntrError
<1>2. PICK b \in Buf : b = Head(queue) /\ blockno[b] \in Block
  BY <1>1, InTransfer
<1>3. data \in [Buf -> Value] /\ dirty \in [Buf -> BOOLEAN] /\ disk \in [Block -> Value]
  BY DEF BufInv, TypeOK
<1>4. dirty' = [dirty EXCEPT ![b] = FALSE] /\ blockno' = blockno
  BY <1>1, <1>2 DEF Finish
<1>5. ~dirty'[b] /\ \A a \in Buf \ {b} : dirty'[a] = dirty[a]
  BY <1>3, <1>4, Zenon
<1>6. CASE dirty[b]
  <2>1. disk' = [disk EXCEPT ![blockno[b]] = data[b]] /\ data' = data
    BY <1>2, <1>6 DEF IdeIntr, IdeIntrError
  <2>2. disk'[blockno[b]] = data[b] /\ \A j \in Block \ {blockno[b]} : disk'[j] = disk[j]
    BY <1>2, <1>3, <2>1
  <2>3. CASE k = blockno[b]
    <3>1. View[k] = data[b]
      BY <1>6, <2>3, ViewValue DEF Viewed
    <3>2. \A a \in Buf : blockno'[a] = k => ~dirty'[a]
      BY <1>2, <1>4, <1>5, <2>3, BufAssumption DEF BufInv, Unique
    <3>3. View'[k] = disk'[k]
      <4>1. Viewed'
        BY ViewValue, PTL
      <4> QED BY <3>2, <4>1 DEF Viewed
    <3> QED BY <2>2, <2>3, <3>1, <3>3
  <2>4. CASE k # blockno[b]
    BY <1>4, <1>5, <2>1, <2>2, <2>4, ViewFrame
  <2> QED BY <2>3, <2>4
<1>7. CASE ~dirty[b]
  <2>1. disk' = disk /\ (data' = [data EXCEPT ![b] = disk[blockno[b]]] \/ data' = data)
    BY <1>2, <1>7 DEF IdeIntr, IdeIntrError
  <2>2. \A a \in Buf \ {b} : data'[a] = data[a]
    BY <1>3, <2>1
  <2> QED BY <1>4, <1>5, <1>7, <2>1, <2>2, ViewFrame
<1> QED
  BY <1>6, <1>7

LEMMA ViewBget ==
    ASSUME BufInv, BufInv', NEW h \in Hand, NEW j \in Block, Bget(h, j), NEW k \in Block
    PROVE  View'[k] = View[k]
<1>1. data' = data /\ disk' = disk
  BY DEF Bget, ideVars
<1>2. CASE UNCHANGED <<blockno, dirty>>
  BY <1>1, <1>2, ViewFrame
<1>3. CASE ~UNCHANGED <<blockno, dirty>>
  <2>1. Recycle(h, j) /\ Recyclable # {}
    BY <1>3 DEF Bget, Found, Recycle
  <2>2. PICK b \in Buf : /\ ~dirty[b]
                        /\ blockno' = [blockno EXCEPT ![b] = j]
                        /\ dirty' = [dirty EXCEPT ![b] = FALSE]
    <3> DEFINE v == lru[Max(Recyclable)]
    <3>1. v \in Buf /\ ~dirty[v]
      BY <2>1, Recycled DEF BufInv
    <3>2. blockno' = [blockno EXCEPT ![v] = j] /\ dirty' = [dirty EXCEPT ![v] = FALSE]
      BY <2>1 DEF Recycle
    <3> HIDE DEF v
    <3> QED BY <3>1, <3>2
  <2>3. blockno \in [Buf -> Block \cup {NoBlock}] /\ dirty \in [Buf -> BOOLEAN]
    BY DEF BufInv, TypeOK
  <2>4. \A a \in Buf \ {b} : blockno'[a] = blockno[a]
    BY <2>2, <2>3
  <2>5. ~dirty'[b] /\ \A a \in Buf \ {b} : dirty'[a] = dirty[a]
    BY <2>2, <2>3, Zenon
  <2> QED BY <1>1, <2>2, <2>4, <2>5, ViewFrame
<1> QED
  BY <1>2, <1>3

(* The contents of a block change only when the process that holds its      *)
(* buffer writes it: recycling, disk transfers and other processes lose no  *)
(* write and bring no old contents back.                                    *)
THEOREM HoldersWrite == Spec => OnlyHoldersWrite
<1>1. ASSUME BufInv, BufInv', [Next]_vars, NEW k \in Block, View'[k] # View[k]
      PROVE  \E h \in Hand : pc[h] = "hold" /\ blockno[cur[h]] = k
  <2>1. ASSUME NEW h \in Hand, NEW j \in Block, Bget(h, j) PROVE FALSE
    BY <1>1, <2>1, ViewBget
  <2>2. ASSUME NEW h \in Hand, Bwrite(h) \/ LogWrite(h)
        PROVE  pc[h] = "hold" /\ blockno[cur[h]] = k
    <3>1. pc[h] = "hold" /\ Modify(cur[h]) /\ UNCHANGED <<blockno, disk>>
      BY <2>2 DEF Bwrite, LogWrite, ideVars
    <3> QED BY <1>1, <3>1, ViewModify
  <2>3. ASSUME NEW h \in Hand, Step(h) PROVE FALSE
    <3>1. UNCHANGED <<blockno, dirty, data, disk>>
      BY <2>3 DEF Step, AcquireSleep, Iderw, IderwLoop, ReleaseSleep, Brelse, bufVars, ideVars
    <3> QED BY <1>1, <3>1, ViewFrame
  <2>4. ASSUME IdeIntr \/ IdeIntrError PROVE FALSE
    BY <1>1, <2>4, ViewTransfer
  <2>5. ASSUME UNCHANGED vars PROVE FALSE
    BY <1>1, <2>5, ViewFrame DEF vars, bufVars, ideVars
  <2> QED
    BY <1>1, <2>1, <2>2, <2>3, <2>4, <2>5 DEF Next
<1>2. BufInv /\ BufInv' /\ [Next]_vars =>
        [\A k \in Block : View'[k] # View[k] =>
            \E h \in Hand : pc[h] = "hold" /\ blockno[cur[h]] = k]_vars
  BY <1>1
<1> QED
  BY BufInvariant, <1>2, PTL DEF Spec, OnlyHoldersWrite

(***************************************************************************)
(* Running out of buffers.                                                 *)
(***************************************************************************)

(* The buffers in use are no more than the processes that use one.          *)
LEMMA UsedBound ==
    ASSUME BufInv, NEW h \in Hand, cur[h] = None
    PROVE  LET used == {b \in Buf : refcnt[b] > 0}
               others == {g \in Hand \ {h} : cur[g] # None}
           IN Cardinality(used) <= Cardinality(others)
<1> DEFINE used == {b \in Buf : refcnt[b] > 0}
           others == {g \in Hand \ {h} : cur[g] # None}
           user == [b \in used |-> CHOOSE g \in Hand : cur[g] = b]
<1>1. IsFiniteSet(others)
  <2>1. others \in SUBSET Hand
    OBVIOUS
  <2> QED BY <2>1, FiniteUsers
<1>2. ASSUME NEW b \in used PROVE user[b] \in Hand /\ cur[user[b]] = b
  <2>1. Users(b) # {}
    BY <1>2, FS_EmptySet DEF BufInv, Refs
  <2>2. \E g \in Hand : cur[g] = b
    BY <2>1 DEF Users
  <2> QED BY <2>2
<1>3. ASSUME NEW b \in used PROVE user[b] \in others
  <2>1. b \in Buf
    BY <1>3
  <2> HIDE DEF user, used
  <2> QED BY <1>2, <1>3, <2>1, BufFacts
<1>4. user \in Injection(used, others)
  <2>1. user \in [used -> others]
    BY <1>3
  <2>2. \A a, b \in used : user[a] = user[b] => a = b
    <3> HIDE DEF user, used
    <3> QED BY <1>2
  <2> HIDE DEF user, used, others
  <2> QED BY <2>1, <2>2 DEF Injection, IsInjective
<1>5. Cardinality(used) <= Cardinality(others)
  <2> HIDE DEF user, used, others
  <2> QED BY <1>1, <1>4, FS_Injection
<1> QED
  BY <1>5

LEMMA PanicPinned ==
    ASSUME BufInv, NEW h \in Hand, NEW k \in Block, Bget(h, k), Recyclable = {}
    PROVE  Cardinality({g \in Hand \ {h} : cur[g] # None}) + MaxDirty >= NBUF
<1> DEFINE used == {b \in Buf : refcnt[b] > 0}
           others == {g \in Hand \ {h} : cur[g] # None}
<1>1. cur[h] = None
  BY DEF Bget, BufInv, Refs
<1>2. Cardinality(used) <= Cardinality(others)
  BY <1>1, UsedBound
<1>3. ASSUME NEW b \in Buf, b \notin used PROVE b \in Parked
  <2>1. refcnt[b] = 0
    BY <1>3 DEF BufInv, TypeOK
  <2>2. PICK i \in 1..NBUF : lru[i] = b
    BY DEF BufInv, Listed
  <2>3. i \in DOMAIN lru
    BY <2>2 DEF BufInv, TypeOK
  <2>4. dirty[b]
    <3>1. ~(refcnt[lru[i]] = 0 /\ ~dirty[lru[i]])
      BY <2>3, Zenon DEF Recyclable
    <3> QED BY <2>1, <2>2, <3>1
  <2>5. \A g \in Hand : cur[g] # b
    BY <2>1, Unused
  <2> QED BY <2>4, <2>5 DEF Parked
<1>4. used \in SUBSET Buf /\ Parked \in SUBSET Buf /\ others \in SUBSET Hand
  BY DEF Parked
<1>5. Buf = used \cup Parked
  BY <1>3, <1>4
<1>6. /\ IsFiniteSet(used) /\ Cardinality(used) \in Nat
      /\ IsFiniteSet(Parked) /\ Cardinality(Parked) \in Nat
      /\ Cardinality(others) \in Nat
  <2> HIDE DEF used, others
  <2> QED BY <1>4, FiniteBuffers, FiniteUsers
<1>7. NBUF = Cardinality(used) + Cardinality(Parked) - Cardinality(used \cap Parked)
  <2> HIDE DEF used
  <2> QED BY <1>5, <1>6, BufFacts, FS_Union
<1>8. Cardinality(used \cap Parked) \in Nat
  <2>1. used \cap Parked \in SUBSET Buf
    OBVIOUS
  <2> QED BY <2>1, FiniteBuffers
<1>9. Cardinality(Parked) <= MaxDirty
  BY DEF BufInv, FewParked
<1> QED
  <2> HIDE DEF used, others
  <2>1. Cardinality(others) + MaxDirty >= NBUF
    BY <1>2, <1>6, <1>7, <1>8, <1>9, BufAssumption
  <2> QED BY <2>1 DEF others

(* bget() finds no buffer only when the buffers in use, the caller's own    *)
(* included, and the blocks the log may leave dirty account for all of      *)
(* them, however many buffers each process holds at once.                   *)
THEOREM PanicNeedsPins == Spec => PanicMeansPinned
<1>1. ASSUME BufInv, [Next]_vars, NEW h \in Hand, pc[h] # "panic", pc'[h] = "panic"
      PROVE  Cardinality({g \in Hand \ {h} : cur[g] # None}) + MaxDirty >= NBUF
  <2>1. pc \in [Hand -> Labels]
    BY <1>1 DEF BufInv, TypeOK
  <2>2. ASSUME NEW r \in Hand, NEW k \in Block, Bget(r, k)
        PROVE  Cardinality({g \in Hand \ {h} : cur[g] # None}) + MaxDirty >= NBUF
    <3>1. r = h /\ Recyclable = {}
      BY <1>1, <2>1, <2>2 DEF Bget, Found, Recycle, Goto
    <3> QED BY <1>1, <2>2, <3>1, PanicPinned
  <2>3. ASSUME NEW r \in Hand, Bwrite(r) \/ LogWrite(r) \/ Step(r) PROVE pc'[h] # "panic"
    BY <1>1, <2>1, <2>3 DEF Bwrite, LogWrite, Step, AcquireSleep, Iderw, IderwLoop, ReleaseSleep,
                            ReleaseWakes, GotoWake, Brelse, Goto
  <2>4. ASSUME IdeIntr \/ IdeIntrError PROVE pc'[h] # "panic"
    BY <1>1, <2>1, <2>4 DEF IdeIntr, IdeIntrError, Finish, GotoWake
  <2>5. ASSUME UNCHANGED vars PROVE pc'[h] # "panic"
    BY <1>1, <2>5 DEF vars
  <2> QED
    BY <1>1, <2>2, <2>3, <2>4, <2>5 DEF Next
<1>2. BufInv /\ [Next]_vars =>
        [\A h \in Hand : pc[h] # "panic" /\ pc'[h] = "panic" =>
            Cardinality({g \in Hand \ {h} : cur[g] # None}) + MaxDirty >= NBUF]_vars
  BY <1>1
<1> QED
  BY BufInvariant, <1>2, PTL DEF Spec, PanicMeansPinned
=============================================================================
