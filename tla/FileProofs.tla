----------------------------- MODULE FileProofs ----------------------------
(***************************************************************************)
(* Proofs about File, for any number of processes, descriptors, open files, *)
(* inodes and blocks: files are counted exactly, open files have their     *)
(* inodes, the free map marks exactly the blocks that inodes reach, a      *)
(* transaction writes no more blocks than begin_op set aside, and readi    *)
(* returns what was written.                                               *)
(***************************************************************************)
EXTENDS File, SequenceTheorems, FiniteSetTheorems, WellFoundedInduction, NaturalsInduction, TLAPS

(***************************************************************************)
(* The inductive invariant.                                                *)
(***************************************************************************)
Top == MAXFILE * BSIZE

(* Records have the fields of the C structures.                             *)
IsFile(t) ==
    /\ t = [ref |-> t.ref, type |-> t.type, ip |-> t.ip, off |-> t.off,
            readable |-> t.readable, writable |-> t.writable]
    /\ t.ref \in Nat /\ t.off \in 0..Top
    /\ t.type = "inode" => t.ip \in Inum /\ t.ref > 0
IsInode(n) ==
    /\ n = [live |-> n.live, nlink |-> n.nlink, size |-> n.size, addrs |-> n.addrs]
    /\ n.live \in BOOLEAN /\ n.size \in 0..Top
AreInodes(s) == s = [i \in Inum |-> s[i]] /\ \A i \in Inum : IsInode(s[i])
IsDisk(d) ==
    /\ d = [din |-> d.din, used |-> d.used, data |-> d.data, text |-> d.text]
    /\ AreInodes(d.din) /\ d.used \subseteq Block
IsCall(c) ==
    c = [pc |-> c.pc, f |-> c.f, w |-> c.w, ip |-> c.ip, n |-> c.n, i |-> c.i, n1 |-> c.n1,
         tot |-> c.tot, r |-> c.r, then |-> c.then]

Shapes ==
    /\ ftable = [f \in FileId |-> ftable[f]] /\ \A f \in FileId : IsFile(ftable[f])
    /\ ofile \in [Proc -> [Fd -> FileId \cup {0}]]
    /\ alive \subseteq Proc /\ inop \subseteq alive /\ lock \in [Inum -> Proc \cup {0}]
    /\ call = [p \in Proc |-> call[p]] /\ \A p \in Proc : IsCall(call[p])

Disks == AreInodes(inode) /\ IsDisk(disk) /\ IsDisk(installed)

(* Descriptors of a file, and calls of open and pipe that have only the     *)
(* file.                                                                    *)
HeldIn(o, f) == {x \in Proc \X Fd : o[x[1]][x[2]] = f}
MakingIn(c, f) == {p \in Proc : c[p].pc \in Making /\ f \in {c[p].f, c[p].w}}
Makes(k, f) == k.pc \in Making /\ f \in {k.f, k.w}
Counts ==
    \A f \in FileId :
       ftable[f].ref = Cardinality(HeldIn(ofile, f)) + Cardinality(MakingIn(call, f))

(* Open files, opens and closes under way keep the inode.                   *)
Referring == {"open", "cbegin", "iput"}
Live ==
    /\ \A f \in FileId : ftable[f].type = "inode" => inode[ftable[f].ip].live
    /\ \A p \in Proc : call[p].pc \in Referring => call[p].ip \in Inum /\ inode[call[p].ip].live

(* A file that is being made or given back has one reference, that of the   *)
(* call, and no inode.                                                      *)
MakesOK(c) ==
    /\ c.f \in FileId /\ c.w \in FileId \cup {0} /\ c.f # c.w
    /\ c.pc \in {"open", "pipe"} => c.w = 0
    /\ c.pc = "kalloc" => c.w # 0
    /\ \A g \in FileId : g \in {c.f, c.w} => ftable[g].type # "inode" /\ ftable[g].ref = 1

(* Where a process can be, and what it then relies on.                      *)
Writing == {"wbegin", "ilock", "copy", "wend"}
CallOK(p, c) ==
    /\ c.pc \in {"idle", "exit", "cend"} \cup Making \cup Referring \cup Writing
    /\ c.pc # "idle" => p \in alive
    /\ p \in inop => c.pc \in {"open", "iput", "cend", "ilock", "copy", "wend"}
    /\ p \notin alive => \A fd \in Fd : ofile[p][fd] = 0
    /\ c.pc \in Referring \cup {"cend"} => c.then \in {"idle", "exit"}
    /\ c.pc \in Making => MakesOK(c)
    /\ c.pc = "open" => lock[c.ip] = p
    /\ c.pc \in Writing =>
         /\ c.f \in FileId /\ (\E fd \in Fd : ofile[p][fd] = c.f)
         /\ ftable[c.f].type = "inode" /\ ftable[c.f].ip = c.ip
         /\ c.n \in Nat /\ c.i \in 0..c.n
    /\ c.pc \in {"ilock", "copy"} => c.n1 \in 0..(c.n - c.i)
    /\ c.pc = "copy" => lock[c.ip] = p /\ ftable[c.f].off + c.n1 <= Top
    /\ c.pc = "wend" => c.r = -1 \/ c.r \in 0..(c.n - c.i)
Calls == \A p \in Proc : CallOK(p, call[p])

FileInv == Shapes /\ Disks /\ Counts /\ Live /\ Calls

(***************************************************************************)
(* Constants.                                                              *)
(***************************************************************************)
LEMMA FileFacts ==
    /\ NPROC \in Nat /\ NPROC >= 1 /\ NFILE \in Nat /\ NFILE >= 1 /\ NOFILE \in Nat
    /\ NINODES \in Nat /\ NBLOCKS \in Nat /\ BSIZE \in Nat /\ MAXFILE \in Nat /\ NDIRECT \in Nat
BY FileAssumption DEF MAXFILE

LEMMA TopNat == Top \in Nat
<1>1. BSIZE \in Nat /\ MAXFILE \in Nat
  BY FileFacts
<1>2. \A a, b \in Nat : a * b \in Nat
  OBVIOUS
<1> QED BY <1>1, <1>2 DEF Top

LEMMA ChunkNat == MaxChunk \in Nat
<1>1. BSIZE \in Nat /\ MAXOPBLOCKS \in Nat /\ MAXOPBLOCKS >= 6
  BY FileAssumption
<1>2. (MAXOPBLOCKS - 1 - 1 - 2) \div 2 \in Nat
  BY <1>1
<1>3. \A a, b \in Nat : a * b \in Nat
  OBVIOUS
<1> QED BY <1>1, <1>2, <1>3 DEF MaxChunk

LEMMA FileSets ==
    /\ IsFiniteSet(Proc) /\ IsFiniteSet(Fd) /\ IsFiniteSet(Proc \X Fd)
    /\ 0 \notin FileId /\ 1 \in Proc /\ 0 \notin Proc
<1>1. IsFiniteSet(Proc) /\ IsFiniteSet(Fd)
  BY FileFacts, FS_Interval DEF Proc, Fd
<1>2. IsFiniteSet(Proc \X Fd)
  BY <1>1, FS_Product
<1> QED BY <1>1, <1>2, FileFacts DEF FileId, Proc

(* Min of a set of natural numbers is its least element.                    *)
LEMMA LeastOf ==
    ASSUME NEW S, S \subseteq Nat, S # {}
    PROVE  Min(S) \in S /\ \A y \in S : Min(S) <= y
<1> DEFINE Less == OpToRel(<, Nat)
<1>1. IsWellFoundedOn(Less, Nat)
  BY NatLessThanWellFounded, Zenon
<1>2. \E x \in S : \A y \in S : ~(<<y, x>> \in Less)
  <2> HIDE DEF Less
  <2> QED BY <1>1, WFMin
<1>3. PICK x \in S : \A y \in S : ~(y < x)
  BY <1>2 DEF OpToRel
<1>4. \A y \in S : x <= y
  BY <1>3
<1> QED BY <1>4 DEF Min

(***************************************************************************)
(* Counting.                                                               *)
(***************************************************************************)
Descriptors == [Proc -> [Fd -> FileId \cup {0}]]
One(b) == IF b THEN 1 ELSE 0

LEMMA HeldFinite ==
    ASSUME NEW o, NEW f
    PROVE  IsFiniteSet(HeldIn(o, f)) /\ Cardinality(HeldIn(o, f)) \in Nat
<1>1. HeldIn(o, f) \subseteq Proc \X Fd
  BY DEF HeldIn
<1> QED BY <1>1, FileSets, FS_Subset, FS_CardinalityType

LEMMA MakingFinite ==
    ASSUME NEW c, NEW f
    PROVE  IsFiniteSet(MakingIn(c, f)) /\ Cardinality(MakingIn(c, f)) \in Nat
<1>1. MakingIn(c, f) \subseteq Proc
  BY DEF MakingIn
<1> QED BY <1>1, FileSets, FS_Subset, FS_CardinalityType

(* One element of a finite set is taken out or put in.                      *)
LEMMA OneElement ==
    ASSUME NEW S, NEW T, NEW x, IsFiniteSet(S), S \ {x} = T \ {x}
    PROVE  Cardinality(T) = Cardinality(S) - One(x \in S) + One(x \in T)
<1>1. /\ IsFiniteSet(S \ {x})
      /\ Cardinality(S \ {x}) = IF x \in S THEN Cardinality(S) - 1 ELSE Cardinality(S)
  BY FS_RemoveElement
<1>2. Cardinality(S \ {x}) \in Nat /\ Cardinality(S) \in Nat
  BY <1>1, FS_CardinalityType
<1>3. CASE x \in T
  <2>1. T = (S \ {x}) \cup {x} /\ x \notin S \ {x}
    BY <1>3
  <2>2. Cardinality(T) = Cardinality(S \ {x}) + 1
    BY <1>1, <2>1, FS_AddElement
  <2>3. One(x \in T) = 1
    BY <1>3 DEF One
  <2>4. Cardinality(S \ {x}) = Cardinality(S) - One(x \in S)
    BY <1>1, <1>2 DEF One
  <2> QED BY <1>2, <2>2, <2>3, <2>4 DEF One
<1>4. CASE x \notin T
  <2>1. T = S \ {x}
    BY <1>4
  <2>2. One(x \in T) = 0
    BY <1>4 DEF One
  <2>3. Cardinality(S \ {x}) = Cardinality(S) - One(x \in S)
    BY <1>1, <1>2 DEF One
  <2> QED BY <1>2, <2>1, <2>2, <2>3 DEF One
<1> QED BY <1>3, <1>4

(* u is o with descriptor fd of p set to g, or c with the call of p set to k. *)
Put(o, p, fd, g, u) ==
    u[p][fd] = g /\ \A q \in Proc, e \in Fd : <<q, e>> # <<p, fd>> => u[q][e] = o[q][e]
Set(c, p, k, u) == u[p] = k /\ \A q \in Proc : q # p => u[q] = c[q]

LEMMA HeldChange ==
    ASSUME NEW o, NEW p \in Proc, NEW fd \in Fd, NEW g, NEW u, Put(o, p, fd, g, u), NEW f
    PROVE  Cardinality(HeldIn(u, f)) =
              Cardinality(HeldIn(o, f)) - One(o[p][fd] = f) + One(g = f)
<1>1. <<p, fd>> \in Proc \X Fd
  OBVIOUS
<1>2. u[p][fd] = g /\ \A q \in Proc, e \in Fd : <<q, e>> # <<p, fd>> => u[q][e] = o[q][e]
  BY DEF Put
<1>3. HeldIn(o, f) \ {<<p, fd>>} = HeldIn(u, f) \ {<<p, fd>>}
  BY <1>2 DEF HeldIn
<1>4. (<<p, fd>> \in HeldIn(o, f) <=> o[p][fd] = f) /\ (<<p, fd>> \in HeldIn(u, f) <=> g = f)
  BY <1>1, <1>2 DEF HeldIn
<1>5. Cardinality(HeldIn(u, f)) = Cardinality(HeldIn(o, f)) - One(<<p, fd>> \in HeldIn(o, f))
                                  + One(<<p, fd>> \in HeldIn(u, f))
  BY <1>3, HeldFinite, OneElement
<1>6. One(<<p, fd>> \in HeldIn(o, f)) = One(o[p][fd] = f) /\ One(<<p, fd>> \in HeldIn(u, f)) = One(g = f)
  BY <1>4 DEF One
<1> QED BY <1>5, <1>6

LEMMA MakingChange ==
    ASSUME NEW c, NEW p \in Proc, NEW k, NEW u, Set(c, p, k, u), NEW f
    PROVE  Cardinality(MakingIn(u, f)) =
              Cardinality(MakingIn(c, f)) - One(Makes(c[p], f)) + One(Makes(k, f))
<1>1. u[p] = k /\ \A q \in Proc : q # p => u[q] = c[q]
  BY DEF Set
<1>2. MakingIn(c, f) \ {p} = MakingIn(u, f) \ {p}
  BY <1>1 DEF MakingIn
<1>3. (p \in MakingIn(c, f) <=> Makes(c[p], f)) /\ (p \in MakingIn(u, f) <=> Makes(k, f))
  BY <1>1 DEF MakingIn, Makes
<1>4. Cardinality(MakingIn(u, f)) = Cardinality(MakingIn(c, f)) - One(p \in MakingIn(c, f))
                                    + One(p \in MakingIn(u, f))
  BY <1>2, MakingFinite, OneElement
<1>5. One(p \in MakingIn(c, f)) = One(Makes(c[p], f)) /\ One(p \in MakingIn(u, f)) = One(Makes(k, f))
  BY <1>3 DEF One
<1> QED BY <1>4, <1>5

LEMMA SomeElement ==
    ASSUME NEW S, IsFiniteSet(S), NEW x \in S PROVE Cardinality(S) \in Nat /\ Cardinality(S) >= 1
<1>1. Cardinality(S) \in Nat /\ Cardinality(S) # 0
  BY FS_CardinalityType, FS_EmptySet
<1> QED BY <1>1

LEMMA TwoElements ==
    ASSUME NEW S, IsFiniteSet(S), NEW x \in S, NEW y \in S, x # y
    PROVE  Cardinality(S) \in Nat /\ Cardinality(S) >= 2
<1>1. IsFiniteSet(S \ {x}) /\ Cardinality(S \ {x}) = Cardinality(S) - 1
  BY FS_RemoveElement
<1>2. y \in S \ {x}
  OBVIOUS
<1>3. Cardinality(S \ {x}) >= 1
  BY <1>1, <1>2, SomeElement
<1>4. Cardinality(S) \in Nat
  BY FS_CardinalityType
<1> QED BY <1>1, <1>3, <1>4

(***************************************************************************)
(* What the counts say.                                                    *)
(***************************************************************************)

(* The invariant at one file and at one process.                            *)
LEMMA FileAt ==
    ASSUME FileInv, NEW f \in FileId
    PROVE  /\ IsFile(ftable[f]) /\ ftable[f].ref \in Nat /\ ftable[f].off \in 0..Top
           /\ ftable[f].ref = Cardinality(HeldIn(ofile, f)) + Cardinality(MakingIn(call, f))
           /\ IsFiniteSet(HeldIn(ofile, f)) /\ Cardinality(HeldIn(ofile, f)) \in Nat
           /\ IsFiniteSet(MakingIn(call, f)) /\ Cardinality(MakingIn(call, f)) \in Nat
<1>1. IsFile(ftable[f])
  BY DEF FileInv, Shapes
<1>2. ftable[f].ref \in Nat /\ ftable[f].off \in 0..Top
  BY <1>1 DEF IsFile
<1>3. ftable[f].ref = Cardinality(HeldIn(ofile, f)) + Cardinality(MakingIn(call, f))
  BY DEF FileInv, Counts
<1> QED BY <1>1, <1>2, <1>3, HeldFinite, MakingFinite

LEMMA CallAt ==
    ASSUME FileInv, NEW p \in Proc
    PROVE  /\ CallOK(p, call[p]) /\ IsCall(call[p]) /\ ofile[p] \in [Fd -> FileId \cup {0}]
           /\ ofile \in Descriptors /\ call = [q \in Proc |-> call[q]]
           /\ alive \subseteq Proc /\ inop \subseteq alive /\ lock \in [Inum -> Proc \cup {0}]
BY DEF FileInv, Shapes, Calls, Descriptors

(* A file with a descriptor is in use and no call is making it.             *)
LEMMA HeldFile ==
    ASSUME FileInv, NEW p \in Proc, NEW fd \in Fd, NEW f \in FileId, ofile[p][fd] = f
    PROVE  ftable[f].ref >= 1 /\ \A q \in Proc : ~Makes(call[q], f)
<1>1. <<p, fd>> \in HeldIn(ofile, f)
  BY DEF HeldIn
<1>2. Cardinality(HeldIn(ofile, f)) >= 1
  BY <1>1, FileAt, SomeElement
<1>3. ASSUME NEW q \in Proc, Makes(call[q], f) PROVE FALSE
  <2>1. q \in MakingIn(call, f)
    BY <1>3 DEF MakingIn, Makes
  <2>2. Cardinality(MakingIn(call, f)) >= 1
    BY <2>1, FileAt, SomeElement
  <2>3. ftable[f].ref = 1
    BY <1>3, CallAt DEF CallOK, Makes, MakesOK
  <2> QED BY <1>2, <2>2, <2>3, FileAt
<1> QED BY <1>2, <1>3, FileAt

(* The file a call is making is nobody else's.                              *)
LEMMA MadeFile ==
    ASSUME FileInv, NEW p \in Proc, NEW f \in FileId, Makes(call[p], f)
    PROVE  /\ f \in FileId /\ ftable[f].ref = 1 /\ ftable[f].type # "inode"
           /\ \A q \in Proc, fd \in Fd : ofile[q][fd] # f
           /\ \A q \in Proc : q # p => ~Makes(call[q], f)
<1>1. f \in FileId /\ ftable[f].ref = 1 /\ ftable[f].type # "inode"
  BY CallAt DEF CallOK, Makes, MakesOK
<1>2. \A q \in Proc, fd \in Fd : ofile[q][fd] # f
  BY <1>1, HeldFile
<1>3. ASSUME NEW q \in Proc, q # p, Makes(call[q], f) PROVE FALSE
  <2>1. p \in MakingIn(call, f) /\ q \in MakingIn(call, f)
    BY <1>3 DEF MakingIn, Makes
  <2>2. Cardinality(MakingIn(call, f)) >= 2
    BY <1>1, <1>3, <2>1, FileAt, TwoElements
  <2> QED BY <1>1, <2>2, FileAt
<1> QED BY <1>1, <1>2, <1>3

(* A free file is nobody's.                                                 *)
LEMMA FreeFile ==
    ASSUME FileInv, NEW f \in FileId, ftable[f].ref = 0
    PROVE  /\ \A q \in Proc, fd \in Fd : ofile[q][fd] # f
           /\ \A q \in Proc : ~Makes(call[q], f)
           /\ ftable[f].type # "inode"
<1>1. \A q \in Proc, fd \in Fd : ofile[q][fd] # f
  <2>1. ASSUME NEW q \in Proc, NEW fd \in Fd, ofile[q][fd] = f PROVE FALSE
    BY <2>1, HeldFile, FileAt
  <2> QED BY <2>1
<1>2. \A q \in Proc : ~Makes(call[q], f)
  <2>1. ASSUME NEW q \in Proc, Makes(call[q], f) PROVE FALSE
    BY <2>1, MadeFile
  <2> QED BY <2>1
<1>3. IsFile(ftable[f])
  BY FileAt
<1>4. ftable[f].type # "inode"
  BY <1>3 DEF IsFile
<1> QED BY <1>1, <1>2, <1>4

(***************************************************************************)
(* One process takes a step.                                               *)
(***************************************************************************)

(* What q relies on is left alone by a step of another process.             *)
LeftAlone(q) ==
    /\ call'[q] = call[q] /\ ofile'[q] = ofile[q]
    /\ (q \in alive' <=> q \in alive) /\ (q \in inop' => q \in inop)
    /\ \A i \in Inum : lock[i] = q => lock'[i] = q
    /\ \A f \in FileId : Makes(call[q], f) => ftable'[f] = ftable[f]
    /\ \A f \in FileId, fd \in Fd : ofile[q][fd] = f /\ ftable[f].type = "inode" =>
          /\ ftable'[f].type = "inode" /\ ftable'[f].ip = ftable[f].ip
          /\ lock[ftable[f].ip] = q => ftable'[f].off = ftable[f].off

LEMMA OthersKeep ==
    ASSUME FileInv, NEW q \in Proc, LeftAlone(q) PROVE CallOK(q, call[q])'
<1>1. CallOK(q, call[q])
  BY CallAt
<1>2. PICK c : c = call[q]
  OBVIOUS
<1>3. /\ call'[q] = c /\ ofile'[q] = ofile[q]
      /\ (q \in alive' <=> q \in alive) /\ (q \in inop' => q \in inop)
  BY <1>2 DEF LeftAlone
<1>4. c.pc \in Making => MakesOK(c)'
  <2>1. c.pc \in Making => MakesOK(c)
    BY <1>1, <1>2 DEF CallOK
  <2>2. c.pc \in Making => \A g \in FileId : g \in {c.f, c.w} => ftable'[g] = ftable[g]
    BY <1>2 DEF LeftAlone, Makes
  <2> QED BY <2>1, <2>2 DEF MakesOK
<1>5. c.pc \in Writing =>
         /\ c.f \in FileId /\ ftable'[c.f].type = "inode" /\ ftable'[c.f].ip = c.ip
         /\ lock[c.ip] = q => ftable'[c.f].off = ftable[c.f].off
  BY <1>1, <1>2 DEF LeftAlone, CallOK
<1>6. c.pc \in {"copy", "open"} => lock'[c.ip] = q
  <2>1. c.pc \in {"copy", "open"} => c.ip \in Inum
    <3>1. c.pc = "copy" => c.ip \in Inum
      BY <1>1, <1>2, FileAt DEF CallOK, Writing, IsFile
    <3>2. c.pc = "open" => c.ip \in Inum
      BY <1>2 DEF FileInv, Live, Referring
    <3> QED BY <3>1, <3>2
  <2> QED BY <1>1, <1>2, <2>1 DEF LeftAlone, CallOK
<1>7. CallOK(q, c)
  BY <1>1, <1>2
<1>8. CallOK(q, c)'
  BY <1>3, <1>4, <1>5, <1>6, <1>7 DEF CallOK, Writing
<1> QED BY <1>3, <1>8

LEMMA IdleIs ==
    /\ IsCall(Idle) /\ Idle.pc = "idle" /\ Idle.f = 0 /\ Idle.i = 0 /\ Idle.w = 0
    /\ \A f : ~Makes(Idle, f)
BY DEF Idle, IsCall, Makes, Making

(* An inode stays live unless nobody but p refers to it.                    *)
KeepsLive(p, i) ==
    \/ inode[i].live => inode'[i].live
    \/ /\ \A f \in FileId : ~(ftable[f].type = "inode" /\ ftable[f].ip = i)
       /\ \A q \in Proc : q # p => ~(call[q].pc \in Referring /\ call[q].ip = i)

OpensLive(f) ==
    ftable'[f].type = "inode" =>
       \/ ftable[f].type = "inode" /\ ftable'[f].ip = ftable[f].ip
       \/ ftable'[f].ip \in Inum /\ inode'[ftable'[f].ip].live

LEMMA LiveKeeps ==
    ASSUME FileInv, NEW p \in Proc, NEW k, call' = [call EXCEPT ![p] = k],
           \A i \in Inum : KeepsLive(p, i), \A f \in FileId : OpensLive(f),
           k.pc \in Referring => k.ip \in Inum /\ inode'[k.ip].live
    PROVE  Live'
<1>1. call = [q \in Proc |-> call[q]]
  BY CallAt
<1>2. call'[p] = k /\ \A q \in Proc : q # p => call'[q] = call[q]
  BY <1>1
<1>3. \A q \in Proc : call'[q].pc \in Referring => call'[q].ip \in Inum /\ inode'[call'[q].ip].live
  <2> SUFFICES ASSUME NEW q \in Proc, call'[q].pc \in Referring
               PROVE  call'[q].ip \in Inum /\ inode'[call'[q].ip].live
    OBVIOUS
  <2>1. CASE q = p
    BY <1>2, <2>1
  <2>2. CASE q # p
    <3>1. call'[q] = call[q]
      BY <1>2, <2>2
    <3>2. call[q].pc \in Referring /\ call[q].ip \in Inum /\ inode[call[q].ip].live
      BY <3>1 DEF FileInv, Live
    <3> QED BY <2>2, <3>1, <3>2 DEF KeepsLive
  <2> QED BY <2>1, <2>2
<1>4. \A f \in FileId : ftable'[f].type = "inode" => inode'[ftable'[f].ip].live
  <2> SUFFICES ASSUME NEW f \in FileId, ftable'[f].type = "inode" PROVE inode'[ftable'[f].ip].live
    OBVIOUS
  <2>1. CASE ftable[f].type = "inode" /\ ftable'[f].ip = ftable[f].ip
    <3>1. ftable[f].ip \in Inum
      BY <2>1, FileAt DEF IsFile
    <3>2. inode[ftable[f].ip].live
      BY <2>1 DEF FileInv, Live
    <3> QED BY <2>1, <3>1, <3>2 DEF KeepsLive
  <2> QED BY <2>1 DEF OpensLive
<1> QED BY <1>3, <1>4 DEF Live

LEMMA Step ==
    ASSUME FileInv, NEW p \in Proc, NEW k, IsCall(k), call' = [call EXCEPT ![p] = k],
           ftable' = [f \in FileId |-> ftable'[f]], \A f \in FileId : IsFile(ftable'[f]),
           ofile' \in Descriptors, alive' \subseteq Proc, inop' \subseteq alive',
           lock' \in [Inum -> Proc \cup {0}], Disks', Counts', Live', CallOK(p, k)',
           \A q \in Proc : q # p => LeftAlone(q) \/ CallOK(q, call[q])'
    PROVE  FileInv'
<1>1. call = [q \in Proc |-> call[q]] /\ \A q \in Proc : IsCall(call[q])
  BY CallAt
<1>2. call'[p] = k /\ \A q \in Proc : q # p => call'[q] = call[q]
  BY <1>1
<1>3. call' = [q \in Proc |-> call'[q]] /\ \A q \in Proc : IsCall(call'[q])
  BY <1>1, <1>2
<1>4. Shapes'
  BY <1>3 DEF Shapes, Descriptors
<1>5. \A q \in Proc : CallOK(q, call[q])'
  <2> SUFFICES ASSUME NEW q \in Proc PROVE CallOK(q, call[q])'
    OBVIOUS
  <2>1. CASE q = p
    BY <1>2, <2>1
  <2>2. CASE q # p
    BY <2>2, OthersKeep
  <2> QED BY <2>1, <2>2
<1>6. Calls'
  BY <1>5 DEF Calls
<1> QED BY <1>4, <1>6 DEF FileInv

(* A step that leaves the file table and the descriptors alone.             *)
LEMMA CallMove ==
    ASSUME FileInv, NEW p \in Proc, NEW k, IsCall(k), call' = [call EXCEPT ![p] = k],
           ftable' = ftable, ofile' = ofile, alive' = alive,
           inop' \subseteq alive, inop' \subseteq inop \cup {p},
           lock' \in [Inum -> Proc \cup {0}],
           \A i \in Inum, q \in Proc : lock[i] = q /\ q # p => lock'[i] = q,
           \A f \in FileId : Makes(call[p], f) <=> Makes(k, f), CallOK(p, k)', Disks',
           \A i \in Inum : KeepsLive(p, i),
           k.pc \in Referring => k.ip \in Inum /\ inode'[k.ip].live
    PROVE  FileInv'
<1>1. call = [q \in Proc |-> call[q]]
  BY CallAt
<1>2. call'[p] = k /\ \A q \in Proc : q # p => call'[q] = call[q]
  BY <1>1
<1>3. Live'
  <2>1. \A f \in FileId : OpensLive(f)
    BY DEF OpensLive
  <2> QED BY <2>1, LiveKeeps
<1>4. Counts'
  <2>1. \A f \in FileId : MakingIn(call', f) = MakingIn(call, f)
    BY <1>2 DEF MakingIn, Makes
  <2>2. \A f \in FileId : HeldIn(ofile', f) = HeldIn(ofile, f)
    OBVIOUS
  <2> QED BY <2>1, <2>2 DEF FileInv, Counts
<1>5. \A q \in Proc : q # p => LeftAlone(q)
  BY <1>2 DEF LeftAlone
<1>6. /\ ftable = [f \in FileId |-> ftable[f]] /\ \A f \in FileId : IsFile(ftable[f])
      /\ ofile \in Descriptors /\ alive \subseteq Proc
  BY DEF FileInv, Shapes, Descriptors
<1>7. /\ ftable' = [f \in FileId |-> ftable'[f]] /\ \A f \in FileId : IsFile(ftable'[f])
  BY <1>6
<1> QED BY <1>3, <1>4, <1>5, <1>6, <1>7, Step

LEMMA CallStep ==
    ASSUME FileInv, NEW p \in Proc, NEW k, IsCall(k), call' = [call EXCEPT ![p] = k],
           ftable' = ftable, ofile' = ofile, alive' = alive,
           inop' \subseteq alive, inop' \subseteq inop \cup {p},
           lock' \in [Inum -> Proc \cup {0}],
           \A i \in Inum, q \in Proc : lock[i] = q /\ q # p => lock'[i] = q,
           k.pc \notin {"open", "pipe", "kalloc", "pundo"},
           call[p].pc \notin {"open", "pipe", "kalloc", "pundo"}, CallOK(p, k)', Disks',
           \A i \in Inum : KeepsLive(p, i),
           k.pc \in Referring => k.ip \in Inum /\ inode'[k.ip].live
    PROVE  FileInv'
<1>1. \A f \in FileId : ~Makes(call[p], f) /\ ~Makes(k, f)
  BY DEF Makes, Making
<1>2. \A f \in FileId : Makes(call[p], f) <=> Makes(k, f)
  BY <1>1
<1> QED BY <1>2, CallMove

(***************************************************************************)
(* Disks and inodes.                                                       *)
(***************************************************************************)
LEMMA FreeInodeIs == IsInode(FreeInode) /\ ~FreeInode.live
<1>1. FreeInode.live = FALSE /\ FreeInode.size = 0
  BY DEF FreeInode
<1>2. 0 \in 0..Top
  BY TopNat
<1> QED BY <1>1, <1>2 DEF FreeInode, IsInode

LEMMA InodesExcept ==
    ASSUME NEW s, AreInodes(s), NEW i \in Inum, NEW n, IsInode(n), NEW t,
           t = [s EXCEPT ![i] = n]
    PROVE  AreInodes(t) /\ t[i] = n /\ \A j \in Inum : j # i => t[j] = s[j]
BY DEF AreInodes

LEMMA InodeSet ==
    ASSUME FileInv, NEW i \in Inum, NEW n, IsInode(n), inode' = [inode EXCEPT ![i] = n]
    PROVE  AreInodes(inode') /\ inode'[i] = n /\ \A j \in Inum : j # i => inode'[j] = inode[j]
<1>1. AreInodes(inode)
  BY DEF FileInv, Disks
<1>2. inode = [j \in Inum |-> inode[j]] /\ \A j \in Inum : IsInode(inode[j])
  BY <1>1 DEF AreInodes
<1>3. inode'[i] = n /\ \A j \in Inum : j # i => inode'[j] = inode[j]
  BY <1>2
<1>4. inode' = [j \in Inum |-> inode'[j]]
  BY <1>2
<1>5. \A j \in Inum : IsInode(inode'[j])
  BY <1>2, <1>3
<1> QED BY <1>3, <1>4, <1>5 DEF AreInodes

LEMMA DiskMake ==
    ASSUME NEW s, AreInodes(s), NEW u, u \subseteq Block, NEW d, NEW t
    PROVE  IsDisk([din |-> s, used |-> u, data |-> d, text |-> t])
BY DEF IsDisk

LEMMA IupdateIs ==
    ASSUME NEW d, IsDisk(d), NEW i \in Inum, NEW n, IsInode(n) PROVE IsDisk(Iupdate(i, n, d))
<1>1. AreInodes(d.din) /\ d.used \subseteq Block
      /\ d = [din |-> d.din, used |-> d.used, data |-> d.data, text |-> d.text]
  BY DEF IsDisk
<1>2. PICK s : s = [d.din EXCEPT ![i] = n]
  OBVIOUS
<1>3. AreInodes(s)
  BY <1>1, <1>2, InodesExcept
<1>4. Iupdate(i, n, d) = [din |-> s, used |-> d.used, data |-> d.data, text |-> d.text]
  BY <1>1, <1>2 DEF Iupdate
<1> QED BY <1>1, <1>3, <1>4, DiskMake

LEMMA TextIs ==
    ASSUME NEW d, IsDisk(d), NEW i, NEW t PROVE IsDisk([d EXCEPT !.text[i] = t])
<1>1. AreInodes(d.din) /\ d.used \subseteq Block
      /\ d = [din |-> d.din, used |-> d.used, data |-> d.data, text |-> d.text]
  BY DEF IsDisk
<1>2. PICK u : u = [d.text EXCEPT ![i] = t]
  OBVIOUS
<1>3. [d EXCEPT !.text[i] = t] = [din |-> d.din, used |-> d.used, data |-> d.data, text |-> u]
  BY <1>1, <1>2
<1> QED BY <1>1, <1>3, DiskMake

LEMMA DiscardIs ==
    ASSUME NEW d, IsDisk(d), NEW i \in Inum, NEW n PROVE IsDisk(Discard(i, n, d))
<1>1. AreInodes(d.din) /\ d.used \subseteq Block
      /\ d = [din |-> d.din, used |-> d.used, data |-> d.data, text |-> d.text]
  BY DEF IsDisk
<1>2. PICK u : u = d.used \ Blocks(n, d)
  OBVIOUS
<1>3. u \subseteq Block
  BY <1>1, <1>2
<1>4. Itrunc(n, d) = [din |-> d.din, used |-> u, data |-> d.data, text |-> d.text]
  BY <1>1, <1>2 DEF Itrunc
<1>5. IsDisk(Itrunc(n, d))
  BY <1>1, <1>3, <1>4, DiskMake
<1> QED BY <1>5, FreeInodeIs, IupdateIs, TextIs DEF Discard

LEMMA EndOpIs ==
    ASSUME FileInv, NEW p, EndOp(p), IsDisk(disk')
    PROVE  IsDisk(installed') /\ inop' = inop \ {p}
<1>1. inop' = inop \ {p} /\ (installed' = disk' \/ installed' = installed)
  BY DEF EndOp
<1> QED BY <1>1 DEF FileInv, Disks

(* An inode without references is nobody's; with one, the one of p.         *)
RefFiles(i) == {f \in FileId : ftable[f].ref > 0 /\ ftable[f].type = "inode" /\ ftable[f].ip = i}
RefCalls(i) == {p \in Proc : call[p].pc \in {"open", "cbegin", "iput"} /\ call[p].ip = i}

LEMMA RefsFinite ==
    ASSUME NEW i
    PROVE  /\ Refs(i) = Cardinality(RefFiles(i)) + Cardinality(RefCalls(i))
           /\ IsFiniteSet(RefFiles(i)) /\ Cardinality(RefFiles(i)) \in Nat
           /\ IsFiniteSet(RefCalls(i)) /\ Cardinality(RefCalls(i)) \in Nat
<1>1. RefFiles(i) \subseteq FileId /\ RefCalls(i) \subseteq Proc
  BY DEF RefFiles, RefCalls
<1>2. IsFiniteSet(FileId)
  BY FileFacts, FS_Interval DEF FileId
<1>3. IsFiniteSet(RefFiles(i)) /\ IsFiniteSet(RefCalls(i))
  BY <1>1, <1>2, FileSets, FS_Subset
<1> QED BY <1>3, FS_CardinalityType DEF Refs, RefFiles, RefCalls

LEMMA NoRefs ==
    ASSUME FileInv, NEW p \in Proc, NEW i \in Inum,
           \/ Refs(i) = 0
           \/ Refs(i) = 1 /\ call[p].pc = "iput" /\ call[p].ip = i
    PROVE  KeepsLive(p, i)
<1>1. RefFiles(i) = {} /\ \A q \in RefCalls(i) : q = p
  <2>1. CASE Refs(i) = 0
    <3>1. Cardinality(RefFiles(i)) = 0 /\ Cardinality(RefCalls(i)) = 0
      BY <2>1, RefsFinite
    <3> QED BY <3>1, RefsFinite, FS_EmptySet
  <2>2. CASE Refs(i) = 1 /\ call[p].pc = "iput" /\ call[p].ip = i
    <3>1. p \in RefCalls(i)
      BY <2>2 DEF RefCalls
    <3>2. Cardinality(RefCalls(i)) >= 1
      BY <3>1, RefsFinite, SomeElement
    <3>3. Cardinality(RefFiles(i)) = 0 /\ Cardinality(RefCalls(i)) = 1
      BY <2>2, <3>2, RefsFinite
    <3>4. ASSUME NEW q \in RefCalls(i), q # p PROVE FALSE
      BY <3>1, <3>3, <3>4, RefsFinite, TwoElements
    <3> QED BY <3>3, <3>4, RefsFinite, FS_EmptySet
  <2> QED BY <2>1, <2>2
<1>2. \A f \in FileId : ftable[f].type = "inode" => ftable[f].ref > 0
  BY FileAt DEF IsFile
<1>3. \A f \in FileId : ~(ftable[f].type = "inode" /\ ftable[f].ip = i)
  BY <1>1, <1>2 DEF RefFiles
<1>4. \A q \in Proc : q # p => ~(call[q].pc \in Referring /\ call[q].ip = i)
  BY <1>1 DEF RefCalls, Referring
<1> QED BY <1>3, <1>4 DEF KeepsLive

(***************************************************************************)
(* Steps that leave the file table alone.                                  *)
(***************************************************************************)

(* Where a process goes, with the rest of its call as it was.               *)
LEMMA PcExcept ==
    ASSUME NEW c, IsCall(c), NEW l, NEW k, k = [c EXCEPT !.pc = l]
    PROVE  /\ IsCall(k) /\ k.pc = l /\ k.f = c.f /\ k.w = c.w /\ k.ip = c.ip /\ k.n = c.n /\ k.i = c.i
           /\ k.n1 = c.n1 /\ k.tot = c.tot /\ k.r = c.r /\ k.then = c.then
BY DEF IsCall

LEMMA Unchanged ==
    ASSUME FileInv, NEW p \in Proc, inode' = inode
    PROVE  /\ \A i \in Inum : KeepsLive(p, i)
           /\ disk' = disk /\ installed' = installed => Disks'
           /\ IsDisk(disk) /\ IsDisk(installed) /\ AreInodes(inode)
           /\ IsDisk(disk') /\ IsDisk(installed') => Disks'
BY DEF KeepsLive, FileInv, Disks

LEMMA CloseBeginKeeps == ASSUME FileInv, NEW p \in Proc, CloseBegin(p) PROVE FileInv'
<1>1. PICK k : k = [call[p] EXCEPT !.pc = "iput"]
  OBVIOUS
<1>2. /\ call[p].pc = "cbegin" /\ inop' = inop \cup {p} /\ call' = [call EXCEPT ![p] = k]
      /\ ftable' = ftable /\ ofile' = ofile /\ alive' = alive /\ inode' = inode
      /\ disk' = disk /\ installed' = installed /\ lock' = lock
  BY <1>1 DEF CloseBegin, At, Now, Goto, fileVars, dataVars
<1>3. /\ CallOK(p, call[p]) /\ IsCall(call[p]) /\ alive \subseteq Proc /\ inop \subseteq alive
      /\ lock \in [Inum -> Proc \cup {0}]
  BY CallAt
<1>4. IsCall(k) /\ k.pc = "iput" /\ k.ip = call[p].ip /\ k.then = call[p].then
  BY <1>1, <1>3, PcExcept
<1>5. p \in alive /\ k.then \in {"idle", "exit"}
  BY <1>2, <1>3, <1>4 DEF CallOK, Referring
<1>6. CallOK(p, k)'
  BY <1>2, <1>4, <1>5 DEF CallOK, Referring, Writing, Making
<1>7. k.ip \in Inum /\ inode'[k.ip].live
  BY <1>2, <1>4 DEF FileInv, Live, Referring
<1>8. Disks' /\ \A i \in Inum : KeepsLive(p, i)
  BY <1>2, Unchanged
<1>9. inop' \subseteq alive /\ inop' \subseteq inop \cup {p}
  BY <1>2, <1>3, <1>5
<1> QED BY <1>2, <1>3, <1>4, <1>6, <1>7, <1>8, <1>9, CallStep

LEMMA IputKeeps == ASSUME FileInv, NEW p \in Proc, Iput(p) PROVE FileInv'
<1>1. PICK k, i : k = [call[p] EXCEPT !.pc = "cend"] /\ i = call[p].ip
  OBVIOUS
<1>2. /\ call[p].pc = "iput" /\ inop' = inop /\ call' = [call EXCEPT ![p] = k]
      /\ ftable' = ftable /\ ofile' = ofile /\ alive' = alive
      /\ installed' = installed /\ lock' = lock
      /\ \/ /\ LastLink(i, Refs(i)) /\ inode' = [inode EXCEPT ![i] = FreeInode]
            /\ disk' = Discard(i, inode[i], disk)
         \/ inode' = inode /\ disk' = disk
  BY <1>1 DEF Iput, At, Now, Goto, fileVars, dataVars
<1>3. /\ CallOK(p, call[p]) /\ IsCall(call[p]) /\ alive \subseteq Proc /\ inop \subseteq alive
      /\ lock \in [Inum -> Proc \cup {0}]
  BY CallAt
<1>4. IsCall(k) /\ k.pc = "cend" /\ k.then = call[p].then
  BY <1>1, <1>3, PcExcept
<1>5. p \in alive /\ k.then \in {"idle", "exit"}
  BY <1>2, <1>3, <1>4 DEF CallOK, Referring
<1>6. CallOK(p, k)'
  BY <1>2, <1>4, <1>5 DEF CallOK, Referring, Writing, Making
<1>7. i \in Inum
  BY <1>1, <1>2 DEF FileInv, Live, Referring
<1>8. Disks' /\ \A j \in Inum : KeepsLive(p, j)
  <2>1. CASE inode' = inode /\ disk' = disk
    BY <1>2, <2>1, Unchanged
  <2>2. CASE /\ LastLink(i, Refs(i)) /\ inode' = [inode EXCEPT ![i] = FreeInode]
             /\ disk' = Discard(i, inode[i], disk)
    <3>1. AreInodes(inode) /\ IsDisk(disk) /\ IsDisk(installed)
      BY DEF FileInv, Disks
    <3>2. AreInodes(inode') /\ \A j \in Inum : j # i => inode'[j] = inode[j]
      <4>1. PICK n : n = FreeInode
        OBVIOUS
      <4>2. IsInode(n) /\ inode' = [inode EXCEPT ![i] = n]
        BY <2>2, <4>1, FreeInodeIs
      <4> QED BY <1>7, <4>2, InodeSet
    <3>3. IsDisk(disk')
      BY <1>7, <2>2, <3>1, DiscardIs
    <3>4. Disks'
      BY <1>2, <3>1, <3>2, <3>3 DEF Disks
    <3>5. KeepsLive(p, i)
      BY <1>1, <1>2, <1>7, <2>2, NoRefs DEF LastLink
    <3> QED BY <3>2, <3>4, <3>5 DEF KeepsLive
  <2> QED BY <1>2, <2>1, <2>2
<1>9. inop' \subseteq alive /\ inop' \subseteq inop \cup {p} /\ k.pc \notin Referring
  BY <1>2, <1>3, <1>4 DEF Referring
<1> QED BY <1>2, <1>3, <1>4, <1>6, <1>8, <1>9, CallStep

LEMMA CloseEndKeeps == ASSUME FileInv, NEW p \in Proc, CloseEnd(p) PROVE FileInv'
<1>1. PICK k : k = [Idle EXCEPT !.pc = call[p].then]
  OBVIOUS
<1>2. /\ call[p].pc = "cend" /\ EndOp(p) /\ call' = [call EXCEPT ![p] = k]
      /\ ftable' = ftable /\ ofile' = ofile /\ alive' = alive /\ inode' = inode
      /\ disk' = disk /\ lock' = lock
  BY <1>1 DEF CloseEnd, At, Goto, fileVars, dataVars
<1>3. /\ CallOK(p, call[p]) /\ IsCall(call[p]) /\ alive \subseteq Proc /\ inop \subseteq alive
      /\ lock \in [Inum -> Proc \cup {0}]
  BY CallAt
<1>4. IsCall(k) /\ k.pc = call[p].then
  BY <1>1, IdleIs, PcExcept
<1>5. p \in alive /\ k.pc \in {"idle", "exit"}
  BY <1>2, <1>3, <1>4 DEF CallOK, Referring
<1>6. inop' = inop \ {p} /\ IsDisk(disk') /\ IsDisk(installed')
  BY <1>2, EndOpIs, Unchanged
<1>7. CallOK(p, k)'
  BY <1>2, <1>4, <1>5, <1>6 DEF CallOK, Referring, Writing, Making
<1>8. Disks' /\ \A i \in Inum : KeepsLive(p, i)
  BY <1>2, <1>6, Unchanged
<1>9. inop' \subseteq alive /\ inop' \subseteq inop \cup {p} /\ k.pc \notin Referring
  BY <1>3, <1>5, <1>6 DEF Referring
<1>10. /\ k.pc \notin {"open", "pipe", "kalloc", "pundo"}
      /\ call[p].pc \notin {"open", "pipe", "kalloc", "pundo"}
  BY <1>2, <1>5
<1> QED BY <1>2, <1>3, <1>4, <1>7, <1>8, <1>9, <1>10, CallStep

LEMMA SysExitKeeps == ASSUME FileInv, NEW p \in Proc, SysExit(p) PROVE FileInv'
<1>1. PICK k : k = [call[p] EXCEPT !.pc = "exit"]
  OBVIOUS
<1>2. /\ call[p].pc = "idle" /\ p \in alive /\ inop' = inop /\ call' = [call EXCEPT ![p] = k]
      /\ ftable' = ftable /\ ofile' = ofile /\ alive' = alive /\ inode' = inode
      /\ disk' = disk /\ installed' = installed /\ lock' = lock
  BY <1>1 DEF SysExit, Start, Now, Goto, fileVars, dataVars, logVars
<1>3. /\ CallOK(p, call[p]) /\ IsCall(call[p]) /\ alive \subseteq Proc /\ inop \subseteq alive
      /\ lock \in [Inum -> Proc \cup {0}]
  BY CallAt
<1>4. IsCall(k) /\ k.pc = "exit"
  BY <1>1, <1>3, PcExcept
<1>5. p \notin inop
  BY <1>2, <1>3 DEF CallOK
<1>6. CallOK(p, k)'
  BY <1>2, <1>4, <1>5 DEF CallOK, Referring, Writing, Making
<1>7. Disks' /\ \A i \in Inum : KeepsLive(p, i)
  BY <1>2, Unchanged
<1>8. inop' \subseteq alive /\ inop' \subseteq inop \cup {p} /\ k.pc \notin Referring
  BY <1>2, <1>3, <1>4 DEF Referring
<1> QED BY <1>2, <1>3, <1>4, <1>6, <1>7, <1>8, CallStep
(* What bmap() changes of an inode and of a disk: only addresses, used      *)
(* blocks and their contents.                                               *)
IsLookup(x, n) ==
    /\ x = [ino |-> x.ino, d |-> x.d, log |-> x.log, addr |-> x.addr, full |-> x.full]
    /\ IsInode(x.ino) /\ x.ino.live = n.live /\ x.ino.size = n.size /\ IsDisk(x.d)

LEMMA LookupMake ==
    ASSUME NEW n, NEW i, IsInode(i), i.live = n.live, i.size = n.size, NEW d, IsDisk(d),
           NEW l, NEW a, NEW u
    PROVE  IsLookup([ino |-> i, d |-> d, log |-> l, addr |-> a, full |-> u], n)
BY DEF IsLookup

LEMMA InodeMake ==
    ASSUME NEW n, IsInode(n), NEW a, NEW s, s \in 0..Top
    PROVE  IsInode([live |-> n.live, nlink |-> n.nlink, size |-> s, addrs |-> a])
BY DEF IsInode

LEMMA BallocKeeps ==
    ASSUME NEW n, NEW x, IsLookup(x, n), NEW y, y = Balloc(x) PROVE IsLookup(y, n)
<1>1. /\ x = [ino |-> x.ino, d |-> x.d, log |-> x.log, addr |-> x.addr, full |-> x.full]
      /\ IsInode(x.ino) /\ x.ino.live = n.live /\ x.ino.size = n.size /\ IsDisk(x.d)
  BY DEF IsLookup
<1>2. PICK b : b = Min(Block \ x.d.used)
  OBVIOUS
<1>3. CASE Block \ x.d.used = {}
  <2>1. y = [x EXCEPT !.full = TRUE]
    BY <1>3 DEF Balloc
  <2>2. y = [ino |-> x.ino, d |-> x.d, log |-> x.log, addr |-> x.addr, full |-> TRUE]
    BY <1>1, <2>1
  <2> QED BY <1>1, <2>2, LookupMake
<1>4. CASE Block \ x.d.used # {}
  <2>1. b \in Block
    <3>1. Block \subseteq Nat
      BY FileFacts DEF Block
    <3>2. Block \ x.d.used \subseteq Nat
      BY <3>1
    <3> QED BY <1>2, <1>4, <3>2, LeastOf
  <2>2. y = [x EXCEPT !.addr = b, !.d.used = @ \cup {b}, !.d.data[b] = Zeroed,
                      !.log = @ \cup {BBLOCK(b), DataBlock(b)}]
    BY <1>2, <1>4 DEF Balloc
  <2>3. PICK u, l, t : /\ u = x.d.used \cup {b} /\ l = x.log \cup {BBLOCK(b), DataBlock(b)}
                       /\ t = [x.d.data EXCEPT ![b] = Zeroed]
    OBVIOUS
  <2>4. /\ AreInodes(x.d.din) /\ x.d.used \subseteq Block
        /\ x.d = [din |-> x.d.din, used |-> x.d.used, data |-> x.d.data, text |-> x.d.text]
    BY <1>1 DEF IsDisk
  <2>5. PICK d : d = [din |-> x.d.din, used |-> u, data |-> t, text |-> x.d.text]
    OBVIOUS
  <2>6. y = [ino |-> x.ino, d |-> d, log |-> l, addr |-> b, full |-> x.full]
    <3>1. PICK x1 : x1 = [x EXCEPT !.addr = b]
      OBVIOUS
    <3>2. x1 = [ino |-> x.ino, d |-> x.d, log |-> x.log, addr |-> b, full |-> x.full]
      BY <1>1, <3>1
    <3>3. PICK x2 : x2 = [x1 EXCEPT !.d.used = @ \cup {b}]
      OBVIOUS
    <3>4. PICK e : e = [din |-> x.d.din, used |-> u, data |-> x.d.data, text |-> x.d.text]
      OBVIOUS
    <3>5. x2 = [ino |-> x.ino, d |-> e, log |-> x.log, addr |-> b, full |-> x.full]
      BY <2>3, <2>4, <3>2, <3>3, <3>4
    <3>6. PICK x3 : x3 = [x2 EXCEPT !.d.data[b] = Zeroed]
      OBVIOUS
    <3>7. x3 = [ino |-> x.ino, d |-> d, log |-> x.log, addr |-> b, full |-> x.full]
      BY <2>3, <2>5, <3>4, <3>5, <3>6
    <3>8. y = [x3 EXCEPT !.log = @ \cup {BBLOCK(b), DataBlock(b)}]
      BY <2>2, <3>1, <3>3, <3>6
    <3> QED BY <2>3, <3>7, <3>8
  <2>7. IsDisk(d)
    <3>1. u \subseteq Block
      BY <2>1, <2>3, <2>4
    <3> QED BY <2>4, <2>5, <3>1, DiskMake
  <2> QED BY <1>1, <2>6, <2>7, LookupMake
<1> QED BY <1>3, <1>4

LEMMA AddrOfKeeps ==
    ASSUME NEW n, NEW x, IsLookup(x, n), NEW k, NEW z, z = AddrOf(x, k) PROVE IsLookup(z, n)
<1>1. CASE x.ino.addrs[k] # 0
  <2>1. z = [x EXCEPT !.addr = x.ino.addrs[k]]
    BY <1>1 DEF AddrOf
  <2>2. z = [ino |-> x.ino, d |-> x.d, log |-> x.log, addr |-> x.ino.addrs[k], full |-> x.full]
    BY <2>1 DEF IsLookup
  <2> QED BY <2>2, LookupMake DEF IsLookup
<1>2. CASE x.ino.addrs[k] = 0
  <2>1. PICK y : y = Balloc(x)
    OBVIOUS
  <2>2. IsLookup(y, n)
    BY <2>1, BallocKeeps
  <2>3. CASE y.full
    BY <1>2, <2>1, <2>2, <2>3 DEF AddrOf
  <2>4. CASE ~y.full
    <3>1. z = [y EXCEPT !.ino.addrs[k] = y.addr]
      BY <1>2, <2>1, <2>4 DEF AddrOf
    <3>2. /\ y = [ino |-> y.ino, d |-> y.d, log |-> y.log, addr |-> y.addr, full |-> y.full]
          /\ IsInode(y.ino) /\ y.ino.live = n.live /\ y.ino.size = n.size /\ IsDisk(y.d)
          /\ y.ino = [live |-> y.ino.live, nlink |-> y.ino.nlink, size |-> y.ino.size,
                      addrs |-> y.ino.addrs]
          /\ y.ino.size \in 0..Top
      BY <2>2 DEF IsLookup, IsInode
    <3>3. PICK a : a = [y.ino.addrs EXCEPT ![k] = y.addr]
      OBVIOUS
    <3>4. PICK i : i = [live |-> y.ino.live, nlink |-> y.ino.nlink, size |-> y.ino.size,
                        addrs |-> a]
      OBVIOUS
    <3>5. z = [ino |-> i, d |-> y.d, log |-> y.log, addr |-> y.addr, full |-> y.full]
      BY <3>1, <3>2, <3>3, <3>4
    <3>6. IsInode(i) /\ i.live = n.live /\ i.size = n.size
      BY <3>2, <3>4, InodeMake
    <3> QED BY <3>2, <3>5, <3>6, LookupMake
  <2> QED BY <2>3, <2>4
<1> QED BY <1>1, <1>2

LEMMA BmapKeeps ==
    ASSUME NEW n, NEW x, IsLookup(x, n), NEW bn, NEW z, z = Bmap(x, bn) PROVE IsLookup(z, n)
<1>1. CASE bn < NDIRECT
  BY <1>1, AddrOfKeeps DEF Bmap
<1>2. CASE ~(bn < NDIRECT)
  <2>1. PICK t, k : t = AddrOf(x, NDIRECT) /\ k = bn - NDIRECT
    OBVIOUS
  <2>2. IsLookup(t, n)
    BY <2>1, AddrOfKeeps
  <2>3. CASE t.full
    BY <1>2, <2>1, <2>2, <2>3 DEF Bmap
  <2>4. CASE ~t.full /\ t.d.data[t.addr][k] # 0
    <3>1. z = [t EXCEPT !.addr = t.d.data[t.addr][k]]
      BY <1>2, <2>1, <2>4 DEF Bmap
    <3>2. z = [ino |-> t.ino, d |-> t.d, log |-> t.log, addr |-> t.d.data[t.addr][k],
               full |-> t.full]
      BY <2>2, <3>1 DEF IsLookup
    <3> QED BY <2>2, <3>2, LookupMake DEF IsLookup
  <2>5. CASE ~t.full /\ t.d.data[t.addr][k] = 0
    <3>1. PICK y : y = Balloc(t)
      OBVIOUS
    <3>2. IsLookup(y, n)
      BY <2>2, <3>1, BallocKeeps
    <3>3. CASE y.full
      BY <1>2, <2>1, <2>5, <3>1, <3>2, <3>3 DEF Bmap
    <3>4. CASE ~y.full
      <4>1. z = [y EXCEPT !.d.data[t.addr][k] = y.addr, !.log = @ \cup {DataBlock(t.addr)}]
        BY <1>2, <2>1, <2>5, <3>1, <3>4 DEF Bmap
      <4>2. /\ y = [ino |-> y.ino, d |-> y.d, log |-> y.log, addr |-> y.addr, full |-> y.full]
            /\ IsInode(y.ino) /\ y.ino.live = n.live /\ y.ino.size = n.size
            /\ AreInodes(y.d.din) /\ y.d.used \subseteq Block
            /\ y.d = [din |-> y.d.din, used |-> y.d.used, data |-> y.d.data, text |-> y.d.text]
        BY <3>2 DEF IsLookup, IsDisk
      <4>3. PICK l, e : /\ l = y.log \cup {DataBlock(t.addr)}
                        /\ e = [y.d.data EXCEPT ![t.addr][k] = y.addr]
        OBVIOUS
      <4>4. PICK d : d = [din |-> y.d.din, used |-> y.d.used, data |-> e, text |-> y.d.text]
        OBVIOUS
      <4>5. z = [ino |-> y.ino, d |-> d, log |-> l, addr |-> y.addr, full |-> y.full]
        <5>1. PICK a, b : a = y.addr /\ b = t.addr
          OBVIOUS
        <5>2. PICK v : v = y.d
          OBVIOUS
        <5>3. z = [[y EXCEPT !.d.data[b][k] = a] EXCEPT !.log = @ \cup {DataBlock(b)}]
          BY <4>1, <5>1
        <5>4. y = [ino |-> y.ino, d |-> v, log |-> y.log, addr |-> y.addr, full |-> y.full]
          BY <4>2, <5>2
        <5>5. v = [din |-> v.din, used |-> v.used, data |-> v.data, text |-> v.text]
          BY <4>2, <5>2
        <5>6. [v EXCEPT !.data[b][k] = a] = d
          BY <4>3, <4>4, <5>1, <5>2, <5>5
        <5>7. [y EXCEPT !.d.data[b][k] = a] = [y EXCEPT !.d = d]
          BY <5>2, <5>6
        <5>8. [y EXCEPT !.d = d] = [ino |-> y.ino, d |-> d, log |-> y.log, addr |-> y.addr, full |-> y.full]
          BY <5>4
        <5> QED BY <4>3, <5>1, <5>3, <5>7, <5>8
      <4>6. IsDisk(d)
        BY <4>2, <4>4, DiskMake
      <4> QED BY <4>2, <4>5, <4>6, LookupMake
    <3> QED BY <3>3, <3>4
  <2> QED BY <2>3, <2>4, <2>5
<1> QED BY <1>1, <1>2

(***************************************************************************)
(* filewrite()                                                             *)
(***************************************************************************)
LEMMA FilewriteKeeps ==
    ASSUME FileInv, NEW p \in Proc, NEW fd \in Fd, NEW n \in WriteSizes, Filewrite(p, fd, n)
    PROVE  FileInv'
<1>1. PICK f, ip : f = ofile[p][fd] /\ ip = ftable[f].ip
  OBVIOUS
<1>2. PICK k : k = [Idle EXCEPT !.pc = "wbegin", !.f = f, !.ip = ip, !.n = n]
  OBVIOUS
<1>3. /\ call[p].pc = "idle" /\ p \in alive /\ f # 0 /\ ftable[f].type = "inode"
      /\ inop' = inop /\ call' = [call EXCEPT ![p] = k]
      /\ ftable' = ftable /\ ofile' = ofile /\ alive' = alive /\ inode' = inode
      /\ disk' = disk /\ installed' = installed /\ lock' = lock
  BY <1>1, <1>2 DEF Filewrite, Start, Goto, fileVars, dataVars, logVars
<1>4. /\ CallOK(p, call[p]) /\ alive \subseteq Proc /\ inop \subseteq alive
      /\ lock \in [Inum -> Proc \cup {0}] /\ ofile[p] \in [Fd -> FileId \cup {0}]
  BY CallAt
<1>5. IsCall(k) /\ k.pc = "wbegin" /\ k.f = f /\ k.ip = ip /\ k.n = n /\ k.i = 0
  BY <1>2 DEF Idle, IsCall
<1>6. p \notin inop
  BY <1>3, <1>4 DEF CallOK
<1>7. f \in FileId /\ (\E e \in Fd : ofile[p][e] = f)
  BY <1>1, <1>3, <1>4
<1>8. n \in Nat /\ 0 \in 0..n
  BY FileAssumption
<1>9. CallOK(p, k)'
  BY <1>1, <1>3, <1>5, <1>6, <1>7, <1>8 DEF CallOK, Referring, Writing, Making
<1>10. Disks' /\ \A i \in Inum : KeepsLive(p, i)
  BY <1>3, Unchanged
<1>11. inop' \subseteq alive /\ inop' \subseteq inop \cup {p} /\ k.pc \notin Referring
  BY <1>3, <1>4, <1>5 DEF Referring
<1> QED BY <1>3, <1>4, <1>5, <1>9, <1>10, <1>11, CallStep

LEMMA WriteBeginKeeps == ASSUME FileInv, NEW p \in Proc, WriteBegin(p) PROVE FileInv'
<1>1. PICK c, m : c = call[p] /\ m = Min({c.n - c.i, MaxChunk})
  OBVIOUS
<1>2. PICK k : k = [c EXCEPT !.pc = "ilock", !.tot = 0, !.n1 = m]
  OBVIOUS
<1>3. /\ c.pc = "wbegin" /\ inop' = inop \cup {p} /\ call' = [call EXCEPT ![p] = k]
      /\ ftable' = ftable /\ ofile' = ofile /\ alive' = alive /\ inode' = inode
      /\ disk' = disk /\ installed' = installed /\ lock' = lock
  BY <1>1, <1>2 DEF WriteBegin, At, Goto, fileVars, dataVars
<1>4. /\ CallOK(p, c) /\ IsCall(c) /\ alive \subseteq Proc /\ inop \subseteq alive
      /\ lock \in [Inum -> Proc \cup {0}]
  BY <1>1, CallAt
<1>5. /\ IsCall(k) /\ k.pc = "ilock" /\ k.f = c.f /\ k.ip = c.ip /\ k.n = c.n /\ k.i = c.i
      /\ k.n1 = m
  BY <1>2, <1>4 DEF IsCall
<1>6. /\ p \in alive /\ c.f \in FileId /\ (\E fd \in Fd : ofile[p][fd] = c.f)
      /\ ftable[c.f].type = "inode" /\ ftable[c.f].ip = c.ip /\ c.n \in Nat /\ c.i \in 0..c.n
  BY <1>3, <1>4 DEF CallOK, Writing
<1>7. m \in 0..(c.n - c.i)
  <2>1. PICK a : a = c.n - c.i
    OBVIOUS
  <2>2. a \in Nat
    BY <1>6, <2>1
  <2>3. {a, MaxChunk} \subseteq Nat /\ {a, MaxChunk} # {}
    BY <2>2, ChunkNat
  <2>4. m \in {a, MaxChunk} /\ m <= a
    BY <1>1, <2>1, <2>3, LeastOf
  <2> QED BY <2>1, <2>2, <2>3, <2>4
<1>8. CallOK(p, k)'
  BY <1>3, <1>5, <1>6, <1>7 DEF CallOK, Referring, Writing, Making
<1>9. Disks' /\ \A i \in Inum : KeepsLive(p, i)
  BY <1>3, Unchanged
<1>10. inop' \subseteq alive /\ inop' \subseteq inop \cup {p} /\ k.pc \notin Referring
  BY <1>3, <1>4, <1>5, <1>6 DEF Referring
<1> QED BY <1>1, <1>3, <1>4, <1>5, <1>8, <1>9, <1>10, CallStep

LEMMA WriteLockKeeps == ASSUME FileInv, NEW p \in Proc, WriteLock(p) PROVE FileInv'
<1>1. PICK c : c = call[p]
  OBVIOUS
<1>2. /\ c.pc = "ilock" /\ lock[c.ip] = 0 /\ inop' = inop
      /\ ftable' = ftable /\ ofile' = ofile /\ alive' = alive /\ inode' = inode
      /\ disk' = disk /\ installed' = installed
      /\ \/ /\ WriteFits(inode[c.ip], ftable[c.f].off, c.n1)
            /\ lock' = [lock EXCEPT ![c.ip] = p]
            /\ call' = [call EXCEPT ![p] = [c EXCEPT !.pc = "copy"]]
         \/ /\ call' = [call EXCEPT ![p] = [c EXCEPT !.pc = "wend", !.r = -1]]
            /\ lock' = lock
  BY <1>1 DEF WriteLock, At, Now, Goto, Locked, fileVars, dataVars, logVars
<1>3. /\ CallOK(p, c) /\ IsCall(c) /\ alive \subseteq Proc /\ inop \subseteq alive
      /\ lock \in [Inum -> Proc \cup {0}]
  BY <1>1, CallAt
<1>4. /\ p \in alive /\ c.f \in FileId /\ (\E fd \in Fd : ofile[p][fd] = c.f)
      /\ ftable[c.f].type = "inode" /\ ftable[c.f].ip = c.ip /\ c.n \in Nat /\ c.i \in 0..c.n
      /\ c.n1 \in 0..(c.n - c.i)
  BY <1>2, <1>3 DEF CallOK, Writing
<1>5. c.ip \in Inum
  BY <1>4, FileAt DEF IsFile
<1>6. Disks' /\ \A i \in Inum : KeepsLive(p, i)
  BY <1>2, Unchanged
<1>7. inop' \subseteq alive /\ inop' \subseteq inop \cup {p}
  BY <1>2, <1>3
<1>8. CASE /\ WriteFits(inode[c.ip], ftable[c.f].off, c.n1)
           /\ lock' = [lock EXCEPT ![c.ip] = p]
           /\ call' = [call EXCEPT ![p] = [c EXCEPT !.pc = "copy"]]
  <2>1. PICK k : k = [c EXCEPT !.pc = "copy"]
    OBVIOUS
  <2>2. /\ IsCall(k) /\ k.pc = "copy" /\ k.f = c.f /\ k.ip = c.ip /\ k.n = c.n /\ k.i = c.i
        /\ k.n1 = c.n1
    BY <1>3, <2>1, PcExcept
  <2>3. ftable[c.f].off + c.n1 <= Top
    BY <1>8 DEF WriteFits, Top
  <2>4. /\ lock'[c.ip] = p /\ lock' \in [Inum -> Proc \cup {0}]
        /\ \A i \in Inum, q \in Proc : lock[i] = q /\ q # p => lock'[i] = q
    BY <1>2, <1>3, <1>5, <1>8, FileSets
  <2>5. CallOK(p, k)'
    BY <1>2, <1>4, <2>2, <2>3, <2>4 DEF CallOK, Referring, Writing, Making
  <2>6. k.pc \notin Referring /\ call' = [call EXCEPT ![p] = k]
    BY <1>8, <2>1, <2>2 DEF Referring
  <2> QED BY <1>1, <1>2, <1>6, <1>7, <2>2, <2>4, <2>5, <2>6, CallStep
<1>9. CASE /\ call' = [call EXCEPT ![p] = [c EXCEPT !.pc = "wend", !.r = -1]]
           /\ lock' = lock
  <2>1. PICK k : k = [c EXCEPT !.pc = "wend", !.r = -1]
    OBVIOUS
  <2>2. /\ IsCall(k) /\ k.pc = "wend" /\ k.f = c.f /\ k.ip = c.ip /\ k.n = c.n /\ k.i = c.i
        /\ k.r = -1
    BY <1>3, <2>1 DEF IsCall
  <2>3. CallOK(p, k)'
    BY <1>2, <1>4, <2>2 DEF CallOK, Referring, Writing, Making
  <2>4. k.pc \notin Referring /\ call' = [call EXCEPT ![p] = k]
    BY <1>9, <2>1, <2>2 DEF Referring
  <2> QED BY <1>1, <1>2, <1>3, <1>6, <1>7, <1>9, <2>2, <2>3, <2>4, CallStep
<1> QED BY <1>2, <1>8, <1>9

LEMMA WriteEndKeeps == ASSUME FileInv, NEW p \in Proc, WriteEnd(p) PROVE FileInv'
<1>1. PICK c, j : c = call[p] /\ j = c.i + c.r
  OBVIOUS
<1>2. PICK k : k = IF c.r < 0 \/ j = c.n THEN Idle ELSE [c EXCEPT !.pc = "wbegin", !.i = j]
  OBVIOUS
<1>3. /\ c.pc = "wend" /\ EndOp(p) /\ call' = [call EXCEPT ![p] = k]
      /\ ftable' = ftable /\ ofile' = ofile /\ alive' = alive /\ inode' = inode
      /\ disk' = disk /\ lock' = lock
  BY <1>1, <1>2 DEF WriteEnd, At, Goto, fileVars, dataVars
<1>4. /\ CallOK(p, c) /\ IsCall(c) /\ alive \subseteq Proc /\ inop \subseteq alive
      /\ lock \in [Inum -> Proc \cup {0}]
  BY <1>1, CallAt
<1>5. /\ p \in alive /\ c.f \in FileId /\ (\E fd \in Fd : ofile[p][fd] = c.f)
      /\ ftable[c.f].type = "inode" /\ ftable[c.f].ip = c.ip /\ c.n \in Nat /\ c.i \in 0..c.n
      /\ c.r = -1 \/ c.r \in 0..(c.n - c.i)
  BY <1>3, <1>4 DEF CallOK, Writing
<1>6. inop' = inop \ {p} /\ IsDisk(disk') /\ IsDisk(installed')
  BY <1>3, EndOpIs, Unchanged
<1>7. /\ IsCall(k) /\ k.pc \in {"idle", "wbegin"}
      /\ k.pc = "wbegin" => k.f = c.f /\ k.ip = c.ip /\ k.n = c.n /\ k.i = j /\ ~(c.r < 0)
  <2>1. CASE c.r < 0 \/ j = c.n
    BY <1>2, <2>1, IdleIs
  <2>2. CASE ~(c.r < 0 \/ j = c.n)
    <3>1. k = [c EXCEPT !.pc = "wbegin", !.i = j]
      BY <1>2, <2>2
    <3> QED BY <1>4, <2>2, <3>1 DEF IsCall
  <2> QED BY <2>1, <2>2
<1>8. k.pc = "wbegin" => j \in 0..c.n
  BY <1>1, <1>5, <1>7
<1>9. CallOK(p, k)'
  BY <1>3, <1>5, <1>6, <1>7, <1>8 DEF CallOK, Referring, Writing, Making
<1>10. Disks' /\ \A i \in Inum : KeepsLive(p, i)
  BY <1>3, <1>6, Unchanged
<1>11. inop' \subseteq alive /\ inop' \subseteq inop \cup {p} /\ k.pc \notin Referring
  BY <1>4, <1>6, <1>7 DEF Referring
<1>12. /\ k.pc \notin {"open", "pipe", "kalloc", "pundo"}
      /\ call[p].pc \notin {"open", "pipe", "kalloc", "pundo"}
  BY <1>1, <1>3, <1>7
<1> QED BY <1>1, <1>3, <1>4, <1>7, <1>9, <1>10, <1>11, <1>12, CallStep

(***************************************************************************)
(* Starting and restarting.                                                *)
(***************************************************************************)
LEMMA NoFileIs == IsFile(NoFile) /\ NoFile.ref = 0 /\ NoFile.type = "none"
<1>1. NoFile.ref = 0 /\ NoFile.type = "none" /\ NoFile.off = 0
  BY DEF NoFile
<1>2. 0 \in 0..Top
  BY TopNat
<1> QED BY <1>1, <1>2 DEF NoFile, IsFile

Fresh(ft, of, al, lk, io, cl) ==
    /\ ft = [f \in FileId |-> NoFile] /\ of = [p \in Proc |-> [fd \in Fd |-> 0]]
    /\ al = {1} /\ lk = [i \in Inum |-> 0] /\ io = {} /\ cl = [p \in Proc |-> Idle]

LEMMA FreshInv == Fresh(ftable, ofile, alive, lock, inop, call) /\ Disks => FileInv
<1> SUFFICES ASSUME Fresh(ftable, ofile, alive, lock, inop, call), Disks PROVE FileInv
  OBVIOUS
<1>1. /\ ftable = [f \in FileId |-> NoFile] /\ ofile = [p \in Proc |-> [fd \in Fd |-> 0]]
      /\ alive = {1} /\ lock = [i \in Inum |-> 0] /\ inop = {} /\ call = [p \in Proc |-> Idle]
  BY DEF Fresh
<1>2. Shapes
  BY <1>1, NoFileIs, IdleIs, FileSets DEF Shapes
<1>3. Counts
  <2> SUFFICES ASSUME NEW f \in FileId
               PROVE  ftable[f].ref = Cardinality(HeldIn(ofile, f)) + Cardinality(MakingIn(call, f))
    BY DEF Counts
  <2>1. HeldIn(ofile, f) = {}
    BY <1>1, FileSets DEF HeldIn
  <2>2. MakingIn(call, f) = {}
    BY <1>1, IdleIs DEF MakingIn, Making
  <2>3. ftable[f].ref = 0
    BY <1>1, NoFileIs
  <2> QED BY <2>1, <2>2, <2>3, FS_EmptySet
<1>4. Live
  BY <1>1, NoFileIs, IdleIs DEF Live, Referring
<1>5. Calls
  <2> SUFFICES ASSUME NEW p \in Proc PROVE CallOK(p, call[p])
    BY DEF Calls
  <2>1. call[p].pc = "idle" /\ \A fd \in Fd : ofile[p][fd] = 0
    BY <1>1, IdleIs
  <2> QED BY <1>1, <2>1 DEF CallOK, Referring, Writing, Making
<1> QED BY <1>2, <1>3, <1>4, <1>5 DEF FileInv

LEMMA FreshNext == Fresh(ftable, ofile, alive, lock, inop, call)' /\ Disks' => FileInv'
BY FreshInv, PTL

LEMMA EmptyDiskIs == IsDisk(EmptyDisk) /\ AreInodes(EmptyDisk.din)
<1>1. PICK s : s = [i \in Inum |-> FreeInode]
  OBVIOUS
<1>2. AreInodes(s)
  <2>1. PICK n : n = FreeInode
    OBVIOUS
  <2>2. IsInode(n) /\ s = [i \in Inum |-> n]
    BY <1>1, <2>1, FreeInodeIs
  <2> QED BY <2>2 DEF AreInodes
<1>3. PICK d, t : d = [b \in Block |-> Zeroed] /\ t = [i \in Inum |-> <<>>]
  OBVIOUS
<1>4. EmptyDisk = [din |-> s, used |-> {}, data |-> d, text |-> t]
  BY <1>1, <1>3 DEF EmptyDisk
<1>5. {} \subseteq Block
  OBVIOUS
<1>6. IsDisk(EmptyDisk)
  BY <1>2, <1>4, <1>5, DiskMake
<1> QED BY <1>6 DEF IsDisk

LEMMA FileInvInit == Init => FileInv
<1> SUFFICES ASSUME Init PROVE FileInv
  OBVIOUS
<1>1. Fresh(ftable, ofile, alive, lock, inop, call)
  BY DEF Init, Fresh
<1>2. Disks
  BY EmptyDiskIs DEF Init, Disks
<1> QED BY <1>1, <1>2, FreshInv

LEMMA RestartKeeps == ASSUME FileInv, Restart PROVE FileInv'
<1>1. Fresh(ftable, ofile, alive, lock, inop, call)'
  BY DEF Restart, Fresh
<1>2. Disks'
  <2>1. IsDisk(installed) /\ AreInodes(installed.din)
    BY DEF FileInv, Disks, IsDisk
  <2>2. disk' = installed /\ inode' = installed.din /\ installed' = installed
    BY DEF Restart
  <2> QED BY <2>1, <2>2 DEF Disks
<1> QED BY <1>1, <1>2, FreshNext

LEMMA WriteBlockKeeps == ASSUME FileInv, NEW p \in Proc, WriteBlock(p) PROVE FileInv'
<1>1. PICK c, off : c = call[p] /\ off = ftable[c.f].off + c.tot
  OBVIOUS
<1>2. PICK at, m, x : /\ at = off % BSIZE /\ m = Min({c.n1 - c.tot, BSIZE - at})
                      /\ x = Bmap(Lookup(inode[c.ip], disk), off \div BSIZE)
  OBVIOUS
<1>3. PICK k : k = [c EXCEPT !.tot = @ + m]
  OBVIOUS
<1>4. /\ c.pc = "copy"
      /\ \/ Restart
         \/ /\ inode' = [inode EXCEPT ![c.ip] = x.ino]
            /\ disk' = [x.d EXCEPT !.data[x.addr] = Copied(@, at, p, c.i + c.tot, m)]
            /\ call' = [call EXCEPT ![p] = k]
            /\ ftable' = ftable /\ ofile' = ofile /\ alive' = alive /\ installed' = installed
            /\ inop' = inop /\ lock' = lock
  BY <1>1, <1>2, <1>3 DEF WriteBlock, At, Goto, fileVars
<1>5. /\ CallOK(p, c) /\ IsCall(c) /\ alive \subseteq Proc /\ inop \subseteq alive
      /\ lock \in [Inum -> Proc \cup {0}]
  BY <1>1, CallAt
<1>6. c.f \in FileId /\ ftable[c.f].type = "inode" /\ ftable[c.f].ip = c.ip
  BY <1>4, <1>5 DEF CallOK, Writing
<1>7. c.ip \in Inum
  BY <1>6, FileAt DEF IsFile
<1>8. CASE /\ inode' = [inode EXCEPT ![c.ip] = x.ino]
           /\ disk' = [x.d EXCEPT !.data[x.addr] = Copied(@, at, p, c.i + c.tot, m)]
           /\ call' = [call EXCEPT ![p] = k]
           /\ ftable' = ftable /\ ofile' = ofile /\ alive' = alive /\ installed' = installed
           /\ inop' = inop /\ lock' = lock
  <2>1. IsInode(inode[c.ip]) /\ IsDisk(disk) /\ IsDisk(installed)
    BY <1>7 DEF FileInv, Disks, AreInodes
  <2>2. IsLookup(Lookup(inode[c.ip], disk), inode[c.ip])
    BY <2>1, LookupMake DEF Lookup
  <2>3. IsLookup(x, inode[c.ip])
    BY <1>2, <2>2, BmapKeeps
  <2>4. IsInode(x.ino) /\ x.ino.live = inode[c.ip].live /\ IsDisk(x.d)
    BY <2>3 DEF IsLookup
  <2>5. /\ AreInodes(inode') /\ inode'[c.ip] = x.ino
        /\ \A j \in Inum : j # c.ip => inode'[j] = inode[j]
    <3>1. PICK n : n = x.ino
      OBVIOUS
    <3> QED BY <1>7, <1>8, <2>4, <3>1, InodeSet
  <2>6. IsDisk(disk')
    <3>1. /\ AreInodes(x.d.din) /\ x.d.used \subseteq Block
          /\ x.d = [din |-> x.d.din, used |-> x.d.used, data |-> x.d.data, text |-> x.d.text]
      BY <2>4 DEF IsDisk
    <3>2. PICK e : e = [x.d.data EXCEPT ![x.addr] = Copied(@, at, p, c.i + c.tot, m)]
      OBVIOUS
    <3>3. disk' = [din |-> x.d.din, used |-> x.d.used, data |-> e, text |-> x.d.text]
      BY <1>8, <3>1, <3>2
    <3> QED BY <3>1, <3>3, DiskMake
  <2>7. Disks'
    BY <1>8, <2>1, <2>5, <2>6 DEF Disks
  <2>8. \A j \in Inum : KeepsLive(p, j)
    BY <2>4, <2>5 DEF KeepsLive
  <2>9. /\ IsCall(k) /\ k.pc = c.pc /\ k.f = c.f /\ k.ip = c.ip /\ k.n = c.n /\ k.i = c.i
        /\ k.n1 = c.n1 /\ k.r = c.r /\ k.then = c.then
    BY <1>3, <1>5 DEF IsCall
  <2>10. CallOK(p, k)'
    BY <1>4, <1>5, <1>8, <2>9 DEF CallOK, Referring, Writing, Making
  <2>11. inop' \subseteq alive /\ inop' \subseteq inop \cup {p} /\ k.pc \notin Referring
    BY <1>4, <1>5, <1>8, <2>9 DEF Referring
  <2> QED BY <1>1, <1>4, <1>5, <1>8, <2>7, <2>8, <2>9, <2>10, <2>11, CallStep
<1> QED BY <1>4, <1>8, RestartKeeps

LEMMA UnlinkKeeps == ASSUME FileInv, NEW p \in Proc, NEW i \in Inum, Unlink(p, i) PROVE FileInv'
<1>1. PICK k, ino : k = call[p] /\ ino = [inode[i] EXCEPT !.nlink = 0]
  OBVIOUS
<1>2. /\ k.pc = "idle" /\ p \in alive /\ EndOp(p) /\ call' = call
      /\ ftable' = ftable /\ ofile' = ofile /\ alive' = alive /\ lock' = lock
      /\ \/ /\ Refs(i) = 0 /\ inode' = [inode EXCEPT ![i] = FreeInode]
            /\ disk' = Discard(i, disk.din[i], disk)
         \/ /\ inode' = [inode EXCEPT ![i] = ino]
            /\ disk' = Iupdate(i, ino, disk)
  BY <1>1 DEF Unlink, Start, fileVars
<1>3. /\ CallOK(p, k) /\ IsCall(k) /\ alive \subseteq Proc /\ inop \subseteq alive
      /\ lock \in [Inum -> Proc \cup {0}] /\ call = [q \in Proc |-> call[q]]
  BY <1>1, CallAt
<1>4. call' = [call EXCEPT ![p] = k]
  BY <1>1, <1>2, <1>3
<1>5. IsInode(inode[i]) /\ IsDisk(disk)
  BY DEF FileInv, Disks, AreInodes
<1>6. IsInode(ino) /\ ino.live = inode[i].live
  <2>1. /\ inode[i] = [live |-> inode[i].live, nlink |-> inode[i].nlink,
                       size |-> inode[i].size, addrs |-> inode[i].addrs]
        /\ inode[i].size \in 0..Top
    BY <1>5 DEF IsInode
  <2>2. ino = [live |-> inode[i].live, nlink |-> 0, size |-> inode[i].size,
               addrs |-> inode[i].addrs]
    BY <1>1, <2>1
  <2> QED BY <1>5, <2>2 DEF IsInode
<1>7. AreInodes(inode') /\ IsDisk(disk') /\ \A j \in Inum : KeepsLive(p, j)
  <2>1. CASE /\ Refs(i) = 0 /\ inode' = [inode EXCEPT ![i] = FreeInode]
             /\ disk' = Discard(i, disk.din[i], disk)
    <3>1. PICK n : n = FreeInode
      OBVIOUS
    <3>2. IsInode(n) /\ inode' = [inode EXCEPT ![i] = n]
      BY <2>1, <3>1, FreeInodeIs
    <3>3. AreInodes(inode') /\ \A j \in Inum : j # i => inode'[j] = inode[j]
      BY <3>2, InodeSet
    <3>4. KeepsLive(p, i)
      BY <2>1, NoRefs
    <3>5. \A j \in Inum : KeepsLive(p, j)
      BY <3>3, <3>4 DEF KeepsLive
    <3>6. IsDisk(disk')
      BY <1>5, <2>1, DiscardIs
    <3> QED BY <3>3, <3>5, <3>6
  <2>2. CASE inode' = [inode EXCEPT ![i] = ino] /\ disk' = Iupdate(i, ino, disk)
    <3>1. /\ AreInodes(inode') /\ inode'[i] = ino
          /\ \A j \in Inum : j # i => inode'[j] = inode[j]
      BY <1>6, <2>2, InodeSet
    <3>2. \A j \in Inum : KeepsLive(p, j)
      BY <1>6, <3>1 DEF KeepsLive
    <3>3. IsDisk(disk')
      BY <1>5, <1>6, <2>2, IupdateIs
    <3> QED BY <3>1, <3>2, <3>3
  <2> QED BY <1>2, <2>1, <2>2
<1>8. inop' = inop \ {p} /\ IsDisk(installed')
  BY <1>2, <1>7, EndOpIs
<1>9. Disks'
  BY <1>7, <1>8 DEF Disks
<1>10. CallOK(p, k)'
  BY <1>2, <1>3, <1>8 DEF CallOK, Referring, Writing, Making
<1>11. inop' \subseteq alive /\ inop' \subseteq inop \cup {p} /\ k.pc \notin Referring
  BY <1>2, <1>3, <1>8 DEF Referring
<1> QED BY <1>1, <1>2, <1>3, <1>4, <1>7, <1>9, <1>10, <1>11, CallStep

(***************************************************************************)
(* Offsets.                                                                *)
(***************************************************************************)

(* The offset of an open file of p moves, with its inode locked by nobody   *)
(* else.                                                                    *)
LEMMA OffStep ==
    ASSUME FileInv, NEW p \in Proc, NEW k, IsCall(k), call' = [call EXCEPT ![p] = k],
           NEW g \in FileId, NEW fd \in Fd, ofile[p][fd] = g, NEW v \in 0..Top,
           ftable' = [ftable EXCEPT ![g].off = v],
           \A q \in Proc : q # p => lock[ftable[g].ip] # q,
           ofile' = ofile, alive' = alive, inop' = inop,
           lock' \in [Inum -> Proc \cup {0}],
           \A i \in Inum, q \in Proc : lock[i] = q /\ q # p => lock'[i] = q,
           k.pc \notin Referring \cup {"open", "pipe", "kalloc", "pundo"},
           call[p].pc \notin {"open", "pipe", "kalloc", "pundo"}, CallOK(p, k)', Disks',
           \A i \in Inum : KeepsLive(p, i)
    PROVE  FileInv'
<1>1. /\ call = [q \in Proc |-> call[q]] /\ ofile \in Descriptors /\ alive \subseteq Proc
      /\ inop \subseteq alive
  BY CallAt
<1>2. call'[p] = k /\ \A q \in Proc : q # p => call'[q] = call[q]
  BY <1>1
<1>3. ftable = [f \in FileId |-> ftable[f]] /\ \A f \in FileId : IsFile(ftable[f])
  BY DEF FileInv, Shapes
<1>4. \A f \in FileId : f # g => ftable'[f] = ftable[f]
  BY <1>3
<1>5. /\ ftable'[g].ref = ftable[g].ref /\ ftable'[g].type = ftable[g].type
      /\ ftable'[g].ip = ftable[g].ip /\ IsFile(ftable'[g])
  <2>1. PICK t : t = ftable[g]
    OBVIOUS
  <2>2. IsFile(t) /\ ftable'[g] = [t EXCEPT !.off = v]
    BY <1>3, <2>1
  <2>3. PICK u : u = [t EXCEPT !.off = v]
    OBVIOUS
  <2>4. u = [ref |-> t.ref, type |-> t.type, ip |-> t.ip, off |-> v,
             readable |-> t.readable, writable |-> t.writable]
    BY <2>2, <2>3 DEF IsFile
  <2>5. IsFile(u) /\ u.ref = t.ref /\ u.type = t.type /\ u.ip = t.ip
    BY <2>2, <2>4 DEF IsFile
  <2> QED BY <2>1, <2>2, <2>3, <2>5
<1>6. ftable' = [f \in FileId |-> ftable'[f]] /\ \A f \in FileId : IsFile(ftable'[f])
  BY <1>3, <1>4, <1>5
<1>7. Live'
  <2>1. \A f \in FileId : OpensLive(f)
    BY <1>4, <1>5 DEF OpensLive
  <2> QED BY <2>1, LiveKeeps
<1>8. Counts'
  <2>1. \A f \in FileId : MakingIn(call', f) = MakingIn(call, f)
    BY <1>2 DEF MakingIn, Making
  <2>2. \A f \in FileId : HeldIn(ofile', f) = HeldIn(ofile, f)
    OBVIOUS
  <2>3. \A f \in FileId : ftable'[f].ref = ftable[f].ref
    BY <1>4, <1>5
  <2> QED BY <2>1, <2>2, <2>3 DEF FileInv, Counts
<1>9. ASSUME NEW q \in Proc, q # p PROVE LeftAlone(q)
  <2>1. ~Makes(call[q], g)
    BY HeldFile
  <2>2. \A f \in FileId : Makes(call[q], f) => ftable'[f] = ftable[f]
    BY <1>4, <2>1
  <2>3. \A f \in FileId : ftable'[f].type = ftable[f].type /\ ftable'[f].ip = ftable[f].ip
    BY <1>4, <1>5
  <2>4. \A f \in FileId : lock[ftable[f].ip] = q => ftable'[f].off = ftable[f].off
    BY <1>4, <1>9
  <2> QED BY <1>2, <1>9, <2>2, <2>3, <2>4 DEF LeftAlone
<1> QED BY <1>1, <1>6, <1>7, <1>8, <1>9, Step

LEMMA FilereadKeeps ==
    ASSUME FileInv, NEW p \in Proc, NEW fd \in Fd, NEW n \in WriteSizes, Fileread(p, fd, n)
    PROVE  FileInv'
<1>1. PICK k, f : k = call[p] /\ f = ofile[p][fd]
  OBVIOUS
<1>2. PICK ip, off : ip = ftable[f].ip /\ off = ftable[f].off
  OBVIOUS
<1>3. PICK r : r = ReadCount(inode[ip], off, n)
  OBVIOUS
<1>4. /\ k.pc = "idle" /\ p \in alive /\ f # 0 /\ ftable[f].type = "inode"
      /\ lock[ip] = 0 /\ r > 0 /\ ftable' = [ftable EXCEPT ![f].off = @ + r]
      /\ call' = call /\ ofile' = ofile /\ alive' = alive /\ lock' = lock /\ inop' = inop
      /\ inode' = inode /\ disk' = disk /\ installed' = installed
  BY <1>1, <1>2, <1>3 DEF Fileread, Start, dataVars, logVars
<1>5. /\ CallOK(p, k) /\ IsCall(k) /\ lock \in [Inum -> Proc \cup {0}]
      /\ call = [q \in Proc |-> call[q]] /\ ofile[p] \in [Fd -> FileId \cup {0}]
  BY <1>1, CallAt
<1>6. f \in FileId /\ call' = [call EXCEPT ![p] = k]
  BY <1>1, <1>4, <1>5
<1>7. ip \in Inum /\ off \in 0..Top
  BY <1>2, <1>4, <1>6, FileAt DEF IsFile
<1>8. PICK v : v = off + r
  OBVIOUS
<1>9. v \in 0..Top
  <2>1. inode[ip].size \in 0..Top
    BY <1>7 DEF FileInv, Disks, AreInodes, IsInode
  <2>2. n \in Nat
    BY FileAssumption
  <2>3. PICK s : s = inode[ip].size
    OBVIOUS
  <2>4. r = IF off > s THEN -1 ELSE IF off + n > s THEN s - off ELSE n
    BY <1>3, <2>3 DEF ReadCount
  <2> QED BY <1>4, <1>7, <1>8, <2>1, <2>2, <2>3, <2>4, TopNat
<1>10. ftable' = [ftable EXCEPT ![f].off = v]
  BY <1>2, <1>4, <1>8
<1>11. \A q \in Proc : q # p => lock[ftable[f].ip] # q
  BY <1>2, <1>4, FileSets
<1>12. Disks' /\ \A i \in Inum : KeepsLive(p, i)
  BY <1>4, Unchanged
<1>13. CallOK(p, k)'
  <2>1. p \notin inop
    BY <1>4, <1>5 DEF CallOK
  <2> QED BY <1>4, <2>1 DEF CallOK, Referring, Writing, Making
<1>14. /\ k.pc \notin Referring \cup {"open", "pipe", "kalloc", "pundo"}
       /\ call[p].pc \notin {"open", "pipe", "kalloc", "pundo"}
  BY <1>1, <1>4 DEF Referring
<1>15. lock' \in [Inum -> Proc \cup {0}] /\ \A i \in Inum, q \in Proc : lock[i] = q /\ q # p => lock'[i] = q
  BY <1>4, <1>5
<1> QED BY <1>1, <1>4, <1>5, <1>6, <1>9, <1>10, <1>11, <1>12, <1>13, <1>14, <1>15, OffStep

LEMMA WriteDoneKeeps == ASSUME FileInv, NEW p \in Proc, WriteDone(p) PROVE FileInv'
<1>1. PICK c, off : c = call[p] /\ off = ftable[c.f].off
  OBVIOUS
<1>2. PICK end, k : end = off + c.tot /\ k = [c EXCEPT !.pc = "wend", !.r = c.n1]
  OBVIOUS
<1>3. PICK ino : ino = IF end > inode[c.ip].size THEN Grown(inode[c.ip], end) ELSE inode[c.ip]
  OBVIOUS
<1>4. PICK d, sent : /\ d = IF end > inode[c.ip].size THEN Iupdate(c.ip, ino, disk) ELSE disk
                     /\ sent = [j \in 1..c.n1 |-> Byte(p, c.i + j - 1)]
  OBVIOUS
<1>5. /\ c.pc = "copy" /\ c.tot = c.n1 /\ inode' = [inode EXCEPT ![c.ip] = ino]
      /\ disk' = [d EXCEPT !.text[c.ip] = Overwrite(@, moved[c.f], sent)]
      /\ ftable' = [ftable EXCEPT ![c.f].off = @ + c.n1]
      /\ lock' = [lock EXCEPT ![c.ip] = 0] /\ call' = [call EXCEPT ![p] = k]
      /\ ofile' = ofile /\ alive' = alive /\ installed' = installed /\ inop' = inop
  BY <1>1, <1>2, <1>3, <1>4 DEF WriteDone, At, Goto, MovedOff
<1>6. /\ CallOK(p, c) /\ IsCall(c) /\ lock \in [Inum -> Proc \cup {0}]
  BY <1>1, CallAt
<1>7. /\ p \in alive /\ c.f \in FileId /\ ftable[c.f].type = "inode" /\ ftable[c.f].ip = c.ip
      /\ c.n \in Nat /\ c.i \in 0..c.n /\ c.n1 \in 0..(c.n - c.i)
      /\ lock[c.ip] = p /\ off + c.n1 <= Top
  BY <1>1, <1>5, <1>6 DEF CallOK, Writing
<1>8. PICK fd \in Fd : ofile[p][fd] = c.f
  BY <1>5, <1>6 DEF CallOK, Writing
<1>9. c.ip \in Inum /\ off \in 0..Top
  BY <1>1, <1>7, FileAt DEF IsFile
<1>10. end \in 0..Top /\ end = off + c.n1
  BY <1>2, <1>5, <1>7, <1>9, TopNat
<1>11. IsInode(inode[c.ip]) /\ IsDisk(disk) /\ IsDisk(installed)
  BY <1>9 DEF FileInv, Disks, AreInodes
<1>12. IsInode(ino) /\ ino.live = inode[c.ip].live
  <2>1. CASE end > inode[c.ip].size
    <3>1. ino = [inode[c.ip] EXCEPT !.size = end]
      BY <1>3, <2>1 DEF Grown
    <3>2. inode[c.ip] = [live |-> inode[c.ip].live, nlink |-> inode[c.ip].nlink,
                         size |-> inode[c.ip].size, addrs |-> inode[c.ip].addrs]
      BY <1>11 DEF IsInode
    <3>3. ino = [live |-> inode[c.ip].live, nlink |-> inode[c.ip].nlink,
                 size |-> end, addrs |-> inode[c.ip].addrs]
      BY <3>1, <3>2
    <3> QED BY <1>10, <1>11, <3>3, InodeMake
  <2>2. CASE ~(end > inode[c.ip].size)
    BY <1>3, <1>11, <2>2
  <2> QED BY <2>1, <2>2
<1>13. /\ AreInodes(inode') /\ inode'[c.ip] = ino
       /\ \A j \in Inum : j # c.ip => inode'[j] = inode[j]
  BY <1>5, <1>9, <1>12, InodeSet
<1>14. IsDisk(d)
  BY <1>4, <1>9, <1>11, <1>12, IupdateIs
<1>15. IsDisk(disk')
  <2>1. PICK t : t = Overwrite(d.text[c.ip], moved[c.f], sent)
    OBVIOUS
  <2>2. disk' = [d EXCEPT !.text[c.ip] = t]
    BY <1>5, <2>1
  <2> QED BY <1>14, <2>2, TextIs
<1>16. Disks' /\ \A j \in Inum : KeepsLive(p, j)
  BY <1>5, <1>11, <1>12, <1>13, <1>15 DEF Disks, KeepsLive
<1>17. /\ IsCall(k) /\ k.pc = "wend" /\ k.f = c.f /\ k.ip = c.ip /\ k.n = c.n /\ k.i = c.i
       /\ k.r = c.n1
  BY <1>2, <1>6 DEF IsCall
<1>18. ftable' = [ftable EXCEPT ![c.f].off = end]
  BY <1>1, <1>5, <1>10
<1>19. \A f \in FileId : ftable'[f].type = ftable[f].type /\ ftable'[f].ip = ftable[f].ip
  <2>1. ftable = [f \in FileId |-> ftable[f]] /\ IsFile(ftable[c.f])
    BY <1>7 DEF FileInv, Shapes
  <2>2. ftable'[c.f] = [ftable[c.f] EXCEPT !.off = end]
    BY <1>7, <1>18, <2>1
  <2>3. ftable'[c.f].type = ftable[c.f].type /\ ftable'[c.f].ip = ftable[c.f].ip
    BY <2>1, <2>2 DEF IsFile
  <2>4. \A f \in FileId : f # c.f => ftable'[f] = ftable[f]
    BY <1>18, <2>1
  <2> QED BY <2>3, <2>4
<1>20. CallOK(p, k)'
  BY <1>5, <1>7, <1>8, <1>17, <1>19 DEF CallOK, Referring, Writing, Making
<1>21. /\ lock' \in [Inum -> Proc \cup {0}]
       /\ \A i \in Inum, q \in Proc : lock[i] = q /\ q # p => lock'[i] = q
       /\ \A q \in Proc : q # p => lock[ftable[c.f].ip] # q
  BY <1>5, <1>6, <1>7, <1>9
<1>22. /\ k.pc \notin Referring \cup {"open", "pipe", "kalloc", "pundo"}
       /\ call[p].pc \notin {"open", "pipe", "kalloc", "pundo"}
  BY <1>1, <1>5, <1>17 DEF Referring
<1>23. PICK g : g = c.f
  OBVIOUS
<1>24. /\ call' = [call EXCEPT ![p] = k] /\ ofile' = ofile /\ alive' = alive /\ inop' = inop
  BY <1>5
<1>25. /\ g \in FileId /\ ofile[p][fd] = g /\ ftable' = [ftable EXCEPT ![g].off = end]
       /\ \A q \in Proc : q # p => lock[ftable[g].ip] # q
  BY <1>7, <1>8, <1>18, <1>21, <1>23
<1>26. /\ IsCall(k) /\ lock' \in [Inum -> Proc \cup {0}]
       /\ \A i \in Inum, q \in Proc : lock[i] = q /\ q # p => lock'[i] = q
  BY <1>17, <1>21
<1>27. end \in 0..Top
  BY <1>10
<1> QED BY <1>16, <1>20, <1>22, <1>24, <1>25, <1>26, <1>27, OffStep

(***************************************************************************)
(* Steps that change one file and at most one descriptor.                  *)
(***************************************************************************)
LEMMA FirstFd ==
    ASSUME NEW o, NEW p \in Proc, FreeFds(o, p) # {}, NEW e, e = Min(FreeFds(o, p))
    PROVE  e \in Fd /\ o[p][e] = 0
<1>1. FreeFds(o, p) \subseteq Nat
  BY FileFacts DEF Fd, FreeFds
<1>2. e \in FreeFds(o, p)
  BY <1>1, LeastOf
<1> QED BY <1>2 DEF FreeFds

LEMMA FirstFree ==
    ASSUME NEW p \in Proc
    PROVE  /\ FreeFiles # {} => Min(FreeFiles) \in FileId /\ ftable[Min(FreeFiles)].ref = 0
           /\ FreeFds(ofile, p) # {} => /\ Min(FreeFds(ofile, p)) \in Fd
                                        /\ ofile[p][Min(FreeFds(ofile, p))] = 0
<1>1. FreeFiles \subseteq Nat
  BY FileFacts DEF FileId, FreeFiles
<1>2. FreeFiles # {} => Min(FreeFiles) \in FreeFiles
  BY <1>1, LeastOf
<1> QED BY <1>2, FirstFd DEF FreeFiles

(* Each change of f->ref is one of a descriptor or of a call of pipe.       *)
Counted(f) == ftable[f].ref = Cardinality(HeldIn(ofile, f)) + Cardinality(MakingIn(call, f))

LEMMA CountAt ==
    ASSUME FileInv, NEW p \in Proc, NEW k, Set(call, p, k, call'), NEW f \in FileId,
           NEW fd \in Fd, NEW h, Put(ofile, p, fd, h, ofile') \/ (ofile' = ofile /\ h = ofile[p][fd]),
           ftable'[f].ref = ftable[f].ref - One(ofile[p][fd] = f) + One(h = f)
                            - One(Makes(call[p], f)) + One(Makes(k, f))
    PROVE  Counted(f)'
<1>1. PICK o, c : o = ofile' /\ c = call'
  OBVIOUS
<1>2. PICK a1, a2, a3, a4 : /\ a1 = One(ofile[p][fd] = f) /\ a2 = One(h = f)
                            /\ a3 = One(Makes(call[p], f)) /\ a4 = One(Makes(k, f))
  OBVIOUS
<1>3. a1 \in Nat /\ a2 \in Nat /\ a3 \in Nat /\ a4 \in Nat
  BY <1>2 DEF One
<1>4. /\ ftable[f].ref = Cardinality(HeldIn(ofile, f)) + Cardinality(MakingIn(call, f))
      /\ Cardinality(HeldIn(ofile, f)) \in Nat /\ Cardinality(MakingIn(call, f)) \in Nat
  BY FileAt
<1>5. Cardinality(HeldIn(o, f)) = Cardinality(HeldIn(ofile, f)) - a1 + a2
  <2>1. CASE Put(ofile, p, fd, h, ofile')
    <3>1. Put(ofile, p, fd, h, o)
      BY <1>1, <2>1
    <3>2. Cardinality(HeldIn(o, f)) = Cardinality(HeldIn(ofile, f)) - One(ofile[p][fd] = f) + One(h = f)
      BY <3>1, HeldChange
    <3> QED BY <1>2, <3>2
  <2>2. CASE ofile' = ofile /\ h = ofile[p][fd]
    <3>1. a1 = a2 /\ o = ofile
      BY <1>1, <1>2, <2>2
    <3> QED BY <1>3, <1>4, <3>1
  <2> QED BY <2>1, <2>2
<1>6. Cardinality(MakingIn(c, f)) = Cardinality(MakingIn(call, f)) - a3 + a4
  <2>1. Set(call, p, k, c)
    BY <1>1
  <2>2. Cardinality(MakingIn(c, f)) = Cardinality(MakingIn(call, f)) - One(Makes(call[p], f))
                                    + One(Makes(k, f))
    BY <2>1, MakingChange
  <2> QED BY <1>2, <2>2
<1>7. ftable'[f].ref = ftable[f].ref - a1 + a2 - a3 + a4
  BY <1>2
<1>8. ftable'[f].ref = Cardinality(HeldIn(o, f)) + Cardinality(MakingIn(c, f))
  BY <1>3, <1>4, <1>5, <1>6, <1>7
<1> QED BY <1>1, <1>8 DEF Counted

LEMMA TableMove ==
    ASSUME FileInv, NEW p \in Proc, NEW k, IsCall(k), call' = [call EXCEPT ![p] = k],
           NEW g \in FileId, NEW t, IsFile(t), ftable' = [ftable EXCEPT ![g] = t],
           ofile' \in Descriptors, \A q \in Proc : q # p => ofile'[q] = ofile[q],
           alive' = alive, inop' \subseteq alive, inop' \subseteq inop \cup {p},
           lock' \in [Inum -> Proc \cup {0}],
           \A i \in Inum, q \in Proc : lock[i] = q /\ q # p => lock'[i] = q,
           Disks', Counts', CallOK(p, k)',
           \A q \in Proc : q # p => ~Makes(call[q], g),
           \A q \in Proc, fd \in Fd : q # p /\ ofile[q][fd] = g /\ ftable[g].type = "inode" =>
              t.type = "inode" /\ t.ip = ftable[g].ip /\ t.off = ftable[g].off,
           \A i \in Inum : KeepsLive(p, i), OpensLive(g),
           k.pc \in Referring => k.ip \in Inum /\ inode'[k.ip].live
    PROVE  FileInv'
<1>1. /\ call = [q \in Proc |-> call[q]] /\ alive \subseteq Proc /\ inop \subseteq alive
      /\ lock \in [Inum -> Proc \cup {0}]
  BY CallAt
<1>2. call'[p] = k /\ \A q \in Proc : q # p => call'[q] = call[q]
  BY <1>1
<1>3. ftable = [f \in FileId |-> ftable[f]] /\ \A f \in FileId : IsFile(ftable[f])
  BY DEF FileInv, Shapes
<1>4. ftable'[g] = t /\ \A f \in FileId : f # g => ftable'[f] = ftable[f]
  BY <1>3
<1>5. ftable' = [f \in FileId |-> ftable'[f]] /\ \A f \in FileId : IsFile(ftable'[f])
  BY <1>3, <1>4
<1>6. Live'
  <2>1. \A f \in FileId : OpensLive(f)
    <3> SUFFICES ASSUME NEW f \in FileId, f # g PROVE OpensLive(f)
      OBVIOUS
    <3> QED BY <1>4 DEF OpensLive
  <2> QED BY <2>1, LiveKeeps
<1>7. ASSUME NEW q \in Proc, q # p PROVE LeftAlone(q)
  <2>1. \A f \in FileId : Makes(call[q], f) => ftable'[f] = ftable[f]
    BY <1>4, <1>7
  <2>2. \A f \in FileId, fd \in Fd : ofile[q][fd] = f /\ ftable[f].type = "inode" =>
          ftable'[f].type = "inode" /\ ftable'[f].ip = ftable[f].ip /\ ftable'[f].off = ftable[f].off
    BY <1>4, <1>7
  <2> QED BY <1>2, <1>7, <2>1, <2>2 DEF LeftAlone
<1>8. inop' \subseteq alive' /\ alive' \subseteq Proc
  BY <1>1
<1> QED BY <1>1, <1>5, <1>6, <1>7, <1>8, Step

LEMMA TableStep ==
    ASSUME FileInv, NEW p \in Proc, NEW k, IsCall(k), call' = [call EXCEPT ![p] = k],
           NEW g \in FileId, NEW t, IsFile(t), ftable' = [ftable EXCEPT ![g] = t],
           ofile' \in Descriptors, \A q \in Proc : q # p => ofile'[q] = ofile[q],
           alive' = alive, inop' \subseteq inop, lock' = lock, Disks', Counts', CallOK(p, k)',
           \A q \in Proc : q # p => ~Makes(call[q], g),
           \A q \in Proc, fd \in Fd : q # p /\ ofile[q][fd] = g /\ ftable[g].type = "inode" =>
              t.type = "inode" /\ t.ip = ftable[g].ip /\ t.off = ftable[g].off,
           \A i \in Inum : KeepsLive(p, i), OpensLive(g),
           k.pc \in Referring => k.ip \in Inum /\ inode'[k.ip].live
    PROVE  FileInv'
<1>1. inop \subseteq alive /\ lock \in [Inum -> Proc \cup {0}]
  BY CallAt
<1>2. /\ inop' \subseteq alive /\ inop' \subseteq inop \cup {p} /\ lock' \in [Inum -> Proc \cup {0}]
      /\ \A i \in Inum, q \in Proc : lock[i] = q /\ q # p => lock'[i] = q
  BY <1>1
<1> QED BY <1>2, TableMove

LEMMA FileMake ==
    ASSUME NEW t, IsFile(t), NEW n \in Nat, NEW y, y = "inode" => t.type = "inode" /\ n > 0,
           NEW u, u = [ref |-> n, type |-> y, ip |-> t.ip, off |-> t.off,
                       readable |-> t.readable, writable |-> t.writable]
    PROVE  IsFile(u)
BY DEF IsFile

LEMMA RefExcept ==
    ASSUME NEW t, IsFile(t), NEW n \in Nat, t.type = "inode" => n > 0,
           NEW u, u = [t EXCEPT !.ref = n]
    PROVE  IsFile(u) /\ u.ref = n /\ u.type = t.type /\ u.ip = t.ip /\ u.off = t.off
<1>1. t = [ref |-> t.ref, type |-> t.type, ip |-> t.ip, off |-> t.off,
           readable |-> t.readable, writable |-> t.writable]
  BY DEF IsFile
<1>2. u = [ref |-> n, type |-> t.type, ip |-> t.ip, off |-> t.off,
           readable |-> t.readable, writable |-> t.writable]
  BY <1>1
<1> QED BY <1>2, FileMake

LEMMA OneDescriptor ==
    ASSUME FileInv, NEW p \in Proc, NEW fd \in Fd, NEW h \in FileId \cup {0},
           ofile' = [ofile EXCEPT ![p][fd] = h]
    PROVE  /\ ofile' \in Descriptors /\ \A q \in Proc : q # p => ofile'[q] = ofile[q]
           /\ ofile'[p][fd] = h /\ \A e \in Fd : e # fd => ofile'[p][e] = ofile[p][e]
           /\ Put(ofile, p, fd, h, ofile')
<1>1. ofile \in Descriptors
  BY CallAt
<1>2. /\ ofile' \in Descriptors /\ \A q \in Proc : q # p => ofile'[q] = ofile[q]
      /\ ofile'[p][fd] = h /\ \A e \in Fd : e # fd => ofile'[p][e] = ofile[p][e]
  BY <1>1 DEF Descriptors
<1> QED BY <1>2 DEF Put

LEMMA OneCall ==
    ASSUME FileInv, NEW p \in Proc, NEW k, call' = [call EXCEPT ![p] = k]
    PROVE  Set(call, p, k, call')
<1>1. call = [q \in Proc |-> call[q]]
  BY CallAt
<1> QED BY <1>1 DEF Set

(* One file changes: the others have the descriptors and calls they had.    *)
LEMMA OneCount ==
    ASSUME FileInv, NEW p \in Proc, NEW k, Set(call, p, k, call'), NEW g \in FileId,
           NEW fd \in Fd, NEW h, Put(ofile, p, fd, h, ofile') \/ (ofile' = ofile /\ h = ofile[p][fd]),
           \A f \in FileId : f # g => /\ ftable'[f] = ftable[f] /\ (ofile[p][fd] = f <=> h = f)
                                      /\ Makes(call[p], f) <=> Makes(k, f),
           ftable'[g].ref = ftable[g].ref - One(ofile[p][fd] = g) + One(h = g)
                            - One(Makes(call[p], g)) + One(Makes(k, g))
    PROVE  Counts'
<1>1. ASSUME NEW f \in FileId
      PROVE  ftable'[f].ref = ftable[f].ref - One(ofile[p][fd] = f) + One(h = f)
                              - One(Makes(call[p], f)) + One(Makes(k, f))
  <2>1. CASE f = g
    BY <2>1
  <2>2. CASE f # g
    <3>1. One(ofile[p][fd] = f) = One(h = f) /\ One(Makes(call[p], f)) = One(Makes(k, f))
      BY <2>2 DEF One
    <3>2. One(h = f) \in Nat /\ One(Makes(k, f)) \in Nat
      BY DEF One
    <3>3. ftable'[f].ref = ftable[f].ref /\ ftable[f].ref \in Nat
      BY <2>2, FileAt
    <3> QED BY <3>1, <3>2, <3>3
  <2> QED BY <2>1, <2>2
<1>2. ASSUME NEW f \in FileId PROVE Counted(f)'
  BY <1>1, CountAt
<1> QED BY <1>2 DEF Counts, Counted

LEMMA SysDupKeeps ==
    ASSUME FileInv, NEW p \in Proc, NEW fd \in Fd, SysDup(p, fd) PROVE FileInv'
<1>1. PICK k, g, e : k = call[p] /\ g = ofile[p][fd] /\ e = Min(FreeFds(ofile, p))
  OBVIOUS
<1>2. /\ k.pc = "idle" /\ p \in alive /\ g # 0 /\ FreeFds(ofile, p) # {} /\ call' = call
      /\ ofile' = [ofile EXCEPT ![p][e] = g] /\ ftable' = [ftable EXCEPT ![g].ref = @ + 1]
      /\ alive' = alive /\ lock' = lock /\ inop' = inop
      /\ inode' = inode /\ disk' = disk /\ installed' = installed
  BY <1>1 DEF SysDup, Start, Fdalloc, Fileref, dataVars, logVars
<1>3. /\ CallOK(p, k) /\ IsCall(k) /\ call = [q \in Proc |-> call[q]]
      /\ ofile[p] \in [Fd -> FileId \cup {0}]
  BY <1>1, CallAt
<1>4. call' = [call EXCEPT ![p] = k] /\ g \in FileId /\ e \in Fd /\ ofile[p][e] = 0
  BY <1>1, <1>2, <1>3, FirstFree
<1>5. IsFile(ftable[g]) /\ ftable[g].ref \in Nat /\ ftable[g].ref >= 1 /\ \A q \in Proc : ~Makes(call[q], g)
  BY <1>1, <1>4, FileAt, HeldFile
<1>6. PICK n, t : n = ftable[g].ref + 1 /\ t = [ftable[g] EXCEPT !.ref = n]
  OBVIOUS
<1>7. n \in Nat /\ n > 0
  BY <1>5, <1>6
<1>8. /\ IsFile(t) /\ t.ref = n /\ t.type = ftable[g].type /\ t.ip = ftable[g].ip
      /\ t.off = ftable[g].off
  BY <1>5, <1>6, <1>7, RefExcept
<1>9. ftable' = [ftable EXCEPT ![g] = t]
  BY <1>2, <1>6
<1>10. /\ ofile' \in Descriptors /\ \A q \in Proc : q # p => ofile'[q] = ofile[q]
       /\ Put(ofile, p, e, g, ofile') /\ Set(call, p, k, call')
  BY <1>2, <1>4, OneDescriptor, OneCall
<1>11. ftable = [f \in FileId |-> ftable[f]]
  BY DEF FileInv, Shapes
<1>12. ftable'[g] = t /\ \A f \in FileId : f # g => ftable'[f] = ftable[f]
  BY <1>4, <1>9, <1>11
<1>13. Counts'
  <2>1. \A f : ~Makes(k, f) /\ ~Makes(call[p], f)
    BY <1>1, <1>2 DEF Makes, Making
  <2>2. \A f \in FileId : f # g => /\ ftable'[f] = ftable[f] /\ (ofile[p][e] = f <=> g = f)
                                   /\ Makes(call[p], f) <=> Makes(k, f)
    BY <1>4, <1>12, <2>1, FileSets
  <2>3. One(ofile[p][e] = g) = 0 /\ One(g = g) = 1 /\ One(Makes(call[p], g)) = 0 /\ One(Makes(k, g)) = 0
    BY <1>4, <2>1, FileSets DEF One
  <2>4. ftable'[g].ref = ftable[g].ref - One(ofile[p][e] = g) + One(g = g)
                         - One(Makes(call[p], g)) + One(Makes(k, g))
    BY <1>5, <1>6, <1>8, <1>12, <2>3
  <2>5. g \in FileId /\ e \in Fd /\ Put(ofile, p, e, g, ofile') /\ Set(call, p, k, call')
    BY <1>4, <1>10
  <2> QED BY <2>2, <2>4, <2>5, OneCount
<1>14. Disks' /\ \A i \in Inum : KeepsLive(p, i)
  BY <1>2, Unchanged
<1>15. OpensLive(g)
  BY <1>8, <1>12 DEF OpensLive
<1>16. CallOK(p, k)'
  <2>1. p \notin inop
    BY <1>2, <1>3 DEF CallOK
  <2> QED BY <1>2, <2>1 DEF CallOK, Referring, Writing, Making
<1>17. k.pc \notin Referring /\ inop' \subseteq inop
  BY <1>2 DEF Referring
<1>18. alive' = alive /\ lock' = lock
  BY <1>2
<1> QED BY <1>3, <1>4, <1>5, <1>8, <1>9, <1>10, <1>13, <1>14, <1>15, <1>16, <1>17, <1>18, TableStep
LEMMA OneFile ==
    ASSUME FileInv, NEW g \in FileId, NEW t, ftable' = [ftable EXCEPT ![g] = t]
    PROVE  ftable'[g] = t /\ \A f \in FileId : f # g => ftable'[f] = ftable[f]
<1>1. ftable = [f \in FileId |-> ftable[f]]
  BY DEF FileInv, Shapes
<1> QED BY <1>1

(* An inode that is referred to is live.                                    *)
LEMMA ReferredLive ==
    ASSUME FileInv, NEW i \in Inum, Refs(i) # 0 PROVE inode[i].live
<1>1. ~(RefFiles(i) = {} /\ RefCalls(i) = {})
  BY RefsFinite, FS_EmptySet
<1>2. CASE RefFiles(i) # {}
  <2>1. PICK f \in FileId : ftable[f].type = "inode" /\ ftable[f].ip = i
    BY <1>2 DEF RefFiles
  <2> QED BY <2>1 DEF FileInv, Live
<1>3. CASE RefCalls(i) # {}
  <2>1. PICK q \in Proc : call[q].pc \in Referring /\ call[q].ip = i
    BY <1>3 DEF RefCalls, Referring
  <2> QED BY <2>1 DEF FileInv, Live
<1> QED BY <1>1, <1>2, <1>3

LEMMA OpenData ==
    ASSUME FileInv, NEW p \in Proc, NEW i \in Inum, SysOpen(p, i)
    PROVE  Disks' /\ (\A j \in Inum : KeepsLive(p, j)) /\ inode'[i].live
<1>1. PICK create : create = (~disk.din[i].live /\ Refs(i) = 0)
  OBVIOUS
<1>2. PICK ino : ino = IF Refs(i) > 0 THEN inode[i]
                       ELSE IF create THEN [FreeInode EXCEPT !.live = TRUE, !.nlink = 1]
                       ELSE disk.din[i]
  OBVIOUS
<1>3. /\ inode' = [inode EXCEPT ![i] = ino] /\ installed' = installed
      /\ disk' = IF create THEN Iupdate(i, ino, disk) ELSE disk
  BY <1>1, <1>2 DEF SysOpen
<1>4. AreInodes(inode) /\ IsDisk(disk) /\ IsDisk(installed)
  BY DEF FileInv, Disks
<1>5. IsInode(inode[i]) /\ IsInode(disk.din[i])
  BY <1>4 DEF AreInodes, IsDisk
<1>6. Refs(i) \in Nat
  BY RefsFinite
<1>7. IsInode(ino) /\ ino.live
  <2>1. CASE Refs(i) > 0
    BY <1>2, <1>5, <1>6, <2>1, ReferredLive
  <2>2. CASE ~(Refs(i) > 0) /\ create
    <3>1. PICK n : n = FreeInode
      OBVIOUS
    <3>2. IsInode(n) /\ ino = [n EXCEPT !.live = TRUE, !.nlink = 1]
      BY <1>2, <2>2, <3>1, FreeInodeIs
    <3>3. n = [live |-> n.live, nlink |-> n.nlink, size |-> n.size, addrs |-> n.addrs]
      BY <3>2 DEF IsInode
    <3>4. ino = [live |-> TRUE, nlink |-> 1, size |-> n.size, addrs |-> n.addrs]
      BY <3>2, <3>3
    <3>5. n.size \in 0..Top
      BY <3>2 DEF IsInode
    <3> QED BY <3>4, <3>5 DEF IsInode
  <2>3. CASE ~(Refs(i) > 0) /\ ~create
    <3>1. Refs(i) = 0
      BY <1>6, <2>3
    <3> QED BY <1>1, <1>2, <1>5, <2>3, <3>1
  <2> QED BY <2>1, <2>2, <2>3
<1>8. AreInodes(inode') /\ inode'[i] = ino /\ \A j \in Inum : j # i => inode'[j] = inode[j]
  BY <1>3, <1>7, InodeSet
<1>9. IsDisk(disk')
  BY <1>3, <1>4, <1>7, IupdateIs
<1>10. Disks'
  BY <1>3, <1>4, <1>8, <1>9 DEF Disks
<1>11. \A j \in Inum : KeepsLive(p, j)
  BY <1>7, <1>8 DEF KeepsLive
<1> QED BY <1>7, <1>8, <1>10, <1>11

(* A call takes or gives back one file and no descriptor.                   *)
LEMMA MakeCounts ==
    ASSUME FileInv, NEW p \in Proc, NEW k, Set(call, p, k, call'), NEW g \in FileId,
           ofile' = ofile, \A f \in FileId : f # g => ftable'[f] = ftable[f],
           \A f \in FileId : f # g => (Makes(call[p], f) <=> Makes(k, f)),
           ftable'[g].ref = ftable[g].ref - One(Makes(call[p], g)) + One(Makes(k, g))
    PROVE  Counts'
<1> SUFFICES ASSUME NEW f \in FileId PROVE Counted(f)'
  BY DEF Counts, Counted
<1>1. PICK c : c = call'
  OBVIOUS
<1>2. Set(call, p, k, c)
  BY <1>1
<1>3. Cardinality(MakingIn(c, f)) = Cardinality(MakingIn(call, f)) - One(Makes(call[p], f))
                                    + One(Makes(k, f))
  BY <1>2, MakingChange
<1>4. /\ ftable[f].ref = Cardinality(HeldIn(ofile, f)) + Cardinality(MakingIn(call, f))
      /\ Cardinality(HeldIn(ofile, f)) \in Nat /\ Cardinality(MakingIn(call, f)) \in Nat
  BY FileAt
<1>5. PICK a1, a2 : a1 = One(Makes(call[p], f)) /\ a2 = One(Makes(k, f))
  OBVIOUS
<1>6. a1 \in Nat /\ a2 \in Nat
  BY <1>5 DEF One
<1>7. ftable'[f].ref = ftable[f].ref - a1 + a2
  <2>1. CASE f = g
    BY <1>5, <2>1
  <2>2. CASE f # g
    <3>1. a1 = a2
      BY <1>5, <2>2 DEF One
    <3>2. ftable'[f].ref = ftable[f].ref /\ ftable[f].ref \in Nat
      BY <2>2, FileAt
    <3> QED BY <1>6, <3>1, <3>2
  <2> QED BY <2>1, <2>2
<1>8. Cardinality(MakingIn(c, f)) = Cardinality(MakingIn(call, f)) - a1 + a2
  BY <1>3, <1>5
<1>9. ftable'[f].ref = Cardinality(HeldIn(ofile, f)) + Cardinality(MakingIn(c, f))
  BY <1>4, <1>6, <1>7, <1>8
<1> QED BY <1>1, <1>9 DEF Counted

(* What filealloc makes of a free file, and fileclose of a file with one    *)
(* reference.                                                               *)
LEMMA FileTaken ==
    ASSUME FileInv, NEW g \in FileId, ftable[g].ref = 0
    PROVE  \E t : /\ Filealloc(ftable, g) = [ftable EXCEPT ![g] = t]
                  /\ IsFile(t) /\ t.ref = 1 /\ t.type # "inode"
<1>1. PICK n, t : n = 1 /\ t = [ftable[g] EXCEPT !.ref = n]
  OBVIOUS
<1>2. n \in Nat /\ n > 0 /\ IsFile(ftable[g]) /\ ftable[g].type # "inode"
  BY <1>1, FileAt, FreeFile
<1>3. IsFile(t) /\ t.ref = 1 /\ t.type # "inode"
  BY <1>1, <1>2, RefExcept
<1>4. Filealloc(ftable, g) = [ftable EXCEPT ![g] = t]
  BY <1>1 DEF Filealloc
<1> QED BY <1>3, <1>4

LEMMA FileGivenBack ==
    ASSUME FileInv, NEW g \in FileId, ftable[g].ref = 1
    PROVE  \E t : /\ Fileput(ftable, g) = [ftable EXCEPT ![g] = t]
                  /\ IsFile(t) /\ t.ref = 0 /\ t.type = "none"
<1>1. PICK o : o = ftable[g]
  OBVIOUS
<1>2. IsFile(o) /\ ftable = [f \in FileId |-> ftable[f]]
  BY <1>1, FileAt DEF FileInv, Shapes
<1>3. PICK t : t = [o EXCEPT !.ref = 0, !.type = "none"]
  OBVIOUS
<1>4. o = [ref |-> o.ref, type |-> o.type, ip |-> o.ip, off |-> o.off,
           readable |-> o.readable, writable |-> o.writable]
  BY <1>2 DEF IsFile
<1>5. t = [ref |-> 0, type |-> "none", ip |-> o.ip, off |-> o.off,
           readable |-> o.readable, writable |-> o.writable]
  BY <1>3, <1>4
<1>6. IsFile(t)
  BY <1>2, <1>5, FileMake
<1>7. Fileput(ftable, g) = [ftable EXCEPT ![g].ref = 0, ![g].type = "none"]
  BY DEF Fileput
<1>8. PICK u : u = Fileput(ftable, g)
  OBVIOUS
<1>9. u = [ftable EXCEPT ![g].ref = 0, ![g].type = "none"]
  BY <1>7, <1>8
<1>10. t = [ftable[g] EXCEPT !.ref = 0, !.type = "none"]
  BY <1>1, <1>3
<1>11. u = [ftable EXCEPT ![g] = t]
  BY <1>2, <1>9, <1>10
<1>12. Fileput(ftable, g) = [ftable EXCEPT ![g] = t] /\ IsFile(t) /\ t.ref = 0 /\ t.type = "none"
  BY <1>5, <1>6, <1>8, <1>11
<1> QED BY <1>12, Zenon

(* The lock of one inode is taken or released by p.                         *)
LEMMA OneLock ==
    ASSUME FileInv, NEW p \in Proc, NEW i \in Inum, lock[i] \in {0, p}, NEW v \in {0, p},
           lock' = [lock EXCEPT ![i] = v]
    PROVE  /\ lock' \in [Inum -> Proc \cup {0}] /\ lock'[i] = v
           /\ \A j \in Inum, q \in Proc : lock[j] = q /\ q # p => lock'[j] = q
<1>1. lock \in [Inum -> Proc \cup {0}]
  BY CallAt
<1>2. lock'[i] = v /\ \A j \in Inum : j # i => lock'[j] = lock[j]
  BY <1>1
<1>3. lock' \in [Inum -> Proc \cup {0}]
  BY <1>1
<1>4. ASSUME NEW j \in Inum, NEW q \in Proc, lock[j] = q, q # p PROVE lock'[j] = q
  <2>1. j # i
    BY <1>4, FileSets
  <2> QED BY <1>2, <1>4, <2>1
<1> QED BY <1>2, <1>3, <1>4

LEMMA SysOpenKeeps ==
    ASSUME FileInv, NEW p \in Proc, NEW i \in Inum, SysOpen(p, i) PROVE FileInv'
<1>1. /\ call[p].pc = "idle" /\ p \in alive /\ alive' = alive /\ ofile' = ofile
      /\ inop' = inop \cup {p} /\ lock[i] = 0
  BY DEF SysOpen, Start
<1>2. /\ lock \in [Inum -> Proc \cup {0}] /\ inop \subseteq alive /\ ofile \in Descriptors
  BY CallAt
<1>3. Disks' /\ (\A j \in Inum : KeepsLive(p, j)) /\ inode'[i].live
  BY OpenData
<1>4. inop' \subseteq alive /\ inop' \subseteq inop \cup {p}
  BY <1>1, <1>2
<1>5. CASE FreeFiles = {}
  <2>1. PICK k : k = [Idle EXCEPT !.pc = "iput", !.ip = i]
    OBVIOUS
  <2>2. call' = [call EXCEPT ![p] = k] /\ ftable' = ftable /\ lock' = lock
    BY <1>5, <2>1 DEF SysOpen, Goto
  <2>3. IsCall(k) /\ k.pc = "iput" /\ k.ip = i /\ k.then = "idle"
    BY <2>1 DEF IsCall, Idle
  <2>4. /\ k.pc \notin {"open", "pipe", "kalloc", "pundo"}
        /\ call[p].pc \notin {"open", "pipe", "kalloc", "pundo"}
    BY <1>1, <2>3
  <2>5. CallOK(p, k)'
    BY <1>1, <2>3 DEF CallOK, Referring, Writing, Making
  <2>6. /\ lock' \in [Inum -> Proc \cup {0}]
        /\ \A j \in Inum, q \in Proc : lock[j] = q /\ q # p => lock'[j] = q
    BY <1>2, <2>2
  <2>7. k.pc \in Referring => k.ip \in Inum /\ inode'[k.ip].live
    BY <1>3, <2>3
  <2>8. ftable' = ftable /\ ofile' = ofile /\ alive' = alive
    BY <1>1, <2>2
  <2> QED BY <1>3, <1>4, <2>2, <2>3, <2>4, <2>5, <2>6, <2>7, <2>8, CallStep
<1>6. CASE FreeFiles # {}
  <2>1. PICK g : g = Min(FreeFiles)
    OBVIOUS
  <2>2. PICK k : k = [Idle EXCEPT !.pc = "open", !.f = g, !.ip = i]
    OBVIOUS
  <2>3. /\ call' = [call EXCEPT ![p] = k] /\ ftable' = Filealloc(ftable, g)
        /\ lock' = [lock EXCEPT ![i] = p]
    BY <1>6, <2>1, <2>2 DEF SysOpen, Goto
  <2>4. g \in FileId /\ ftable[g].ref = 0
    BY <1>6, <2>1, FirstFree
  <2>5. /\ \A q \in Proc, fd \in Fd : ofile[q][fd] # g
        /\ \A q \in Proc : ~Makes(call[q], g)
    BY <2>4, FreeFile
  <2>6. PICK t : ftable' = [ftable EXCEPT ![g] = t] /\ IsFile(t) /\ t.ref = 1 /\ t.type # "inode"
    BY <2>3, <2>4, FileTaken
  <2>7. ftable'[g] = t /\ \A f \in FileId : f # g => ftable'[f] = ftable[f]
    BY <2>4, <2>6, OneFile
  <2>8. IsCall(k) /\ k.pc = "open" /\ k.f = g /\ k.w = 0 /\ k.ip = i /\ k.then = "idle"
    BY <2>2 DEF IsCall, Idle
  <2>9. \A f \in FileId : (Makes(k, f) <=> f = g) /\ ~Makes(call[p], f)
    BY <1>1, <2>8, FileSets DEF Makes, Making
  <2>10. Counts'
    <3>1. One(Makes(call[p], g)) = 0 /\ One(Makes(k, g)) = 1
      BY <2>4, <2>9 DEF One
    <3>2. ftable'[g].ref = ftable[g].ref - One(Makes(call[p], g)) + One(Makes(k, g))
      BY <2>4, <2>6, <2>7, <3>1
    <3>3. Set(call, p, k, call') /\ ofile' = ofile
      BY <1>1, <2>3, OneCall
    <3> QED BY <2>4, <2>7, <2>9, <3>2, <3>3, MakeCounts
  <2>11. /\ lock' \in [Inum -> Proc \cup {0}] /\ lock'[i] = p
         /\ \A j \in Inum, q \in Proc : lock[j] = q /\ q # p => lock'[j] = q
    <3>1. PICK v : v = p
      OBVIOUS
    <3>2. lock[i] \in {0, p} /\ v \in {0, p} /\ lock' = [lock EXCEPT ![i] = v]
      BY <1>1, <2>3, <3>1
    <3> QED BY <3>1, <3>2, OneLock
  <2>12. MakesOK(k)'
    BY <2>4, <2>6, <2>7, <2>8, FileSets DEF MakesOK
  <2>13. CallOK(p, k)'
    BY <1>1, <2>8, <2>11, <2>12 DEF CallOK, Referring, Writing, Making
  <2>14. OpensLive(g)
    BY <2>6, <2>7 DEF OpensLive
  <2>15. k.pc \in Referring => k.ip \in Inum /\ inode'[k.ip].live
    BY <1>3, <2>8
  <2>16. /\ ofile' \in Descriptors /\ \A q \in Proc : q # p => ofile'[q] = ofile[q]
         /\ alive' = alive
    BY <1>1, <1>2
  <2>17. /\ \A q \in Proc : q # p => ~Makes(call[q], g)
         /\ \A q \in Proc, fd \in Fd : q # p /\ ofile[q][fd] = g /\ ftable[g].type = "inode" =>
              t.type = "inode" /\ t.ip = ftable[g].ip /\ t.off = ftable[g].off
    BY <2>5
  <2>18. g \in FileId /\ IsFile(t) /\ IsCall(k)
    BY <2>4, <2>6, <2>8
  <2> QED BY <1>3, <1>4, <2>3, <2>6, <2>10, <2>11, <2>13, <2>14, <2>15, <2>16, <2>17, <2>18, TableMove
<1> QED BY <1>5, <1>6

(* The file an open has taken: nobody else's, and the call refers to a live *)
(* inode.                                                                   *)
LEMMA Opening ==
    ASSUME FileInv, NEW p \in Proc, call[p].pc = "open", NEW g, g = call[p].f,
           NEW i, i = call[p].ip
    PROVE  /\ g \in FileId /\ i \in Inum /\ lock[i] = p /\ inode[i].live /\ p \in alive
           /\ ftable[g].ref = 1 /\ ftable[g].type # "inode"
           /\ \A q \in Proc, fd \in Fd : ofile[q][fd] # g
           /\ \A q \in Proc : q # p => ~Makes(call[q], g)
           /\ \A f \in FileId : Makes(call[p], f) <=> f = g
<1>1. CallOK(p, call[p])
  BY CallAt
<1>2. MakesOK(call[p]) /\ p \in alive /\ lock[i] = p
  BY <1>1 DEF CallOK, Making
<1>3. g \in FileId /\ \A f \in FileId : Makes(call[p], f) <=> f = g
  BY <1>2, FileSets DEF MakesOK, Makes, Making
<1>4. i \in Inum /\ inode[i].live
  BY DEF FileInv, Live, Referring
<1>5. Makes(call[p], g)
  BY <1>3
<1> QED BY <1>2, <1>3, <1>4, <1>5, MadeFile

LEMMA OpenFdKeeps ==
    ASSUME FileInv, NEW p \in Proc, NEW a, NEW b, OpenFd(p, a, b) PROVE FileInv'
<1>1. PICK g, i, e, k : g = call[p].f /\ i = call[p].ip /\ e = Min(FreeFds(ofile, p)) /\ k = Idle
  OBVIOUS
<1>2. PICK t : t = [ref |-> 1, type |-> "inode", ip |-> i, off |-> 0, readable |-> a, writable |-> b]
  OBVIOUS
<1>3. /\ call[p].pc = "open" /\ FreeFds(ofile, p) # {} /\ ofile' = [ofile EXCEPT ![p][e] = g]
      /\ ftable' = [ftable EXCEPT ![g] = t] /\ lock' = [lock EXCEPT ![i] = 0]
      /\ inode' = inode /\ disk' = disk /\ EndOp(p) /\ call' = [call EXCEPT ![p] = k] /\ alive' = alive
  BY <1>1, <1>2 DEF OpenFd, At, Goto, Fdalloc, dataVars
<1>4. /\ g \in FileId /\ i \in Inum /\ lock[i] = p /\ inode[i].live /\ p \in alive
      /\ ftable[g].ref = 1 /\ ftable[g].type # "inode"
      /\ \A q \in Proc, fd \in Fd : ofile[q][fd] # g
      /\ \A q \in Proc : q # p => ~Makes(call[q], g)
      /\ \A f \in FileId : Makes(call[p], f) <=> f = g
  BY <1>1, <1>3, Opening
<1>5. e \in Fd /\ ofile[p][e] = 0
  BY <1>1, <1>3, FirstFd
<1>6. IsFile(t) /\ t.ref = 1 /\ t.type = "inode" /\ t.ip = i
  <2>1. 0 \in 0..Top
    BY TopNat
  <2> QED BY <1>2, <1>4, <2>1 DEF IsFile
<1>7. /\ ofile' \in Descriptors /\ \A q \in Proc : q # p => ofile'[q] = ofile[q]
      /\ Put(ofile, p, e, g, ofile') /\ Set(call, p, k, call')
  BY <1>3, <1>4, <1>5, OneDescriptor, OneCall
<1>8. ftable'[g] = t /\ \A f \in FileId : f # g => ftable'[f] = ftable[f]
  BY <1>3, <1>4, OneFile
<1>9. IsCall(k) /\ k.pc = "idle" /\ \A f : ~Makes(k, f)
  BY <1>1, IdleIs
<1>10. Counts'
  <2>1. \A f \in FileId : f # g => /\ ftable'[f] = ftable[f] /\ (ofile[p][e] = f <=> g = f)
                                   /\ Makes(call[p], f) <=> Makes(k, f)
    BY <1>4, <1>5, <1>8, <1>9, FileSets
  <2>2. One(ofile[p][e] = g) = 0 /\ One(g = g) = 1 /\ One(Makes(call[p], g)) = 1 /\ One(Makes(k, g)) = 0
    BY <1>4, <1>5, <1>9 DEF One
  <2>3. ftable'[g].ref = ftable[g].ref - One(ofile[p][e] = g) + One(g = g)
                         - One(Makes(call[p], g)) + One(Makes(k, g))
    BY <1>4, <1>6, <1>8, <2>2
  <2>4. g \in FileId /\ e \in Fd /\ Put(ofile, p, e, g, ofile') /\ Set(call, p, k, call')
    BY <1>4, <1>5, <1>7
  <2> QED BY <2>1, <2>3, <2>4, OneCount
<1>11. /\ lock' \in [Inum -> Proc \cup {0}]
       /\ \A j \in Inum, q \in Proc : lock[j] = q /\ q # p => lock'[j] = q
  <2>1. PICK v : v = 0
    OBVIOUS
  <2>2. lock[i] \in {0, p} /\ v \in {0, p} /\ lock' = [lock EXCEPT ![i] = v]
    BY <1>3, <1>4, <2>1
  <2> QED BY <1>4, <2>2, OneLock
<1>12. Disks' /\ (\A j \in Inum : KeepsLive(p, j)) /\ inop' = inop \ {p}
  <2>1. IsDisk(disk')
    BY <1>3 DEF FileInv, Disks
  <2>2. IsDisk(installed') /\ inop' = inop \ {p}
    BY <1>3, <2>1, EndOpIs
  <2> QED BY <1>3, <2>1, <2>2, Unchanged
<1>13. inop' \subseteq alive /\ inop' \subseteq inop \cup {p} /\ p \notin inop'
  BY <1>12, CallAt
<1>14. CallOK(p, k)'
  BY <1>3, <1>4, <1>9, <1>13 DEF CallOK, Referring, Writing, Making
<1>15. OpensLive(g)
  BY <1>3, <1>4, <1>6, <1>8 DEF OpensLive
<1>16. k.pc \notin Referring /\ IsCall(k) /\ IsFile(t) /\ g \in FileId
  BY <1>4, <1>6, <1>9 DEF Referring
<1>17. /\ \A q \in Proc : q # p => ~Makes(call[q], g)
       /\ \A q \in Proc, fd \in Fd : q # p /\ ofile[q][fd] = g /\ ftable[g].type = "inode" =>
            t.type = "inode" /\ t.ip = ftable[g].ip /\ t.off = ftable[g].off
  BY <1>4
<1>18. /\ call' = [call EXCEPT ![p] = k] /\ ftable' = [ftable EXCEPT ![g] = t] /\ alive' = alive
       /\ ofile' \in Descriptors /\ \A q \in Proc : q # p => ofile'[q] = ofile[q]
  BY <1>3, <1>7
<1> QED BY <1>10, <1>11, <1>12, <1>13, <1>14, <1>15, <1>16, <1>17, <1>18, TableMove

LEMMA OpenNoFdKeeps == ASSUME FileInv, NEW p \in Proc, OpenNoFd(p) PROVE FileInv'
<1>1. PICK g, i : g = call[p].f /\ i = call[p].ip
  OBVIOUS
<1>2. PICK k : k = [Idle EXCEPT !.pc = "iput", !.ip = i]
  OBVIOUS
<1>3. /\ call[p].pc = "open" /\ ofile' = ofile /\ ftable' = Fileput(ftable, g)
      /\ lock' = [lock EXCEPT ![i] = 0] /\ call' = [call EXCEPT ![p] = k] /\ alive' = alive
      /\ inode' = inode /\ disk' = disk /\ installed' = installed /\ inop' = inop
  BY <1>1, <1>2 DEF OpenNoFd, At, Goto, dataVars, logVars
<1>4. /\ g \in FileId /\ i \in Inum /\ lock[i] = p /\ inode[i].live /\ p \in alive
      /\ ftable[g].ref = 1 /\ ftable[g].type # "inode"
      /\ \A q \in Proc, fd \in Fd : ofile[q][fd] # g
      /\ \A q \in Proc : q # p => ~Makes(call[q], g)
      /\ \A f \in FileId : Makes(call[p], f) <=> f = g
  BY <1>1, <1>3, Opening
<1>5. PICK t : ftable' = [ftable EXCEPT ![g] = t] /\ IsFile(t) /\ t.ref = 0 /\ t.type = "none"
  BY <1>3, <1>4, FileGivenBack
<1>6. ftable'[g] = t /\ \A f \in FileId : f # g => ftable'[f] = ftable[f]
  BY <1>4, <1>5, OneFile
<1>7. IsCall(k) /\ k.pc = "iput" /\ k.ip = i /\ k.then = "idle"
  BY <1>2 DEF IsCall, Idle
<1>8. \A f : ~Makes(k, f)
  BY <1>7 DEF Makes, Making
<1>9. Counts'
  <2>1. One(Makes(call[p], g)) = 1 /\ One(Makes(k, g)) = 0
    BY <1>4, <1>8 DEF One
  <2>2. ftable'[g].ref = ftable[g].ref - One(Makes(call[p], g)) + One(Makes(k, g))
    BY <1>4, <1>5, <1>6, <2>1
  <2>3. Set(call, p, k, call') /\ ofile' = ofile
    BY <1>3, OneCall
  <2> QED BY <1>4, <1>6, <1>8, <2>2, <2>3, MakeCounts
<1>10. /\ lock' \in [Inum -> Proc \cup {0}]
       /\ \A j \in Inum, q \in Proc : lock[j] = q /\ q # p => lock'[j] = q
  <2>1. PICK v : v = 0
    OBVIOUS
  <2>2. lock[i] \in {0, p} /\ v \in {0, p} /\ lock' = [lock EXCEPT ![i] = v]
    BY <1>3, <1>4, <2>1
  <2> QED BY <1>4, <2>2, OneLock
<1>11. Disks' /\ \A j \in Inum : KeepsLive(p, j)
  BY <1>3, Unchanged
<1>12. CallOK(p, k)'
  BY <1>3, <1>4, <1>7 DEF CallOK, Referring, Writing, Making
<1>13. OpensLive(g)
  BY <1>5, <1>6 DEF OpensLive
<1>14. k.pc \in Referring => k.ip \in Inum /\ inode'[k.ip].live
  BY <1>3, <1>4, <1>7
<1>15. /\ ofile' \in Descriptors /\ \A q \in Proc : q # p => ofile'[q] = ofile[q]
       /\ alive' = alive /\ inop' \subseteq alive /\ inop' \subseteq inop \cup {p}
       /\ call' = [call EXCEPT ![p] = k] /\ ftable' = [ftable EXCEPT ![g] = t]
  BY <1>3, <1>5, CallAt
<1>16. /\ \A q \in Proc : q # p => ~Makes(call[q], g)
       /\ \A q \in Proc, fd \in Fd : q # p /\ ofile[q][fd] = g /\ ftable[g].type = "inode" =>
            t.type = "inode" /\ t.ip = ftable[g].ip /\ t.off = ftable[g].off
  BY <1>4
<1>17. g \in FileId /\ IsFile(t) /\ IsCall(k)
  BY <1>4, <1>5, <1>7
<1> QED BY <1>9, <1>10, <1>11, <1>12, <1>13, <1>14, <1>15, <1>16, <1>17, TableMove

(* fileclose, by close or by exit: the last descriptor frees the file.      *)
LEMMA LastHolder ==
    ASSUME FileInv, NEW p \in Proc, NEW fd \in Fd, NEW g \in FileId, ofile[p][fd] = g,
           ftable[g].ref = 1, NEW q \in Proc, q # p, NEW e \in Fd, ofile[q][e] = g
    PROVE  FALSE
<1>1. <<p, fd>> \in HeldIn(ofile, g) /\ <<q, e>> \in HeldIn(ofile, g) /\ <<p, fd>> # <<q, e>>
  BY DEF HeldIn
<1>2. Cardinality(HeldIn(ofile, g)) >= 2
  BY <1>1, FileAt, TwoElements
<1> QED BY <1>2, FileAt

LEMMA FilecloseKeeps ==
    ASSUME FileInv, NEW p \in Proc, NEW fd \in Fd, NEW g \in FileId, ofile[p][fd] = g,
           NEW h, h = 0, Put(ofile, p, fd, h, ofile'), ofile' \in Descriptors,
           \A q \in Proc : q # p => ofile'[q] = ofile[q], NEW c, IsCall(c),
           c.pc \in {"idle", "exit"}, p \in alive, call[p].pc = c.pc, Fileclose(p, g, c)
    PROVE  FileInv'
<1>1. PICK r, o : r = ftable[g].ref /\ o = ftable[g]
  OBVIOUS
<1>2. PICK k : k = IF r = 1 /\ ftable[g].type = "inode"
                   THEN [Idle EXCEPT !.pc = "cbegin", !.ip = ftable[g].ip, !.then = c.pc]
                   ELSE c
  OBVIOUS
<1>3. /\ ftable' = IF r = 1 THEN [ftable EXCEPT ![g].ref = 0, ![g].type = "none"]
                   ELSE [ftable EXCEPT ![g].ref = @ + (-1)]
      /\ call' = [call EXCEPT ![p] = k] /\ alive' = alive /\ lock' = lock /\ inop' = inop
      /\ inode' = inode /\ disk' = disk /\ installed' = installed
  BY <1>1, <1>2 DEF Fileclose, Fileput, Goto, Fileref, dataVars, logVars
<1>4. CallOK(p, call[p]) /\ IsCall(call[p]) /\ p \notin inop
  BY CallAt DEF CallOK
<1>5. /\ IsFile(ftable[g]) /\ ftable[g].ref \in Nat /\ ftable[g].ref >= 1
      /\ \A q \in Proc : ~Makes(call[q], g)
  BY FileAt, HeldFile
<1>6. /\ IsCall(k) /\ k.pc \in {"cbegin", c.pc} /\ (k.pc = "cbegin" => k.then = c.pc)
      /\ k.pc = "cbegin" => r = 1 /\ ftable[g].type = "inode" /\ k.ip = ftable[g].ip
  <2>1. CASE r = 1 /\ ftable[g].type = "inode"
    BY <1>2, <2>1 DEF IsCall, Idle
  <2>2. CASE ~(r = 1 /\ ftable[g].type = "inode")
    BY <1>2, <2>2
  <2> QED BY <2>1, <2>2
<1>7. PICK t, n : /\ t = (IF r = 1 THEN [o EXCEPT !.ref = 0, !.type = "none"] ELSE [o EXCEPT !.ref = n])
                  /\ n = r - 1
  OBVIOUS
<1>8. n \in Nat /\ (r # 1 => n > 0) /\ (r = 1 => n = 0) /\ n = r + (-1)
  BY <1>1, <1>5, <1>7
<1>9. /\ IsFile(t) /\ t.ref = n /\ (r = 1 => t.type = "none")
      /\ r # 1 => t.type = ftable[g].type /\ t.ip = ftable[g].ip /\ t.off = ftable[g].off
  <2>1. CASE r = 1
    <3>1. o = [ref |-> o.ref, type |-> o.type, ip |-> o.ip, off |-> o.off,
               readable |-> o.readable, writable |-> o.writable]
      BY <1>1, <1>5 DEF IsFile
    <3>2. t = [ref |-> 0, type |-> "none", ip |-> o.ip, off |-> o.off,
               readable |-> o.readable, writable |-> o.writable]
      BY <1>7, <2>1, <3>1
    <3>3. IsFile(t)
      BY <1>1, <1>5, <3>2, FileMake
    <3> QED BY <1>8, <2>1, <3>2, <3>3
  <2>2. CASE r # 1
    <3>1. t = [o EXCEPT !.ref = n] /\ IsFile(o) /\ n > 0
      BY <1>1, <1>5, <1>7, <1>8, <2>2
    <3>2. IsFile(t) /\ t.ref = n /\ t.type = o.type /\ t.ip = o.ip /\ t.off = o.off
      BY <1>8, <3>1, RefExcept
    <3> QED BY <1>1, <2>2, <3>2
  <2> QED BY <2>1, <2>2
<1>10. ftable' = [ftable EXCEPT ![g] = t]
  <2>1. CASE r = 1
    <3>1. ftable' = [ftable EXCEPT ![g].ref = 0, ![g].type = "none"]
      BY <1>3, <2>1
    <3>2. ftable = [f \in FileId |-> ftable[f]]
      BY DEF FileInv, Shapes
    <3>3. t = [ftable[g] EXCEPT !.ref = 0, !.type = "none"]
      BY <1>1, <1>7, <2>1
    <3> QED BY <3>1, <3>2, <3>3
  <2>2. CASE r # 1
    <3>1. ftable' = [ftable EXCEPT ![g].ref = @ + (-1)]
      BY <1>3, <2>2
    <3>2. t = [ftable[g] EXCEPT !.ref = n] /\ n = ftable[g].ref + (-1)
      BY <1>1, <1>7, <1>8, <2>2
    <3> QED BY <3>1, <3>2
  <2> QED BY <2>1, <2>2
<1>11. ftable'[g] = t /\ \A f \in FileId : f # g => ftable'[f] = ftable[f]
  BY <1>10, OneFile
<1>12. Set(call, p, k, call')
  BY <1>3, OneCall
<1>13. Counts'
  <2>1. \A f : ~Makes(call[p], f) /\ ~Makes(k, f)
    BY <1>6 DEF Makes, Making
  <2>2. \A f \in FileId : f # g => /\ ftable'[f] = ftable[f] /\ (ofile[p][fd] = f <=> h = f)
                                   /\ Makes(call[p], f) <=> Makes(k, f)
    BY <1>11, <2>1, FileSets
  <2>3. One(ofile[p][fd] = g) = 1 /\ One(h = g) = 0 /\ One(Makes(call[p], g)) = 0 /\ One(Makes(k, g)) = 0
    BY <2>1, FileSets DEF One
  <2>4. ftable'[g].ref = ftable[g].ref - One(ofile[p][fd] = g) + One(h = g)
                         - One(Makes(call[p], g)) + One(Makes(k, g))
    BY <1>1, <1>5, <1>7, <1>11, <1>9, <2>3
  <2> QED BY <1>12, <2>2, <2>4, OneCount
<1>14. Disks' /\ \A i \in Inum : KeepsLive(p, i)
  BY <1>3, Unchanged
<1>15. OpensLive(g)
  BY <1>11, <1>9 DEF OpensLive
<1>16. CallOK(p, k)'
  BY <1>3, <1>4, <1>6 DEF CallOK, Referring, Writing, Making
<1>17. k.pc \in Referring => k.ip \in Inum /\ inode'[k.ip].live
  <2>1. ftable[g].type = "inode" => ftable[g].ip \in Inum /\ inode[ftable[g].ip].live
    BY <1>5 DEF IsFile, FileInv, Live
  <2> QED BY <1>3, <1>6, <2>1 DEF Referring
<1>18. \A q \in Proc, e \in Fd : q # p /\ ofile[q][e] = g /\ ftable[g].type = "inode" =>
              t.type = "inode" /\ t.ip = ftable[g].ip /\ t.off = ftable[g].off
  <2> SUFFICES ASSUME NEW q \in Proc, NEW e \in Fd, q # p, ofile[q][e] = g, ftable[g].type = "inode"
               PROVE  t.type = "inode" /\ t.ip = ftable[g].ip /\ t.off = ftable[g].off
    OBVIOUS
  <2>1. r # 1
    BY <1>1, LastHolder
  <2> QED BY <1>9, <2>1
<1>19. /\ call' = [call EXCEPT ![p] = k] /\ alive' = alive /\ lock' = lock /\ inop' \subseteq inop
       /\ ftable' = [ftable EXCEPT ![g] = t]
  BY <1>3, <1>10
<1>20. IsCall(k) /\ IsFile(t) /\ \A q \in Proc : q # p => ~Makes(call[q], g)
  BY <1>5, <1>6, <1>9
<1> QED BY <1>13, <1>14, <1>15, <1>16, <1>17, <1>18, <1>19, <1>20, TableStep

LEMMA SysCloseKeeps ==
    ASSUME FileInv, NEW p \in Proc, NEW fd \in Fd, SysClose(p, fd) PROVE FileInv'
<1>1. PICK g : g = ofile[p][fd]
  OBVIOUS
<1>2. /\ p \in alive /\ call[p].pc = "idle" /\ g # 0 /\ ofile' = [ofile EXCEPT ![p][fd] = 0]
      /\ Fileclose(p, g, Idle)
  BY <1>1 DEF SysClose, Start
<1>3. g \in FileId
  BY <1>1, <1>2, CallAt
<1>4. PICK h, c : h = 0 /\ c = Idle
  OBVIOUS
<1>5. /\ Put(ofile, p, fd, h, ofile') /\ ofile' \in Descriptors
      /\ \A q \in Proc : q # p => ofile'[q] = ofile[q]
  BY <1>2, <1>4, OneDescriptor
<1>6. /\ ofile[p][fd] = g /\ IsCall(c) /\ c.pc \in {"idle", "exit"} /\ p \in alive
      /\ call[p].pc = c.pc /\ Fileclose(p, g, c)
  BY <1>1, <1>2, <1>4, IdleIs
<1> QED BY <1>3, <1>4, <1>5, <1>6, FilecloseKeeps

LEMMA ExitFilesKeeps == ASSUME FileInv, NEW p \in Proc, ExitFiles(p) PROVE FileInv'
<1>1. PICK open : open = Fd \ FreeFds(ofile, p)
  OBVIOUS
<1>2. /\ CallOK(p, call[p]) /\ call = [q \in Proc |-> call[q]] /\ alive \subseteq Proc
      /\ ofile[p] \in [Fd -> FileId \cup {0}] /\ ofile \in Descriptors
      /\ inop \subseteq alive /\ lock \in [Inum -> Proc \cup {0}]
  BY CallAt
<1>3. call[p].pc = "exit" /\ p \in alive /\ p \notin inop
  BY <1>2 DEF ExitFiles, At, CallOK
<1>4. CASE open # {}
  <2>1. PICK e, g : e = Min(open) /\ g = ofile[p][e]
    OBVIOUS
  <2>2. ofile' = [ofile EXCEPT ![p][e] = 0] /\ Fileclose(p, g, [Idle EXCEPT !.pc = "exit"])
    BY <1>1, <1>4, <2>1 DEF ExitFiles
  <2>3. e \in Fd /\ g # 0
    <3>1. open \subseteq Nat
      BY <1>1, FileFacts DEF Fd
    <3>2. e \in open
      BY <1>4, <2>1, <3>1, LeastOf
    <3> QED BY <1>1, <2>1, <3>2 DEF FreeFds
  <2>4. g \in FileId
    BY <1>2, <2>1, <2>3
  <2>5. PICK h, c : h = 0 /\ c = [Idle EXCEPT !.pc = "exit"]
    OBVIOUS
  <2>6. /\ Put(ofile, p, e, h, ofile') /\ ofile' \in Descriptors
        /\ \A q \in Proc : q # p => ofile'[q] = ofile[q]
    BY <2>2, <2>3, <2>5, OneDescriptor
  <2>7. /\ ofile[p][e] = g /\ IsCall(c) /\ c.pc \in {"idle", "exit"} /\ p \in alive
        /\ call[p].pc = c.pc /\ Fileclose(p, g, c)
    <3>1. IsCall(c) /\ c.pc = "exit"
      BY <2>5 DEF IsCall, Idle
    <3> QED BY <1>3, <2>1, <2>2, <2>5, <3>1
  <2> QED BY <2>3, <2>4, <2>5, <2>6, <2>7, FilecloseKeeps
<1>5. CASE open = {}
  <2>1. PICK k : k = Idle
    OBVIOUS
  <2>2. /\ alive' = alive \ {p} /\ call' = [call EXCEPT ![p] = k] /\ ftable' = ftable
        /\ ofile' = ofile /\ inode' = inode /\ disk' = disk /\ lock' = lock
        /\ installed' = installed /\ inop' = inop
    BY <1>1, <1>5, <2>1 DEF ExitFiles, Goto, dataVars, logVars
  <2>3. IsCall(k) /\ k.pc = "idle"
    BY <2>1, IdleIs
  <2>4. call'[p] = k /\ \A q \in Proc : q # p => call'[q] = call[q]
    BY <1>2, <2>2
  <2>5. \A fd \in Fd : ofile[p][fd] = 0
    BY <1>1, <1>5 DEF FreeFds
  <2>6. CallOK(p, k)'
    BY <1>3, <2>2, <2>3, <2>5 DEF CallOK, Referring, Writing, Making
  <2>7. Disks' /\ \A i \in Inum : KeepsLive(p, i)
    BY <2>2, Unchanged
  <2>8. Live'
    <3>1. \A f \in FileId : OpensLive(f)
      BY <2>2 DEF OpensLive
    <3>2. k.pc \notin Referring
      BY <2>3 DEF Referring
    <3> QED BY <2>2, <2>7, <3>1, <3>2, LiveKeeps
  <2>9. Counts'
    <3>1. \A f \in FileId : MakingIn(call', f) = MakingIn(call, f)
      BY <1>3, <2>3, <2>4 DEF MakingIn, Making
    <3>2. \A f \in FileId : HeldIn(ofile', f) = HeldIn(ofile, f) /\ ftable'[f].ref = ftable[f].ref
      BY <2>2
    <3> QED BY <3>1, <3>2 DEF FileInv, Counts
  <2>10. \A q \in Proc : q # p => LeftAlone(q)
    BY <2>2, <2>4 DEF LeftAlone
  <2>11. ftable' = [f \in FileId |-> ftable'[f]] /\ \A f \in FileId : IsFile(ftable'[f])
    BY <2>2 DEF FileInv, Shapes
  <2>12. /\ ofile' \in Descriptors /\ alive' \subseteq Proc /\ inop' \subseteq alive'
         /\ lock' \in [Inum -> Proc \cup {0}]
    BY <1>2, <1>3, <2>2
  <2>13. call' = [call EXCEPT ![p] = k]
    BY <2>2
  <2> QED BY <2>3, <2>6, <2>7, <2>8, <2>9, <2>10, <2>11, <2>12, <2>13, Step
<1> QED BY <1>4, <1>5

(* A step of pipe() that takes or gives back one file and no descriptor.    *)
LEMMA PipeStep ==
    ASSUME FileInv, NEW p \in Proc, NEW k, IsCall(k), call' = [call EXCEPT ![p] = k],
           NEW g \in FileId, NEW t, ftable' = [ftable EXCEPT ![g] = t], IsFile(t), t.type # "inode",
           ofile' = ofile, alive' = alive, inop' = inop, lock' = lock,
           Counts', Disks', \A i \in Inum : KeepsLive(p, i), CallOK(p, k)',
           \A q \in Proc : q # p => ~Makes(call[q], g),
           \A q \in Proc, fd \in Fd : ofile[q][fd] # g, k.pc \notin Referring
    PROVE  FileInv'
<1>1. ftable'[g] = t
  BY OneFile
<1>2. OpensLive(g)
  BY <1>1 DEF OpensLive
<1>3. inop' \subseteq inop
  OBVIOUS
<1>4. ofile' \in Descriptors /\ \A q \in Proc : q # p => ofile'[q] = ofile[q]
  BY CallAt
<1>5. \A q \in Proc, fd \in Fd : q # p /\ ofile[q][fd] = g /\ ftable[g].type = "inode" =>
              t.type = "inode" /\ t.ip = ftable[g].ip /\ t.off = ftable[g].off
  OBVIOUS
<1> QED BY <1>2, <1>3, <1>4, <1>5, TableStep

(* A call of pipe() on its way, and what it relies on.                      *)
LEMMA PipeCall ==
    ASSUME NEW p \in Proc, NEW k, k.pc \in {"pipe", "kalloc", "pundo"},
           p \in alive', p \notin inop', MakesOK(k)'
    PROVE  CallOK(p, k)' /\ k.pc \notin Referring
BY DEF CallOK, Referring, Writing, Making

LEMMA SysPipeKeeps == ASSUME FileInv, NEW p \in Proc, SysPipe(p) PROVE FileInv'
<1>1. PICK g : g = Min(FreeFiles)
  OBVIOUS
<1>2. PICK k : k = [Idle EXCEPT !.pc = "pipe", !.f = g]
  OBVIOUS
<1>3. /\ call[p].pc = "idle" /\ p \in alive /\ FreeFiles # {} /\ ftable' = Filealloc(ftable, g)
      /\ call' = [call EXCEPT ![p] = k] /\ ofile' = ofile /\ alive' = alive
      /\ inop' = inop /\ lock' = lock /\ inode' = inode /\ disk' = disk /\ installed' = installed
  BY <1>1, <1>2 DEF SysPipe, Start, Goto, dataVars, logVars
<1>4. g \in FileId /\ ftable[g].ref = 0
  BY <1>1, <1>3, FirstFree
<1>5. /\ \A q \in Proc, fd \in Fd : ofile[q][fd] # g
      /\ \A q \in Proc : ~Makes(call[q], g)
  BY <1>4, FreeFile
<1>6. IsCall(k) /\ k.pc = "pipe" /\ k.f = g /\ k.w = 0
  BY <1>2 DEF IsCall, Idle
<1>7. \A f \in FileId : (Makes(k, f) <=> f = g) /\ ~Makes(call[p], f)
  BY <1>3, <1>6, FileSets DEF Makes, Making
<1>8. PICK t : ftable' = [ftable EXCEPT ![g] = t] /\ IsFile(t) /\ t.ref = 1 /\ t.type # "inode"
  BY <1>3, <1>4, FileTaken
<1>9. ftable'[g] = t /\ \A f \in FileId : f # g => ftable'[f] = ftable[f]
  BY <1>4, <1>8, OneFile
<1>10. Counts'
  <2>1. One(Makes(call[p], g)) = 0 /\ One(Makes(k, g)) = 1
    BY <1>4, <1>7 DEF One
  <2>2. ftable'[g].ref = ftable[g].ref - One(Makes(call[p], g)) + One(Makes(k, g))
    BY <1>4, <1>8, <1>9, <2>1
  <2>3. Set(call, p, k, call') /\ ofile' = ofile
    BY <1>3, OneCall
  <2> QED BY <1>4, <1>7, <1>9, <2>2, <2>3, MakeCounts
<1>11. CallOK(p, k)' /\ k.pc \notin Referring
  <2>1. p \in alive' /\ p \notin inop'
    BY <1>3, CallAt DEF CallOK
  <2>2. MakesOK(k)'
    BY <1>4, <1>6, <1>8, <1>9, FileSets DEF MakesOK
  <2>3. k.pc \in {"pipe", "kalloc", "pundo"}
    BY <1>6
  <2> QED BY <2>1, <2>2, <2>3, PipeCall
<1>12. Disks' /\ \A i \in Inum : KeepsLive(p, i)
  BY <1>3, Unchanged
<1>13. /\ call' = [call EXCEPT ![p] = k] /\ ofile' = ofile /\ alive' = alive
       /\ inop' = inop /\ lock' = lock /\ \A q \in Proc : q # p => ~Makes(call[q], g)
  BY <1>3, <1>5
<1> QED BY <1>4, <1>5, <1>6, <1>8, <1>10, <1>11, <1>12, <1>13, PipeStep

(* The files a call of pipe() has: nobody else's.                           *)
LEMMA Piping ==
    ASSUME FileInv, NEW p \in Proc, NEW c, c = call[p], c.pc \in {"pipe", "kalloc", "pundo"}
    PROVE  /\ MakesOK(c) /\ p \in alive /\ p \notin inop
           /\ \A f \in FileId : Makes(c, f) <=> f \in {c.f, c.w}
           /\ \A f \in FileId : f \in {c.f, c.w} =>
                 /\ ftable[f].ref = 1 /\ ftable[f].type # "inode"
                 /\ \A q \in Proc, fd \in Fd : ofile[q][fd] # f
                 /\ \A q \in Proc : q # p => ~Makes(call[q], f)
<1>1. CallOK(p, c)
  BY CallAt
<1>2. MakesOK(c) /\ p \in alive /\ p \notin inop
  BY <1>1 DEF CallOK, Making
<1>3. \A f \in FileId : Makes(c, f) <=> f \in {c.f, c.w}
  BY DEF Makes, Making
<1>4. ASSUME NEW f \in FileId, f \in {c.f, c.w}
      PROVE  /\ ftable[f].ref = 1 /\ ftable[f].type # "inode"
             /\ \A q \in Proc, fd \in Fd : ofile[q][fd] # f
             /\ \A q \in Proc : q # p => ~Makes(call[q], f)
  <2>1. Makes(call[p], f)
    BY <1>3, <1>4
  <2> QED BY <2>1, MadeFile
<1> QED BY <1>2, <1>3, <1>4

LEMMA UndoIs ==
    ASSUME NEW g, NEW w, NEW k, k = Undo(g, w)
    PROVE  IsCall(k) /\ k.pc = "pundo" /\ k.f = g /\ k.w = w /\ \A f : Makes(k, f) <=> f \in {g, w}
<1>1. k = [Idle EXCEPT !.pc = "pundo", !.f = g, !.w = w]
  BY DEF Undo
<1>2. IsCall(k) /\ k.pc = "pundo" /\ k.f = g /\ k.w = w
  BY <1>1 DEF IsCall, Idle
<1> QED BY <1>2 DEF Makes, Making

LEMMA PipeGivesUp ==
    ASSUME FileInv, NEW p \in Proc, NEW c, c = call[p], c.pc \in {"pipe", "kalloc"},
           NEW k, k = Undo(c.f, c.w), call' = [call EXCEPT ![p] = k], ftable' = ftable,
           ofile' = ofile, alive' = alive, lock' = lock, inop' = inop,
           inode' = inode, disk' = disk, installed' = installed
    PROVE  FileInv'
<1>1. /\ MakesOK(c) /\ p \in alive /\ p \notin inop
      /\ \A f \in FileId : Makes(c, f) <=> f \in {c.f, c.w}
  BY Piping
<1>2. IsCall(k) /\ k.pc = "pundo" /\ k.f = c.f /\ k.w = c.w /\ \A f : Makes(k, f) <=> f \in {c.f, c.w}
  BY UndoIs
<1>3. \A f \in FileId : Makes(call[p], f) <=> Makes(k, f)
  BY <1>1, <1>2
<1>4. CallOK(p, k)' /\ k.pc \notin Referring
  <2>1. MakesOK(k)'
    BY <1>1, <1>2 DEF MakesOK
  <2>2. p \in alive' /\ p \notin inop' /\ k.pc \in {"pipe", "kalloc", "pundo"}
    BY <1>1, <1>2
  <2> QED BY <2>1, <2>2, PipeCall
<1>5. Disks' /\ \A i \in Inum : KeepsLive(p, i)
  BY Unchanged
<1>6. /\ inop' \subseteq alive /\ inop' \subseteq inop \cup {p} /\ lock' \in [Inum -> Proc \cup {0}]
      /\ \A i \in Inum, q \in Proc : lock[i] = q /\ q # p => lock'[i] = q
  BY CallAt
<1> QED BY <1>2, <1>3, <1>4, <1>5, <1>6, CallMove

LEMMA PipeNoPageKeeps == ASSUME FileInv, NEW p \in Proc, PipeNoPage(p) PROVE FileInv'
<1>1. PICK c, k : c = call[p] /\ k = Undo(c.f, c.w)
  OBVIOUS
<1>2. /\ c.pc \in {"pipe", "kalloc"} /\ call' = [call EXCEPT ![p] = k] /\ ftable' = ftable
      /\ ofile' = ofile /\ alive' = alive /\ lock' = lock /\ inop' = inop
      /\ inode' = inode /\ disk' = disk /\ installed' = installed
  BY <1>1 DEF PipeNoPage, At, Goto, fileVars, dataVars, logVars
<1> QED BY <1>1, <1>2, PipeGivesUp

LEMMA PipeallocKeeps == ASSUME FileInv, NEW p \in Proc, Pipealloc(p) PROVE FileInv'
<1>1. PICK c, g, w : c = call[p] /\ g = c.f /\ w = Min(FreeFiles)
  OBVIOUS
<1>2. /\ c.pc = "pipe" /\ alive' = alive /\ ofile' = ofile
      /\ inop' = inop /\ lock' = lock /\ inode' = inode /\ disk' = disk /\ installed' = installed
  BY <1>1 DEF Pipealloc, At, dataVars, logVars
<1>3. /\ MakesOK(c) /\ p \in alive /\ p \notin inop
      /\ \A f \in FileId : Makes(c, f) <=> f \in {c.f, c.w}
      /\ \A f \in FileId : f \in {c.f, c.w} => ftable[f].ref = 1 /\ ftable[f].type # "inode"
  BY <1>1, <1>2, Piping
<1>4. g \in FileId /\ c.w = 0 /\ \A f \in FileId : Makes(c, f) <=> f = g
  BY <1>1, <1>2, <1>3, FileSets DEF MakesOK
<1>5. CASE FreeFiles = {}
  <2>1. PICK k : k = Undo(c.f, c.w)
    OBVIOUS
  <2>2. call' = [call EXCEPT ![p] = k] /\ ftable' = ftable
    BY <1>1, <1>4, <1>5, <2>1 DEF Pipealloc, Goto
  <2>3. c.pc \in {"pipe", "kalloc"}
    BY <1>2
  <2> QED BY <1>1, <1>2, <2>1, <2>2, <2>3, PipeGivesUp
<1>6. CASE FreeFiles # {}
  <2>1. PICK k : k = [Idle EXCEPT !.pc = "kalloc", !.f = g, !.w = w]
    OBVIOUS
  <2>2. call' = [call EXCEPT ![p] = k] /\ ftable' = Filealloc(ftable, w)
    BY <1>1, <1>6, <2>1 DEF Pipealloc, Goto
  <2>3. w \in FileId /\ ftable[w].ref = 0 /\ w # g
    BY <1>1, <1>3, <1>4, <1>6, FirstFree
  <2>4. /\ \A q \in Proc, fd \in Fd : ofile[q][fd] # w
        /\ \A q \in Proc : ~Makes(call[q], w)
    BY <2>3, FreeFile
  <2>5. PICK t : ftable' = [ftable EXCEPT ![w] = t] /\ IsFile(t) /\ t.ref = 1 /\ t.type # "inode"
    BY <2>2, <2>3, FileTaken
  <2>6. ftable'[w] = t /\ \A f \in FileId : f # w => ftable'[f] = ftable[f]
    BY <2>3, <2>5, OneFile
  <2>7. IsCall(k) /\ k.pc = "kalloc" /\ k.f = g /\ k.w = w
    BY <2>1 DEF IsCall, Idle
  <2>8. \A f \in FileId : (Makes(k, f) <=> f \in {g, w}) /\ (Makes(call[p], f) <=> f = g)
    BY <1>1, <1>4, <2>7 DEF Makes, Making
  <2>9. Counts'
    <3>1. One(Makes(call[p], w)) = 0 /\ One(Makes(k, w)) = 1
      BY <2>3, <2>8 DEF One
    <3>2. ftable'[w].ref = ftable[w].ref - One(Makes(call[p], w)) + One(Makes(k, w))
      BY <2>3, <2>5, <2>6, <3>1
    <3>3. Set(call, p, k, call') /\ ofile' = ofile
      BY <1>2, <2>2, OneCall
    <3>4. \A f \in FileId : f # w => (Makes(call[p], f) <=> Makes(k, f))
      BY <2>8
    <3> QED BY <2>3, <2>6, <3>2, <3>3, <3>4, MakeCounts
  <2>10. CallOK(p, k)' /\ k.pc \notin Referring
    <3>1. p \in alive' /\ p \notin inop' /\ k.pc \in {"pipe", "kalloc", "pundo"}
      BY <1>2, <1>3, <2>7
    <3>2. ftable'[g].ref = 1 /\ ftable'[g].type # "inode" /\ ftable'[w].ref = 1 /\ ftable'[w].type # "inode"
      BY <1>1, <1>3, <1>4, <2>3, <2>5, <2>6
    <3>3. MakesOK(k)'
      BY <1>4, <2>3, <2>7, <3>2, FileSets DEF MakesOK
    <3> QED BY <3>1, <3>3, PipeCall
  <2>11. Disks' /\ \A i \in Inum : KeepsLive(p, i)
    BY <1>2, Unchanged
  <2>12. /\ call' = [call EXCEPT ![p] = k] /\ ofile' = ofile /\ alive' = alive
         /\ inop' = inop /\ lock' = lock /\ \A q \in Proc : q # p => ~Makes(call[q], w)
    BY <1>2, <2>2, <2>4
  <2> QED BY <2>3, <2>4, <2>5, <2>7, <2>9, <2>10, <2>11, <2>12, PipeStep
<1> QED BY <1>5, <1>6

LEMMA PipeUndoKeeps == ASSUME FileInv, NEW p \in Proc, PipeUndo(p) PROVE FileInv'
<1>1. PICK c, g : c = call[p] /\ g = c.f
  OBVIOUS
<1>2. PICK k : k = IF c.w = 0 THEN Idle ELSE Undo(c.w, 0)
  OBVIOUS
<1>3. c.pc = "pundo" /\ ofile' = ofile /\ Fileclose(p, g, k)
  BY <1>1, <1>2 DEF PipeUndo, At
<1>4. /\ MakesOK(c) /\ p \in alive /\ p \notin inop
      /\ \A f \in FileId : Makes(c, f) <=> f \in {c.f, c.w}
      /\ \A f \in FileId : f \in {c.f, c.w} =>
            /\ ftable[f].ref = 1 /\ ftable[f].type # "inode"
            /\ \A q \in Proc, fd \in Fd : ofile[q][fd] # f
            /\ \A q \in Proc : q # p => ~Makes(call[q], f)
  BY <1>1, <1>3, Piping
<1>5. g \in FileId /\ c.w \in FileId \cup {0} /\ g # c.w
  BY <1>1, <1>4 DEF MakesOK
<1>6. /\ ftable[g].ref = 1 /\ ftable[g].type # "inode"
      /\ \A q \in Proc, fd \in Fd : ofile[q][fd] # g
      /\ \A q \in Proc : q # p => ~Makes(call[q], g)
  BY <1>1, <1>4, <1>5
<1>7. /\ ftable' = Fileput(ftable, g) /\ call' = [call EXCEPT ![p] = k] /\ alive' = alive
      /\ inop' = inop /\ lock' = lock /\ inode' = inode /\ disk' = disk /\ installed' = installed
  BY <1>3, <1>6 DEF Fileclose, Goto, dataVars, logVars
<1>8. PICK t : ftable' = [ftable EXCEPT ![g] = t] /\ IsFile(t) /\ t.ref = 0 /\ t.type = "none"
  BY <1>5, <1>6, <1>7, FileGivenBack
<1>9. ftable'[g] = t /\ \A f \in FileId : f # g => ftable'[f] = ftable[f]
  BY <1>5, <1>8, OneFile
<1>10. IsCall(k) /\ \A f \in FileId : Makes(k, f) <=> f = c.w
  <2>1. CASE c.w = 0
    BY <1>2, <2>1, IdleIs, FileSets
  <2>2. CASE c.w # 0
    <3>1. PICK z : z = 0
      OBVIOUS
    <3>2. k = Undo(c.w, z)
      BY <1>2, <2>2, <3>1
    <3>3. IsCall(k) /\ \A f : Makes(k, f) <=> f \in {c.w, z}
      BY <3>2, UndoIs
    <3> QED BY <3>1, <3>3, FileSets
  <2> QED BY <2>1, <2>2
<1>11. Counts'
  <2>1. One(Makes(call[p], g)) = 1 /\ One(Makes(k, g)) = 0
    BY <1>1, <1>4, <1>5, <1>10 DEF One
  <2>2. ftable'[g].ref = ftable[g].ref - One(Makes(call[p], g)) + One(Makes(k, g))
    BY <1>6, <1>8, <1>9, <2>1
  <2>3. Set(call, p, k, call') /\ ofile' = ofile
    BY <1>3, <1>7, OneCall
  <2>4. \A f \in FileId : f # g => (Makes(call[p], f) <=> Makes(k, f))
    BY <1>1, <1>4, <1>10
  <2> QED BY <1>5, <1>9, <2>2, <2>3, <2>4, MakeCounts
<1>12. CallOK(p, k)' /\ k.pc \notin Referring
  <2>1. CASE c.w = 0
    <3>1. k.pc = "idle"
      BY <1>2, <2>1, IdleIs
    <3> QED BY <1>4, <1>7, <3>1 DEF CallOK, Referring, Writing, Making
  <2>2. CASE c.w # 0
    <3>1. PICK z : z = 0
      OBVIOUS
    <3>2. k = Undo(c.w, z)
      BY <1>2, <2>2, <3>1
    <3>3. k.pc = "pundo" /\ k.f = c.w /\ k.w = 0
      BY <3>1, <3>2, UndoIs
    <3>4. c.w \in FileId /\ ftable'[c.w].ref = 1 /\ ftable'[c.w].type # "inode"
      BY <1>4, <1>5, <1>9, <2>2
    <3>5. MakesOK(k)'
      BY <3>3, <3>4, FileSets DEF MakesOK
    <3>6. p \in alive' /\ p \notin inop' /\ k.pc \in {"pipe", "kalloc", "pundo"}
      BY <1>4, <1>7, <3>3
    <3> QED BY <3>5, <3>6, PipeCall
  <2> QED BY <2>1, <2>2
<1>13. Disks' /\ \A i \in Inum : KeepsLive(p, i)
  BY <1>7, Unchanged
<1>14. /\ call' = [call EXCEPT ![p] = k] /\ ofile' = ofile /\ alive' = alive
       /\ inop' = inop /\ lock' = lock /\ t.type # "inode"
  BY <1>3, <1>7, <1>8
<1> QED BY <1>5, <1>6, <1>8, <1>10, <1>11, <1>12, <1>13, <1>14, PipeStep

LEMMA PipeFileIs ==
    ASSUME NEW v, NEW w, NEW t,
           t = [ref |-> 1, type |-> "pipe", ip |-> 0, off |-> 0, readable |-> v, writable |-> w]
    PROVE  IsFile(t) /\ t.ref = 1 /\ t.type = "pipe"
<1>1. 0 \in 0..Top
  BY TopNat
<1> QED BY <1>1 DEF IsFile

(* Both files of a pipe get their descriptor.                               *)
LEMMA PipeMade ==
    ASSUME FileInv, NEW p \in Proc, NEW k, ~(\E f : Makes(k, f)), Set(call, p, k, call'),
           NEW g \in FileId, NEW w \in FileId, w # g,
           \A f \in FileId : Makes(call[p], f) <=> f \in {g, w},
           NEW e1 \in Fd, NEW e2 \in Fd, NEW o, ofile[p][e1] = 0, o[p][e2] = 0,
           Put(ofile, p, e1, g, o), Put(o, p, e2, w, ofile'),
           \A f \in FileId : ftable'[f].ref = ftable[f].ref
    PROVE  Counts'
<1> SUFFICES ASSUME NEW f \in FileId PROVE Counted(f)'
  BY DEF Counts, Counted
<1>1. PICK c, u : c = call' /\ u = ofile'
  OBVIOUS
<1>2. Set(call, p, k, c) /\ Put(o, p, e2, w, u)
  BY <1>1
<1>3. PICK a1, a2 : a1 = One(g = f) /\ a2 = One(w = f)
  OBVIOUS
<1>4. a1 \in Nat /\ a2 \in Nat
  BY <1>3 DEF One
<1>5. /\ ftable[f].ref = Cardinality(HeldIn(ofile, f)) + Cardinality(MakingIn(call, f))
      /\ Cardinality(HeldIn(ofile, f)) \in Nat /\ Cardinality(MakingIn(call, f)) \in Nat
  BY FileAt
<1>6. Cardinality(HeldIn(o, f)) = Cardinality(HeldIn(ofile, f)) + a1
  <2>1. Cardinality(HeldIn(o, f)) = Cardinality(HeldIn(ofile, f)) - One(ofile[p][e1] = f) + One(g = f)
    BY HeldChange
  <2>2. One(ofile[p][e1] = f) = 0
    BY FileSets DEF One
  <2> QED BY <1>3, <1>4, <1>5, <2>1, <2>2
<1>7. Cardinality(HeldIn(u, f)) = Cardinality(HeldIn(o, f)) + a2
  <2>1. Cardinality(HeldIn(u, f)) = Cardinality(HeldIn(o, f)) - One(o[p][e2] = f) + One(w = f)
    BY <1>2, HeldChange
  <2>2. One(o[p][e2] = f) = 0
    BY FileSets DEF One
  <2> QED BY <1>3, <1>4, <1>5, <1>6, <2>1, <2>2
<1>8. Cardinality(MakingIn(c, f)) = Cardinality(MakingIn(call, f)) - (a1 + a2)
  <2>1. Cardinality(MakingIn(c, f)) = Cardinality(MakingIn(call, f)) - One(Makes(call[p], f))
                                    + One(Makes(k, f))
    BY <1>2, MakingChange
  <2>2. One(Makes(k, f)) = 0
    BY DEF One
  <2>3. One(Makes(call[p], f)) = a1 + a2
    BY <1>3 DEF One
  <2> QED BY <1>4, <1>5, <2>1, <2>2, <2>3
<1>9. ftable'[f].ref = Cardinality(HeldIn(u, f)) + Cardinality(MakingIn(c, f))
  BY <1>4, <1>5, <1>6, <1>7, <1>8
<1> QED BY <1>1, <1>9 DEF Counted

LEMMA PipeFdsKeeps == ASSUME FileInv, NEW p \in Proc, PipeFds(p) PROVE FileInv'
<1>1. PICK c, g, w : c = call[p] /\ g = c.f /\ w = c.w
  OBVIOUS
<1>2. PICK tg, tw :
        /\ tg = [NoFile EXCEPT !.ref = 1, !.type = "pipe", !.readable = ~FALSE, !.writable = FALSE]
        /\ tw = [NoFile EXCEPT !.ref = 1, !.type = "pipe", !.readable = ~TRUE, !.writable = TRUE]
  OBVIOUS
<1>3. /\ c.pc = "kalloc" /\ ftable' = [[ftable EXCEPT ![g] = tg] EXCEPT ![w] = tw]
      /\ alive' = alive /\ inop' = inop /\ lock' = lock
      /\ inode' = inode /\ disk' = disk /\ installed' = installed
  BY <1>1, <1>2 DEF PipeFds, At, PipeFile, dataVars, logVars
<1>4. /\ MakesOK(c) /\ p \in alive /\ p \notin inop
      /\ \A f \in FileId : Makes(c, f) <=> f \in {c.f, c.w}
      /\ \A f \in FileId : f \in {c.f, c.w} =>
            /\ ftable[f].ref = 1 /\ ftable[f].type # "inode"
            /\ \A q \in Proc, fd \in Fd : ofile[q][fd] # f
            /\ \A q \in Proc : q # p => ~Makes(call[q], f)
  BY <1>1, <1>3, Piping
<1>5. g \in FileId /\ w \in FileId /\ w # g /\ ftable[g].ref = 1 /\ ftable[w].ref = 1
  BY <1>1, <1>3, <1>4 DEF MakesOK
<1>6. /\ ftable = [f \in FileId |-> ftable[f]] /\ \A f \in FileId : IsFile(ftable[f])
      /\ ofile \in Descriptors /\ alive \subseteq Proc /\ inop \subseteq alive
      /\ lock \in [Inum -> Proc \cup {0}]
  BY CallAt DEF FileInv, Shapes
<1>7. IsFile(tg) /\ tg.ref = 1 /\ tg.type = "pipe" /\ IsFile(tw) /\ tw.ref = 1 /\ tw.type = "pipe"
  <2>1. PICK v, u : v = TRUE /\ u = FALSE
    OBVIOUS
  <2>2. /\ tg = [ref |-> 1, type |-> "pipe", ip |-> 0, off |-> 0, readable |-> v, writable |-> u]
        /\ tw = [ref |-> 1, type |-> "pipe", ip |-> 0, off |-> 0, readable |-> u, writable |-> v]
    BY <1>2, <2>1 DEF NoFile
  <2> QED BY <2>2, PipeFileIs
<1>8. /\ ftable'[g] = tg /\ ftable'[w] = tw
      /\ \A f \in FileId : f # g /\ f # w => ftable'[f] = ftable[f]
      /\ ftable' = [f \in FileId |-> ftable'[f]]
  BY <1>3, <1>5, <1>6
<1>9. (\A f \in FileId : IsFile(ftable'[f])) /\ \A f \in FileId : ftable'[f].ref = ftable[f].ref
  BY <1>5, <1>6, <1>7, <1>8
<1>10. Disks' /\ \A i \in Inum : KeepsLive(p, i)
  BY <1>3, Unchanged
<1>11. \A f \in FileId : OpensLive(f)
  <2> SUFFICES ASSUME NEW f \in FileId PROVE OpensLive(f)
    OBVIOUS
  <2>1. CASE f = g \/ f = w
    BY <1>7, <1>8, <2>1 DEF OpensLive
  <2>2. CASE f # g /\ f # w
    BY <1>8, <2>2 DEF OpensLive
  <2> QED BY <2>1, <2>2
<1>12. SUFFICES \E k : /\ IsCall(k) /\ call' = [call EXCEPT ![p] = k] /\ ofile' \in Descriptors
                       /\ (\A q \in Proc : q # p => ofile'[q] = ofile[q]) /\ Counts'
                       /\ CallOK(p, k)' /\ k.pc \notin Referring
  <2>1. PICK k : /\ IsCall(k) /\ call' = [call EXCEPT ![p] = k] /\ ofile' \in Descriptors
                 /\ (\A q \in Proc : q # p => ofile'[q] = ofile[q]) /\ Counts'
                 /\ CallOK(p, k)' /\ k.pc \notin Referring
    BY <1>12
  <2>2. Live'
    BY <1>10, <1>11, <2>1, LiveKeeps
  <2>3. Set(call, p, k, call')
    BY <2>1, OneCall
  <2>4. ASSUME NEW q \in Proc, q # p PROVE LeftAlone(q)
    <3>1. call'[q] = call[q] /\ ofile'[q] = ofile[q] /\ alive' = alive /\ inop' = inop /\ lock' = lock
      BY <1>3, <2>1, <2>3, <2>4 DEF Set
    <3>2. \A f \in FileId : Makes(call[q], f) => ftable'[f] = ftable[f]
      BY <1>1, <1>4, <1>5, <1>8, <2>4
    <3>3. \A f \in FileId, fd \in Fd : ofile[q][fd] = f => ftable'[f] = ftable[f]
      BY <1>1, <1>4, <1>5, <1>8
    <3> QED BY <3>1, <3>2, <3>3 DEF LeftAlone
  <2>5. alive' \subseteq Proc /\ inop' \subseteq alive' /\ lock' \in [Inum -> Proc \cup {0}]
    BY <1>3, <1>6
  <2>6. ftable' = [f \in FileId |-> ftable'[f]] /\ \A f \in FileId : IsFile(ftable'[f])
    BY <1>8, <1>9
  <2> QED BY <1>10, <2>1, <2>2, <2>4, <2>5, <2>6, Step
<1>13. PICK e, o : e = Min(FreeFds(ofile, p)) /\ o = Fdalloc(ofile, p, g)
  OBVIOUS
<1>14. CASE FreeFds(ofile, p) # {} /\ FreeFds(o, p) # {}
  <2>1. PICK e2, k : e2 = Min(FreeFds(o, p)) /\ k = Idle
    OBVIOUS
  <2>2. /\ call' = [call EXCEPT ![p] = k] /\ o = [ofile EXCEPT ![p][e] = g]
        /\ ofile' = [o EXCEPT ![p][e2] = w]
    BY <1>1, <1>13, <1>14, <2>1 DEF PipeFds, Goto, Fdalloc
  <2>3. e \in Fd /\ ofile[p][e] = 0 /\ e2 \in Fd /\ o[p][e2] = 0
    BY <1>13, <1>14, <2>1, FirstFd
  <2>4. /\ ofile' \in Descriptors /\ \A q \in Proc : q # p => ofile'[q] = ofile[q]
        /\ Put(ofile, p, e, g, o) /\ Put(o, p, e2, w, ofile')
    <3>1. o \in Descriptors /\ Put(ofile, p, e, g, o) /\ \A q \in Proc : q # p => o[q] = ofile[q]
      BY <1>5, <1>6, <2>2, <2>3 DEF Descriptors, Put
    <3>2. ofile' \in Descriptors /\ Put(o, p, e2, w, ofile') /\ \A q \in Proc : q # p => ofile'[q] = o[q]
      BY <1>5, <2>2, <2>3, <3>1 DEF Descriptors, Put
    <3> QED BY <3>1, <3>2
  <2>5. IsCall(k) /\ k.pc = "idle" /\ ~(\E f : Makes(k, f))
    BY <2>1, IdleIs
  <2>6. Counts'
    <3>1. Set(call, p, k, call')
      BY <2>2, OneCall
    <3>2. \A f \in FileId : Makes(call[p], f) <=> f \in {g, w}
      BY <1>1, <1>4
    <3> QED BY <1>5, <1>9, <2>3, <2>4, <2>5, <3>1, <3>2, PipeMade
  <2>7. CallOK(p, k)' /\ k.pc \notin Referring
    BY <1>3, <1>4, <2>5 DEF CallOK, Referring, Writing, Making
  <2> QED BY <2>2, <2>4, <2>5, <2>6, <2>7
<1>15. CASE FreeFds(ofile, p) = {} \/ FreeFds(o, p) = {}
  <2>1. PICK k : k = Undo(g, w)
    OBVIOUS
  <2>2. call' = [call EXCEPT ![p] = k] /\ ofile' = ofile
    <3>1. CASE FreeFds(ofile, p) = {}
      BY <1>1, <2>1, <3>1 DEF PipeFds, Goto
    <3>2. CASE FreeFds(ofile, p) # {}
      <4>1. /\ call' = [call EXCEPT ![p] = k] /\ o = [ofile EXCEPT ![p][e] = g]
            /\ ofile' = [o EXCEPT ![p][e] = 0]
        BY <1>1, <1>13, <1>15, <2>1, <3>2 DEF PipeFds, Goto, Fdalloc, TakenBack
      <4>2. e \in Fd /\ ofile[p][e] = 0
        BY <1>13, <3>2, FirstFd
      <4>3. ofile' = ofile
        <5>1. ofile' \in Descriptors /\ ofile \in Descriptors
          BY <1>5, <1>6, <4>1, <4>2 DEF Descriptors
        <5>2. ASSUME NEW q \in Proc, NEW x \in Fd PROVE ofile'[q][x] = ofile[q][x]
          BY <1>6, <4>1, <4>2 DEF Descriptors
        <5>3. ASSUME NEW q \in Proc PROVE ofile'[q] = ofile[q]
          BY <5>1, <5>2 DEF Descriptors
        <5> QED BY <5>1, <5>3 DEF Descriptors
      <4> QED BY <4>1, <4>3
    <3> QED BY <3>1, <3>2
  <2>3. IsCall(k) /\ k.pc = "pundo" /\ k.f = g /\ k.w = w /\ \A f : Makes(k, f) <=> f \in {g, w}
    BY <2>1, UndoIs
  <2>4. Counts'
    <3>1. \A f \in FileId : Makes(call[p], f) <=> Makes(k, f)
      BY <1>1, <1>4, <2>3
    <3>2. Set(call, p, k, call')
      BY <2>2, OneCall
    <3>3. \A f \in FileId : MakingIn(call', f) = MakingIn(call, f)
      BY <3>1, <3>2 DEF MakingIn, Makes, Set
    <3>4. \A f \in FileId : HeldIn(ofile', f) = HeldIn(ofile, f)
      BY <2>2
    <3> QED BY <1>9, <3>3, <3>4 DEF FileInv, Counts
  <2>5. CallOK(p, k)' /\ k.pc \notin Referring
    <3>1. MakesOK(k)'
      BY <1>5, <1>7, <1>8, <2>3, FileSets DEF MakesOK
    <3>2. p \in alive' /\ p \notin inop' /\ k.pc \in {"pipe", "kalloc", "pundo"}
      BY <1>3, <1>4, <2>3
    <3> QED BY <3>1, <3>2, PipeCall
  <2>6. ofile' \in Descriptors /\ \A q \in Proc : q # p => ofile'[q] = ofile[q]
    BY <1>6, <2>2
  <2> QED BY <2>2, <2>3, <2>4, <2>5, <2>6
<1> QED BY <1>14, <1>15

(* fork gives the child every descriptor of the parent.                     *)
FdsOf(p, f) == {fd \in Fd : ofile[p][fd] = f}

LEMMA ForkHeld ==
    ASSUME NEW p \in Proc, NEW q \in Proc, NEW f \in FileId, NEW u,
           \A fd \in Fd : ofile[q][fd] = 0 /\ u[q][fd] = ofile[p][fd],
           \A x \in Proc : x # q => u[x] = ofile[x]
    PROVE  /\ Cardinality(HeldIn(u, f)) = Cardinality(HeldIn(ofile, f)) + Cardinality(FdsOf(p, f))
           /\ Cardinality(FdsOf(p, f)) \in Nat
<1>1. PICK S, T, R : S = FdsOf(p, f) /\ T = {q} \X S /\ R = HeldIn(ofile, f)
  OBVIOUS
<1>2. IsFiniteSet(S) /\ Cardinality(S) \in Nat
  <2>1. S \subseteq Fd
    BY <1>1 DEF FdsOf
  <2> QED BY <2>1, FileSets, FS_Subset, FS_CardinalityType
<1>3. IsFiniteSet(T) /\ Cardinality(T) = Cardinality(S)
  <2>1. IsFiniteSet({q}) /\ Cardinality({q}) = 1
    BY FS_Singleton
  <2>2. IsFiniteSet({q} \X S) /\ Cardinality({q} \X S) = Cardinality({q}) * Cardinality(S)
    BY <1>2, <2>1, FS_Product
  <2>3. 1 * Cardinality(S) = Cardinality(S)
    BY <1>2
  <2> QED BY <1>1, <2>1, <2>2, <2>3
<1>4. IsFiniteSet(R) /\ Cardinality(R) \in Nat
  BY <1>1, HeldFinite
<1>5. HeldIn(u, f) = R \cup T
  <2>1. \A x \in Proc, e \in Fd : u[x][e] = f <=> ofile[x][e] = f \/ (x = q /\ ofile[p][e] = f)
    BY FileSets
  <2>2. \A y \in Proc \X Fd : y = <<y[1], y[2]>> /\ y[1] \in Proc /\ y[2] \in Fd
    OBVIOUS
  <2>3. \A y \in Proc \X Fd : y \in T <=> y[1] = q /\ ofile[p][y[2]] = f
    BY <1>1, <2>2 DEF FdsOf
  <2>4. R \subseteq Proc \X Fd /\ T \subseteq Proc \X Fd /\ HeldIn(u, f) \subseteq Proc \X Fd
    BY <1>1 DEF HeldIn, FdsOf
  <2>5. \A y \in Proc \X Fd : y \in HeldIn(u, f) <=> y \in R \/ y \in T
    BY <1>1, <2>1, <2>2, <2>3 DEF HeldIn
  <2> QED BY <2>4, <2>5
<1>6. R \cap T = {}
  BY <1>1, FileSets DEF HeldIn, FdsOf
<1>7. Cardinality(R \cup T) = Cardinality(R) + Cardinality(T) - Cardinality(R \cap T)
  BY <1>3, <1>4, FS_Union
<1>8. Cardinality(R \cap T) = 0
  BY <1>6, FS_EmptySet
<1> QED BY <1>1, <1>2, <1>3, <1>4, <1>5, <1>7, <1>8

LEMMA ForkFilesKeeps ==
    ASSUME FileInv, NEW p \in Proc, NEW q \in Proc, ForkFiles(p, q) PROVE FileInv'
<1>1. PICK k : k = call[p]
  OBVIOUS
<1>2. /\ k.pc = "idle" /\ p \in alive /\ q \notin alive /\ alive' = alive \cup {q}
      /\ ofile' = [ofile EXCEPT ![q] = ofile[p]]
      /\ ftable' = [f \in FileId |-> [ftable[f] EXCEPT !.ref = @ + Cardinality(FdsOf(p, f))]]
      /\ call' = call /\ inop' = inop /\ lock' = lock
      /\ inode' = inode /\ disk' = disk /\ installed' = installed
  BY <1>1 DEF ForkFiles, Start, FdsOf, dataVars, logVars
<1>3. /\ CallOK(p, k) /\ IsCall(k) /\ call = [x \in Proc |-> call[x]] /\ ofile \in Descriptors
      /\ alive \subseteq Proc /\ inop \subseteq alive /\ lock \in [Inum -> Proc \cup {0}]
      /\ CallOK(q, call[q])
  BY <1>1, CallAt
<1>4. p # q /\ p \notin inop /\ q \notin inop /\ call[q].pc = "idle" /\ \A fd \in Fd : ofile[q][fd] = 0
  BY <1>2, <1>3 DEF CallOK
<1>5. /\ ofile' \in Descriptors /\ ofile'[q] = ofile[p] /\ \A x \in Proc : x # q => ofile'[x] = ofile[x]
  BY <1>2, <1>3 DEF Descriptors
<1>6. PICK u : u = ofile'
  OBVIOUS
<1>7. ASSUME NEW f \in FileId
      PROVE  /\ Cardinality(HeldIn(u, f)) = Cardinality(HeldIn(ofile, f)) + Cardinality(FdsOf(p, f))
             /\ Cardinality(FdsOf(p, f)) \in Nat
  <2>1. /\ \A fd \in Fd : ofile[q][fd] = 0 /\ u[q][fd] = ofile[p][fd]
        /\ \A x \in Proc : x # q => u[x] = ofile[x]
    BY <1>4, <1>5, <1>6
  <2> QED BY <2>1, ForkHeld
<1>8. ASSUME NEW f \in FileId
      PROVE  /\ IsFile(ftable'[f]) /\ ftable'[f].ref = ftable[f].ref + Cardinality(FdsOf(p, f))
             /\ ftable'[f].type = ftable[f].type /\ ftable'[f].ip = ftable[f].ip
             /\ ftable'[f].off = ftable[f].off
             /\ Cardinality(FdsOf(p, f)) = 0 => ftable'[f] = ftable[f]
  <2>1. IsFile(ftable[f]) /\ ftable[f].ref \in Nat
    BY FileAt
  <2>2. PICK t, n : t = ftable[f] /\ n = ftable[f].ref + Cardinality(FdsOf(p, f))
    OBVIOUS
  <2>3. PICK v : v = [t EXCEPT !.ref = n]
    OBVIOUS
  <2>4. ftable'[f] = v
    BY <1>2, <2>2, <2>3
  <2>5. n \in Nat /\ (t.type = "inode" => n > 0)
    BY <1>7, <2>1, <2>2 DEF IsFile
  <2>6. IsFile(v) /\ v.ref = n /\ v.type = t.type /\ v.ip = t.ip /\ v.off = t.off
    BY <2>1, <2>2, <2>3, <2>5, RefExcept
  <2>7. Cardinality(FdsOf(p, f)) = 0 => v = t
    <3>1. Cardinality(FdsOf(p, f)) = 0 => n = t.ref
      BY <2>1, <2>2
    <3>2. t = [ref |-> t.ref, type |-> t.type, ip |-> t.ip, off |-> t.off,
               readable |-> t.readable, writable |-> t.writable]
      BY <2>1, <2>2 DEF IsFile
    <3>3. v = [ref |-> n, type |-> t.type, ip |-> t.ip, off |-> t.off,
               readable |-> t.readable, writable |-> t.writable]
      BY <2>3, <3>2
    <3> QED BY <3>1, <3>2, <3>3
  <2> QED BY <2>2, <2>4, <2>6, <2>7
<1>9. ftable' = [f \in FileId |-> ftable'[f]]
  BY <1>2
<1>10. Counts'
  <2> SUFFICES ASSUME NEW f \in FileId PROVE Counted(f)'
    BY DEF Counts, Counted
  <2>1. /\ ftable[f].ref = Cardinality(HeldIn(ofile, f)) + Cardinality(MakingIn(call, f))
        /\ Cardinality(HeldIn(ofile, f)) \in Nat /\ Cardinality(MakingIn(call, f)) \in Nat
    BY FileAt
  <2>2. ftable'[f].ref = Cardinality(HeldIn(u, f)) + Cardinality(MakingIn(call, f))
    BY <1>7, <1>8, <2>1
  <2> QED BY <1>2, <1>6, <2>2 DEF Counted
<1>11. Disks' /\ \A i \in Inum : KeepsLive(p, i)
  BY <1>2, Unchanged
<1>12. call' = [call EXCEPT ![p] = k] /\ k.pc \notin Referring
  BY <1>1, <1>2, <1>3 DEF Referring
<1>13. Live'
  <2>1. \A f \in FileId : OpensLive(f)
    BY <1>8 DEF OpensLive
  <2> QED BY <1>11, <1>12, <2>1, LiveKeeps
<1>14. CallOK(p, k)'
  BY <1>2, <1>4 DEF CallOK, Referring, Writing, Making
<1>15. CallOK(q, call[q])'
  <2>1. call'[q].pc = "idle" /\ q \in alive' /\ q \notin inop'
    BY <1>2, <1>4
  <2> QED BY <2>1 DEF CallOK, Referring, Writing, Making
<1>16. ASSUME NEW x \in Proc, x # p, x # q PROVE LeftAlone(x)
  <2>1. /\ call'[x] = call[x] /\ ofile'[x] = ofile[x] /\ (x \in alive' <=> x \in alive)
        /\ inop' = inop /\ lock' = lock
    BY <1>2, <1>5, <1>16
  <2>2. ASSUME NEW f \in FileId, Makes(call[x], f) PROVE ftable'[f] = ftable[f]
    <3>1. \A fd \in Fd : ofile[p][fd] # f
      BY <2>2, MadeFile
    <3>2. FdsOf(p, f) = {}
      BY <3>1 DEF FdsOf
    <3>3. Cardinality(FdsOf(p, f)) = 0
      BY <3>2, FS_EmptySet
    <3> QED BY <1>8, <3>3
  <2> QED BY <1>8, <2>1, <2>2 DEF LeftAlone
<1>17. \A x \in Proc : x # p => LeftAlone(x) \/ CallOK(x, call[x])'
  BY <1>15, <1>16
<1>18. /\ ofile' \in Descriptors /\ alive' \subseteq Proc /\ inop' \subseteq alive'
       /\ lock' \in [Inum -> Proc \cup {0}] /\ \A f \in FileId : IsFile(ftable'[f])
  BY <1>2, <1>3, <1>5, <1>8
<1>19. call' = [call EXCEPT ![p] = k] /\ IsCall(k)
  BY <1>3, <1>12
<1> QED BY <1>9, <1>10, <1>11, <1>13, <1>14, <1>17, <1>18, <1>19, Step

(***************************************************************************)
(* The theorems.                                                           *)
(***************************************************************************)
LEMMA FileInvNext == FileInv /\ [Next]_vars => FileInv'
<1> SUFFICES ASSUME FileInv, [Next]_vars PROVE FileInv'
  OBVIOUS
<1>1. CASE UNCHANGED vars
  BY <1>1 DEF vars, FileInv, Shapes, Disks, Counts, Live, Calls, CallOK, MakesOK
<1>2. ASSUME NEW p \in Proc, NEW i \in Inum, SysOpen(p, i) \/ Unlink(p, i) PROVE FileInv'
  BY <1>2, SysOpenKeeps, UnlinkKeeps
<1>3. ASSUME NEW p \in Proc, NEW fd \in Fd, SysDup(p, fd) \/ SysClose(p, fd) PROVE FileInv'
  BY <1>3, SysDupKeeps, SysCloseKeeps
<1>4. ASSUME NEW p \in Proc, NEW fd \in Fd, NEW n \in WriteSizes,
             Fileread(p, fd, n) \/ Filewrite(p, fd, n)
      PROVE  FileInv'
  BY <1>4, FilereadKeeps, FilewriteKeeps
<1>5. ASSUME NEW p \in Proc,
             CloseBegin(p) \/ Iput(p) \/ CloseEnd(p) \/ SysPipe(p) \/ Pipealloc(p)
      PROVE  FileInv'
  BY <1>5, CloseBeginKeeps, IputKeeps, CloseEndKeeps, SysPipeKeeps, PipeallocKeeps
<1>9. ASSUME NEW p \in Proc, PipeNoPage(p) \/ PipeFds(p) \/ PipeUndo(p) PROVE FileInv'
  BY <1>9, PipeNoPageKeeps, PipeFdsKeeps, PipeUndoKeeps
<1>10. ASSUME NEW p \in Proc, OpenFd(p, TRUE, TRUE) \/ OpenFd(p, FALSE, TRUE) \/ OpenNoFd(p)
       PROVE  FileInv'
  BY <1>10, OpenFdKeeps, OpenNoFdKeeps
<1>6. ASSUME NEW p \in Proc, SysExit(p) \/ ExitFiles(p) \/ \E q \in Proc : ForkFiles(p, q)
      PROVE  FileInv'
  BY <1>6, SysExitKeeps, ExitFilesKeeps, ForkFilesKeeps
<1>7. ASSUME NEW p \in Proc,
             WriteBegin(p) \/ WriteLock(p) \/ WriteBlock(p) \/ WriteDone(p) \/ WriteEnd(p)
      PROVE  FileInv'
  BY <1>7, WriteBeginKeeps, WriteLockKeeps, WriteBlockKeeps, WriteDoneKeeps, WriteEndKeeps
<1>8. ASSUME Crash PROVE FileInv'
  BY <1>8, RestartKeeps DEF Crash
<1> QED BY <1>1, <1>2, <1>3, <1>4, <1>5, <1>6, <1>7, <1>8, <1>9, <1>10 DEF Next

(* The inductive invariant of the file table, the descriptors and the calls *)
(* of file.c and sysfile.c.                                                 *)
THEOREM FileInvariant == Spec => []FileInv
<1>1. Init => FileInv
  BY FileInvInit
<1>2. FileInv /\ [Next]_vars => FileInv'
  BY FileInvNext
<1> QED BY <1>1, <1>2, PTL DEF Spec

(* File.FilesCounted: f->ref is exactly the number of descriptors, in any   *)
(* process, that hold the file, and one while sys_open or sys_pipe has it   *)
(* without a descriptor, on their way to success or, lacking a file, a page *)
(* or a descriptor, back; and the inode of an open file is live, in every   *)
(* state, crashes and panics of balloc included.                            *)
THEOREM FilesAreCounted == Spec => []FilesCounted
<1>1. FileInv => FilesCounted
  <2> SUFFICES ASSUME FileInv PROVE FilesCounted
    OBVIOUS
  <2>1. TypeOK
    <3>1. \A f \in FileId : ftable[f].ref \in Nat /\ ftable[f].off \in 0..(MAXFILE * BSIZE)
      BY FileAt DEF Top
    <3>2. \A i \in Inum : inode[i].size \in 0..(MAXFILE * BSIZE)
      BY DEF FileInv, Disks, AreInodes, IsInode, Top
    <3>3. disk.used \subseteq Block
      BY DEF FileInv, Disks, IsDisk
    <3>4. /\ ofile \in [Proc -> [Fd -> FileId \cup {0}]] /\ alive \subseteq Proc
          /\ inop \subseteq alive /\ lock \in [Inum -> Proc \cup {0}]
      BY DEF FileInv, Shapes
    <3> QED BY <3>1, <3>2, <3>3, <3>4 DEF TypeOK
  <2>2. \A f \in FileId : ftable[f].type = "inode" => inode[ftable[f].ip].live
    BY DEF FileInv, Live
  <2> QED BY <2>1, <2>2 DEF FilesCounted, FileInv, Counts, HeldIn, MakingIn
<1> QED BY <1>1, FileInvariant, PTL
(***************************************************************************)
(* The blocks of an inode are told apart by paths: the direct addresses,   *)
(* the table of indirect ones at NDIRECT, and the entries of the table.    *)
(***************************************************************************)
Paths == 0..MAXFILE
PathOf(bn) == IF bn < NDIRECT THEN bn ELSE bn + 1

(* The block at path k of inode n, for the contents t of the blocks.        *)
Addr(n, t, k) ==
    IF k <= NDIRECT THEN n.addrs[k]
    ELSE IF n.addrs[NDIRECT] = 0 THEN 0 ELSE t[n.addrs[NDIRECT]][k - NDIRECT - 1]

Contents == [Block -> [0..(BSIZE - 1) -> Nat]]
AddrsOK(n) == n.addrs \in [0..NDIRECT -> Block \cup {0}]

(* A block is at the end of one path, and those that are at the end of some *)
(* path are the ones in use.                                                *)
OnePath(s, t) ==
    \A i, j \in Inum : \A k, l \in Paths :
       Addr(s[i], t, k) # 0 /\ Addr(s[i], t, k) = Addr(s[j], t, l) => i = j /\ k = l
Marked(s, u, t) ==
    \A b \in Block : b \in u <=> \E i \in Inum : \E k \in Paths : Addr(s[i], t, k) = b
MapOK(s, u, t) ==
    /\ t \in Contents /\ u \subseteq Block
    /\ \A i \in Inum : AddrsOK(s[i])
    /\ \A i \in Inum : \A k \in Paths : Addr(s[i], t, k) \in Block \cup {0}
    /\ OnePath(s, t) /\ Marked(s, u, t)

LEMMA PathFacts ==
    /\ NDIRECT \in Nat /\ NDIRECT >= 1 /\ NINDIRECT \in Nat /\ NINDIRECT >= 1
    /\ NINDIRECT <= BSIZE /\ BSIZE \in Nat /\ BSIZE >= 1
    /\ MAXFILE = NDIRECT + NINDIRECT /\ NDIRECT \in Paths /\ 0..NDIRECT \subseteq Paths
    /\ 0 \notin Block /\ Block \subseteq Nat
<1>1. /\ NDIRECT \in Nat /\ NDIRECT >= 1 /\ NINDIRECT \in Nat /\ NINDIRECT >= 1
      /\ NINDIRECT <= BSIZE /\ BSIZE \in Nat /\ BSIZE >= 1
  BY FileAssumption
<1>2. 0 \notin Block /\ Block \subseteq Nat
  BY FileFacts DEF Block
<1> QED BY <1>1, <1>2 DEF MAXFILE, Paths

LEMMA PathIs ==
    ASSUME NEW bn \in 0..(MAXFILE - 1)
    PROVE  /\ PathOf(bn) \in Paths /\ PathOf(bn) # NDIRECT
           /\ bn < NDIRECT => PathOf(bn) = bn
           /\ ~(bn < NDIRECT) => /\ PathOf(bn) = bn + 1 /\ PathOf(bn) > NDIRECT
                                 /\ bn - NDIRECT \in 0..(NINDIRECT - 1)
                                 /\ bn - NDIRECT \in 0..(BSIZE - 1)
                                 /\ PathOf(bn) - NDIRECT - 1 = bn - NDIRECT
BY PathFacts DEF PathOf, Paths

(* Block b, not in use so far, is put at the end of an empty path.          *)
LEMMA MapAlloc ==
    ASSUME NEW s, NEW u, NEW t, MapOK(s, u, t), NEW i \in Inum, NEW k \in Paths,
           NEW b \in Block, b \notin u, NEW v, NEW c, c \in Contents,
           \A j \in Inum : AddrsOK(v[j]),
           \A j \in Inum : \A l \in Paths :
              Addr(v[j], c, l) = IF j = i /\ l = k THEN b ELSE Addr(s[j], t, l),
           Addr(s[i], t, k) = 0
    PROVE  MapOK(v, u \cup {b}, c)
<1>1. /\ u \subseteq Block
      /\ \A j \in Inum : \A l \in Paths : Addr(s[j], t, l) \in Block \cup {0}
      /\ \A x, j \in Inum : \A y, l \in Paths :
           Addr(s[x], t, y) # 0 /\ Addr(s[x], t, y) = Addr(s[j], t, l) => x = j /\ y = l
      /\ \A d \in Block : d \in u <=> \E j \in Inum : \E l \in Paths : Addr(s[j], t, l) = d
  BY DEF MapOK, OnePath, Marked
<1>2. \A j \in Inum : \A l \in Paths : Addr(s[j], t, l) # b
  BY <1>1
<1>3. b # 0
  BY PathFacts
<1>4. \A j \in Inum : \A l \in Paths : Addr(v[j], c, l) \in Block \cup {0}
  BY <1>1
<1>5. OnePath(v, c)
  <2> SUFFICES ASSUME NEW x \in Inum, NEW j \in Inum, NEW y \in Paths, NEW l \in Paths,
                      Addr(v[x], c, y) # 0, Addr(v[x], c, y) = Addr(v[j], c, l)
               PROVE  x = j /\ y = l
    BY DEF OnePath
  <2>1. CASE x = i /\ y = k
    BY <1>2, <2>1
  <2>2. CASE ~(x = i /\ y = k) /\ j = i /\ l = k
    BY <1>2, <2>2
  <2>3. CASE ~(x = i /\ y = k) /\ ~(j = i /\ l = k)
    BY <1>1, <2>3
  <2> QED BY <2>1, <2>2, <2>3
<1>6. Marked(v, u \cup {b}, c)
  <2> SUFFICES ASSUME NEW d \in Block
               PROVE  d \in u \cup {b} <=> \E j \in Inum : \E l \in Paths : Addr(v[j], c, l) = d
    BY DEF Marked
  <2>1. CASE d = b
    BY <2>1
  <2>2. CASE d # b
    <3>1. ASSUME d \in u PROVE \E j \in Inum : \E l \in Paths : Addr(v[j], c, l) = d
      <4>1. PICK j \in Inum, l \in Paths : Addr(s[j], t, l) = d
        BY <1>1, <3>1
      <4>2. ~(j = i /\ l = k)
        BY <4>1, PathFacts
      <4>3. Addr(v[j], c, l) = d
        BY <4>1, <4>2
      <4> QED BY <4>3
    <3>2. ASSUME NEW j \in Inum, NEW l \in Paths, Addr(v[j], c, l) = d PROVE d \in u
      <4>1. ~(j = i /\ l = k)
        BY <2>2, <3>2
      <4>2. Addr(s[j], t, l) = d
        BY <3>2, <4>1
      <4> QED BY <1>1, <4>2
    <3> QED BY <2>2, <3>1, <3>2
  <2> QED BY <2>1, <2>2
<1>7. u \cup {b} \subseteq Block
  BY <1>1
<1> QED BY <1>4, <1>5, <1>6, <1>7 DEF MapOK

(* Nothing changes of the paths.                                            *)
LEMMA MapSame ==
    ASSUME NEW s, NEW u, NEW t, MapOK(s, u, t), NEW v, NEW c, c \in Contents,
           \A j \in Inum : AddrsOK(v[j]),
           \A j \in Inum : \A l \in Paths : Addr(v[j], c, l) = Addr(s[j], t, l)
    PROVE  MapOK(v, u, c)
<1>1. /\ u \subseteq Block
      /\ \A j \in Inum : \A l \in Paths : Addr(s[j], t, l) \in Block \cup {0}
      /\ \A x, j \in Inum : \A y, l \in Paths :
           Addr(s[x], t, y) # 0 /\ Addr(s[x], t, y) = Addr(s[j], t, l) => x = j /\ y = l
      /\ \A d \in Block : d \in u <=> \E j \in Inum : \E l \in Paths : Addr(s[j], t, l) = d
  BY DEF MapOK, OnePath, Marked
<1>2. OnePath(v, c)
  BY <1>1 DEF OnePath
<1>3. Marked(v, u, c)
  BY <1>1 DEF Marked
<1>4. \A j \in Inum : \A l \in Paths : Addr(v[j], c, l) \in Block \cup {0}
  BY <1>1
<1> QED BY <1>1, <1>2, <1>3, <1>4 DEF MapOK

(* The blocks of inode i are given back.                                    *)
Frees(s, u, t, i, v, w) ==
    /\ w \subseteq Block
    /\ \A b \in Block : b \in w <=> b \in u /\ \A k \in Paths : Addr(s[i], t, k) # b
    /\ \A j \in Inum : AddrsOK(v[j])
    /\ \A k \in Paths : Addr(v[i], t, k) = 0
    /\ \A j \in Inum : j # i => v[j] = s[j]

LEMMA MapFree ==
    ASSUME NEW s, NEW u, NEW t, MapOK(s, u, t), NEW i \in Inum, NEW v, NEW w,
           Frees(s, u, t, i, v, w)
    PROVE  MapOK(v, w, t)
<1> SUFFICES
      ASSUME \A b \in Block : b \in w <=> b \in u /\ \A k \in Paths : Addr(s[i], t, k) # b,
             w \subseteq Block,
             \A j \in Inum : AddrsOK(v[j]), \A k \in Paths : Addr(v[i], t, k) = 0,
             \A j \in Inum : j # i => v[j] = s[j]
      PROVE  MapOK(v, w, t)
  BY DEF Frees
<1>1. /\ t \in Contents
      /\ \A j \in Inum : \A l \in Paths : Addr(s[j], t, l) \in Block \cup {0}
      /\ \A x, j \in Inum : \A y, l \in Paths :
           Addr(s[x], t, y) # 0 /\ Addr(s[x], t, y) = Addr(s[j], t, l) => x = j /\ y = l
      /\ \A d \in Block : d \in u <=> \E j \in Inum : \E l \in Paths : Addr(s[j], t, l) = d
  BY DEF MapOK, OnePath, Marked
<1>2. \A j \in Inum : \A l \in Paths : Addr(v[j], t, l) = IF j = i THEN 0 ELSE Addr(s[j], t, l)
  OBVIOUS
<1>3. OnePath(v, t)
  BY <1>1, <1>2 DEF OnePath
<1>4. \A j \in Inum : \A l \in Paths : Addr(v[j], t, l) \in Block \cup {0}
  BY <1>1, <1>2
<1>5. Marked(v, w, t)
  <2> SUFFICES ASSUME NEW b \in Block
               PROVE  b \in w <=> \E j \in Inum : \E l \in Paths : Addr(v[j], t, l) = b
    BY DEF Marked
  <2>1. ASSUME b \in w PROVE \E j \in Inum : \E l \in Paths : Addr(v[j], t, l) = b
    <3>1. PICK j \in Inum, l \in Paths : Addr(s[j], t, l) = b
      BY <1>1, <2>1
    <3>2. j # i
      BY <2>1, <3>1
    <3>3. Addr(v[j], t, l) = b
      BY <1>2, <3>1, <3>2
    <3> QED BY <3>3
  <2>2. ASSUME NEW j \in Inum, NEW l \in Paths, Addr(v[j], t, l) = b PROVE b \in w
    <3>1. j # i /\ Addr(s[j], t, l) = b /\ b # 0
      BY <1>2, <2>2, PathFacts
    <3>2. \A k \in Paths : Addr(s[i], t, k) # b
      BY <1>1, <3>1
    <3>3. b \in u
      BY <1>1, <3>1
    <3> QED BY <3>2, <3>3
  <2> QED BY <2>1, <2>2
<1> QED BY <1>1, <1>3, <1>4, <1>5 DEF MapOK

(* The table of an inode is a block in use, and of no other inode.          *)
LEMMA TableOf ==
    ASSUME NEW s, NEW u, NEW t, MapOK(s, u, t), NEW i \in Inum, s[i].addrs[NDIRECT] # 0
    PROVE  /\ s[i].addrs[NDIRECT] \in Block /\ s[i].addrs[NDIRECT] \in u
           /\ \A j \in Inum : j # i => s[j].addrs[NDIRECT] # s[i].addrs[NDIRECT]
           /\ \A j \in Inum : \A k \in Paths :
                Addr(s[j], t, k) = s[i].addrs[NDIRECT] => j = i /\ k = NDIRECT
<1>1. NDIRECT \in Paths /\ NDIRECT \in 0..NDIRECT
  BY PathFacts
<1>2. \A j \in Inum : Addr(s[j], t, NDIRECT) = s[j].addrs[NDIRECT]
  BY <1>1, PathFacts DEF Addr
<1>3. s[i].addrs[NDIRECT] \in Block
  BY <1>1 DEF MapOK, AddrsOK
<1> QED BY <1>1, <1>2, <1>3 DEF MapOK, OnePath, Marked

LEMMA ContentsZeroed == ASSUME NEW t \in Contents, NEW b \in Block
                        PROVE  [t EXCEPT ![b] = Zeroed] \in Contents
<1>1. Zeroed \in [0..(BSIZE - 1) -> Nat]
  BY DEF Zeroed
<1> QED BY <1>1 DEF Contents

(* Block b becomes a direct block of inode i, or its empty table.           *)
TakesDirect(s, u, t, i, k, b, v, c) ==
    /\ b \in Block /\ b \notin u /\ s[i].addrs[k] = 0 /\ c \in Contents
    /\ \A d \in Block : d # b => c[d] = t[d]
    /\ \A x \in 0..(BSIZE - 1) : c[b][x] = 0
    /\ AddrsOK(v[i]) /\ \A l \in 0..NDIRECT : v[i].addrs[l] = IF l = k THEN b ELSE s[i].addrs[l]
    /\ \A j \in Inum : j # i => v[j] = s[j]

(* The end of path k of inode i is b, all else is as before.                *)
Took(s, t, i, k, b, v, c) ==
    \A j \in Inum : \A l \in Paths :
       Addr(v[j], c, l) = IF j = i /\ l = k THEN b ELSE Addr(s[j], t, l)

LEMMA PathsDirect ==
    ASSUME NEW s, NEW u, NEW t, MapOK(s, u, t), NEW i \in Inum, NEW k \in 0..NDIRECT,
           NEW b, NEW v, NEW c, TakesDirect(s, u, t, i, k, b, v, c)
    PROVE  MapOK(v, u \cup {b}, c) /\ Took(s, t, i, k, b, v, c)
<1> SUFFICES ASSUME b \in Block, b \notin u, s[i].addrs[k] = 0, c \in Contents,
           \A d \in Block : d # b => c[d] = t[d],
           \A x \in 0..(BSIZE - 1) : c[b][x] = 0, AddrsOK(v[i]),
           \A l \in 0..NDIRECT : v[i].addrs[l] = IF l = k THEN b ELSE s[i].addrs[l],
           \A j \in Inum : j # i => v[j] = s[j]
    PROVE  /\ MapOK(v, u \cup {b}, c)
           /\ \A j \in Inum : \A l \in Paths :
                Addr(v[j], c, l) = IF j = i /\ l = k THEN b ELSE Addr(s[j], t, l)
  BY DEF TakesDirect, Took
<1>3. \A j \in Inum : AddrsOK(v[j])
  BY DEF MapOK
<1>7. NDIRECT \in 0..NDIRECT /\ NDIRECT \in Nat
  BY PathFacts
<1>8. ASSUME NEW j \in Inum, NEW l \in Paths
      PROVE  Addr(v[j], c, l) = IF j = i /\ l = k THEN b ELSE Addr(s[j], t, l)
  <2>1. CASE l \in 0..NDIRECT
    <3>1. Addr(v[j], c, l) = v[j].addrs[l] /\ Addr(s[j], t, l) = s[j].addrs[l]
      BY <2>1, PathFacts DEF Addr
    <3> QED BY <2>1, <3>1
  <2>2. CASE l > NDIRECT
    <3>1. l # k
      BY <1>7, <2>2
    <3>2. /\ Addr(v[j], c, l) = IF v[j].addrs[NDIRECT] = 0 THEN 0
                                ELSE c[v[j].addrs[NDIRECT]][l - NDIRECT - 1]
          /\ Addr(s[j], t, l) = IF s[j].addrs[NDIRECT] = 0 THEN 0
                                ELSE t[s[j].addrs[NDIRECT]][l - NDIRECT - 1]
          /\ l - NDIRECT - 1 \in 0..(BSIZE - 1)
      BY <2>2, PathFacts DEF Addr, Paths
    <3>3. CASE j = i /\ k = NDIRECT
      <4>1. v[j].addrs[NDIRECT] = b /\ s[j].addrs[NDIRECT] = 0
        BY <1>7, <3>3
      <4>2. Addr(s[j], t, l) = 0
        BY <3>2, <4>1
      <4>3. Addr(v[j], c, l) = 0
        BY <3>2, <4>1
      <4> QED BY <3>1, <4>2, <4>3
    <3>4. CASE ~(j = i /\ k = NDIRECT)
      <4>1. v[j].addrs[NDIRECT] = s[j].addrs[NDIRECT]
        BY <1>7, <3>4
      <4>2. CASE s[j].addrs[NDIRECT] = 0
        BY <3>1, <3>2, <4>1, <4>2
      <4>3. CASE s[j].addrs[NDIRECT] # 0
        <5>1. s[j].addrs[NDIRECT] \in Block /\ s[j].addrs[NDIRECT] \in u
          BY <4>3, TableOf
        <5>2. c[s[j].addrs[NDIRECT]] = t[s[j].addrs[NDIRECT]]
          BY <5>1
        <5> QED BY <3>1, <3>2, <4>1, <5>2
      <4> QED BY <4>2, <4>3
    <3> QED BY <3>3, <3>4
  <2> QED BY <2>1, <2>2, PathFacts DEF Paths
<1>9. Addr(s[i], t, k) = 0 /\ k \in Paths
  BY PathFacts DEF Addr, Paths
<1>10. \A j \in Inum : \A l \in Paths :
          Addr(v[j], c, l) = IF j = i /\ l = k THEN b ELSE Addr(s[j], t, l)
  BY <1>8
<1>11. MapOK(v, u \cup {b}, c)
  BY <1>3, <1>9, <1>10, MapAlloc
<1> QED BY <1>10, <1>11

(* Block b becomes entry x of the table of inode i.                         *)
TakesEntry(s, u, t, i, x, b, c) ==
    /\ s[i].addrs[NDIRECT] # 0 /\ t[s[i].addrs[NDIRECT]][x] = 0
    /\ b \in Block /\ b \notin u /\ c \in Contents
    /\ \A d \in Block : d # b /\ d # s[i].addrs[NDIRECT] => c[d] = t[d]
    /\ \A y \in 0..(BSIZE - 1) :
          c[s[i].addrs[NDIRECT]][y] = IF y = x THEN b ELSE t[s[i].addrs[NDIRECT]][y]

LEMMA PathsEntry ==
    ASSUME NEW s, NEW u, NEW t, MapOK(s, u, t), NEW i \in Inum, NEW x \in 0..(NINDIRECT - 1),
           NEW b, NEW c, TakesEntry(s, u, t, i, x, b, c)
    PROVE  MapOK(s, u \cup {b}, c) /\ Took(s, t, i, NDIRECT + 1 + x, b, s, c)
<1> SUFFICES ASSUME s[i].addrs[NDIRECT] # 0, t[s[i].addrs[NDIRECT]][x] = 0,
           b \in Block, b \notin u, c \in Contents,
           \A d \in Block : d # b /\ d # s[i].addrs[NDIRECT] => c[d] = t[d],
           \A y \in 0..(BSIZE - 1) : c[s[i].addrs[NDIRECT]][y] =
                IF y = x THEN b ELSE t[s[i].addrs[NDIRECT]][y]
    PROVE  /\ MapOK(s, u \cup {b}, c)
           /\ \A j \in Inum : \A l \in Paths :
                Addr(s[j], c, l) = IF j = i /\ l = NDIRECT + 1 + x THEN b ELSE Addr(s[j], t, l)
  BY DEF TakesEntry, Took
<1>1. t \in Contents /\ \A j \in Inum : AddrsOK(s[j])
  BY DEF MapOK
<1>3. /\ s[i].addrs[NDIRECT] \in Block /\ s[i].addrs[NDIRECT] \in u
      /\ \A j \in Inum : j # i => s[j].addrs[NDIRECT] # s[i].addrs[NDIRECT]
  BY TableOf
<1>7. PICK k \in Paths : k = NDIRECT + 1 + x /\ k > NDIRECT /\ k - NDIRECT - 1 = x
  BY PathFacts DEF Paths
<1>8. NDIRECT \in Nat /\ x \in Nat
  BY PathFacts
<1>9. ASSUME NEW j \in Inum, NEW l \in Paths
      PROVE  Addr(s[j], c, l) = IF j = i /\ l = k THEN b ELSE Addr(s[j], t, l)
  <2>1. CASE l \in 0..NDIRECT
    <3>1. Addr(s[j], c, l) = s[j].addrs[l] /\ Addr(s[j], t, l) = s[j].addrs[l]
      BY <2>1, PathFacts DEF Addr
    <3>2. l # k
      BY <1>7, <1>8, <2>1
    <3> QED BY <3>1, <3>2
  <2>2. CASE l > NDIRECT
    <3>1. /\ Addr(s[j], c, l) = IF s[j].addrs[NDIRECT] = 0 THEN 0
                                ELSE c[s[j].addrs[NDIRECT]][l - NDIRECT - 1]
          /\ Addr(s[j], t, l) = IF s[j].addrs[NDIRECT] = 0 THEN 0
                                ELSE t[s[j].addrs[NDIRECT]][l - NDIRECT - 1]
          /\ l - NDIRECT - 1 \in 0..(BSIZE - 1)
      BY <2>2, PathFacts DEF Addr, Paths
    <3>2. l = k <=> l - NDIRECT - 1 = x
      BY <1>7, <1>8 DEF Paths
    <3>3. CASE j = i
      BY <3>1, <3>2, <3>3
    <3>4. CASE j # i /\ s[j].addrs[NDIRECT] = 0
      BY <3>1, <3>4
    <3>5. CASE j # i /\ s[j].addrs[NDIRECT] # 0
      <4>1. s[j].addrs[NDIRECT] \in Block /\ s[j].addrs[NDIRECT] \in u
        BY <3>5, TableOf
      <4>2. s[j].addrs[NDIRECT] # s[i].addrs[NDIRECT] /\ s[j].addrs[NDIRECT] # b
        BY <1>3, <3>5, <4>1
      <4>3. c[s[j].addrs[NDIRECT]] = t[s[j].addrs[NDIRECT]]
        BY <4>1, <4>2
      <4> QED BY <3>1, <3>5, <4>3
    <3> QED BY <3>3, <3>4, <3>5
  <2> QED BY <2>1, <2>2, PathFacts DEF Paths
<1>10. Addr(s[i], t, k) = 0
  <2>1. Addr(s[i], t, k) = t[s[i].addrs[NDIRECT]][k - NDIRECT - 1]
    BY <1>7, PathFacts DEF Addr, Paths
  <2> QED BY <1>7, <2>1
<1>11. \A j \in Inum : \A l \in Paths :
          Addr(s[j], c, l) = IF j = i /\ l = k THEN b ELSE Addr(s[j], t, l)
  BY <1>9
<1>12. MapOK(s, u \cup {b}, c)
  BY <1>1, <1>11, <1>10, MapAlloc
<1> QED BY <1>7, <1>11, <1>12

(* The bytes of a block that is no table are written.                       *)
LEMMA PathsWritten ==
    ASSUME NEW s, NEW u, NEW t, MapOK(s, u, t), NEW i \in Inum, NEW k \in Paths, k # NDIRECT,
           Addr(s[i], t, k) # 0, NEW c \in Contents,
           \A d \in Block : d # Addr(s[i], t, k) => c[d] = t[d]
    PROVE  /\ MapOK(s, u, c)
           /\ \A j \in Inum : \A l \in Paths : Addr(s[j], c, l) = Addr(s[j], t, l)
<1>1. \A j \in Inum : AddrsOK(s[j])
  BY DEF MapOK
<1>2. ASSUME NEW j \in Inum, NEW l \in Paths PROVE Addr(s[j], c, l) = Addr(s[j], t, l)
  <2>1. CASE l \in 0..NDIRECT
    <3>1. Addr(s[j], c, l) = s[j].addrs[l] /\ Addr(s[j], t, l) = s[j].addrs[l]
      BY <2>1, PathFacts DEF Addr
    <3> QED BY <3>1
  <2>2. CASE l > NDIRECT
    <3>1. /\ Addr(s[j], c, l) = IF s[j].addrs[NDIRECT] = 0 THEN 0
                                ELSE c[s[j].addrs[NDIRECT]][l - NDIRECT - 1]
          /\ Addr(s[j], t, l) = IF s[j].addrs[NDIRECT] = 0 THEN 0
                                ELSE t[s[j].addrs[NDIRECT]][l - NDIRECT - 1]
      BY <2>2, PathFacts DEF Addr, Paths
    <3>2. CASE s[j].addrs[NDIRECT] = 0
      BY <3>1, <3>2
    <3>3. CASE s[j].addrs[NDIRECT] # 0
      <4>1. s[j].addrs[NDIRECT] \in Block /\ s[j].addrs[NDIRECT] # Addr(s[i], t, k)
        BY <3>3, TableOf
      <4> QED BY <3>1, <4>1
    <3> QED BY <3>2, <3>3
  <2> QED BY <2>1, <2>2, PathFacts DEF Paths
<1> QED BY <1>1, <1>2, MapSame

(***************************************************************************)
(* balloc() and bmap().                                                    *)
(***************************************************************************)
LEMMA BallocIs ==
    ASSUME NEW n, NEW x, IsLookup(x, n), NEW y, y = Balloc(x), ~y.full
    PROVE  \E b \in Block \ x.d.used :
              y = [ino |-> x.ino,
                   d |-> [din |-> x.d.din, used |-> x.d.used \cup {b},
                          data |-> [x.d.data EXCEPT ![b] = Zeroed], text |-> x.d.text],
                   log |-> x.log \cup {BBLOCK(b), DataBlock(b)}, addr |-> b, full |-> x.full]
<1>1. /\ x = [ino |-> x.ino, d |-> x.d, log |-> x.log, addr |-> x.addr, full |-> x.full]
      /\ x.d = [din |-> x.d.din, used |-> x.d.used, data |-> x.d.data, text |-> x.d.text]
  BY DEF IsLookup, IsDisk
<1>2. PICK b : b = Min(Block \ x.d.used)
  OBVIOUS
<1>3. Block \ x.d.used # {}
  <2>1. SUFFICES ASSUME Block \ x.d.used = {} PROVE FALSE
    OBVIOUS
  <2>2. y = [x EXCEPT !.full = TRUE]
    BY <2>1 DEF Balloc
  <2>3. y.full = TRUE
    BY <1>1, <2>2
  <2> QED BY <2>3
<1>4. b \in Block \ x.d.used
  <2>1. Block \ x.d.used \subseteq Nat
    BY PathFacts
  <2> QED BY <1>2, <1>3, <2>1, LeastOf
<1>5. y = [x EXCEPT !.addr = b, !.d.used = @ \cup {b}, !.d.data[b] = Zeroed,
                    !.log = @ \cup {BBLOCK(b), DataBlock(b)}]
  BY <1>2, <1>3 DEF Balloc
<1>6. PICK u, l, t : /\ u = x.d.used \cup {b} /\ l = x.log \cup {BBLOCK(b), DataBlock(b)}
                     /\ t = [x.d.data EXCEPT ![b] = Zeroed]
  OBVIOUS
<1>7. PICK d : d = [din |-> x.d.din, used |-> u, data |-> t, text |-> x.d.text]
  OBVIOUS
<1>8. y = [ino |-> x.ino, d |-> d, log |-> l, addr |-> b, full |-> x.full]
  <2>1. PICK x1 : x1 = [x EXCEPT !.addr = b]
    OBVIOUS
  <2>2. x1 = [ino |-> x.ino, d |-> x.d, log |-> x.log, addr |-> b, full |-> x.full]
    BY <1>1, <2>1
  <2>3. PICK x2 : x2 = [x1 EXCEPT !.d.used = @ \cup {b}]
    OBVIOUS
  <2>4. PICK e : e = [din |-> x.d.din, used |-> u, data |-> x.d.data, text |-> x.d.text]
    OBVIOUS
  <2>5. x2 = [ino |-> x.ino, d |-> e, log |-> x.log, addr |-> b, full |-> x.full]
    BY <1>1, <1>6, <2>2, <2>3, <2>4
  <2>6. PICK x3 : x3 = [x2 EXCEPT !.d.data[b] = Zeroed]
    OBVIOUS
  <2>7. x3 = [ino |-> x.ino, d |-> d, log |-> x.log, addr |-> b, full |-> x.full]
    BY <1>6, <1>7, <2>4, <2>5, <2>6
  <2>8. y = [x3 EXCEPT !.log = @ \cup {BBLOCK(b), DataBlock(b)}]
    BY <1>5, <2>1, <2>3, <2>6
  <2> QED BY <1>6, <2>7, <2>8
<1> QED BY <1>4, <1>6, <1>7, <1>8

(* A block that balloc() returns was free and is cleared.                   *)
LEMMA BallocGives ==
    ASSUME NEW n, NEW x, IsLookup(x, n), x.d.data \in Contents,
           NEW y, y = Balloc(x), ~y.full
    PROVE  /\ y.addr \in Block /\ y.addr \notin x.d.used
           /\ y.d.used = x.d.used \cup {y.addr} /\ y.d.din = x.d.din /\ y.ino = x.ino
           /\ y.d.data \in Contents
           /\ \A b \in Block : b # y.addr => y.d.data[b] = x.d.data[b]
           /\ \A k \in 0..(BSIZE - 1) : y.d.data[y.addr][k] = 0
<1>1. PICK b \in Block \ x.d.used :
              y = [ino |-> x.ino,
                   d |-> [din |-> x.d.din, used |-> x.d.used \cup {b},
                          data |-> [x.d.data EXCEPT ![b] = Zeroed], text |-> x.d.text],
                   log |-> x.log \cup {BBLOCK(b), DataBlock(b)}, addr |-> b, full |-> x.full]
  BY BallocIs
<1>2. PICK t : t = [x.d.data EXCEPT ![b] = Zeroed]
  OBVIOUS
<1>3. t \in Contents
  BY <1>2, ContentsZeroed
<1>4. \A c \in Block : c # b => t[c] = x.d.data[c]
  BY <1>2 DEF Contents
<1>5. \A k \in 0..(BSIZE - 1) : t[b][k] = 0
  <2>1. t[b] = Zeroed
    BY <1>2 DEF Contents
  <2> QED BY <2>1 DEF Zeroed
<1>6. /\ y.addr = b /\ y.d.used = x.d.used \cup {b} /\ y.d.din = x.d.din /\ y.ino = x.ino
      /\ y.d.data = t
  BY <1>1, <1>2
<1> QED BY <1>3, <1>4, <1>5, <1>6

(* The inodes s, with n for inode i.                                        *)
With(s, i, n) == [j \in Inum |-> IF j = i THEN n ELSE s[j]]
Mapped(s, i, x) == MapOK(With(s, i, x.ino), x.d.used, x.d.data)

(* No block is taken from an inode on the way from s, t to v, c.            *)
Extended(s, t, v, c) ==
    \A j \in Inum : \A l \in Paths : Addr(s[j], t, l) # 0 => Addr(v[j], c, l) = Addr(s[j], t, l)
Grew(s, i, x, z) == /\ Extended(With(s, i, x.ino), x.d.data, With(s, i, z.ino), z.d.data)
                    /\ z.d.din = x.d.din

LEMMA WithIs ==
    ASSUME NEW s, NEW i \in Inum, NEW n
    PROVE  With(s, i, n)[i] = n /\ \A j \in Inum : j # i => With(s, i, n)[j] = s[j]
BY DEF With

LEMMA AddrOfMaps ==
    ASSUME NEW n, NEW s, NEW i \in Inum, NEW x, IsLookup(x, n), Mapped(s, i, x),
           NEW k \in 0..NDIRECT, NEW z, z = AddrOf(x, k), ~z.full
    PROVE  /\ Mapped(s, i, z) /\ Grew(s, i, x, z) /\ z.addr = z.ino.addrs[k] /\ z.addr # 0
           /\ x.ino.addrs[k] # 0 => z.ino = x.ino
<1>1. CASE x.ino.addrs[k] # 0
  <2>1. z = [x EXCEPT !.addr = x.ino.addrs[k]]
    BY <1>1 DEF AddrOf
  <2>2. z = [ino |-> x.ino, d |-> x.d, log |-> x.log, addr |-> x.ino.addrs[k], full |-> x.full]
    BY <2>1 DEF IsLookup
  <2>3. z.ino = x.ino /\ z.d = x.d /\ z.addr = x.ino.addrs[k]
    BY <2>2
  <2> QED BY <1>1, <2>3 DEF Mapped, Grew, Extended
<1>2. CASE x.ino.addrs[k] = 0
  <2>1. PICK y : y = Balloc(x)
    OBVIOUS
  <2>2. ~y.full
    BY <1>2, <2>1 DEF AddrOf
  <2>3. x.d.data \in Contents
    BY DEF Mapped, MapOK
  <2>4. /\ y.addr \in Block /\ y.addr \notin x.d.used
        /\ y.d.used = x.d.used \cup {y.addr} /\ y.d.din = x.d.din /\ y.ino = x.ino
        /\ y.d.data \in Contents
        /\ \A b \in Block : b # y.addr => y.d.data[b] = x.d.data[b]
        /\ \A h \in 0..(BSIZE - 1) : y.d.data[y.addr][h] = 0
    BY <2>1, <2>2, <2>3, BallocGives
  <2>5. z = [y EXCEPT !.ino.addrs[k] = y.addr]
    BY <1>2, <2>1, <2>2 DEF AddrOf
  <2>6. IsLookup(y, n)
    BY <2>1, BallocKeeps
  <2>7. PICK a : a = [y.ino.addrs EXCEPT ![k] = y.addr]
    OBVIOUS
  <2>8. z.d = y.d /\ z.addr = y.addr /\ z.ino.addrs = a
    <3>1. /\ y = [ino |-> y.ino, d |-> y.d, log |-> y.log, addr |-> y.addr, full |-> y.full]
          /\ y.ino = [live |-> y.ino.live, nlink |-> y.ino.nlink, size |-> y.ino.size,
                      addrs |-> y.ino.addrs]
      BY <2>6 DEF IsLookup, IsInode
    <3>2. PICK m : m = [live |-> y.ino.live, nlink |-> y.ino.nlink, size |-> y.ino.size,
                        addrs |-> a]
      OBVIOUS
    <3>3. z = [ino |-> m, d |-> y.d, log |-> y.log, addr |-> y.addr, full |-> y.full]
      BY <2>5, <2>7, <3>1, <3>2
    <3> QED BY <3>2, <3>3
  <2>9. PICK v, w : v = With(s, i, x.ino) /\ w = With(s, i, z.ino)
    OBVIOUS
  <2>10. /\ v[i] = x.ino /\ w[i] = z.ino /\ \A j \in Inum : j # i => w[j] = v[j]
    BY <2>9, WithIs
  <2>11. MapOK(v, x.d.used, x.d.data)
    BY <2>9 DEF Mapped
  <2>12. v[i].addrs \in [0..NDIRECT -> Block \cup {0}]
    BY <2>11 DEF MapOK, AddrsOK
  <2>13. /\ AddrsOK(w[i]) /\ v[i].addrs[k] = 0
         /\ \A l \in 0..NDIRECT : w[i].addrs[l] = IF l = k THEN y.addr ELSE v[i].addrs[l]
    <3>1. a = [v[i].addrs EXCEPT ![k] = y.addr] /\ w[i].addrs = a
      BY <2>4, <2>7, <2>8, <2>10
    <3>2. a \in [0..NDIRECT -> Block \cup {0}]
          /\ \A l \in 0..NDIRECT : a[l] = IF l = k THEN y.addr ELSE v[i].addrs[l]
      BY <2>4, <2>12, <3>1
    <3> QED BY <1>2, <2>10, <3>1, <3>2 DEF AddrsOK
  <2>14. TakesDirect(v, x.d.used, x.d.data, i, k, y.addr, w, y.d.data)
    BY <2>4, <2>10, <2>13 DEF TakesDirect
  <2>19. /\ MapOK(w, x.d.used \cup {y.addr}, y.d.data)
         /\ Took(v, x.d.data, i, k, y.addr, w, y.d.data)
    BY <2>11, <2>14, PathsDirect
  <2>15. Mapped(s, i, z)
    BY <2>4, <2>8, <2>9, <2>19 DEF Mapped
  <2>16. Addr(v[i], x.d.data, k) = 0
    BY <2>13, PathFacts DEF Addr
  <2>17. Grew(s, i, x, z)
    BY <2>4, <2>8, <2>9, <2>19, <2>16 DEF Grew, Extended, Took
  <2>18. z.addr = z.ino.addrs[k] /\ z.addr # 0
    BY <2>4, <2>8, <2>10, <2>13, PathFacts
  <2> QED BY <1>2, <2>15, <2>17, <2>18
<1> QED BY <1>1, <1>2

LEMMA ExtendedTrans ==
    ASSUME NEW s, NEW t, NEW v, NEW c, NEW w, NEW d, Extended(s, t, v, c), Extended(v, c, w, d)
    PROVE  Extended(s, t, w, d)
BY DEF Extended

LEMMA BmapMaps ==
    ASSUME NEW n, NEW s, NEW i \in Inum, NEW x, IsLookup(x, n), Mapped(s, i, x),
           NEW bn \in 0..(MAXFILE - 1), NEW z, z = Bmap(x, bn), ~z.full
    PROVE  /\ Mapped(s, i, z) /\ Grew(s, i, x, z)
           /\ z.addr = Addr(z.ino, z.d.data, PathOf(bn)) /\ z.addr # 0
           /\ Addr(x.ino, x.d.data, PathOf(bn)) # 0 => z.ino = x.ino
<1>0. NDIRECT \in 0..NDIRECT /\ NDIRECT \in Nat
  BY PathFacts
<1>1. CASE bn < NDIRECT
  <2>1. bn \in 0..NDIRECT /\ PathOf(bn) = bn
    BY <1>0, <1>1 DEF PathOf
  <2>2. z = AddrOf(x, bn)
    BY <1>1 DEF Bmap
  <2>3. /\ Mapped(s, i, z) /\ Grew(s, i, x, z) /\ z.addr = z.ino.addrs[bn] /\ z.addr # 0
        /\ x.ino.addrs[bn] # 0 => z.ino = x.ino
    BY <2>1, <2>2, AddrOfMaps
  <2>4. Addr(z.ino, z.d.data, bn) = z.ino.addrs[bn] /\ Addr(x.ino, x.d.data, bn) = x.ino.addrs[bn]
    BY <1>0, <2>1 DEF Addr
  <2> QED BY <2>1, <2>3, <2>4
<1>2. CASE ~(bn < NDIRECT)
  <2>1. PICK t, k : t = AddrOf(x, NDIRECT) /\ k = bn - NDIRECT
    OBVIOUS
  <2>2. /\ k \in 0..(NINDIRECT - 1) /\ k \in 0..(BSIZE - 1) /\ PathOf(bn) \in Paths
        /\ PathOf(bn) = NDIRECT + 1 + k /\ PathOf(bn) > NDIRECT /\ PathOf(bn) - NDIRECT - 1 = k
    <3>1. k \in 0..(NINDIRECT - 1) /\ k \in 0..(BSIZE - 1) /\ PathOf(bn) = bn + 1
          /\ PathOf(bn) \in Paths /\ PathOf(bn) > NDIRECT /\ PathOf(bn) - NDIRECT - 1 = k
      BY <1>2, <2>1, PathIs
    <3> QED BY <1>0, <2>1, <3>1
  <2>3. ~t.full
    BY <1>2, <2>1 DEF Bmap
  <2>4. /\ Mapped(s, i, t) /\ Grew(s, i, x, t) /\ t.addr = t.ino.addrs[NDIRECT] /\ t.addr # 0
        /\ x.ino.addrs[NDIRECT] # 0 => t.ino = x.ino
    <3>1. PICK h \in 0..NDIRECT : h = NDIRECT
      BY <1>0
    <3>2. t = AddrOf(x, h)
      BY <2>1, <3>1
    <3>3. /\ Mapped(s, i, t) /\ Grew(s, i, x, t) /\ t.addr = t.ino.addrs[h] /\ t.addr # 0
          /\ x.ino.addrs[h] # 0 => t.ino = x.ino
      BY <2>3, <3>2, AddrOfMaps
    <3> QED BY <3>1, <3>3
  <2>5. IsLookup(t, n)
    BY <2>1, AddrOfKeeps
  <2>6. Addr(x.ino, x.d.data, PathOf(bn)) # 0 => t.ino = x.ino
    <3>1. x.ino.addrs[NDIRECT] = 0 => Addr(x.ino, x.d.data, PathOf(bn)) = 0
      BY <1>0, <2>2 DEF Addr, Paths
    <3> QED BY <2>4, <3>1
  <2>7. \A m, e : m.addrs[NDIRECT] = t.addr => Addr(m, e, PathOf(bn)) = e[t.addr][k]
    BY <1>0, <2>2, <2>4 DEF Addr, Paths
  <2>8. CASE t.d.data[t.addr][k] # 0
    <3>1. z = [t EXCEPT !.addr = t.d.data[t.addr][k]]
      BY <1>2, <2>1, <2>3, <2>8 DEF Bmap
    <3>2. z = [ino |-> t.ino, d |-> t.d, log |-> t.log, addr |-> t.d.data[t.addr][k],
               full |-> t.full]
      BY <2>5, <3>1 DEF IsLookup
    <3>3. z.ino = t.ino /\ z.d = t.d /\ z.addr = t.d.data[t.addr][k]
      BY <3>2
    <3>4. Mapped(s, i, z) /\ Grew(s, i, x, z)
      BY <2>4, <3>3 DEF Mapped, Grew
    <3>5. Addr(t.ino, t.d.data, PathOf(bn)) = t.d.data[t.addr][k]
      BY <2>4, <2>7
    <3> QED BY <2>6, <2>8, <3>3, <3>4, <3>5
  <2>9. CASE t.d.data[t.addr][k] = 0
    <3>1. PICK y : y = Balloc(t)
      OBVIOUS
    <3>2. ~y.full
      BY <1>2, <2>1, <2>3, <2>9, <3>1 DEF Bmap
    <3>3. z = [y EXCEPT !.d.data[t.addr][k] = y.addr, !.log = @ \cup {DataBlock(t.addr)}]
      BY <1>2, <2>1, <2>3, <2>9, <3>1, <3>2 DEF Bmap
    <3>4. t.d.data \in Contents
      BY <2>4 DEF Mapped, MapOK
    <3>5. /\ y.addr \in Block /\ y.addr \notin t.d.used
          /\ y.d.used = t.d.used \cup {y.addr} /\ y.d.din = t.d.din /\ y.ino = t.ino
          /\ y.d.data \in Contents
          /\ \A b \in Block : b # y.addr => y.d.data[b] = t.d.data[b]
      BY <2>5, <3>1, <3>2, <3>4, BallocGives
    <3>6. PICK e : e = [y.d.data EXCEPT ![t.addr][k] = y.addr]
      OBVIOUS
    <3>7. z.ino = y.ino /\ z.d.used = y.d.used /\ z.d.din = y.d.din /\ z.d.data = e /\ z.addr = y.addr
      <4>1. IsLookup(y, n)
        BY <2>5, <3>1, BallocKeeps
      <4>2. /\ y = [ino |-> y.ino, d |-> y.d, log |-> y.log, addr |-> y.addr, full |-> y.full]
            /\ y.d = [din |-> y.d.din, used |-> y.d.used, data |-> y.d.data, text |-> y.d.text]
        BY <4>1 DEF IsLookup, IsDisk
      <4>3. PICK a, b, v : a = y.addr /\ b = t.addr /\ v = y.d
        OBVIOUS
      <4>4. PICK d : d = [din |-> v.din, used |-> v.used, data |-> e, text |-> v.text]
        OBVIOUS
      <4>5. z = [[y EXCEPT !.d.data[b][k] = a] EXCEPT !.log = @ \cup {DataBlock(b)}]
        BY <3>3, <4>3
      <4>6. v = [din |-> v.din, used |-> v.used, data |-> v.data, text |-> v.text]
        BY <4>2, <4>3
      <4>7. [v EXCEPT !.data[b][k] = a] = d
        BY <3>6, <4>3, <4>4, <4>6
      <4>8. [y EXCEPT !.d.data[b][k] = a] = [y EXCEPT !.d = d]
        BY <4>3, <4>7
      <4>9. [y EXCEPT !.d = d] = [ino |-> y.ino, d |-> d, log |-> y.log, addr |-> y.addr, full |-> y.full]
        BY <4>2
      <4>10. z.ino = y.ino /\ z.d = d /\ z.addr = y.addr
        BY <4>5, <4>8, <4>9
      <4> QED BY <4>3, <4>4, <4>10
    <3>8. PICK v : v = With(s, i, t.ino)
      OBVIOUS
    <3>9. MapOK(v, t.d.used, t.d.data) /\ v[i] = t.ino
      <4>1. v[i] = t.ino
        BY <3>8 DEF With
      <4> QED BY <2>4, <3>8, <4>1 DEF Mapped
    <3>10. t.addr \in Block /\ t.addr \in t.d.used /\ t.addr # y.addr
      <4>1. v[i].addrs[NDIRECT] # 0
        BY <2>4, <3>9
      <4>2. v[i].addrs[NDIRECT] \in Block /\ v[i].addrs[NDIRECT] \in t.d.used
        BY <3>9, <4>1, TableOf
      <4> QED BY <2>4, <3>5, <3>9, <4>2
    <3>11. /\ e \in Contents
           /\ \A d \in Block : d # y.addr /\ d # t.addr => e[d] = t.d.data[d]
           /\ \A h \in 0..(BSIZE - 1) : e[t.addr][h] = IF h = k THEN y.addr ELSE t.d.data[t.addr][h]
      <4>1. y.addr \in Nat
        BY <3>5, PathFacts
      <4>2. y.d.data[t.addr] \in [0..(BSIZE - 1) -> Nat] /\ y.d.data[t.addr] = t.d.data[t.addr]
        BY <3>5, <3>10 DEF Contents
      <4>3. PICK w : w = [y.d.data[t.addr] EXCEPT ![k] = y.addr]
        OBVIOUS
      <4>4. /\ w \in [0..(BSIZE - 1) -> Nat]
            /\ \A h \in 0..(BSIZE - 1) : w[h] = IF h = k THEN y.addr ELSE t.d.data[t.addr][h]
        BY <2>2, <4>1, <4>2, <4>3
      <4>5. e = [y.d.data EXCEPT ![t.addr] = w]
        BY <3>6, <4>3
      <4> QED BY <3>5, <3>10, <4>4, <4>5 DEF Contents
    <3>12. TakesEntry(v, t.d.used, t.d.data, i, k, y.addr, e)
      BY <2>4, <2>9, <3>5, <3>9, <3>11 DEF TakesEntry
    <3>13. MapOK(v, t.d.used \cup {y.addr}, e) /\ Took(v, t.d.data, i, PathOf(bn), y.addr, v, e)
      BY <2>2, <3>9, <3>12, PathsEntry
    <3>14. Mapped(s, i, z)
      BY <3>5, <3>7, <3>8, <3>13 DEF Mapped
    <3>15. Addr(v[i], t.d.data, PathOf(bn)) = 0
      BY <2>4, <2>7, <2>9, <3>9
    <3>16. Extended(v, t.d.data, v, e)
      BY <3>13, <3>15 DEF Extended, Took
    <3>17. Grew(s, i, x, z)
      <4>1. Extended(With(s, i, x.ino), x.d.data, v, t.d.data) /\ t.d.din = x.d.din
        BY <2>4, <3>8 DEF Grew
      <4>2. Extended(With(s, i, x.ino), x.d.data, v, e)
        BY <3>16, <4>1, ExtendedTrans
      <4> QED BY <3>5, <3>7, <3>8, <4>1, <4>2 DEF Grew
    <3>18. z.addr = Addr(z.ino, z.d.data, PathOf(bn)) /\ z.addr # 0
      BY <2>2, <3>5, <3>7, <3>9, <3>13, PathFacts DEF Took
    <3> QED BY <2>6, <3>5, <3>7, <3>14, <3>17, <3>18
  <2> QED BY <2>8, <2>9
<1> QED BY <1>1, <1>2

(***************************************************************************)
(* The invariant of the blocks.  What lies below the size of a file is     *)
(* allocated, so that a write which does not grow the file leaves the      *)
(* inode as it is; the inode in the cache differs from the one on the disk *)
(* only while a write that will grow the file holds its lock.              *)
(***************************************************************************)
Reaches(n, t, end) ==
    \A bn \in 0..(MAXFILE - 1) : bn * BSIZE < end => Addr(n, t, PathOf(bn)) # 0
Sound(s, d) ==
    /\ MapOK(s, d.used, d.data)
    /\ \A i \in Inum : Reaches(s[i], d.data, s[i].size)
    /\ \A i \in Inum : ~s[i].live => \A k \in 0..NDIRECT : s[i].addrs[k] = 0

Holders ==
    /\ \A p \in Proc : call[p].pc \in {"ilock", "copy"} => p \in inop
    /\ \A p \in Proc : call[p].pc = "ilock" => call[p].tot = 0

(* Nobody is in the middle of a write to inode i.                           *)
Steady(i) == \A p \in Proc : call[p].pc = "copy" => call[p].ip # i
Synced == \A i \in Inum : Steady(i) => inode[i] = disk.din[i]

CopyOK(c, o, n, t, m) ==
    /\ c.tot \in 0..c.n1 /\ o <= n.size /\ Reaches(n, t, o + c.tot)
    /\ n = m \/ o + c.n1 > n.size
Copying ==
    \A p \in Proc : call[p].pc = "copy" =>
       CopyOK(call[p], ftable[call[p].f].off, inode[call[p].ip], disk.data, disk.din[call[p].ip])

BlockInv ==
    Sound(inode, disk) /\ Sound(installed.din, installed) /\ Holders /\ Synced /\ Copying

(* The blocks of an inode are the ends of its paths.                        *)
LEMMA BlocksAre ==
    ASSUME NEW n, NEW d PROVE Blocks(n, d) = {Addr(n, d.data, k) : k \in Paths} \ {0}
<1>1. ASSUME NEW b PROVE b \in Blocks(n, d) <=> b # 0 /\ \E k \in Paths : Addr(n, d.data, k) = b
  <2>1. b \in Blocks(n, d) <=>
          \/ b # 0 /\ \E k \in 0..(NDIRECT - 1) : n.addrs[k] = b
          \/ n.addrs[NDIRECT] # 0 /\ b = n.addrs[NDIRECT]
          \/ /\ n.addrs[NDIRECT] # 0 /\ b # 0
             /\ \E k \in 0..(NINDIRECT - 1) : d.data[n.addrs[NDIRECT]][k] = b
    BY DEF Blocks
  <2>2. NDIRECT \in Nat /\ NDIRECT >= 1 /\ NINDIRECT \in Nat /\ MAXFILE = NDIRECT + NINDIRECT
    BY PathFacts
  <2>3. ASSUME NEW k \in 0..(NDIRECT - 1), n.addrs[k] = b
        PROVE  \E l \in Paths : Addr(n, d.data, l) = b
    <3>1. k \in Paths /\ Addr(n, d.data, k) = b
      BY <2>2, <2>3 DEF Addr, Paths
    <3> QED BY <3>1
  <2>4. ASSUME b = n.addrs[NDIRECT] PROVE \E l \in Paths : Addr(n, d.data, l) = b
    <3>1. NDIRECT \in Paths /\ Addr(n, d.data, NDIRECT) = b
      BY <2>2, <2>4 DEF Addr, Paths
    <3> QED BY <3>1
  <2>5. ASSUME NEW k \in 0..(NINDIRECT - 1), n.addrs[NDIRECT] # 0,
               d.data[n.addrs[NDIRECT]][k] = b
        PROVE  \E l \in Paths : Addr(n, d.data, l) = b
    <3>1. PICK l \in Paths : l = NDIRECT + 1 + k /\ l > NDIRECT /\ l - NDIRECT - 1 = k
      BY <2>2 DEF Paths
    <3>2. Addr(n, d.data, l) = b
      BY <2>2, <2>5, <3>1 DEF Addr, Paths
    <3> QED BY <3>2
  <2>6. ASSUME b # 0, NEW l \in Paths, Addr(n, d.data, l) = b
        PROVE  \/ \E k \in 0..(NDIRECT - 1) : n.addrs[k] = b
               \/ n.addrs[NDIRECT] # 0 /\ b = n.addrs[NDIRECT]
               \/ /\ n.addrs[NDIRECT] # 0
                  /\ \E k \in 0..(NINDIRECT - 1) : d.data[n.addrs[NDIRECT]][k] = b
    <3>1. CASE l < NDIRECT
      BY <2>2, <2>6, <3>1 DEF Addr, Paths
    <3>2. CASE l = NDIRECT
      BY <2>2, <2>6, <3>2 DEF Addr, Paths
    <3>3. CASE l > NDIRECT
      <4>1. PICK k \in 0..(NINDIRECT - 1) : k = l - NDIRECT - 1
        BY <2>2, <3>3 DEF Paths
      <4>2. n.addrs[NDIRECT] # 0 /\ d.data[n.addrs[NDIRECT]][k] = b
        BY <2>2, <2>6, <3>3, <4>1 DEF Addr, Paths
      <4> QED BY <4>2
    <3> QED BY <2>2, <3>1, <3>2, <3>3 DEF Paths
  <2> QED BY <2>1, <2>3, <2>4, <2>5, <2>6
<1> QED BY <1>1

LEMMA SoundMap == ASSUME NEW d, IsDisk(d), Sound(d.din, d) PROVE MapExact(d)
<1>1. /\ d.used \subseteq Block /\ 0 \notin Block
      /\ \A i \in Inum : \A k \in Paths : Addr(d.din[i], d.data, k) \in Block \cup {0}
      /\ OnePath(d.din, d.data) /\ Marked(d.din, d.used, d.data)
  BY PathFacts DEF Sound, MapOK
<1>2. \A i \in Inum : Blocks(d.din[i], d) = {Addr(d.din[i], d.data, k) : k \in Paths} \ {0}
  BY BlocksAre
<1>3. \A i, j \in Inum : i # j => Blocks(d.din[i], d) \cap Blocks(d.din[j], d) = {}
  BY <1>1, <1>2 DEF OnePath
<1>4. ASSUME NEW b PROVE b \in d.used <=> \E i \in Inum : b \in Blocks(d.din[i], d)
  <2>1. b \in d.used => \E i \in Inum : \E k \in Paths : Addr(d.din[i], d.data, k) = b /\ b # 0
    BY <1>1 DEF Marked
  <2>2. ASSUME NEW i \in Inum, NEW k \in Paths, Addr(d.din[i], d.data, k) = b, b # 0
        PROVE  b \in d.used
    BY <1>1, <2>2 DEF Marked
  <2> QED BY <1>2, <2>1, <2>2
<1>5. d.used = UNION {Blocks(d.din[i], d) : i \in Inum}
  BY <1>4
<1> QED BY <1>3, <1>5 DEF MapExact

LEMMA AllSynced ==
    ASSUME FileInv, BlockInv, inop = {} PROVE inode = disk.din
<1>1. \A i \in Inum : inode[i] = disk.din[i]
  BY DEF BlockInv, Holders, Synced, Steady
<1>2. inode = [i \in Inum |-> inode[i]] /\ disk.din = [i \in Inum |-> disk.din[i]]
  BY DEF FileInv, Disks, IsDisk, AreInodes
<1> QED BY <1>1, <1>2

LEMMA BlockInvExact == FileInv /\ BlockInv => BlocksExact
<1> SUFFICES ASSUME FileInv, BlockInv PROVE BlocksExact
  OBVIOUS
<1>1. MapExact(installed)
  BY SoundMap DEF BlockInv, FileInv, Disks
<1>2. inop = {} => MapExact(disk)
  <2> SUFFICES ASSUME inop = {} PROVE MapExact(disk)
    OBVIOUS
  <2>1. inode = disk.din
    BY AllSynced
  <2> QED BY <2>1, SoundMap DEF BlockInv, FileInv, Disks
<1>3. ASSUME NEW i \in Inum, NEW j \in Inum, i # j
      PROVE  Blocks(inode[i], disk) \cap Blocks(inode[j], disk) = {}
  <2>1. OnePath(inode, disk.data)
    BY DEF BlockInv, Sound, MapOK
  <2>2. /\ Blocks(inode[i], disk) = {Addr(inode[i], disk.data, k) : k \in Paths} \ {0}
        /\ Blocks(inode[j], disk) = {Addr(inode[j], disk.data, k) : k \in Paths} \ {0}
    BY BlocksAre
  <2> QED BY <1>3, <2>1, <2>2 DEF OnePath
<1> QED BY <1>1, <1>2, <1>3 DEF BlocksExact

LEMMA EmptyDiskSound == Sound(EmptyDisk.din, EmptyDisk)
<1>1. /\ EmptyDisk.used = {} /\ EmptyDisk.data = [b \in Block |-> Zeroed]
      /\ EmptyDisk.din = [i \in Inum |-> FreeInode]
  BY DEF EmptyDisk
<1>2. EmptyDisk.data \in Contents
  <2>1. Zeroed \in [0..(BSIZE - 1) -> Nat]
    BY DEF Zeroed
  <2> QED BY <1>1, <2>1 DEF Contents
<1>3. FreeInode.size = 0 /\ FreeInode.addrs = [k \in 0..NDIRECT |-> 0]
  BY DEF FreeInode
<1>4. \A i \in Inum : EmptyDisk.din[i] = FreeInode
  BY <1>1
<1>5. \A k \in Paths : Addr(FreeInode, EmptyDisk.data, k) = 0
  BY <1>3, PathFacts DEF Addr, Paths
<1>6. MapOK(EmptyDisk.din, EmptyDisk.used, EmptyDisk.data)
  <2>1. \A i \in Inum : AddrsOK(EmptyDisk.din[i])
    BY <1>3, <1>4 DEF AddrsOK
  <2>2. \A i \in Inum : \A k \in Paths : Addr(EmptyDisk.din[i], EmptyDisk.data, k) = 0
    BY <1>4, <1>5
  <2> QED BY <1>1, <1>2, <2>1, <2>2, PathFacts DEF MapOK, OnePath, Marked
<1>7. \A bn \in 0..(MAXFILE - 1) : ~(bn * BSIZE < 0)
  <2>1. \A a, b \in Nat : ~(a * b < 0)
    OBVIOUS
  <2> QED BY <2>1, PathFacts
<1> QED BY <1>3, <1>4, <1>6, <1>7 DEF Sound, Reaches

(* With no call under way.                                                  *)
LEMMA QuietBlocks ==
    ASSUME call = [p \in Proc |-> Idle],
           Sound(installed.din, installed), disk = installed, inode = installed.din
    PROVE  BlockInv
<1>1. \A p \in Proc : call[p].pc = "idle"
  BY DEF Idle
<1> QED BY <1>1 DEF BlockInv, Holders, Synced, Copying

LEMMA QuietBlocksNext ==
    ASSUME (call = [p \in Proc |-> Idle])',
           Sound(installed.din, installed)', (disk = installed)', (inode = installed.din)'
    PROVE  BlockInv'
<1>1. \A p \in Proc : call'[p].pc = "idle"
  BY DEF Idle
<1> QED BY <1>1 DEF BlockInv, Holders, Synced, Copying

LEMMA BlockInvInit == Init => BlockInv
<1> SUFFICES ASSUME Init PROVE BlockInv
  OBVIOUS
<1>1. /\ lock = [i \in Inum |-> 0] /\ call = [p \in Proc |-> Idle]
      /\ disk = EmptyDisk /\ inode = EmptyDisk.din /\ installed = EmptyDisk
  BY DEF Init
<1> QED BY <1>1, EmptyDiskSound, QuietBlocks

LEMMA RestartBlocks == ASSUME BlockInv, Restart PROVE BlockInv'
<1>1. /\ lock' = [i \in Inum |-> 0] /\ call' = [p \in Proc |-> Idle]
      /\ disk' = installed /\ inode' = installed.din /\ installed' = installed
  BY DEF Restart
<1>2. Sound(installed.din, installed)'
  BY <1>1 DEF BlockInv
<1> QED BY <1>1, <1>2, QuietBlocksNext

(* The file a copying process writes to, and its inode.                     *)
LEMMA CopyFile ==
    ASSUME FileInv, NEW q \in Proc, call[q].pc = "copy"
    PROVE  /\ call[q].f \in FileId /\ ftable[call[q].f].type = "inode"
           /\ ftable[call[q].f].ip = call[q].ip /\ call[q].ip \in Inum
           /\ lock[call[q].ip] = q /\ q # 0
           /\ ftable[call[q].f].off \in Nat /\ ftable[call[q].f].off + call[q].n1 <= Top
           /\ call[q].n1 \in Nat
<1>1. CallOK(q, call[q])
  BY DEF FileInv, Calls
<1>2. /\ call[q].f \in FileId /\ ftable[call[q].f].type = "inode"
      /\ ftable[call[q].f].ip = call[q].ip /\ lock[call[q].ip] = q
      /\ ftable[call[q].f].off + call[q].n1 <= Top
      /\ call[q].n1 \in 0..(call[q].n - call[q].i)
  BY <1>1 DEF CallOK, Writing
<1>3. call[q].ip \in Inum /\ ftable[call[q].f].off \in 0..Top
  BY <1>2, FileAt DEF IsFile
<1>4. call[q].n1 \in Nat /\ ftable[call[q].f].off \in Nat
  BY <1>2, <1>3
<1> QED BY <1>2, <1>3, <1>4, FileSets

LEMMA Unlocked ==
    ASSUME FileInv, NEW i \in Inum, lock[i] = 0 PROVE Steady(i)
<1> SUFFICES ASSUME NEW p \in Proc, call[p].pc = "copy" PROVE call[p].ip # i
  BY DEF Steady
<1>1. lock[call[p].ip] = p /\ p # 0
  BY CopyFile
<1> QED BY <1>1

(***************************************************************************)
(* A step that starts no write to an inode and ends none.                  *)
(***************************************************************************)
OffsetKept(q) == call[q].pc = "copy" => ftable'[call[q].f].off = ftable[call[q].f].off

(* end_op: what is installed, if anything, is the disk nobody is changing.  *)
Installs == installed' = installed \/ (inop' = {} /\ installed' = disk')

LEMMA InstalledSound ==
    ASSUME FileInv', Sound(inode, disk)', Holders', Synced', Sound(installed.din, installed),
           Installs
    PROVE  Sound(installed.din, installed)'
<1>1. CASE installed' = installed
  BY <1>1
<1>2. CASE inop' = {} /\ installed' = disk'
  <2>1. \A i \in Inum : inode'[i] = disk'.din[i]
    BY <1>2 DEF Holders, Synced, Steady
  <2>2. /\ inode' = [i \in Inum |-> inode'[i]]
        /\ disk'.din = [i \in Inum |-> disk'.din[i]]
    BY DEF FileInv, Disks, IsDisk, AreInodes
  <2>3. inode' = disk'.din
    BY <2>1, <2>2
  <2> QED BY <1>2, <2>3
<1> QED BY <1>1, <1>2 DEF Installs

(* What a step of p leaves to the others, and to those that write.          *)
Kept(p) ==
    \A q \in Proc : q # p =>
       /\ call'[q] = call[q]
       /\ call[q].pc = "copy" =>
            /\ ftable'[call[q].f].off = ftable[call[q].f].off
            /\ inode'[call[q].ip] = inode[call[q].ip]
BlockNext(p) == BlockInv' /\ Kept(p)

LEMMA BlockStep ==
    ASSUME FileInv, FileInv', BlockInv, NEW p \in Proc,
           call[p].pc # "copy", call'[p].pc # "copy",
           call'[p].pc = "ilock" => p \in inop' /\ call'[p].tot = 0,
           \A q \in Proc : q # p => call'[q] = call[q] /\ (q \in inop => q \in inop'),
           Sound(inode, disk)', disk'.data = disk.data,
           \A i \in Inum : Steady(i) => inode'[i] = disk'.din[i],
           \A i \in Inum : ~Steady(i) => inode'[i] = inode[i] /\ disk'.din[i] = disk.din[i],
           \A q \in Proc : OffsetKept(q), Installs
    PROVE  BlockNext(p)
<1>1. Holders'
  <2>2. ASSUME NEW q \in Proc, call'[q].pc \in {"ilock", "copy"} PROVE q \in inop'
    <3>1. CASE q = p
      BY <2>2, <3>1
    <3>2. CASE q # p
      BY <2>2, <3>2 DEF BlockInv, Holders
    <3> QED BY <3>1, <3>2
  <2>3. ASSUME NEW q \in Proc, call'[q].pc = "ilock" PROVE call'[q].tot = 0
    <3>1. CASE q = p
      BY <2>3, <3>1
    <3>2. CASE q # p
      BY <2>3, <3>2 DEF BlockInv, Holders
    <3> QED BY <3>1, <3>2
  <2> QED BY <2>2, <2>3 DEF Holders
<1>2. Synced'
  <2>1. \A i \in Inum : Steady(i)' => Steady(i)
    BY DEF Steady
  <2> QED BY <2>1 DEF Synced
<1>3. Copying'
  <2> SUFFICES ASSUME NEW q \in Proc, call'[q].pc = "copy"
               PROVE  CopyOK(call'[q], ftable'[call'[q].f].off, inode'[call'[q].ip],
                             disk'.data, disk'.din[call'[q].ip])
    BY DEF Copying
  <2>1. q # p /\ call'[q] = call[q] /\ call[q].pc = "copy"
    OBVIOUS
  <2>2. ftable'[call[q].f].off = ftable[call[q].f].off
    BY <2>1 DEF OffsetKept
  <2>3. call[q].ip \in Inum /\ ~Steady(call[q].ip)
    BY <2>1, CopyFile DEF Steady
  <2>4. inode'[call[q].ip] = inode[call[q].ip] /\ disk'.din[call[q].ip] = disk.din[call[q].ip]
    BY <2>3
  <2>5. CopyOK(call[q], ftable[call[q].f].off, inode[call[q].ip], disk.data, disk.din[call[q].ip])
    BY <2>1 DEF BlockInv, Copying
  <2> QED BY <2>1, <2>2, <2>4, <2>5
<1>4. Sound(installed.din, installed)'
  BY <1>1, <1>2, InstalledSound DEF BlockInv
<1>5. BlockInv'
  BY <1>1, <1>2, <1>3, <1>4 DEF BlockInv
<1>6. Kept(p)
  <2> SUFFICES ASSUME NEW q \in Proc, q # p, call[q].pc = "copy"
               PROVE  /\ ftable'[call[q].f].off = ftable[call[q].f].off
                      /\ inode'[call[q].ip] = inode[call[q].ip]
    BY DEF Kept
  <2>1. call[q].ip \in Inum /\ ~Steady(call[q].ip)
    BY CopyFile DEF Steady
  <2> QED BY <2>1 DEF OffsetKept
<1> QED BY <1>5, <1>6 DEF BlockNext

(* The same, when neither the disk nor an inode changes.                    *)
LEMMA BlockStay ==
    ASSUME FileInv, FileInv', BlockInv, NEW p \in Proc,
           call[p].pc # "copy", call'[p].pc # "copy",
           call'[p].pc = "ilock" => p \in inop' /\ call'[p].tot = 0,
           \A q \in Proc : q # p => call'[q] = call[q] /\ (q \in inop => q \in inop'),
           inode' = inode, disk' = disk,
           \A q \in Proc : OffsetKept(q), Installs
    PROVE  BlockNext(p)
<1>1. Sound(inode, disk)' /\ disk'.data = disk.data
  BY DEF BlockInv
<1>2. \A i \in Inum : Steady(i) => inode'[i] = disk'.din[i]
  BY DEF BlockInv, Synced
<1>3. \A i \in Inum : ~Steady(i) => inode'[i] = inode[i] /\ disk'.din[i] = disk.din[i]
  OBVIOUS
<1> QED BY <1>1, <1>2, <1>3, BlockStep

LEMMA OffsetsKept ==
    ASSUME FileInv,
           \A f \in FileId : ftable[f].type = "inode" /\ lock[ftable[f].ip] # 0
                             => ftable'[f].off = ftable[f].off
    PROVE  \A q \in Proc : OffsetKept(q)
<1> SUFFICES ASSUME NEW q \in Proc, call[q].pc = "copy"
             PROVE  ftable'[call[q].f].off = ftable[call[q].f].off
  BY DEF OffsetKept
<1>1. /\ call[q].f \in FileId /\ ftable[call[q].f].type = "inode"
      /\ lock[ftable[call[q].f].ip] # 0
  BY CopyFile
<1> QED BY <1>1

LEMMA OneMoves ==
    ASSUME FileInv, NEW p \in Proc, NEW k, call' = [call EXCEPT ![p] = k]
    PROVE  call'[p] = k /\ \A q \in Proc : q # p => call'[q] = call[q]
BY CallAt

LEMMA EndOpInstalls ==
    ASSUME NEW p \in Proc, EndOp(p)
    PROVE  Installs /\ \A q \in Proc : q # p => (q \in inop => q \in inop')
<1>1. inop' = inop \ {p} /\ installed' = IF LastOut(p) THEN disk' ELSE installed
  BY DEF EndOp
<1> QED BY <1>1 DEF Installs, LastOut

LEMMA CloseBeginBlocks ==
    ASSUME FileInv, FileInv', BlockInv, NEW p \in Proc, CloseBegin(p) PROVE BlockNext(p)
<1>1. PICK k : k = [call[p] EXCEPT !.pc = "iput"]
  OBVIOUS
<1>2. /\ call[p].pc = "cbegin" /\ inop' = inop \cup {p} /\ call' = [call EXCEPT ![p] = k]
      /\ ftable' = ftable /\ inode' = inode
      /\ disk' = disk /\ installed' = installed /\ lock' = lock
  BY <1>1 DEF CloseBegin, At, Now, Goto, fileVars, dataVars
<1>3. k.pc = "iput"
  BY <1>1, CallAt, PcExcept
<1>4. call'[p] = k /\ \A q \in Proc : q # p => call'[q] = call[q] /\ (q \in inop => q \in inop')
  BY <1>2, OneMoves
<1>5. Installs /\ \A q \in Proc : OffsetKept(q)
  BY <1>2 DEF Installs, OffsetKept
<1> QED BY <1>2, <1>3, <1>4, <1>5, BlockStay

LEMMA CloseEndBlocks ==
    ASSUME FileInv, FileInv', BlockInv, NEW p \in Proc, CloseEnd(p) PROVE BlockNext(p)
<1>1. PICK k : k = [Idle EXCEPT !.pc = call[p].then]
  OBVIOUS
<1>2. /\ call[p].pc = "cend" /\ call' = [call EXCEPT ![p] = k] /\ EndOp(p)
      /\ ftable' = ftable /\ inode' = inode /\ disk' = disk /\ lock' = lock
  BY <1>1 DEF CloseEnd, At, Goto, fileVars, dataVars
<1>3. k.pc = call[p].then /\ call[p].then \in {"idle", "exit"}
  BY <1>1, <1>2, CallAt, IdleIs DEF IsCall, CallOK
<1>4. call'[p] = k /\ \A q \in Proc : q # p => call'[q] = call[q] /\ (q \in inop => q \in inop')
  BY <1>2, OneMoves, EndOpInstalls
<1>5. Installs /\ \A q \in Proc : OffsetKept(q)
  BY <1>2, EndOpInstalls DEF OffsetKept
<1>6. k.pc # "copy" /\ k.pc # "ilock"
  BY <1>3
<1> QED BY <1>2, <1>4, <1>5, <1>6, BlockStay

LEMMA SysExitBlocks ==
    ASSUME FileInv, FileInv', BlockInv, NEW p \in Proc, SysExit(p) PROVE BlockNext(p)
<1>1. PICK k : k = [call[p] EXCEPT !.pc = "exit"]
  OBVIOUS
<1>2. /\ call[p].pc = "idle" /\ inop' = inop /\ call' = [call EXCEPT ![p] = k]
      /\ ftable' = ftable /\ inode' = inode
      /\ disk' = disk /\ installed' = installed /\ lock' = lock
  BY <1>1 DEF SysExit, Start, Now, Goto, fileVars, dataVars, logVars
<1>3. k.pc = "exit"
  BY <1>1, CallAt, PcExcept
<1>4. call'[p] = k /\ \A q \in Proc : q # p => call'[q] = call[q] /\ (q \in inop => q \in inop')
  BY <1>2, OneMoves
<1>5. Installs /\ \A q \in Proc : OffsetKept(q)
  BY <1>2 DEF Installs, OffsetKept
<1> QED BY <1>2, <1>3, <1>4, <1>5, BlockStay

LEMMA SysDupBlocks ==
    ASSUME FileInv, FileInv', BlockInv, NEW p \in Proc, NEW fd \in Fd, SysDup(p, fd) PROVE BlockNext(p)
<1>1. PICK g : g = ofile[p][fd]
  OBVIOUS
<1>2. /\ call[p].pc = "idle" /\ inop' = inop /\ call' = call
      /\ ftable' = [ftable EXCEPT ![g].ref = @ + 1] /\ inode' = inode
      /\ disk' = disk /\ installed' = installed /\ lock' = lock
  BY <1>1 DEF SysDup, Start, Fileref, dataVars, logVars
<1>3. ftable = [f \in FileId |-> ftable[f]] /\ \A f \in FileId : IsFile(ftable[f])
  BY DEF FileInv, Shapes
<1>4. \A f \in FileId : ftable'[f].off = ftable[f].off
  BY <1>2, <1>3 DEF IsFile
<1>5. Installs /\ \A q \in Proc : OffsetKept(q)
  BY <1>2, <1>4, OffsetsKept DEF Installs
<1>6. \A q \in Proc : q # p => call'[q] = call[q] /\ (q \in inop => q \in inop')
  BY <1>2
<1> QED BY <1>2, <1>5, <1>6, BlockStay

(* Taking a file and dropping a reference leave the offsets as they are.    *)
LEMMA RefOffsets ==
    ASSUME FileInv, NEW g \in FileId, ftable' \in {Filealloc(ftable, g), Fileput(ftable, g)}
    PROVE  \A f \in FileId : ftable'[f].off = ftable[f].off
<1>1. ftable = [f \in FileId |-> ftable[f]] /\ \A f \in FileId : IsFile(ftable[f])
  BY DEF FileInv, Shapes
<1>2. ASSUME NEW m, ftable' = [ftable EXCEPT ![g].ref = m]
      PROVE  \A f \in FileId : ftable'[f].off = ftable[f].off
  BY <1>1, <1>2 DEF IsFile
<1>3. CASE ftable' = Filealloc(ftable, g)
  BY <1>2, <1>3 DEF Filealloc
<1>4. CASE ftable' = Fileput(ftable, g) /\ ftable[g].ref # 1
  <2>1. PICK m : m = ftable[g].ref + (-1)
    OBVIOUS
  <2>2. ftable' = [ftable EXCEPT ![g].ref = m]
    BY <1>4, <2>1 DEF Fileput, Fileref
  <2> QED BY <1>2, <2>2
<1>5. CASE ftable' = Fileput(ftable, g) /\ ftable[g].ref = 1
  <2>1. ftable' = [ftable EXCEPT ![g] = [[ftable[g] EXCEPT !.ref = 0] EXCEPT !.type = "none"]]
    BY <1>1, <1>5 DEF Fileput
  <2>2. [[ftable[g] EXCEPT !.ref = 0] EXCEPT !.type = "none"].off = ftable[g].off
    BY <1>1 DEF IsFile
  <2> QED BY <1>1, <2>1, <2>2
<1> QED BY <1>3, <1>4, <1>5

(* A step of a call on the file table alone.                                *)
LEMMA TableBlocks ==
    ASSUME FileInv, FileInv', BlockInv, NEW p \in Proc, NEW k,
           call' = [call EXCEPT ![p] = k], call[p].pc # "copy", k.pc \notin {"copy", "ilock"},
           inop' = inop, inode' = inode, disk' = disk, installed' = installed,
           \A f \in FileId : ftable[f].type = "inode" => ftable'[f].off = ftable[f].off
    PROVE  BlockNext(p)
<1>1. call'[p] = k /\ \A q \in Proc : q # p => call'[q] = call[q] /\ (q \in inop => q \in inop')
  BY OneMoves
<1>2. Installs /\ \A q \in Proc : OffsetKept(q)
  BY OffsetsKept DEF Installs
<1> QED BY <1>1, <1>2, BlockStay

LEMMA FilecloseBlocks ==
    ASSUME FileInv, FileInv', BlockInv, NEW p \in Proc, NEW g \in FileId, NEW c,
           call[p].pc # "copy", c.pc \notin {"copy", "ilock"}, Fileclose(p, g, c)
    PROVE  BlockNext(p)
<1>1. PICK b : b = [Idle EXCEPT !.pc = "cbegin", !.ip = ftable[g].ip, !.then = c.pc]
  OBVIOUS
<1>2. PICK k : k = IF ftable[g].ref = 1 /\ ftable[g].type = "inode" THEN b ELSE c
  OBVIOUS
<1>3. /\ ftable' = Fileput(ftable, g) /\ call' = [call EXCEPT ![p] = k] /\ inop' = inop
      /\ inode' = inode /\ disk' = disk /\ installed' = installed
  BY <1>1, <1>2 DEF Fileclose, Goto, dataVars, logVars
<1>4. b.pc = "cbegin"
  BY <1>1 DEF Idle
<1>5. k.pc \notin {"copy", "ilock"}
  BY <1>2, <1>4
<1>6. \A f \in FileId : ftable'[f].off = ftable[f].off
  BY <1>3, RefOffsets
<1> QED BY <1>3, <1>5, <1>6, TableBlocks

LEMMA SysCloseBlocks ==
    ASSUME FileInv, FileInv', BlockInv, NEW p \in Proc, NEW fd \in Fd, SysClose(p, fd) PROVE BlockNext(p)
<1>1. PICK g : g = ofile[p][fd]
  OBVIOUS
<1>2. g \in FileId /\ call[p].pc = "idle" /\ Fileclose(p, g, Idle)
  BY <1>1, CallAt DEF SysClose, Start
<1> QED BY <1>2, IdleIs, FilecloseBlocks

LEMMA ExitFilesBlocks ==
    ASSUME FileInv, FileInv', BlockInv, NEW p \in Proc, ExitFiles(p) PROVE BlockNext(p)
<1>0. call[p].pc = "exit"
  BY DEF ExitFiles, At
<1>1. CASE Fd \ FreeFds(ofile, p) = {}
  <2>1. /\ call' = [call EXCEPT ![p] = Idle] /\ ftable' = ftable /\ inop' = inop
        /\ inode' = inode /\ disk' = disk /\ installed' = installed
    BY <1>1 DEF ExitFiles, Goto, dataVars, logVars
  <2> QED BY <1>0, <2>1, IdleIs, TableBlocks
<1>2. CASE Fd \ FreeFds(ofile, p) # {}
  <2>1. PICK h, g : h = Min(Fd \ FreeFds(ofile, p)) /\ g = ofile[p][h]
    OBVIOUS
  <2>2. h \in Fd \ FreeFds(ofile, p)
    <3>1. Fd \subseteq Nat
      BY FileFacts DEF Fd
    <3>2. Fd \ FreeFds(ofile, p) \subseteq Nat
      BY <3>1
    <3> QED BY <1>2, <2>1, <3>2, LeastOf
  <2>3. g \in FileId
    BY <2>1, <2>2, CallAt DEF FreeFds
  <2>4. PICK c : c = [Idle EXCEPT !.pc = "exit"]
    OBVIOUS
  <2>5. c.pc = "exit" /\ Fileclose(p, g, c)
    BY <1>2, <2>1, <2>4 DEF ExitFiles, Idle
  <2> QED BY <1>0, <2>3, <2>5, FilecloseBlocks
<1> QED BY <1>1, <1>2

(* open and pipe, from the file on.                                         *)
LEMMA OpenFdBlocks ==
    ASSUME FileInv, FileInv', BlockInv, NEW p \in Proc, NEW a, NEW b, OpenFd(p, a, b)
    PROVE  BlockNext(p)
<1>1. PICK g, k, t : g = call[p].f /\ k = Idle
                     /\ t = [ref |-> 1, type |-> "inode", ip |-> call[p].ip, off |-> 0,
                             readable |-> a, writable |-> b]
  OBVIOUS
<1>2. /\ call[p].pc = "open" /\ ftable' = [ftable EXCEPT ![g] = t]
      /\ call' = [call EXCEPT ![p] = k] /\ EndOp(p) /\ inode' = inode /\ disk' = disk
  BY <1>1 DEF OpenFd, At, Goto, dataVars
<1>3. g \in FileId /\ ftable[g].type # "inode"
  BY <1>1, <1>2, Opening
<1>4. \A f \in FileId : f # g => ftable'[f] = ftable[f]
  BY <1>2, <1>3, OneFile
<1>5. call'[p] = k /\ \A q \in Proc : q # p => call'[q] = call[q] /\ (q \in inop => q \in inop')
  BY <1>2, OneMoves, EndOpInstalls
<1>6. Installs
  BY <1>2, EndOpInstalls
<1>7. \A f \in FileId : ftable[f].type = "inode" => ftable'[f].off = ftable[f].off
  BY <1>3, <1>4
<1>8. \A q \in Proc : OffsetKept(q)
  BY <1>7, OffsetsKept
<1>9. k.pc = "idle"
  BY <1>1, IdleIs
<1> QED BY <1>2, <1>5, <1>6, <1>8, <1>9, BlockStay

LEMMA OpenNoFdBlocks ==
    ASSUME FileInv, FileInv', BlockInv, NEW p \in Proc, OpenNoFd(p) PROVE BlockNext(p)
<1>1. PICK g, i : g = call[p].f /\ i = call[p].ip
  OBVIOUS
<1>2. PICK k : k = [Idle EXCEPT !.pc = "iput", !.ip = i]
  OBVIOUS
<1>3. /\ call[p].pc = "open" /\ ftable' = Fileput(ftable, g) /\ call' = [call EXCEPT ![p] = k]
      /\ inode' = inode /\ disk' = disk /\ installed' = installed /\ inop' = inop
  BY <1>1, <1>2 DEF OpenNoFd, At, Goto, dataVars, logVars
<1>4. g \in FileId
  BY <1>1, <1>3, Opening
<1>5. \A f \in FileId : ftable'[f].off = ftable[f].off
  BY <1>3, <1>4, RefOffsets
<1>6. k.pc = "iput"
  BY <1>2 DEF Idle
<1> QED BY <1>3, <1>5, <1>6, TableBlocks

LEMMA SysPipeBlocks ==
    ASSUME FileInv, FileInv', BlockInv, NEW p \in Proc, SysPipe(p) PROVE BlockNext(p)
<1>1. PICK g, k : g = Min(FreeFiles) /\ k = [Idle EXCEPT !.pc = "pipe", !.f = g]
  OBVIOUS
<1>2. /\ call[p].pc = "idle" /\ inop' = inop /\ call' = [call EXCEPT ![p] = k] /\ FreeFiles # {}
      /\ ftable' = Filealloc(ftable, g) /\ inode' = inode
      /\ disk' = disk /\ installed' = installed
  BY <1>1 DEF SysPipe, Start, Goto, dataVars, logVars
<1>3. k.pc = "pipe"
  BY <1>1 DEF Idle
<1>4. g \in FileId
  BY <1>1, <1>2, FirstFree
<1>5. \A f \in FileId : ftable'[f].off = ftable[f].off
  BY <1>2, <1>4, RefOffsets
<1> QED BY <1>2, <1>3, <1>5, TableBlocks

LEMMA PipeallocBlocks ==
    ASSUME FileInv, FileInv', BlockInv, NEW p \in Proc, Pipealloc(p) PROVE BlockNext(p)
<1>1. PICK g, w : g = call[p].f /\ w = Min(FreeFiles)
  OBVIOUS
<1>2. /\ call[p].pc = "pipe" /\ inop' = inop
      /\ inode' = inode /\ disk' = disk /\ installed' = installed
  BY DEF Pipealloc, At, dataVars, logVars
<1>3. CASE FreeFiles = {}
  <2>1. PICK k : k = Undo(g, 0)
    OBVIOUS
  <2>2. call' = [call EXCEPT ![p] = k] /\ ftable' = ftable
    BY <1>1, <1>3, <2>1 DEF Pipealloc, Goto
  <2>3. k.pc = "pundo"
    BY <2>1, UndoIs
  <2> QED BY <1>2, <2>2, <2>3, TableBlocks
<1>4. CASE FreeFiles # {}
  <2>1. PICK k : k = [Idle EXCEPT !.pc = "kalloc", !.f = g, !.w = w]
    OBVIOUS
  <2>2. call' = [call EXCEPT ![p] = k] /\ ftable' = Filealloc(ftable, w)
    BY <1>1, <1>4, <2>1 DEF Pipealloc, Goto
  <2>3. k.pc = "kalloc"
    BY <2>1 DEF Idle
  <2>4. w \in FileId
    BY <1>1, <1>4, FirstFree
  <2>5. \A f \in FileId : ftable'[f].off = ftable[f].off
    BY <2>2, <2>4, RefOffsets
  <2> QED BY <1>2, <2>2, <2>3, <2>5, TableBlocks
<1> QED BY <1>3, <1>4

LEMMA PipeNoPageBlocks ==
    ASSUME FileInv, FileInv', BlockInv, NEW p \in Proc, PipeNoPage(p) PROVE BlockNext(p)
<1>1. PICK k : k = Undo(call[p].f, call[p].w)
  OBVIOUS
<1>2. /\ call[p].pc = "kalloc" /\ inop' = inop /\ call' = [call EXCEPT ![p] = k]
      /\ ftable' = ftable /\ inode' = inode /\ disk' = disk /\ installed' = installed
  BY <1>1 DEF PipeNoPage, At, Goto, fileVars, dataVars, logVars
<1>3. k.pc = "pundo"
  BY <1>1, UndoIs
<1> QED BY <1>2, <1>3, TableBlocks

(* What PipeFds does but for the descriptors.                               *)
LEMMA PipeFdsIs ==
    ASSUME FileInv, NEW p \in Proc, PipeFds(p)
    PROVE  \E k : /\ call[p].pc = "kalloc" /\ call' = [call EXCEPT ![p] = k]
                  /\ k.pc \in {"idle", "pundo"} /\ inop' = inop /\ lock' = lock
                  /\ inode' = inode /\ disk' = disk /\ installed' = installed
                  /\ op' = op /\ moved' = moved
                  /\ \A f \in FileId : \/ ftable'[f] = ftable[f]
                                       \/ ftable[f].type # "inode" /\ ftable'[f].type # "inode"
<1>1. PICK c, g, w : c = call[p] /\ g = c.f /\ w = c.w
  OBVIOUS
<1>2. PICK tg, tw :
        /\ tg = [NoFile EXCEPT !.ref = 1, !.type = "pipe", !.readable = ~FALSE, !.writable = FALSE]
        /\ tw = [NoFile EXCEPT !.ref = 1, !.type = "pipe", !.readable = ~TRUE, !.writable = TRUE]
  OBVIOUS
<1>3. /\ c.pc = "kalloc" /\ ftable' = [[ftable EXCEPT ![g] = tg] EXCEPT ![w] = tw]
      /\ inop' = inop /\ lock' = lock /\ op' = op /\ moved' = moved
      /\ inode' = inode /\ disk' = disk /\ installed' = installed
  BY <1>1, <1>2 DEF PipeFds, At, PipeFile, dataVars, logVars
<1>4. PICK k : k \in {Idle, Undo(g, w)} /\ call' = [call EXCEPT ![p] = k]
  BY <1>1 DEF PipeFds, Goto
<1>5. k.pc \in {"idle", "pundo"}
  BY <1>4, IdleIs, UndoIs
<1>6. \A f \in FileId : f \in {c.f, c.w} => ftable[f].type # "inode"
  BY <1>1, <1>3, Piping
<1>7. tg.type = "pipe" /\ tw.type = "pipe"
  BY <1>2 DEF NoFile
<1>8. ftable = [f \in FileId |-> ftable[f]]
  BY DEF FileInv, Shapes
<1>9. \A f \in FileId : \/ ftable'[f] = ftable[f]
                        \/ ftable[f].type # "inode" /\ ftable'[f].type # "inode"
  <2> SUFFICES ASSUME NEW f \in FileId, f \in {g, w}
               PROVE  ftable[f].type # "inode" /\ ftable'[f].type # "inode"
    BY <1>3, <1>8
  <2>1. ftable'[f] \in {tg, tw}
    BY <1>3, <1>8
  <2> QED BY <1>1, <1>6, <1>7, <2>1
<1> QED BY <1>1, <1>3, <1>4, <1>5, <1>9

LEMMA PipeFdsBlocks ==
    ASSUME FileInv, FileInv', BlockInv, NEW p \in Proc, PipeFds(p) PROVE BlockNext(p)
<1>1. PICK k : /\ call[p].pc = "kalloc" /\ call' = [call EXCEPT ![p] = k]
               /\ k.pc \in {"idle", "pundo"} /\ inop' = inop
               /\ inode' = inode /\ disk' = disk /\ installed' = installed
               /\ \A f \in FileId : \/ ftable'[f] = ftable[f]
                                    \/ ftable[f].type # "inode" /\ ftable'[f].type # "inode"
  BY PipeFdsIs
<1> QED BY <1>1, TableBlocks

LEMMA PipeUndoBlocks ==
    ASSUME FileInv, FileInv', BlockInv, NEW p \in Proc, PipeUndo(p) PROVE BlockNext(p)
<1>1. PICK g, c : g = call[p].f /\ c = IF call[p].w = 0 THEN Idle ELSE Undo(call[p].w, 0)
  OBVIOUS
<1>2. call[p].pc = "pundo" /\ Fileclose(p, g, c)
  BY <1>1 DEF PipeUndo, At
<1>3. g \in FileId
  BY <1>1, <1>2, Piping DEF MakesOK
<1>4. c.pc \in {"idle", "pundo"}
  BY <1>1, IdleIs, UndoIs
<1> QED BY <1>2, <1>3, <1>4, FilecloseBlocks

LEMMA ForkFilesBlocks ==
    ASSUME FileInv, FileInv', BlockInv, NEW p \in Proc, NEW q \in Proc, ForkFiles(p, q) PROVE BlockNext(p)
<1>2. /\ call[p].pc = "idle" /\ inop' = inop /\ call' = call /\ inode' = inode
      /\ disk' = disk /\ installed' = installed /\ lock' = lock
  BY DEF ForkFiles, Start, dataVars, logVars
<1>3. ftable' = [f \in FileId |-> [ftable[f] EXCEPT
                     !.ref = @ + Cardinality({fd \in Fd : ofile[p][fd] = f})]]
  BY DEF ForkFiles
<1>4. \A f \in FileId : IsFile(ftable[f])
  BY DEF FileInv, Shapes
<1>5. ASSUME NEW f \in FileId PROVE ftable'[f].off = ftable[f].off
  <2>1. PICK m : m = ftable[f].ref + Cardinality({fd \in Fd : ofile[p][fd] = f})
    OBVIOUS
  <2>2. ftable'[f] = [ftable[f] EXCEPT !.ref = m]
    BY <1>3, <2>1
  <2>3. ftable[f] = [ref |-> ftable[f].ref, type |-> ftable[f].type, ip |-> ftable[f].ip,
                     off |-> ftable[f].off, readable |-> ftable[f].readable,
                     writable |-> ftable[f].writable]
    BY <1>4 DEF IsFile
  <2> QED BY <2>2, <2>3
<1>6. Installs /\ \A r \in Proc : OffsetKept(r)
  BY <1>2, <1>5, OffsetsKept DEF Installs
<1>7. \A r \in Proc : r # p => call'[r] = call[r] /\ (r \in inop => r \in inop')
  BY <1>2
<1> QED BY <1>2, <1>6, <1>7, BlockStay

LEMMA FilereadBlocks ==
    ASSUME FileInv, FileInv', BlockInv, NEW p \in Proc, NEW fd \in Fd, NEW n, Fileread(p, fd, n)
    PROVE  BlockNext(p)
<1>1. PICK g, r : g = ofile[p][fd] /\ r = ReadCount(inode[ftable[g].ip], ftable[g].off, n)
  OBVIOUS
<1>2. /\ call[p].pc = "idle" /\ inop' = inop /\ call' = call
      /\ ftable' = [ftable EXCEPT ![g].off = @ + r] /\ inode' = inode
      /\ disk' = disk /\ installed' = installed /\ lock' = lock /\ lock[ftable[g].ip] = 0
  BY <1>1 DEF Fileread, Start, dataVars, logVars
<1>3. ftable = [f \in FileId |-> ftable[f]]
  BY DEF FileInv, Shapes
<1>4. \A f \in FileId : lock[ftable[f].ip] # 0 => ftable'[f].off = ftable[f].off
  BY <1>2, <1>3
<1>5. Installs /\ \A q \in Proc : OffsetKept(q)
  BY <1>2, <1>4, OffsetsKept DEF Installs
<1>6. \A q \in Proc : q # p => call'[q] = call[q] /\ (q \in inop => q \in inop')
  BY <1>2
<1> QED BY <1>2, <1>5, <1>6, BlockStay

LEMMA FilewriteBlocks ==
    ASSUME FileInv, FileInv', BlockInv, NEW p \in Proc, NEW fd \in Fd, NEW n, Filewrite(p, fd, n)
    PROVE  BlockNext(p)
<1>1. PICK g, k : /\ g = ofile[p][fd]
                  /\ k = [Idle EXCEPT !.pc = "wbegin", !.f = g, !.ip = ftable[g].ip, !.n = n]
  OBVIOUS
<1>2. /\ call[p].pc = "idle" /\ inop' = inop /\ call' = [call EXCEPT ![p] = k]
      /\ ftable' = ftable /\ inode' = inode
      /\ disk' = disk /\ installed' = installed /\ lock' = lock
  BY <1>1 DEF Filewrite, Start, Goto, fileVars, dataVars, logVars
<1>3. k.pc = "wbegin"
  BY <1>1, IdleIs DEF IsCall
<1>4. call'[p] = k /\ \A q \in Proc : q # p => call'[q] = call[q] /\ (q \in inop => q \in inop')
  BY <1>2, OneMoves
<1>5. Installs /\ \A q \in Proc : OffsetKept(q)
  BY <1>2 DEF Installs, OffsetKept
<1> QED BY <1>2, <1>3, <1>4, <1>5, BlockStay

LEMMA WriteBeginBlocks ==
    ASSUME FileInv, FileInv', BlockInv, NEW p \in Proc, WriteBegin(p) PROVE BlockNext(p)
<1>1. PICK m, k : /\ m = Min({call[p].n - call[p].i, MaxChunk})
                  /\ k = [call[p] EXCEPT !.pc = "ilock", !.tot = 0, !.n1 = m]
  OBVIOUS
<1>2. /\ call[p].pc = "wbegin" /\ inop' = inop \cup {p} /\ call' = [call EXCEPT ![p] = k]
      /\ ftable' = ftable /\ inode' = inode
      /\ disk' = disk /\ installed' = installed /\ lock' = lock
  BY <1>1 DEF WriteBegin, At, Goto, fileVars, dataVars
<1>3. k.pc = "ilock" /\ k.tot = 0
  BY <1>1, CallAt DEF IsCall
<1>4. call'[p] = k /\ \A q \in Proc : q # p => call'[q] = call[q] /\ (q \in inop => q \in inop')
  BY <1>2, OneMoves
<1>5. Installs /\ \A q \in Proc : OffsetKept(q)
  BY <1>2 DEF Installs, OffsetKept
<1>6. p \in inop'
  BY <1>2
<1> QED BY <1>2, <1>3, <1>4, <1>5, <1>6, BlockStay

LEMMA WriteEndBlocks ==
    ASSUME FileInv, FileInv', BlockInv, NEW p \in Proc, WriteEnd(p) PROVE BlockNext(p)
<1>1. PICK i, k : /\ i = call[p].i + call[p].r
                  /\ k = IF call[p].r < 0 \/ i = call[p].n THEN Idle
                         ELSE [call[p] EXCEPT !.pc = "wbegin", !.i = i]
  OBVIOUS
<1>2. /\ call[p].pc = "wend" /\ call' = [call EXCEPT ![p] = k] /\ EndOp(p)
      /\ ftable' = ftable /\ inode' = inode /\ disk' = disk /\ lock' = lock
  BY <1>1 DEF WriteEnd, At, Goto, fileVars, dataVars
<1>3. k.pc \in {"idle", "wbegin"}
  BY <1>1, CallAt, IdleIs DEF IsCall
<1>4. call'[p] = k /\ \A q \in Proc : q # p => call'[q] = call[q] /\ (q \in inop => q \in inop')
  BY <1>2, OneMoves, EndOpInstalls
<1>5. Installs /\ \A q \in Proc : OffsetKept(q)
  BY <1>2, EndOpInstalls DEF OffsetKept
<1>6. k.pc # "copy" /\ k.pc # "ilock"
  BY <1>3
<1> QED BY <1>2, <1>4, <1>5, <1>6, BlockStay

(***************************************************************************)
(* One inode changes.                                                      *)
(***************************************************************************)
LEMMA AddrSame ==
    ASSUME NEW n, NEW m, NEW t, \A k \in 0..NDIRECT : n.addrs[k] = m.addrs[k], NEW k \in Paths
    PROVE  Addr(n, t, k) = Addr(m, t, k)
BY PathFacts DEF Addr, Paths

LEMMA SoundSet ==
    ASSUME NEW s, NEW d, Sound(s, d), NEW i \in Inum, NEW v, NEW e,
           e.used = d.used, e.data = d.data, \A j \in Inum : j # i => v[j] = s[j],
           AddrsOK(v[i]), \A k \in 0..NDIRECT : v[i].addrs[k] = s[i].addrs[k],
           Reaches(v[i], d.data, v[i].size),
           ~v[i].live => \A k \in 0..NDIRECT : v[i].addrs[k] = 0
    PROVE  Sound(v, e)
<1>1. /\ MapOK(s, d.used, d.data)
      /\ \A j \in Inum : Reaches(s[j], d.data, s[j].size)
      /\ \A j \in Inum : ~s[j].live => \A k \in 0..NDIRECT : s[j].addrs[k] = 0
  BY DEF Sound
<1>2. \A j \in Inum : \A l \in Paths : Addr(v[j], d.data, l) = Addr(s[j], d.data, l)
  <2> SUFFICES ASSUME NEW j \in Inum, NEW l \in Paths
               PROVE  Addr(v[j], d.data, l) = Addr(s[j], d.data, l)
    OBVIOUS
  <2>1. CASE j = i
    BY <2>1, AddrSame
  <2>2. CASE j # i
    BY <2>2
  <2> QED BY <2>1, <2>2
<1>3. \A j \in Inum : AddrsOK(v[j])
  BY <1>1 DEF MapOK
<1>4. d.data \in Contents
  BY <1>1 DEF MapOK
<1>5. MapOK(v, d.used, d.data)
  BY <1>1, <1>2, <1>3, <1>4, MapSame
<1>6. \A j \in Inum : Reaches(v[j], d.data, v[j].size)
  BY <1>1
<1>7. \A j \in Inum : ~v[j].live => \A k \in 0..NDIRECT : v[j].addrs[k] = 0
  BY <1>1
<1> QED BY <1>5, <1>6, <1>7 DEF Sound

LEMMA NothingReached == ASSUME NEW n, NEW t PROVE Reaches(n, t, 0)
<1>1. \A a, b \in Nat : ~(a * b < 0)
  OBVIOUS
<1>2. \A bn \in 0..(MAXFILE - 1) : ~(bn * BSIZE < 0)
  BY <1>1, PathFacts
<1> QED BY <1>2 DEF Reaches

LEMMA ReachesLess ==
    ASSUME NEW n, NEW t, NEW o \in Nat, NEW e \in Nat, o <= e, Reaches(n, t, e)
    PROVE  Reaches(n, t, o)
<1> SUFFICES ASSUME NEW bn \in 0..(MAXFILE - 1), bn * BSIZE < o PROVE Addr(n, t, PathOf(bn)) # 0
  BY DEF Reaches
<1>1. bn * BSIZE \in Nat
  <2>1. bn \in Nat /\ BSIZE \in Nat
    BY PathFacts
  <2> QED BY <2>1
<1>2. bn * BSIZE < e
  BY <1>1
<1> QED BY <1>2 DEF Reaches

LEMMA FreeInodeEmpty ==
    /\ FreeInode.size = 0 /\ ~FreeInode.live /\ AddrsOK(FreeInode)
    /\ \A k \in 0..NDIRECT : FreeInode.addrs[k] = 0
    /\ \A t : \A k \in Paths : Addr(FreeInode, t, k) = 0
<1>1. FreeInode.size = 0 /\ ~FreeInode.live /\ FreeInode.addrs = [k \in 0..NDIRECT |-> 0]
  BY DEF FreeInode
<1>2. \A k \in 0..NDIRECT : FreeInode.addrs[k] = 0
  BY <1>1
<1>3. \A t : \A k \in Paths : Addr(FreeInode, t, k) = 0
  BY <1>2, PathFacts DEF Addr, Paths
<1> QED BY <1>1, <1>2, <1>3 DEF AddrsOK

LEMMA IupdateGives ==
    ASSUME NEW d, IsDisk(d), NEW i \in Inum, NEW n, NEW e, e = Iupdate(i, n, d)
    PROVE  /\ e.used = d.used /\ e.data = d.data /\ e.din[i] = n
           /\ \A j \in Inum : j # i => e.din[j] = d.din[j]
<1>1. /\ d = [din |-> d.din, used |-> d.used, data |-> d.data, text |-> d.text]
      /\ d.din = [j \in Inum |-> d.din[j]]
  BY DEF IsDisk, AreInodes
<1>2. PICK s : s = [d.din EXCEPT ![i] = n]
  OBVIOUS
<1>3. e = [din |-> s, used |-> d.used, data |-> d.data, text |-> d.text]
  BY <1>1, <1>2 DEF Iupdate
<1>4. e.used = d.used /\ e.data = d.data /\ e.din = s
  BY <1>3
<1>5. s[i] = n /\ \A j \in Inum : j # i => s[j] = d.din[j]
  BY <1>1, <1>2
<1> QED BY <1>4, <1>5

LEMMA TextGives ==
    ASSUME NEW d, IsDisk(d), NEW i, NEW t, NEW e, e = [d EXCEPT !.text[i] = t]
    PROVE  e.used = d.used /\ e.data = d.data /\ e.din = d.din
<1>1. d = [din |-> d.din, used |-> d.used, data |-> d.data, text |-> d.text]
  BY DEF IsDisk
<1>2. PICK u : u = [d.text EXCEPT ![i] = t]
  OBVIOUS
<1>3. e = [din |-> d.din, used |-> d.used, data |-> d.data, text |-> u]
  BY <1>1, <1>2
<1> QED BY <1>3

LEMMA DiscardGives ==
    ASSUME NEW d, IsDisk(d), NEW i \in Inum, NEW n, NEW e, e = Discard(i, n, d)
    PROVE  /\ e.used = d.used \ Blocks(n, d) /\ e.data = d.data /\ e.din[i] = FreeInode
           /\ \A j \in Inum : j # i => e.din[j] = d.din[j]
<1>1. /\ d = [din |-> d.din, used |-> d.used, data |-> d.data, text |-> d.text]
      /\ AreInodes(d.din) /\ d.used \subseteq Block
  BY DEF IsDisk
<1>2. PICK u : u = d.used \ Blocks(n, d)
  OBVIOUS
<1>3. PICK a : a = Itrunc(n, d)
  OBVIOUS
<1>4. a = [din |-> d.din, used |-> u, data |-> d.data, text |-> d.text]
  BY <1>1, <1>2, <1>3 DEF Itrunc
<1>5. IsDisk(a) /\ a.din = d.din /\ a.used = u /\ a.data = d.data
  <2>1. u \subseteq Block
    BY <1>1, <1>2
  <2> QED BY <1>1, <1>4, <2>1, DiskMake
<1>6. PICK b, m : b = Iupdate(i, m, a) /\ m = FreeInode
  OBVIOUS
<1>7. /\ b.used = u /\ b.data = d.data /\ b.din[i] = m
      /\ \A j \in Inum : j # i => b.din[j] = d.din[j]
  BY <1>5, <1>6, IupdateGives
<1>8. IsDisk(b)
  BY <1>5, <1>6, FreeInodeIs, IupdateIs
<1>9. e = [b EXCEPT !.text[i] = <<>>]
  BY <1>3, <1>6 DEF Discard
<1>10. e.used = b.used /\ e.data = b.data /\ e.din = b.din
  BY <1>8, <1>9, TextGives
<1> QED BY <1>2, <1>6, <1>7, <1>10

(* itrunc gives back the blocks of the inode, and of no other.              *)
LEMMA DiscardSound ==
    ASSUME NEW s, NEW d, IsDisk(d), Sound(s, d), NEW i \in Inum, NEW v, NEW e,
           e.used = d.used \ Blocks(s[i], d), e.data = d.data,
           v[i] = FreeInode, \A j \in Inum : j # i => v[j] = s[j]
    PROVE  Sound(v, e)
<1>1. /\ MapOK(s, d.used, d.data)
      /\ \A j \in Inum : Reaches(s[j], d.data, s[j].size)
      /\ \A j \in Inum : ~s[j].live => \A k \in 0..NDIRECT : s[j].addrs[k] = 0
  BY DEF Sound
<1>2. Blocks(s[i], d) = {Addr(s[i], d.data, k) : k \in Paths} \ {0}
  BY BlocksAre
<1>3. e.used \subseteq Block
  BY DEF IsDisk
<1>4. \A b \in Block : b \in e.used <=> b \in d.used /\ \A k \in Paths : Addr(s[i], d.data, k) # b
  BY <1>2, PathFacts
<1>5. \A j \in Inum : AddrsOK(v[j])
  BY <1>1, FreeInodeEmpty DEF MapOK
<1>6. \A k \in Paths : Addr(v[i], d.data, k) = 0
  BY FreeInodeEmpty
<1>7. MapOK(v, e.used, d.data)
  <2>1. Frees(s, d.used, d.data, i, v, e.used)
    BY <1>3, <1>4, <1>5, <1>6 DEF Frees
  <2> QED BY <1>1, <2>1, MapFree
<1>8. ASSUME NEW j \in Inum PROVE Reaches(v[j], d.data, v[j].size)
  <2>1. CASE j = i
    BY <2>1, FreeInodeEmpty, NothingReached
  <2>2. CASE j # i
    BY <1>1, <2>2
  <2> QED BY <2>1, <2>2
<1>9. \A j \in Inum : ~v[j].live => \A k \in 0..NDIRECT : v[j].addrs[k] = 0
  BY <1>1, FreeInodeEmpty
<1> QED BY <1>7, <1>8, <1>9 DEF Sound

(* An unlocked inode and its copy on the disk change together.              *)
LEMMA OneSynced ==
    ASSUME FileInv, BlockInv, NEW i \in Inum, lock[i] = 0, inode'[i] = disk'.din[i],
           \A j \in Inum : j # i => inode'[j] = inode[j] /\ disk'.din[j] = disk.din[j]
    PROVE  /\ \A j \in Inum : Steady(j) => inode'[j] = disk'.din[j]
           /\ \A j \in Inum : ~Steady(j) => inode'[j] = inode[j] /\ disk'.din[j] = disk.din[j]
BY Unlocked DEF BlockInv, Synced

LEMMA IputBlocks ==
    ASSUME FileInv, FileInv', BlockInv, NEW p \in Proc, Iput(p) PROVE BlockNext(p)
<1>1. PICK k, i : k = [call[p] EXCEPT !.pc = "cend"] /\ i = call[p].ip
  OBVIOUS
<1>2. /\ call[p].pc = "iput" /\ inop' = inop /\ call' = [call EXCEPT ![p] = k]
      /\ ftable' = ftable /\ installed' = installed /\ lock' = lock /\ lock[i] = 0
      /\ \/ /\ inode' = [inode EXCEPT ![i] = FreeInode]
            /\ disk' = Discard(i, inode[i], disk)
         \/ inode' = inode /\ disk' = disk
  BY <1>1 DEF Iput, At, Now, Goto, fileVars, dataVars
<1>3. k.pc = "cend"
  BY <1>1, CallAt, PcExcept
<1>4. i \in Inum
  BY <1>1, <1>2 DEF FileInv, Live, Referring
<1>5. call'[p] = k /\ \A q \in Proc : q # p => call'[q] = call[q] /\ (q \in inop => q \in inop')
  BY <1>2, OneMoves
<1>6. Installs /\ \A q \in Proc : OffsetKept(q)
  BY <1>2 DEF Installs, OffsetKept
<1>7. CASE inode' = inode /\ disk' = disk
  BY <1>2, <1>3, <1>5, <1>6, <1>7, BlockStay
<1>8. CASE inode' = [inode EXCEPT ![i] = FreeInode] /\ disk' = Discard(i, inode[i], disk)
  <2>1. IsDisk(disk) /\ Sound(inode, disk)
    BY DEF FileInv, Disks, BlockInv
  <2>2. inode'[i] = FreeInode /\ \A j \in Inum : j # i => inode'[j] = inode[j]
    <3>1. inode = [j \in Inum |-> inode[j]]
      BY DEF FileInv, Disks, AreInodes
    <3> QED BY <1>4, <1>8, <3>1
  <2>3. /\ disk'.used = disk.used \ Blocks(inode[i], disk) /\ disk'.data = disk.data
        /\ disk'.din[i] = FreeInode /\ \A j \in Inum : j # i => disk'.din[j] = disk.din[j]
    BY <1>4, <1>8, <2>1, DiscardGives
  <2>4. Sound(inode, disk)'
    BY <1>4, <2>1, <2>2, <2>3, DiscardSound
  <2>5. /\ \A j \in Inum : Steady(j) => inode'[j] = disk'.din[j]
        /\ \A j \in Inum : ~Steady(j) => inode'[j] = inode[j] /\ disk'.din[j] = disk.din[j]
    BY <1>2, <1>4, <2>2, <2>3, OneSynced
  <2>6. call[p].pc # "copy" /\ call'[p].pc # "copy" /\ call'[p].pc # "ilock"
    BY <1>2, <1>3, <1>5
  <2> QED BY <1>2, <1>5, <1>6, <2>3, <2>4, <2>5, <2>6, BlockStep
<1> QED BY <1>2, <1>7, <1>8

LEMMA UnlinkBlocks ==
    ASSUME FileInv, FileInv', BlockInv, NEW p \in Proc, NEW i \in Inum, Unlink(p, i) PROVE BlockNext(p)
<1>1. PICK n : n = [inode[i] EXCEPT !.nlink = 0]
  OBVIOUS
<1>2. /\ call[p].pc = "idle" /\ call' = call /\ ftable' = ftable /\ lock' = lock /\ lock[i] = 0
      /\ EndOp(p)
      /\ \/ /\ inode' = [inode EXCEPT ![i] = FreeInode]
            /\ disk' = Discard(i, disk.din[i], disk)
         \/ /\ inode' = [inode EXCEPT ![i] = n]
            /\ disk' = Iupdate(i, n, disk)
  BY <1>1 DEF Unlink, Start, fileVars
<1>3. IsDisk(disk) /\ Sound(inode, disk) /\ inode[i] = disk.din[i]
  BY <1>2, Unlocked DEF FileInv, Disks, BlockInv, Synced
<1>4. inode = [j \in Inum |-> inode[j]] /\ IsInode(inode[i])
  BY DEF FileInv, Disks, AreInodes
<1>5. Installs /\ \A q \in Proc : OffsetKept(q)
  BY <1>2, EndOpInstalls DEF OffsetKept
<1>6. \A q \in Proc : q # p => call'[q] = call[q] /\ (q \in inop => q \in inop')
  BY <1>2, EndOpInstalls
<1>7. /\ inode'[i] = disk'.din[i] /\ disk'.data = disk.data
      /\ \A j \in Inum : j # i => inode'[j] = inode[j] /\ disk'.din[j] = disk.din[j]
      /\ Sound(inode, disk)'
  <2>1. CASE inode' = [inode EXCEPT ![i] = FreeInode] /\ disk' = Discard(i, disk.din[i], disk)
    <3>1. inode'[i] = FreeInode /\ \A j \in Inum : j # i => inode'[j] = inode[j]
      BY <1>4, <2>1
    <3>2. /\ disk'.used = disk.used \ Blocks(inode[i], disk) /\ disk'.data = disk.data
          /\ disk'.din[i] = FreeInode /\ \A j \in Inum : j # i => disk'.din[j] = disk.din[j]
      BY <1>3, <2>1, DiscardGives
    <3>3. Sound(inode, disk)'
      BY <1>3, <3>1, <3>2, DiscardSound
    <3> QED BY <3>1, <3>2, <3>3
  <2>2. CASE inode' = [inode EXCEPT ![i] = n] /\ disk' = Iupdate(i, n, disk)
    <3>1. inode'[i] = n /\ \A j \in Inum : j # i => inode'[j] = inode[j]
      BY <1>4, <2>2
    <3>2. /\ disk'.used = disk.used /\ disk'.data = disk.data /\ disk'.din[i] = n
          /\ \A j \in Inum : j # i => disk'.din[j] = disk.din[j]
      BY <1>3, <2>2, IupdateGives
    <3>3. n.live = inode[i].live /\ n.size = inode[i].size /\ n.addrs = inode[i].addrs
      BY <1>1, <1>4 DEF IsInode
    <3>4. /\ AddrsOK(inode[i]) /\ Reaches(inode[i], disk.data, inode[i].size)
          /\ ~inode[i].live => \A k \in 0..NDIRECT : inode[i].addrs[k] = 0
      BY <1>3 DEF Sound, MapOK
    <3>5. AddrsOK(n) /\ Reaches(n, disk.data, n.size)
      BY <3>3, <3>4 DEF AddrsOK, Reaches, Addr
    <3>6. Sound(inode, disk)'
      BY <1>3, <3>1, <3>2, <3>3, <3>4, <3>5, SoundSet
    <3> QED BY <3>1, <3>2, <3>6
  <2> QED BY <1>2, <2>1, <2>2
<1>8. /\ \A j \in Inum : Steady(j) => inode'[j] = disk'.din[j]
      /\ \A j \in Inum : ~Steady(j) => inode'[j] = inode[j] /\ disk'.din[j] = disk.din[j]
  BY <1>2, <1>7, OneSynced
<1>9. call[p].pc # "copy" /\ call'[p].pc # "copy" /\ call'[p].pc # "ilock"
  BY <1>2
<1> QED BY <1>2, <1>5, <1>6, <1>7, <1>8, <1>9, BlockStep

(* sys_open up to filealloc: a file may be taken, an inode made.            *)
LEMMA SysOpenIs ==
    ASSUME FileInv, NEW p \in Proc, NEW i \in Inum, SysOpen(p, i)
    PROVE  \E k : /\ call[p].pc = "idle" /\ call' = [call EXCEPT ![p] = k]
                  /\ k.pc \in {"iput", "open"} /\ inop' = inop \cup {p}
                  /\ installed' = installed /\ op' = op /\ moved' = moved
                  /\ \A f \in FileId : /\ ftable'[f].off = ftable[f].off
                                       /\ ftable'[f].type = ftable[f].type
                  /\ \A f \in FileId : ftable[f].type = "inode" => ftable'[f] = ftable[f]
<1>1. PICK g : g = Min(FreeFiles)
  OBVIOUS
<1>2. /\ call[p].pc = "idle" /\ inop' = inop \cup {p}
      /\ installed' = installed /\ op' = op /\ moved' = moved
  BY DEF SysOpen, Start
<1>3. CASE FreeFiles = {}
  <2>1. PICK k : k = [Idle EXCEPT !.pc = "iput", !.ip = i]
    OBVIOUS
  <2>2. call' = [call EXCEPT ![p] = k] /\ ftable' = ftable
    BY <1>3, <2>1 DEF SysOpen, Goto
  <2>3. k.pc = "iput"
    BY <2>1 DEF Idle
  <2> QED BY <1>2, <2>2, <2>3
<1>4. CASE FreeFiles # {}
  <2>1. PICK k : k = [Idle EXCEPT !.pc = "open", !.f = g, !.ip = i]
    OBVIOUS
  <2>2. call' = [call EXCEPT ![p] = k] /\ ftable' = [ftable EXCEPT ![g].ref = 1]
    BY <1>1, <1>4, <2>1 DEF SysOpen, Goto, Filealloc
  <2>3. k.pc = "open"
    BY <2>1 DEF Idle
  <2>4. g \in FileId /\ ftable[g].type # "inode"
    BY <1>1, <1>4, FirstFree, FreeFile
  <2>5. ftable = [f \in FileId |-> ftable[f]] /\ \A f \in FileId : IsFile(ftable[f])
    BY DEF FileInv, Shapes
  <2>6. /\ \A f \in FileId : ftable'[f].off = ftable[f].off /\ ftable'[f].type = ftable[f].type
        /\ \A f \in FileId : ftable[f].type = "inode" => ftable'[f] = ftable[f]
    BY <2>2, <2>4, <2>5 DEF IsFile
  <2> QED BY <1>2, <2>2, <2>3, <2>6
<1> QED BY <1>3, <1>4

LEMMA SysOpenBlocks ==
    ASSUME FileInv, FileInv', BlockInv, NEW p \in Proc, NEW i \in Inum, SysOpen(p, i)
    PROVE  BlockNext(p)
<1>1. PICK create : create = (~disk.din[i].live /\ Refs(i) = 0)
  OBVIOUS
<1>2. PICK n : n = IF Refs(i) > 0 THEN inode[i]
                   ELSE IF create THEN [FreeInode EXCEPT !.live = TRUE, !.nlink = 1]
                   ELSE disk.din[i]
  OBVIOUS
<1>3. /\ inode' = [inode EXCEPT ![i] = n] /\ lock[i] = 0
      /\ disk' = IF create THEN Iupdate(i, n, disk) ELSE disk
  BY <1>1, <1>2 DEF SysOpen
<1>4. IsDisk(disk) /\ Sound(inode, disk) /\ inode[i] = disk.din[i]
  BY <1>3, Unlocked DEF FileInv, Disks, BlockInv, Synced
<1>5. inode = [j \in Inum |-> inode[j]] /\ IsInode(inode[i]) /\ Refs(i) \in Nat
  BY RefsFinite DEF FileInv, Disks, AreInodes
<1>12. PICK c : /\ call[p].pc = "idle" /\ call' = [call EXCEPT ![p] = c]
                /\ c.pc \in {"iput", "open"} /\ inop' = inop \cup {p} /\ installed' = installed
                /\ \A f \in FileId : ftable'[f].off = ftable[f].off
  BY SysOpenIs
<1>6. Installs /\ call'[p] = c
      /\ \A q \in Proc : q # p => call'[q] = call[q] /\ (q \in inop => q \in inop')
  BY <1>12, OneMoves DEF Installs
<1>8. \A q \in Proc : OffsetKept(q)
  BY <1>12, OffsetsKept
<1>9. call[p].pc # "copy" /\ call'[p].pc # "copy" /\ call'[p].pc # "ilock"
  BY <1>6, <1>12
<1>10. CASE ~create
  <2>1. n = inode[i]
    BY <1>2, <1>4, <1>10
  <2>2. inode' = inode /\ disk' = disk
    BY <1>3, <1>5, <1>10, <2>1
  <2> QED BY <1>3, <1>6, <1>8, <1>9, <2>2, BlockStay
<1>11. CASE create
  <2>1. /\ n = [FreeInode EXCEPT !.live = TRUE, !.nlink = 1] /\ ~inode[i].live
    <3>0. Refs(i) = 0 /\ ~disk.din[i].live
      BY <1>1, <1>11, Zenon
    <3>1. ~(Refs(i) > 0) /\ ~disk.din[i].live
      BY <3>0
    <3> QED BY <1>2, <1>4, <1>11, <3>1
  <2>2. /\ n.live = TRUE /\ n.size = 0 /\ AddrsOK(n)
        /\ \A k \in 0..NDIRECT : n.addrs[k] = 0
    <3>1. n.live = TRUE /\ n.size = 0 /\ n.addrs = [k \in 0..NDIRECT |-> 0]
      BY <2>1 DEF FreeInode
    <3> QED BY <3>1 DEF AddrsOK
  <2>3. \A k \in 0..NDIRECT : inode[i].addrs[k] = 0
    BY <1>4, <2>1 DEF Sound
  <2>4. inode'[i] = n /\ \A j \in Inum : j # i => inode'[j] = inode[j]
    BY <1>3, <1>5
  <2>5. /\ disk'.used = disk.used /\ disk'.data = disk.data /\ disk'.din[i] = n
        /\ \A j \in Inum : j # i => disk'.din[j] = disk.din[j]
    BY <1>3, <1>4, <1>11, IupdateGives
  <2>6. Reaches(n, disk.data, n.size)
    BY <2>2, NothingReached
  <2>7. Sound(inode, disk)'
    BY <1>4, <2>2, <2>3, <2>4, <2>5, <2>6, SoundSet
  <2>8. /\ \A j \in Inum : Steady(j) => inode'[j] = disk'.din[j]
        /\ \A j \in Inum : ~Steady(j) => inode'[j] = inode[j] /\ disk'.din[j] = disk.din[j]
    BY <1>3, <2>4, <2>5, OneSynced
  <2> QED BY <1>3, <1>6, <1>8, <1>9, <2>5, <2>7, <2>8, BlockStep
<1> QED BY <1>10, <1>11

(***************************************************************************)
(* writei(): the lock, the blocks, the end.                                *)
(***************************************************************************)
LEMMA SizeNat == ASSUME FileInv, NEW i \in Inum PROVE inode[i].size \in Nat
<1>1. IsInode(inode[i])
  BY DEF FileInv, Disks, AreInodes
<1> QED BY <1>1, TopNat DEF IsInode

LEMMA WriteLockBlocks ==
    ASSUME FileInv, FileInv', BlockInv, NEW p \in Proc, WriteLock(p) PROVE BlockNext(p)
<1>1. PICK c, i : c = call[p] /\ i = c.ip
  OBVIOUS
<1>2. /\ c.pc = "ilock" /\ lock[i] = 0 /\ ftable' = ftable /\ inode' = inode /\ disk' = disk
      /\ installed' = installed /\ inop' = inop
  BY <1>1 DEF WriteLock, At, Locked, fileVars, dataVars, logVars
<1>3. IsCall(c) /\ c.f \in FileId /\ ftable[c.f].ip = i /\ ftable[c.f].type = "inode"
  BY <1>1, <1>2, CallAt DEF CallOK, Writing
<1>4. i \in Inum /\ ftable[c.f].off \in Nat
  <2>1. IsFile(ftable[c.f])
    BY <1>3, FileAt
  <2> QED BY <1>3, <2>1, TopNat DEF IsFile
<1>5. Installs /\ \A q \in Proc : OffsetKept(q)
  BY <1>2 DEF Installs, OffsetKept
<1>6. CASE ~WriteFits(inode[i], ftable[c.f].off, c.n1)
  <2>1. PICK k : k = [c EXCEPT !.pc = "wend", !.r = -1]
    OBVIOUS
  <2>2. call' = [call EXCEPT ![p] = k] /\ lock' = lock
    BY <1>1, <1>6, <2>1 DEF WriteLock, Goto
  <2>3. k.pc = "wend"
    BY <1>3, <2>1 DEF IsCall
  <2>4. call'[p] = k /\ \A q \in Proc : q # p => call'[q] = call[q] /\ (q \in inop => q \in inop')
    BY <1>2, <2>2, OneMoves
  <2> QED BY <1>1, <1>2, <1>5, <2>2, <2>3, <2>4, BlockStay
<1>7. CASE WriteFits(inode[i], ftable[c.f].off, c.n1)
  <2>1. PICK k : k = [c EXCEPT !.pc = "copy"]
    OBVIOUS
  <2>2. call' = [call EXCEPT ![p] = k] /\ lock' = [lock EXCEPT ![i] = p]
    BY <1>1, <1>7, <2>1 DEF WriteLock, Now, Goto
  <2>3. k.pc = "copy" /\ k.f = c.f /\ k.ip = i /\ k.tot = c.tot /\ k.n1 = c.n1
    BY <1>1, <1>3, <2>1, PcExcept
  <2>4. call'[p] = k /\ \A q \in Proc : q # p => call'[q] = call[q]
    BY <2>2, OneMoves
  <2>5. lock'[i] = p /\ \A j \in Inum : j # i => lock'[j] = lock[j]
    BY <1>4, <2>2, CallAt
  <2>6. p # 0 /\ p \in inop
    BY <1>1, <1>2, FileSets DEF BlockInv, Holders
  <2>7. Holders'
    <3>2. ASSUME NEW q \in Proc, call'[q].pc \in {"ilock", "copy"} PROVE q \in inop'
      <4>1. CASE q = p
        BY <1>2, <2>6, <4>1
      <4>2. CASE q # p
        BY <1>2, <2>4, <3>2, <4>2 DEF BlockInv, Holders
      <4> QED BY <4>1, <4>2
    <3>3. ASSUME NEW q \in Proc, call'[q].pc = "ilock" PROVE call'[q].tot = 0
      BY <2>3, <2>4, <3>3 DEF BlockInv, Holders
    <3> QED BY <3>2, <3>3 DEF Holders
  <2>8. Synced'
    <3>1. \A j \in Inum : Steady(j)' => Steady(j)
      BY <1>1, <1>2, <2>4 DEF Steady
    <3> QED BY <1>2, <3>1 DEF BlockInv, Synced
  <2>9. Copying'
    <3> SUFFICES ASSUME NEW q \in Proc, call'[q].pc = "copy"
                 PROVE  CopyOK(call'[q], ftable'[call'[q].f].off, inode'[call'[q].ip],
                               disk'.data, disk'.din[call'[q].ip])
      BY DEF Copying
    <3>1. CASE q # p
      <4>1. call'[q] = call[q]
        BY <2>4, <3>1
      <4> QED BY <1>2, <4>1 DEF BlockInv, Copying
    <3>2. CASE q = p
      <4>1. inode[i] = disk.din[i]
        BY <1>2, <1>4, Unlocked DEF BlockInv, Synced
      <4>2. c.tot = 0 /\ c.n1 \in Nat
        <5>1. c.tot = 0
          BY <1>1, <1>2 DEF BlockInv, Holders
        <5>2. CallOK(p, k)'
          BY <2>4 DEF FileInv, Calls
        <5>3. k.n1 \in 0..(k.n - k.i)
          BY <2>3, <5>2 DEF CallOK
        <5> QED BY <2>3, <5>1, <5>3
      <4>3. ftable[c.f].off <= inode[i].size
        BY <1>7 DEF WriteFits
      <4>4. Reaches(inode[i], disk.data, inode[i].size)
        BY <1>4 DEF BlockInv, Sound
      <4>5. inode[i].size \in Nat
        BY <1>4, SizeNat
      <4>6. Reaches(inode[i], disk.data, ftable[c.f].off)
        BY <1>4, <4>3, <4>4, <4>5, ReachesLess
      <4>7. call'[q] = k
        BY <2>4, <3>2
      <4>8. CopyOK(k, ftable[c.f].off, inode[i], disk.data, disk.din[i])
        BY <1>4, <2>3, <4>1, <4>2, <4>3, <4>6 DEF CopyOK
      <4> QED BY <1>2, <2>3, <4>7, <4>8
    <3> QED BY <3>1, <3>2
  <2>10. Sound(inode, disk)' /\ Sound(installed.din, installed)'
    BY <1>2 DEF BlockInv
  <2>11. Kept(p)
    BY <1>2, <2>4 DEF Kept
  <2> QED BY <2>7, <2>8, <2>9, <2>10, <2>11 DEF BlockInv, BlockNext
<1> QED BY <1>6, <1>7

(* Where byte o of a file lies, and how far the block it lies in goes.      *)
LEMMA BlockOf ==
    ASSUME NEW o \in Nat, o < Top
    PROVE  /\ o \div BSIZE \in 0..(MAXFILE - 1) /\ o % BSIZE \in 0..(BSIZE - 1)
           /\ o = (o \div BSIZE) * BSIZE + (o % BSIZE)
<1>1. BSIZE \in Nat /\ BSIZE >= 1 /\ MAXFILE \in Nat
  BY PathFacts, FileFacts
<1>2. \A B \in Nat : B >= 1 =>
         o \div B \in Nat /\ o % B \in 0..(B - 1) /\ o = (o \div B) * B + (o % B)
  OBVIOUS
<1>3. \A a, b, B \in Nat : a * B < b * B => a < b
  OBVIOUS
<1>4. o \div BSIZE \in Nat /\ o % BSIZE \in 0..(BSIZE - 1) /\ o = (o \div BSIZE) * BSIZE + (o % BSIZE)
  BY <1>1, <1>2
<1>5. PICK q, h : q = o \div BSIZE /\ h = q * BSIZE
  OBVIOUS
<1>6. h \in Nat /\ h <= o
  <2>1. q \in Nat
    BY <1>4, <1>5
  <2>2. h \in Nat
    BY <1>1, <1>5, <2>1
  <2> QED BY <1>1, <1>4, <1>5, <2>2
<1>7. h < Top
  BY <1>6, TopNat
<1>8. q < MAXFILE
  BY <1>1, <1>3, <1>4, <1>5, <1>7 DEF Top
<1> QED BY <1>1, <1>4, <1>5, <1>8

LEMMA TimesLess == \A a, b, B \in Nat : a < b => a * B + B <= b * B
<1> SUFFICES ASSUME NEW a \in Nat, NEW b \in Nat, NEW B \in Nat, a < b
             PROVE  a * B + B <= b * B
  OBVIOUS
<1>1. PICK c \in Nat : b = a + 1 + c
  BY a \in Nat, b \in Nat, a < b
<1>2. b * B = a * B + B + c * B
  BY <1>1
<1>3. c * B \in Nat /\ a * B \in Nat
  OBVIOUS
<1> QED BY <1>2, <1>3

LEMMA WithinBlock ==
    ASSUME NEW o \in Nat, o < Top, NEW m \in Nat, m <= BSIZE - (o % BSIZE),
           NEW bn \in 0..(MAXFILE - 1), bn * BSIZE < o + m
    PROVE  bn * BSIZE < o \/ bn = o \div BSIZE
<1>1. BSIZE \in Nat /\ BSIZE >= 1 /\ bn \in Nat
  BY PathFacts
<1>2. PICK q, r, h, g : q = o \div BSIZE /\ r = o % BSIZE /\ h = q * BSIZE /\ g = bn * BSIZE
  OBVIOUS
<1>3. q \in Nat /\ r \in 0..(BSIZE - 1) /\ o = h + r
  BY <1>2, BlockOf
<1>4. h \in Nat /\ g \in Nat
  BY <1>1, <1>2, <1>3
<1>5. g < h + BSIZE
  BY <1>1, <1>2, <1>3, <1>4
<1>6. CASE bn < q
  <2>1. g + BSIZE <= h
    BY <1>1, <1>2, <1>3, <1>6, TimesLess
  <2> QED BY <1>1, <1>2, <1>3, <1>4, <2>1
<1>7. CASE q < bn
  <2>1. h + BSIZE <= g
    BY <1>1, <1>2, <1>3, <1>7, TimesLess
  <2> QED BY <1>1, <1>4, <1>5, <2>1
<1> QED BY <1>1, <1>2, <1>3, <1>6, <1>7

LEMMA ReachesExtended ==
    ASSUME NEW s, NEW t, NEW v, NEW c, Extended(s, t, v, c), NEW j \in Inum, NEW end,
           Reaches(s[j], t, end)
    PROVE  Reaches(v[j], c, end)
<1> SUFFICES ASSUME NEW bn \in 0..(MAXFILE - 1), bn * BSIZE < end
             PROVE  Addr(v[j], c, PathOf(bn)) # 0
  BY DEF Reaches
<1>1. Addr(s[j], t, PathOf(bn)) # 0
  BY DEF Reaches
<1>2. PathOf(bn) \in Paths
  BY PathIs
<1> QED BY <1>1, <1>2 DEF Extended

LEMMA CopiedIs ==
    ASSUME NEW b \in [0..(BSIZE - 1) -> Nat], NEW at \in Nat, NEW p \in Proc, NEW from \in Nat, NEW m
    PROVE  Copied(b, at, p, from, m) \in [0..(BSIZE - 1) -> Nat]
<1>1. BSIZE \in Nat /\ p \in Nat
  BY PathFacts, FileFacts DEF Proc
<1>2. ASSUME NEW k \in 0..(BSIZE - 1), k \in at..(at + m - 1) PROVE Byte(p, from + k - at) \in Nat
  <2>1. PICK h \in Nat : h = from + k - at
    BY <1>1, <1>2
  <2> QED BY <1>1, <2>1 DEF Byte
<1> QED BY <1>2 DEF Copied

(* What bmap() returns, as one fact.                                        *)
Found(s, i, x, bn, z) ==
    /\ Mapped(s, i, z) /\ Grew(s, i, x, z)
    /\ z.addr = Addr(z.ino, z.d.data, PathOf(bn)) /\ z.addr # 0
    /\ Addr(x.ino, x.d.data, PathOf(bn)) # 0 => z.ino = x.ino
LEMMA BmapFinds ==
    ASSUME NEW n, NEW s, NEW i \in Inum, NEW x, IsLookup(x, n), Mapped(s, i, x),
           NEW bn \in 0..(MAXFILE - 1), NEW z, z = Bmap(x, bn), ~z.full
    PROVE  Found(s, i, x, bn, z)
<1>1. /\ Mapped(s, i, z) /\ Grew(s, i, x, z)
      /\ z.addr = Addr(z.ino, z.d.data, PathOf(bn)) /\ z.addr # 0
      /\ Addr(x.ino, x.d.data, PathOf(bn)) # 0 => z.ino = x.ino
  BY BmapMaps
<1> QED BY <1>1 DEF Found

(* What bmap() returns for byte o of inode i.                               *)
LEMMA LookupMaps ==
    ASSUME FileInv, BlockInv, NEW i \in Inum, NEW o \in Nat, o < Top, NEW x,
           x = Bmap(Lookup(inode[i], disk), o \div BSIZE), ~x.full
    PROVE  /\ IsLookup(x, inode[i]) /\ MapOK(With(inode, i, x.ino), x.d.used, x.d.data)
           /\ Extended(inode, disk.data, With(inode, i, x.ino), x.d.data)
           /\ x.d.din = disk.din /\ x.addr # 0
           /\ x.addr = Addr(x.ino, x.d.data, PathOf(o \div BSIZE))
           /\ Addr(inode[i], disk.data, PathOf(o \div BSIZE)) # 0 => x.ino = inode[i]
<1>1. PICK l, bn : l = Lookup(inode[i], disk) /\ bn = o \div BSIZE
  OBVIOUS
<1>2. bn \in 0..(MAXFILE - 1)
  BY <1>1, BlockOf
<1>3. l.ino = inode[i] /\ l.d = disk
  BY <1>1 DEF Lookup
<1>4. inode = [j \in Inum |-> inode[j]] /\ IsInode(inode[i]) /\ IsDisk(disk)
  BY DEF FileInv, Disks, AreInodes
<1>5. IsLookup(l, inode[i])
  BY <1>1, <1>4, LookupMake DEF Lookup
<1>6. With(inode, i, l.ino) = inode
  BY <1>3, <1>4 DEF With
<1>7. Mapped(inode, i, l)
  BY <1>3, <1>6 DEF Mapped, BlockInv, Sound
<1>8. /\ Mapped(inode, i, x) /\ Grew(inode, i, l, x)
      /\ x.addr = Addr(x.ino, x.d.data, PathOf(bn)) /\ x.addr # 0
      /\ Addr(l.ino, l.d.data, PathOf(bn)) # 0 => x.ino = l.ino
  <2>1. PICK s, n : s = inode /\ n = inode[i]
    OBVIOUS
  <2>2. x = Bmap(l, bn) /\ ~x.full /\ IsLookup(l, n) /\ Mapped(s, i, l)
    BY <1>1, <1>5, <1>7, <2>1
  <2>3. Found(s, i, l, bn, x)
    BY <1>2, <2>2, BmapFinds
  <2> QED BY <2>1, <2>3 DEF Found
<1>9. IsLookup(x, inode[i])
  BY <1>1, <1>5, BmapKeeps
<1> QED BY <1>1, <1>3, <1>6, <1>8, <1>9 DEF Mapped, Grew

(* A turn of the loop of writei, for inode i and the block of byte o, and   *)
(* what it leaves.                                                          *)
Turn(i, o, x, at, p, from, m) ==
    /\ x = Bmap(Lookup(inode[i], disk), o \div BSIZE) /\ ~x.full
    /\ inode' = [inode EXCEPT ![i] = x.ino]
    /\ disk' = [x.d EXCEPT !.data[x.addr] = Copied(@, at, p, from, m)]
Turned(i, o, x) ==
    /\ MapOK(inode', disk'.used, disk'.data)
    /\ Extended(inode, disk.data, inode', disk'.data)
    /\ disk'.din = disk.din /\ inode'[i] = x.ino /\ x.ino.size = inode[i].size
    /\ x.ino.live = inode[i].live /\ \A j \in Inum : j # i => inode'[j] = inode[j]
    /\ Addr(inode'[i], disk'.data, PathOf(o \div BSIZE)) # 0
    /\ Addr(inode[i], disk.data, PathOf(o \div BSIZE)) # 0 => x.ino = inode[i]

LEMMA WriteMaps ==
    ASSUME FileInv, BlockInv, NEW i \in Inum, NEW o \in Nat, o < Top, NEW x,
           NEW at \in Nat, NEW p \in Proc, NEW from \in Nat, NEW m,
           Turn(i, o, x, at, p, from, m)
    PROVE  Turned(i, o, x)
<1>1. PICK bn, v, w, e : /\ bn = o \div BSIZE /\ v = With(inode, i, x.ino)
                         /\ w = Copied(x.d.data[x.addr], at, p, from, m)
                         /\ e = [x.d.data EXCEPT ![x.addr] = w]
  OBVIOUS
<1>2. x = Bmap(Lookup(inode[i], disk), o \div BSIZE) /\ ~x.full
  BY DEF Turn
<1>3. /\ IsLookup(x, inode[i]) /\ MapOK(v, x.d.used, x.d.data)
      /\ Extended(inode, disk.data, v, x.d.data) /\ x.d.din = disk.din /\ x.addr # 0
      /\ x.addr = Addr(x.ino, x.d.data, PathOf(bn))
      /\ Addr(inode[i], disk.data, PathOf(bn)) # 0 => x.ino = inode[i]
  BY <1>1, <1>2, LookupMaps
<1>4. bn \in 0..(MAXFILE - 1)
  BY <1>1, BlockOf
<1>5. inode = [j \in Inum |-> inode[j]]
  BY DEF FileInv, Disks, AreInodes
<1>6. inode' = v
  BY <1>1, <1>5 DEF With, Turn
<1>7. v[i] = x.ino /\ \A j \in Inum : j # i => v[j] = inode[j]
  BY <1>1, WithIs
<1>8. PathOf(bn) \in Paths /\ PathOf(bn) # NDIRECT
  BY <1>4, PathIs
<1>9. x.d.data \in Contents /\ x.addr \in Block
  BY <1>3, <1>7, <1>8 DEF MapOK
<1>10. e \in Contents /\ \A b \in Block : b # x.addr => e[b] = x.d.data[b]
  <2>1. x.d.data[x.addr] \in [0..(BSIZE - 1) -> Nat]
    BY <1>9 DEF Contents
  <2>2. w \in [0..(BSIZE - 1) -> Nat]
    BY <1>1, <2>1, CopiedIs
  <2> QED BY <1>1, <1>9, <2>2 DEF Contents
<1>11. disk'.used = x.d.used /\ disk'.data = e /\ disk'.din = x.d.din
  <2>1. x.d = [din |-> x.d.din, used |-> x.d.used, data |-> x.d.data, text |-> x.d.text]
    BY <1>3 DEF IsLookup, IsDisk
  <2>2. disk' = [din |-> x.d.din, used |-> x.d.used, data |-> e, text |-> x.d.text]
    BY <1>1, <2>1 DEF Turn
  <2> QED BY <2>2
<1>12. /\ MapOK(v, x.d.used, e)
       /\ \A j \in Inum : \A h \in Paths : Addr(v[j], e, h) = Addr(v[j], x.d.data, h)
  BY <1>3, <1>7, <1>8, <1>10, PathsWritten
<1>13. Extended(inode, disk.data, v, e)
  BY <1>3, <1>12 DEF Extended
<1>14. Addr(v[i], e, PathOf(bn)) # 0
  BY <1>3, <1>7, <1>8, <1>12
<1>15. x.ino.size = inode[i].size /\ x.ino.live = inode[i].live
  BY <1>3 DEF IsLookup
<1> QED BY <1>1, <1>3, <1>6, <1>7, <1>11, <1>12, <1>13, <1>14, <1>15 DEF Turned

(* No two copying processes write to one inode.                             *)
LEMMA CopyApart ==
    ASSUME FileInv, NEW p \in Proc, NEW q \in Proc, q # p,
           call[p].pc = "copy", call[q].pc = "copy"
    PROVE  call[q].ip # call[p].ip /\ call[q].f # call[p].f
<1>1. /\ lock[call[p].ip] = p /\ lock[call[q].ip] = q
      /\ ftable[call[p].f].ip = call[p].ip /\ ftable[call[q].f].ip = call[q].ip
  BY CopyFile
<1> QED BY <1>1

(* Where the next turn of the loop of writei writes, and how much.          *)
Turning(c, i, o, off, at, m) ==
    /\ CopyOK(c, o, inode[i], disk.data, disk.din[i])
    /\ c.tot \in Nat /\ off \in Nat /\ off < Top /\ off < o + c.n1
    /\ at \in 0..(BSIZE - 1) /\ off \div BSIZE \in 0..(MAXFILE - 1)
    /\ off = (off \div BSIZE) * BSIZE + at
    /\ m \in Nat /\ m >= 1 /\ m <= c.n1 - c.tot /\ m <= BSIZE - at
    /\ m = c.n1 - c.tot \/ m = BSIZE - at

LEMMA TurnFacts ==
    ASSUME FileInv, BlockInv, NEW p \in Proc, NEW c, NEW i, NEW o, NEW off, NEW at, NEW m,
           c = call[p] /\ i = c.ip /\ o = ftable[c.f].off /\ off = o + c.tot,
           at = off % BSIZE /\ m = Min({c.n1 - c.tot, BSIZE - at}),
           c.pc = "copy" /\ c.tot < c.n1
    PROVE  Turning(c, i, o, off, at, m)
<1>1. i \in Inum /\ o \in Nat /\ o + c.n1 <= Top /\ c.n1 \in Nat
  BY CopyFile
<1>2. CopyOK(c, o, inode[i], disk.data, disk.din[i])
  BY DEF BlockInv, Copying
<1>3. c.tot \in Nat /\ off \in Nat /\ off < Top /\ off < o + c.n1
  <2>1. c.tot \in 0..c.n1
    BY <1>2 DEF CopyOK
  <2> QED BY <1>1, <2>1, TopNat
<1>4. /\ at \in 0..(BSIZE - 1) /\ off \div BSIZE \in 0..(MAXFILE - 1)
      /\ off = (off \div BSIZE) * BSIZE + at
  BY <1>3, BlockOf
<1>5. /\ m \in Nat /\ m >= 1 /\ m <= c.n1 - c.tot /\ m <= BSIZE - at
      /\ m = c.n1 - c.tot \/ m = BSIZE - at
  <2>1. /\ c.n1 - c.tot \in Nat /\ BSIZE - at \in Nat
        /\ c.n1 - c.tot >= 1 /\ BSIZE - at >= 1
    <3>1. at \in 0..(BSIZE - 1)
      BY <1>4
    <3>2. BSIZE - at \in Nat /\ BSIZE - at >= 1
      BY <3>1, PathFacts
    <3> QED BY <1>1, <1>3, <3>2
  <2>2. {c.n1 - c.tot, BSIZE - at} \subseteq Nat
    BY <2>1
  <2>3. m \in {c.n1 - c.tot, BSIZE - at} /\ \A y \in {c.n1 - c.tot, BSIZE - at} : m <= y
    BY <2>2, LeastOf
  <2> QED BY <2>1, <2>3
<1> QED BY <1>2, <1>3, <1>4, <1>5 DEF Turning

LEMMA WriteBlockBlocks ==
    ASSUME FileInv, FileInv', BlockInv, NEW p \in Proc, WriteBlock(p)
    PROVE  BlockInv' /\ (Restart \/ Kept(p))
<1>1. PICK c, i, o, off : c = call[p] /\ i = c.ip /\ o = ftable[c.f].off /\ off = o + c.tot
  OBVIOUS
<1>2. PICK at, m, x : /\ at = off % BSIZE /\ m = Min({c.n1 - c.tot, BSIZE - at})
                      /\ x = Bmap(Lookup(inode[i], disk), off \div BSIZE)
  OBVIOUS
<1>3. PICK k : k = [c EXCEPT !.tot = @ + m]
  OBVIOUS
<1>4. /\ c.pc = "copy" /\ c.tot < c.n1
      /\ \/ Restart
         \/ /\ ~x.full /\ inode' = [inode EXCEPT ![i] = x.ino]
            /\ disk' = [x.d EXCEPT !.data[x.addr] = Copied(@, at, p, c.i + c.tot, m)]
            /\ call' = [call EXCEPT ![p] = k]
            /\ ftable' = ftable /\ installed' = installed /\ inop' = inop /\ lock' = lock
  BY <1>1, <1>2, <1>3 DEF WriteBlock, At, Goto, fileVars
<1>5. /\ c.f \in FileId /\ ftable[c.f].type = "inode" /\ ftable[c.f].ip = i /\ i \in Inum
      /\ lock[i] = p /\ p # 0 /\ o \in Nat /\ o + c.n1 <= Top /\ c.n1 \in Nat
  BY <1>1, <1>4, CopyFile
<1>6. Turning(c, i, o, off, at, m)
  BY <1>1, <1>2, <1>4, TurnFacts
<1>7. CopyOK(c, o, inode[i], disk.data, disk.din[i])
  BY <1>6 DEF Turning
<1>8. c.tot \in Nat /\ off \in Nat /\ off < Top /\ off < o + c.n1
  BY <1>6 DEF Turning
<1>9. /\ at \in 0..(BSIZE - 1) /\ off \div BSIZE \in 0..(MAXFILE - 1)
      /\ off = (off \div BSIZE) * BSIZE + at
  BY <1>6 DEF Turning
<1>10. m \in Nat /\ m <= c.n1 - c.tot /\ m <= BSIZE - at
  BY <1>6 DEF Turning
<1>11. CASE /\ ~x.full /\ inode' = [inode EXCEPT ![i] = x.ino]
            /\ disk' = [x.d EXCEPT !.data[x.addr] = Copied(@, at, p, c.i + c.tot, m)]
            /\ call' = [call EXCEPT ![p] = k]
            /\ ftable' = ftable /\ installed' = installed /\ inop' = inop /\ lock' = lock
  <2>1. PICK from : from = c.i + c.tot
    OBVIOUS
  <2>2. from \in Nat /\ at \in Nat
    <3>1. c.n \in Nat /\ c.i \in 0..c.n
      BY <1>1, <1>4, CallAt DEF CallOK, Writing
    <3> QED BY <1>8, <1>9, <2>1, <3>1
  <2>13. Turn(i, off, x, at, p, from, m)
    BY <1>2, <1>11, <2>1 DEF Turn
  <2>3. /\ MapOK(inode', disk'.used, disk'.data)
        /\ Extended(inode, disk.data, inode', disk'.data)
        /\ disk'.din = disk.din /\ inode'[i] = x.ino /\ x.ino.size = inode[i].size
        /\ x.ino.live = inode[i].live /\ \A j \in Inum : j # i => inode'[j] = inode[j]
        /\ Addr(inode'[i], disk'.data, PathOf(off \div BSIZE)) # 0
        /\ Addr(inode[i], disk.data, PathOf(off \div BSIZE)) # 0 => x.ino = inode[i]
    <3>1. Turned(i, off, x)
      BY <1>5, <1>8, <2>2, <2>13, WriteMaps
    <3> QED BY <3>1 DEF Turned
  <2>4. /\ k.pc = "copy" /\ k.f = c.f /\ k.ip = i /\ k.n1 = c.n1 /\ k.tot = c.tot + m
    BY <1>1, <1>3, <1>4, CallAt DEF IsCall
  <2>5. call'[p] = k /\ \A q \in Proc : q # p => call'[q] = call[q]
    BY <1>11, OneMoves
  <2>6. inode[i].size \in Nat /\ inode[i].live
    BY <1>5, SizeNat DEF FileInv, Live
  <2>7. Sound(inode, disk)'
    <3>1. ASSUME NEW j \in Inum PROVE Reaches(inode'[j], disk'.data, inode'[j].size)
      <4>1. inode'[j].size = inode[j].size
        BY <2>3
      <4>2. Reaches(inode[j], disk.data, inode[j].size)
        BY DEF BlockInv, Sound
      <4> QED BY <2>3, <4>1, <4>2, ReachesExtended
    <3>2. \A j \in Inum : ~inode'[j].live => \A h \in 0..NDIRECT : inode'[j].addrs[h] = 0
      BY <2>3, <2>6 DEF BlockInv, Sound
    <3> QED BY <2>3, <3>1, <3>2 DEF Sound
  <2>8. Holders'
    <3>2. ASSUME NEW q \in Proc, call'[q].pc \in {"ilock", "copy"} PROVE q \in inop'
      BY <1>1, <1>4, <1>11, <2>4, <2>5, <3>2 DEF BlockInv, Holders
    <3>3. ASSUME NEW q \in Proc, call'[q].pc = "ilock" PROVE call'[q].tot = 0
      BY <2>4, <2>5, <3>3 DEF BlockInv, Holders
    <3> QED BY <3>2, <3>3 DEF Holders
  <2>9. Synced'
    <3>1. \A j \in Inum : Steady(j)' => Steady(j) /\ j # i
      BY <1>1, <1>4, <2>4, <2>5 DEF Steady
    <3> QED BY <2>3, <3>1 DEF BlockInv, Synced
  <2>10. CopyOK(k, o, x.ino, disk'.data, disk'.din[i])
    <3>1. k.tot \in 0..k.n1
      BY <1>5, <1>8, <1>10, <2>4
    <3>2. o <= x.ino.size /\ Reaches(inode[i], disk.data, off)
          /\ (inode[i] = disk.din[i] \/ o + c.n1 > inode[i].size)
      BY <1>1, <1>7, <2>3 DEF CopyOK
    <3>3. Reaches(x.ino, disk'.data, off)
      BY <1>5, <2>3, <3>2, ReachesExtended
    <3>4. Reaches(x.ino, disk'.data, off + m)
      <4> SUFFICES ASSUME NEW bn \in 0..(MAXFILE - 1), bn * BSIZE < off + m
                   PROVE  Addr(x.ino, disk'.data, PathOf(bn)) # 0
        BY DEF Reaches
      <4>1. bn * BSIZE < off \/ bn = off \div BSIZE
        BY <1>2, <1>8, <1>10, WithinBlock
      <4> QED BY <2>3, <3>3, <4>1 DEF Reaches
    <3>5. x.ino = disk'.din[i] \/ o + k.n1 > x.ino.size
      <4> SUFFICES ASSUME ~(o + c.n1 > inode[i].size) PROVE x.ino = disk.din[i]
        BY <2>3, <2>4
      <4>1. off < inode[i].size
        BY <1>5, <1>8, <2>6
      <4>2. (off \div BSIZE) * BSIZE < inode[i].size
        <5>1. PICK h : h = (off \div BSIZE) * BSIZE
          OBVIOUS
        <5>2. h \in Nat
          BY <1>9, <5>1, PathFacts
        <5> QED BY <1>8, <1>9, <2>6, <4>1, <5>1, <5>2, PathFacts
      <4>3. Reaches(inode[i], disk.data, inode[i].size)
        BY <1>5 DEF BlockInv, Sound
      <4>4. Addr(inode[i], disk.data, PathOf(off \div BSIZE)) # 0
        BY <1>9, <4>2, <4>3 DEF Reaches
      <4> QED BY <2>3, <3>2, <4>4
    <3>6. o + k.tot = off + m
      BY <1>1, <1>5, <1>8, <1>10, <2>4
    <3> QED BY <3>1, <3>2, <3>4, <3>5, <3>6 DEF CopyOK
  <2>11. Copying'
    <3> SUFFICES ASSUME NEW q \in Proc, call'[q].pc = "copy"
                 PROVE  CopyOK(call'[q], ftable'[call'[q].f].off, inode'[call'[q].ip],
                               disk'.data, disk'.din[call'[q].ip])
      BY DEF Copying
    <3>1. CASE q = p
      BY <1>1, <1>11, <2>3, <2>4, <2>5, <2>10, <3>1
    <3>2. CASE q # p
      <4>1. call'[q] = call[q] /\ call[q].pc = "copy"
        BY <2>5, <3>2
      <4>2. call[q].ip \in Inum /\ call[q].ip # i
        BY <1>1, <1>4, <3>2, <4>1, CopyApart, CopyFile
      <4>3. CopyOK(call[q], ftable[call[q].f].off, inode[call[q].ip], disk.data, disk.din[call[q].ip])
        BY <4>1 DEF BlockInv, Copying
      <4>4. inode'[call[q].ip] = inode[call[q].ip]
        BY <2>3, <4>2
      <4>5. Reaches(inode[call[q].ip], disk.data, ftable[call[q].f].off + call[q].tot)
        BY <4>3 DEF CopyOK
      <4>6. Reaches(inode'[call[q].ip], disk'.data, ftable[call[q].f].off + call[q].tot)
        BY <2>3, <4>2, <4>5, ReachesExtended
      <4>7. CopyOK(call[q], ftable[call[q].f].off, inode'[call[q].ip], disk'.data, disk'.din[call[q].ip])
        BY <2>3, <4>3, <4>4, <4>6 DEF CopyOK
      <4> QED BY <1>11, <4>1, <4>7
    <3> QED BY <3>1, <3>2
  <2>12. Sound(installed.din, installed)'
    BY <1>11 DEF BlockInv
  <2>14. Kept(p)
    <3>1. ASSUME NEW q \in Proc, q # p, call[q].pc = "copy" PROVE call[q].ip \in Inum /\ call[q].ip # i
      BY <1>1, <1>4, <3>1, CopyApart, CopyFile
    <3> QED BY <1>11, <2>3, <2>5, <3>1 DEF Kept
  <2> QED BY <2>7, <2>8, <2>9, <2>11, <2>12, <2>14 DEF BlockInv
<1> QED BY <1>4, <1>11, RestartBlocks

(* The end of writei: a file that grew is on the disk as it is in the cache *)
(* when its lock is released; one that did not was never different.         *)
LEMMA WriteDoneBlocks ==
    ASSUME FileInv, FileInv', BlockInv, NEW p \in Proc, WriteDone(p) PROVE BlockNext(p)
<1>1. PICK c, i, o : c = call[p] /\ i = c.ip /\ o = ftable[c.f].off
  OBVIOUS
<1>2. PICK end, k : end = o + c.tot /\ k = [c EXCEPT !.pc = "wend", !.r = c.n1]
  OBVIOUS
<1>3. PICK ino : ino = IF end > inode[i].size THEN Grown(inode[i], end) ELSE inode[i]
  OBVIOUS
<1>4. PICK d, t : /\ d = IF end > inode[i].size THEN Iupdate(i, ino, disk) ELSE disk
                  /\ t = Overwrite(d.text[i], moved[c.f], [j \in 1..c.n1 |-> Byte(p, c.i + j - 1)])
  OBVIOUS
<1>5. /\ c.pc = "copy" /\ c.tot = c.n1 /\ inode' = [inode EXCEPT ![i] = ino]
      /\ disk' = [d EXCEPT !.text[i] = t]
      /\ ftable' = [ftable EXCEPT ![c.f].off = @ + c.n1]
      /\ lock' = [lock EXCEPT ![i] = 0] /\ call' = [call EXCEPT ![p] = k]
      /\ installed' = installed /\ inop' = inop
  BY <1>1, <1>2, <1>3, <1>4 DEF WriteDone, At, Goto, MovedOff
<1>6. /\ c.f \in FileId /\ ftable[c.f].ip = i /\ i \in Inum /\ lock[i] = p /\ p # 0
      /\ o \in Nat /\ c.n1 \in Nat
  BY <1>1, <1>5, CopyFile
<1>7. CopyOK(c, o, inode[i], disk.data, disk.din[i])
  BY <1>1, <1>5 DEF BlockInv, Copying
<1>8. /\ Reaches(inode[i], disk.data, end) /\ (inode[i] = disk.din[i] \/ end > inode[i].size)
  BY <1>2, <1>5, <1>7 DEF CopyOK
<1>9. /\ IsInode(inode[i]) /\ IsDisk(disk) /\ AreInodes(inode) /\ lock \in [Inum -> Proc \cup {0}]
  BY <1>6, CallAt DEF FileInv, Disks, AreInodes
<1>10. /\ ino.addrs = inode[i].addrs /\ ino.live = inode[i].live
       /\ ino.size = IF end > inode[i].size THEN end ELSE inode[i].size
  <2>1. CASE end > inode[i].size
    <3>1. inode[i] = [live |-> inode[i].live, nlink |-> inode[i].nlink,
                      size |-> inode[i].size, addrs |-> inode[i].addrs]
      BY <1>9 DEF IsInode
    <3>2. ino = [live |-> inode[i].live, nlink |-> inode[i].nlink,
                 size |-> end, addrs |-> inode[i].addrs]
      BY <1>3, <2>1, <3>1 DEF Grown
    <3> QED BY <2>1, <3>2
  <2>2. CASE ~(end > inode[i].size)
    BY <1>3, <2>2
  <2> QED BY <2>1, <2>2
<1>11. inode'[i] = ino /\ \A j \in Inum : j # i => inode'[j] = inode[j]
  BY <1>5, <1>6, <1>9 DEF AreInodes
<1>12. /\ IsDisk(d) /\ d.used = disk.used /\ d.data = disk.data /\ d.din[i] = ino
       /\ \A j \in Inum : j # i => d.din[j] = disk.din[j]
  <2>1. IsInode(ino)
    BY <1>6, <1>11 DEF FileInv, Disks, AreInodes
  <2>2. CASE end > inode[i].size
    <3>1. d = Iupdate(i, ino, disk)
      BY <1>4, <2>2
    <3>2. IsDisk(d)
      BY <1>6, <1>9, <2>1, <3>1, IupdateIs
    <3> QED BY <1>6, <1>9, <3>1, <3>2, IupdateGives
  <2>3. CASE ~(end > inode[i].size)
    BY <1>3, <1>4, <1>8, <1>9, <2>3
  <2> QED BY <2>2, <2>3
<1>13. disk'.used = d.used /\ disk'.data = d.data /\ disk'.din = d.din
  BY <1>5, <1>12, TextGives
<1>14. call'[p] = k /\ \A q \in Proc : q # p => call'[q] = call[q]
  BY <1>5, OneMoves
<1>15. k.pc = "wend"
  BY <1>1, <1>2, CallAt DEF IsCall
<1>16. lock'[i] = 0 /\ \A j \in Inum : j # i => lock'[j] = lock[j]
  BY <1>5, <1>6, <1>9
<1>17. Sound(inode, disk)'
  <2>1. PICK v, e : v = inode' /\ e = disk'
    OBVIOUS
  <2>2. Sound(inode, disk)
    BY DEF BlockInv
  <2>3. e.used = disk.used /\ e.data = disk.data /\ v[i] = ino /\ \A j \in Inum : j # i => v[j] = inode[j]
    BY <1>11, <1>12, <1>13, <2>1
  <2>4. AddrsOK(v[i]) /\ \A h \in 0..NDIRECT : v[i].addrs[h] = inode[i].addrs[h]
    BY <1>6, <1>10, <2>2, <2>3 DEF Sound, MapOK, AddrsOK
  <2>5. Reaches(v[i], disk.data, v[i].size)
    <3>1. Reaches(inode[i], disk.data, ino.size)
      BY <1>6, <1>8, <1>10, <2>2 DEF Sound
    <3>2. \A bn \in 0..(MAXFILE - 1) :
            Addr(ino, disk.data, PathOf(bn)) = Addr(inode[i], disk.data, PathOf(bn))
      BY <1>10, AddrSame, PathIs
    <3> QED BY <2>3, <3>1, <3>2 DEF Reaches
  <2>6. ~v[i].live => \A h \in 0..NDIRECT : v[i].addrs[h] = 0
    BY <1>6, <1>10, <2>2, <2>3 DEF Sound
  <2>7. Sound(v, e)
    BY <1>6, <2>2, <2>3, <2>4, <2>5, <2>6, SoundSet
  <2> QED BY <2>1, <2>7
<1>18. Holders'
  <2>2. ASSUME NEW q \in Proc, call'[q].pc \in {"ilock", "copy"}
        PROVE  q \in inop' /\ (call'[q].pc = "ilock" => call'[q].tot = 0)
    <3>1. q # p
      BY <1>14, <1>15, <2>2
    <3> QED BY <1>5, <1>14, <2>2, <3>1 DEF BlockInv, Holders
  <2> QED BY <2>2 DEF Holders
<1>19. Synced'
  <2> SUFFICES ASSUME NEW j \in Inum, Steady(j)' PROVE inode'[j] = disk'.din[j]
    BY DEF Synced
  <2>1. CASE j = i
    BY <1>11, <1>12, <1>13, <2>1
  <2>2. CASE j # i
    <3>1. Steady(j)
      BY <1>1, <1>14, <2>2 DEF Steady
    <3> QED BY <1>11, <1>12, <1>13, <2>2, <3>1 DEF BlockInv, Synced
  <2> QED BY <2>1, <2>2
<1>20. Copying'
  <2> SUFFICES ASSUME NEW q \in Proc, call'[q].pc = "copy"
               PROVE  CopyOK(call'[q], ftable'[call'[q].f].off, inode'[call'[q].ip],
                             disk'.data, disk'.din[call'[q].ip])
    BY DEF Copying
  <2>1. q # p /\ call'[q] = call[q] /\ call[q].pc = "copy"
    BY <1>14, <1>15
  <2>2. call[q].ip \in Inum /\ call[q].ip # i /\ call[q].f \in FileId /\ call[q].f # c.f
    BY <1>1, <1>5, <2>1, CopyApart, CopyFile
  <2>3. CopyOK(call[q], ftable[call[q].f].off, inode[call[q].ip], disk.data, disk.din[call[q].ip])
    BY <2>1 DEF BlockInv, Copying
  <2>4. ftable'[call[q].f] = ftable[call[q].f]
    <3>1. ftable = [f \in FileId |-> ftable[f]]
      BY DEF FileInv, Shapes
    <3> QED BY <1>5, <2>2, <3>1
  <2>5. inode'[call[q].ip] = inode[call[q].ip] /\ disk'.din[call[q].ip] = disk.din[call[q].ip]
    BY <1>11, <1>12, <1>13, <2>2
  <2>6. disk'.data = disk.data
    BY <1>12, <1>13
  <2> QED BY <2>1, <2>3, <2>4, <2>5, <2>6
<1>21. Sound(installed.din, installed)'
  BY <1>5 DEF BlockInv
<1>22. Kept(p)
  <2> SUFFICES ASSUME NEW q \in Proc, q # p, call[q].pc = "copy"
               PROVE  /\ ftable'[call[q].f].off = ftable[call[q].f].off
                      /\ inode'[call[q].ip] = inode[call[q].ip]
    BY <1>14 DEF Kept
  <2>1. call[q].ip \in Inum /\ call[q].ip # i /\ call[q].f \in FileId /\ call[q].f # c.f
    BY <1>1, <1>5, CopyApart, CopyFile
  <2>2. ftable = [f \in FileId |-> ftable[f]]
    BY DEF FileInv, Shapes
  <2> QED BY <1>5, <1>11, <2>1, <2>2
<1> QED BY <1>17, <1>18, <1>19, <1>20, <1>21, <1>22 DEF BlockInv, BlockNext

LEMMA BlockInvNext ==
    ASSUME FileInv, FileInv', BlockInv, [Next]_vars PROVE BlockInv'
<1>1. CASE UNCHANGED vars
  <2>1. /\ call' = call /\ ftable' = ftable /\ lock' = lock /\ inop' = inop
        /\ inode' = inode /\ disk' = disk /\ installed' = installed
    BY <1>1 DEF vars, fileVars, dataVars, logVars
  <2> QED BY <2>1 DEF BlockInv, Holders, Synced, Steady, Copying
<1>2. ASSUME NEW p \in Proc, NEW i \in Inum,
             SysOpen(p, i) \/ Unlink(p, i)
      PROVE  BlockInv'
  BY <1>2, SysOpenBlocks, UnlinkBlocks DEF BlockNext
<1>3. ASSUME NEW p \in Proc, NEW fd \in Fd, SysDup(p, fd) \/ SysClose(p, fd) PROVE BlockInv'
  BY <1>3, SysDupBlocks, SysCloseBlocks DEF BlockNext
<1>4. ASSUME NEW p \in Proc, NEW fd \in Fd, NEW n \in WriteSizes,
             Fileread(p, fd, n) \/ Filewrite(p, fd, n)
      PROVE  BlockInv'
  BY <1>4, FilereadBlocks, FilewriteBlocks DEF BlockNext
<1>5. ASSUME NEW p \in Proc,
             CloseBegin(p) \/ Iput(p) \/ CloseEnd(p) \/ SysPipe(p) \/ Pipealloc(p)
      PROVE  BlockInv'
  BY <1>5, CloseBeginBlocks, IputBlocks, CloseEndBlocks, SysPipeBlocks, PipeallocBlocks DEF BlockNext
<1>9. ASSUME NEW p \in Proc, PipeNoPage(p) \/ PipeFds(p) \/ PipeUndo(p) PROVE BlockInv'
  BY <1>9, PipeNoPageBlocks, PipeFdsBlocks, PipeUndoBlocks DEF BlockNext
<1>10. ASSUME NEW p \in Proc, OpenFd(p, TRUE, TRUE) \/ OpenFd(p, FALSE, TRUE) \/ OpenNoFd(p)
       PROVE  BlockInv'
  BY <1>10, OpenFdBlocks, OpenNoFdBlocks DEF BlockNext
<1>6. ASSUME NEW p \in Proc, SysExit(p) \/ ExitFiles(p) \/ \E q \in Proc : ForkFiles(p, q)
      PROVE  BlockInv'
  BY <1>6, SysExitBlocks, ExitFilesBlocks, ForkFilesBlocks DEF BlockNext
<1>7. ASSUME NEW p \in Proc,
             WriteBegin(p) \/ WriteLock(p) \/ WriteBlock(p) \/ WriteDone(p) \/ WriteEnd(p)
      PROVE  BlockInv'
  BY <1>7, WriteBeginBlocks, WriteLockBlocks, WriteBlockBlocks, WriteDoneBlocks, WriteEndBlocks DEF BlockNext
<1>8. ASSUME Crash PROVE BlockInv'
  BY <1>8, RestartBlocks DEF Crash
<1> QED BY <1>1, <1>2, <1>3, <1>4, <1>5, <1>6, <1>7, <1>8, <1>9, <1>10 DEF Next

(* The inductive invariant of the blocks: balloc, bmap, itrunc and iupdate  *)
(* in writei, iput and unlink, with every call of file.c around them.       *)
THEOREM BlockInvariant == Spec => []BlockInv
<1>1. Init => FileInv /\ BlockInv
  BY FileInvInit, BlockInvInit
<1>2. (FileInv /\ BlockInv) /\ [Next]_vars => (FileInv /\ BlockInv)'
  BY FileInvNext, BlockInvNext
<1> QED BY <1>1, <1>2, PTL DEF Spec

(* File.BlocksExact: in the disk a restart finds, always, and in the cache  *)
(* whenever no transaction is open, a block is marked in the free map       *)
(* exactly when an inode reaches it, and never two inodes do; a crash       *)
(* between the transactions of one write, or a panic of balloc on a full    *)
(* disk, leaks no block and gives none away twice.                          *)
THEOREM BlocksAreExact == Spec => []BlocksExact
<1>1. FileInv /\ BlockInv => BlocksExact
  BY BlockInvExact
<1> QED BY <1>1, FileInvariant, BlockInvariant, PTL

(***************************************************************************)
(* The blocks a transaction writes.  After v turns of the loop of writei a *)
(* transaction has written v blocks of data and, for each that was not     *)
(* there, a block of the free map; a write that starts inside a block      *)
(* finds that one; the table of indirect blocks, and the part of the free  *)
(* map for it, are written once.                                           *)
(***************************************************************************)
MapBlocks == {BBLOCK(b) : b \in Block}
Logging == {"cend", "copy", "wend"}

Slack(S, a) == IF a # 0 /\ DataBlock(a) \in S THEN 2 ELSE 0
Ragged(v, r) == IF v > 0 /\ r > 0 THEN 1 ELSE 0
Turns(v, r, tot, n1) ==
    /\ v = 0 => tot = 0
    /\ v > 0 => (v - 1) * BSIZE < tot + r /\ (tot < n1 => tot + r = v * BSIZE)
CopyLog(c, o, S, a) ==
    \E v \in Nat : /\ Turns(v, o % BSIZE, c.tot, c.n1)
                   /\ Cardinality(S) + Ragged(v, o % BSIZE) <= 2 * v + Slack(S, a)

OpOK(c, o, S, a) ==
    /\ IsFiniteSet(S)
    /\ c.pc \notin Logging => S = {}
    /\ c.pc = "cend" => S \subseteq MapBlocks \cup {InodeBlock}
    /\ c.pc \in {"ilock", "copy"} => c.n1 <= MaxChunk
    /\ c.pc = "copy" => CopyLog(c, o, S, a)
    /\ c.pc = "wend" => Cardinality(S) <= MAXOPBLOCKS
LogInv ==
    /\ op = [p \in Proc |-> op[p]]
    /\ \A p \in Proc : OpOK(call[p], ftable[call[p].f].off, op[p],
                            inode[call[p].ip].addrs[NDIRECT])

LEMMA LogFacts ==
    /\ MAXOPBLOCKS \in Nat /\ MAXOPBLOCKS >= 6
    /\ IsFiniteSet(MapBlocks) /\ Cardinality(MapBlocks) < MAXOPBLOCKS
    /\ Cardinality(MapBlocks) \in Nat
<1>1. MAXOPBLOCKS \in Nat /\ MAXOPBLOCKS >= 6
  BY FileAssumption
<1>2. IsFiniteSet(Block)
  BY FileFacts, FS_Interval DEF Block
<1>3. PICK f : f = [b \in Block |-> BBLOCK(b)]
  OBVIOUS
<1>4. f \in Surjection(Block, MapBlocks)
  BY <1>3 DEF Surjection, MapBlocks
<1>5. IsFiniteSet(MapBlocks)
  BY <1>2, <1>4, FS_Surjection
<1>6. Cardinality(MapBlocks) \in Nat
  BY <1>5, FS_CardinalityType
<1> QED BY <1>1, <1>5, <1>6, FreeMapAssumption DEF MapBlocks

LEMMA CountAdd ==
    ASSUME NEW S, IsFiniteSet(S), NEW x
    PROVE  /\ IsFiniteSet(S \cup {x}) /\ Cardinality(S) \in Nat
           /\ Cardinality(S \cup {x}) \in Nat /\ Cardinality(S \cup {x}) <= Cardinality(S) + 1
<1>1. /\ IsFiniteSet(S \cup {x}) /\ Cardinality(S) \in Nat
      /\ Cardinality(S \cup {x}) = IF x \in S THEN Cardinality(S) ELSE Cardinality(S) + 1
  BY FS_AddElement, FS_CardinalityType
<1> QED BY <1>1

LEMMA CountWithin ==
    ASSUME NEW S, IsFiniteSet(S), NEW T, T \subseteq S
    PROVE  IsFiniteSet(T) /\ Cardinality(T) \in Nat /\ Cardinality(S) \in Nat
           /\ Cardinality(T) <= Cardinality(S)
BY FS_Subset, FS_CardinalityType

LEMMA CountTwo ==
    ASSUME NEW S, IsFiniteSet(S), NEW a, NEW b, NEW T, T \subseteq S \cup {a, b}
    PROVE  /\ IsFiniteSet(T) /\ Cardinality(T) \in Nat /\ Cardinality(S) \in Nat
           /\ Cardinality(T) <= Cardinality(S) + 2
<1>1. PICK U, W : U = S \cup {a} /\ W = U \cup {b}
  OBVIOUS
<1>2. /\ IsFiniteSet(U) /\ Cardinality(S) \in Nat /\ Cardinality(U) \in Nat
      /\ Cardinality(U) <= Cardinality(S) + 1
  BY <1>1, CountAdd
<1>3. IsFiniteSet(W) /\ Cardinality(W) \in Nat /\ Cardinality(W) <= Cardinality(U) + 1
  BY <1>1, <1>2, CountAdd
<1>4. T \subseteq W
  BY <1>1
<1>5. IsFiniteSet(T) /\ Cardinality(T) \in Nat /\ Cardinality(T) <= Cardinality(W)
  BY <1>3, <1>4, CountWithin
<1> QED BY <1>2, <1>3, <1>5

(* What balloc and bmap log.                                                *)
EntryLogged(x, k, z) ==
    \/ /\ x.ino.addrs[k] # 0 /\ z.log = x.log /\ z.ino = x.ino
       /\ z.addr = x.ino.addrs[k] /\ z.d = x.d
    \/ /\ x.ino.addrs[k] = 0 /\ z.addr \in Block
       /\ z.ino.addrs = [x.ino.addrs EXCEPT ![k] = z.addr]
       /\ \E m : z.log = x.log \cup {m, DataBlock(z.addr)}

LEMMA AddrOfLogs ==
    ASSUME NEW n, NEW x, IsLookup(x, n), NEW k \in 0..NDIRECT, AddrsOK(x.ino),
           NEW z, z = AddrOf(x, k), ~z.full
    PROVE  EntryLogged(x, k, z)
<1>1. CASE x.ino.addrs[k] # 0
  <2>1. z = [x EXCEPT !.addr = x.ino.addrs[k]]
    BY <1>1 DEF AddrOf
  <2>2. z = [ino |-> x.ino, d |-> x.d, log |-> x.log, addr |-> x.ino.addrs[k], full |-> x.full]
    BY <2>1 DEF IsLookup
  <2> QED BY <1>1, <2>2 DEF EntryLogged
<1>2. CASE x.ino.addrs[k] = 0
  <2>1. PICK y : y = Balloc(x)
    OBVIOUS
  <2>2. ~y.full
    BY <1>2, <2>1 DEF AddrOf
  <2>3. PICK b \in Block \ x.d.used :
              y = [ino |-> x.ino,
                   d |-> [din |-> x.d.din, used |-> x.d.used \cup {b},
                          data |-> [x.d.data EXCEPT ![b] = Zeroed], text |-> x.d.text],
                   log |-> x.log \cup {BBLOCK(b), DataBlock(b)}, addr |-> b, full |-> x.full]
    BY <2>1, <2>2, BallocIs
  <2>4. PICK l, e : /\ l = x.log \cup {BBLOCK(b), DataBlock(b)}
                    /\ e = [din |-> x.d.din, used |-> x.d.used \cup {b},
                            data |-> [x.d.data EXCEPT ![b] = Zeroed], text |-> x.d.text]
    OBVIOUS
  <2>5. y = [ino |-> x.ino, d |-> e, log |-> l, addr |-> b, full |-> x.full]
    BY <2>3, <2>4
  <2>6. z = [y EXCEPT !.ino.addrs[k] = y.addr]
    BY <1>2, <2>1, <2>2 DEF AddrOf
  <2>7. PICK a, i : a = [x.ino.addrs EXCEPT ![k] = b] /\ i = [x.ino EXCEPT !.addrs = a]
    OBVIOUS
  <2>8. i.addrs = a
    BY <2>7 DEF IsLookup, IsInode
  <2>9. z = [ino |-> i, d |-> e, log |-> l, addr |-> b, full |-> x.full]
    BY <2>5, <2>6, <2>7
  <2>10. z.addr = b /\ z.log = l /\ z.ino.addrs = a
    BY <2>8, <2>9
  <2> QED BY <1>2, <2>3, <2>4, <2>7, <2>10 DEF EntryLogged
<1> QED BY <1>1, <1>2

Logged(x, bn, z) ==
    \/ z.log = {} /\ z.ino.addrs[NDIRECT] = x.ino.addrs[NDIRECT]
    \/ /\ Addr(x.ino, x.d.data, PathOf(bn)) = 0 /\ z.ino.addrs[NDIRECT] = x.ino.addrs[NDIRECT]
       /\ \E m : z.log \subseteq {m, DataBlock(z.addr)}
    \/ /\ Addr(x.ino, x.d.data, PathOf(bn)) = 0 /\ z.ino.addrs[NDIRECT] = x.ino.addrs[NDIRECT]
       /\ x.ino.addrs[NDIRECT] # 0
       /\ \E m : z.log = {m, DataBlock(z.addr), DataBlock(x.ino.addrs[NDIRECT])}
    \/ /\ Addr(x.ino, x.d.data, PathOf(bn)) = 0
       /\ x.ino.addrs[NDIRECT] = 0 /\ z.ino.addrs[NDIRECT] # 0
       /\ \E m, h : /\ z.log \subseteq {h, DataBlock(z.ino.addrs[NDIRECT]), m, DataBlock(z.addr)}
                    /\ DataBlock(z.ino.addrs[NDIRECT]) \in z.log

LEMMA BmapLogs ==
    ASSUME NEW n, NEW x, IsLookup(x, n), x.log = {}, AddrsOK(x.ino),
           NEW bn \in 0..(MAXFILE - 1), NEW z, z = Bmap(x, bn), ~z.full
    PROVE  Logged(x, bn, z)
<1>0. NDIRECT \in 0..NDIRECT /\ NDIRECT \in Nat /\ 0 \notin Block
  BY PathFacts
<1>1. CASE bn < NDIRECT
  <2>1. bn \in 0..NDIRECT /\ bn # NDIRECT /\ PathOf(bn) = bn /\ bn <= NDIRECT
    BY <1>0, <1>1 DEF PathOf
  <2>2. z = AddrOf(x, bn)
    BY <1>1 DEF Bmap
  <2>3. Addr(x.ino, x.d.data, PathOf(bn)) = x.ino.addrs[bn]
    BY <2>1 DEF Addr
  <2>4. EntryLogged(x, bn, z)
    BY <2>1, <2>2, AddrOfLogs
  <2>5. CASE x.ino.addrs[bn] # 0
    BY <2>4, <2>5 DEF Logged, EntryLogged
  <2>6. CASE x.ino.addrs[bn] = 0
    <3>1. PICK m : z.log = {m, DataBlock(z.addr)}
      BY <2>4, <2>6 DEF EntryLogged
    <3>2. z.ino.addrs[NDIRECT] = x.ino.addrs[NDIRECT]
      BY <1>0, <2>1, <2>4, <2>6 DEF AddrsOK, EntryLogged
    <3> QED BY <2>3, <2>6, <3>1, <3>2 DEF Logged
  <2> QED BY <2>5, <2>6
<1>2. CASE ~(bn < NDIRECT)
  <2>1. PICK t, k : t = AddrOf(x, NDIRECT) /\ k = bn - NDIRECT
    OBVIOUS
  <2>2. PathOf(bn) \in Paths /\ PathOf(bn) > NDIRECT /\ PathOf(bn) - NDIRECT - 1 = k
    BY <1>2, <2>1, PathIs
  <2>3. ~t.full
    BY <1>2, <2>1 DEF Bmap
  <2>4. IsLookup(t, n)
    BY <2>1, AddrOfKeeps
  <2>5. \/ /\ x.ino.addrs[NDIRECT] # 0 /\ t.log = x.log /\ t.ino = x.ino
           /\ t.addr = x.ino.addrs[NDIRECT] /\ t.d = x.d
        \/ /\ x.ino.addrs[NDIRECT] = 0 /\ t.addr \in Block
           /\ t.ino.addrs = [x.ino.addrs EXCEPT ![NDIRECT] = t.addr]
           /\ \E m : t.log = x.log \cup {m, DataBlock(t.addr)}
    <3>1. PICK h \in 0..NDIRECT : h = NDIRECT
      BY <1>0
    <3>2. t = AddrOf(x, h)
      BY <2>1, <3>1
    <3>3. EntryLogged(x, h, t)
      BY <2>3, <3>2, AddrOfLogs
    <3> QED BY <3>1, <3>3 DEF EntryLogged
  <2>6. t.ino.addrs[NDIRECT] = t.addr /\ t.addr # 0
    BY <1>0, <2>5 DEF AddrsOK
  <2>7. x.ino.addrs[NDIRECT] = 0 => Addr(x.ino, x.d.data, PathOf(bn)) = 0
    BY <1>0, <2>2 DEF Addr, Paths
  <2>8. x.ino.addrs[NDIRECT] # 0 =>
          Addr(x.ino, x.d.data, PathOf(bn)) = x.d.data[x.ino.addrs[NDIRECT]][k]
    BY <1>0, <2>2 DEF Addr, Paths
  <2>9. CASE t.d.data[t.addr][k] # 0
    <3>1. z = [t EXCEPT !.addr = t.d.data[t.addr][k]]
      BY <1>2, <2>1, <2>3, <2>9 DEF Bmap
    <3>2. z = [ino |-> t.ino, d |-> t.d, log |-> t.log, addr |-> t.d.data[t.addr][k],
               full |-> t.full]
      BY <2>4, <3>1 DEF IsLookup
    <3>3. z.ino = t.ino /\ z.log = t.log
      BY <3>2
    <3>4. CASE x.ino.addrs[NDIRECT] # 0
      BY <2>5, <3>3, <3>4 DEF Logged
    <3>5. CASE x.ino.addrs[NDIRECT] = 0
      <4>1. PICK h : t.log = {h, DataBlock(t.addr)}
        BY <2>5, <3>5
      <4>2. /\ z.log \subseteq {h, DataBlock(z.ino.addrs[NDIRECT]), h, DataBlock(z.addr)}
            /\ DataBlock(z.ino.addrs[NDIRECT]) \in z.log
        BY <2>6, <3>3, <4>1
      <4> QED BY <2>6, <2>7, <3>3, <3>5, <4>2 DEF Logged
    <3> QED BY <3>4, <3>5
  <2>10. CASE t.d.data[t.addr][k] = 0
    <3>1. PICK y : y = Balloc(t)
      OBVIOUS
    <3>2. ~y.full
      BY <1>2, <2>1, <2>3, <2>10, <3>1 DEF Bmap
    <3>3. z = [y EXCEPT !.d.data[t.addr][k] = y.addr, !.log = @ \cup {DataBlock(t.addr)}]
      BY <1>2, <2>1, <2>3, <2>10, <3>1, <3>2 DEF Bmap
    <3>4. \E b : y.ino = t.ino /\ y.addr = b /\ y.log = t.log \cup {BBLOCK(b), DataBlock(b)}
      <4>1. PICK b \in Block \ t.d.used :
              y = [ino |-> t.ino,
                   d |-> [din |-> t.d.din, used |-> t.d.used \cup {b},
                          data |-> [t.d.data EXCEPT ![b] = Zeroed], text |-> t.d.text],
                   log |-> t.log \cup {BBLOCK(b), DataBlock(b)}, addr |-> b, full |-> t.full]
        BY <2>4, <3>1, <3>2, BallocIs
      <4> QED BY <4>1
    <3>5. PICK m : y.ino = t.ino /\ y.log = t.log \cup {m, DataBlock(y.addr)}
      BY <3>4
    <3>6. z.ino = y.ino /\ z.addr = y.addr /\ z.log = y.log \cup {DataBlock(t.addr)}
      <4>1. IsLookup(y, n)
        BY <2>4, <3>1, BallocKeeps
      <4>2. y = [ino |-> y.ino, d |-> y.d, log |-> y.log, addr |-> y.addr, full |-> y.full]
        BY <4>1 DEF IsLookup
      <4>3. PICK e : e = [y.d EXCEPT !.data[t.addr][k] = y.addr]
        OBVIOUS
      <4>4. PICK w : w = [y EXCEPT !.d.data[t.addr][k] = y.addr]
        OBVIOUS
      <4>5. w = [ino |-> y.ino, d |-> e, log |-> y.log, addr |-> y.addr, full |-> y.full]
        BY <4>2, <4>3, <4>4
      <4>6. z = [w EXCEPT !.log = @ \cup {DataBlock(t.addr)}]
        BY <3>3, <4>4
      <4> QED BY <4>5, <4>6
    <3>7. z.ino = t.ino /\ z.log = t.log \cup {m, DataBlock(z.addr), DataBlock(t.addr)}
      BY <3>5, <3>6
    <3>8. CASE x.ino.addrs[NDIRECT] # 0
      <4>1. /\ z.ino = x.ino
            /\ z.log = {m, DataBlock(z.addr), DataBlock(x.ino.addrs[NDIRECT])}
        BY <2>5, <3>7, <3>8
      <4>2. Addr(x.ino, x.d.data, PathOf(bn)) = 0
        BY <2>5, <2>8, <2>10, <3>8
      <4> QED BY <3>8, <4>1, <4>2 DEF Logged
    <3>9. CASE x.ino.addrs[NDIRECT] = 0
      <4>1. PICK h : t.log = {h, DataBlock(t.addr)}
        BY <2>5, <3>9
      <4>2. /\ z.log \subseteq {h, DataBlock(z.ino.addrs[NDIRECT]), m, DataBlock(z.addr)}
            /\ DataBlock(z.ino.addrs[NDIRECT]) \in z.log
        BY <2>6, <3>7, <4>1
      <4> QED BY <2>6, <2>7, <3>7, <3>9, <4>2 DEF Logged
    <3> QED BY <3>8, <3>9
  <2> QED BY <2>9, <2>10
<1> QED BY <1>1, <1>2

(* A step of p, for which p answers alone.                                  *)
LEMMA LogStep ==
    ASSUME LogInv, NEW p \in Proc, Kept(p), NEW S, op' = [op EXCEPT ![p] = S],
           OpOK(call'[p], ftable'[call'[p].f].off, S, inode'[call'[p].ip].addrs[NDIRECT])
    PROVE  LogInv'
<1>1. op'[p] = S /\ op' = [q \in Proc |-> op'[q]] /\ \A q \in Proc : q # p => op'[q] = op[q]
  BY DEF LogInv
<1>2. ASSUME NEW q \in Proc
      PROVE  OpOK(call'[q], ftable'[call'[q].f].off, op'[q], inode'[call'[q].ip].addrs[NDIRECT])
  <2>1. CASE q = p
    BY <1>1, <2>1
  <2>2. CASE q # p
    <3>1. call'[q] = call[q] /\ op'[q] = op[q]
      BY <1>1, <2>2 DEF Kept
    <3>2. OpOK(call[q], ftable[call[q].f].off, op[q], inode[call[q].ip].addrs[NDIRECT])
      BY DEF LogInv
    <3>3. CASE call[q].pc = "copy"
      BY <2>2, <3>1, <3>2, <3>3 DEF Kept
    <3>4. CASE call[q].pc # "copy"
      BY <3>1, <3>2, <3>4 DEF OpOK
    <3> QED BY <3>3, <3>4
  <2> QED BY <2>1, <2>2
<1> QED BY <1>1, <1>2 DEF LogInv

(* A step that logs nothing.                                                *)
LEMMA QuietLogs ==
    ASSUME LogInv, NEW p \in Proc, BlockNext(p),
           \/ op' = op /\ call[p].pc \notin Logging
           \/ op' = [op EXCEPT ![p] = {}],
           call'[p].pc \notin Logging,
           call'[p].pc = "ilock" => call'[p].n1 <= MaxChunk
    PROVE  LogInv'
<1>1. op' = [op EXCEPT ![p] = {}]
  <2>1. CASE op' = op /\ call[p].pc \notin Logging
    <3>1. op = [q \in Proc |-> op[q]] /\ op[p] = {}
      BY <2>1 DEF LogInv, OpOK
    <3> QED BY <2>1, <3>1
  <2> QED BY <2>1
<1>2. OpOK(call'[p], ftable'[call'[p].f].off, {}, inode'[call'[p].ip].addrs[NDIRECT])
  BY FS_EmptySet DEF OpOK, Logging
<1> QED BY <1>1, <1>2, LogStep DEF BlockNext

(* No call under way.                                                       *)
LEMMA IdleLogs ==
    ASSUME call = [p \in Proc |-> Idle], op = [p \in Proc |-> {}] PROVE LogInv
<1>1. \A p \in Proc : call[p].pc = "idle" /\ op[p] = {}
  BY DEF Idle
<1> QED BY <1>1, FS_EmptySet DEF LogInv, OpOK, Logging

LEMMA RestartLogs == ASSUME Restart PROVE LogInv'
<1>1. call' = [p \in Proc |-> Idle] /\ op' = [p \in Proc |-> {}]
  BY DEF Restart
<1>2. \A p \in Proc : call'[p].pc = "idle" /\ op'[p] = {}
  BY <1>1 DEF Idle
<1>3. op' = [p \in Proc |-> op'[p]]
  BY <1>1
<1> QED BY <1>2, <1>3, FS_EmptySet DEF LogInv, OpOK, Logging

(* The chunk filewrite chose leaves room for the inode.                     *)
LEMMA CopyFits ==
    ASSUME NEW c, NEW o \in Nat, NEW S, IsFiniteSet(S), NEW a, CopyLog(c, o, S, a),
           c.n1 \in Nat, c.tot \in 0..c.n1, c.n1 <= MaxChunk
    PROVE  Cardinality(S) \in Nat /\ Cardinality(S) + 1 <= MAXOPBLOCKS
<1>1. PICK r : r = o % BSIZE
  OBVIOUS
<1>2. PICK v \in Nat : /\ Turns(v, r, c.tot, c.n1)
                       /\ Cardinality(S) + Ragged(v, r) <= 2 * v + Slack(S, a)
  BY <1>1 DEF CopyLog
<1>3. PICK K : K = (MAXOPBLOCKS - 1 - 1 - 2) \div 2
  OBVIOUS
<1>4. K \in Nat /\ 2 * K <= MAXOPBLOCKS - 4 /\ K >= 1
  BY <1>3, LogFacts
<1>5. c.n1 <= K * BSIZE
  BY <1>3 DEF MaxChunk
<1>6. BSIZE \in Nat /\ BSIZE >= 1 /\ r \in 0..(BSIZE - 1)
  BY <1>1, PathFacts
<1>7. Cardinality(S) \in Nat /\ Slack(S, a) \in {0, 2} /\ Ragged(v, r) \in {0, 1}
  BY FS_CardinalityType DEF Slack, Ragged
<1>8. CASE v = 0
  BY <1>2, <1>4, <1>7, <1>8, LogFacts
<1>9. CASE v > 0
  <2>1. PICK u \in Nat : v = u + 1
    BY <1>9
  <2>2. PICK g, h : g = u * BSIZE /\ h = K * BSIZE
    OBVIOUS
  <2>3. g \in Nat /\ h \in Nat
    BY <1>4, <1>6, <2>2
  <2>4. v - 1 = u
    BY <2>1
  <2>5. g < c.tot + r
    BY <1>2, <1>9, <2>2, <2>4 DEF Turns
  <2>6. g < h + r
    BY <1>5, <1>6, <2>2, <2>3, <2>5
  <2>7. ~(K + 1 <= u)
    <3> SUFFICES ASSUME K < u PROVE FALSE
      BY <1>4
    <3>1. h + BSIZE <= g
      BY <1>4, <1>6, <2>2, TimesLess
    <3> QED BY <1>6, <2>3, <2>6, <3>1
  <2>8. CASE r = 0
    <3>1. u # K
      BY <2>2, <2>3, <2>6, <2>8
    <3>2. v <= K
      BY <1>4, <2>1, <2>7, <3>1
    <3> QED BY <1>2, <1>4, <1>7, <3>2, LogFacts
  <2>9. CASE r # 0
    <3>1. Ragged(v, r) = 1
      BY <1>6, <1>9, <2>9 DEF Ragged
    <3>2. v <= K + 1
      BY <1>4, <2>1, <2>7
    <3> QED BY <1>2, <1>4, <1>7, <3>1, <3>2, LogFacts
  <2> QED BY <2>8, <2>9
<1> QED BY <1>8, <1>9

(* The calls that log nothing, or whose transaction is over with the step.  *)
LEMMA StartLogs ==
    ASSUME LogInv, NEW p \in Proc, BlockNext(p), call[p].pc = "idle", call' = call,
           op' = op \/ EndOp(p)
    PROVE  LogInv'
<1>1. call[p].pc \notin Logging /\ call'[p].pc \notin Logging /\ call'[p].pc # "ilock"
  BY DEF Logging
<1>2. op' = op \/ op' = [op EXCEPT ![p] = {}]
  BY DEF EndOp
<1> QED BY <1>1, <1>2, QuietLogs

LEMMA CallLogs ==
    ASSUME FileInv, LogInv, NEW p \in Proc, BlockNext(p), NEW k, call' = [call EXCEPT ![p] = k],
           k.pc \notin Logging \cup {"ilock"},
           (op' = op /\ call[p].pc \notin Logging) \/ EndOp(p)
    PROVE  LogInv'
<1>1. call'[p] = k
  BY OneMoves
<1>2. \/ op' = op /\ call[p].pc \notin Logging
      \/ op' = [op EXCEPT ![p] = {}]
  BY DEF EndOp
<1> QED BY <1>1, <1>2, QuietLogs

LEMMA FilecloseLogs ==
    ASSUME FileInv, LogInv, NEW p \in Proc, BlockNext(p), NEW g, NEW c,
           call[p].pc \notin Logging, c.pc \notin Logging \cup {"ilock"}, Fileclose(p, g, c)
    PROVE  LogInv'
<1>1. PICK b : b = [Idle EXCEPT !.pc = "cbegin", !.ip = ftable[g].ip, !.then = c.pc]
  OBVIOUS
<1>2. PICK k : k = IF ftable[g].ref = 1 /\ ftable[g].type = "inode" THEN b ELSE c
  OBVIOUS
<1>3. call' = [call EXCEPT ![p] = k] /\ op' = op
  BY <1>1, <1>2 DEF Fileclose, Goto, logVars
<1>4. b.pc = "cbegin"
  BY <1>1 DEF Idle
<1>5. k.pc \notin Logging \cup {"ilock"}
  BY <1>2, <1>4 DEF Logging
<1> QED BY <1>3, <1>5, CallLogs

LEMMA CloseLogs ==
    ASSUME FileInv, LogInv, NEW p \in Proc, BlockNext(p),
           ExitFiles(p) \/ PipeUndo(p) \/ \E fd \in Fd : SysClose(p, fd)
    PROVE  LogInv'
<1>0. Idle.pc = "idle"
  BY IdleIs
<1>1. ASSUME NEW fd \in Fd, SysClose(p, fd) PROVE LogInv'
  <2>1. PICK g : g = ofile[p][fd]
    OBVIOUS
  <2>2. call[p].pc = "idle" /\ Fileclose(p, g, Idle)
    BY <1>1, <2>1 DEF SysClose, Start
  <2> QED BY <1>0, <2>2, FilecloseLogs DEF Logging
<1>2. CASE PipeUndo(p)
  <2>1. PICK g, c : g = call[p].f /\ c = IF call[p].w = 0 THEN Idle ELSE Undo(call[p].w, 0)
    OBVIOUS
  <2>2. call[p].pc = "pundo" /\ Fileclose(p, g, c)
    BY <1>2, <2>1 DEF PipeUndo, At
  <2>3. c.pc \in {"idle", "pundo"}
    BY <1>0, <2>1, UndoIs
  <2> QED BY <2>2, <2>3, FilecloseLogs DEF Logging
<1>3. CASE ExitFiles(p)
  <2>1. PICK g, k : /\ g = ofile[p][Min(Fd \ FreeFds(ofile, p))]
                    /\ k = [Idle EXCEPT !.pc = "exit"]
    OBVIOUS
  <2>2. /\ call[p].pc = "exit"
        /\ (call' = [call EXCEPT ![p] = Idle] /\ op' = op) \/ Fileclose(p, g, k)
    BY <1>3, <2>1 DEF ExitFiles, At, Goto, logVars
  <2>3. k.pc = "exit"
    BY <2>1 DEF Idle
  <2>4. CASE Fileclose(p, g, k)
    BY <2>2, <2>3, <2>4, FilecloseLogs DEF Logging
  <2>5. CASE call' = [call EXCEPT ![p] = Idle] /\ op' = op
    BY <1>0, <2>2, <2>5, CallLogs DEF Logging
  <2> QED BY <2>2, <2>4, <2>5
<1> QED BY <1>1, <1>2, <1>3

LEMMA PipeLogs ==
    ASSUME FileInv, LogInv, NEW p \in Proc, BlockNext(p),
           SysPipe(p) \/ Pipealloc(p) \/ PipeNoPage(p) \/ PipeFds(p)
    PROVE  LogInv'
<1>1. CASE SysPipe(p)
  <2>1. PICK k : k = [Idle EXCEPT !.pc = "pipe", !.f = Min(FreeFiles)]
    OBVIOUS
  <2>2. k.pc = "pipe"
    BY <2>1 DEF Idle
  <2>3. call' = [call EXCEPT ![p] = k] /\ op' = op /\ call[p].pc = "idle"
    BY <1>1, <2>1 DEF SysPipe, Start, Goto, logVars
  <2> QED BY <2>2, <2>3, CallLogs DEF Logging
<1>2. CASE Pipealloc(p)
  <2>1. PICK g, w : g = call[p].f /\ w = Min(FreeFiles)
    OBVIOUS
  <2>2. PICK k, h : k = [Idle EXCEPT !.pc = "kalloc", !.f = g, !.w = w] /\ h = Undo(g, 0)
    OBVIOUS
  <2>3. k.pc = "kalloc" /\ h.pc = "pundo"
    BY <2>2, UndoIs DEF Idle
  <2>4. /\ op' = op /\ call[p].pc = "pipe"
        /\ call' = [call EXCEPT ![p] = k] \/ call' = [call EXCEPT ![p] = h]
    BY <1>2, <2>1, <2>2 DEF Pipealloc, At, Goto, logVars
  <2> QED BY <2>3, <2>4, CallLogs DEF Logging
<1>3. CASE PipeNoPage(p)
  <2>1. PICK k : k = Undo(call[p].f, call[p].w)
    OBVIOUS
  <2>2. k.pc = "pundo"
    BY <2>1, UndoIs
  <2>3. call' = [call EXCEPT ![p] = k] /\ op' = op /\ call[p].pc = "kalloc"
    BY <1>3, <2>1 DEF PipeNoPage, At, Goto, logVars
  <2> QED BY <2>2, <2>3, CallLogs DEF Logging
<1>4. CASE PipeFds(p)
  <2>1. PICK k : /\ call[p].pc = "kalloc" /\ call' = [call EXCEPT ![p] = k]
                 /\ k.pc \in {"idle", "pundo"} /\ op' = op
    BY <1>4, PipeFdsIs
  <2> QED BY <2>1, CallLogs DEF Logging
<1> QED BY <1>1, <1>2, <1>3, <1>4

LEMMA OpenLogs ==
    ASSUME FileInv, LogInv, NEW p \in Proc, BlockNext(p),
           \/ \E i \in Inum : SysOpen(p, i)
           \/ \E a, b : OpenFd(p, a, b)
           \/ OpenNoFd(p)
    PROVE  LogInv'
<1>1. ASSUME NEW i \in Inum, SysOpen(p, i) PROVE LogInv'
  <2>1. PICK k : /\ call[p].pc = "idle" /\ call' = [call EXCEPT ![p] = k]
                 /\ k.pc \in {"iput", "open"} /\ op' = op
    BY <1>1, SysOpenIs
  <2> QED BY <2>1, CallLogs DEF Logging
<1>2. ASSUME NEW a, NEW b, OpenFd(p, a, b) PROVE LogInv'
  <2>1. call' = [call EXCEPT ![p] = Idle] /\ EndOp(p)
    BY <1>2 DEF OpenFd, Goto
  <2> QED BY <2>1, IdleIs, CallLogs DEF Logging
<1>3. CASE OpenNoFd(p)
  <2>1. PICK k : k = [Idle EXCEPT !.pc = "iput", !.ip = call[p].ip]
    OBVIOUS
  <2>2. k.pc = "iput"
    BY <2>1 DEF Idle
  <2>3. call' = [call EXCEPT ![p] = k] /\ op' = op /\ call[p].pc = "open"
    BY <1>3, <2>1 DEF OpenNoFd, At, Goto, logVars
  <2> QED BY <2>2, <2>3, CallLogs DEF Logging
<1> QED BY <1>1, <1>2, <1>3

LEMMA MoveLogs ==
    ASSUME FileInv, LogInv, NEW p \in Proc, BlockNext(p),
           CloseBegin(p) \/ SysExit(p) \/ \E fd \in Fd : \E n : Filewrite(p, fd, n)
    PROVE  LogInv'
<1>1. IsCall(call[p])
  BY CallAt
<1>2. CASE CloseBegin(p)
  <2>1. PICK k : k = [call[p] EXCEPT !.pc = "iput"]
    OBVIOUS
  <2>2. k.pc = "iput"
    BY <1>1, <2>1, PcExcept
  <2>3. call' = [call EXCEPT ![p] = k] /\ op' = op /\ call[p].pc = "cbegin"
    BY <1>2, <2>1 DEF CloseBegin, At, Now, Goto
  <2> QED BY <2>2, <2>3, CallLogs DEF Logging
<1>3. CASE SysExit(p)
  <2>1. PICK k : k = [call[p] EXCEPT !.pc = "exit"]
    OBVIOUS
  <2>2. k.pc = "exit"
    BY <1>1, <2>1, PcExcept
  <2>3. call' = [call EXCEPT ![p] = k] /\ op' = op /\ call[p].pc = "idle"
    BY <1>3, <2>1 DEF SysExit, Start, Now, Goto, logVars
  <2> QED BY <2>2, <2>3, CallLogs DEF Logging
<1>4. ASSUME NEW fd \in Fd, NEW n, Filewrite(p, fd, n) PROVE LogInv'
  <2>1. PICK k : k = [Idle EXCEPT !.pc = "wbegin", !.f = ofile[p][fd],
                                  !.ip = ftable[ofile[p][fd]].ip, !.n = n]
    OBVIOUS
  <2>2. k.pc = "wbegin"
    BY <2>1 DEF Idle
  <2>3. call' = [call EXCEPT ![p] = k] /\ op' = op /\ call[p].pc = "idle"
    BY <1>4, <2>1 DEF Filewrite, Start, Goto, logVars
  <2> QED BY <2>2, <2>3, CallLogs DEF Logging
<1> QED BY <1>2, <1>3, <1>4

LEMMA WriteBeginLogs ==
    ASSUME FileInv, LogInv, NEW p \in Proc, BlockNext(p), WriteBegin(p) PROVE LogInv'
<1>1. PICK c, m : c = call[p] /\ m = Min({c.n - c.i, MaxChunk})
  OBVIOUS
<1>2. PICK k : k = [c EXCEPT !.pc = "ilock", !.tot = 0, !.n1 = m]
  OBVIOUS
<1>3. c.pc = "wbegin" /\ call' = [call EXCEPT ![p] = k] /\ op' = op
  BY <1>1, <1>2 DEF WriteBegin, At, Goto
<1>4. CallOK(p, c) /\ IsCall(c) /\ call'[p] = k
  BY <1>1, <1>3, CallAt, OneMoves
<1>5. k.pc = "ilock" /\ k.n1 = m
  BY <1>2, <1>4 DEF IsCall
<1>6. m <= MaxChunk
  <2>1. PICK a : a = c.n - c.i
    OBVIOUS
  <2>2. a \in Nat
    BY <1>3, <1>4, <2>1 DEF CallOK, Writing
  <2>3. {a, MaxChunk} \subseteq Nat /\ {a, MaxChunk} # {}
    BY <2>2, ChunkNat
  <2> QED BY <1>1, <2>1, <2>3, LeastOf
<1>7. call[p].pc \notin Logging /\ call'[p].pc \notin Logging
  BY <1>1, <1>3, <1>4, <1>5 DEF Logging
<1> QED BY <1>3, <1>4, <1>5, <1>6, <1>7, QuietLogs

(* The end of a transaction.                                                *)
LEMMA EndLogs ==
    ASSUME FileInv, LogInv, NEW p \in Proc, BlockNext(p), CloseEnd(p) \/ WriteEnd(p)
    PROVE  LogInv'
<1>1. op' = [op EXCEPT ![p] = {}]
  BY DEF CloseEnd, WriteEnd, EndOp
<1>2. call'[p].pc \in {"idle", "exit", "wbegin"}
  <2>1. CallOK(p, call[p]) /\ IsCall(call[p])
    BY CallAt
  <2>2. CASE CloseEnd(p)
    <3>1. PICK k : k = [Idle EXCEPT !.pc = call[p].then]
      OBVIOUS
    <3>2. call' = [call EXCEPT ![p] = k] /\ call[p].pc = "cend"
      BY <2>2, <3>1 DEF CloseEnd, At, Goto
    <3>3. k.pc = call[p].then
      BY <3>1, IdleIs DEF IsCall
    <3>4. call[p].then \in {"idle", "exit"}
      BY <2>1, <3>2 DEF CallOK
    <3> QED BY <3>2, <3>3, <3>4, OneMoves
  <2>3. CASE WriteEnd(p)
    <3>1. PICK c, j : c = call[p] /\ j = c.i + c.r
      OBVIOUS
    <3>2. PICK h, k : /\ h = [c EXCEPT !.pc = "wbegin", !.i = j]
                      /\ k = IF c.r < 0 \/ j = c.n THEN Idle ELSE h
      OBVIOUS
    <3>3. h.pc = "wbegin" /\ Idle.pc = "idle"
      BY <2>1, <3>1, <3>2 DEF IsCall, Idle
    <3>4. call' = [call EXCEPT ![p] = k]
      BY <2>3, <3>1, <3>2 DEF WriteEnd, Goto
    <3>5. call'[p] = k
      BY <3>4, OneMoves
    <3> QED BY <3>2, <3>3, <3>5
  <2> QED BY <2>2, <2>3
<1>3. call'[p].pc \notin Logging /\ call'[p].pc # "ilock"
  BY <1>2 DEF Logging
<1> QED BY <1>1, <1>3, QuietLogs

(* iput of an unlinked file: the free map and the inode.                    *)
LEMMA IputLogs ==
    ASSUME FileInv, BlockInv, LogInv, NEW p \in Proc, BlockNext(p), Iput(p) PROVE LogInv'
<1>1. PICK k, i : k = [call[p] EXCEPT !.pc = "cend"] /\ i = call[p].ip
  OBVIOUS
<1>2. /\ call[p].pc = "iput" /\ call' = [call EXCEPT ![p] = k]
      /\ op' = [op EXCEPT ![p] = @ \cup DiscardLog(inode[i], disk)] \/ op' = op
  BY <1>1 DEF Iput, At, Now, Goto
<1>3. k.pc = "cend" /\ call'[p] = k
  BY <1>1, <1>2, CallAt, PcExcept, OneMoves
<1>4. i \in Inum
  BY <1>1, <1>2 DEF FileInv, Live, Referring
<1>5. op = [q \in Proc |-> op[q]] /\ op[p] = {}
  BY <1>2 DEF LogInv, OpOK, Logging
<1>6. DiscardLog(inode[i], disk) \subseteq MapBlocks \cup {InodeBlock}
  <2>1. Blocks(inode[i], disk) = {Addr(inode[i], disk.data, h) : h \in Paths} \ {0}
    BY BlocksAre
  <2>2. \A h \in Paths : Addr(inode[i], disk.data, h) \in Block \cup {0}
    BY <1>4 DEF BlockInv, Sound, MapOK
  <2> QED BY <2>1, <2>2 DEF DiscardLog, MapBlocks
<1>7. PICK S : S = op'[p]
  OBVIOUS
<1>8. op' = [op EXCEPT ![p] = S] /\ S \subseteq MapBlocks \cup {InodeBlock}
  <2>1. CASE op' = op
    <3>1. S = {}
      BY <1>5, <1>7, <2>1
    <3>2. op' = [op EXCEPT ![p] = S]
      BY <1>5, <2>1, <3>1
    <3> QED BY <3>1, <3>2
  <2>2. CASE op' = [op EXCEPT ![p] = @ \cup DiscardLog(inode[i], disk)]
    <3>1. op' = [op EXCEPT ![p] = DiscardLog(inode[i], disk)]
      BY <1>5, <2>2
    <3>2. S = DiscardLog(inode[i], disk)
      BY <1>5, <1>7, <3>1
    <3> QED BY <1>6, <3>1, <3>2
  <2> QED BY <1>2, <2>1, <2>2
<1>9. IsFiniteSet(S)
  <2>1. IsFiniteSet(MapBlocks \cup {InodeBlock})
    BY LogFacts, CountAdd
  <2> QED BY <1>8, <2>1, CountWithin
<1>10. OpOK(k, ftable'[k.f].off, S, inode'[k.ip].addrs[NDIRECT])
  BY <1>3, <1>8, <1>9 DEF OpOK, Logging
<1>11. OpOK(call'[p], ftable'[call'[p].f].off, S, inode'[call'[p].ip].addrs[NDIRECT])
  BY <1>3, <1>10
<1> QED BY <1>8, <1>11, LogStep DEF BlockNext

LEMMA WriteLockLogs ==
    ASSUME FileInv, BlockInv, LogInv, NEW p \in Proc, BlockNext(p), WriteLock(p)
    PROVE  LogInv'
<1>1. PICK c, i : c = call[p] /\ i = c.ip
  OBVIOUS
<1>2. c.pc = "ilock" /\ op' = op /\ IsCall(c)
  BY <1>1, CallAt DEF WriteLock, At, logVars
<1>3. op = [q \in Proc |-> op[q]] /\ op[p] = {} /\ c.n1 <= MaxChunk
  BY <1>1, <1>2 DEF LogInv, OpOK, Logging
<1>4. op' = [op EXCEPT ![p] = {}]
  BY <1>2, <1>3
<1>5. \E l \in {"copy", "wend"} : call'[p].pc = l /\ call'[p].tot = c.tot /\ call'[p].n1 = c.n1
  <2>1. CASE WriteFits(inode[i], ftable[c.f].off, c.n1)
    <3>1. PICK k : k = [c EXCEPT !.pc = "copy"]
      OBVIOUS
    <3>2. call' = [call EXCEPT ![p] = k]
      BY <1>1, <2>1, <3>1 DEF WriteLock, Now, Goto
    <3>3. k.pc = "copy" /\ k.tot = c.tot /\ k.n1 = c.n1
      BY <1>2, <3>1, PcExcept
    <3> QED BY <3>2, <3>3, OneMoves
  <2>2. CASE ~WriteFits(inode[i], ftable[c.f].off, c.n1)
    <3>1. PICK k : k = [c EXCEPT !.pc = "wend", !.r = -1]
      OBVIOUS
    <3>2. call' = [call EXCEPT ![p] = k]
      BY <1>1, <2>2, <3>1 DEF WriteLock, Goto
    <3>3. k.pc = "wend" /\ k.tot = c.tot /\ k.n1 = c.n1
      BY <1>2, <3>1 DEF IsCall
    <3> QED BY <3>2, <3>3, OneMoves
  <2> QED BY <2>1, <2>2
<1>6. PICK k, o, a : /\ k = call'[p] /\ o = ftable'[call'[p].f].off
                     /\ a = inode'[call'[p].ip].addrs[NDIRECT]
  OBVIOUS
<1>7. c.tot = 0
  BY <1>1, <1>2 DEF BlockInv, Holders
<1>8. OpOK(k, o, {}, a)
  <2>1. IsFiniteSet({}) /\ Cardinality({}) = 0
    BY FS_EmptySet
  <2>2. k.pc = "copy" => CopyLog(k, o, {}, a)
    <3> SUFFICES ASSUME k.pc = "copy" PROVE CopyLog(k, o, {}, a)
      OBVIOUS
    <3>1. Turns(0, o % BSIZE, k.tot, k.n1)
      BY <1>5, <1>6, <1>7 DEF Turns
    <3>2. Cardinality({}) + Ragged(0, o % BSIZE) <= 2 * 0 + Slack({}, a)
      BY <2>1 DEF Ragged, Slack
    <3> QED BY <3>1, <3>2 DEF CopyLog
  <2> QED BY <1>3, <1>5, <1>6, <2>1, <2>2, LogFacts DEF OpOK, Logging
<1> QED BY <1>4, <1>6, <1>8, LogStep DEF BlockNext

(* What a turn of the loop adds to the blocks of the transaction.           *)
Adds(S, x, bn, z, a, e, T, v, r) ==
    /\ IsFiniteSet(S) /\ Logged(x, bn, z)
    /\ a = x.ino.addrs[NDIRECT] /\ e = z.ino.addrs[NDIRECT]
    /\ T = S \cup z.log \cup {DataBlock(z.addr)} /\ v \in Nat /\ r \in Nat
    /\ v = 0 /\ r > 0 => Addr(x.ino, x.d.data, PathOf(bn)) # 0
    /\ Cardinality(S) + Ragged(v, r) <= 2 * v + Slack(S, a)
LEMMA TurnCounts ==
    ASSUME NEW S, NEW x, NEW bn, NEW z, NEW a, NEW e, NEW T, NEW v, NEW r,
           Adds(S, x, bn, z, a, e, T, v, r)
    PROVE  IsFiniteSet(T) /\ Cardinality(T) + Ragged(v + 1, r) <= 2 * (v + 1) + Slack(T, e)
<1> SUFFICES
      ASSUME IsFiniteSet(S), Logged(x, bn, z), v \in Nat, r \in Nat,
             a = x.ino.addrs[NDIRECT], e = z.ino.addrs[NDIRECT],
             T = S \cup z.log \cup {DataBlock(z.addr)},
             v = 0 /\ r > 0 => Addr(x.ino, x.d.data, PathOf(bn)) # 0,
             Cardinality(S) + Ragged(v, r) <= 2 * v + Slack(S, a)
      PROVE  IsFiniteSet(T) /\ Cardinality(T) + Ragged(v + 1, r) <= 2 * (v + 1) + Slack(T, e)
  BY DEF Adds
<1>1. PICK D : D = DataBlock(z.addr)
  OBVIOUS
<1>2. /\ Slack(S, a) \in {0, 2} /\ Slack(T, e) \in {0, 2}
      /\ Ragged(v, r) \in {0, 1} /\ Ragged(v + 1, r) \in {0, 1}
  BY DEF Slack, Ragged
<1>3. e = a => Slack(S, a) <= Slack(T, e)
  BY DEF Slack
<1>4. Addr(x.ino, x.d.data, PathOf(bn)) = 0 => Ragged(v + 1, r) = Ragged(v, r)
  BY DEF Ragged
<1>5. CASE z.log = {} /\ e = a
  <2>1. T = S \cup {D}
    BY <1>1, <1>5
  <2>2. /\ IsFiniteSet(T) /\ Cardinality(S) \in Nat /\ Cardinality(T) \in Nat
        /\ Cardinality(T) <= Cardinality(S) + 1
    BY <2>1, CountAdd
  <2> QED BY <1>2, <1>3, <1>5, <2>2
<1>6. ASSUME NEW m, Addr(x.ino, x.d.data, PathOf(bn)) = 0, e = a, z.log \subseteq {m, D}
      PROVE  IsFiniteSet(T) /\ Cardinality(T) + Ragged(v + 1, r) <= 2 * (v + 1) + Slack(T, e)
  <2>1. T \subseteq S \cup {m, D}
    BY <1>1, <1>6
  <2>2. /\ IsFiniteSet(T) /\ Cardinality(S) \in Nat /\ Cardinality(T) \in Nat
        /\ Cardinality(T) <= Cardinality(S) + 2
    BY <2>1, CountTwo
  <2> QED BY <1>2, <1>3, <1>4, <1>6, <2>2
<1>7. ASSUME NEW m, Addr(x.ino, x.d.data, PathOf(bn)) = 0, e = a, a # 0,
             z.log = {m, D, DataBlock(a)}
      PROVE  IsFiniteSet(T) /\ Cardinality(T) + Ragged(v + 1, r) <= 2 * (v + 1) + Slack(T, e)
  <2>1. CASE DataBlock(a) \in S
    <3>1. T \subseteq S \cup {m, D}
      BY <1>1, <1>7, <2>1
    <3>2. /\ IsFiniteSet(T) /\ Cardinality(S) \in Nat /\ Cardinality(T) \in Nat
          /\ Cardinality(T) <= Cardinality(S) + 2
      BY <3>1, CountTwo
    <3> QED BY <1>2, <1>3, <1>4, <1>7, <3>2
  <2>2. CASE DataBlock(a) \notin S
    <3>0. PICK E : E = DataBlock(a)
      OBVIOUS
    <3>1. T \subseteq S \cup {m, D, E, D} /\ DataBlock(a) \in T
      BY <1>1, <1>7, <3>0
    <3>2. /\ IsFiniteSet(T) /\ Cardinality(S) \in Nat /\ Cardinality(T) \in Nat
          /\ Cardinality(T) <= Cardinality(S) + 4
      <4>1. PICK U : U = S \cup {m, D}
        OBVIOUS
      <4>2. T \subseteq U \cup {E, D}
        BY <3>1, <4>1
      <4>3. /\ IsFiniteSet(U) /\ Cardinality(S) \in Nat /\ Cardinality(U) \in Nat
            /\ Cardinality(U) <= Cardinality(S) + 2
        BY <4>1, CountTwo
      <4>4. IsFiniteSet(T) /\ Cardinality(T) \in Nat /\ Cardinality(T) <= Cardinality(U) + 2
        BY <4>2, <4>3, CountTwo
      <4> QED BY <4>3, <4>4
    <3>3. Slack(S, a) = 0 /\ Slack(T, e) = 2
      BY <1>7, <2>2, <3>1 DEF Slack
    <3> QED BY <1>2, <1>4, <1>7, <3>2, <3>3
  <2> QED BY <2>1, <2>2
<1>8. ASSUME NEW m, NEW h, Addr(x.ino, x.d.data, PathOf(bn)) = 0, a = 0, e # 0,
             z.log \subseteq {h, DataBlock(e), m, D}, DataBlock(e) \in z.log
      PROVE  IsFiniteSet(T) /\ Cardinality(T) + Ragged(v + 1, r) <= 2 * (v + 1) + Slack(T, e)
  <2>0. PICK E : E = DataBlock(e)
    OBVIOUS
  <2>1. T \subseteq S \cup {h, E, m, D} /\ DataBlock(e) \in T
    BY <1>1, <1>8, <2>0
  <2>2. /\ IsFiniteSet(T) /\ Cardinality(S) \in Nat /\ Cardinality(T) \in Nat
        /\ Cardinality(T) <= Cardinality(S) + 4
    <3>1. PICK U : U = S \cup {h, E}
      OBVIOUS
    <3>2. T \subseteq U \cup {m, D}
      BY <2>1, <3>1
    <3>3. /\ IsFiniteSet(U) /\ Cardinality(S) \in Nat /\ Cardinality(U) \in Nat
          /\ Cardinality(U) <= Cardinality(S) + 2
      BY <3>1, CountTwo
    <3>4. IsFiniteSet(T) /\ Cardinality(T) \in Nat /\ Cardinality(T) <= Cardinality(U) + 2
      BY <3>2, <3>3, CountTwo
    <3> QED BY <3>3, <3>4
  <2>3. Slack(S, a) = 0 /\ Slack(T, e) = 2
    BY <1>8, <2>1 DEF Slack
  <2> QED BY <1>2, <1>4, <1>8, <2>2, <2>3
<1> QED BY <1>1, <1>5, <1>6, <1>7, <1>8 DEF Logged

(* The blocks end at the multiples of their size.                           *)
Ends(B, q, v, s, o, tot, r, at) ==
    /\ {B, q, v, s, o, tot, r, at} \subseteq Nat /\ at < B
    /\ o = q * B + r /\ tot + r = v * B /\ o + tot = s * B + at
LEMMA BlockEnd ==
    ASSUME NEW B, NEW q, NEW v, NEW s, NEW o, NEW tot, NEW r, NEW at,
           Ends(B, q, v, s, o, tot, r, at)
    PROVE  at = 0
<1>0. /\ B \in Nat /\ q \in Nat /\ v \in Nat /\ s \in Nat /\ o \in Nat /\ tot \in Nat
      /\ r \in Nat /\ at \in Nat /\ at < B
      /\ o = q * B + r /\ tot + r = v * B /\ o + tot = s * B + at
  BY DEF Ends
<1>1. PICK w \in Nat : w = q + v
  BY <1>0
<1>2. w * B = q * B + v * B
  BY <1>0, <1>1
<1>3. PICK f, e, g, h : f = q * B /\ e = v * B /\ g = w * B /\ h = s * B
  OBVIOUS
<1>4. f \in Nat /\ e \in Nat /\ g \in Nat /\ h \in Nat
  BY <1>0, <1>1, <1>3
<1>5. g = f + e /\ o = f + r /\ tot + r = e /\ o + tot = h + at
  BY <1>0, <1>2, <1>3
<1>6. g = h + at
  BY <1>0, <1>4, <1>5
<1>7. CASE s < w
  <2>1. h + B <= g
    BY <1>0, <1>1, <1>3, <1>7, TimesLess
  <2> QED BY <1>0, <1>4, <1>6, <2>1
<1>8. CASE w < s
  <2>1. g + B <= h
    BY <1>0, <1>1, <1>3, <1>8, TimesLess
  <2> QED BY <1>0, <1>4, <1>6, <2>1
<1>9. CASE w = s
  BY <1>0, <1>3, <1>4, <1>6, <1>9
<1> QED BY <1>0, <1>1, <1>7, <1>8, <1>9

(* Every turn but the last ends at the end of a block.                      *)
Moves(o, tot, n1, off, at, v, r, m) ==
    /\ {o, tot, n1, v, m} \subseteq Nat /\ tot < n1 /\ off = o + tot
    /\ at = off % BSIZE /\ r = o % BSIZE /\ Turns(v, r, tot, n1)
    /\ m >= 1 /\ (m = n1 - tot \/ m = BSIZE - at)
LEMMA TurnTurns ==
    ASSUME NEW o, NEW tot, NEW n1, NEW off, NEW at, NEW v, NEW r, NEW m,
           Moves(o, tot, n1, off, at, v, r, m)
    PROVE  /\ Turns(v + 1, r, tot + m, n1) /\ r \in Nat
           /\ v = 0 => at = r
<1> SUFFICES
      ASSUME o \in Nat, tot \in Nat, n1 \in Nat, v \in Nat, m \in Nat,
             tot < n1, off = o + tot, at = off % BSIZE, r = o % BSIZE,
             Turns(v, r, tot, n1), m >= 1, m = n1 - tot \/ m = BSIZE - at
      PROVE  /\ Turns(v + 1, r, tot + m, n1) /\ r \in Nat
             /\ v = 0 => at = r
  BY DEF Moves
<1>1. BSIZE \in Nat /\ BSIZE >= 1
  BY PathFacts
<1>2. \A y, B \in Nat : B >= 1 => y \div B \in Nat /\ y % B \in 0..(B - 1)
                                  /\ y = (y \div B) * B + (y % B)
  OBVIOUS
<1>3. PICK q, s : q = o \div BSIZE /\ s = off \div BSIZE
  OBVIOUS
<1>4. /\ q \in Nat /\ r \in 0..(BSIZE - 1) /\ s \in Nat /\ at \in 0..(BSIZE - 1)
      /\ o = q * BSIZE + r /\ off = s * BSIZE + at
  <2>1. off \in Nat
    OBVIOUS
  <2>2. q \in Nat /\ r \in 0..(BSIZE - 1) /\ o = q * BSIZE + r
    BY <1>1, <1>2, <1>3
  <2>3. s \in Nat /\ at \in 0..(BSIZE - 1) /\ off = s * BSIZE + at
    BY <1>1, <1>2, <1>3, <2>1
  <2> QED BY <2>2, <2>3
<1>5. r \in Nat /\ at \in Nat /\ v + 1 > 0 /\ v + 1 # 0 /\ (v + 1) - 1 = v
  BY <1>1, <1>4
<1>6. v = 0 => at = r
  BY DEF Turns
<1>7. CASE v = 0
  <2>1. tot = 0 /\ at = r /\ v * BSIZE = 0 /\ (v + 1) * BSIZE = BSIZE
    BY <1>1, <1>6, <1>7 DEF Turns
  <2>2. v * BSIZE < (tot + m) + r
    BY <1>5, <2>1
  <2>3. tot + m < n1 => (tot + m) + r = (v + 1) * BSIZE
    BY <1>1, <1>4, <2>1
  <2> QED BY <1>5, <1>6, <2>2, <2>3 DEF Turns
<1>8. CASE v > 0
  <2>1. tot + r = v * BSIZE
    BY <1>8 DEF Turns
  <2>2. o + tot = s * BSIZE + at /\ o = q * BSIZE + r /\ at < BSIZE
    <3>1. at \in 0..(BSIZE - 1)
      BY <1>4
    <3>2. at < BSIZE
      BY <1>1, <3>1
    <3> QED BY <1>4, <3>2
  <2>3. at = 0
    <3>1. Ends(BSIZE, q, v, s, o, tot, r, at)
      BY <1>1, <1>4, <1>5, <2>1, <2>2 DEF Ends
    <3> QED BY <3>1, BlockEnd
  <2>4. PICK g : g = v * BSIZE
    OBVIOUS
  <2>5. g \in Nat /\ (v + 1) * BSIZE = g + BSIZE
    BY <1>1, <2>4
  <2>6. g < (tot + m) + r
    BY <1>5, <2>1, <2>4, <2>5
  <2>7. tot + m < n1 => (tot + m) + r = (v + 1) * BSIZE
    BY <1>1, <1>5, <2>1, <2>3, <2>4, <2>5
  <2> QED BY <1>5, <1>6, <1>8, <2>4, <2>6, <2>7 DEF Turns
<1> QED BY <1>7, <1>8

(* One turn of the loop of writei.                                          *)
LEMMA WriteBlockLogs ==
    ASSUME FileInv, FileInv', BlockInv, LogInv, NEW p \in Proc, WriteBlock(p) PROVE LogInv'
<1>1. PICK c, i, o, off : c = call[p] /\ i = c.ip /\ o = ftable[c.f].off /\ off = o + c.tot
  OBVIOUS
<1>2. PICK at, m, l, bn : /\ at = off % BSIZE /\ m = Min({c.n1 - c.tot, BSIZE - at})
                          /\ l = Lookup(inode[i], disk) /\ bn = off \div BSIZE
  OBVIOUS
<1>3. PICK x, k : x = Bmap(l, bn) /\ k = [c EXCEPT !.tot = @ + m]
  OBVIOUS
<1>4. PICK S, T : S = op[p] /\ T = S \cup x.log \cup {DataBlock(x.addr)}
  OBVIOUS
<1>5. /\ c.pc = "copy" /\ c.tot < c.n1
      /\ \/ Restart
         \/ /\ ~x.full /\ inode' = [inode EXCEPT ![i] = x.ino] /\ ftable' = ftable
            /\ op' = [op EXCEPT ![p] = T] /\ call' = [call EXCEPT ![p] = k]
  BY <1>1, <1>2, <1>3, <1>4 DEF WriteBlock, At, Goto, fileVars
<1>6. BlockInv' /\ (Restart \/ Kept(p))
  BY WriteBlockBlocks
<1>7. CASE Restart
  BY <1>7, RestartLogs
<1>8. CASE /\ ~x.full /\ inode' = [inode EXCEPT ![i] = x.ino] /\ ftable' = ftable
           /\ op' = [op EXCEPT ![p] = T] /\ call' = [call EXCEPT ![p] = k] /\ Kept(p)
  <2>1. i \in Inum /\ o \in Nat /\ c.n1 \in Nat
    BY <1>1, <1>5, CopyFile
  <2>2. Turning(c, i, o, off, at, m)
    BY <1>1, <1>2, <1>5, TurnFacts
  <2>3. /\ c.tot \in Nat /\ off \in Nat /\ off < Top /\ bn \in 0..(MAXFILE - 1)
        /\ at \in 0..(BSIZE - 1) /\ off = bn * BSIZE + at
        /\ m \in Nat /\ m >= 1 /\ (m = c.n1 - c.tot \/ m = BSIZE - at)
        /\ Reaches(inode[i], disk.data, off)
    BY <1>1, <1>2, <2>2 DEF Turning, CopyOK
  <2>4. k.pc = "copy" /\ k.f = c.f /\ k.ip = i /\ k.n1 = c.n1 /\ k.tot = c.tot + m
    BY <1>1, <1>3, <1>5, CallAt DEF IsCall
  <2>5. call'[p] = k
    BY <1>8, OneMoves
  <2>6. inode'[i] = x.ino
    BY <1>8, <2>1 DEF FileInv, Disks, AreInodes
  <2>7. l.ino = inode[i] /\ l.d = disk /\ l.log = {}
    BY <1>2 DEF Lookup
  <2>8. Logged(l, bn, x)
    <3>1. IsInode(inode[i]) /\ IsDisk(disk)
      BY <2>1 DEF FileInv, Disks, AreInodes
    <3>2. PICK n : n = inode[i]
      OBVIOUS
    <3>3. IsLookup(l, n)
      BY <1>2, <3>1, <3>2, LookupMake DEF Lookup
    <3>4. AddrsOK(l.ino)
      BY <2>1, <2>7 DEF BlockInv, Sound, MapOK
    <3> QED BY <1>3, <1>8, <2>3, <2>7, <3>3, <3>4, BmapLogs
  <2>9. PICK a, e, r : a = inode[i].addrs[NDIRECT] /\ e = x.ino.addrs[NDIRECT] /\ r = o % BSIZE
    OBVIOUS
  <2>10. IsFiniteSet(S) /\ CopyLog(c, o, S, a) /\ c.n1 <= MaxChunk
    BY <1>1, <1>4, <1>5, <2>9 DEF LogInv, OpOK
  <2>11. PICK v \in Nat : Turns(v, r, c.tot, c.n1) /\ Cardinality(S) + Ragged(v, r) <= 2 * v + Slack(S, a)
    BY <2>9, <2>10 DEF CopyLog
  <2>12. Moves(o, c.tot, c.n1, off, at, v, r, m)
    BY <1>1, <1>2, <1>5, <2>1, <2>3, <2>9, <2>11 DEF Moves
  <2>13. Turns(v + 1, r, c.tot + m, c.n1) /\ r \in Nat /\ (v = 0 => at = r)
    BY <2>12, TurnTurns
  <2>14. v = 0 /\ r > 0 => Addr(l.ino, l.d.data, PathOf(bn)) # 0
    <3> SUFFICES ASSUME v = 0, r > 0 PROVE Addr(l.ino, l.d.data, PathOf(bn)) # 0
      OBVIOUS
    <3>1. PICK h : h = bn * BSIZE
      OBVIOUS
    <3>2. h \in Nat
      BY <2>3, <3>1, PathFacts
    <3>3. at \in Nat /\ at > 0 /\ off = h + at
      BY <2>3, <2>13, <3>1
    <3>4. h < off
      BY <3>2, <3>3
    <3> QED BY <2>3, <2>7, <3>1, <3>4 DEF Reaches
  <2>15. Adds(S, l, bn, x, a, e, T, v, r)
    BY <1>4, <2>7, <2>8, <2>9, <2>10, <2>11, <2>13, <2>14 DEF Adds
  <2>16. IsFiniteSet(T) /\ Cardinality(T) + Ragged(v + 1, r) <= 2 * (v + 1) + Slack(T, e)
    BY <2>15, TurnCounts
  <2>17. CopyLog(k, o, T, e)
    <3>1. PICK w \in Nat : w = v + 1
      OBVIOUS
    <3> QED BY <2>4, <2>9, <2>13, <2>16, <3>1 DEF CopyLog
  <2>18. OpOK(k, o, T, e)
    BY <2>4, <2>10, <2>16, <2>17 DEF OpOK, Logging
  <2>19. OpOK(call'[p], ftable'[call'[p].f].off, T, inode'[call'[p].ip].addrs[NDIRECT])
    BY <1>1, <1>8, <2>4, <2>5, <2>6, <2>9, <2>18
  <2> QED BY <1>8, <2>19, LogStep
<1> QED BY <1>5, <1>6, <1>7, <1>8

(* The end of writei adds the block of the inode.                           *)
LEMMA WriteDoneLogs ==
    ASSUME FileInv, BlockInv, LogInv, NEW p \in Proc, BlockNext(p), WriteDone(p)
    PROVE  LogInv'
<1>1. PICK c, i, o, a, S : /\ c = call[p] /\ i = c.ip /\ o = ftable[c.f].off
                           /\ a = inode[i].addrs[NDIRECT] /\ S = op[p]
  OBVIOUS
<1>2. PICK k : k = [c EXCEPT !.pc = "wend", !.r = c.n1]
  OBVIOUS
<1>3. PICK T : T = IF o + c.tot > inode[i].size THEN S \cup {InodeBlock} ELSE S
  OBVIOUS
<1>4. /\ c.pc = "copy" /\ c.tot = c.n1 /\ call' = [call EXCEPT ![p] = k]
      /\ op' = [op EXCEPT ![p] = T]
  BY <1>1, <1>2, <1>3 DEF WriteDone, At, Goto
<1>5. o \in Nat /\ c.n1 \in Nat
  BY <1>1, <1>4, CopyFile
<1>6. k.pc = "wend" /\ call'[p] = k
  <2>1. call'[p] = k
    BY <1>4, OneMoves
  <2>2. k.pc = "wend"
    BY <1>1, <1>2, CallAt DEF IsCall
  <2> QED BY <2>1, <2>2
<1>7. IsFiniteSet(S) /\ CopyLog(c, o, S, a) /\ c.n1 <= MaxChunk
  BY <1>1, <1>4 DEF LogInv, OpOK
<1>8. Cardinality(S) \in Nat /\ Cardinality(S) + 1 <= MAXOPBLOCKS
  <2>1. c.tot \in 0..c.n1
    BY <1>4, <1>5
  <2> QED BY <1>5, <1>7, <2>1, CopyFits
<1>9. IsFiniteSet(T) /\ Cardinality(T) <= MAXOPBLOCKS
  <2>1. T \subseteq S \cup {InodeBlock}
    BY <1>3
  <2>2. PICK b : b = InodeBlock
    OBVIOUS
  <2>3. PICK U : U = S \cup {b}
    OBVIOUS
  <2>4. IsFiniteSet(U) /\ Cardinality(U) \in Nat /\ Cardinality(U) <= Cardinality(S) + 1
    BY <1>7, <2>3, CountAdd
  <2>5. T \subseteq U
    BY <2>1, <2>2, <2>3
  <2>6. IsFiniteSet(T) /\ Cardinality(T) \in Nat /\ Cardinality(T) <= Cardinality(U)
    BY <2>4, <2>5, CountWithin
  <2> QED BY <1>8, <2>4, <2>6, LogFacts
<1>10. OpOK(call'[p], ftable'[call'[p].f].off, T, inode'[call'[p].ip].addrs[NDIRECT])
  BY <1>6, <1>9 DEF OpOK, Logging
<1> QED BY <1>4, <1>10, LogStep DEF BlockNext

LEMMA LogInvInit == Init => LogInv
BY IdleLogs DEF Init

LEMMA LogInvNext ==
    ASSUME FileInv, FileInv', BlockInv, LogInv, [Next]_vars PROVE LogInv'
<1>1. CASE UNCHANGED vars
  <2>1. call' = call /\ ftable' = ftable /\ inode' = inode /\ op' = op
    BY <1>1 DEF vars, fileVars, dataVars, logVars
  <2> QED BY <2>1 DEF LogInv
<1>2. ASSUME NEW p \in Proc, NEW i \in Inum, Unlink(p, i) PROVE LogInv'
  <2>1. BlockNext(p)
    BY <1>2, UnlinkBlocks
  <2>2. call[p].pc = "idle" /\ call' = call /\ EndOp(p)
    BY <1>2 DEF Unlink, Start
  <2> QED BY <2>1, <2>2, StartLogs
<1>3. ASSUME NEW p \in Proc, NEW fd \in Fd, SysDup(p, fd) PROVE LogInv'
  <2>1. BlockNext(p)
    BY <1>3, SysDupBlocks
  <2>2. call[p].pc = "idle" /\ call' = call /\ op' = op
    BY <1>3 DEF SysDup, Start, logVars
  <2> QED BY <2>1, <2>2, StartLogs
<1>4. ASSUME NEW p \in Proc, NEW fd \in Fd, SysClose(p, fd) PROVE LogInv'
  <2>1. BlockNext(p)
    BY <1>4, SysCloseBlocks
  <2> QED BY <1>4, <2>1, CloseLogs
<1>5. ASSUME NEW p \in Proc, NEW fd \in Fd, NEW n \in WriteSizes, Fileread(p, fd, n)
      PROVE  LogInv'
  <2>1. BlockNext(p)
    BY <1>5, FilereadBlocks
  <2>2. call[p].pc = "idle" /\ call' = call /\ op' = op
    BY <1>5 DEF Fileread, Start, logVars
  <2> QED BY <2>1, <2>2, StartLogs
<1>6. ASSUME NEW p \in Proc, NEW fd \in Fd, NEW n \in WriteSizes, Filewrite(p, fd, n)
      PROVE  LogInv'
  <2>1. BlockNext(p)
    BY <1>6, FilewriteBlocks
  <2> QED BY <1>6, <2>1, MoveLogs
<1>7. ASSUME NEW p \in Proc, CloseBegin(p) \/ SysExit(p) PROVE LogInv'
  <2>1. BlockNext(p)
    BY <1>7, CloseBeginBlocks, SysExitBlocks
  <2> QED BY <1>7, <2>1, MoveLogs
<1>8. ASSUME NEW p \in Proc, Iput(p) PROVE LogInv'
  <2>1. BlockNext(p)
    BY <1>8, IputBlocks
  <2> QED BY <1>8, <2>1, IputLogs
<1>9. ASSUME NEW p \in Proc, CloseEnd(p) \/ WriteEnd(p) PROVE LogInv'
  <2>1. BlockNext(p)
    BY <1>9, CloseEndBlocks, WriteEndBlocks
  <2> QED BY <1>9, <2>1, EndLogs
<1>10. ASSUME NEW p \in Proc, ExitFiles(p) \/ PipeUndo(p) PROVE LogInv'
  <2>1. BlockNext(p)
    BY <1>10, ExitFilesBlocks, PipeUndoBlocks
  <2> QED BY <1>10, <2>1, CloseLogs
<1>11. ASSUME NEW p \in Proc, NEW q \in Proc, ForkFiles(p, q) PROVE LogInv'
  <2>1. BlockNext(p)
    BY <1>11, ForkFilesBlocks
  <2>2. call[p].pc = "idle" /\ call' = call /\ op' = op
    BY <1>11 DEF ForkFiles, Start, logVars
  <2> QED BY <2>1, <2>2, StartLogs
<1>12. ASSUME NEW p \in Proc, WriteBegin(p) PROVE LogInv'
  <2>1. BlockNext(p)
    BY <1>12, WriteBeginBlocks
  <2> QED BY <1>12, <2>1, WriteBeginLogs
<1>13. ASSUME NEW p \in Proc, WriteLock(p) PROVE LogInv'
  <2>1. BlockNext(p)
    BY <1>13, WriteLockBlocks
  <2> QED BY <1>13, <2>1, WriteLockLogs
<1>14. ASSUME NEW p \in Proc, WriteBlock(p) PROVE LogInv'
  BY <1>14, WriteBlockLogs
<1>15. ASSUME NEW p \in Proc, WriteDone(p) PROVE LogInv'
  <2>1. BlockNext(p)
    BY <1>15, WriteDoneBlocks
  <2> QED BY <1>15, <2>1, WriteDoneLogs
<1>17. ASSUME NEW p \in Proc, SysPipe(p) \/ Pipealloc(p) \/ PipeNoPage(p) \/ PipeFds(p)
       PROVE  LogInv'
  <2>1. BlockNext(p)
    BY <1>17, SysPipeBlocks, PipeallocBlocks, PipeNoPageBlocks, PipeFdsBlocks
  <2> QED BY <1>17, <2>1, PipeLogs
<1>18. ASSUME NEW p \in Proc, NEW i \in Inum, SysOpen(p, i) PROVE LogInv'
  <2>1. BlockNext(p)
    BY <1>18, SysOpenBlocks
  <2> QED BY <1>18, <2>1, OpenLogs
<1>19. ASSUME NEW p \in Proc, OpenFd(p, TRUE, TRUE) \/ OpenFd(p, FALSE, TRUE) \/ OpenNoFd(p)
       PROVE  LogInv'
  <2>1. BlockNext(p)
    BY <1>19, OpenFdBlocks, OpenNoFdBlocks
  <2> QED BY <1>19, <2>1, OpenLogs
<1>16. ASSUME Crash PROVE LogInv'
  BY <1>16, RestartLogs DEF Crash
<1> QED BY <1>1, <1>2, <1>3, <1>4, <1>5, <1>6, <1>7, <1>8, <1>9, <1>10, <1>11, <1>12,
           <1>13, <1>14, <1>15, <1>16, <1>17, <1>18, <1>19 DEF Next

LEMMA LogInvFits == FileInv /\ BlockInv /\ LogInv => TransactionFits
<1> SUFFICES ASSUME FileInv, BlockInv, LogInv, NEW p \in Proc
             PROVE  Cardinality(op[p]) <= MAXOPBLOCKS
  BY DEF TransactionFits
<1>1. PICK c, o, S, a : /\ c = call[p] /\ o = ftable[c.f].off /\ S = op[p]
                        /\ a = inode[c.ip].addrs[NDIRECT]
  OBVIOUS
<1>2. OpOK(c, o, S, a)
  BY <1>1 DEF LogInv
<1>3. CASE c.pc \notin Logging
  BY <1>1, <1>2, <1>3, FS_EmptySet, LogFacts DEF OpOK
<1>4. CASE c.pc = "cend"
  <2>1. PICK b, U : b = InodeBlock /\ U = MapBlocks \cup {b}
    OBVIOUS
  <2>2. IsFiniteSet(U) /\ Cardinality(U) \in Nat /\ Cardinality(U) <= Cardinality(MapBlocks) + 1
    BY <2>1, LogFacts, CountAdd
  <2>3. S \subseteq U
    BY <1>2, <1>4, <2>1 DEF OpOK
  <2>4. Cardinality(S) \in Nat /\ Cardinality(S) <= Cardinality(U)
    BY <2>2, <2>3, CountWithin
  <2> QED BY <1>1, <2>2, <2>4, LogFacts
<1>5. CASE c.pc = "copy"
  <2>1. o \in Nat /\ c.n1 \in Nat
    BY <1>1, <1>5, CopyFile
  <2>2. c.tot \in 0..c.n1
    BY <1>1, <1>5 DEF BlockInv, Copying, CopyOK
  <2>3. IsFiniteSet(S) /\ CopyLog(c, o, S, a) /\ c.n1 <= MaxChunk
    BY <1>2, <1>5 DEF OpOK
  <2>4. Cardinality(S) \in Nat /\ Cardinality(S) + 1 <= MAXOPBLOCKS
    BY <2>1, <2>2, <2>3, CopyFits
  <2> QED BY <1>1, <2>4, LogFacts
<1>6. CASE c.pc = "wend"
  BY <1>1, <1>2, <1>6 DEF OpOK
<1> QED BY <1>3, <1>4, <1>5, <1>6 DEF Logging

(* The inductive invariant of a transaction: what writei has logged after   *)
(* so many turns of its loop, and what iput has.                            *)
THEOREM LogInvariant == Spec => []LogInv
<1>1. Init => FileInv /\ BlockInv /\ LogInv
  BY FileInvInit, BlockInvInit, LogInvInit
<1>2. (FileInv /\ BlockInv /\ LogInv) /\ [Next]_vars => (FileInv /\ BlockInv /\ LogInv)'
  BY FileInvNext, BlockInvNext, LogInvNext
<1> QED BY <1>1, <1>2, PTL DEF Spec

(* File.TransactionFits: the chunks of filewrite and the free of an         *)
(* unlinked file by iput never write more blocks than begin_op set aside,   *)
(* for any sizes of blocks and files, any offset a write starts at and any  *)
(* MAXOPBLOCKS of at least six.                                             *)
THEOREM TransactionsFit == Spec => []TransactionFits
<1>1. FileInv /\ BlockInv /\ LogInv => TransactionFits
  BY LogInvFits
<1> QED BY <1>1, FileInvariant, BlockInvariant, LogInvariant, PTL

(***************************************************************************)
(* The bytes of a file.  disk.text is what the calls wrote; what readi     *)
(* finds is the same, except, while a process is inside writei, for the    *)
(* bytes that are already those it sends.                                  *)
(***************************************************************************)
ByteAt(n, t, x) == t[Addr(n, t, PathOf(x \div BSIZE))][x % BSIZE]
Reads(n, t, s, lo, hi) ==
    /\ s \in [1..n.size -> Nat]
    /\ \A x \in 0..(n.size - 1) : x < lo \/ hi <= x => s[x + 1] = ByteAt(n, t, x)
Sent(n, t, p, o, from, tot) ==
    \A x \in Nat : o <= x /\ x < o + tot => ByteAt(n, t, x) = Byte(p, from + x - o)
Held(c, o, p, n, t, s) ==
    Reads(n, t, s, o, o + c.tot) /\ Sent(n, t, p, o, c.i, c.tot)

Texts(s, d) ==
    \A i \in Inum : /\ ~s[i].live => s[i].size = 0
                    /\ Reads(s[i], d.data, d.text[i], 0, 0)
Offsets ==
    /\ moved = [f \in FileId |-> moved[f]]
    /\ \A f \in FileId : ftable[f].type = "inode" => moved[f] = ftable[f].off
Unheld ==
    /\ \A i \in Inum : ~inode[i].live => inode[i].size = 0
    /\ \A i \in Inum : Steady(i) => Reads(inode[i], disk.data, disk.text[i], 0, 0)
Sending ==
    \A p \in Proc : call[p].pc = "copy" =>
       Held(call[p], ftable[call[p].f].off, p, inode[call[p].ip], disk.data,
            disk.text[call[p].ip])
TextInv ==
    /\ installed.text = [i \in Inum |-> installed.text[i]]
    /\ disk.text = [i \in Inum |-> disk.text[i]]
    /\ Offsets /\ Texts(installed.din, installed) /\ Unheld /\ Sending

(* What writei makes of a file: m bytes w at offset o of n bytes s.         *)
Overlaid(n, s, o, m, w, e) ==
    /\ n \in Nat /\ s \in [1..n -> Nat] /\ o \in 0..n /\ m \in Nat /\ w \in [1..m -> Nat]
    /\ e = IF o + m > n THEN o + m ELSE n
Overlay(s, o, m, w, e, z) ==
    /\ z \in [1..e -> Nat]
    /\ \A j \in 1..e : z[j] = IF o < j /\ j <= o + m THEN w[j - o] ELSE s[j]

LEMMA OverwriteIs ==
    ASSUME NEW n, NEW s, NEW o, NEW m, NEW w, NEW e, Overlaid(n, s, o, m, w, e),
           NEW z, z = Overwrite(s, o, w)
    PROVE  Overlay(s, o, m, w, e, z)
<1> SUFFICES ASSUME n \in Nat, s \in [1..n -> Nat], o \in 0..n, m \in Nat, w \in [1..m -> Nat],
                    e = IF o + m > n THEN o + m ELSE n
             PROVE  /\ z \in [1..e -> Nat]
                    /\ \A j \in 1..e : z[j] = IF o < j /\ j <= o + m THEN w[j - o] ELSE s[j]
  BY DEF Overlaid, Overlay
<1>1. s \in Seq(Nat) /\ Len(s) = n /\ w \in Seq(Nat) /\ Len(w) = m
  OBVIOUS
<1>2. PICK a, b, k : a = SubSeq(s, 1, o) /\ b = SubSeq(s, k, n) /\ k = o + m + 1
  OBVIOUS
<1>3. PICK v : v = a \o w
  OBVIOUS
<1>4. z = v \o b
  BY <1>1, <1>2, <1>3 DEF Overwrite
<1>5. a \in Seq(Nat) /\ Len(a) = o /\ \A j \in 1..o : a[j] = s[j]
  <2>1. PICK one : one = 1
    OBVIOUS
  <2>2. /\ one \in Int /\ o \in Int /\ a = SubSeq(s, one, o)
        /\ \A j \in one..o : s[j] \in Nat
    BY <1>2, <2>1
  <2>3. /\ a \in Seq(Nat) /\ Len(a) = IF one <= o THEN o - one + 1 ELSE 0
        /\ \A j \in 1..(o - one + 1) : a[j] = s[one + j - 1]
    BY <2>2, SubSeqProperties
  <2> QED BY <2>1, <2>3
<1>6. /\ b \in Seq(Nat) /\ Len(b) = (IF k <= n THEN n - k + 1 ELSE 0)
      /\ \A j \in 1..(n - k + 1) : b[j] = s[k + j - 1]
  <2>1. k \in Int /\ n \in Int /\ \A j \in k..n : s[j] \in Nat
    BY <1>2
  <2> QED BY <1>2, <2>1, SubSeqProperties
<1>7. /\ v \in Seq(Nat) /\ Len(v) = o + m
      /\ \A j \in 1..(o + m) : v[j] = IF j <= o THEN a[j] ELSE w[j - o]
  BY <1>1, <1>3, <1>5, ConcatProperties
<1>8. /\ z \in Seq(Nat) /\ Len(z) = o + m + Len(b)
      /\ \A j \in 1..(o + m + Len(b)) : z[j] = IF j <= o + m THEN v[j] ELSE b[j - (o + m)]
  <2>1. /\ z \in Seq(Nat) /\ Len(z) = Len(v) + Len(b)
        /\ \A j \in 1..(Len(v) + Len(b)) : z[j] = IF j <= Len(v) THEN v[j] ELSE b[j - Len(v)]
    <3>1. v \in Seq(Nat) /\ b \in Seq(Nat)
      BY <1>6, <1>7
    <3> QED BY <1>4, <3>1, ConcatProperties
  <2> QED BY <1>7, <2>1
<1>9. Len(z) = e /\ o + m + Len(b) = e
  BY <1>2, <1>6, <1>8
<1>10. z \in [1..e -> Nat]
  BY <1>8, <1>9, LenProperties
<1>11. ASSUME NEW j \in 1..e PROVE z[j] = IF o < j /\ j <= o + m THEN w[j - o] ELSE s[j]
  <2>1. z[j] = IF j <= o + m THEN v[j] ELSE b[j - (o + m)]
    BY <1>8, <1>9
  <2>2. CASE j <= o
    <3>1. j \in 1..o /\ j \in 1..(o + m)
      BY <2>2
    <3> QED BY <1>5, <1>7, <2>1, <2>2, <3>1
  <2>3. CASE o < j /\ j <= o + m
    BY <1>7, <2>1, <2>3
  <2>4. CASE o + m < j
    <3>1. PICK h : h = j - (o + m)
      OBVIOUS
    <3>2. h \in 1..(n - k + 1) /\ k + h - 1 = j /\ ~(j <= o + m)
      BY <1>2, <2>4, <3>1
    <3>3. b[h] = s[k + h - 1]
      BY <1>6, <3>2
    <3>4. z[j] = s[j]
      BY <2>1, <3>1, <3>2, <3>3
    <3> QED BY <2>4, <3>4
  <2> QED BY <2>2, <2>3, <2>4
<1> QED BY <1>10, <1>11

(* Byte x of the disk as blocks and what is in them.                        *)
LEMMA ByteSplit ==
    ASSUME NEW x \in Nat
    PROVE  /\ x \div BSIZE \in Nat /\ x % BSIZE \in 0..(BSIZE - 1) /\ x % BSIZE \in Nat
           /\ (x \div BSIZE) * BSIZE \in Nat /\ x = (x \div BSIZE) * BSIZE + (x % BSIZE)
           /\ (x \div BSIZE) * BSIZE <= x
<1>1. BSIZE \in Nat /\ BSIZE >= 1
  BY PathFacts
<1>2. \A y, B \in Nat : B >= 1 => y \div B \in Nat /\ y % B \in 0..(B - 1)
                                  /\ y = (y \div B) * B + (y % B)
  OBVIOUS
<1>3. PICK q, r, h : q = x \div BSIZE /\ r = x % BSIZE /\ h = q * BSIZE
  OBVIOUS
<1>4. q \in Nat /\ r \in 0..(BSIZE - 1) /\ x = h + r
  BY <1>1, <1>2, <1>3
<1>5. h \in Nat /\ r \in Nat
  BY <1>1, <1>3, <1>4
<1>6. h <= x
  BY <1>4, <1>5
<1> QED BY <1>3, <1>4, <1>5, <1>6

LEMMA DivIs ==
    ASSUME NEW x \in Nat, NEW q \in Nat, NEW r \in Nat, r < BSIZE, x = q * BSIZE + r
    PROVE  x \div BSIZE = q /\ x % BSIZE = r
<1>1. BSIZE \in Nat /\ BSIZE >= 1
  BY PathFacts
<1>2. PICK k, l, g, h : k = x \div BSIZE /\ l = x % BSIZE /\ g = q * BSIZE /\ h = k * BSIZE
  OBVIOUS
<1>3. k \in Nat /\ l \in 0..(BSIZE - 1) /\ x = h + l /\ x = g + r /\ g \in Nat /\ h \in Nat
  BY <1>1, <1>2, ByteSplit
<1>4. l \in Nat /\ l < BSIZE
  BY <1>1, <1>3
<1>5. CASE k < q
  <2>1. h + BSIZE <= g
    BY <1>1, <1>2, <1>3, <1>5, TimesLess
  <2> QED BY <1>1, <1>3, <1>4, <2>1
<1>6. CASE q < k
  <2>1. g + BSIZE <= h
    BY <1>1, <1>2, <1>3, <1>6, TimesLess
  <2> QED BY <1>1, <1>3, <1>4, <2>1
<1>7. CASE k = q
  <2>1. h = g
    BY <1>2, <1>7
  <2>2. l = r
    BY <1>3, <1>4, <2>1
  <2> QED BY <1>2, <1>7, <2>2
<1> QED BY <1>3, <1>5, <1>6, <1>7

(* A byte below the end of what is reached is in a block.                   *)
LEMMA ByteReached ==
    ASSUME NEW n, NEW t, NEW end \in Nat, Reaches(n, t, end), NEW x \in Nat, x < end, x < Top
    PROVE  x \div BSIZE \in 0..(MAXFILE - 1) /\ Addr(n, t, PathOf(x \div BSIZE)) # 0
<1>1. x \div BSIZE \in 0..(MAXFILE - 1)
  BY BlockOf
<1>2. PICK h : h = (x \div BSIZE) * BSIZE
  OBVIOUS
<1>3. h \in Nat /\ h <= x
  BY <1>2, ByteSplit
<1>4. h < end
  BY <1>3
<1> QED BY <1>1, <1>2, <1>4 DEF Reaches

(* bmap() of a block that is there.                                         *)
LEMMA BmapReads ==
    ASSUME NEW n, NEW d, NEW bn \in 0..(MAXFILE - 1), Addr(n, d.data, PathOf(bn)) # 0
    PROVE  Bmap(Lookup(n, d), bn).addr = Addr(n, d.data, PathOf(bn))
<1>1. PICK x : x = Lookup(n, d)
  OBVIOUS
<1>2. x = [ino |-> n, d |-> d, log |-> {}, addr |-> 0, full |-> FALSE]
  BY <1>1 DEF Lookup
<1>3. NDIRECT \in Nat
  BY PathFacts
<1>4. CASE bn < NDIRECT
  <2>1. Addr(n, d.data, PathOf(bn)) = n.addrs[bn]
    BY <1>3, <1>4 DEF Addr, PathOf
  <2>2. Bmap(x, bn) = [x EXCEPT !.addr = n.addrs[bn]]
    BY <1>2, <1>4, <2>1 DEF Bmap, AddrOf
  <2>3. Bmap(x, bn).addr = n.addrs[bn]
    BY <1>2, <2>2
  <2> QED BY <1>1, <2>1, <2>3
<1>5. CASE ~(bn < NDIRECT)
  <2>1. PICK a, k : a = n.addrs[NDIRECT] /\ k = bn - NDIRECT
    OBVIOUS
  <2>2. ~(PathOf(bn) <= NDIRECT) /\ PathOf(bn) - NDIRECT - 1 = k
    BY <1>3, <1>5, <2>1 DEF PathOf
  <2>3. a # 0 /\ Addr(n, d.data, PathOf(bn)) = d.data[a][k]
    BY <2>1, <2>2 DEF Addr
  <2>4. PICK t : t = AddrOf(x, NDIRECT)
    OBVIOUS
  <2>5. t = [ino |-> n, d |-> d, log |-> {}, addr |-> a, full |-> FALSE]
    <3>1. t = [x EXCEPT !.addr = a]
      BY <1>2, <2>1, <2>3, <2>4 DEF AddrOf
    <3> QED BY <1>2, <3>1
  <2>6. Bmap(x, bn) = [t EXCEPT !.addr = d.data[a][k]]
    BY <1>5, <2>1, <2>3, <2>4, <2>5 DEF Bmap
  <2>7. Bmap(x, bn).addr = d.data[a][k]
    BY <2>5, <2>6
  <2> QED BY <1>1, <2>3, <2>7
<1> QED BY <1>4, <1>5

(* What readi returns for a whole file.                                     *)
LEMMA WholeIs ==
    ASSUME NEW n, NEW d, n.size \in 0..Top, Reaches(n, d.data, n.size)
    PROVE  Whole(n, d) = [j \in 1..n.size |-> ByteAt(n, d.data, j - 1)]
<1>1. n.size \in Nat /\ Top \in Nat
  BY TopNat
<1>2. ReadCount(n, 0, Top) = n.size
  BY <1>1 DEF ReadCount
<1>3. ASSUME NEW j \in 1..n.size
      PROVE  d.data[Bmap(Lookup(n, d), (0 + j - 1) \div BSIZE).addr][(0 + j - 1) % BSIZE]
             = ByteAt(n, d.data, j - 1)
  <2>1. PICK x : x = j - 1
    OBVIOUS
  <2>2. x \in Nat /\ x < n.size /\ x < Top /\ 0 + j - 1 = x
    BY <1>1, <2>1
  <2>3. PICK end \in Nat : end = n.size
    BY <1>1
  <2>4. x \div BSIZE \in 0..(MAXFILE - 1) /\ Addr(n, d.data, PathOf(x \div BSIZE)) # 0
    BY <2>2, <2>3, ByteReached
  <2>5. PICK bn : bn = x \div BSIZE
    OBVIOUS
  <2>6. Bmap(Lookup(n, d), bn).addr = Addr(n, d.data, PathOf(bn))
    BY <2>4, <2>5, BmapReads
  <2> QED BY <2>1, <2>2, <2>5, <2>6 DEF ByteAt
<1>4. Whole(n, d) = [j \in 1..n.size |->
          d.data[Bmap(Lookup(n, d), (0 + j - 1) \div BSIZE).addr][(0 + j - 1) % BSIZE]]
  BY <1>2 DEF Whole, Readi, Top
<1> QED BY <1>3, <1>4

(***************************************************************************)
(* What bmap leaves of the disk: the text, and what the blocks of data     *)
(* hold.  The only block it changes that is in use is the table.           *)
(***************************************************************************)
Intact(s, t, c) ==
    \A j \in Inum : \A l \in Paths :
       l # NDIRECT /\ Addr(s[j], t, l) # 0 => c[Addr(s[j], t, l)] = t[Addr(s[j], t, l)]

LEMMA BallocIntact ==
    ASSUME NEW n, NEW x, IsLookup(x, n), NEW s, MapOK(s, x.d.used, x.d.data),
           NEW y, y = Balloc(x), ~y.full
    PROVE  y.d.text = x.d.text /\ Intact(s, x.d.data, y.d.data)
<1>1. PICK b \in Block \ x.d.used :
              y = [ino |-> x.ino,
                   d |-> [din |-> x.d.din, used |-> x.d.used \cup {b},
                          data |-> [x.d.data EXCEPT ![b] = Zeroed], text |-> x.d.text],
                   log |-> x.log \cup {BBLOCK(b), DataBlock(b)}, addr |-> b, full |-> x.full]
  BY BallocIs
<1>2. PICK t, c : t = x.d.data /\ c = [t EXCEPT ![b] = Zeroed]
  OBVIOUS
<1>3. y.d.text = x.d.text /\ y.d.data = c
  BY <1>1, <1>2
<1>4. t \in Contents
  BY <1>2 DEF MapOK
<1>5. \A d \in Block : d # b => c[d] = t[d]
  BY <1>2, <1>4 DEF Contents
<1>6. ASSUME NEW j \in Inum, NEW l \in Paths, Addr(s[j], t, l) # 0
      PROVE  c[Addr(s[j], t, l)] = t[Addr(s[j], t, l)]
  <2>1. PICK a : a = Addr(s[j], t, l)
    OBVIOUS
  <2>2. a \in Block
    BY <1>2, <1>6, <2>1 DEF MapOK
  <2>3. a \in x.d.used
    BY <1>2, <2>1, <2>2 DEF MapOK, Marked
  <2> QED BY <1>5, <2>1, <2>2, <2>3
<1> QED BY <1>2, <1>3, <1>6 DEF Intact

LEMMA AddrOfIntact ==
    ASSUME NEW n, NEW x, IsLookup(x, n), NEW s, MapOK(s, x.d.used, x.d.data),
           NEW k, NEW z, z = AddrOf(x, k), ~z.full
    PROVE  z.d.text = x.d.text /\ Intact(s, x.d.data, z.d.data)
<1>1. CASE x.ino.addrs[k] # 0
  <2>1. z = [x EXCEPT !.addr = x.ino.addrs[k]]
    BY <1>1 DEF AddrOf
  <2>2. z.d = x.d
    BY <2>1 DEF IsLookup
  <2> QED BY <2>2 DEF Intact
<1>2. CASE x.ino.addrs[k] = 0
  <2>1. PICK y : y = Balloc(x)
    OBVIOUS
  <2>2. ~y.full
    BY <1>2, <2>1 DEF AddrOf
  <2>3. z = [y EXCEPT !.ino.addrs[k] = y.addr]
    BY <1>2, <2>1, <2>2 DEF AddrOf
  <2>4. IsLookup(y, n)
    BY <2>1, BallocKeeps
  <2>5. z.d = y.d
    BY <2>3, <2>4 DEF IsLookup
  <2>6. y.d.text = x.d.text /\ Intact(s, x.d.data, y.d.data)
    BY <2>1, <2>2, BallocIntact
  <2> QED BY <2>5, <2>6
<1> QED BY <1>1, <1>2

LEMMA IntactTrans ==
    ASSUME NEW s, NEW t, NEW v, NEW c, NEW e, Extended(s, t, v, c), Intact(s, t, c),
           Intact(v, c, e)
    PROVE  Intact(s, t, e)
<1> SUFFICES ASSUME NEW j \in Inum, NEW l \in Paths, l # NDIRECT, Addr(s[j], t, l) # 0
             PROVE  e[Addr(s[j], t, l)] = t[Addr(s[j], t, l)]
  BY DEF Intact
<1>1. Addr(v[j], c, l) = Addr(s[j], t, l)
  BY DEF Extended
<1>2. c[Addr(s[j], t, l)] = t[Addr(s[j], t, l)]
  BY DEF Intact
<1>3. e[Addr(v[j], c, l)] = c[Addr(v[j], c, l)]
  BY <1>1 DEF Intact
<1> QED BY <1>1, <1>2, <1>3

LEMMA BmapIntact ==
    ASSUME NEW n, NEW s, NEW i \in Inum, NEW x, IsLookup(x, n), Mapped(s, i, x),
           NEW bn \in 0..(MAXFILE - 1), NEW z, z = Bmap(x, bn), ~z.full
    PROVE  z.d.text = x.d.text /\ Intact(With(s, i, x.ino), x.d.data, z.d.data)
<1>0. NDIRECT \in 0..NDIRECT /\ NDIRECT \in Nat
  BY PathFacts
<1>1. PICK w : w = With(s, i, x.ino)
  OBVIOUS
<1>2. MapOK(w, x.d.used, x.d.data)
  BY <1>1 DEF Mapped
<1>3. CASE bn < NDIRECT
  <2>1. z = AddrOf(x, bn)
    BY <1>3 DEF Bmap
  <2>2. z.d.text = x.d.text /\ Intact(w, x.d.data, z.d.data)
    BY <1>2, <2>1, AddrOfIntact
  <2> QED BY <1>1, <2>2
<1>4. CASE ~(bn < NDIRECT)
  <2>1. PICK t, k, h : t = AddrOf(x, h) /\ k = bn - NDIRECT /\ h = NDIRECT
    OBVIOUS
  <2>2. ~t.full
    BY <1>4, <2>1 DEF Bmap
  <2>3. t.d.text = x.d.text /\ Intact(w, x.d.data, t.d.data)
    BY <1>2, <2>1, <2>2, AddrOfIntact
  <2>4. IsLookup(t, n)
    BY <2>1, AddrOfKeeps
  <2>5. CASE t.d.data[t.addr][k] # 0
    <3>1. z = [t EXCEPT !.addr = t.d.data[t.addr][k]]
      BY <1>4, <2>1, <2>2, <2>5 DEF Bmap
    <3>2. z.d = t.d
      BY <2>4, <3>1 DEF IsLookup
    <3> QED BY <1>1, <2>3, <3>2
  <2>6. CASE t.d.data[t.addr][k] = 0
    <3>1. PICK y : y = Balloc(t)
      OBVIOUS
    <3>2. ~y.full
      BY <1>4, <2>1, <2>2, <2>6, <3>1 DEF Bmap
    <3>3. z = [y EXCEPT !.d.data[t.addr][k] = y.addr, !.log = @ \cup {DataBlock(t.addr)}]
      BY <1>4, <2>1, <2>2, <2>6, <3>1, <3>2 DEF Bmap
    <3>4. PICK a, b, c, e : /\ a = y.addr /\ b = t.addr /\ c = y.d.data
                            /\ e = [c EXCEPT ![b][k] = a]
      OBVIOUS
    <3>5. z.d.text = y.d.text /\ z.d.data = e
      <4>1. IsLookup(y, n)
        BY <2>4, <3>1, BallocKeeps
      <4>2. /\ y = [ino |-> y.ino, d |-> y.d, log |-> y.log, addr |-> y.addr, full |-> y.full]
            /\ y.d = [din |-> y.d.din, used |-> y.d.used, data |-> y.d.data, text |-> y.d.text]
        BY <4>1 DEF IsLookup, IsDisk
      <4>3. PICK v, d : /\ v = y.d
                        /\ d = [din |-> v.din, used |-> v.used, data |-> e, text |-> v.text]
        OBVIOUS
      <4>4. z = [[y EXCEPT !.d.data[b][k] = a] EXCEPT !.log = @ \cup {DataBlock(b)}]
        BY <3>3, <3>4
      <4>5. [v EXCEPT !.data[b][k] = a] = d
        BY <3>4, <4>2, <4>3
      <4>6. [y EXCEPT !.d.data[b][k] = a] = [y EXCEPT !.d = d]
        BY <4>3, <4>5
      <4>7. [y EXCEPT !.d = d] = [ino |-> y.ino, d |-> d, log |-> y.log, addr |-> y.addr, full |-> y.full]
        BY <4>2
      <4>8. z.d = d
        BY <4>4, <4>6, <4>7
      <4> QED BY <4>3, <4>8
    <3>6. PICK v : v = With(s, i, t.ino)
      OBVIOUS
    <3>7. /\ MapOK(v, t.d.used, t.d.data) /\ Extended(w, x.d.data, v, t.d.data)
          /\ t.addr = t.ino.addrs[NDIRECT] /\ t.addr # 0 /\ v[i] = t.ino
      <4>1. h \in 0..NDIRECT
        BY <1>0, <2>1
      <4>2. /\ Mapped(s, i, t) /\ Grew(s, i, x, t) /\ t.addr = t.ino.addrs[h] /\ t.addr # 0
        BY <2>1, <2>2, <4>1, AddrOfMaps
      <4>3. v[i] = t.ino
        BY <3>6, WithIs
      <4> QED BY <1>1, <2>1, <3>6, <4>2, <4>3 DEF Mapped, Grew
    <3>8. y.d.text = t.d.text /\ Intact(v, t.d.data, c)
      BY <2>4, <3>1, <3>2, <3>4, <3>7, BallocIntact
    <3>9. Intact(v, t.d.data, e)
      <4> SUFFICES ASSUME NEW j \in Inum, NEW l \in Paths, l # NDIRECT,
                          Addr(v[j], t.d.data, l) # 0
                   PROVE  e[Addr(v[j], t.d.data, l)] = t.d.data[Addr(v[j], t.d.data, l)]
        BY DEF Intact
      <4>1. PICK g : g = Addr(v[j], t.d.data, l)
        OBVIOUS
      <4>2. Addr(v[i], t.d.data, NDIRECT) = b
        BY <1>0, <3>4, <3>7 DEF Addr
      <4>3. NDIRECT \in Paths /\ OnePath(v, t.d.data)
        BY <3>7, PathFacts DEF MapOK
      <4>4. g # b
        BY <3>4, <3>7, <4>1, <4>2, <4>3 DEF OnePath
      <4>5. c[g] = t.d.data[g]
        BY <3>8, <4>1 DEF Intact
      <4>6. g \in Block /\ c \in Contents
        <5>1. t.d.data \in Contents
          BY <3>7 DEF MapOK
        <5>2. c \in Contents
          BY <2>4, <3>1, <3>2, <3>4, <5>1, BallocGives
        <5>3. g \in Block
          BY <3>7, <4>1 DEF MapOK
        <5> QED BY <5>2, <5>3
      <4>7. e[g] = c[g]
        BY <3>4, <4>4, <4>6 DEF Contents
      <4> QED BY <4>1, <4>5, <4>7
    <3>10. Intact(w, x.d.data, e)
      BY <2>3, <3>7, <3>9, IntactTrans
    <3> QED BY <1>1, <2>3, <3>5, <3>8, <3>10
  <2> QED BY <2>5, <2>6
<1> QED BY <1>3, <1>4

LEMMA ReadsWhole ==
    ASSUME NEW n, NEW d, n.size \in 0..Top, Reaches(n, d.data, n.size), NEW s,
           Reads(n, d.data, s, 0, 0)
    PROVE  Whole(n, d) = s
<1>1. Whole(n, d) = [j \in 1..n.size |-> ByteAt(n, d.data, j - 1)]
  BY WholeIs
<1>2. n.size \in Nat
  BY TopNat
<1>3. s \in [1..n.size -> Nat] /\ \A x \in 0..(n.size - 1) : s[x + 1] = ByteAt(n, d.data, x)
  BY <1>2 DEF Reads
<1>4. ASSUME NEW j \in 1..n.size PROVE s[j] = ByteAt(n, d.data, j - 1)
  <2>1. PICK x : x = j - 1
    OBVIOUS
  <2>2. x \in 0..(n.size - 1) /\ x + 1 = j
    BY <1>2, <2>1
  <2>3. s[x + 1] = ByteAt(n, d.data, x)
    BY <1>3, <2>2
  <2> QED BY <2>1, <2>2, <2>3
<1> QED BY <1>1, <1>3, <1>4

LEMMA TextInvReads == FileInv /\ BlockInv /\ TextInv => ReadsBack
<1> SUFFICES ASSUME FileInv, BlockInv, TextInv, NEW i \in Inum
             PROVE  /\ Whole(installed.din[i], installed) = installed.text[i]
                    /\ lock[i] = 0 =>
                          Whole(inode[i], disk) = disk.text[i] /\ inode[i] = disk.din[i]
  BY DEF ReadsBack
<1>1. IsInode(inode[i]) /\ IsInode(installed.din[i])
  BY DEF FileInv, Disks, IsDisk, AreInodes
<1>2. inode[i].size \in 0..Top /\ installed.din[i].size \in 0..Top
  BY <1>1 DEF IsInode
<1>3. /\ Reaches(inode[i], disk.data, inode[i].size)
      /\ Reaches(installed.din[i], installed.data, installed.din[i].size)
  BY DEF BlockInv, Sound
<1>4. Whole(installed.din[i], installed) = installed.text[i]
  <2>1. Reads(installed.din[i], installed.data, installed.text[i], 0, 0)
    BY DEF TextInv, Texts
  <2> QED BY <1>2, <1>3, <2>1, ReadsWhole
<1>5. ASSUME lock[i] = 0 PROVE Whole(inode[i], disk) = disk.text[i] /\ inode[i] = disk.din[i]
  <2>1. Reads(inode[i], disk.data, disk.text[i], 0, 0)
    BY <1>5, Unlocked DEF TextInv, Unheld
  <2>2. inode[i] = disk.din[i]
    BY <1>5, Unlocked DEF BlockInv, Synced
  <2> QED BY <1>2, <1>3, <2>1, <2>2, ReadsWhole
<1> QED BY <1>4, <1>5

LEMMA EmptyReads == ASSUME NEW n, n.size = 0, NEW t PROVE Reads(n, t, <<>>, 0, 0)
<1>1. <<>> \in [1..0 -> Nat]
  <2>1. <<>> \in Seq(Nat) /\ Len(<<>>) = 0
    OBVIOUS
  <2> QED BY <2>1, LenProperties
<1>2. 0..(n.size - 1) = {}
  OBVIOUS
<1> QED BY <1>1, <1>2 DEF Reads

(* With no call under way and no lock held.                                 *)
LEMMA QuietTexts ==
    ASSUME call = [p \in Proc |-> Idle],
           ftable = [f \in FileId |-> NoFile], moved = [f \in FileId |-> 0],
           installed.text = [i \in Inum |-> installed.text[i]], Texts(installed.din, installed),
           disk = installed, inode = installed.din
    PROVE  TextInv
<1>1. Offsets
  <2>1. \A f \in FileId : ftable[f].type # "inode"
    BY NoFileIs
  <2> QED BY <2>1 DEF Offsets
<1>2. Sending
  <2>1. \A p \in Proc : call[p].pc = "idle"
    BY DEF Idle
  <2> QED BY <2>1 DEF Sending
<1>3. Unheld
  BY DEF Texts, Unheld
<1> QED BY <1>1, <1>2, <1>3 DEF TextInv

LEMMA QuietTextsNext ==
    ASSUME (call = [p \in Proc |-> Idle])',
           (ftable = [f \in FileId |-> NoFile])', (moved = [f \in FileId |-> 0])',
           (installed.text = [i \in Inum |-> installed.text[i]])',
           Texts(installed.din, installed)', (disk = installed)', (inode = installed.din)'
    PROVE  TextInv'
<1>1. Offsets'
  <2>1. \A f \in FileId : ftable'[f].type # "inode"
    BY NoFileIs
  <2> QED BY <2>1 DEF Offsets
<1>2. Sending'
  <2>1. \A p \in Proc : call'[p].pc = "idle"
    BY DEF Idle
  <2> QED BY <2>1 DEF Sending
<1>3. Unheld'
  BY DEF Texts, Unheld
<1> QED BY <1>1, <1>2, <1>3 DEF TextInv

LEMMA TextInvInit == Init => TextInv
<1> SUFFICES ASSUME Init PROVE TextInv
  OBVIOUS
<1>1. /\ call = [p \in Proc |-> Idle]
      /\ ftable = [f \in FileId |-> NoFile] /\ moved = [f \in FileId |-> 0]
      /\ disk = installed /\ inode = installed.din /\ installed = EmptyDisk
  BY DEF Init
<1>2. /\ installed.text = [i \in Inum |-> <<>>] /\ installed.din = [i \in Inum |-> FreeInode]
  BY <1>1 DEF EmptyDisk
<1>3. Texts(installed.din, installed)
  <2>1. \A i \in Inum : installed.din[i].size = 0 /\ installed.text[i] = <<>>
    BY <1>2, FreeInodeEmpty
  <2> QED BY <2>1, EmptyReads DEF Texts
<1> QED BY <1>1, <1>2, <1>3, QuietTexts

LEMMA RestartTexts == ASSUME TextInv, Restart PROVE TextInv'
<1>1. /\ call' = [p \in Proc |-> Idle]
      /\ ftable' = [f \in FileId |-> NoFile] /\ moved' = [f \in FileId |-> 0]
      /\ disk' = installed /\ inode' = installed.din /\ installed' = installed
  BY DEF Restart
<1>2. Texts(installed.din, installed)' /\ (installed.text = [i \in Inum |-> installed.text[i]])'
  BY <1>1 DEF TextInv
<1> QED BY <1>1, <1>2, QuietTextsNext

(***************************************************************************)
(* A step that starts no write to an inode and ends none.                  *)
(***************************************************************************)
LEMMA InstalledTexts ==
    ASSUME FileInv', BlockInv', Unheld', (disk.text = [i \in Inum |-> disk.text[i]])',
           Texts(installed.din, installed), installed.text = [i \in Inum |-> installed.text[i]],
           Installs
    PROVE  /\ Texts(installed.din, installed)'
           /\ (installed.text = [i \in Inum |-> installed.text[i]])'
<1>1. CASE installed' = installed
  BY <1>1
<1>2. CASE inop' = {} /\ installed' = disk'
  <2>1. \A i \in Inum : Steady(i)'
    BY <1>2 DEF BlockInv, Holders, Steady
  <2>2. \A i \in Inum : inode'[i] = disk'.din[i]
    BY <2>1 DEF BlockInv, Synced
  <2> QED BY <1>2, <2>1, <2>2 DEF Texts, Unheld
<1> QED BY <1>1, <1>2 DEF Installs

KeepsText(i) ==
    /\ inode'[i].size = inode[i].size /\ inode'[i].addrs = inode[i].addrs
    /\ inode'[i].live = inode[i].live /\ disk'.text[i] = disk.text[i]
Empties(i) == inode'[i].size = 0 /\ disk'.text[i] = <<>>

LEMMA TextStep ==
    ASSUME FileInv, FileInv', BlockInv, TextInv, NEW p \in Proc, BlockNext(p),
           call[p].pc # "copy", call'[p].pc # "copy", disk'.data = disk.data,
           disk'.text = [i \in Inum |-> disk'.text[i]],
           \A i \in Inum : KeepsText(i) \/ (Steady(i) /\ Empties(i)), Offsets', Installs
    PROVE  TextInv'
<1>1. Unheld'
  <2>1. ASSUME NEW i \in Inum, ~inode'[i].live PROVE inode'[i].size = 0
    BY <2>1 DEF TextInv, Unheld, KeepsText, Empties
  <2>2. ASSUME NEW i \in Inum, Steady(i)'
        PROVE  Reads(inode'[i], disk'.data, disk'.text[i], 0, 0)
    <3>1. CASE Empties(i)
      BY <3>1, EmptyReads DEF Empties
    <3>2. CASE KeepsText(i)
      <4>1. Steady(i)
        BY <2>2 DEF Steady, BlockNext, Kept
      <4>2. Reads(inode[i], disk.data, disk.text[i], 0, 0)
        BY <4>1 DEF TextInv, Unheld
      <4> QED BY <3>2, <4>2 DEF KeepsText, Reads, ByteAt, Addr
    <3> QED BY <3>1, <3>2
  <2> QED BY <2>1, <2>2 DEF Unheld
<1>2. Sending'
  <2> SUFFICES ASSUME NEW q \in Proc, call'[q].pc = "copy"
               PROVE  Held(call'[q], ftable'[call'[q].f].off, q, inode'[call'[q].ip],
                           disk'.data, disk'.text[call'[q].ip])
    BY DEF Sending
  <2>1. q # p /\ call'[q] = call[q] /\ call[q].pc = "copy"
    BY DEF BlockNext, Kept
  <2>2. /\ ftable'[call[q].f].off = ftable[call[q].f].off
        /\ inode'[call[q].ip] = inode[call[q].ip]
    BY <2>1 DEF BlockNext, Kept
  <2>3. call[q].ip \in Inum /\ ~Steady(call[q].ip)
    BY <2>1, CopyFile DEF Steady
  <2>4. disk'.text[call[q].ip] = disk.text[call[q].ip]
    BY <2>3 DEF KeepsText
  <2>5. Held(call[q], ftable[call[q].f].off, q, inode[call[q].ip], disk.data,
             disk.text[call[q].ip])
    BY <2>1 DEF TextInv, Sending
  <2> QED BY <2>1, <2>2, <2>4, <2>5
<1>3. /\ Texts(installed.din, installed)'
      /\ (installed.text = [i \in Inum |-> installed.text[i]])'
  BY <1>1, InstalledTexts DEF BlockNext, TextInv
<1> QED BY <1>1, <1>2, <1>3 DEF TextInv

(* A step that leaves the inodes and the disk alone.                        *)
LEMMA TextStay ==
    ASSUME FileInv, FileInv', BlockInv, TextInv, NEW p \in Proc, BlockNext(p),
           call[p].pc # "copy", call'[p].pc # "copy",
           inode' = inode, disk' = disk, Offsets', Installs
    PROVE  TextInv'
<1>1. \A i \in Inum : KeepsText(i)
  BY DEF KeepsText
<1>2. disk'.data = disk.data /\ disk'.text = [i \in Inum |-> disk'.text[i]]
  BY DEF TextInv
<1> QED BY <1>1, <1>2, TextStep

(* No file that is an inode after the step has moved on its own.            *)
LEMMA OffsetsStay ==
    ASSUME TextInv, moved' = moved,
           \A f \in FileId : ftable'[f].type = "inode" =>
              ftable[f].type = "inode" /\ ftable'[f].off = ftable[f].off
    PROVE  Offsets'
BY DEF TextInv, Offsets

LEMMA RefTypes ==
    ASSUME FileInv, NEW g \in FileId, ftable' \in {Filealloc(ftable, g), Fileput(ftable, g)}
    PROVE  \A f \in FileId : ftable'[f].type = "inode" => ftable[f].type = "inode"
<1>1. ftable = [f \in FileId |-> ftable[f]] /\ \A f \in FileId : IsFile(ftable[f])
  BY DEF FileInv, Shapes
<1>2. ASSUME NEW m, ftable' = [ftable EXCEPT ![g].ref = m]
      PROVE  \A f \in FileId : ftable'[f].type = ftable[f].type
  BY <1>1, <1>2 DEF IsFile
<1>3. CASE ftable' = Filealloc(ftable, g)
  BY <1>2, <1>3 DEF Filealloc
<1>4. CASE ftable' = Fileput(ftable, g) /\ ftable[g].ref # 1
  <2>1. PICK m : m = ftable[g].ref + (-1)
    OBVIOUS
  <2>2. ftable' = [ftable EXCEPT ![g].ref = m]
    BY <1>4, <2>1 DEF Fileput, Fileref
  <2> QED BY <1>2, <2>2
<1>5. CASE ftable' = Fileput(ftable, g) /\ ftable[g].ref = 1
  <2>1. PICK t : Fileput(ftable, g) = [ftable EXCEPT ![g] = t] /\ t.type = "none"
    BY <1>5, FileGivenBack
  <2>2. ftable' = [ftable EXCEPT ![g] = t]
    BY <1>5, <2>1
  <2> QED BY <1>1, <2>1, <2>2
<1> QED BY <1>3, <1>4, <1>5

(* A step of a call on the file table alone.                                *)
LEMMA TableTexts ==
    ASSUME FileInv, FileInv', BlockInv, TextInv, NEW p \in Proc, NEW k,
           call' = [call EXCEPT ![p] = k], call[p].pc # "copy", k.pc \notin {"copy", "ilock"},
           inop' = inop, inode' = inode, disk' = disk, installed' = installed, moved' = moved,
           \A f \in FileId : \/ ftable'[f].off = ftable[f].off
                                /\ (ftable'[f].type = "inode" => ftable[f].type = "inode")
                             \/ ftable[f].type # "inode" /\ ftable'[f].type # "inode"
    PROVE  TextInv'
<1>1. \A f \in FileId : ftable[f].type = "inode" => ftable'[f].off = ftable[f].off
  OBVIOUS
<1>2. BlockNext(p)
  BY <1>1, TableBlocks
<1>3. Offsets' /\ Installs
  BY OffsetsStay DEF Installs
<1>4. call'[p].pc # "copy"
  BY OneMoves
<1> QED BY <1>2, <1>3, <1>4, TextStay

LEMMA CloseBeginTexts ==
    ASSUME FileInv, FileInv', BlockInv, TextInv, NEW p \in Proc, CloseBegin(p) PROVE TextInv'
<1>1. PICK k : k = [call[p] EXCEPT !.pc = "iput"]
  OBVIOUS
<1>2. /\ call[p].pc = "cbegin" /\ call' = [call EXCEPT ![p] = k] /\ ftable' = ftable
      /\ inode' = inode /\ disk' = disk /\ installed' = installed /\ lock' = lock /\ moved' = moved
  BY <1>1 DEF CloseBegin, At, Now, Goto, fileVars, dataVars
<1>3. call'[p].pc = "iput"
  BY <1>1, <1>2, CallAt, PcExcept, OneMoves
<1>4. Offsets' /\ Installs /\ BlockNext(p)
  BY <1>2, OffsetsStay, CloseBeginBlocks DEF Installs
<1> QED BY <1>2, <1>3, <1>4, TextStay

LEMMA CloseEndTexts ==
    ASSUME FileInv, FileInv', BlockInv, TextInv, NEW p \in Proc, CloseEnd(p) PROVE TextInv'
<1>1. PICK k : k = [Idle EXCEPT !.pc = call[p].then]
  OBVIOUS
<1>2. /\ call[p].pc = "cend" /\ call' = [call EXCEPT ![p] = k] /\ EndOp(p) /\ ftable' = ftable
      /\ inode' = inode /\ disk' = disk /\ lock' = lock /\ moved' = moved
  BY <1>1 DEF CloseEnd, At, Goto, fileVars, dataVars
<1>3. k.pc = call[p].then /\ call[p].then \in {"idle", "exit"}
  BY <1>1, <1>2, CallAt, IdleIs DEF IsCall, CallOK
<1>4. call'[p].pc # "copy"
  BY <1>2, <1>3, OneMoves
<1>5. Offsets' /\ Installs /\ BlockNext(p)
  BY <1>2, OffsetsStay, CloseEndBlocks, EndOpInstalls
<1> QED BY <1>2, <1>4, <1>5, TextStay

LEMMA SysExitTexts ==
    ASSUME FileInv, FileInv', BlockInv, TextInv, NEW p \in Proc, SysExit(p) PROVE TextInv'
<1>1. PICK k : k = [call[p] EXCEPT !.pc = "exit"]
  OBVIOUS
<1>2. /\ call[p].pc = "idle" /\ call' = [call EXCEPT ![p] = k] /\ ftable' = ftable
      /\ inode' = inode /\ disk' = disk /\ installed' = installed /\ lock' = lock /\ moved' = moved
  BY <1>1 DEF SysExit, Start, Now, Goto, fileVars, dataVars, logVars
<1>3. call'[p].pc = "exit"
  BY <1>1, <1>2, CallAt, PcExcept, OneMoves
<1>4. Offsets' /\ Installs /\ BlockNext(p)
  BY <1>2, OffsetsStay, SysExitBlocks DEF Installs
<1> QED BY <1>2, <1>3, <1>4, TextStay

LEMMA SysDupTexts ==
    ASSUME FileInv, FileInv', BlockInv, TextInv, NEW p \in Proc, NEW fd \in Fd, SysDup(p, fd)
    PROVE  TextInv'
<1>1. PICK g : g = ofile[p][fd]
  OBVIOUS
<1>2. /\ call[p].pc = "idle" /\ call' = call
      /\ ftable' = [ftable EXCEPT ![g].ref = @ + 1] /\ inode' = inode
      /\ disk' = disk /\ installed' = installed /\ lock' = lock /\ moved' = moved
  BY <1>1 DEF SysDup, Start, Fileref, dataVars, logVars
<1>3. ftable = [f \in FileId |-> ftable[f]] /\ \A f \in FileId : IsFile(ftable[f])
  BY DEF FileInv, Shapes
<1>4. \A f \in FileId : ftable'[f].off = ftable[f].off /\ ftable'[f].type = ftable[f].type
  BY <1>2, <1>3 DEF IsFile
<1>5. Offsets' /\ Installs /\ BlockNext(p)
  BY <1>2, <1>4, OffsetsStay, SysDupBlocks DEF Installs
<1> QED BY <1>2, <1>5, TextStay

LEMMA FilecloseTexts ==
    ASSUME FileInv, FileInv', BlockInv, TextInv, NEW p \in Proc, NEW g \in FileId, NEW c,
           call[p].pc # "copy", c.pc \notin {"copy", "ilock"}, Fileclose(p, g, c)
    PROVE  TextInv'
<1>1. PICK b : b = [Idle EXCEPT !.pc = "cbegin", !.ip = ftable[g].ip, !.then = c.pc]
  OBVIOUS
<1>2. PICK k : k = IF ftable[g].ref = 1 /\ ftable[g].type = "inode" THEN b ELSE c
  OBVIOUS
<1>3. /\ ftable' = Fileput(ftable, g) /\ call' = [call EXCEPT ![p] = k] /\ inop' = inop
      /\ inode' = inode /\ disk' = disk /\ installed' = installed /\ moved' = moved
  BY <1>1, <1>2 DEF Fileclose, Goto, dataVars, logVars
<1>4. b.pc = "cbegin"
  BY <1>1 DEF Idle
<1>5. k.pc \notin {"copy", "ilock"}
  BY <1>2, <1>4
<1>6. \A f \in FileId : /\ ftable'[f].off = ftable[f].off
                        /\ ftable'[f].type = "inode" => ftable[f].type = "inode"
  BY <1>3, RefOffsets, RefTypes
<1> QED BY <1>3, <1>5, <1>6, TableTexts

LEMMA SysCloseTexts ==
    ASSUME FileInv, FileInv', BlockInv, TextInv, NEW p \in Proc, NEW fd \in Fd, SysClose(p, fd)
    PROVE  TextInv'
<1>1. PICK g : g = ofile[p][fd]
  OBVIOUS
<1>2. g \in FileId /\ call[p].pc = "idle" /\ Fileclose(p, g, Idle)
  BY <1>1, CallAt DEF SysClose, Start
<1> QED BY <1>2, IdleIs, FilecloseTexts

LEMMA ExitFilesTexts ==
    ASSUME FileInv, FileInv', BlockInv, TextInv, NEW p \in Proc, ExitFiles(p) PROVE TextInv'
<1>0. call[p].pc = "exit"
  BY DEF ExitFiles, At
<1>1. CASE Fd \ FreeFds(ofile, p) = {}
  <2>1. /\ call' = [call EXCEPT ![p] = Idle] /\ ftable' = ftable /\ moved' = moved
        /\ inode' = inode /\ disk' = disk /\ installed' = installed /\ inop' = inop
    BY <1>1 DEF ExitFiles, Goto, dataVars, logVars
  <2> QED BY <1>0, <2>1, IdleIs, TableTexts
<1>2. CASE Fd \ FreeFds(ofile, p) # {}
  <2>1. PICK h, g : h = Min(Fd \ FreeFds(ofile, p)) /\ g = ofile[p][h]
    OBVIOUS
  <2>2. h \in Fd \ FreeFds(ofile, p)
    <3>1. Fd \subseteq Nat
      BY FileFacts DEF Fd
    <3>2. Fd \ FreeFds(ofile, p) \subseteq Nat
      BY <3>1
    <3> QED BY <1>2, <2>1, <3>2, LeastOf
  <2>3. g \in FileId
    BY <2>1, <2>2, CallAt DEF FreeFds
  <2>4. PICK c : c = [Idle EXCEPT !.pc = "exit"]
    OBVIOUS
  <2>5. c.pc = "exit" /\ Fileclose(p, g, c)
    BY <1>2, <2>1, <2>4 DEF ExitFiles, Idle
  <2> QED BY <1>0, <2>3, <2>5, FilecloseTexts
<1> QED BY <1>1, <1>2

LEMMA SysPipeTexts ==
    ASSUME FileInv, FileInv', BlockInv, TextInv, NEW p \in Proc, SysPipe(p) PROVE TextInv'
<1>1. PICK g, k : g = Min(FreeFiles) /\ k = [Idle EXCEPT !.pc = "pipe", !.f = g]
  OBVIOUS
<1>2. /\ call[p].pc = "idle" /\ inop' = inop /\ call' = [call EXCEPT ![p] = k] /\ FreeFiles # {}
      /\ ftable' = Filealloc(ftable, g) /\ inode' = inode
      /\ disk' = disk /\ installed' = installed /\ moved' = moved
  BY <1>1 DEF SysPipe, Start, Goto, dataVars, logVars
<1>3. k.pc = "pipe"
  BY <1>1 DEF Idle
<1>4. g \in FileId
  BY <1>1, <1>2, FirstFree
<1>5. \A f \in FileId : /\ ftable'[f].off = ftable[f].off
                        /\ ftable'[f].type = "inode" => ftable[f].type = "inode"
  BY <1>2, <1>4, RefOffsets, RefTypes
<1> QED BY <1>2, <1>3, <1>5, TableTexts

LEMMA PipeallocTexts ==
    ASSUME FileInv, FileInv', BlockInv, TextInv, NEW p \in Proc, Pipealloc(p) PROVE TextInv'
<1>1. PICK g, w : g = call[p].f /\ w = Min(FreeFiles)
  OBVIOUS
<1>2. /\ call[p].pc = "pipe" /\ inop' = inop /\ moved' = moved
      /\ inode' = inode /\ disk' = disk /\ installed' = installed
  BY DEF Pipealloc, At, dataVars, logVars
<1>3. CASE FreeFiles = {}
  <2>1. PICK k : k = Undo(g, 0)
    OBVIOUS
  <2>2. call' = [call EXCEPT ![p] = k] /\ ftable' = ftable
    BY <1>1, <1>3, <2>1 DEF Pipealloc, Goto
  <2>3. k.pc = "pundo"
    BY <2>1, UndoIs
  <2> QED BY <1>2, <2>2, <2>3, TableTexts
<1>4. CASE FreeFiles # {}
  <2>1. PICK k : k = [Idle EXCEPT !.pc = "kalloc", !.f = g, !.w = w]
    OBVIOUS
  <2>2. call' = [call EXCEPT ![p] = k] /\ ftable' = Filealloc(ftable, w)
    BY <1>1, <1>4, <2>1 DEF Pipealloc, Goto
  <2>3. k.pc = "kalloc"
    BY <2>1 DEF Idle
  <2>4. w \in FileId
    BY <1>1, <1>4, FirstFree
  <2>5. \A f \in FileId : /\ ftable'[f].off = ftable[f].off
                          /\ ftable'[f].type = "inode" => ftable[f].type = "inode"
    BY <2>2, <2>4, RefOffsets, RefTypes
  <2> QED BY <1>2, <2>2, <2>3, <2>5, TableTexts
<1> QED BY <1>3, <1>4

LEMMA PipeNoPageTexts ==
    ASSUME FileInv, FileInv', BlockInv, TextInv, NEW p \in Proc, PipeNoPage(p) PROVE TextInv'
<1>1. PICK k : k = Undo(call[p].f, call[p].w)
  OBVIOUS
<1>2. /\ call[p].pc = "kalloc" /\ inop' = inop /\ call' = [call EXCEPT ![p] = k] /\ moved' = moved
      /\ ftable' = ftable /\ inode' = inode /\ disk' = disk /\ installed' = installed
  BY <1>1 DEF PipeNoPage, At, Goto, fileVars, dataVars, logVars
<1>3. k.pc = "pundo"
  BY <1>1, UndoIs
<1> QED BY <1>2, <1>3, TableTexts

LEMMA PipeFdsTexts ==
    ASSUME FileInv, FileInv', BlockInv, TextInv, NEW p \in Proc, PipeFds(p) PROVE TextInv'
<1>1. PICK k : /\ call[p].pc = "kalloc" /\ call' = [call EXCEPT ![p] = k]
               /\ k.pc \in {"idle", "pundo"} /\ inop' = inop /\ moved' = moved
               /\ inode' = inode /\ disk' = disk /\ installed' = installed
               /\ \A f \in FileId : \/ ftable'[f] = ftable[f]
                                    \/ ftable[f].type # "inode" /\ ftable'[f].type # "inode"
  BY PipeFdsIs
<1> QED BY <1>1, TableTexts

LEMMA PipeUndoTexts ==
    ASSUME FileInv, FileInv', BlockInv, TextInv, NEW p \in Proc, PipeUndo(p) PROVE TextInv'
<1>1. PICK g, c : g = call[p].f /\ c = IF call[p].w = 0 THEN Idle ELSE Undo(call[p].w, 0)
  OBVIOUS
<1>2. call[p].pc = "pundo" /\ Fileclose(p, g, c)
  BY <1>1 DEF PipeUndo, At
<1>3. g \in FileId
  BY <1>1, <1>2, Piping DEF MakesOK
<1>4. c.pc \in {"idle", "pundo"}
  BY <1>1, IdleIs, UndoIs
<1> QED BY <1>2, <1>3, <1>4, FilecloseTexts

(* open, from the file on.                                                  *)
LEMMA OpenFdTexts ==
    ASSUME FileInv, FileInv', BlockInv, TextInv, NEW p \in Proc, NEW a, NEW b, OpenFd(p, a, b)
    PROVE  TextInv'
<1>1. PICK g, k, t : g = call[p].f /\ k = Idle
                     /\ t = [ref |-> 1, type |-> "inode", ip |-> call[p].ip, off |-> 0,
                             readable |-> a, writable |-> b]
  OBVIOUS
<1>2. /\ call[p].pc = "open" /\ ftable' = [ftable EXCEPT ![g] = t]
      /\ call' = [call EXCEPT ![p] = k] /\ EndOp(p) /\ inode' = inode /\ disk' = disk
      /\ moved' = [moved EXCEPT ![g] = 0]
  BY <1>1 DEF OpenFd, At, Goto, dataVars
<1>3. g \in FileId
  BY <1>1, <1>2, Opening
<1>4. /\ ftable = [f \in FileId |-> ftable[f]] /\ moved = [f \in FileId |-> moved[f]]
      /\ \A f \in FileId : ftable[f].type = "inode" => moved[f] = ftable[f].off
  BY DEF FileInv, Shapes, TextInv, Offsets
<1>5. \A f \in FileId : f # g => ftable'[f] = ftable[f] /\ moved'[f] = moved[f]
  BY <1>2, <1>4
<1>6. ftable'[g] = t /\ moved'[g] = 0 /\ t.off = 0
  BY <1>1, <1>2, <1>3, <1>4
<1>7. moved' = [f \in FileId |-> moved'[f]]
  BY <1>2, <1>4
<1>8. Offsets'
  BY <1>4, <1>5, <1>6, <1>7 DEF Offsets
<1>9. Installs /\ BlockNext(p)
  BY <1>2, EndOpInstalls, OpenFdBlocks
<1>10. call'[p].pc # "copy"
  BY <1>1, <1>2, OneMoves, IdleIs
<1> QED BY <1>2, <1>8, <1>9, <1>10, TextStay

LEMMA OpenNoFdTexts ==
    ASSUME FileInv, FileInv', BlockInv, TextInv, NEW p \in Proc, OpenNoFd(p) PROVE TextInv'
<1>1. PICK g, i : g = call[p].f /\ i = call[p].ip
  OBVIOUS
<1>2. PICK k : k = [Idle EXCEPT !.pc = "iput", !.ip = i]
  OBVIOUS
<1>3. /\ call[p].pc = "open" /\ ftable' = Fileput(ftable, g) /\ call' = [call EXCEPT ![p] = k]
      /\ inode' = inode /\ disk' = disk /\ installed' = installed /\ inop' = inop /\ moved' = moved
  BY <1>1, <1>2 DEF OpenNoFd, At, Goto, dataVars, logVars
<1>4. g \in FileId
  BY <1>1, <1>3, Opening
<1>5. \A f \in FileId : /\ ftable'[f].off = ftable[f].off
                        /\ ftable'[f].type = "inode" => ftable[f].type = "inode"
  BY <1>3, <1>4, RefOffsets, RefTypes
<1>6. k.pc = "iput"
  BY <1>2 DEF Idle
<1> QED BY <1>3, <1>5, <1>6, TableTexts

LEMMA ForkFilesTexts ==
    ASSUME FileInv, FileInv', BlockInv, TextInv, NEW p \in Proc, NEW q \in Proc, ForkFiles(p, q)
    PROVE  TextInv'
<1>1. /\ call[p].pc = "idle" /\ call' = call /\ inode' = inode /\ moved' = moved
      /\ disk' = disk /\ installed' = installed /\ lock' = lock
  BY DEF ForkFiles, Start, dataVars, logVars
<1>2. ftable' = [f \in FileId |-> [ftable[f] EXCEPT
                     !.ref = @ + Cardinality({fd \in Fd : ofile[p][fd] = f})]]
  BY DEF ForkFiles
<1>3. \A f \in FileId : IsFile(ftable[f])
  BY DEF FileInv, Shapes
<1>4. ASSUME NEW f \in FileId
      PROVE  ftable'[f].off = ftable[f].off /\ ftable'[f].type = ftable[f].type
  <2>1. PICK m : m = ftable[f].ref + Cardinality({fd \in Fd : ofile[p][fd] = f})
    OBVIOUS
  <2>2. ftable'[f] = [ftable[f] EXCEPT !.ref = m]
    BY <1>2, <2>1
  <2>3. ftable[f] = [ref |-> ftable[f].ref, type |-> ftable[f].type, ip |-> ftable[f].ip,
                     off |-> ftable[f].off, readable |-> ftable[f].readable,
                     writable |-> ftable[f].writable]
    BY <1>3 DEF IsFile
  <2> QED BY <2>2, <2>3
<1>5. Offsets' /\ Installs /\ BlockNext(p)
  BY <1>1, <1>4, OffsetsStay, ForkFilesBlocks DEF Installs
<1> QED BY <1>1, <1>5, TextStay

(* fileread() and the history move together.                                *)
LEMMA FilereadTexts ==
    ASSUME FileInv, FileInv', BlockInv, TextInv, NEW p \in Proc, NEW fd \in Fd, NEW n,
           Fileread(p, fd, n)
    PROVE  TextInv'
<1>1. PICK g, r : g = ofile[p][fd] /\ r = ReadCount(inode[ftable[g].ip], ftable[g].off, n)
  OBVIOUS
<1>2. /\ call[p].pc = "idle" /\ call' = call /\ ftable[g].type = "inode"
      /\ ftable' = [ftable EXCEPT ![g].off = @ + r] /\ moved' = [moved EXCEPT ![g] = @ + r]
      /\ inode' = inode /\ disk' = disk /\ installed' = installed /\ lock' = lock
  BY <1>1 DEF Fileread, Start, dataVars, logVars
<1>3. ftable = [f \in FileId |-> ftable[f]] /\ \A f \in FileId : IsFile(ftable[f])
  BY DEF FileInv, Shapes
<1>4. /\ moved = [f \in FileId |-> moved[f]]
      /\ \A f \in FileId : ftable[f].type = "inode" => moved[f] = ftable[f].off
  BY DEF TextInv, Offsets
<1>5. ASSUME NEW f \in FileId, ftable'[f].type = "inode" PROVE moved'[f] = ftable'[f].off
  <2>1. CASE f # g
    BY <1>2, <1>3, <1>4, <1>5, <2>1
  <2>2. CASE f = g
    <3>1. ftable'[f].off = ftable[f].off + r
      BY <1>2, <1>3, <2>2 DEF IsFile
    <3> QED BY <1>2, <1>4, <2>2, <3>1
  <2> QED BY <2>1, <2>2
<1>6. Offsets'
  BY <1>2, <1>4, <1>5 DEF Offsets
<1>7. Installs /\ BlockNext(p)
  BY <1>2, FilereadBlocks DEF Installs
<1> QED BY <1>2, <1>6, <1>7, TextStay

LEMMA FilewriteTexts ==
    ASSUME FileInv, FileInv', BlockInv, TextInv, NEW p \in Proc, NEW fd \in Fd, NEW n,
           Filewrite(p, fd, n)
    PROVE  TextInv'
<1>1. PICK g, k : /\ g = ofile[p][fd]
                  /\ k = [Idle EXCEPT !.pc = "wbegin", !.f = g, !.ip = ftable[g].ip, !.n = n]
  OBVIOUS
<1>2. /\ call[p].pc = "idle" /\ call' = [call EXCEPT ![p] = k] /\ ftable' = ftable
      /\ inode' = inode /\ disk' = disk /\ installed' = installed /\ lock' = lock /\ moved' = moved
  BY <1>1 DEF Filewrite, Start, Goto, fileVars, dataVars, logVars
<1>3. k.pc = "wbegin"
  BY <1>1, IdleIs DEF IsCall
<1>4. call'[p].pc # "copy"
  BY <1>2, <1>3, OneMoves
<1>5. Offsets' /\ Installs /\ BlockNext(p)
  BY <1>2, OffsetsStay, FilewriteBlocks DEF Installs
<1> QED BY <1>2, <1>4, <1>5, TextStay

LEMMA WriteBeginTexts ==
    ASSUME FileInv, FileInv', BlockInv, TextInv, NEW p \in Proc, WriteBegin(p) PROVE TextInv'
<1>1. PICK m, k : /\ m = Min({call[p].n - call[p].i, MaxChunk})
                  /\ k = [call[p] EXCEPT !.pc = "ilock", !.tot = 0, !.n1 = m]
  OBVIOUS
<1>2. /\ call[p].pc = "wbegin" /\ call' = [call EXCEPT ![p] = k] /\ ftable' = ftable
      /\ inode' = inode /\ disk' = disk /\ installed' = installed /\ lock' = lock /\ moved' = moved
  BY <1>1 DEF WriteBegin, At, Goto, fileVars, dataVars
<1>3. k.pc = "ilock"
  BY <1>1, CallAt DEF IsCall
<1>4. call'[p].pc # "copy"
  BY <1>2, <1>3, OneMoves
<1>5. Offsets' /\ Installs /\ BlockNext(p)
  BY <1>2, OffsetsStay, WriteBeginBlocks DEF Installs
<1> QED BY <1>2, <1>4, <1>5, TextStay

LEMMA WriteEndTexts ==
    ASSUME FileInv, FileInv', BlockInv, TextInv, NEW p \in Proc, WriteEnd(p) PROVE TextInv'
<1>1. PICK i, k : /\ i = call[p].i + call[p].r
                  /\ k = IF call[p].r < 0 \/ i = call[p].n THEN Idle
                         ELSE [call[p] EXCEPT !.pc = "wbegin", !.i = i]
  OBVIOUS
<1>2. /\ call[p].pc = "wend" /\ call' = [call EXCEPT ![p] = k] /\ EndOp(p) /\ ftable' = ftable
      /\ inode' = inode /\ disk' = disk /\ lock' = lock /\ moved' = moved
  BY <1>1 DEF WriteEnd, At, Goto, fileVars, dataVars
<1>3. k.pc \in {"idle", "wbegin"}
  BY <1>1, CallAt, IdleIs DEF IsCall
<1>4. call'[p].pc # "copy"
  BY <1>2, <1>3, OneMoves
<1>5. Offsets' /\ Installs /\ BlockNext(p)
  BY <1>2, OffsetsStay, WriteEndBlocks, EndOpInstalls
<1> QED BY <1>2, <1>4, <1>5, TextStay

(***************************************************************************)
(* An inode is made, unlinked or discarded.                                *)
(***************************************************************************)
AreTexts(d) == d.text = [i \in Inum |-> d.text[i]]
TextSet(d, e, i, t) ==
    AreTexts(e) /\ e.text[i] = t /\ \A j \in Inum : j # i => e.text[j] = d.text[j]

LEMMA SetsText ==
    ASSUME NEW d, IsDisk(d), AreTexts(d), NEW i \in Inum, NEW t, NEW e, e = [d EXCEPT !.text[i] = t]
    PROVE  TextSet(d, e, i, t)
<1>1. d = [din |-> d.din, used |-> d.used, data |-> d.data, text |-> d.text]
  BY DEF IsDisk
<1>2. PICK u : u = [d.text EXCEPT ![i] = t]
  OBVIOUS
<1>3. e = [din |-> d.din, used |-> d.used, data |-> d.data, text |-> u]
  BY <1>1, <1>2
<1>4. e.text = u
  BY <1>3
<1>5. u = [j \in Inum |-> u[j]] /\ u[i] = t /\ \A j \in Inum : j # i => u[j] = d.text[j]
  BY <1>2 DEF AreTexts
<1> QED BY <1>4, <1>5 DEF AreTexts, TextSet

LEMMA IupdateText ==
    ASSUME NEW d, IsDisk(d), NEW i \in Inum, NEW n, NEW e, e = Iupdate(i, n, d)
    PROVE  e.text = d.text
<1>1. d = [din |-> d.din, used |-> d.used, data |-> d.data, text |-> d.text]
  BY DEF IsDisk
<1>2. PICK s : s = [d.din EXCEPT ![i] = n]
  OBVIOUS
<1>3. e = [din |-> s, used |-> d.used, data |-> d.data, text |-> d.text]
  BY <1>1, <1>2 DEF Iupdate
<1> QED BY <1>3

LEMMA DiscardText ==
    ASSUME NEW d, IsDisk(d), AreTexts(d), NEW i \in Inum, NEW n, NEW e, e = Discard(i, n, d)
    PROVE  TextSet(d, e, i, <<>>)
<1>1. /\ d = [din |-> d.din, used |-> d.used, data |-> d.data, text |-> d.text]
      /\ AreInodes(d.din) /\ d.used \subseteq Block
  BY DEF IsDisk
<1>2. PICK u : u = d.used \ Blocks(n, d)
  OBVIOUS
<1>3. PICK a : a = Itrunc(n, d)
  OBVIOUS
<1>4. a = [din |-> d.din, used |-> u, data |-> d.data, text |-> d.text]
  BY <1>1, <1>2, <1>3 DEF Itrunc
<1>5. IsDisk(a) /\ a.text = d.text
  <2>1. u \subseteq Block
    BY <1>1, <1>2
  <2> QED BY <1>1, <1>4, <2>1, DiskMake
<1>6. PICK b, m : b = Iupdate(i, m, a) /\ m = FreeInode
  OBVIOUS
<1>7. IsDisk(b) /\ b.text = d.text
  BY <1>5, <1>6, FreeInodeIs, IupdateIs, IupdateText
<1>8. e = [b EXCEPT !.text[i] = <<>>]
  BY <1>3, <1>6 DEF Discard
<1>9. AreTexts(b)
  BY <1>7 DEF AreTexts
<1>10. TextSet(b, e, i, <<>>)
  <2>1. PICK t : t = <<>>
    OBVIOUS
  <2>2. TextSet(b, e, i, t)
    BY <1>7, <1>8, <1>9, <2>1, SetsText
  <2> QED BY <2>1, <2>2
<1> QED BY <1>7, <1>10 DEF TextSet

LEMMA IputTexts ==
    ASSUME FileInv, FileInv', BlockInv, TextInv, NEW p \in Proc, Iput(p) PROVE TextInv'
<1>1. PICK k, i : k = [call[p] EXCEPT !.pc = "cend"] /\ i = call[p].ip
  OBVIOUS
<1>2. /\ call[p].pc = "iput" /\ call' = [call EXCEPT ![p] = k] /\ moved' = moved
      /\ ftable' = ftable /\ installed' = installed /\ lock' = lock /\ lock[i] = 0
      /\ \/ /\ inode' = [inode EXCEPT ![i] = FreeInode]
            /\ disk' = Discard(i, inode[i], disk)
         \/ inode' = inode /\ disk' = disk
  BY <1>1 DEF Iput, At, Now, Goto, fileVars, dataVars
<1>3. i \in Inum
  BY <1>1, <1>2 DEF FileInv, Live, Referring
<1>4. call'[p].pc = "cend"
  BY <1>1, <1>2, CallAt, PcExcept, OneMoves
<1>5. Offsets' /\ Installs /\ BlockNext(p)
  BY <1>2, OffsetsStay, IputBlocks DEF Installs
<1>6. CASE inode' = inode /\ disk' = disk
  BY <1>2, <1>4, <1>5, <1>6, TextStay
<1>7. CASE inode' = [inode EXCEPT ![i] = FreeInode] /\ disk' = Discard(i, inode[i], disk)
  <2>1. IsDisk(disk) /\ AreTexts(disk) /\ inode = [j \in Inum |-> inode[j]]
    BY DEF FileInv, Disks, TextInv, AreTexts, AreInodes
  <2>2. inode'[i] = FreeInode /\ \A j \in Inum : j # i => inode'[j] = inode[j]
    BY <1>3, <1>7, <2>1
  <2>3. disk'.data = disk.data
    BY <1>3, <1>7, <2>1, DiscardGives
  <2>4. TextSet(disk, disk', i, <<>>)
    BY <1>3, <1>7, <2>1, DiscardText
  <2>5. \A j \in Inum : KeepsText(j) \/ (Steady(j) /\ Empties(j))
    <3>1. Empties(i)
      BY <2>2, <2>4, FreeInodeEmpty DEF Empties, TextSet
    <3>2. \A j \in Inum : j # i => KeepsText(j)
      BY <2>2, <2>4 DEF KeepsText, TextSet
    <3>3. Steady(i)
      BY <1>2, <1>3, Unlocked
    <3> QED BY <3>1, <3>2, <3>3
  <2>6. disk'.text = [j \in Inum |-> disk'.text[j]]
    BY <2>4 DEF TextSet, AreTexts
  <2> QED BY <1>2, <1>4, <1>5, <2>3, <2>5, <2>6, TextStep
<1> QED BY <1>2, <1>6, <1>7

LEMMA UnlinkTexts ==
    ASSUME FileInv, FileInv', BlockInv, TextInv, NEW p \in Proc, NEW i \in Inum, Unlink(p, i)
    PROVE  TextInv'
<1>1. PICK n : n = [inode[i] EXCEPT !.nlink = 0]
  OBVIOUS
<1>2. /\ call[p].pc = "idle" /\ call' = call /\ ftable' = ftable /\ lock' = lock /\ lock[i] = 0
      /\ EndOp(p) /\ moved' = moved
      /\ \/ /\ inode' = [inode EXCEPT ![i] = FreeInode]
            /\ disk' = Discard(i, disk.din[i], disk)
         \/ /\ inode' = [inode EXCEPT ![i] = n]
            /\ disk' = Iupdate(i, n, disk)
  BY <1>1 DEF Unlink, Start, fileVars
<1>3. /\ IsDisk(disk) /\ AreTexts(disk) /\ inode = [j \in Inum |-> inode[j]] /\ IsInode(inode[i])
  BY DEF FileInv, Disks, TextInv, AreTexts, AreInodes
<1>4. Offsets' /\ Installs /\ BlockNext(p)
  BY <1>2, OffsetsStay, UnlinkBlocks, EndOpInstalls
<1>5. /\ disk'.data = disk.data /\ AreTexts(disk')
      /\ \A j \in Inum : KeepsText(j) \/ (Steady(j) /\ Empties(j))
  <2>1. CASE inode' = [inode EXCEPT ![i] = FreeInode] /\ disk' = Discard(i, disk.din[i], disk)
    <3>1. inode'[i] = FreeInode /\ \A j \in Inum : j # i => inode'[j] = inode[j]
      BY <1>3, <2>1
    <3>2. disk'.data = disk.data
      BY <1>3, <2>1, DiscardGives
    <3>3. TextSet(disk, disk', i, <<>>)
      BY <1>3, <2>1, DiscardText
    <3>4. Empties(i)
      BY <3>1, <3>3, FreeInodeEmpty DEF Empties, TextSet
    <3>5. \A j \in Inum : j # i => KeepsText(j)
      BY <3>1, <3>3 DEF KeepsText, TextSet
    <3>6. Steady(i)
      BY <1>2, Unlocked
    <3> QED BY <3>2, <3>3, <3>4, <3>5, <3>6 DEF TextSet
  <2>2. CASE inode' = [inode EXCEPT ![i] = n] /\ disk' = Iupdate(i, n, disk)
    <3>1. inode'[i] = n /\ \A j \in Inum : j # i => inode'[j] = inode[j]
      BY <1>3, <2>2
    <3>2. disk'.data = disk.data /\ disk'.text = disk.text
      BY <1>3, <2>2, IupdateGives, IupdateText
    <3>3. n.live = inode[i].live /\ n.size = inode[i].size /\ n.addrs = inode[i].addrs
      BY <1>1, <1>3 DEF IsInode
    <3>4. \A j \in Inum : KeepsText(j)
      BY <3>1, <3>2, <3>3 DEF KeepsText
    <3> QED BY <1>3, <3>2, <3>4 DEF AreTexts
  <2> QED BY <1>2, <2>1, <2>2
<1>6. disk'.text = [j \in Inum |-> disk'.text[j]]
  BY <1>5 DEF AreTexts
<1> QED BY <1>2, <1>4, <1>5, <1>6, TextStep

LEMMA SysOpenTexts ==
    ASSUME FileInv, FileInv', BlockInv, TextInv, NEW p \in Proc, NEW i \in Inum, SysOpen(p, i)
    PROVE  TextInv'
<1>1. PICK create : create = (~disk.din[i].live /\ Refs(i) = 0)
  OBVIOUS
<1>2. PICK n : n = IF Refs(i) > 0 THEN inode[i]
                   ELSE IF create THEN [FreeInode EXCEPT !.live = TRUE, !.nlink = 1]
                   ELSE disk.din[i]
  OBVIOUS
<1>3. /\ inode' = [inode EXCEPT ![i] = n] /\ lock[i] = 0
      /\ disk' = IF create THEN Iupdate(i, n, disk) ELSE disk
  BY <1>1, <1>2 DEF SysOpen
<1>9. Steady(i)
  BY <1>3, Unlocked
<1>10. PICK k : /\ call[p].pc = "idle" /\ call' = [call EXCEPT ![p] = k]
                /\ k.pc \in {"iput", "open"} /\ installed' = installed /\ moved' = moved
                /\ \A f \in FileId : /\ ftable'[f].off = ftable[f].off
                                     /\ ftable'[f].type = ftable[f].type
  BY SysOpenIs
<1>11. call[p].pc # "copy" /\ call'[p].pc # "copy"
  BY <1>10, OneMoves
<1>4. /\ IsDisk(disk) /\ AreTexts(disk) /\ inode = [j \in Inum |-> inode[j]]
      /\ inode[i] = disk.din[i] /\ Refs(i) \in Nat
  BY <1>9, RefsFinite DEF FileInv, Disks, TextInv, AreTexts, AreInodes, BlockInv, Synced
<1>5. Installs /\ BlockNext(p)
  BY <1>10, SysOpenBlocks DEF Installs
<1>6. Offsets'
  BY <1>10, OffsetsStay
<1>7. CASE ~create
  <2>1. n = inode[i]
    BY <1>2, <1>4, <1>7
  <2>2. inode' = inode /\ disk' = disk
    BY <1>3, <1>4, <1>7, <2>1
  <2> QED BY <1>5, <1>6, <1>11, <2>2, TextStay
<1>8. CASE create
  <2>1. n = [FreeInode EXCEPT !.live = TRUE, !.nlink = 1] /\ ~inode[i].live
    <3>0. Refs(i) = 0 /\ ~disk.din[i].live
      BY <1>1, <1>8, Zenon
    <3>1. ~(Refs(i) > 0) /\ ~disk.din[i].live
      BY <3>0
    <3> QED BY <1>2, <1>4, <1>8, <3>1
  <2>2. n.size = 0
    BY <2>1 DEF FreeInode
  <2>3. inode'[i] = n /\ \A j \in Inum : j # i => inode'[j] = inode[j]
    BY <1>3, <1>4
  <2>4. disk'.data = disk.data /\ disk'.text = disk.text
    BY <1>3, <1>4, <1>8, IupdateGives, IupdateText
  <2>5. disk.text[i] = <<>>
    <3>1. inode[i].size = 0 /\ Reads(inode[i], disk.data, disk.text[i], 0, 0)
      BY <1>9, <2>1 DEF TextInv, Unheld
    <3>2. disk.text[i] \in [1..0 -> Nat]
      BY <3>1 DEF Reads
    <3>3. disk.text[i] \in Seq(Nat) /\ Len(disk.text[i]) = 0
      BY <3>2, LenProperties
    <3> QED BY <3>3, EmptySeq
  <2>6. \A j \in Inum : KeepsText(j) \/ (Steady(j) /\ Empties(j))
    BY <1>9, <2>2, <2>3, <2>4, <2>5 DEF KeepsText, Empties
  <2>7. disk'.text = [j \in Inum |-> disk'.text[j]]
    BY <1>4, <2>4 DEF AreTexts
  <2> QED BY <1>5, <1>6, <1>11, <2>4, <2>6, <2>7, TextStep
<1> QED BY <1>7, <1>8

(***************************************************************************)
(* writei(): the bytes of block bn of inode i, in block a of the disk, w    *)
(* before the turn, are overwritten, and no other byte of any file.        *)
(***************************************************************************)
Written(i, bn, a, w, at, p, from, m) ==
    /\ a \in Block /\ w \in [0..(BSIZE - 1) -> Nat] /\ bn \in 0..(MAXFILE - 1)
    /\ disk'.text = disk.text /\ disk'.data[a] = Copied(w, at, p, from, m)
    /\ Addr(inode'[i], disk'.data, PathOf(bn)) = a
    /\ \A j \in Inum : \A l \in Paths : l # NDIRECT /\ Addr(inode[j], disk.data, l) # 0 =>
         /\ Addr(inode'[j], disk'.data, l) = Addr(inode[j], disk.data, l)
         /\ Addr(inode[j], disk.data, l) = a => j = i /\ l = PathOf(bn) /\ disk.data[a] = w
         /\ Addr(inode[j], disk.data, l) # a =>
              disk'.data[Addr(inode[j], disk.data, l)] = disk.data[Addr(inode[j], disk.data, l)]

LEMMA TurnWrites ==
    ASSUME FileInv, BlockInv, NEW i \in Inum, NEW o \in Nat, o < Top, NEW x,
           NEW at \in Nat, NEW p \in Proc, NEW from \in Nat, NEW m,
           Turn(i, o, x, at, p, from, m)
    PROVE  Written(i, o \div BSIZE, x.addr, x.d.data[x.addr], at, p, from, m)
<1>1. PICK bn, v, a, t, w, e : /\ bn = o \div BSIZE /\ v = With(inode, i, x.ino) /\ a = x.addr
                               /\ t = x.d.data /\ w = t[a]
                               /\ e = [t EXCEPT ![a] = Copied(w, at, p, from, m)]
  OBVIOUS
<1>2. x = Bmap(Lookup(inode[i], disk), o \div BSIZE) /\ ~x.full
  BY DEF Turn
<1>3. /\ IsLookup(x, inode[i]) /\ MapOK(v, x.d.used, t)
      /\ Extended(inode, disk.data, v, t) /\ a # 0 /\ a = Addr(x.ino, t, PathOf(bn))
  BY <1>1, <1>2, LookupMaps
<1>4. bn \in 0..(MAXFILE - 1)
  BY <1>1, BlockOf
<1>5. inode = [j \in Inum |-> inode[j]] /\ IsInode(inode[i]) /\ IsDisk(disk)
  BY DEF FileInv, Disks, AreInodes
<1>6. inode' = v
  BY <1>1, <1>5 DEF With, Turn
<1>7. v[i] = x.ino /\ \A j \in Inum : j # i => v[j] = inode[j]
  BY <1>1, WithIs
<1>8. PathOf(bn) \in Paths /\ PathOf(bn) # NDIRECT
  BY <1>4, PathIs
<1>9. t \in Contents /\ a \in Block
  BY <1>3, <1>7, <1>8 DEF MapOK
<1>10. w \in [0..(BSIZE - 1) -> Nat]
  BY <1>1, <1>9 DEF Contents
<1>11. /\ e \in Contents /\ e[a] = Copied(w, at, p, from, m)
       /\ \A b \in Block : b # a => e[b] = t[b]
  <2>1. Copied(w, at, p, from, m) \in [0..(BSIZE - 1) -> Nat]
    BY <1>10, CopiedIs
  <2> QED BY <1>1, <1>9, <2>1 DEF Contents
<1>12. disk'.data = e /\ disk'.text = x.d.text
  <2>1. x.d = [din |-> x.d.din, used |-> x.d.used, data |-> x.d.data, text |-> x.d.text]
    BY <1>3 DEF IsLookup, IsDisk
  <2>2. disk' = [din |-> x.d.din, used |-> x.d.used, data |-> e, text |-> x.d.text]
    BY <1>1, <2>1 DEF Turn
  <2> QED BY <2>2
<1>13. \A j \in Inum : \A h \in Paths : Addr(v[j], e, h) = Addr(v[j], t, h)
  BY <1>3, <1>7, <1>8, <1>11, PathsWritten
<1>14. x.d.text = disk.text /\ Intact(inode, disk.data, t)
  <2>1. PICK l, n : l = Lookup(inode[i], disk) /\ n = inode[i]
    OBVIOUS
  <2>2. l.ino = inode[i] /\ l.d = disk
    BY <2>1 DEF Lookup
  <2>3. IsLookup(l, n)
    BY <1>5, <2>1, LookupMake DEF Lookup
  <2>4. With(inode, i, l.ino) = inode
    BY <1>5, <2>2 DEF With
  <2>5. Mapped(inode, i, l)
    BY <2>2, <2>4 DEF Mapped, BlockInv, Sound
  <2>6. x = Bmap(l, bn)
    BY <1>1, <1>2, <2>1
  <2>7. PICK s : s = inode
    OBVIOUS
  <2>8. Mapped(s, i, l)
    BY <2>5, <2>7
  <2>9. x.d.text = l.d.text /\ Intact(With(s, i, l.ino), l.d.data, x.d.data)
    BY <1>2, <1>4, <2>3, <2>6, <2>8, BmapIntact
  <2> QED BY <1>1, <2>2, <2>4, <2>7, <2>9
<1>15. ASSUME NEW j \in Inum, NEW l \in Paths, l # NDIRECT, NEW b, b = Addr(inode[j], disk.data, l),
              b # 0
       PROVE  /\ Addr(v[j], e, l) = b
              /\ b = a => j = i /\ l = PathOf(bn) /\ disk.data[a] = w
              /\ b # a => e[b] = disk.data[b]
  <2>1. Addr(v[j], t, l) = b
    BY <1>3, <1>15 DEF Extended
  <2>2. Addr(v[j], e, l) = b
    BY <1>13, <2>1
  <2>3. t[b] = disk.data[b]
    BY <1>14, <1>15 DEF Intact
  <2>4. b \in Block
    BY <1>3, <1>15, <2>1 DEF MapOK
  <2>5. OnePath(v, t)
    BY <1>3 DEF MapOK
  <2>6. b = a => j = i /\ l = PathOf(bn)
    BY <1>3, <1>7, <1>8, <2>1, <2>5 DEF OnePath
  <2> QED BY <1>1, <1>11, <2>2, <2>3, <2>4, <2>6
<1>16. Addr(v[i], e, PathOf(bn)) = a
  BY <1>3, <1>7, <1>8, <1>13
<1>17. Written(i, bn, a, w, at, p, from, m)
  BY <1>4, <1>6, <1>9, <1>10, <1>11, <1>12, <1>14, <1>15, <1>16 DEF Written
<1> QED BY <1>1, <1>17

LEMMA PathOfOne ==
    ASSUME NEW a \in 0..(MAXFILE - 1), NEW b \in 0..(MAXFILE - 1), PathOf(a) = PathOf(b)
    PROVE  a = b
BY PathFacts DEF PathOf

(* m bytes at byte "at" of block bn, byte off of the file.                  *)
Placed(bn, at, from, m, off) ==
    /\ at \in Nat /\ from \in Nat /\ m \in Nat /\ off \in Nat
    /\ m <= BSIZE - at /\ off = bn * BSIZE + at

(* The bytes off to off + m - 1 are those sent.                             *)
LEMMA WrittenBytes ==
    ASSUME NEW i, NEW bn, NEW a, NEW w, NEW at, NEW p, NEW from, NEW m,
           Written(i, bn, a, w, at, p, from, m), NEW off, Placed(bn, at, from, m, off),
           NEW y \in Nat, off <= y, y < off + m
    PROVE  ByteAt(inode'[i], disk'.data, y) = Byte(p, from + y - off)
<1> SUFFICES ASSUME at \in Nat, from \in Nat, m \in Nat, off \in Nat, m <= BSIZE - at,
                    off = bn * BSIZE + at
             PROVE  ByteAt(inode'[i], disk'.data, y) = Byte(p, from + y - off)
  BY DEF Placed
<1>1. BSIZE \in Nat /\ BSIZE >= 1
  BY PathFacts
<1>2. /\ bn \in Nat /\ w \in [0..(BSIZE - 1) -> Nat] /\ disk'.data[a] = Copied(w, at, p, from, m)
      /\ Addr(inode'[i], disk'.data, PathOf(bn)) = a
  BY DEF Written
<1>3. PICK r, g : r = at + y - off /\ g = bn * BSIZE
  OBVIOUS
<1>4. g \in Nat
  BY <1>1, <1>2, <1>3
<1>5. r \in Nat /\ r < BSIZE /\ y = g + r /\ r \in at..(at + m - 1) /\ from + r - at = from + y - off
  BY <1>1, <1>3, <1>4
<1>6. y \div BSIZE = bn /\ y % BSIZE = r
  <2>1. y = bn * BSIZE + r
    BY <1>3, <1>5
  <2> QED BY <1>2, <1>5, <2>1, DivIs
<1>7. ByteAt(inode'[i], disk'.data, y) = Copied(w, at, p, from, m)[r]
  BY <1>2, <1>6 DEF ByteAt
<1>8. r \in DOMAIN w
  BY <1>1, <1>2, <1>5
<1>9. Copied(w, at, p, from, m)[r] = Byte(p, from + r - at)
  BY <1>5, <1>8 DEF Copied
<1> QED BY <1>5, <1>7, <1>9

(* Every other byte that is there stays.                                    *)
LEMMA OtherBytes ==
    ASSUME NEW i, NEW bn, NEW a, NEW w, NEW at, NEW p, NEW from, NEW m,
           Written(i, bn, a, w, at, p, from, m), NEW off, Placed(bn, at, from, m, off),
           NEW j \in Inum,
           NEW y \in Nat, y < Top, Addr(inode[j], disk.data, PathOf(y \div BSIZE)) # 0,
           j # i \/ y < off \/ off + m <= y
    PROVE  ByteAt(inode'[j], disk'.data, y) = ByteAt(inode[j], disk.data, y)
<1>0. at \in Nat /\ m \in Nat /\ off \in Nat /\ off = bn * BSIZE + at
  BY DEF Placed
<1>1. BSIZE \in Nat /\ BSIZE >= 1
  BY PathFacts
<1>2. PICK q, r, l, b : /\ q = y \div BSIZE /\ r = y % BSIZE /\ l = PathOf(q)
                        /\ b = Addr(inode[j], disk.data, l)
  OBVIOUS
<1>3. q \in 0..(MAXFILE - 1) /\ r \in 0..(BSIZE - 1) /\ y = q * BSIZE + r
  BY <1>2, BlockOf
<1>4. l \in Paths /\ l # NDIRECT
  BY <1>2, <1>3, PathIs
<1>5. /\ Addr(inode'[j], disk'.data, l) = b
      /\ b = a => j = i /\ l = PathOf(bn) /\ disk.data[a] = w
      /\ b # a => disk'.data[b] = disk.data[b]
  BY <1>2, <1>4 DEF Written
<1>6. /\ ByteAt(inode'[j], disk'.data, y) = disk'.data[b][r]
      /\ ByteAt(inode[j], disk.data, y) = disk.data[b][r]
  BY <1>2, <1>5 DEF ByteAt
<1>7. CASE b # a
  BY <1>5, <1>6, <1>7
<1>8. CASE b = a
  <2>1. /\ bn \in 0..(MAXFILE - 1) /\ w \in [0..(BSIZE - 1) -> Nat]
        /\ disk'.data[a] = Copied(w, at, p, from, m)
    BY DEF Written
  <2>2. q = bn
    BY <1>2, <1>3, <1>5, <1>8, <2>1, PathOfOne
  <2>3. PICK g : g = bn * BSIZE
    OBVIOUS
  <2>4. g \in Nat /\ y = g + r /\ off = g + at
    <3>1. bn \in Nat
      BY <2>1
    <3> QED BY <1>0, <1>1, <1>3, <2>2, <2>3, <3>1
  <2>5. r \notin at..(at + m - 1)
    BY <1>0, <1>3, <1>5, <1>8, <2>4
  <2>6. r \in DOMAIN w
    BY <1>3, <2>1
  <2>7. Copied(w, at, p, from, m)[r] = w[r]
    BY <2>5, <2>6 DEF Copied
  <2> QED BY <1>5, <1>6, <1>8, <2>1, <2>7
<1> QED BY <1>7, <1>8

(* What a turn leaves of the bytes that are there, and what it puts.        *)
Leaves(i, off, m) ==
    \A j \in Inum : \A y \in Nat :
       /\ y < Top /\ Addr(inode[j], disk.data, PathOf(y \div BSIZE)) # 0
       /\ j # i \/ y < off \/ off + m <= y
       => ByteAt(inode'[j], disk'.data, y) = ByteAt(inode[j], disk.data, y)
Puts(i, off, m, p, from) ==
    \A y \in Nat : off <= y /\ y < off + m =>
       ByteAt(inode'[i], disk'.data, y) = Byte(p, from + y - off)

LEMMA TurnBytes ==
    ASSUME FileInv, BlockInv, NEW i \in Inum, NEW o \in Nat, o < Top, NEW x,
           NEW at \in Nat, NEW p \in Proc, NEW from \in Nat, NEW m \in Nat,
           Turn(i, o, x, at, p, from, m), m <= BSIZE - at,
           o = (o \div BSIZE) * BSIZE + at
    PROVE  disk'.text = disk.text /\ Leaves(i, o, m) /\ Puts(i, o, m, p, from)
<1>1. PICK bn, a, w : bn = o \div BSIZE /\ a = x.addr /\ w = x.d.data[x.addr]
  OBVIOUS
<1>2. Written(i, bn, a, w, at, p, from, m)
  BY <1>1, TurnWrites
<1>3. Placed(bn, at, from, m, o)
  BY <1>1 DEF Placed
<1>4. ASSUME NEW y \in Nat, o <= y, y < o + m
      PROVE  ByteAt(inode'[i], disk'.data, y) = Byte(p, from + y - o)
  BY <1>2, <1>3, <1>4, WrittenBytes
<1>5. ASSUME NEW j \in Inum, NEW y \in Nat, y < Top,
             Addr(inode[j], disk.data, PathOf(y \div BSIZE)) # 0, j # i \/ y < o \/ o + m <= y
      PROVE  ByteAt(inode'[j], disk'.data, y) = ByteAt(inode[j], disk.data, y)
  BY <1>2, <1>3, <1>5, OtherBytes
<1>6. disk'.text = disk.text
  BY <1>2 DEF Written
<1> QED BY <1>4, <1>5, <1>6 DEF Leaves, Puts

LEMMA StaysBelow ==
    ASSUME NEW i, NEW off, NEW m, Leaves(i, off, m), NEW j \in Inum, NEW end \in Nat, end <= Top,
           Reaches(inode[j], disk.data, end), NEW y \in Nat, y < end,
           j # i \/ y < off \/ off + m <= y
    PROVE  ByteAt(inode'[j], disk'.data, y) = ByteAt(inode[j], disk.data, y)
<1>1. y < Top
  BY TopNat
<1>2. Addr(inode[j], disk.data, PathOf(y \div BSIZE)) # 0
  BY <1>1, ByteReached
<1> QED BY <1>1, <1>2 DEF Leaves

(* The file another process writes, or nobody.                              *)
LEMMA OtherReads ==
    ASSUME FileInv, BlockInv, NEW i, NEW off, NEW m, Leaves(i, off, m), NEW j \in Inum, j # i,
           inode'[j] = inode[j], NEW s, NEW lo, NEW hi, Reads(inode[j], disk.data, s, lo, hi)
    PROVE  Reads(inode'[j], disk'.data, s, lo, hi)
<1>1. IsInode(inode[j])
  BY DEF FileInv, Disks, AreInodes
<1>2. inode[j].size \in Nat /\ inode[j].size <= Top
  BY <1>1, TopNat DEF IsInode
<1>3. Reaches(inode[j], disk.data, inode[j].size)
  BY DEF BlockInv, Sound
<1>4. PICK end : end = inode[j].size
  OBVIOUS
<1>5. ASSUME NEW y \in 0..(end - 1)
      PROVE  ByteAt(inode'[j], disk'.data, y) = ByteAt(inode[j], disk.data, y)
  <2>1. y \in Nat /\ y < end /\ end \in Nat /\ end <= Top /\ Reaches(inode[j], disk.data, end)
    BY <1>2, <1>3, <1>4
  <2> QED BY <2>1, StaysBelow
<1> QED BY <1>4, <1>5 DEF Reads

(* The file the turn writes: tot bytes were sent, and m more are.           *)
LEMMA TurnHeld ==
    ASSUME FileInv, BlockInv, NEW i \in Inum, NEW o \in Nat, NEW tot \in Nat, NEW m \in Nat,
           NEW off \in Nat, off = o + tot, off <= Top,
           Leaves(i, off, m), NEW p, NEW from \in Nat, NEW sent \in Nat, sent = from + tot,
           Puts(i, off, m, p, sent),
           inode'[i].size = inode[i].size, Reaches(inode[i], disk.data, off), NEW s,
           Reads(inode[i], disk.data, s, o, off), Sent(inode[i], disk.data, p, o, from, tot)
    PROVE  /\ Reads(inode'[i], disk'.data, s, o, off + m)
           /\ Sent(inode'[i], disk'.data, p, o, from, tot + m)
<1>1. IsInode(inode[i])
  BY DEF FileInv, Disks, AreInodes
<1>2. inode[i].size \in Nat /\ inode[i].size <= Top
  BY <1>1, TopNat DEF IsInode
<1>3. Reaches(inode[i], disk.data, inode[i].size)
  BY DEF BlockInv, Sound
<1>4. PICK end : end = inode[i].size
  OBVIOUS
<1>5. ASSUME NEW y \in 0..(end - 1), y < o \/ off + m <= y PROVE s[y + 1] = ByteAt(inode'[i], disk'.data, y)
  <2>1. /\ y \in Nat /\ y < end /\ end \in Nat /\ end <= Top /\ Reaches(inode[i], disk.data, end)
        /\ y < off \/ off + m <= y
    BY <1>2, <1>3, <1>4, <1>5
  <2>2. ByteAt(inode'[i], disk'.data, y) = ByteAt(inode[i], disk.data, y)
    BY <2>1, StaysBelow
  <2>3. y < o \/ off <= y
    BY <1>5
  <2>4. s[y + 1] = ByteAt(inode[i], disk.data, y)
    BY <1>4, <2>3 DEF Reads
  <2> QED BY <2>2, <2>4
<1>6. Reads(inode'[i], disk'.data, s, o, off + m)
  BY <1>4, <1>5 DEF Reads
<1>7. ASSUME NEW y \in Nat, o <= y, y < o + (tot + m)
      PROVE  ByteAt(inode'[i], disk'.data, y) = Byte(p, from + y - o)
  <2>1. CASE y < off
    <3>1. ByteAt(inode'[i], disk'.data, y) = ByteAt(inode[i], disk.data, y)
      BY <2>1, StaysBelow
    <3>2. y < o + tot
      BY <2>1
    <3>3. ByteAt(inode[i], disk.data, y) = Byte(p, from + y - o)
      BY <1>7, <3>2 DEF Sent
    <3> QED BY <3>1, <3>3
  <2>2. CASE ~(y < off)
    <3>1. off <= y /\ y < off + m /\ sent + y - off = from + y - o
      BY <1>7, <2>2
    <3>2. ByteAt(inode'[i], disk'.data, y) = Byte(p, sent + y - off)
      BY <3>1 DEF Puts
    <3> QED BY <3>1, <3>2
  <2> QED BY <2>1, <2>2
<1>8. Sent(inode'[i], disk'.data, p, o, from, tot + m)
  BY <1>7 DEF Sent
<1> QED BY <1>6, <1>8

(* What the file holds when the last byte is sent.                          *)
AllSent(n, e, t, s, o, m, p, from, z) ==
    /\ e.addrs = n.addrs /\ n.size \in Nat /\ o \in Nat /\ o <= n.size /\ m \in Nat
    /\ e.size = (IF o + m > n.size THEN o + m ELSE n.size) /\ p \in Proc /\ from \in Nat
    /\ Reads(n, t, s, o, o + m) /\ Sent(n, t, p, o, from, m)
    /\ z = Overwrite(s, o, [k \in 1..m |-> Byte(p, from + k - 1)])

LEMMA SentReads ==
    ASSUME NEW n, NEW e, NEW t, NEW s, NEW o, NEW m, NEW p, NEW from, NEW z,
           AllSent(n, e, t, s, o, m, p, from, z)
    PROVE  Reads(e, t, z, 0, 0)
<1>0. PICK w : w = [k \in 1..m |-> Byte(p, from + k - 1)]
  OBVIOUS
<1> SUFFICES ASSUME e.addrs = n.addrs, n.size \in Nat, o \in Nat, o <= n.size, m \in Nat,
                    e.size = (IF o + m > n.size THEN o + m ELSE n.size),
                    p \in Proc, from \in Nat,
                    Reads(n, t, s, o, o + m), Sent(n, t, p, o, from, m), z = Overwrite(s, o, w)
             PROVE  Reads(e, t, z, 0, 0)
  BY <1>0 DEF AllSent
<1>1. PICK u, v : u = n.size /\ v = e.size
  OBVIOUS
<1>2. u \in Nat /\ o \in 0..u /\ v = (IF o + m > u THEN o + m ELSE u)
  BY <1>1
<1>3. s \in [1..u -> Nat]
  BY <1>1 DEF Reads
<1>4. p \in Nat
  BY FileFacts DEF Proc
<1>5. w \in [1..m -> Nat]
  <2>1. ASSUME NEW k \in 1..m PROVE Byte(p, from + k - 1) \in Nat
    <3>1. PICK h \in Nat : h = from + k - 1
      OBVIOUS
    <3> QED BY <1>4, <3>1 DEF Byte
  <2> QED BY <1>0, <2>1
<1>6. /\ z \in [1..v -> Nat]
      /\ \A j \in 1..v : z[j] = IF o < j /\ j <= o + m THEN w[j - o] ELSE s[j]
  <2>1. Overlaid(u, s, o, m, w, v)
    BY <1>2, <1>3, <1>5 DEF Overlaid
  <2>2. Overlay(s, o, m, w, v, z)
    BY <2>1, OverwriteIs
  <2> QED BY <2>2 DEF Overlay
<1>7. ASSUME NEW x \in 0..(v - 1) PROVE z[x + 1] = ByteAt(e, t, x)
  <2>1. ByteAt(e, t, x) = ByteAt(n, t, x)
    BY DEF ByteAt, Addr
  <2>2. PICK j : j = x + 1
    OBVIOUS
  <2>3. j \in 1..v /\ x \in Nat
    BY <1>2, <2>2
  <2>4. z[j] = IF o < j /\ j <= o + m THEN w[j - o] ELSE s[j]
    BY <1>6, <2>3
  <2>5. CASE o <= x /\ x < o + m
    <3>1. PICK k : k = j - o
      OBVIOUS
    <3>2. o < j /\ j <= o + m /\ k \in 1..m /\ from + k - 1 = from + x - o
      BY <2>2, <2>3, <2>5, <3>1
    <3>3. w[k] = Byte(p, from + x - o)
      BY <1>0, <3>2
    <3>4. ByteAt(n, t, x) = Byte(p, from + x - o)
      BY <2>3, <2>5 DEF Sent
    <3> QED BY <2>1, <2>2, <2>4, <3>1, <3>2, <3>3, <3>4
  <2>6. CASE ~(o <= x /\ x < o + m)
    <3>1. (x < o \/ o + m <= x) /\ ~(o < j /\ j <= o + m)
      BY <2>2, <2>3, <2>6
    <3>2. x \in 0..(u - 1)
      BY <1>2, <2>3, <3>1
    <3>3. s[x + 1] = ByteAt(n, t, x)
      BY <1>1, <3>1, <3>2 DEF Reads
    <3> QED BY <2>1, <2>2, <2>4, <3>1, <3>3
  <2> QED BY <2>5, <2>6
<1> QED BY <1>1, <1>6, <1>7 DEF Reads

LEMMA HeldFirst ==
    ASSUME NEW c, c.tot = 0, NEW o \in Nat, NEW p, NEW n, n.size \in Nat, NEW t, NEW s,
           Reads(n, t, s, 0, 0)
    PROVE  Held(c, o, p, n, t, s)
<1>1. o + c.tot = o
  OBVIOUS
<1>2. Reads(n, t, s, o, o + c.tot)
  BY <1>1 DEF Reads
<1>3. Sent(n, t, p, o, c.i, c.tot)
  BY <1>1 DEF Sent
<1> QED BY <1>2, <1>3 DEF Held

LEMMA WriteLockTexts ==
    ASSUME FileInv, FileInv', BlockInv, TextInv, NEW p \in Proc, WriteLock(p) PROVE TextInv'
<1>1. PICK c, i : c = call[p] /\ i = c.ip
  OBVIOUS
<1>2. /\ c.pc = "ilock" /\ lock[i] = 0 /\ ftable' = ftable /\ inode' = inode /\ disk' = disk
      /\ installed' = installed /\ inop' = inop /\ moved' = moved
  BY <1>1 DEF WriteLock, At, Locked, fileVars, dataVars, logVars
<1>3. IsCall(c) /\ c.f \in FileId /\ ftable[c.f].ip = i /\ ftable[c.f].type = "inode"
  BY <1>1, <1>2, CallAt DEF CallOK, Writing
<1>4. i \in Inum /\ ftable[c.f].off \in Nat
  <2>1. IsFile(ftable[c.f])
    BY <1>3, FileAt
  <2> QED BY <1>3, <2>1, TopNat DEF IsFile
<1>5. Offsets' /\ Installs /\ BlockNext(p)
  BY <1>2, OffsetsStay, WriteLockBlocks DEF Installs
<1>6. CASE ~WriteFits(inode[i], ftable[c.f].off, c.n1)
  <2>1. PICK k : k = [c EXCEPT !.pc = "wend", !.r = -1]
    OBVIOUS
  <2>2. call' = [call EXCEPT ![p] = k] /\ lock' = lock
    BY <1>1, <1>6, <2>1 DEF WriteLock, Goto
  <2>3. k.pc = "wend"
    BY <1>3, <2>1 DEF IsCall
  <2>4. call'[p].pc # "copy"
    BY <2>2, <2>3, OneMoves
  <2> QED BY <1>1, <1>2, <1>5, <2>2, <2>4, TextStay
<1>7. CASE WriteFits(inode[i], ftable[c.f].off, c.n1)
  <2>1. PICK k : k = [c EXCEPT !.pc = "copy"]
    OBVIOUS
  <2>2. call' = [call EXCEPT ![p] = k] /\ lock' = [lock EXCEPT ![i] = p]
    BY <1>1, <1>7, <2>1 DEF WriteLock, Now, Goto
  <2>3. k.pc = "copy" /\ k.f = c.f /\ k.ip = i /\ k.tot = c.tot
    BY <1>1, <1>3, <2>1, PcExcept
  <2>4. call'[p] = k /\ \A q \in Proc : q # p => call'[q] = call[q]
    BY <2>2, OneMoves
  <2>5. lock'[i] = p /\ p # 0 /\ \A j \in Inum : j # i => lock'[j] = lock[j]
    BY <1>4, <2>2, CallAt, FileSets
  <2>6. Unheld'
    <3>1. \A j \in Inum : Steady(j)' => Steady(j)
      BY <1>1, <1>2, <2>4 DEF Steady
    <3> QED BY <1>2, <3>1 DEF TextInv, Unheld
  <2>7. Sending'
    <3> SUFFICES ASSUME NEW q \in Proc, call'[q].pc = "copy"
                 PROVE  Held(call'[q], ftable'[call'[q].f].off, q, inode'[call'[q].ip],
                             disk'.data, disk'.text[call'[q].ip])
      BY DEF Sending
    <3>1. CASE q # p
      <4>1. call'[q] = call[q]
        BY <2>4, <3>1
      <4> QED BY <1>2, <4>1 DEF TextInv, Sending
    <3>2. CASE q = p
      <4>1. Reads(inode[i], disk.data, disk.text[i], 0, 0)
        BY <1>2, <1>4, Unlocked DEF TextInv, Unheld
      <4>2. k.tot = 0
        BY <1>1, <1>2, <2>3 DEF BlockInv, Holders
      <4>3. Held(k, ftable[c.f].off, p, inode[i], disk.data, disk.text[i])
        BY <1>4, <4>1, <4>2, SizeNat, HeldFirst
      <4> QED BY <1>2, <2>3, <2>4, <3>2, <4>3
    <3> QED BY <3>1, <3>2
  <2> QED BY <1>2, <1>5, <2>6, <2>7 DEF TextInv
<1> QED BY <1>6, <1>7

LEMMA WriteBlockTexts ==
    ASSUME FileInv, FileInv', BlockInv, TextInv, NEW p \in Proc, WriteBlock(p) PROVE TextInv'
<1>1. PICK c, i, o, off : c = call[p] /\ i = c.ip /\ o = ftable[c.f].off /\ off = o + c.tot
  OBVIOUS
<1>2. PICK at, m, x : /\ at = off % BSIZE /\ m = Min({c.n1 - c.tot, BSIZE - at})
                      /\ x = Bmap(Lookup(inode[i], disk), off \div BSIZE)
  OBVIOUS
<1>3. PICK k, from : k = [c EXCEPT !.tot = @ + m] /\ from = c.i + c.tot
  OBVIOUS
<1>4. /\ c.pc = "copy" /\ c.tot < c.n1
      /\ \/ Restart
         \/ /\ ~x.full /\ inode' = [inode EXCEPT ![i] = x.ino]
            /\ disk' = [x.d EXCEPT !.data[x.addr] = Copied(@, at, p, from, m)]
            /\ call' = [call EXCEPT ![p] = k] /\ moved' = moved
            /\ ftable' = ftable /\ installed' = installed /\ inop' = inop /\ lock' = lock
  BY <1>1, <1>2, <1>3 DEF WriteBlock, At, Goto, fileVars
<1>5. i \in Inum /\ lock[i] = p /\ p # 0 /\ o \in Nat /\ o + c.n1 <= Top /\ c.n1 \in Nat
  BY <1>1, <1>4, CopyFile
<1>6. Turning(c, i, o, off, at, m)
  BY <1>1, <1>2, <1>4, TurnFacts
<1>7. CopyOK(c, o, inode[i], disk.data, disk.din[i])
  BY <1>6 DEF Turning
<1>8. c.tot \in Nat /\ off \in Nat /\ off < Top
  BY <1>6 DEF Turning
<1>9. at \in Nat /\ off = (off \div BSIZE) * BSIZE + at /\ m \in Nat /\ m <= BSIZE - at
  BY <1>6 DEF Turning
<1>10. c.i \in Nat /\ from \in Nat
  <2>1. c.n \in Nat /\ c.i \in 0..c.n
    BY <1>1, <1>4, CallAt DEF CallOK, Writing
  <2> QED BY <1>3, <1>8, <2>1
<1>11. CASE /\ ~x.full /\ inode' = [inode EXCEPT ![i] = x.ino]
            /\ disk' = [x.d EXCEPT !.data[x.addr] = Copied(@, at, p, from, m)]
            /\ call' = [call EXCEPT ![p] = k] /\ moved' = moved
            /\ ftable' = ftable /\ installed' = installed /\ inop' = inop /\ lock' = lock
  <2>1. Turn(i, off, x, at, p, from, m)
    BY <1>2, <1>11 DEF Turn
  <2>2. disk'.text = disk.text /\ Leaves(i, off, m) /\ Puts(i, off, m, p, from)
    BY <1>5, <1>8, <1>9, <1>10, <2>1, TurnBytes
  <2>3. /\ inode'[i].size = inode[i].size /\ inode'[i].live = inode[i].live
        /\ \A j \in Inum : j # i => inode'[j] = inode[j]
    <3>1. Turned(i, off, x)
      BY <1>5, <1>8, <1>9, <1>10, <2>1, WriteMaps
    <3> QED BY <3>1 DEF Turned
  <2>4. k.pc = "copy" /\ k.f = c.f /\ k.ip = i /\ k.i = c.i /\ k.tot = c.tot + m
    BY <1>1, <1>3, <1>4, CallAt DEF IsCall
  <2>5. call'[p] = k /\ \A q \in Proc : q # p => call'[q] = call[q]
    BY <1>11, OneMoves
  <2>6. Unheld'
    <3>1. ASSUME NEW j \in Inum, ~inode'[j].live PROVE inode'[j].size = 0
      BY <2>3, <3>1 DEF TextInv, Unheld
    <3>2. ASSUME NEW j \in Inum, Steady(j)'
          PROVE  Reads(inode'[j], disk'.data, disk'.text[j], 0, 0)
      <4>1. j # i /\ Steady(j)
        <5>1. call'[p].pc = "copy" /\ call'[p].ip = i
          BY <2>4, <2>5
        <5>2. j # i
          BY <3>2, <5>1 DEF Steady
        <5>3. \A q \in Proc : call[q].pc = "copy" => call[q].ip # j
          BY <1>1, <2>5, <3>2, <5>2 DEF Steady
        <5> QED BY <5>2, <5>3 DEF Steady
      <4>2. PICK s, z : s = disk.text[j] /\ z = 0
        OBVIOUS
      <4>3. inode'[j] = inode[j] /\ Reads(inode[j], disk.data, s, z, z)
        BY <2>3, <4>1, <4>2 DEF TextInv, Unheld
      <4>4. Reads(inode'[j], disk'.data, s, z, z)
        BY <2>2, <4>1, <4>3, OtherReads
      <4> QED BY <2>2, <4>2, <4>4
    <3> QED BY <3>1, <3>2 DEF Unheld
  <2>7. Held(k, o, p, inode'[i], disk'.data, disk'.text[i])
    <3>1. PICK tot, s, b : tot = c.tot /\ s = disk.text[i] /\ b = c.i
      OBVIOUS
    <3>2. Held(c, o, p, inode[i], disk.data, s)
      BY <1>1, <1>4, <3>1 DEF TextInv, Sending
    <3>3. Reads(inode[i], disk.data, s, o, off) /\ Sent(inode[i], disk.data, p, o, b, tot)
      BY <1>1, <3>1, <3>2 DEF Held
    <3>4. Reaches(inode[i], disk.data, off)
      BY <1>1, <1>7 DEF CopyOK
    <3>5. /\ tot \in Nat /\ b \in Nat /\ off = o + tot /\ off <= Top /\ from = b + tot
      BY <1>1, <1>3, <1>8, <1>10, <3>1, TopNat
    <3>6. /\ Reads(inode'[i], disk'.data, s, o, off + m)
          /\ Sent(inode'[i], disk'.data, p, o, b, tot + m)
      BY <1>5, <1>8, <1>9, <1>10, <2>2, <2>3, <3>3, <3>4, <3>5, TurnHeld
    <3>7. o + k.tot = off + m
      BY <1>5, <1>8, <1>9, <2>4, <3>1, <3>5
    <3>8. k.i = b /\ k.tot = tot + m /\ disk'.text[i] = s
      BY <2>2, <2>4, <3>1
    <3> QED BY <3>6, <3>7, <3>8 DEF Held
  <2>8. Sending'
    <3> SUFFICES ASSUME NEW q \in Proc, call'[q].pc = "copy"
                 PROVE  Held(call'[q], ftable'[call'[q].f].off, q, inode'[call'[q].ip],
                             disk'.data, disk'.text[call'[q].ip])
      BY DEF Sending
    <3>1. CASE q = p
      BY <1>1, <1>11, <2>4, <2>5, <2>7, <3>1
    <3>2. CASE q # p
      <4>1. call'[q] = call[q] /\ call[q].pc = "copy"
        BY <2>5, <3>2
      <4>2. PICK e, j, a, tot, s, b, hi :
                /\ e = call[q] /\ j = e.ip /\ a = ftable[e.f].off /\ tot = e.tot
                /\ s = disk.text[j] /\ b = e.i /\ hi = a + tot
        OBVIOUS
      <4>3. j \in Inum /\ j # i /\ a \in Nat /\ a + e.n1 <= Top /\ e.n1 \in Nat
        BY <1>1, <1>4, <3>2, <4>1, <4>2, CopyApart, CopyFile
      <4>4. inode'[j] = inode[j]
        BY <2>3, <4>3
      <4>5. tot \in 0..e.n1 /\ Reaches(inode[j], disk.data, a + tot)
        BY <4>1, <4>2 DEF BlockInv, Copying, CopyOK
      <4>6. tot \in Nat /\ a + tot <= Top
        BY <4>3, <4>5, TopNat
      <4>7. Held(e, a, q, inode[j], disk.data, s)
        BY <4>1, <4>2 DEF TextInv, Sending
      <4>8. Reads(inode[j], disk.data, s, a, hi) /\ Sent(inode[j], disk.data, q, a, b, tot)
        BY <4>2, <4>7 DEF Held
      <4>9. Reads(inode'[j], disk'.data, s, a, hi)
        BY <2>2, <4>3, <4>4, <4>8, OtherReads
      <4>10. Sent(inode'[j], disk'.data, q, a, b, tot)
        <5> SUFFICES ASSUME NEW y \in Nat, a <= y, y < a + tot
                     PROVE  ByteAt(inode'[j], disk'.data, y) = Byte(q, b + y - a)
          BY DEF Sent
        <5>1. hi \in Nat /\ hi <= Top /\ Reaches(inode[j], disk.data, hi) /\ y < hi
          BY <4>2, <4>3, <4>5, <4>6
        <5>2. ByteAt(inode'[j], disk'.data, y) = ByteAt(inode[j], disk.data, y)
          BY <2>2, <4>3, <5>1, StaysBelow
        <5>3. ByteAt(inode[j], disk.data, y) = Byte(q, b + y - a)
          BY <4>8 DEF Sent
        <5> QED BY <5>2, <5>3
      <4>11. Held(e, a, q, inode'[j], disk'.data, s)
        BY <4>2, <4>9, <4>10 DEF Held
      <4> QED BY <1>11, <2>2, <4>1, <4>2, <4>11
    <3> QED BY <3>1, <3>2
  <2>9. Offsets'
    BY <1>11, OffsetsStay
  <2> QED BY <1>11, <2>2, <2>6, <2>8, <2>9 DEF TextInv
<1> QED BY <1>4, <1>11, RestartTexts

(* The end of writei: the file is what it was, with the bytes sent in it.   *)
LEMMA WriteDoneTexts ==
    ASSUME FileInv, FileInv', BlockInv, TextInv, NEW p \in Proc, WriteDone(p) PROVE TextInv'
<1>1. PICK c, i, o : c = call[p] /\ i = c.ip /\ o = ftable[c.f].off
  OBVIOUS
<1>2. PICK end, k : end = o + c.tot /\ k = [c EXCEPT !.pc = "wend", !.r = c.n1]
  OBVIOUS
<1>3. PICK ino, w : /\ ino = IF end > inode[i].size THEN Grown(inode[i], end) ELSE inode[i]
                    /\ w = [j \in 1..c.n1 |-> Byte(p, c.i + j - 1)]
  OBVIOUS
<1>4. PICK d, t : /\ d = IF end > inode[i].size THEN Iupdate(i, ino, disk) ELSE disk
                  /\ t = Overwrite(d.text[i], moved[c.f], w)
  OBVIOUS
<1>5. /\ c.pc = "copy" /\ c.tot = c.n1 /\ inode' = [inode EXCEPT ![i] = ino]
      /\ disk' = [d EXCEPT !.text[i] = t]
      /\ ftable' = [ftable EXCEPT ![c.f].off = @ + c.n1] /\ moved' = [moved EXCEPT ![c.f] = @ + c.n1]
      /\ lock' = [lock EXCEPT ![i] = 0] /\ call' = [call EXCEPT ![p] = k]
      /\ installed' = installed
  BY <1>1, <1>2, <1>3, <1>4 DEF WriteDone, At, Goto, MovedOff
<1>6. /\ c.f \in FileId /\ ftable[c.f].ip = i /\ ftable[c.f].type = "inode" /\ i \in Inum
      /\ lock[i] = p /\ p # 0 /\ o \in Nat /\ c.n1 \in Nat
  BY <1>1, <1>5, CopyFile
<1>7. CopyOK(c, o, inode[i], disk.data, disk.din[i])
  BY <1>1, <1>5 DEF BlockInv, Copying
<1>8. /\ IsInode(inode[i]) /\ IsDisk(disk) /\ AreInodes(inode) /\ lock \in [Inum -> Proc \cup {0}]
      /\ AreTexts(disk) /\ inode[i].size \in Nat /\ inode[i].live
  BY <1>6, CallAt, SizeNat DEF FileInv, Disks, AreInodes, TextInv, AreTexts, Live
<1>9. /\ ino.addrs = inode[i].addrs /\ ino.live = inode[i].live
      /\ ino.size = IF end > inode[i].size THEN end ELSE inode[i].size
  <2>1. CASE end > inode[i].size
    <3>1. inode[i] = [live |-> inode[i].live, nlink |-> inode[i].nlink,
                      size |-> inode[i].size, addrs |-> inode[i].addrs]
      BY <1>8 DEF IsInode
    <3>2. ino = [live |-> inode[i].live, nlink |-> inode[i].nlink,
                 size |-> end, addrs |-> inode[i].addrs]
      BY <1>3, <2>1, <3>1 DEF Grown
    <3> QED BY <2>1, <3>2
  <2>2. CASE ~(end > inode[i].size)
    BY <1>3, <2>2
  <2> QED BY <2>1, <2>2
<1>10. inode'[i] = ino /\ \A j \in Inum : j # i => inode'[j] = inode[j]
  BY <1>5, <1>6, <1>8 DEF AreInodes
<1>11. IsDisk(d) /\ d.data = disk.data /\ d.text = disk.text
  <2>1. IsInode(ino)
    BY <1>6, <1>10 DEF FileInv, Disks, AreInodes
  <2>2. CASE end > inode[i].size
    <3>1. d = Iupdate(i, ino, disk)
      BY <1>4, <2>2
    <3>2. IsDisk(d)
      BY <1>6, <1>8, <2>1, <3>1, IupdateIs
    <3> QED BY <1>6, <1>8, <3>1, <3>2, IupdateGives, IupdateText
  <2>3. CASE ~(end > inode[i].size)
    BY <1>4, <1>8, <2>3
  <2> QED BY <2>2, <2>3
<1>12. disk'.data = disk.data
  BY <1>5, <1>11, TextGives
<1>13. TextSet(disk, disk', i, t)
  <2>1. AreTexts(d)
    BY <1>8, <1>11 DEF AreTexts
  <2>2. PICK e : e = disk'
    OBVIOUS
  <2>3. TextSet(d, e, i, t)
    BY <1>5, <1>6, <1>11, <2>1, <2>2, SetsText
  <2> QED BY <1>11, <2>2, <2>3 DEF TextSet
<1>14. call'[p] = k /\ \A q \in Proc : q # p => call'[q] = call[q]
  BY <1>5, OneMoves
<1>15. k.pc = "wend"
  BY <1>1, <1>2, CallAt DEF IsCall
<1>16. lock'[i] = 0 /\ \A j \in Inum : j # i => lock'[j] = lock[j]
  BY <1>5, <1>6, <1>8
<1>17. moved[c.f] = o /\ moved = [f \in FileId |-> moved[f]]
  BY <1>1, <1>6 DEF TextInv, Offsets
<1>18. Reads(ino, disk.data, t, 0, 0)
  <2>1. PICK n, s, m, from, b : /\ n = inode[i] /\ s = disk.text[i] /\ m = c.n1
                                /\ from = c.i /\ b = disk.data
    OBVIOUS
  <2>2. Held(c, o, p, n, b, s)
    BY <1>1, <1>5, <2>1 DEF TextInv, Sending
  <2>3. Reads(n, b, s, o, o + m) /\ Sent(n, b, p, o, from, m)
    BY <1>5, <2>1, <2>2 DEF Held
  <2>4. from \in Nat
    BY <1>1, <1>5, <2>1, CallAt DEF CallOK, Writing
  <2>5. m \in Nat /\ n.size \in Nat /\ o <= n.size
    BY <1>6, <1>7, <1>8, <2>1 DEF CopyOK
  <2>6. ino.addrs = n.addrs /\ ino.size = IF o + m > n.size THEN o + m ELSE n.size
    BY <1>2, <1>5, <1>9, <2>1
  <2>7. w = [j \in 1..m |-> Byte(p, from + j - 1)] /\ t = Overwrite(s, o, w)
    BY <1>3, <1>4, <1>11, <1>17, <2>1
  <2>8. AllSent(n, ino, b, s, o, m, p, from, t)
    BY <1>6, <2>3, <2>4, <2>5, <2>6, <2>7 DEF AllSent
  <2>9. Reads(ino, b, t, 0, 0)
    BY <2>8, SentReads
  <2> QED BY <2>1, <2>9
<1>19. Unheld'
  <2>1. ASSUME NEW j \in Inum, ~inode'[j].live PROVE inode'[j].size = 0
    BY <1>8, <1>9, <1>10, <2>1 DEF TextInv, Unheld
  <2>2. ASSUME NEW j \in Inum, Steady(j)'
        PROVE  Reads(inode'[j], disk'.data, disk'.text[j], 0, 0)
    <3>1. CASE j = i
      BY <1>10, <1>12, <1>13, <1>18, <3>1 DEF TextSet
    <3>2. CASE j # i
      <4>1. Steady(j)
        BY <1>1, <1>14, <2>2, <3>2 DEF Steady
      <4> QED BY <1>10, <1>12, <1>13, <3>2, <4>1 DEF TextSet, TextInv, Unheld
    <3> QED BY <3>1, <3>2
  <2> QED BY <2>1, <2>2 DEF Unheld
<1>20. ftable = [f \in FileId |-> ftable[f]] /\ \A f \in FileId : IsFile(ftable[f])
  BY DEF FileInv, Shapes
<1>21. Sending'
  <2> SUFFICES ASSUME NEW q \in Proc, call'[q].pc = "copy"
               PROVE  Held(call'[q], ftable'[call'[q].f].off, q, inode'[call'[q].ip],
                           disk'.data, disk'.text[call'[q].ip])
    BY DEF Sending
  <2>1. q # p /\ call'[q] = call[q] /\ call[q].pc = "copy"
    BY <1>14, <1>15
  <2>2. call[q].ip \in Inum /\ call[q].ip # i /\ call[q].f \in FileId /\ call[q].f # c.f
    BY <1>1, <1>5, <2>1, CopyApart, CopyFile
  <2>3. Held(call[q], ftable[call[q].f].off, q, inode[call[q].ip], disk.data,
             disk.text[call[q].ip])
    BY <2>1 DEF TextInv, Sending
  <2>4. ftable'[call[q].f] = ftable[call[q].f]
    BY <1>5, <1>20, <2>2
  <2>5. inode'[call[q].ip] = inode[call[q].ip] /\ disk'.text[call[q].ip] = disk.text[call[q].ip]
    BY <1>10, <1>13, <2>2 DEF TextSet
  <2> QED BY <1>12, <2>1, <2>3, <2>4, <2>5
<1>22. Offsets'
  <2>1. ASSUME NEW f \in FileId, ftable'[f].type = "inode" PROVE moved'[f] = ftable'[f].off
    <3>1. CASE f # c.f
      <4>1. ftable'[f] = ftable[f] /\ moved'[f] = moved[f]
        BY <1>5, <1>17, <1>20, <3>1
      <4> QED BY <2>1, <4>1 DEF TextInv, Offsets
    <3>2. CASE f = c.f
      <4>1. ftable'[f].off = ftable[f].off + c.n1
        BY <1>5, <1>20, <3>2 DEF IsFile
      <4> QED BY <1>1, <1>5, <1>6, <1>17, <3>2, <4>1
    <3> QED BY <3>1, <3>2
  <2> QED BY <1>5, <1>17, <2>1 DEF Offsets
<1> QED BY <1>5, <1>13, <1>19, <1>21, <1>22 DEF TextInv, TextSet, AreTexts

LEMMA TextInvNext ==
    ASSUME FileInv, FileInv', BlockInv, TextInv, [Next]_vars PROVE TextInv'
<1>1. CASE UNCHANGED vars
  <2>1. /\ call' = call /\ ftable' = ftable /\ lock' = lock /\ moved' = moved
        /\ inode' = inode /\ disk' = disk /\ installed' = installed
    BY <1>1 DEF vars
  <2> QED BY <2>1 DEF TextInv, Offsets, Unheld, Sending, Steady
<1>2. ASSUME NEW p \in Proc, NEW i \in Inum,
             SysOpen(p, i) \/ Unlink(p, i)
      PROVE  TextInv'
  BY <1>2, SysOpenTexts, UnlinkTexts
<1>3. ASSUME NEW p \in Proc, NEW fd \in Fd, SysDup(p, fd) \/ SysClose(p, fd) PROVE TextInv'
  BY <1>3, SysDupTexts, SysCloseTexts
<1>4. ASSUME NEW p \in Proc, NEW fd \in Fd, NEW n \in WriteSizes,
             Fileread(p, fd, n) \/ Filewrite(p, fd, n)
      PROVE  TextInv'
  BY <1>4, FilereadTexts, FilewriteTexts
<1>5. ASSUME NEW p \in Proc,
             CloseBegin(p) \/ Iput(p) \/ CloseEnd(p) \/ SysPipe(p) \/ Pipealloc(p)
      PROVE  TextInv'
  BY <1>5, CloseBeginTexts, IputTexts, CloseEndTexts, SysPipeTexts, PipeallocTexts
<1>6. ASSUME NEW p \in Proc, SysExit(p) \/ ExitFiles(p) \/ \E q \in Proc : ForkFiles(p, q)
      PROVE  TextInv'
  BY <1>6, SysExitTexts, ExitFilesTexts, ForkFilesTexts
<1>7. ASSUME NEW p \in Proc,
             WriteBegin(p) \/ WriteLock(p) \/ WriteBlock(p) \/ WriteDone(p) \/ WriteEnd(p)
      PROVE  TextInv'
  BY <1>7, WriteBeginTexts, WriteLockTexts, WriteBlockTexts, WriteDoneTexts, WriteEndTexts
<1>8. ASSUME Crash PROVE TextInv'
  BY <1>8, RestartTexts DEF Crash
<1>9. ASSUME NEW p \in Proc, PipeNoPage(p) \/ PipeFds(p) \/ PipeUndo(p) PROVE TextInv'
  BY <1>9, PipeNoPageTexts, PipeFdsTexts, PipeUndoTexts
<1>10. ASSUME NEW p \in Proc, OpenFd(p, TRUE, TRUE) \/ OpenFd(p, FALSE, TRUE) \/ OpenNoFd(p)
       PROVE  TextInv'
  BY <1>10, OpenFdTexts, OpenNoFdTexts
<1> QED BY <1>1, <1>2, <1>3, <1>4, <1>5, <1>6, <1>7, <1>8, <1>9, <1>10 DEF Next

(* The inductive invariant of the bytes: what readi would find is what the  *)
(* calls wrote, and inside writei the bytes up to tot are those it sends.   *)
THEOREM TextInvariant == Spec => []TextInv
<1>1. Init => FileInv /\ BlockInv /\ TextInv
  BY FileInvInit, BlockInvInit, TextInvInit
<1>2. (FileInv /\ BlockInv /\ TextInv) /\ [Next]_vars => (FileInv /\ BlockInv /\ TextInv)'
  BY FileInvNext, BlockInvNext, TextInvNext
<1> QED BY <1>1, <1>2, PTL DEF Spec

(* File.ReadsBack: readi returns what the calls of write() wrote, byte for  *)
(* byte, with offsets shared by descriptors and processes, writes cut into  *)
(* transactions and into blocks, through the indirect block, and after a    *)
(* crash what the installed transactions made; an inode nobody holds is on  *)
(* the disk as it is in the cache although iupdate is called only when the  *)
(* file grows.                                                              *)
THEOREM WrittenIsRead == Spec => []ReadsBack
<1>1. FileInv /\ BlockInv /\ TextInv => ReadsBack
  BY TextInvReads
<1> QED BY <1>1, FileInvariant, BlockInvariant, TextInvariant, PTL
============================================================================

