------------------------------ MODULE FsProofs -----------------------------
(***************************************************************************)
(* Proofs about Fs, for any number of processes, inodes and names and any  *)
(* calls.                                                                  *)
(***************************************************************************)
EXTENDS Fs, FiniteSetTheorems, WellFoundedInduction, NaturalsInduction, TLAPS

(***************************************************************************)
(* The control flow of a call.                                             *)
(***************************************************************************)
Puts == {"iput", "ifree", "iref"}

(* Where a call is, or goes on when it is in iput().                        *)
Stage(t) == IF t.pc \in Puts THEN t.ret ELSE t.pc

(* The stages in which a call has an inode in at, and in ip.                *)
AtStages == {"walk", "open", "create", "create_new", "no inodes", "unlink",
             "unlink_ip", "unlink_bad", "link", "link_dir", "link_exists",
             "chdir", "chdir_set", "panic"}
IpStages == {"create_found", "create_new", "create_done", "unlink_ip",
             "unlink_dec", "link_dir", "link_exists", "link_done", "link_bad",
             "panic"}
NameStages == {"walk", "create", "create_new", "unlink", "unlink_ip", "link_dir"}

IsThread(t) ==
    t = [pc |-> t.pc, op |-> t.op, new |-> t.new, rest |-> t.rest,
         parent |-> t.parent, found |-> t.found, fail |-> t.fail,
         at |-> t.at, ip |-> t.ip, arg |-> t.arg, ret |-> t.ret]

Names == Name \cup Dots
MaybeInum == Inum \cup {None}

(* What each field holds at each stage.                                     *)
Slots(t) ==
    /\ t.at \in MaybeInum /\ t.ip \in MaybeInum /\ t.arg \in MaybeInum
    /\ t.arg # None <=> t.pc \in Puts
    /\ t.at # None <=> Stage(t) \in AtStages
    /\ t.ip # None <=> Stage(t) \in IpStages \/ (Stage(t) = "walk" /\ t.found = "link_dir")

Flow(t) ==
    /\ Stage(t) \in Labels \ Puts
    /\ t.pc \notin Puts => t.ret = ""
    /\ t.pc \in Puts => t.ret \notin {"create_new", "unlink_ip", "panic"}
    /\ t.rest \in Seq(Names)
    /\ Stage(t) \in NameStages => t.rest # <<>>
    /\ Stage(t) = "walk" =>
          /\ t.found \in {"open", "create", "unlink", "link", "link_dir", "chdir"}
          /\ t.found \in {"create", "unlink", "link_dir"} => t.parent = TRUE
          /\ t.found \in {"open", "link", "chdir"} => t.parent = FALSE
          /\ t.fail = IF t.found = "link_dir" THEN "link_bad" ELSE "idle"
          /\ t.found = "link" => t.new \in Path
          /\ t.found = "open" => t.op = "open"
    /\ Stage(t) = "link" => t.new \in Path
    /\ Stage(t) = "open" => t.op = "open"

ThreadOK(t) == IsThread(t) /\ Slots(t) /\ Flow(t)

Inodes ==
    /\ disk \in [Inum -> Node] /\ mem \in [Inum -> Node]
    /\ ents \in [Inum -> [Names -> MaybeInum]]
    /\ valid \in [Inum -> BOOLEAN]
    /\ lock \in [Inum -> Process \cup {Nobody}]
    /\ lost \in [Inum -> Nat] /\ strayed \in BOOLEAN

Types ==
    /\ Inodes /\ ref \in [Inum -> Nat]
    /\ cwd \in [Process -> Inum] /\ file \in [Process -> MaybeInum]

Threads == th = [p \in Process |-> th[p]] /\ \A p \in Process : ThreadOK(th[p])

(* A call that opens a file starts without one.                             *)
Unopened(t, f) == t.op \in {"open", "create"} => f = None

(* The locks a call holds from one step to the next.                        *)
AtLocked == {"create_new", "no inodes", "unlink_ip", "unlink_bad", "link_exists", "panic"}
IpLocked == {"create_done", "unlink_dec"}

Locks(l, p, t) ==
    /\ Stage(t) \in AtLocked => l[t.at] = p
    /\ Stage(t) \in IpLocked => l[t.ip] = p
    /\ t.pc = "ifree" => /\ l[t.arg] = p
                         /\ Stage(t) \in AtLocked => t.at # t.arg
                         /\ Stage(t) \in IpLocked => t.ip # t.arg

(* What is in the cache is on the disk, and neither it nor a locked inode   *)
(* is free there.                                                           *)
Cache ==
    \A i \in Inum :
       /\ valid[i] => mem[i] = disk[i] /\ disk[i].type # "free"
       /\ lock[i] # Nobody => disk[i].type # "free"

Counted == \A i \in Inum : ref[i] = Cardinality(References(i))

RefInv ==
    /\ Types /\ Threads /\ Cache /\ Counted
    /\ \A p \in Process : Locks(lock, p, th[p]) /\ Unopened(th[p], file[p])

(***************************************************************************)
(* Sets and counting.                                                      *)
(***************************************************************************)
LEMMA FsFacts ==
    /\ None \notin Inum /\ ROOT \in Inum /\ Nobody \notin Process
    /\ Inum \subseteq Nat /\ IsFiniteSet(Inum)
    /\ IsFiniteSet(Process) /\ IsFiniteSet(Name)
    /\ "." \notin Name /\ ".." \notin Name
<1>1. NINODES \in Nat /\ NINODES # 0
  BY FsAssumption
<1>2. IsFiniteSet(Inum)
  BY <1>1, FS_Interval DEF Inum
<1>3. "." \notin Name /\ ".." \notin Name
  BY FsAssumption
<1> QED BY <1>1, <1>2, <1>3, FsAssumption DEF Inum, None, ROOT

One(b) == IF b THEN 1 ELSE 0

(* An element is put into a finite set, or not.                             *)
With(S, e, b) == IF b THEN S \cup {e} ELSE S

LEMMA WithOne ==
    ASSUME NEW S, IsFiniteSet(S), NEW e, e \notin S, NEW b \in BOOLEAN
    PROVE  IsFiniteSet(With(S, e, b))
           /\ Cardinality(With(S, e, b)) = Cardinality(S) + One(b)
<1>1. Cardinality(S) \in Nat
  BY FS_CardinalityType
<1>2. CASE b
  BY <1>2, FS_AddElement DEF With, One
<1>3. CASE ~b
  BY <1>1, <1>3 DEF With, One
<1> QED BY <1>2, <1>3

LEMMA PointersFinite == IsFiniteSet(Pointers)
<1> DEFINE Kinds == {"at", "ip", "arg", "file", "cwd"}
<1>1. IsFiniteSet(Kinds)
  <2>1. IsFiniteSet({"at"}) BY FS_Singleton
  <2>2. IsFiniteSet({"at"} \cup {"ip"}) BY <2>1, FS_AddElement
  <2>3. IsFiniteSet({"at"} \cup {"ip"} \cup {"arg"}) BY <2>2, FS_AddElement
  <2>4. IsFiniteSet({"at"} \cup {"ip"} \cup {"arg"} \cup {"file"}) BY <2>3, FS_AddElement
  <2>5. IsFiniteSet({"at"} \cup {"ip"} \cup {"arg"} \cup {"file"} \cup {"cwd"})
    BY <2>4, FS_AddElement
  <2>6. Kinds = {"at"} \cup {"ip"} \cup {"arg"} \cup {"file"} \cup {"cwd"}
    OBVIOUS
  <2> HIDE DEF Kinds
  <2> QED BY <2>5, <2>6
<1>2. IsFiniteSet(Pointers)
  <2>1. Pointers = Process \X Kinds
    BY DEF Pointers
  <2> HIDE DEF Kinds
  <2> QED BY <1>1, <2>1, FsFacts, FS_Product
<1> QED BY <1>2

(* The pointers of function h to i, and those of other processes than p.    *)
RefsIn(h, i) == {x \in Pointers : h[x] = i}
OthersIn(h, p, i) == {x \in Pointers : x[1] # p /\ h[x] = i}
OwnIn(h, p, i) ==
    One(h[<<p, "at">>] = i) + One(h[<<p, "ip">>] = i) + One(h[<<p, "arg">>] = i)
    + One(h[<<p, "file">>] = i) + One(h[<<p, "cwd">>] = i)

LEMMA CountIn ==
    ASSUME NEW h, NEW p \in Process, NEW i
    PROVE  /\ Cardinality(OthersIn(h, p, i)) \in Nat
           /\ Cardinality(RefsIn(h, i)) = Cardinality(OthersIn(h, p, i)) + OwnIn(h, p, i)
           /\ Cardinality(RefsIn(h, i)) \in Nat
<1> DEFINE Kinds == {"at", "ip", "arg", "file", "cwd"}
           A0 == OthersIn(h, p, i)
           A1 == With(A0, <<p, "at">>, h[<<p, "at">>] = i)
           A2 == With(A1, <<p, "ip">>, h[<<p, "ip">>] = i)
           A3 == With(A2, <<p, "arg">>, h[<<p, "arg">>] = i)
           A4 == With(A3, <<p, "file">>, h[<<p, "file">>] = i)
           A5 == With(A4, <<p, "cwd">>, h[<<p, "cwd">>] = i)
<1>2. IsFiniteSet(Pointers)
  BY PointersFinite
<1>3. IsFiniteSet(A0) /\ Cardinality(A0) \in Nat
  BY <1>2, FS_Subset, FS_CardinalityType DEF OthersIn
<1>4. \A k \in Kinds : <<p, k>> \notin A0
  BY DEF OthersIn
<1>5. IsFiniteSet(A1) /\ Cardinality(A1) = Cardinality(A0) + One(h[<<p, "at">>] = i)
      /\ A1 \subseteq A0 \cup {<<p, "at">>}
  BY <1>3, <1>4, WithOne DEF With
<1>6. IsFiniteSet(A2) /\ Cardinality(A2) = Cardinality(A1) + One(h[<<p, "ip">>] = i)
      /\ A2 \subseteq A1 \cup {<<p, "ip">>}
  <2>1. <<p, "ip">> \notin A1
    BY <1>4, <1>5
  <2> HIDE DEF A1
  <2> QED BY <1>5, <2>1, WithOne DEF With
<1>7. IsFiniteSet(A3) /\ Cardinality(A3) = Cardinality(A2) + One(h[<<p, "arg">>] = i)
      /\ A3 \subseteq A2 \cup {<<p, "arg">>}
  <2>1. <<p, "arg">> \notin A2
    BY <1>4, <1>5, <1>6
  <2> HIDE DEF A2
  <2> QED BY <1>6, <2>1, WithOne DEF With
<1>8. IsFiniteSet(A4) /\ Cardinality(A4) = Cardinality(A3) + One(h[<<p, "file">>] = i)
      /\ A4 \subseteq A3 \cup {<<p, "file">>}
  <2>1. <<p, "file">> \notin A3
    BY <1>4, <1>5, <1>6, <1>7
  <2> HIDE DEF A3
  <2> QED BY <1>7, <2>1, WithOne DEF With
<1>9. IsFiniteSet(A5) /\ Cardinality(A5) = Cardinality(A4) + One(h[<<p, "cwd">>] = i)
  <2>1. <<p, "cwd">> \notin A4
    BY <1>4, <1>5, <1>6, <1>7, <1>8
  <2> HIDE DEF A4
  <2> QED BY <1>8, <2>1, WithOne DEF With
<1>10. RefsIn(h, i) = A5
  <2>1. \A x \in Pointers : x[1] = p => x \in {<<p, k>> : k \in Kinds}
    BY DEF Pointers
  <2>2. \A k \in Kinds : <<p, k>> \in Pointers
    BY DEF Pointers
  <2> QED BY <2>1, <2>2 DEF RefsIn, OthersIn, With
<1>11. \A b \in BOOLEAN : One(b) \in Nat
  BY DEF One
<1>12. /\ One(h[<<p, "at">>] = i) \in Nat /\ One(h[<<p, "ip">>] = i) \in Nat
       /\ One(h[<<p, "arg">>] = i) \in Nat /\ One(h[<<p, "file">>] = i) \in Nat
       /\ One(h[<<p, "cwd">>] = i) \in Nat
  BY <1>11
<1> HIDE DEF A0, A1, A2, A3, A4, A5
<1> QED BY <1>3, <1>5, <1>6, <1>7, <1>8, <1>9, <1>10, <1>12 DEF OwnIn, A0

(* The current directory as a pointer of a process with thread t.           *)
CwdOf(t, c) == IF t.ret = "chdir_set" \/ t.pc = "chdir_set" THEN None ELSE c

(* References to i of a process with thread t, file f and directory c.      *)
Among(a, b, c, d, e, i) ==
    One(a = i) + One(b = i) + One(c = i) + One(d = i) + One(e = i)
OwnOf(t, f, c, i) == Among(t.at, t.ip, t.arg, f, CwdOf(t, c), i)

Hold == [x \in Pointers |-> Pointed(x)]

LEMMA HoldIs ==
    ASSUME NEW p \in Process
    PROVE  /\ Hold[<<p, "at">>] = th[p].at /\ Hold[<<p, "ip">>] = th[p].ip
           /\ Hold[<<p, "arg">>] = th[p].arg /\ Hold[<<p, "file">>] = file[p]
           /\ Hold[<<p, "cwd">>] = CwdOf(th[p], cwd[p])
<1>1. \A k \in {"at", "ip", "arg", "file", "cwd"} :
         <<p, k>> \in Pointers /\ <<p, k>>[1] = p /\ <<p, k>>[2] = k
  BY DEF Pointers
<1>2. \A k \in {"at", "ip", "arg", "file", "cwd"} : Hold[<<p, k>>] = Pointed(<<p, k>>)
  BY <1>1 DEF Hold
<1>3. /\ Pointed(<<p, "at">>) = th[p].at /\ Pointed(<<p, "ip">>) = th[p].ip
      /\ Pointed(<<p, "arg">>) = th[p].arg /\ Pointed(<<p, "file">>) = file[p]
      /\ Pointed(<<p, "cwd">>) = CwdOf(th[p], cwd[p])
  BY <1>1 DEF Pointed, CwdOf, CwdGone, At
<1> QED BY <1>2, <1>3

RefsSplit ==
    \A p \in Process, i \in Inum :
       /\ Cardinality(OthersIn(Hold, p, i)) \in Nat
       /\ Cardinality(References(i))
             = Cardinality(OthersIn(Hold, p, i)) + OwnOf(th[p], file[p], cwd[p], i)
       /\ Cardinality(References(i)) \in Nat

LEMMA RefsAre == RefsSplit
<1> SUFFICES ASSUME NEW p \in Process, NEW i \in Inum
    PROVE  /\ Cardinality(OthersIn(Hold, p, i)) \in Nat
           /\ Cardinality(References(i))
                 = Cardinality(OthersIn(Hold, p, i)) + OwnOf(th[p], file[p], cwd[p], i)
           /\ Cardinality(References(i)) \in Nat
  BY DEF RefsSplit
<1>1. References(i) = RefsIn(Hold, i)
  BY DEF References, RefsIn, Hold
<1>2. OwnIn(Hold, p, i) = OwnOf(th[p], file[p], cwd[p], i)
  BY HoldIs DEF OwnIn, OwnOf, Among
<1> QED BY <1>1, <1>2, CountIn

LEMMA OwnNat ==
    ASSUME NEW t, NEW f, NEW c, NEW i
    PROVE  OwnOf(t, f, c, i) \in Nat
BY DEF OwnOf, Among, One

(* Process p moves to thread t, file f and directory c.                     *)
Moves(p, t, f, c) ==
    /\ th' = [th EXCEPT ![p] = t] /\ file' = [file EXCEPT ![p] = f]
    /\ cwd' = [cwd EXCEPT ![p] = c]

LEMMA MovesTo ==
    ASSUME Types, Threads, NEW p \in Process, NEW t, NEW f, NEW c, Moves(p, t, f, c)
    PROVE  /\ th'[p] = t /\ file'[p] = f /\ cwd'[p] = c
           /\ \A q \in Process : q # p =>
                 th'[q] = th[q] /\ file'[q] = file[q] /\ cwd'[q] = cwd[q]
           /\ th' = [q \in Process |-> th'[q]]
BY DEF Types, Threads, Moves

LEMMA OthersHold ==
    ASSUME Types, Threads, NEW p \in Process, NEW t, NEW f, NEW c, Moves(p, t, f, c)
    PROVE  \A x \in Pointers : x[1] # p => Pointed(x)' = Pointed(x)
<1> SUFFICES ASSUME NEW x \in Pointers, x[1] # p PROVE Pointed(x)' = Pointed(x)
  OBVIOUS
<1> DEFINE q == x[1]
<1>1. q \in Process /\ q # p
  BY DEF Pointers
<1>2. th'[q] = th[q] /\ file'[q] = file[q] /\ cwd'[q] = cwd[q]
  BY <1>1, MovesTo
<1> QED BY <1>2 DEF Pointed, CwdGone, At

(* The reference counts change by what p gives up and takes.                *)
Counts(p, t, f, c) ==
    /\ ref' = [i \in Inum |-> ref'[i]]
    /\ \A i \in Inum :
          ref'[i] = ref[i] + OwnOf(t, f, c, i) - OwnOf(th[p], file[p], cwd[p], i)

LEMMA CountStep ==
    ASSUME Types, Threads, Counted, NEW p \in Process, NEW t, NEW f, NEW c,
           Moves(p, t, f, c), Counts(p, t, f, c)
    PROVE  Counted' /\ ref' \in [Inum -> Nat]
<1>1. \A i \in Inum : OthersIn(Hold, p, i)' = OthersIn(Hold, p, i)
  <2>1. \A x \in Pointers : x[1] # p => Hold'[x] = Hold[x]
    BY OthersHold DEF Hold
  <2>2. \A i \in Inum : OthersIn(Hold', p, i) = OthersIn(Hold, p, i)
    BY <2>1 DEF OthersIn
  <2>3. \A i \in Inum : OthersIn(Hold, p, i)' = OthersIn(Hold', p, i)
    BY DEF OthersIn
  <2> QED BY <2>2, <2>3
<1>2. ASSUME NEW i \in Inum
      PROVE  ref'[i] = Cardinality(References(i)') /\ ref'[i] \in Nat
  <2>1. /\ Cardinality(OthersIn(Hold, p, i)) \in Nat
        /\ Cardinality(References(i))
              = Cardinality(OthersIn(Hold, p, i)) + OwnOf(th[p], file[p], cwd[p], i)
    BY RefsAre DEF RefsSplit
  <2>2. /\ Cardinality(References(i)')
              = Cardinality(OthersIn(Hold, p, i)') + OwnOf(th'[p], file'[p], cwd'[p], i)
        /\ Cardinality(References(i)') \in Nat
    <3>1. RefsSplit'
      BY RefsAre, PTL
    <3> QED BY <3>1 DEF RefsSplit
  <2>3. OwnOf(th'[p], file'[p], cwd'[p], i) = OwnOf(t, f, c, i)
    BY MovesTo
  <2>4. ref[i] = Cardinality(References(i))
    BY DEF Counted
  <2>5. ref'[i] = ref[i] + OwnOf(t, f, c, i) - OwnOf(th[p], file[p], cwd[p], i)
    BY DEF Counts
  <2>6. OwnOf(t, f, c, i) \in Nat /\ OwnOf(th[p], file[p], cwd[p], i) \in Nat
    BY OwnNat
  <2>7. OthersIn(Hold, p, i)' = OthersIn(Hold, p, i)
    BY <1>1
  <2> QED BY <2>1, <2>2, <2>3, <2>4, <2>5, <2>6, <2>7
<1>3. Counted'
  BY <1>2 DEF Counted
<1>4. ref' = [i \in Inum |-> ref'[i]]
  BY DEF Counts
<1> QED BY <1>2, <1>3, <1>4

(* Nobody else loses a lock.                                                *)
LocksKept(p) == \A i \in Inum : lock[i] \notin {p, Nobody} => lock'[i] = lock[i]

LEMMA RefStep ==
    ASSUME RefInv, NEW p \in Process, NEW t, NEW f, NEW c, Moves(p, t, f, c),
           ThreadOK(t), f \in MaybeInum, c \in Inum, Counts(p, t, f, c),
           Inodes', Cache', LocksKept(p), Locks(lock', p, t), Unopened(t, f)
    PROVE  RefInv'
<1>1. Types /\ Threads /\ Counted
  BY DEF RefInv
<1>2. /\ th'[p] = t /\ file'[p] = f /\ cwd'[p] = c
      /\ \A q \in Process : q # p => th'[q] = th[q] /\ file'[q] = file[q]
      /\ th' = [q \in Process |-> th'[q]]
  BY <1>1, MovesTo
<1>3. Counted' /\ ref' \in [Inum -> Nat]
  BY <1>1, CountStep
<1>4. Types'
  BY <1>1, <1>3 DEF Types, Moves
<1>5. \A q \in Process : ThreadOK(th'[q])
  BY <1>1, <1>2 DEF Threads
<1>6. Threads'
  BY <1>2, <1>5 DEF Threads
<1>7. ASSUME NEW q \in Process, q # p PROVE Locks(lock', q, th'[q])
  <2>1. Locks(lock, q, th[q]) /\ ThreadOK(th[q])
    BY <1>1 DEF RefInv, Threads
  <2>2. \A i \in Inum : lock[i] = q => lock'[i] = q
    BY <1>7, FsFacts DEF LocksKept
  <2>3. /\ Stage(th[q]) \in AtLocked => th[q].at \in Inum
        /\ Stage(th[q]) \in IpLocked => th[q].ip \in Inum
        /\ th[q].pc = "ifree" => th[q].arg \in Inum
    BY <2>1 DEF ThreadOK, Slots, AtLocked, AtStages, IpLocked, IpStages, MaybeInum, Puts
  <2> QED BY <1>2, <1>7, <2>1, <2>2, <2>3 DEF Locks
<1>8. \A q \in Process : Locks(lock', q, th'[q])
  BY <1>2, <1>7
<1>9. \A q \in Process : Unopened(th'[q], file'[q])
  BY <1>2 DEF RefInv
<1>10. (\A q \in Process : Locks(lock, q, th[q]) /\ Unopened(th[q], file[q]))'
  BY <1>8, <1>9
<1> QED BY <1>3, <1>4, <1>6, <1>10 DEF RefInv

(***************************************************************************)
(* The records of a step.                                                  *)
(***************************************************************************)
LEMMA PutIs ==
    ASSUME NEW t, IsThread(t), NEW i, NEW l, NEW u, u = Put(t, i, l)
    PROVE  /\ IsThread(u)
           /\ u.pc = "iput" /\ u.arg = i /\ u.ret = l /\ u.at = t.at /\ u.ip = t.ip
           /\ u.op = t.op /\ u.new = t.new /\ u.rest = t.rest /\ u.parent = t.parent
           /\ u.found = t.found /\ u.fail = t.fail
BY DEF IsThread, Put

LEMMA PutAtIs ==
    ASSUME NEW p, IsThread(th[p]), NEW l, NEW u, u = PutAt(p, l)
    PROVE  /\ IsThread(u)
           /\ u.pc = "iput" /\ u.arg = th[p].at /\ u.ret = l /\ u.at = None
           /\ u.ip = th[p].ip /\ u.op = th[p].op /\ u.new = th[p].new
           /\ u.rest = th[p].rest /\ u.parent = th[p].parent
           /\ u.found = th[p].found /\ u.fail = th[p].fail
<1> DEFINE t == [th[p] EXCEPT !.at = None]
<1>1. /\ IsThread(t) /\ t.at = None /\ t.ip = th[p].ip /\ t.op = th[p].op
      /\ t.new = th[p].new /\ t.rest = th[p].rest /\ t.parent = th[p].parent
      /\ t.found = th[p].found /\ t.fail = th[p].fail
  BY DEF IsThread
<1>2. u = Put(t, th[p].at, l)
  BY DEF PutAt
<1> HIDE DEF t
<1> QED BY <1>1, <1>2, PutIs

LEMMA PutIpIs ==
    ASSUME NEW p, IsThread(th[p]), NEW l, NEW u, u = PutIp(p, l)
    PROVE  /\ IsThread(u)
           /\ u.pc = "iput" /\ u.arg = th[p].ip /\ u.ret = l /\ u.at = th[p].at
           /\ u.ip = None /\ u.op = th[p].op /\ u.new = th[p].new
           /\ u.rest = th[p].rest /\ u.parent = th[p].parent
           /\ u.found = th[p].found /\ u.fail = th[p].fail
<1> DEFINE t == [th[p] EXCEPT !.ip = None]
<1>1. /\ IsThread(t) /\ t.at = th[p].at /\ t.ip = None /\ t.op = th[p].op
      /\ t.new = th[p].new /\ t.rest = th[p].rest /\ t.parent = th[p].parent
      /\ t.found = th[p].found /\ t.fail = th[p].fail
  BY DEF IsThread
<1>2. u = Put(t, th[p].ip, l)
  BY DEF PutIp
<1> HIDE DEF t
<1> QED BY <1>1, <1>2, PutIs

LEMMA ToIs ==
    ASSUME NEW p, IsThread(th[p]), NEW l, NEW u, u = To(p, l)
    PROVE  /\ IsThread(u)
           /\ u.pc = l /\ u.arg = th[p].arg /\ u.ret = th[p].ret /\ u.at = th[p].at
           /\ u.ip = th[p].ip /\ u.op = th[p].op /\ u.new = th[p].new
           /\ u.rest = th[p].rest /\ u.parent = th[p].parent
           /\ u.found = th[p].found /\ u.fail = th[p].fail
BY DEF IsThread, To

LEMMA IdleIs ==
    /\ ThreadOK(Idle) /\ Idle.pc = "idle" /\ Idle.at = None /\ Idle.ip = None
    /\ Idle.arg = None /\ Idle.ret = "" /\ Idle.op = ""
<1>1. /\ Idle.pc = "idle" /\ Idle.at = None /\ Idle.ip = None /\ Idle.arg = None
      /\ Idle.ret = "" /\ Idle.op = "" /\ Idle.rest = <<>> /\ IsThread(Idle)
  BY DEF Idle, IsThread
<1>2. Stage(Idle) = "idle"
  BY <1>1 DEF Stage, Puts
<1>3. <<>> \in Seq(Names)
  OBVIOUS
<1>4. Slots(Idle)
  BY <1>1, <1>2 DEF Slots, AtStages, IpStages, MaybeInum, Puts
<1>5. Flow(Idle)
  BY <1>1, <1>2, <1>3 DEF Flow, Labels, Puts, NameStages
<1> QED BY <1>1, <1>4, <1>5 DEF ThreadOK

(* A thread that goes on to iput() of what it had in one of its fields.     *)
LEMMA PutOK ==
    ASSUME NEW t, ThreadOK(t), t.pc \notin Puts, NEW u, IsThread(u),
           u.pc = "iput", u.arg \in Inum,
           u.ret \in Labels \ (Puts \cup NameStages \cup {"open", "link", "panic"}),
           u.at \in MaybeInum, u.ip \in MaybeInum, u.rest \in Seq(Names),
           u.at # None <=> u.ret \in AtStages,
           u.ip # None <=> u.ret \in IpStages
    PROVE  ThreadOK(u)
<1>1. Stage(u) = u.ret
  BY DEF Stage, Puts
<1>2. Slots(u)
  BY <1>1, FsFacts DEF Slots, MaybeInum, Puts, NameStages
<1>3. Flow(u)
  BY <1>1 DEF Flow, NameStages, Puts
<1> QED BY <1>2, <1>3 DEF ThreadOK

(* Where the references of a process are before a step (thread t) and after *)
(* it (thread u).                                                           *)

(* at is given to iput().                                                   *)
LEMMA OwnPutAt ==
    ASSUME NEW t, NEW u, NEW f, NEW c, u.at = None, u.ip = t.ip,
           u.arg = t.at, CwdOf(u, c) = CwdOf(t, c), t.arg = None
    PROVE  \A n \in Inum : OwnOf(u, f, c, n) = OwnOf(t, f, c, n)
<1>1. ASSUME NEW a, NEW b, NEW e, NEW g, NEW n \in Inum
      PROVE  Among(None, b, a, g, e, n) = Among(a, b, None, g, e, n)
  BY FsFacts DEF Among, One
<1> QED BY <1>1 DEF OwnOf

(* ip is given to iput().                                                   *)
LEMMA OwnPutIp ==
    ASSUME NEW t, NEW u, NEW f, NEW c, u.at = t.at, u.ip = None,
           u.arg = t.ip, CwdOf(u, c) = CwdOf(t, c), t.arg = None
    PROVE  \A n \in Inum : OwnOf(u, f, c, n) = OwnOf(t, f, c, n)
<1>1. ASSUME NEW a, NEW b, NEW e, NEW g, NEW n \in Inum
      PROVE  Among(a, None, b, g, e, n) = Among(a, b, None, g, e, n)
  BY FsFacts DEF Among, One
<1> QED BY <1>1 DEF OwnOf

(* The file is given to iput().                                             *)
LEMMA OwnClose ==
    ASSUME NEW t, NEW u, NEW f, NEW c, u.at = t.at, u.ip = t.ip, u.arg = f,
           CwdOf(u, c) = CwdOf(t, c), t.arg = None
    PROVE  \A n \in Inum : OwnOf(u, None, c, n) = OwnOf(t, f, c, n)
<1>1. ASSUME NEW a, NEW b, NEW e, NEW g, NEW n \in Inum
      PROVE  Among(a, b, g, None, e, n) = Among(a, b, None, g, e, n)
  BY FsFacts DEF Among, One
<1> QED BY <1>1 DEF OwnOf

(* at becomes the open file.                                                *)
LEMMA OwnOpenAt ==
    ASSUME NEW t, NEW u, NEW f, NEW c, u.at = None, u.ip = t.ip,
           u.arg = t.arg, CwdOf(u, c) = CwdOf(t, c), f = None
    PROVE  \A n \in Inum : OwnOf(u, t.at, c, n) = OwnOf(t, f, c, n)
<1>1. ASSUME NEW a, NEW b, NEW d, NEW e, NEW n \in Inum
      PROVE  Among(None, b, d, a, e, n) = Among(a, b, d, None, e, n)
  BY FsFacts DEF Among, One
<1> QED BY <1>1 DEF OwnOf

(* ip becomes the open file.                                                *)
LEMMA OwnOpenIp ==
    ASSUME NEW t, NEW u, NEW f, NEW c, u.at = t.at, u.ip = None,
           u.arg = t.arg, CwdOf(u, c) = CwdOf(t, c), f = None
    PROVE  \A n \in Inum : OwnOf(u, t.ip, c, n) = OwnOf(t, f, c, n)
<1>1. ASSUME NEW a, NEW b, NEW d, NEW e, NEW n \in Inum
      PROVE  Among(a, None, d, b, e, n) = Among(a, b, d, None, e, n)
  BY FsFacts DEF Among, One
<1> QED BY <1>1 DEF OwnOf

(* The current directory is given to iput().                                *)
LEMMA OwnLeave ==
    ASSUME NEW t, NEW u, NEW f, NEW c, u.at = t.at, u.ip = t.ip, u.arg = c,
           CwdOf(u, c) = None, t.arg = None, CwdOf(t, c) = c
    PROVE  \A n \in Inum : OwnOf(u, f, c, n) = OwnOf(t, f, c, n)
<1>1. ASSUME NEW a, NEW b, NEW h, NEW g, NEW n \in Inum
      PROVE  Among(a, b, h, g, None, n) = Among(a, b, None, g, h, n)
  BY FsFacts DEF Among, One
<1> QED BY <1>1 DEF OwnOf

(* Nothing moves.                                                           *)
LEMMA OwnSame ==
    ASSUME NEW t, NEW u, NEW f, NEW c, u.at = t.at, u.ip = t.ip,
           u.arg = t.arg, CwdOf(u, c) = CwdOf(t, c)
    PROVE  \A n \in Inum : OwnOf(u, f, c, n) = OwnOf(t, f, c, n)
<1>1. ASSUME NEW a, NEW b, NEW d, NEW e, NEW g, NEW n \in Inum
      PROVE  Among(a, b, d, g, e, n) = Among(a, b, d, g, e, n)
  BY FsFacts DEF Among, One
<1> QED BY <1>1 DEF OwnOf

(* j is taken in at, from which iput() gets the inode.                      *)
LEMMA OwnTakeAt ==
    ASSUME NEW t, NEW u, NEW f, NEW c, NEW j, u.at = j, u.ip = t.ip,
           u.arg = t.at, CwdOf(u, c) = CwdOf(t, c), t.arg = None
    PROVE  \A n \in Inum : OwnOf(u, f, c, n) = OwnOf(t, f, c, n) + One(n = j)
<1>1. ASSUME NEW a, NEW b, NEW e, NEW g, NEW n \in Inum
      PROVE  Among(j, b, a, g, e, n) = Among(a, b, None, g, e, n) + One(n = j)
  BY FsFacts DEF Among, One
<1> QED BY <1>1 DEF OwnOf

(* j is taken in ip.                                                        *)
LEMMA OwnTakeIp ==
    ASSUME NEW t, NEW u, NEW f, NEW c, NEW j, u.at = t.at, u.ip = j,
           u.arg = t.arg, CwdOf(u, c) = CwdOf(t, c), t.ip = None
    PROVE  \A n \in Inum : OwnOf(u, f, c, n) = OwnOf(t, f, c, n) + One(n = j)
<1>1. ASSUME NEW a, NEW d, NEW e, NEW g, NEW n \in Inum
      PROVE  Among(a, j, d, g, e, n) = Among(a, None, d, g, e, n) + One(n = j)
  BY FsFacts DEF Among, One
<1> QED BY <1>1 DEF OwnOf

(* j is taken for iput().                                                   *)
LEMMA OwnTakeArg ==
    ASSUME NEW t, NEW u, NEW f, NEW c, NEW j, u.at = t.at, u.ip = t.ip,
           u.arg = j, CwdOf(u, c) = CwdOf(t, c), t.arg = None
    PROVE  \A n \in Inum : OwnOf(u, f, c, n) = OwnOf(t, f, c, n) + One(n = j)
<1>1. ASSUME NEW a, NEW b, NEW e, NEW g, NEW n \in Inum
      PROVE  Among(a, b, j, g, e, n) = Among(a, b, None, g, e, n) + One(n = j)
  BY FsFacts DEF Among, One
<1> QED BY <1>1 DEF OwnOf

(* j is taken in ip, and at is given to iput().                             *)
LEMMA OwnTakeFound ==
    ASSUME NEW t, NEW u, NEW f, NEW c, NEW j, u.at = None, u.ip = j,
           u.arg = t.at, CwdOf(u, c) = CwdOf(t, c), t.ip = None,
           t.arg = None
    PROVE  \A n \in Inum : OwnOf(u, f, c, n) = OwnOf(t, f, c, n) + One(n = j)
<1>1. ASSUME NEW a, NEW e, NEW g, NEW n \in Inum
      PROVE  Among(None, j, a, g, e, n) = Among(a, None, None, g, e, n) + One(n = j)
  BY FsFacts DEF Among, One
<1> QED BY <1>1 DEF OwnOf

(* at is kept in ip, and j taken in at.                                     *)
LEMMA OwnTakeNext ==
    ASSUME NEW t, NEW u, NEW f, NEW c, NEW j, u.at = j, u.ip = t.at,
           u.arg = t.arg, CwdOf(u, c) = CwdOf(t, c), t.ip = None
    PROVE  \A n \in Inum : OwnOf(u, f, c, n) = OwnOf(t, f, c, n) + One(n = j)
<1>1. ASSUME NEW a, NEW d, NEW e, NEW g, NEW n \in Inum
      PROVE  Among(j, a, d, g, e, n) = Among(a, None, d, g, e, n) + One(n = j)
  BY FsFacts DEF Among, One
<1> QED BY <1>1 DEF OwnOf

(***************************************************************************)
(* Links.  What follows holds until ".." of a removed directory has led to *)
(* a removed one.                                                          *)
(***************************************************************************)

(* The inodes that a process with thread t, file f and directory c keeps    *)
(* allocated: all it points to, but not the one of an iput() which only has *)
(* to count the reference down.                                             *)
Firm(t, f, c) ==
    {i \in Inum : \/ t.at = i \/ t.ip = i \/ f = i \/ CwdOf(t, c) = i
                  \/ t.arg = i /\ t.pc # "iref"}
Keeps(p) == Firm(th[p], file[p], cwd[p])

Live == \A p \in Process : \A i \in Keeps(p) : disk[i].type # "free"

(* An inode that is about to be freed, or has just been allocated: it has   *)
(* no link, and nobody else has it.                                         *)
Special(t) == IF t.pc = "ifree" THEN t.arg ELSE
              IF t.pc = "create_new" THEN t.ip ELSE None

Lonely(p) ==
    Special(th[p]) # None =>
       /\ disk[Special(th[p])].nlink = 0
       /\ \A q \in Process : q # p => Special(th[p]) \notin Keeps(q)

LastOwn(p) ==
    th[p].pc = "ifree" =>
       th[p].arg \notin {th[p].at, th[p].ip, file[p], CwdOf(th[p], cwd[p])}

(* Calls that have counted a link without an entry, or not yet its loss.    *)
FlightStages == {"walk", "link_dir", "link_exists", "link_bad", "unlink_dec"}
Flies(t) == IF Stage(t) \in FlightStages THEN t.ip ELSE None
InFlight(i) == {p \in Process : Flies(th[p]) = i}

LinkCount ==
    \A i \in Inum :
       disk[i].nlink = Cardinality(Entries(i)) + Cardinality(Subdirs(i))
                       + Cardinality(InFlight(i)) + lost[i] + One(i = ROOT)

Blank == \A i \in Inum : disk[i].type = "free" => disk[i].nlink = 0 /\ ents[i] = NoEnts

(* Only directories have entries; one entry names a directory, in its "..". *)
Tree ==
    /\ \A d \in Inum : \A n \in Names : ents[d][n] # None => disk[d].type = "dir"
    /\ \A d \in Inum : disk[d].type = "dir" =>
          \A e \in Entries(d) : ents[d][".."] = e[1] /\ \A g \in Entries(d) : g = e
    /\ disk[ROOT].type = "dir" /\ ents[ROOT][".."] = ROOT /\ Entries(ROOT) = {}

(* A directory has its dots unless it is being made.                        *)
HasDots ==
    \A d \in Inum : disk[d].type = "dir" =>
       \/ ents[d]["."] = d /\ ents[d][".."] # None
       \/ \E p \in Process : th[p].pc = "create_new" /\ th[p].ip = d

(* What a call has found out and still relies on.                           *)
DirStages == {"create", "create_new", "unlink", "unlink_ip", "unlink_bad",
              "link_dir", "link_exists"}

Relies(dk, en, t) ==
    /\ Stage(t) \in DirStages => dk[t.at].type = "dir"
    /\ t.pc = "unlink_ip" => Head(t.rest) \in Name /\ en[t.at][Head(t.rest)] = t.ip
    /\ t.pc = "create_new" =>
          /\ Head(t.rest) \in Name /\ en[t.at][Head(t.rest)] = None
          /\ en[t.ip] = NoEnts /\ dk[t.ip].type = TypeOf(t.op)
    /\ Stage(t) \in FlightStages \ {"unlink_dec"} /\ t.ip # None => dk[t.ip].type # "dir"
    /\ t.pc # "panic"

Links ==
    /\ Live /\ LinkCount /\ Blank /\ Tree /\ HasDots
    /\ \A p \in Process : Lonely(p) /\ LastOwn(p) /\ Relies(disk, ents, th[p])

LinkInv == ~strayed => Links
FsInv == RefInv /\ LinkInv

(***************************************************************************)
(* What a step of p leaves of the others.                                  *)
(***************************************************************************)
LEMMA SpecialKept ==
    ASSUME NEW p \in Process, ThreadOK(th[p])
    PROVE  Special(th[p]) # None => Special(th[p]) \in Keeps(p)
<1>1. th[p].arg \in MaybeInum /\ th[p].ip \in MaybeInum
  BY DEF ThreadOK, Slots
<1>2. th[p].pc = "ifree" => th[p].pc # "iref"
  OBVIOUS
<1> QED BY <1>1, <1>2 DEF Special, Keeps, Firm, MaybeInum

(* An inode that p takes is one it has, one with a link or one that is free. *)
Takes(p, j) == j = None \/ disk[j].nlink > 0 \/ j \in Keeps(p) \/ disk[j].type = "free"

LEMMA OthersLonely ==
    ASSUME RefInv, Links, NEW p \in Process, NEW u, NEW f, NEW c, Moves(p, u, f, c),
           NEW j \in MaybeInum, Firm(u, f, c) \subseteq Keeps(p) \cup {j}, Takes(p, j),
           \A i \in Inum : i \notin Keeps(p) => disk'[i].nlink = disk[i].nlink
    PROVE  \A q \in Process : q # p => Lonely(q)' /\ LastOwn(q)'
<1> SUFFICES ASSUME NEW q \in Process, q # p PROVE Lonely(q)' /\ LastOwn(q)'
  OBVIOUS
<1>1. Types /\ Threads /\ Lonely(q) /\ LastOwn(q) /\ ThreadOK(th[q])
  BY DEF RefInv, Links, Threads
<1>2. /\ th'[p] = u /\ file'[p] = f /\ cwd'[p] = c
      /\ \A r \in Process : r # p =>
            th'[r] = th[r] /\ file'[r] = file[r] /\ cwd'[r] = cwd[r]
  BY <1>1, MovesTo
<1>3. Keeps(p)' = Firm(u, f, c) /\ \A r \in Process : r # p => Keeps(r)' = Keeps(r)
  BY <1>2 DEF Keeps
<1>4. LastOwn(q)'
  BY <1>1, <1>2 DEF LastOwn
<1>5. ASSUME NEW s, s = Special(th[q]), s # None
      PROVE  disk'[s].nlink = 0 /\ \A r \in Process : r # q => s \notin Keeps(r)'
  <2>1. disk[s].nlink = 0 /\ \A r \in Process : r # q => s \notin Keeps(r)
    BY <1>1, <1>5 DEF Lonely
  <2>2. s \in Keeps(q) /\ s \in Inum
    BY <1>1, <1>5, SpecialKept DEF Keeps, Firm
  <2>3. disk[s].type # "free"
    BY <2>2 DEF Links, Live
  <2>4. s \notin Keeps(p)
    BY <2>1
  <2>5. s # j
    BY <1>5, <2>1, <2>3, <2>4 DEF Takes
  <2>6. s \notin Firm(u, f, c)
    BY <2>4, <2>5
  <2> QED BY <1>3, <2>1, <2>2, <2>4, <2>6
<1>6. Lonely(q)'
  BY <1>2, <1>5 DEF Lonely
<1> QED BY <1>4, <1>6

LEMMA StillLive ==
    ASSUME RefInv, Links, NEW p \in Process, NEW u, NEW f, NEW c, Moves(p, u, f, c),
           \A i \in Firm(u, f, c) : disk'[i].type # "free",
           \A i \in Inum : disk'[i].type = "free" => disk[i].type = "free" \/ i = Special(th[p])
    PROVE  Live'
<1>1. Types /\ Threads
  BY DEF RefInv
<1>2. /\ th'[p] = u /\ file'[p] = f /\ cwd'[p] = c
      /\ \A r \in Process : r # p =>
            th'[r] = th[r] /\ file'[r] = file[r] /\ cwd'[r] = cwd[r]
  BY <1>1, MovesTo
<1>3. Keeps(p)' = Firm(u, f, c) /\ \A r \in Process : r # p => Keeps(r)' = Keeps(r)
  BY <1>2 DEF Keeps
<1>4. ASSUME NEW q \in Process, q # p, NEW i \in Keeps(q) PROVE disk'[i].type # "free"
  <2>1. disk[i].type # "free" /\ i \in Inum
    BY DEF Links, Live, Keeps, Firm
  <2>2. i # Special(th[p])
    BY <1>4, <2>1, FsFacts DEF Links, Lonely
  <2> QED BY <2>1, <2>2
<1>5. \A q \in Process : \A i \in Keeps(q)' : disk'[i].type # "free"
  BY <1>3, <1>4
<1> QED BY <1>5 DEF Live

(* What the others rely on: p changes no inode that is not its own, and no  *)
(* directory that is locked by another process.                             *)
LEMMA OthersRely ==
    ASSUME RefInv, Links, NEW p \in Process, NEW u, NEW f, NEW c, Moves(p, u, f, c),
           \A i \in Inum : disk[i].type # "free" /\ i # Special(th[p])
                              => disk'[i].type = disk[i].type,
           \A i \in Inum : i \notin Keeps(p) => ents'[i] = ents[i],
           \A i \in Inum : lock[i] \notin {p, Nobody} => ents'[i] = ents[i]
    PROVE  \A q \in Process : q # p => Relies(disk', ents', th'[q])
<1> SUFFICES ASSUME NEW q \in Process, q # p PROVE Relies(disk', ents', th'[q])
  OBVIOUS
<1>1. /\ Types /\ Threads /\ Relies(disk, ents, th[q])
      /\ ThreadOK(th[q]) /\ Lonely(q) /\ Locks(lock, q, th[q])
  BY DEF RefInv, Links, Threads
<1>2. th'[q] = th[q]
  BY <1>1, MovesTo
<1> DEFINE t == th[q]
<1>3. ASSUME NEW i \in Keeps(q) PROVE i \in Inum /\ disk'[i].type = disk[i].type
  <2>1. i \in Inum /\ disk[i].type # "free"
    BY DEF Links, Live, Keeps, Firm
  <2>2. i # Special(th[p])
    BY <2>1, FsFacts DEF Links, Lonely
  <2> QED BY <2>1, <2>2
<1>4. /\ t.at \in Inum => t.at \in Keeps(q)
      /\ t.ip \in Inum => t.ip \in Keeps(q)
  BY DEF Keeps, Firm
<1>5. /\ Stage(t) \in DirStages => t.at \in Inum
      /\ t.pc \in {"unlink_ip", "create_new"} =>
            Stage(t) = t.pc /\ t.at \in Inum /\ t.ip \in Inum
      /\ t.ip # None => t.ip \in Inum
  BY <1>1 DEF ThreadOK, Slots, AtStages, IpStages, DirStages, MaybeInum, Stage, Puts
<1>6. t.pc \in {"unlink_ip", "create_new"} => ents'[t.at] = ents[t.at]
  <2> SUFFICES ASSUME t.pc \in {"unlink_ip", "create_new"} PROVE ents'[t.at] = ents[t.at]
    OBVIOUS
  <2>1. lock[t.at] = q /\ t.at \in Inum
    BY <1>1, <1>5 DEF Locks, AtLocked
  <2>2. lock[t.at] \notin {p, Nobody}
    BY <2>1, FsFacts
  <2> QED BY <2>1, <2>2
<1>7. t.pc = "create_new" => ents'[t.ip] = ents[t.ip]
  <2> SUFFICES ASSUME t.pc = "create_new" PROVE ents'[t.ip] = ents[t.ip]
    OBVIOUS
  <2>1. Special(t) = t.ip /\ t.ip \in Inum
    BY <1>5 DEF Special
  <2>2. t.ip \notin Keeps(p)
    BY <1>1, <2>1, FsFacts DEF Lonely
  <2> QED BY <2>1, <2>2
<1>8. /\ Stage(t) \in DirStages => disk'[t.at].type = "dir"
      /\ Stage(t) \in FlightStages \ {"unlink_dec"} /\ t.ip # None => disk'[t.ip].type # "dir"
      /\ t.pc = "create_new" => disk'[t.ip].type = TypeOf(t.op)
  BY <1>1, <1>3, <1>4, <1>5 DEF Relies
<1> HIDE DEF t
<1>9. Relies(disk', ents', t)
  BY <1>1, <1>6, <1>7, <1>8 DEF Relies, t
<1> QED BY <1>2, <1>9 DEF t

(* A step that leaves the inodes, their entries and the links in flight.    *)
LEMMA QuietLinks ==
    ASSUME RefInv, Links, NEW p \in Process, NEW u, NEW f, NEW c, Moves(p, u, f, c),
           disk' = disk, ents' = ents, lost' = lost,
           NEW j \in MaybeInum, Firm(u, f, c) \subseteq Keeps(p) \cup {j},
           j = None \/ disk[j].nlink > 0 \/ j \in Keeps(p),
           Flies(u) = Flies(th[p]), th[p].pc # "create_new",
           u.pc \notin {"create_new", "ifree"}, Relies(disk, ents, u)
    PROVE  Links'
<1>1. Types /\ Threads
  BY DEF RefInv
<1>2. /\ th'[p] = u /\ file'[p] = f /\ cwd'[p] = c
      /\ \A r \in Process : r # p =>
            th'[r] = th[r] /\ file'[r] = file[r] /\ cwd'[r] = cwd[r]
  BY <1>1, MovesTo
<1>3. \A q \in Process : q # p => Lonely(q)' /\ LastOwn(q)'
  BY OthersLonely DEF Takes
<1>4. Lonely(p)' /\ LastOwn(p)'
  BY <1>2 DEF Lonely, LastOwn, Special
<1>5. \A q \in Process : Relies(disk', ents', th'[q])
  <2>1. \A q \in Process : q # p => Relies(disk', ents', th'[q])
    BY OthersRely
  <2> QED BY <1>2, <2>1
<1>6. Live'
  <2>1. \A i \in Keeps(p) : i \in Inum /\ disk[i].type # "free"
    BY DEF Links, Live, Keeps, Firm
  <2>2. \A i \in Firm(u, f, c) : i \in Inum
    BY DEF Firm
  <2>3. j \in Inum /\ disk[j].nlink > 0 => disk[j].type # "free"
    BY DEF Links, Blank
  <2>4. \A i \in Firm(u, f, c) : disk'[i].type # "free"
    BY <2>1, <2>2, <2>3, FsFacts
  <2> QED BY <2>4, StillLive
<1>7. \A i \in Inum : InFlight(i)' = InFlight(i)
  BY <1>2 DEF InFlight
<1>8. \A i \in Inum : Entries(i)' = Entries(i)
  BY DEF Entries
<1>9. \A i \in Inum : Subdirs(i)' = Subdirs(i)
  BY <1>8 DEF Subdirs
<1>10. LinkCount'
  BY <1>7, <1>8, <1>9 DEF Links, LinkCount
<1>11. Blank' /\ Tree'
  BY <1>8, FsFacts DEF Links, Blank, Tree
<1>12. HasDots'
  <2>1. \A q \in Process : th[q].pc = "create_new" => th'[q] = th[q]
    BY <1>2
  <2> QED BY <2>1 DEF Links, HasDots
<1>13. \A q \in Process : Lonely(q)' /\ LastOwn(q)'
  BY <1>3, <1>4
<1>14. \A q \in Process : Lonely(q)' /\ LastOwn(q)' /\ Relies(disk, ents, th[q])'
  BY <1>5, <1>13
<1> QED BY <1>6, <1>10, <1>11, <1>12, <1>14 DEF Links

(***************************************************************************)
(* What the link counts say.                                               *)
(***************************************************************************)
LEMMA NonEmpty ==
    ASSUME NEW S, IsFiniteSet(S), S # {}
    PROVE  Cardinality(S) >= 1
<1>1. Cardinality(S) \in Nat /\ Cardinality(S) # 0
  BY FS_CardinalityType, FS_EmptySet
<1> QED BY <1>1

LEMMA FiniteParts ==
    \A i \in Inum :
       /\ IsFiniteSet(Entries(i)) /\ IsFiniteSet(Subdirs(i)) /\ IsFiniteSet(InFlight(i))
       /\ Cardinality(Entries(i)) \in Nat /\ Cardinality(Subdirs(i)) \in Nat
       /\ Cardinality(InFlight(i)) \in Nat
<1> SUFFICES ASSUME NEW i \in Inum
             PROVE  /\ IsFiniteSet(Entries(i)) /\ IsFiniteSet(Subdirs(i))
                    /\ IsFiniteSet(InFlight(i))
                    /\ Cardinality(Entries(i)) \in Nat /\ Cardinality(Subdirs(i)) \in Nat
                    /\ Cardinality(InFlight(i)) \in Nat
  OBVIOUS
<1>1. IsFiniteSet(Inum \X Name)
  BY FsFacts, FS_Product
<1>2. IsFiniteSet(Entries(i))
  BY <1>1, FS_Subset DEF Entries
<1>3. IsFiniteSet(Subdirs(i))
  BY FsFacts, FS_Subset DEF Subdirs
<1>4. IsFiniteSet(InFlight(i))
  BY FsFacts, FS_Subset DEF InFlight
<1> QED BY <1>2, <1>3, <1>4, FS_CardinalityType

LEMMA HasLink ==
    ASSUME RefInv, Links, NEW i \in Inum
    PROVE  /\ disk[i].nlink \in Nat
           /\ Entries(i) # {} \/ Subdirs(i) # {} \/ InFlight(i) # {} \/ i = ROOT
                 => disk[i].nlink > 0
<1>1. disk[i].nlink = Cardinality(Entries(i)) + Cardinality(Subdirs(i))
                      + Cardinality(InFlight(i)) + lost[i] + One(i = ROOT)
  BY DEF Links, LinkCount
<1>2. /\ IsFiniteSet(Entries(i)) /\ IsFiniteSet(Subdirs(i)) /\ IsFiniteSet(InFlight(i))
      /\ Cardinality(Entries(i)) \in Nat /\ Cardinality(Subdirs(i)) \in Nat
      /\ Cardinality(InFlight(i)) \in Nat
  BY FiniteParts
<1>3. lost[i] \in Nat
  BY DEF RefInv, Types, Inodes
<1>4. One(i = ROOT) \in Nat /\ (i = ROOT => One(i = ROOT) = 1)
  BY DEF One
<1>5. /\ Entries(i) # {} => Cardinality(Entries(i)) >= 1
      /\ Subdirs(i) # {} => Cardinality(Subdirs(i)) >= 1
      /\ InFlight(i) # {} => Cardinality(InFlight(i)) >= 1
  BY <1>2, NonEmpty
<1> QED BY <1>1, <1>2, <1>3, <1>4, <1>5

LEMMA EntryLinks ==
    ASSUME RefInv, Links, NEW d \in Inum, NEW n \in Name, ents[d][n] # None
    PROVE  ents[d][n] \in Inum /\ disk[ents[d][n]].nlink > 0
<1>1. ents[d][n] \in Inum
  BY DEF RefInv, Types, Inodes, Names, MaybeInum
<1>2. <<d, n>> \in Entries(ents[d][n])
  BY DEF Entries
<1> QED BY <1>1, <1>2, HasLink

(* A directory that somebody else has is not being made.                    *)
LEMMA DotsThere ==
    ASSUME RefInv, Links, NEW p \in Process, NEW d \in Keeps(p), disk[d].type = "dir",
           th[p].pc # "create_new"
    PROVE  ents[d]["."] = d /\ ents[d][".."] # None
<1>1. d \in Inum
  BY DEF Keeps, Firm
<1>2. ASSUME NEW q \in Process, th[q].pc = "create_new", th[q].ip = d
      PROVE  FALSE
  <2>1. Special(th[q]) = d /\ q # p
    BY <1>2 DEF Special
  <2> QED BY <1>1, <2>1, FsFacts DEF Links, Lonely
<1> QED BY <1>1, <1>2 DEF Links, HasDots

(* dirlookup() finds an inode that has a link or that p has already.        *)
LEMMA Lookup ==
    ASSUME RefInv, Links, NEW p \in Process, NEW d \in Keeps(p), th[p].pc # "create_new",
           NEW n \in Names, NEW j, j = ents[d][n], j # None, ~Strays(d, n, j)
    PROVE  j \in Inum /\ (disk[j].nlink > 0 \/ j \in Keeps(p))
<1>1. d \in Inum
  BY DEF Keeps, Firm
<1>2. j \in Inum
  BY <1>1 DEF RefInv, Types, Inodes, MaybeInum
<1>3. disk[d].type = "dir"
  BY <1>1 DEF Links, Tree
<1>4. CASE n \in Name
  BY <1>1, <1>2, <1>4, EntryLinks
<1>5. CASE n = "."
  BY <1>2, <1>3, <1>5, DotsThere
<1>6. CASE n = ".."
  <2>1. CASE d = ROOT
    <3>1. j = ROOT
      BY <1>6, <2>1 DEF Links, Tree
    <3> QED BY <1>2, <3>1, HasLink
  <2>2. CASE d # ROOT /\ Entries(d) = {}
    <3>1. disk[j].nlink # 0
      BY <1>6, <2>2 DEF Strays
    <3>2. disk[j].nlink \in Nat
      BY <1>2, HasLink
    <3> QED BY <1>2, <3>1, <3>2
  <2>3. CASE d # ROOT /\ Entries(d) # {}
    <3>1. d \in Subdirs(j)
      BY <1>1, <1>6, <2>3 DEF Subdirs
    <3> QED BY <1>2, <3>1, HasLink
  <2> QED BY <2>1, <2>2, <2>3
<1> QED BY <1>4, <1>5, <1>6 DEF Names, Dots

(***************************************************************************)
(* What the steps have in common.                                          *)
(***************************************************************************)
LEMMA Here ==
    ASSUME RefInv, NEW p \in Process
    PROVE  /\ ThreadOK(th[p]) /\ IsThread(th[p]) /\ Slots(th[p]) /\ Flow(th[p])
           /\ Locks(lock, p, th[p]) /\ Unopened(th[p], file[p])
           /\ th[p].at \in MaybeInum /\ th[p].ip \in MaybeInum /\ th[p].arg \in MaybeInum
           /\ file[p] \in MaybeInum /\ cwd[p] \in Inum
           /\ (th[p].pc \notin Puts => Stage(th[p]) = th[p].pc /\ th[p].ret = "")
           /\ (th[p].pc \in Puts => Stage(th[p]) = th[p].ret)
BY DEF RefInv, Threads, ThreadOK, Slots, Flow, Types, Stage

LEMMA SetMoves ==
    ASSUME RefInv, NEW p \in Process, NEW t, Set(p, t), file' = file, cwd' = cwd
    PROVE  Moves(p, t, file[p], cwd[p])
BY DEF RefInv, Types, Moves, Set

LEMMA CachedIs ==
    ASSUME RefInv
    PROVE  \A i \in Inum : Cached(i) = disk[i] /\ Cached(i) \in Node
BY DEF RefInv, Types, Inodes, Cached, Cache

LEMMA LoadStep ==
    ASSUME RefInv, NEW i \in Inum, NEW j, Ilock(i), LockedGet(i, j),
           disk' = disk, ents' = ents, lost' = lost, strayed' \in BOOLEAN,
           lock' \in [Inum -> Process \cup {Nobody}],
           \A k \in Inum : lock'[k] # Nobody => k = i \/ lock[k] # Nobody
    PROVE  Inodes' /\ Cache'
<1>1. Inodes /\ Cache
  BY DEF RefInv, Types
<1>2. Cached(i) = disk[i] /\ disk[i] \in Node /\ disk[i].type # "free"
  BY CachedIs DEF Ilock
<1>3. mem' = [mem EXCEPT ![i] = disk[i]] /\ valid' = [valid EXCEPT ![i] = TRUE]
  BY <1>2 DEF LockedGet
<1>4. mem' \in [Inum -> Node] /\ valid' \in [Inum -> BOOLEAN]
  BY <1>1, <1>2, <1>3 DEF Inodes
<1>5. Inodes'
  BY <1>1, <1>4 DEF Inodes
<1>6. \A k \in Inum : valid'[k] => mem'[k] = disk[k] /\ disk[k].type # "free"
  BY <1>1, <1>2, <1>3 DEF Inodes, Cache
<1>7. \A k \in Inum : lock'[k] # Nobody => disk[k].type # "free"
  BY <1>1, <1>2 DEF Cache
<1> QED BY <1>5, <1>6, <1>7 DEF Cache

LEMMA TakenCounts ==
    ASSUME RefInv, NEW p \in Process, NEW t, NEW f, NEW c, NEW j, ref' = RefTaken(j),
           \A i \in Inum :
              OwnOf(t, f, c, i) = OwnOf(th[p], file[p], cwd[p], i) + One(i = j)
    PROVE  Counts(p, t, f, c)
<1>1. \A i \in Inum : ref[i] \in Nat
  BY DEF RefInv, Types
<1>2. \A i \in Inum : ref'[i] = ref[i] + One(i = j)
  BY <1>1 DEF RefTaken, One
<1>3. ref' = [i \in Inum |-> ref'[i]]
  BY DEF RefTaken
<1>4. \A i \in Inum : OwnOf(th[p], file[p], cwd[p], i) \in Nat /\ One(i = j) \in Nat
  BY OwnNat DEF One
<1> QED BY <1>1, <1>2, <1>3, <1>4 DEF Counts

LEMMA KeptCounts ==
    ASSUME RefInv, NEW p \in Process, NEW t, NEW f, NEW c, ref' = ref,
           \A i \in Inum : OwnOf(t, f, c, i) = OwnOf(th[p], file[p], cwd[p], i)
    PROVE  Counts(p, t, f, c)
<1>1. ref \in [Inum -> Nat]
  BY DEF RefInv, Types
<1>2. \A i \in Inum : OwnOf(th[p], file[p], cwd[p], i) \in Nat
  BY OwnNat
<1>3. \A i \in Inum : ref'[i] = ref[i] + OwnOf(t, f, c, i)
                                - OwnOf(th[p], file[p], cwd[p], i)
  BY <1>1, <1>2
<1> QED BY <1>1, <1>3 DEF Counts

(* A step that leaves all inodes and locks alone.                           *)
LEMMA QuietStep ==
    ASSUME RefInv, NEW p \in Process, UNCHANGED <<nodeVars, lock>>
    PROVE  Inodes' /\ Cache' /\ LocksKept(p)
BY DEF RefInv, Types, Inodes, Cache, LocksKept, nodeVars, history

(* A call that is in no stage with a lock needs none.                       *)
LEMMA NoLocks ==
    ASSUME NEW t, NEW p, NEW l, Stage(t) \notin AtLocked \cup IpLocked, t.pc # "ifree"
    PROVE  Locks(l, p, t)
BY DEF Locks

(* A step that leaves the inodes, their entries and the links in flight.    *)
LEMMA QuietInv ==
    ASSUME FsInv, NEW p \in Process, NEW u, NEW f, NEW c, Moves(p, u, f, c),
           ThreadOK(u), f \in MaybeInum, c \in Inum, Counts(p, u, f, c),
           Inodes', Cache', LocksKept(p), Locks(lock', p, u), Unopened(u, f),
           disk' = disk, ents' = ents, lost' = lost, strayed => strayed',
           th[p].pc # "create_new", u.pc \notin {"create_new", "ifree"},
           Flies(u) = Flies(th[p]),
           NEW j \in MaybeInum, Firm(u, f, c) \subseteq Keeps(p) \cup {j},
           Links /\ ~strayed' => /\ j = None \/ disk[j].nlink > 0 \/ j \in Keeps(p)
                                 /\ Relies(disk, ents, u)
    PROVE  FsInv'
<1>1. RefInv /\ LinkInv
  BY DEF FsInv
<1>2. RefInv'
  BY <1>1, RefStep
<1>3. ASSUME ~strayed' PROVE Links'
  <2>1. Links
    BY <1>1, <1>3 DEF LinkInv
  <2> QED BY <1>1, <1>3, <2>1, QuietLinks
<1> QED BY <1>2, <1>3 DEF FsInv, LinkInv

(***************************************************************************)
(* Every action keeps the invariant.                                       *)
(***************************************************************************)
LEMMA CallKeeps == ASSUME FsInv, NEW p \in Process, Call(p) PROVE FsInv'
<1> RefInv
  BY DEF FsInv
<1>1. At(p, "idle") /\ UNCHANGED <<nodeVars, lock, cwd, file>>
  BY DEF Call
<1>2. PICK k \in Calls :
         LET i == Start(p, k.path) IN
         /\ k.op \in {"open", "create"} => file[p] = None
         /\ ref' = RefTaken(i)
         /\ Set(p, [Idle EXCEPT
                      !.pc = "walk", !.op = k.op, !.rest = k.path.elems, !.at = i,
                      !.new = IF k.op = "link" THEN k.new ELSE <<>>,
                      !.parent = k.op \in {"create", "mkdir", "mknod", "unlink"},
                      !.found = IF k.op \in {"mkdir", "mknod"} THEN "create" ELSE k.op,
                      !.fail = "idle"])
  BY DEF Call
<1>3. /\ k.op \in {"open", "create", "mkdir", "mknod", "unlink", "link", "chdir"}
      /\ k.path.elems \in Seq(Names) /\ k.path.elems # <<>>
      /\ k.op = "link" => k.new \in Path
  <2>1. /\ k.op \in {"open", "create", "mkdir", "mknod", "unlink", "link", "chdir"}
        /\ k.path \in Path /\ (k.op = "link" => k.new \in Path)
    BY FsAssumption
  <2>2. k.path.elems \in Seq(Names) /\ k.path.elems # <<>>
    BY <2>1 DEF Path, Names, Dots
  <2> QED BY <2>1, <2>2
<1>4. PICK i \in Inum : i = Start(p, k.path)
  BY FsFacts, Here DEF Start
<1>5. PICK t : t = [Idle EXCEPT
                      !.pc = "walk", !.op = k.op, !.rest = k.path.elems, !.at = i,
                      !.new = IF k.op = "link" THEN k.new ELSE <<>>,
                      !.parent = k.op \in {"create", "mkdir", "mknod", "unlink"},
                      !.found = IF k.op \in {"mkdir", "mknod"} THEN "create" ELSE k.op,
                      !.fail = "idle"]
  OBVIOUS
<1>6. Set(p, t) /\ ref' = RefTaken(i)
  BY <1>2, <1>4, <1>5
<1>7. /\ IsThread(t) /\ t.pc = "walk" /\ t.at = i /\ t.ip = None /\ t.arg = None
      /\ t.ret = "" /\ t.rest = k.path.elems /\ t.fail = "idle"
      /\ t.found = IF k.op \in {"mkdir", "mknod"} THEN "create" ELSE k.op
      /\ t.parent = (k.op \in {"create", "mkdir", "mknod", "unlink"})
      /\ t.op = k.op /\ (k.op = "link" => t.new = k.new)
  BY <1>5 DEF Idle, IsThread
<1>8. Stage(t) = "walk"
  BY <1>7 DEF Stage, Puts
<1>9. ThreadOK(t)
  <2>1. Slots(t)
    BY <1>3, <1>7, <1>8, FsFacts DEF Slots, AtStages, IpStages, Puts, MaybeInum
  <2>2. Flow(t)
    <3>1. t.found \in {"open", "create", "unlink", "link", "chdir"}
      BY <1>3, <1>7
    <3>2. /\ t.found \in {"create", "unlink", "link_dir"} => t.parent = TRUE
          /\ t.found \in {"open", "link", "chdir"} => t.parent = FALSE
      <4>1. CASE k.op \in {"create", "mkdir", "mknod", "unlink"}
        <5>1. t.parent = TRUE
          BY <1>7, <4>1, Zenon
        <5>2. t.found \notin {"open", "link", "chdir"}
          BY <1>7, <4>1
        <5> QED BY <5>1, <5>2
      <4>2. CASE k.op \notin {"create", "mkdir", "mknod", "unlink"}
        <5>1. t.parent = FALSE
          <6> DEFINE b == k.op \in {"create", "mkdir", "mknod", "unlink"}
          <6>1. t.parent = b
            BY <1>7, Zenon
          <6>2. b = FALSE
            BY <4>2
          <6> HIDE DEF b
          <6> QED BY <6>1, <6>2
        <5>2. t.found \notin {"create", "unlink", "link_dir"}
          BY <1>3, <1>7, <4>2
        <5> QED BY <5>1, <5>2
      <4> QED BY <4>1, <4>2
    <3>3. t.found = "link" => t.new \in Path
      BY <1>3, <1>7
    <3> QED BY <1>3, <1>7, <1>8, <3>1, <3>2, <3>3 DEF Flow, Labels, Puts
  <2> QED BY <1>7, <2>1, <2>2 DEF ThreadOK
<1>10. Moves(p, t, file[p], cwd[p])
  BY <1>1, <1>6, SetMoves
<1>11. th[p].at = None /\ th[p].ip = None /\ th[p].arg = None /\ th[p].pc = "idle" /\ th[p].ret = ""
  BY <1>1, Here DEF At, Slots, AtStages, IpStages, Puts
<1>12. \A n \in Inum :
          OwnOf(t, file[p], cwd[p], n) = OwnOf(th[p], file[p], cwd[p], n) + One(n = i)
  <2>1. ASSUME NEW f, NEW c, NEW n \in Inum
        PROVE  Among(i, None, None, f, c, n) = Among(None, None, None, f, c, n) + One(n = i)
    BY FsFacts DEF Among, One
  <2>2. CwdOf(t, cwd[p]) = cwd[p] /\ CwdOf(th[p], cwd[p]) = cwd[p]
    BY <1>7, <1>11 DEF CwdOf
  <2>3. ASSUME NEW n \in Inum
        PROVE  OwnOf(t, file[p], cwd[p], n) = OwnOf(th[p], file[p], cwd[p], n) + One(n = i)
    <3>1. OwnOf(t, file[p], cwd[p], n) = Among(i, None, None, file[p], cwd[p], n)
      BY <1>7, <2>2 DEF OwnOf
    <3>2. OwnOf(th[p], file[p], cwd[p], n) = Among(None, None, None, file[p], cwd[p], n)
      BY <1>11, <2>2 DEF OwnOf
    <3> QED BY <2>1, <3>1, <3>2
  <2> QED BY <2>3
<1>13. Counts(p, t, file[p], cwd[p])
  BY <1>6, <1>12, TakenCounts
<1>14. Inodes' /\ Cache' /\ LocksKept(p)
  BY <1>1, QuietStep
<1>15. Locks(lock', p, t)
  BY <1>7, <1>8, NoLocks DEF AtLocked, IpLocked
<1>16. Flies(t) = Flies(th[p]) /\ Firm(t, file[p], cwd[p]) \subseteq Keeps(p) \cup {i}
  <2>1. Flies(t) = None /\ Flies(th[p]) = None
    BY <1>7, <1>11 DEF Flies
  <2> QED BY <1>7, <1>11, <2>1, FsFacts DEF Keeps, Firm, CwdOf
<1>17. ASSUME Links
       PROVE  (disk[i].nlink > 0 \/ i \in Keeps(p)) /\ Relies(disk, ents, t)
  <2>1. i = ROOT \/ i = cwd[p]
    BY <1>4 DEF Start
  <2>2. cwd[p] \in Keeps(p)
    BY <1>11, Here DEF Keeps, Firm, CwdOf
  <2>3. Relies(disk, ents, t)
    BY <1>7, <1>8 DEF Relies, DirStages
  <2> QED BY <1>17, <2>1, <2>2, <2>3, HasLink
<1>18. disk' = disk /\ ents' = ents /\ lost' = lost /\ strayed' = strayed
  BY <1>1 DEF nodeVars, history
<1>19. i \in MaybeInum /\ th[p].pc # "create_new" /\ t.pc \notin {"create_new", "ifree"}
  BY <1>7, <1>11 DEF MaybeInum
<1>20. file[p] \in MaybeInum /\ cwd[p] \in Inum /\ Unopened(t, file[p])
  BY <1>2, <1>7, Here DEF Unopened
<1> QED BY <1>9, <1>10, <1>13, <1>14, <1>15, <1>16, <1>17, <1>18, <1>19, <1>20, QuietInv

LEMMA NoneTaken == ASSUME RefInv PROVE RefTaken(None) = ref
BY FsFacts DEF RefInv, Types, RefTaken

(* The end of a call that drops at, or ip, and changes no inode.            *)
Resting(p) ==
    /\ disk' = disk /\ ents' = ents /\ lost' = lost /\ (strayed => strayed')
    /\ ref' = ref /\ file' = file /\ cwd' = cwd

LEMMA GoPutAt ==
    ASSUME FsInv, NEW p \in Process, th[p].pc \notin Puts \cup {"create_new", "chdir_set"},
           th[p].at \in Inum, NEW l \in {"idle", "link_bad"}, Set(p, PutAt(p, l)),
           Resting(p), Inodes', Cache', LocksKept(p),
           l = "idle" => th[p].ip = None,
           l = "link_bad" => /\ th[p].ip # None
                             /\ Stage(th[p]) \in FlightStages \ {"unlink_dec"}
    PROVE  FsInv'
<1> RefInv
  BY DEF FsInv
<1>1. PICK u : u = PutAt(p, l)
  OBVIOUS
<1>2. /\ IsThread(u) /\ u.pc = "iput" /\ u.arg = th[p].at /\ u.ret = l /\ u.at = None
      /\ u.ip = th[p].ip /\ u.rest = th[p].rest /\ u.op = th[p].op
  <2>1. IsThread(th[p])
    BY Here
  <2> QED BY <1>1, <2>1, PutAtIs
<1>3. /\ ThreadOK(th[p]) /\ th[p].ip \in MaybeInum /\ th[p].rest \in Seq(Names)
      /\ th[p].arg = None /\ th[p].ret = "" /\ Stage(th[p]) = th[p].pc
      /\ file[p] \in MaybeInum /\ cwd[p] \in Inum
  BY Here DEF Slots, Flow
<1>4. Stage(u) = l
  BY <1>2 DEF Stage, Puts
<1>5. ThreadOK(u)
  <2>1. u.ret \in Labels \ (Puts \cup NameStages \cup {"open", "link", "panic"})
    BY <1>2 DEF Labels, Puts, NameStages
  <2>2. u.ret \notin AtStages /\ (u.ret \in IpStages <=> l = "link_bad")
    BY <1>2 DEF AtStages, IpStages
  <2>3. None \in MaybeInum
    BY DEF MaybeInum
  <2> QED BY <1>2, <1>3, <2>1, <2>2, <2>3, PutOK
<1>6. Moves(p, u, file[p], cwd[p])
  BY <1>1, SetMoves DEF Resting
<1>7. Counts(p, u, file[p], cwd[p])
  <2>1. CwdOf(u, cwd[p]) = CwdOf(th[p], cwd[p])
    BY <1>2, <1>3 DEF CwdOf
  <2>2. \A n \in Inum : OwnOf(u, file[p], cwd[p], n) = OwnOf(th[p], file[p], cwd[p], n)
    <3>1. u.at = None /\ u.ip = th[p].ip /\ u.arg = th[p].at /\ th[p].arg = None
      BY <1>2, <1>3
    <3> QED BY <2>1, <3>1, OwnPutAt
  <2> QED BY <2>2, KeptCounts DEF Resting
<1>8. Locks(lock', p, u)
  BY <1>2, <1>4, NoLocks DEF AtLocked, IpLocked
<1>9. Flies(u) = Flies(th[p])
  BY <1>2, <1>4 DEF Flies, FlightStages
<1>10. Firm(u, file[p], cwd[p]) \subseteq Keeps(p) \cup {None}
  BY <1>2, <1>3, FsFacts DEF Firm, Keeps, CwdOf
<1>11. Links => Relies(disk, ents, u)
  <2>1. Links /\ l = "link_bad" => disk[th[p].ip].type # "dir"
    BY DEF Links, Relies
  <2> QED BY <1>2, <1>4, <2>1 DEF Relies, DirStages, FlightStages
<1>12. None \in MaybeInum /\ th[p].pc # "create_new" /\ u.pc \notin {"create_new", "ifree"}
  BY <1>2 DEF MaybeInum
<1>13. disk' = disk /\ ents' = ents /\ lost' = lost /\ (strayed => strayed')
  BY DEF Resting
<1>14. Unopened(u, file[p])
  BY <1>2, Here DEF Unopened
<1> QED BY <1>3, <1>5, <1>6, <1>7, <1>8, <1>9, <1>10, <1>11, <1>12, <1>13, <1>14, QuietInv

LEMMA GoPutIp ==
    ASSUME FsInv, NEW p \in Process, th[p].pc \notin Puts \cup {"create_new", "chdir_set"},
           th[p].ip \in Inum, NEW l \in {"idle", "unlink_bad"}, Set(p, PutIp(p, l)),
           Resting(p), Inodes', Cache', LocksKept(p),
           Stage(th[p]) \notin FlightStages,
           l = "idle" => th[p].at = None,
           l = "unlink_bad" => /\ th[p].at # None /\ lock'[th[p].at] = p
                               /\ Stage(th[p]) \in DirStages
    PROVE  FsInv'
<1> RefInv
  BY DEF FsInv
<1>1. PICK u : u = PutIp(p, l)
  OBVIOUS
<1>2. /\ IsThread(u) /\ u.pc = "iput" /\ u.arg = th[p].ip /\ u.ret = l /\ u.at = th[p].at
      /\ u.ip = None /\ u.rest = th[p].rest /\ u.op = th[p].op
  <2>1. IsThread(th[p])
    BY Here
  <2> QED BY <1>1, <2>1, PutIpIs
<1>3. /\ ThreadOK(th[p]) /\ th[p].at \in MaybeInum /\ th[p].rest \in Seq(Names)
      /\ th[p].arg = None /\ th[p].ret = "" /\ Stage(th[p]) = th[p].pc
      /\ file[p] \in MaybeInum /\ cwd[p] \in Inum
  BY Here DEF Slots, Flow
<1>4. Stage(u) = l
  BY <1>2 DEF Stage, Puts
<1>5. ThreadOK(u)
  <2>1. u.ret \in Labels \ (Puts \cup NameStages \cup {"open", "link", "panic"})
    BY <1>2 DEF Labels, Puts, NameStages
  <2>2. u.ret \notin IpStages /\ (u.ret \in AtStages <=> l = "unlink_bad")
    BY <1>2 DEF AtStages, IpStages
  <2>3. None \in MaybeInum
    BY DEF MaybeInum
  <2> QED BY <1>2, <1>3, <2>1, <2>2, <2>3, PutOK
<1>6. Moves(p, u, file[p], cwd[p])
  BY <1>1, SetMoves DEF Resting
<1>7. Counts(p, u, file[p], cwd[p])
  <2>1. CwdOf(u, cwd[p]) = CwdOf(th[p], cwd[p])
    BY <1>2, <1>3 DEF CwdOf
  <2>2. \A n \in Inum : OwnOf(u, file[p], cwd[p], n) = OwnOf(th[p], file[p], cwd[p], n)
    <3>1. u.at = th[p].at /\ u.ip = None /\ u.arg = th[p].ip /\ th[p].arg = None
      BY <1>2, <1>3
    <3> QED BY <2>1, <3>1, OwnPutIp
  <2> QED BY <2>2, KeptCounts DEF Resting
<1>8. Locks(lock', p, u)
  BY <1>2, <1>4 DEF Locks, AtLocked, IpLocked
<1>9. Flies(u) = Flies(th[p])
  BY <1>4 DEF Flies, FlightStages
<1>10. Firm(u, file[p], cwd[p]) \subseteq Keeps(p) \cup {None}
  BY <1>2, <1>3, FsFacts DEF Firm, Keeps, CwdOf
<1>11. Links => Relies(disk, ents, u)
  <2>1. Links /\ l = "unlink_bad" => disk[th[p].at].type = "dir"
    BY DEF Links, Relies
  <2> QED BY <1>2, <1>4, <2>1 DEF Relies, DirStages, FlightStages
<1>12. None \in MaybeInum /\ th[p].pc # "create_new" /\ u.pc \notin {"create_new", "ifree"}
  BY <1>2 DEF MaybeInum
<1>13. disk' = disk /\ ents' = ents /\ lost' = lost /\ (strayed => strayed')
  BY DEF Resting
<1>14. Unopened(u, file[p])
  BY <1>2, Here DEF Unopened
<1> QED BY <1>3, <1>5, <1>6, <1>7, <1>8, <1>9, <1>10, <1>11, <1>12, <1>13, <1>14, QuietInv

(* ilock() of inode i, which is unlocked again or kept.                     *)
LEMMA LoadFrame ==
    ASSUME RefInv, NEW p \in Process, NEW i \in Inum, NEW j, Ilock(i), LockedGet(i, j),
           disk' = disk, ents' = ents, lost' = lost, strayed' \in BOOLEAN,
           lock' = lock \/ lock' = [lock EXCEPT ![i] = p]
    PROVE  Inodes' /\ Cache' /\ LocksKept(p)
<1>1. lock \in [Inum -> Process \cup {Nobody}] /\ lock[i] = Nobody
  BY DEF RefInv, Types, Inodes, Ilock
<1>2. /\ lock' \in [Inum -> Process \cup {Nobody}]
      /\ \A k \in Inum : lock'[k] # Nobody => k = i \/ lock[k] # Nobody
      /\ \A k \in Inum : lock[k] \notin {p, Nobody} => lock'[k] = lock[k]
  BY <1>1
<1> QED BY <1>2, LoadStep DEF LocksKept

(* releasesleep() of inode i.                                               *)
LEMMA FreeFrame ==
    ASSUME RefInv, NEW p \in Process, NEW i \in Inum, UNCHANGED nodeVars,
           lock[i] = p, lock' = [lock EXCEPT ![i] = Nobody]
    PROVE  Inodes' /\ Cache' /\ LocksKept(p)
<1>1. Inodes /\ Cache
  BY DEF RefInv, Types
<1>2. /\ lock' \in [Inum -> Process \cup {Nobody}]
      /\ \A k \in Inum : lock'[k] # Nobody => lock[k] # Nobody
      /\ \A k \in Inum : lock[k] \notin {p, Nobody} => lock'[k] = lock[k]
  BY <1>1 DEF Inodes
<1> QED BY <1>1, <1>2 DEF Inodes, Cache, LocksKept, nodeVars, history

LEMMA Unchanged ==
    ASSUME UNCHANGED nodeVars
    PROVE  disk' = disk /\ ents' = ents /\ mem' = mem /\ valid' = valid /\ lost' = lost
           /\ strayed' = strayed
BY DEF nodeVars, history

(* From one step of iput() to the next.                                     *)
LEMMA PutsOn ==
    ASSUME RefInv, NEW p \in Process, th[p].pc \in Puts, NEW l \in Puts, NEW u, u = To(p, l)
    PROVE  /\ ThreadOK(u) /\ u.pc = l /\ Stage(u) = Stage(th[p]) /\ Flies(u) = Flies(th[p])
           /\ u.at = th[p].at /\ u.ip = th[p].ip /\ u.arg = th[p].arg /\ u.ret = th[p].ret
           /\ u.op = th[p].op
           /\ \A c : CwdOf(u, c) = CwdOf(th[p], c)
           /\ \A n \in Inum :
                 OwnOf(u, file[p], cwd[p], n) = OwnOf(th[p], file[p], cwd[p], n)
<1> DEFINE t == th[p]
<1>1. ThreadOK(t) /\ IsThread(t) /\ Slots(t) /\ Flow(t)
  BY Here
<1>2. /\ IsThread(u) /\ u.pc = l /\ u.arg = t.arg /\ u.ret = t.ret /\ u.at = t.at
      /\ u.ip = t.ip /\ u.op = t.op /\ u.new = t.new /\ u.rest = t.rest
      /\ u.parent = t.parent /\ u.found = t.found /\ u.fail = t.fail
  BY <1>1, ToIs
<1> HIDE DEF t
<1>3. Stage(u) = Stage(t)
  BY <1>2 DEF Stage, t
<1>4. Slots(u)
  BY <1>1, <1>2, <1>3 DEF Slots, t
<1>5. Flow(u)
  BY <1>1, <1>2, <1>3 DEF Flow, t
<1>6. Flies(u) = Flies(t)
  BY <1>2, <1>3 DEF Flies
<1>7. ASSUME NEW c PROVE CwdOf(u, c) = CwdOf(t, c)
  BY <1>2 DEF CwdOf, t, Puts
<1>8. \A n \in Inum : OwnOf(u, file[p], cwd[p], n) = OwnOf(t, file[p], cwd[p], n)
  BY <1>2, <1>7, OwnSame
<1> QED BY <1>2, <1>3, <1>4, <1>5, <1>6, <1>7, <1>8 DEF ThreadOK, t

(* iput() does not free the inode.                                          *)
LEMMA IputOn ==
    ASSUME FsInv, NEW p \in Process, At(p, "iput"), Set(p, To(p, "iref")),
           UNCHANGED <<nodeVars, lock, ref, cwd, file>>
    PROVE  FsInv'
<1> RefInv
  BY DEF FsInv
<1>1. PICK u : u = To(p, "iref")
  OBVIOUS
<1> DEFINE t == th[p]
<1>2. t.pc = "iput" /\ t.pc \in Puts
  BY DEF At, Puts
<1>3. /\ ThreadOK(u) /\ u.pc = "iref" /\ Stage(u) = Stage(t) /\ Flies(u) = Flies(t)
      /\ u.at = t.at /\ u.ip = t.ip /\ u.arg = t.arg /\ u.ret = t.ret
      /\ u.op = t.op
      /\ \A c : CwdOf(u, c) = CwdOf(t, c)
      /\ \A n \in Inum :
            OwnOf(u, file[p], cwd[p], n) = OwnOf(t, file[p], cwd[p], n)
  <2>1. "iref" \in Puts
    BY DEF Puts
  <2> QED BY <1>1, <1>2, <2>1, PutsOn
<1>4. Moves(p, u, file[p], cwd[p])
  BY <1>1, SetMoves
<1>5. Counts(p, u, file[p], cwd[p])
  BY <1>3, KeptCounts
<1>6. Inodes' /\ Cache' /\ LocksKept(p)
  BY QuietStep
<1>7. Locks(lock', p, u)
  BY <1>3, Here DEF Locks
<1>8. Firm(u, file[p], cwd[p]) \subseteq Keeps(p) \cup {None}
  BY <1>2, <1>3 DEF Firm, Keeps
<1>9. Links => Relies(disk, ents, u)
  BY <1>3 DEF Links, Relies
<1>10. disk' = disk /\ ents' = ents /\ lost' = lost /\ (strayed => strayed')
  BY Unchanged
<1>11. None \in MaybeInum /\ t.pc # "create_new" /\ u.pc \notin {"create_new", "ifree"}
  BY <1>2, <1>3 DEF MaybeInum
<1>12. file[p] \in MaybeInum /\ cwd[p] \in Inum /\ Unopened(u, file[p])
  BY <1>3, Here DEF Unopened
<1> QED BY <1>3, <1>4, <1>5, <1>6, <1>7, <1>8, <1>9, <1>10, <1>11, <1>12, QuietInv

(* iput() gives the reference back and the call goes on.                    *)
LEMMA IputRefKeeps == ASSUME FsInv, NEW p \in Process, IputRef(p) PROVE FsInv'
<1> RefInv
  BY DEF FsInv
<1> DEFINE t == th[p]
<1>1. PICK u : u = IF t.ret = "idle" THEN Idle
                   ELSE [t EXCEPT !.pc = t.ret, !.arg = None, !.ret = ""]
  OBVIOUS
<1>2. Set(p, u) /\ file' = file /\ cwd' = cwd /\ lock' = lock
      /\ disk' = disk /\ ents' = ents /\ lost' = lost /\ strayed' = strayed
  BY <1>1 DEF IputRef, history
<1>3. t.pc = "iref" /\ t.pc \in Puts /\ Stage(t) = t.ret /\ t.arg \in Inum
  BY Here DEF IputRef, At, Puts, Slots, MaybeInum
<1>4. /\ ThreadOK(t) /\ IsThread(t) /\ Slots(t) /\ Flow(t)
  BY Here
<1>5. t.ret \in Labels \ Puts /\ t.ret \notin {"create_new", "unlink_ip", "panic"}
  BY <1>3, <1>4 DEF Flow
<1>6. /\ u.pc = t.ret /\ u.arg = None /\ u.ret = "" /\ u.at = t.at /\ u.ip = t.ip
      /\ Stage(u) = Stage(t) /\ ThreadOK(u) /\ u.op \in {"", t.op}
  <2>1. CASE t.ret = "idle"
    <3>1. u = Idle
      BY <1>1, <2>1
    <3>2. t.at = None /\ t.ip = None
      BY <1>3, <1>4, <2>1 DEF Slots, AtStages, IpStages
    <3>3. Stage(Idle) = "idle"
      BY IdleIs DEF Stage, Puts
    <3> QED BY <1>3, <2>1, <3>1, <3>2, <3>3, IdleIs
  <2>2. CASE t.ret # "idle"
    <3>1. u = [t EXCEPT !.pc = t.ret, !.arg = None, !.ret = ""]
      BY <1>1, <2>2
    <3>2. /\ IsThread(u) /\ u.pc = t.ret /\ u.arg = None /\ u.ret = "" /\ u.at = t.at
          /\ u.ip = t.ip /\ u.op = t.op /\ u.new = t.new /\ u.rest = t.rest
          /\ u.parent = t.parent /\ u.found = t.found /\ u.fail = t.fail
      BY <1>4, <3>1 DEF IsThread
    <3> HIDE DEF t
    <3>3. Stage(u) = Stage(t)
      BY <1>3, <1>5, <3>2 DEF Stage
    <3>4. Slots(u)
      BY <1>3, <1>4, <1>5, <3>2, <3>3 DEF Slots, MaybeInum
    <3>5. Flow(u)
      BY <1>3, <1>4, <1>5, <3>2, <3>3 DEF Flow
    <3> QED BY <3>2, <3>3, <3>4, <3>5 DEF ThreadOK
  <2> QED BY <2>1, <2>2
<1>7. Moves(p, u, file[p], cwd[p])
  BY <1>2, SetMoves
<1>8. CwdOf(u, cwd[p]) = CwdOf(t, cwd[p])
  BY <1>3, <1>6 DEF CwdOf
<1>9. \A n \in Inum : OwnOf(t, file[p], cwd[p], n)
                         = OwnOf(u, file[p], cwd[p], n) + One(n = t.arg)
  <2>1. ASSUME NEW a, NEW b, NEW e, NEW g, NEW j, NEW n \in Inum
        PROVE  Among(a, b, j, g, e, n) = Among(a, b, None, g, e, n) + One(n = j)
    BY FsFacts DEF Among, One
  <2>2. ASSUME NEW n \in Inum
        PROVE  OwnOf(t, file[p], cwd[p], n)
                  = OwnOf(u, file[p], cwd[p], n) + One(n = t.arg)
    <3>1. OwnOf(u, file[p], cwd[p], n)
             = Among(t.at, t.ip, None, file[p], CwdOf(t, cwd[p]), n)
      BY <1>6, <1>8 DEF OwnOf
    <3> QED BY <2>1, <3>1 DEF OwnOf
  <2> QED BY <2>2
<1>10. Counts(p, u, file[p], cwd[p])
  <2>1. ref' = [ref EXCEPT ![t.arg] = @ - 1] /\ ref \in [Inum -> Nat]
    BY DEF IputRef, RefInv, Types
  <2>2. \A n \in Inum : OwnOf(u, file[p], cwd[p], n) \in Nat
    BY OwnNat
  <2>3. \A n \in Inum : ref'[n] = ref[n] - One(n = t.arg)
    BY <1>3, <2>1 DEF One
  <2>4. \A n \in Inum : One(n = t.arg) \in Nat
    BY DEF One
  <2>5. ref' = [n \in Inum |-> ref'[n]]
    BY <2>1
  <2> HIDE DEF t
  <2>6. \A n \in Inum : ref'[n] = ref[n] + OwnOf(u, file[p], cwd[p], n)
                                  - OwnOf(t, file[p], cwd[p], n)
    BY <1>9, <2>1, <2>2, <2>3, <2>4
  <2> QED BY <2>5, <2>6 DEF Counts, t
<1>11. Inodes' /\ Cache' /\ LocksKept(p)
  <2>1. \/ UNCHANGED <<mem, valid>>
        \/ /\ mem' = [mem EXCEPT ![t.arg] = Free]
           /\ valid' = [valid EXCEPT ![t.arg] = FALSE]
    BY DEF IputRef, Invalidated
  <2>2. Free \in Node
    BY DEF Free, Node
  <2>3. Inodes /\ Cache
    BY DEF RefInv, Types
  <2>4. mem' \in [Inum -> Node] /\ valid' \in [Inum -> BOOLEAN]
    BY <1>3, <2>1, <2>2, <2>3 DEF Inodes
  <2>5. \A i \in Inum : valid'[i] => valid[i] /\ mem'[i] = mem[i]
    BY <1>3, <2>1, <2>3 DEF Inodes
  <2> QED BY <1>2, <2>3, <2>4, <2>5 DEF Inodes, Cache, LocksKept
<1>12. Locks(lock', p, u)
  BY <1>2, <1>5, <1>6, Here DEF Locks, Puts
<1>13. Flies(u) = Flies(t)
  BY <1>6 DEF Flies
<1>14. Firm(u, file[p], cwd[p]) \subseteq Keeps(p) \cup {None}
  BY <1>6, <1>8, FsFacts DEF Firm, Keeps
<1>15. Links => Relies(disk, ents, u)
  BY <1>5, <1>6 DEF Links, Relies
<1>16. None \in MaybeInum /\ t.pc # "create_new" /\ u.pc \notin {"create_new", "ifree"}
  BY <1>3, <1>5, <1>6 DEF MaybeInum, Puts
<1>17. file[p] \in MaybeInum /\ cwd[p] \in Inum /\ Unopened(u, file[p])
  BY <1>6, Here DEF Unopened
<1> QED BY <1>2, <1>6, <1>7, <1>10, <1>11, <1>12, <1>13, <1>14, <1>15, <1>16, <1>17, QuietInv

LEMMA PathRest ==
    ASSUME NEW s \in Seq(Names), s # <<>>
    PROVE  Head(s) \in Names /\ Tail(s) \in Seq(Names) /\ (Len(s) # 1 => Tail(s) # <<>>)
<1>1. Len(s) \in Nat /\ Len(s) # 0
  OBVIOUS
<1>2. Head(s) = s[1] /\ s[1] \in Names
  BY <1>1
<1>3. Tail(s) \in Seq(Names) /\ Len(Tail(s)) = Len(s) - 1
  BY <1>1
<1>4. Len(s) # 1 => Len(Tail(s)) # 0
  BY <1>1, <1>3
<1>5. Len(<<>>) = 0
  OBVIOUS
<1>6. Len(s) # 1 => Tail(s) # <<>>
  BY <1>4, <1>5
<1>7. Head(s) \in Names
  BY <1>2
<1>8. Tail(s) \in Seq(Names)
  BY <1>3
<1> QED BY <1>6, <1>7, <1>8

(* What a thread in walk has.                                               *)
LEMMA Walking ==
    ASSUME RefInv, NEW p \in Process, th[p].pc = "walk"
    PROVE  /\ th[p].at \in Inum /\ th[p].arg = None /\ th[p].ret = ""
           /\ Stage(th[p]) = "walk" /\ th[p].rest \in Seq(Names) /\ th[p].rest # <<>>
           /\ th[p].found \in {"open", "create", "unlink", "link", "link_dir", "chdir"}
           /\ th[p].found \in {"create", "unlink", "link_dir"} <=> th[p].parent = TRUE
           /\ th[p].found \in {"open", "link", "chdir"} <=> th[p].parent = FALSE
           /\ th[p].fail = IF th[p].found = "link_dir" THEN "link_bad" ELSE "idle"
           /\ th[p].ip # None <=> th[p].found = "link_dir"
           /\ th[p].found = "link" => th[p].new \in Path
           /\ th[p].found = "open" => th[p].op = "open"
<1> DEFINE t == th[p]
<1>1. Slots(t) /\ Flow(t) /\ Stage(t) = "walk" /\ t.ret = ""
  BY Here DEF Puts
<1> HIDE DEF t
<1>2. t.at \in Inum /\ t.arg = None /\ (t.ip # None <=> t.found = "link_dir")
  BY <1>1, FsFacts DEF Slots, AtStages, IpStages, MaybeInum, Puts, t
<1>3. t.rest \in Seq(Names) /\ t.rest # <<>>
  BY <1>1 DEF Flow, NameStages
<1>4. /\ t.found \in {"open", "create", "unlink", "link", "link_dir", "chdir"}
      /\ t.found \in {"create", "unlink", "link_dir"} => t.parent = TRUE
      /\ t.found \in {"open", "link", "chdir"} => t.parent = FALSE
      /\ t.fail = IF t.found = "link_dir" THEN "link_bad" ELSE "idle"
      /\ t.found = "link" => t.new \in Path
      /\ t.found = "open" => t.op = "open"
  BY <1>1 DEF Flow
<1>5. /\ t.found \in {"create", "unlink", "link_dir"} <=> t.parent = TRUE
      /\ t.found \in {"open", "link", "chdir"} <=> t.parent = FALSE
  BY <1>4
<1> QED BY <1>1, <1>2, <1>3, <1>4, <1>5 DEF t

(* namex() stops at the directory of the last name.                         *)
LEMMA WalkStop ==
    ASSUME FsInv, NEW p \in Process, At(p, "walk"), th[p].parent = TRUE,
           Cached(th[p].at).type = "dir", Ilock(th[p].at), Loaded(th[p].at),
           Set(p, To(p, th[p].found)), UNCHANGED <<disk, ents, history, lock, cwd, file>>
    PROVE  FsInv'
<1> RefInv
  BY DEF FsInv
<1> DEFINE t == th[p]
<1>1. PICK u : u = To(p, t.found)
  OBVIOUS
<1>2. t.pc = "walk" /\ IsThread(t)
  BY Here DEF At
<1>3. /\ t.at \in Inum /\ t.arg = None /\ t.ret = "" /\ Stage(t) = "walk"
      /\ t.rest \in Seq(Names) /\ t.rest # <<>> /\ t.found \in {"create", "unlink", "link_dir"}
      /\ t.ip # None <=> t.found = "link_dir"
  BY <1>2, Walking
<1>4. /\ IsThread(u) /\ u.pc = t.found /\ u.arg = t.arg /\ u.ret = t.ret /\ u.at = t.at
      /\ u.ip = t.ip /\ u.rest = t.rest /\ u.op = t.op
  BY <1>1, <1>2, ToIs
<1>5. Stage(u) = t.found /\ u.pc \notin Puts
  BY <1>3, <1>4 DEF Stage, Puts
<1>6. t.ip \in MaybeInum /\ file[p] \in MaybeInum /\ cwd[p] \in Inum
  BY Here
<1> HIDE DEF t
<1>7. ThreadOK(u)
  <2>1. Slots(u)
    BY <1>3, <1>4, <1>5, <1>6, FsFacts DEF Slots, AtStages, IpStages, MaybeInum
  <2>2. Flow(u)
    BY <1>3, <1>4, <1>5 DEF Flow, Labels, NameStages, Puts
  <2> QED BY <1>4, <2>1, <2>2 DEF ThreadOK
<1>8. Moves(p, u, file[p], cwd[p])
  BY <1>1, SetMoves DEF t
<1>9. CwdOf(u, cwd[p]) = CwdOf(t, cwd[p])
  BY <1>2, <1>3, <1>4 DEF CwdOf
<1>10. Counts(p, u, file[p], cwd[p])
  <2>1. \A n \in Inum : OwnOf(u, file[p], cwd[p], n) = OwnOf(t, file[p], cwd[p], n)
    BY <1>4, <1>9, OwnSame
  <2>2. ref' = ref
    BY NoneTaken DEF Loaded, LockedGet
  <2> QED BY <2>1, <2>2, KeptCounts DEF t
<1>11. Inodes' /\ Cache' /\ LocksKept(p)
  <2>1. strayed' \in BOOLEAN /\ lost' = lost
    BY DEF RefInv, Types, Inodes, history
  <2> QED BY <1>3, <2>1, LoadFrame DEF Loaded, t
<1>12. Locks(lock', p, u)
  BY <1>3, <1>4, <1>5, NoLocks DEF AtLocked, IpLocked
<1>13. Flies(u) = Flies(t)
  BY <1>3, <1>4, <1>5 DEF Flies, FlightStages
<1>14. Firm(u, file[p], cwd[p]) \subseteq Keeps(p) \cup {None}
  BY <1>3, <1>4, <1>9, FsFacts DEF Firm, Keeps, t
<1>15. Links => Relies(disk, ents, u)
  <2>1. disk[t.at].type = "dir"
    BY <1>3, CachedIs DEF t
  <2>2. Links /\ t.ip # None => disk[t.ip].type # "dir"
    BY <1>3 DEF Links, Relies, FlightStages, t
  <2> QED BY <1>3, <1>4, <1>5, <2>1, <2>2 DEF Relies
<1>16. None \in MaybeInum /\ th[p].pc # "create_new" /\ u.pc \notin {"create_new", "ifree"}
  BY <1>2, <1>3, <1>4 DEF MaybeInum, t
<1>17. disk' = disk /\ ents' = ents /\ lost' = lost /\ (strayed => strayed')
  BY DEF history
<1>18. Unopened(u, file[p])
  BY <1>4, Here DEF Unopened, t
<1> QED BY <1>6, <1>7, <1>8, <1>10, <1>11, <1>12, <1>13, <1>14, <1>15, <1>16, <1>17, <1>18,
  QuietInv DEF t

(* namex() fails.                                                           *)
LEMMA WalkFail ==
    ASSUME FsInv, NEW p \in Process, At(p, "walk"), Ilock(th[p].at), Loaded(th[p].at),
           Set(p, PutAt(p, th[p].fail)), UNCHANGED <<disk, ents, history, lock, cwd, file>>
    PROVE  FsInv'
<1> RefInv
  BY DEF FsInv
<1>1. th[p].pc = "walk"
  BY DEF At
<1>2. /\ th[p].at \in Inum /\ Stage(th[p]) = "walk"
      /\ th[p].fail = IF th[p].found = "link_dir" THEN "link_bad" ELSE "idle"
      /\ th[p].ip # None <=> th[p].found = "link_dir"
  BY <1>1, Walking
<1>3. strayed' \in BOOLEAN /\ lost' = lost /\ strayed' = strayed
  BY DEF RefInv, Types, Inodes, history
<1>4. Inodes' /\ Cache' /\ LocksKept(p)
  BY <1>2, <1>3, LoadFrame DEF Loaded
<1>5. Resting(p)
  BY <1>3, NoneTaken DEF Resting, Loaded, LockedGet
<1>6. th[p].fail \in {"idle", "link_bad"}
  BY <1>2
<1>7. th[p].pc \notin Puts \cup {"create_new", "chdir_set"}
  BY <1>1 DEF Puts
<1>8. Stage(th[p]) \in FlightStages \ {"unlink_dec"}
  BY <1>2 DEF FlightStages
<1> QED BY <1>2, <1>4, <1>5, <1>6, <1>7, <1>8, GoPutAt

(* namex() goes on to the next name.                                        *)
LEMMA WalkOn ==
    ASSUME FsInv, NEW p \in Process, At(p, "walk"), NEW last, last = (Len(th[p].rest) = 1),
           th[p].parent # TRUE \/ ~last, NEW j, j # None,
           j = Dirlookup(th[p].at, Head(th[p].rest)),
           Ilock(th[p].at), LockedGet(th[p].at, j),
           Set(p, Put([th[p] EXCEPT !.at = j, !.rest = Tail(th[p].rest)],
                      th[p].at, IF last THEN th[p].found ELSE "walk")),
           strayed' = (strayed \/ Strays(th[p].at, Head(th[p].rest), j)),
           UNCHANGED <<disk, ents, lost, lock, cwd, file>>
    PROVE  FsInv'
<1> RefInv
  BY DEF FsInv
<1> DEFINE t == th[p]
           l == IF last THEN t.found ELSE "walk"
<1>1. PICK v : v = [t EXCEPT !.at = j, !.rest = Tail(t.rest)]
  OBVIOUS
<1>2. PICK u : u = Put(v, t.at, l)
  OBVIOUS
<1>3. t.pc = "walk" /\ IsThread(t)
  BY Here DEF At
<1>4. /\ t.at \in Inum /\ t.arg = None /\ t.ret = "" /\ Stage(t) = "walk"
      /\ t.rest \in Seq(Names) /\ t.rest # <<>>
      /\ t.found \in {"open", "create", "unlink", "link", "link_dir", "chdir"}
      /\ t.found \in {"create", "unlink", "link_dir"} <=> t.parent = TRUE
      /\ t.found \in {"open", "link", "chdir"} <=> t.parent = FALSE
      /\ t.fail = IF t.found = "link_dir" THEN "link_bad" ELSE "idle"
      /\ t.ip # None <=> t.found = "link_dir"
      /\ t.found = "link" => t.new \in Path
      /\ t.found = "open" => t.op = "open"
  BY <1>3, Walking
<1>5. /\ Head(t.rest) \in Names /\ Tail(t.rest) \in Seq(Names)
      /\ ~last => Tail(t.rest) # <<>>
  <2>1. /\ Head(t.rest) \in Names /\ Tail(t.rest) \in Seq(Names)
        /\ Len(t.rest) # 1 => Tail(t.rest) # <<>>
    BY <1>4, PathRest
  <2> QED BY <2>1
<1>6. /\ IsThread(v) /\ v.at = j /\ v.ip = t.ip /\ v.new = t.new /\ v.rest = Tail(t.rest)
      /\ v.op = t.op
      /\ v.parent = t.parent /\ v.found = t.found /\ v.fail = t.fail
  BY <1>1, <1>3 DEF IsThread
<1>7. /\ IsThread(u) /\ u.pc = "iput" /\ u.arg = t.at /\ u.ret = l /\ u.at = j
      /\ u.ip = t.ip /\ u.op = t.op /\ u.new = t.new /\ u.rest = Tail(t.rest)
      /\ u.parent = t.parent /\ u.found = t.found /\ u.fail = t.fail
  BY <1>2, <1>6, PutIs
<1>8. l \in {"walk", "open", "link", "chdir"} /\ (l # "walk" => l = t.found)
      /\ (l = "walk" => ~last)
  <2>1. CASE last
    <3>1. t.parent # TRUE
      BY <2>1
    <3> QED BY <1>4, <2>1, <3>1
  <2>2. CASE ~last
    BY <2>2
  <2> QED BY <2>1, <2>2
<1>9. Set(p, u)
  BY <1>1, <1>2
<1>10. t.ip \in MaybeInum /\ file[p] \in MaybeInum /\ cwd[p] \in Inum
  BY Here
<1>11. j \in Inum
  <2>1. ents[t.at][Head(t.rest)] \in MaybeInum
    BY <1>4, <1>5 DEF RefInv, Types, Inodes
  <2> QED BY <2>1 DEF Dirlookup, MaybeInum
<1> HIDE DEF t, l
<1>12. Stage(u) = l
  BY <1>7 DEF Stage, Puts
<1>13. ThreadOK(u)
  <2>1. Slots(u)
    BY <1>4, <1>7, <1>8, <1>10, <1>11, <1>12, FsFacts DEF Slots, AtStages, IpStages, MaybeInum, Puts
  <2>2. Flow(u)
    BY <1>4, <1>5, <1>7, <1>8, <1>12 DEF Flow, Labels, NameStages, Puts
  <2> QED BY <1>7, <2>1, <2>2 DEF ThreadOK
<1>14. Moves(p, u, file[p], cwd[p])
  BY <1>9, SetMoves
<1>15. CwdOf(u, cwd[p]) = CwdOf(t, cwd[p])
  BY <1>3, <1>4, <1>7, <1>8 DEF CwdOf
<1>16. Counts(p, u, file[p], cwd[p])
  <2>1. \A n \in Inum :
           OwnOf(u, file[p], cwd[p], n) = OwnOf(t, file[p], cwd[p], n) + One(n = j)
    <3>1. u.at = j /\ u.ip = t.ip /\ u.arg = t.at /\ t.arg = None
      BY <1>4, <1>7
    <3> QED BY <1>15, <3>1, OwnTakeAt
  <2>2. ref' = RefTaken(j)
    BY DEF LockedGet
  <2> QED BY <2>1, <2>2, TakenCounts DEF t
<1>17. Inodes' /\ Cache' /\ LocksKept(p)
  <2>1. strayed' \in BOOLEAN
    BY DEF RefInv, Types, Inodes
  <2> QED BY <1>4, <2>1, LoadFrame DEF t
<1>18. Locks(lock', p, u)
  BY <1>7, <1>8, <1>12, NoLocks DEF AtLocked, IpLocked
<1>19. Flies(u) = Flies(t)
  BY <1>4, <1>7, <1>8, <1>12 DEF Flies, FlightStages
<1>20. Firm(u, file[p], cwd[p]) \subseteq Keeps(p) \cup {j}
  BY <1>3, <1>7, <1>15, FsFacts DEF Firm, Keeps, t
<1>21. ASSUME Links, ~strayed'
       PROVE  (disk[j].nlink > 0 \/ j \in Keeps(p)) /\ Relies(disk, ents, u)
  <2>1. t.at \in Keeps(p) /\ th[p].pc # "create_new"
    BY <1>3, <1>4 DEF Keeps, Firm, t
  <2>2. ~Strays(t.at, Head(t.rest), j)
    BY <1>21 DEF t
  <2>3. disk[j].nlink > 0 \/ j \in Keeps(p)
    BY <1>5, <1>21, <2>1, <2>2, Lookup DEF Dirlookup, t
  <2>4. t.ip # None => disk[t.ip].type # "dir"
    BY <1>4, <1>21 DEF Links, Relies, FlightStages, t
  <2> QED BY <1>7, <1>8, <1>12, <2>3, <2>4 DEF Relies, DirStages
<1>22. j \in MaybeInum /\ th[p].pc # "create_new" /\ u.pc \notin {"create_new", "ifree"}
  BY <1>3, <1>7, <1>11 DEF MaybeInum, t
<1>23. disk' = disk /\ ents' = ents /\ lost' = lost /\ (strayed => strayed')
  OBVIOUS
<1>24. Unopened(u, file[p])
  BY <1>7, Here DEF Unopened, t
<1> QED BY <1>10, <1>13, <1>14, <1>16, <1>17, <1>18, <1>19, <1>20, <1>21, <1>22, <1>23,
  <1>24, QuietInv DEF t

LEMMA WalkKeeps == ASSUME FsInv, NEW p \in Process, Walk(p) PROVE FsInv'
<1> DEFINE t == th[p]
           last == Len(t.rest) = 1
           dir == Cached(t.at).type = "dir"
           next == IF dir THEN Dirlookup(t.at, Head(t.rest)) ELSE None
<1>1. At(p, "walk") /\ Ilock(t.at) /\ UNCHANGED <<disk, ents, lost, lock, cwd, file>>
  BY DEF Walk
<1>2. t.parent \in BOOLEAN
  <2>1. RefInv /\ t.pc = "walk"
    BY <1>1 DEF FsInv, At
  <2> QED BY <2>1, Walking
<1>3. \/ /\ dir /\ t.parent /\ last
         /\ Set(p, To(p, t.found)) /\ Loaded(t.at) /\ UNCHANGED strayed
      \/ Set(p, PutAt(p, t.fail)) /\ Loaded(t.at) /\ UNCHANGED strayed
      \/ /\ ~(t.parent /\ last) /\ next # None
         /\ Set(p, Put([t EXCEPT !.at = next, !.rest = Tail(t.rest)],
                       t.at, IF last THEN t.found ELSE "walk"))
         /\ LockedGet(t.at, next)
         /\ strayed' = (strayed \/ Strays(t.at, Head(t.rest), next))
  BY DEF Walk
<1>4. CASE dir /\ t.parent /\ last
           /\ Set(p, To(p, t.found)) /\ Loaded(t.at) /\ UNCHANGED strayed
  <2>1. t.parent = TRUE
    BY <1>2, <1>4
  <2> QED BY <1>1, <1>4, <2>1, WalkStop DEF history
<1>5. CASE Set(p, PutAt(p, t.fail)) /\ Loaded(t.at) /\ UNCHANGED strayed
  BY <1>1, <1>5, WalkFail DEF history
<1>6. CASE /\ ~(t.parent /\ last) /\ next # None
           /\ Set(p, Put([t EXCEPT !.at = next, !.rest = Tail(t.rest)],
                         t.at, IF last THEN t.found ELSE "walk"))
           /\ LockedGet(t.at, next)
           /\ strayed' = (strayed \/ Strays(t.at, Head(t.rest), next))
  <2>1. t.parent # TRUE \/ ~last
    BY <1>2, <1>6
  <2>2. next = Dirlookup(t.at, Head(t.rest))
    BY <1>6
  <2>3. PICK j : j = next
    OBVIOUS
  <2>4. PICK b : b = last
    OBVIOUS
  <2> HIDE DEF next
  <2> QED BY <1>1, <1>6, <2>1, <2>2, <2>3, <2>4, WalkOn
<1> QED BY <1>3, <1>4, <1>5, <1>6

(* The inode of the call becomes the open file.                             *)
LEMMA GoOpen ==
    ASSUME FsInv, NEW p \in Process, th[p].pc \notin Puts \cup {"create_new", "chdir_set"},
           th[p].op \in {"open", "create"}, Stage(th[p]) \notin FlightStages,
           NEW i \in Inum,
           (th[p].at = i /\ th[p].ip = None) \/ (th[p].ip = i /\ th[p].at = None),
           file' = [file EXCEPT ![p] = i], Set(p, Idle), cwd' = cwd, ref' = ref,
           disk' = disk, ents' = ents, lost' = lost, strayed => strayed',
           Inodes', Cache', LocksKept(p)
    PROVE  FsInv'
<1> RefInv
  BY DEF FsInv
<1> DEFINE t == th[p]
<1>1. PICK u : u = Idle
  OBVIOUS
<1>2. /\ ThreadOK(u) /\ u.pc = "idle" /\ u.at = None /\ u.ip = None /\ u.arg = None
      /\ u.ret = "" /\ u.op = "" /\ Stage(u) = "idle"
  BY <1>1, IdleIs DEF Stage, Puts
<1>3. /\ t.arg = None /\ t.ret = "" /\ t.pc # "chdir_set" /\ file[p] = None
      /\ file[p] \in MaybeInum /\ cwd[p] \in Inum
  BY Here DEF Slots, Unopened
<1>4. Moves(p, u, i, cwd[p])
  BY <1>1 DEF Moves, Set, RefInv, Types
<1>5. CwdOf(u, cwd[p]) = cwd[p] /\ CwdOf(t, cwd[p]) = cwd[p]
  BY <1>2, <1>3 DEF CwdOf
<1>6. Counts(p, u, i, cwd[p])
  <2>1. \A n \in Inum : OwnOf(u, i, cwd[p], n) = OwnOf(t, file[p], cwd[p], n)
    <3>1. CASE t.at = i /\ t.ip = None
      <4>1. /\ u.at = None /\ u.ip = t.ip /\ u.arg = t.arg /\ file[p] = None
            /\ CwdOf(u, cwd[p]) = CwdOf(t, cwd[p])
        BY <1>2, <1>3, <1>5, <3>1
      <4>2. \A n \in Inum : OwnOf(u, t.at, cwd[p], n) = OwnOf(t, file[p], cwd[p], n)
        BY <4>1, OwnOpenAt
      <4> QED BY <3>1, <4>2
    <3>2. CASE t.ip = i /\ t.at = None
      <4>1. /\ u.at = t.at /\ u.ip = None /\ u.arg = t.arg /\ file[p] = None
            /\ CwdOf(u, cwd[p]) = CwdOf(t, cwd[p])
        BY <1>2, <1>3, <1>5, <3>2
      <4>2. \A n \in Inum : OwnOf(u, t.ip, cwd[p], n) = OwnOf(t, file[p], cwd[p], n)
        BY <4>1, OwnOpenIp
      <4> QED BY <3>2, <4>2
    <3> QED BY <3>1, <3>2
  <2> QED BY <2>1, KeptCounts
<1>7. Locks(lock', p, u) /\ Unopened(u, i)
  BY <1>2, NoLocks DEF AtLocked, IpLocked, Unopened
<1>8. Flies(u) = Flies(t)
  BY <1>2 DEF Flies, FlightStages
<1>9. Firm(u, i, cwd[p]) \subseteq Keeps(p) \cup {None}
  BY <1>2, <1>5, FsFacts DEF Firm, Keeps
<1>10. Relies(disk, ents, u)
  BY <1>2 DEF Relies, DirStages, FlightStages
<1>11. None \in MaybeInum /\ t.pc # "create_new" /\ u.pc \notin {"create_new", "ifree"}
       /\ i \in MaybeInum
  BY <1>2 DEF MaybeInum
<1> QED BY <1>2, <1>3, <1>4, <1>6, <1>7, <1>8, <1>9, <1>10, <1>11, QuietInv

LEMMA OpenLockKeeps == ASSUME FsInv, NEW p \in Process, OpenLock(p) PROVE FsInv'
<1> RefInv
  BY DEF FsInv
<1>1. th[p].pc = "open"
  BY DEF OpenLock, At
<1>2. /\ th[p].at \in Inum /\ th[p].ip = None /\ th[p].op = "open"
      /\ Stage(th[p]) = "open"
  BY <1>1, Here, FsFacts DEF Slots, Flow, AtStages, IpStages, Puts, MaybeInum
<1>3. /\ disk' = disk /\ ents' = ents /\ lost' = lost /\ strayed' = strayed
      /\ strayed' \in BOOLEAN /\ cwd' = cwd /\ lock' = lock
      /\ Ilock(th[p].at) /\ LockedGet(th[p].at, None) /\ ref' = ref
  BY NoneTaken DEF OpenLock, history, RefInv, Types, Inodes, Loaded, LockedGet
<1>4. Inodes' /\ Cache' /\ LocksKept(p)
  BY <1>2, <1>3, LoadFrame
<1>5. th[p].pc \notin Puts \cup {"create_new", "chdir_set"} /\ Stage(th[p]) \notin FlightStages
  BY <1>1, <1>2 DEF Puts, FlightStages
<1>6. CASE file' = [file EXCEPT ![p] = th[p].at] /\ Set(p, Idle)
  BY <1>2, <1>3, <1>4, <1>5, <1>6, GoOpen
<1>7. CASE Set(p, PutAt(p, "idle")) /\ file' = file
  BY <1>2, <1>3, <1>4, <1>5, <1>7, GoPutAt DEF Resting
<1> QED BY <1>6, <1>7 DEF OpenLock, OpenFile

LEMMA CloseKeeps == ASSUME FsInv, NEW p \in Process, Close(p) PROVE FsInv'
<1> RefInv
  BY DEF FsInv
<1> DEFINE t == th[p]
<1>1. PICK u : u = Put(t, file[p], "idle")
  OBVIOUS
<1>2. /\ t.pc = "idle" /\ file[p] # None /\ file' = [file EXCEPT ![p] = None] /\ Set(p, u)
      /\ UNCHANGED <<nodeVars, ref, lock, cwd>>
  BY <1>1 DEF Close, At
<1>3. /\ t.at = None /\ t.ip = None /\ t.arg = None /\ t.ret = "" /\ IsThread(t)
      /\ t.rest \in Seq(Names) /\ file[p] \in Inum /\ cwd[p] \in Inum /\ Stage(t) = "idle"
      /\ ThreadOK(t)
  BY <1>2, Here DEF Slots, Flow, AtStages, IpStages, Puts, MaybeInum
<1>4. /\ IsThread(u) /\ u.pc = "iput" /\ u.arg = file[p] /\ u.ret = "idle" /\ u.at = None
      /\ u.ip = None /\ u.rest = t.rest
  <2>1. IsThread(t)
    BY <1>3
  <2>2. /\ IsThread(u) /\ u.pc = "iput" /\ u.arg = file[p] /\ u.ret = "idle"
        /\ u.at = t.at /\ u.ip = t.ip /\ u.rest = t.rest
    BY <1>1, <2>1, PutIs
  <2> QED BY <1>3, <2>2
<1>5. Stage(u) = "idle"
  BY <1>4 DEF Stage, Puts
<1>6. ThreadOK(u)
  <2>1. /\ u.ret \in Labels \ (Puts \cup NameStages \cup {"open", "link", "panic"})
        /\ u.ret \notin AtStages /\ u.ret \notin IpStages /\ t.pc \notin Puts
    BY <1>2, <1>4 DEF Labels, Puts, NameStages, AtStages, IpStages
  <2>2. u.at \in MaybeInum /\ u.ip \in MaybeInum /\ u.rest \in Seq(Names) /\ u.arg \in Inum
    BY <1>3, <1>4 DEF MaybeInum
  <2> QED BY <1>3, <1>4, <2>1, <2>2, PutOK
<1>7. Moves(p, u, None, cwd[p])
  BY <1>2 DEF Moves, Set, RefInv, Types
<1>8. CwdOf(u, cwd[p]) = CwdOf(t, cwd[p])
  BY <1>2, <1>3, <1>4 DEF CwdOf
<1>9. Counts(p, u, None, cwd[p])
  <2>1. \A n \in Inum : OwnOf(u, None, cwd[p], n) = OwnOf(t, file[p], cwd[p], n)
    <3>1. u.at = t.at /\ u.ip = t.ip /\ u.arg = file[p] /\ t.arg = None
      BY <1>3, <1>4
    <3> QED BY <1>8, <3>1, OwnClose
  <2> QED BY <1>2, <2>1, KeptCounts
<1>10. Inodes' /\ Cache' /\ LocksKept(p)
  BY <1>2, QuietStep
<1>11. Locks(lock', p, u) /\ Unopened(u, None)
  BY <1>4, <1>5, NoLocks DEF AtLocked, IpLocked, Unopened
<1>12. Flies(u) = Flies(t)
  BY <1>3, <1>5 DEF Flies, FlightStages
<1>13. Firm(u, None, cwd[p]) \subseteq Keeps(p) \cup {None}
  BY <1>4, <1>8, FsFacts DEF Firm, Keeps
<1>14. Relies(disk, ents, u)
  BY <1>4, <1>5 DEF Relies, DirStages, FlightStages
<1>15. None \in MaybeInum /\ t.pc # "create_new" /\ u.pc \notin {"create_new", "ifree"}
  BY <1>2, <1>4 DEF MaybeInum
<1>16. disk' = disk /\ ents' = ents /\ lost' = lost /\ (strayed => strayed')
  BY <1>2, Unchanged
<1> QED BY <1>3, <1>6, <1>7, <1>9, <1>10, <1>11, <1>12, <1>13, <1>14, <1>15, <1>16, QuietInv

LEMMA ChdirLockKeeps == ASSUME FsInv, NEW p \in Process, ChdirLock(p) PROVE FsInv'
<1> RefInv
  BY DEF FsInv
<1> DEFINE t == th[p]
<1>1. t.pc = "chdir"
  BY DEF ChdirLock, At
<1>2. /\ t.at \in Inum /\ t.ip = None /\ t.arg = None /\ t.ret = "" /\ Stage(t) = "chdir"
      /\ IsThread(t) /\ ThreadOK(t) /\ t.rest \in Seq(Names)
      /\ file[p] \in MaybeInum /\ cwd[p] \in Inum
  BY <1>1, Here, FsFacts DEF Slots, Flow, AtStages, IpStages, Puts, MaybeInum
<1>3. /\ disk' = disk /\ ents' = ents /\ lost' = lost /\ strayed' = strayed
      /\ strayed' \in BOOLEAN /\ cwd' = cwd /\ file' = file /\ lock' = lock
      /\ Ilock(t.at) /\ LockedGet(t.at, None) /\ ref' = ref
  BY NoneTaken DEF ChdirLock, history, RefInv, Types, Inodes, Loaded, LockedGet
<1>4. Inodes' /\ Cache' /\ LocksKept(p)
  BY <1>2, <1>3, LoadFrame
<1>5. t.pc \notin Puts \cup {"create_new", "chdir_set"}
  BY <1>1 DEF Puts
<1>6. CASE Set(p, PutAt(p, "idle"))
  BY <1>2, <1>3, <1>4, <1>5, <1>6, GoPutAt DEF Resting
<1>7. CASE Set(p, Put(t, cwd[p], "chdir_set"))
  <2>1. PICK u : u = Put(t, cwd[p], "chdir_set")
    OBVIOUS
  <2>2. /\ IsThread(u) /\ u.pc = "iput" /\ u.arg = cwd[p] /\ u.ret = "chdir_set"
        /\ u.at = t.at /\ u.ip = t.ip /\ u.rest = t.rest /\ u.op = t.op
    <3>1. IsThread(t)
      BY <1>2
    <3> QED BY <2>1, <3>1, PutIs
  <2>3. Stage(u) = "chdir_set"
    BY <2>2 DEF Stage, Puts
  <2>4. ThreadOK(u)
    <3>1. /\ u.ret \in Labels \ (Puts \cup NameStages \cup {"open", "link", "panic"})
          /\ u.ret \in AtStages /\ u.ret \notin IpStages /\ t.pc \notin Puts
      BY <1>5, <2>2 DEF Labels, Puts, NameStages, AtStages, IpStages
    <3>2. /\ u.at \in MaybeInum /\ u.at # None /\ u.ip \in MaybeInum /\ u.ip = None
          /\ u.rest \in Seq(Names) /\ u.arg \in Inum
      BY <1>2, <2>2, FsFacts DEF MaybeInum
    <3> QED BY <1>2, <2>2, <3>1, <3>2, PutOK
  <2>5. Moves(p, u, file[p], cwd[p])
    BY <1>3, <1>7, <2>1, SetMoves
  <2>6. CwdOf(u, cwd[p]) = None /\ CwdOf(t, cwd[p]) = cwd[p]
    BY <1>1, <1>2, <2>2 DEF CwdOf
  <2>7. Counts(p, u, file[p], cwd[p])
    <3>1. \A n \in Inum : OwnOf(u, file[p], cwd[p], n) = OwnOf(t, file[p], cwd[p], n)
      <4>1. u.at = t.at /\ u.ip = t.ip /\ u.arg = cwd[p] /\ t.arg = None
        BY <1>2, <2>2
      <4> QED BY <2>6, <4>1, OwnLeave
    <3> QED BY <1>3, <3>1, KeptCounts
  <2>8. Locks(lock', p, u) /\ Unopened(u, file[p])
    BY <2>2, <2>3, NoLocks, Here DEF AtLocked, IpLocked, Unopened
  <2>9. Flies(u) = Flies(t)
    BY <1>2, <2>3 DEF Flies, FlightStages
  <2>10. Firm(u, file[p], cwd[p]) \subseteq Keeps(p) \cup {None}
    BY <2>2, <2>6, FsFacts DEF Firm, Keeps
  <2>11. Relies(disk, ents, u)
    BY <2>2, <2>3 DEF Relies, DirStages, FlightStages
  <2>12. None \in MaybeInum /\ t.pc # "create_new" /\ u.pc \notin {"create_new", "ifree"}
    BY <1>1, <2>2 DEF MaybeInum
  <2> QED BY <1>2, <1>3, <1>4, <2>4, <2>5, <2>7, <2>8, <2>9, <2>10, <2>11, <2>12, QuietInv
<1> QED BY <1>6, <1>7 DEF ChdirLock

LEMMA ChdirSetKeeps == ASSUME FsInv, NEW p \in Process, ChdirSet(p) PROVE FsInv'
<1> RefInv
  BY DEF FsInv
<1> DEFINE t == th[p]
           c == t.at
<1>1. t.pc = "chdir_set" /\ UNCHANGED <<nodeVars, ref, lock, file>>
  BY DEF ChdirSet, At
<1>2. /\ c \in Inum /\ t.ip = None /\ t.arg = None /\ t.ret = "" /\ Stage(t) = "chdir_set"
      /\ file[p] \in MaybeInum
  BY <1>1, Here, FsFacts DEF Slots, Flow, AtStages, IpStages, Puts, MaybeInum
<1>3. PICK u : u = Idle
  OBVIOUS
<1>4. /\ ThreadOK(u) /\ u.pc = "idle" /\ u.at = None /\ u.ip = None /\ u.arg = None
      /\ u.ret = "" /\ u.op = "" /\ Stage(u) = "idle"
  BY <1>3, IdleIs DEF Stage, Puts
<1>5. Moves(p, u, file[p], c)
  BY <1>3 DEF ChdirSet, Moves, Set, RefInv, Types
<1>6. CwdOf(u, c) = c /\ CwdOf(t, cwd[p]) = None
  BY <1>1, <1>4 DEF CwdOf
<1>7. Counts(p, u, file[p], c)
  <2>1. ASSUME NEW a, NEW f, NEW n \in Inum
        PROVE  Among(None, None, None, f, a, n) = Among(a, None, None, f, None, n)
    BY FsFacts DEF Among, One
  <2>2. \A n \in Inum : OwnOf(u, file[p], c, n) = OwnOf(t, file[p], cwd[p], n)
    <3>1. ASSUME NEW n \in Inum
          PROVE  OwnOf(u, file[p], c, n) = OwnOf(t, file[p], cwd[p], n)
      <4>1. OwnOf(u, file[p], c, n) = Among(None, None, None, file[p], c, n)
        BY <1>4, <1>6 DEF OwnOf
      <4>2. OwnOf(t, file[p], cwd[p], n) = Among(c, None, None, file[p], None, n)
        BY <1>2, <1>6 DEF OwnOf
      <4> QED BY <2>1, <4>1, <4>2
    <3> QED BY <3>1
  <2> QED BY <1>1, <2>2, KeptCounts
<1>8. Inodes' /\ Cache' /\ LocksKept(p)
  BY <1>1, QuietStep
<1>9. Locks(lock', p, u) /\ Unopened(u, file[p])
  BY <1>4, NoLocks DEF AtLocked, IpLocked, Unopened
<1>10. Flies(u) = Flies(t)
  BY <1>2, <1>4 DEF Flies, FlightStages
<1>11. Firm(u, file[p], c) \subseteq Keeps(p) \cup {None}
  BY <1>4, <1>6, FsFacts DEF Firm, Keeps
<1>12. Relies(disk, ents, u)
  BY <1>4 DEF Relies, DirStages, FlightStages
<1>13. None \in MaybeInum /\ t.pc # "create_new" /\ u.pc \notin {"create_new", "ifree"}
  BY <1>1, <1>4 DEF MaybeInum
<1>14. disk' = disk /\ ents' = ents /\ lost' = lost /\ (strayed => strayed')
  BY <1>1, Unchanged
<1> QED BY <1>2, <1>4, <1>5, <1>7, <1>8, <1>9, <1>10, <1>11, <1>12, <1>13, <1>14, QuietInv

(* What a thread has at the label l, if it is in no iput().                 *)
LEMMA AtLabel ==
    ASSUME RefInv, NEW p \in Process, NEW l \in Labels \ Puts, th[p].pc = l
    PROVE  /\ Stage(th[p]) = l /\ th[p].ret = "" /\ th[p].arg = None
           /\ th[p].pc \notin Puts
           /\ l \in AtStages => th[p].at \in Inum
           /\ l \notin AtStages => th[p].at = None
           /\ l \in IpStages => th[p].ip \in Inum
           /\ l \notin IpStages /\ l # "walk" => th[p].ip = None
           /\ th[p].rest \in Seq(Names)
           /\ l \in NameStages => th[p].rest # <<>> /\ Head(th[p].rest) \in Names
           /\ l \in AtLocked => lock[th[p].at] = p
           /\ l \in IpLocked => lock[th[p].ip] = p
<1> DEFINE t == th[p]
<1>1. Slots(t) /\ Flow(t) /\ Stage(t) = l /\ t.ret = "" /\ t.pc \notin Puts
      /\ Locks(lock, p, t)
  BY Here
<1> HIDE DEF t
<1>2. /\ t.arg = None
      /\ l \in AtStages => t.at \in Inum
      /\ l \notin AtStages => t.at = None
      /\ l \in IpStages => t.ip \in Inum
      /\ l \notin IpStages /\ l # "walk" => t.ip = None
  BY <1>1, FsFacts DEF Slots, MaybeInum
<1>3. t.rest \in Seq(Names) /\ (l \in NameStages => t.rest # <<>>)
  BY <1>1 DEF Flow
<1>4. l \in NameStages => Head(t.rest) \in Names
  BY <1>3, PathRest
<1>5. (l \in AtLocked => lock[t.at] = p) /\ (l \in IpLocked => lock[t.ip] = p)
  BY <1>1 DEF Locks
<1> QED BY <1>1, <1>2, <1>3, <1>4, <1>5 DEF t

LEMMA LookupType ==
    ASSUME RefInv, NEW d \in Inum, NEW n \in Names
    PROVE  Dirlookup(d, n) \in MaybeInum
BY DEF RefInv, Types, Inodes, Dirlookup

LEMMA CreateExistsKeeps == ASSUME FsInv, NEW p \in Process, CreateExists(p) PROVE FsInv'
<1> RefInv
  BY DEF FsInv
<1> DEFINE t == th[p]
<1>1. t.pc = "create" /\ IsThread(t)
  BY Here DEF CreateExists, At
<1>2. /\ t.at \in Inum /\ t.ip = None /\ t.arg = None /\ t.ret = "" /\ Stage(t) = "create"
      /\ t.rest \in Seq(Names) /\ Head(t.rest) \in Names /\ t.pc \notin Puts
  BY <1>1, AtLabel DEF Labels, Puts, AtStages, IpStages, NameStages
<1>3. ThreadOK(t) /\ file[p] \in MaybeInum /\ cwd[p] \in Inum
  BY Here
<1>4. PICK j : j = Dirlookup(t.at, Head(t.rest))
  OBVIOUS
<1>5. j \in Inum /\ j # None
  BY <1>2, <1>4, LookupType DEF CreateExists, MaybeInum
<1>6. PICK v : v = PutAt(p, "create_found")
  OBVIOUS
<1>7. PICK u : u = [v EXCEPT !.ip = j]
  OBVIOUS
<1>8. /\ Ilock(t.at) /\ LockedGet(t.at, j) /\ Set(p, u)
      /\ strayed' = (strayed \/ Strays(t.at, Head(t.rest), j))
      /\ UNCHANGED <<disk, ents, lost, lock, cwd, file>>
  BY <1>4, <1>6, <1>7 DEF CreateExists
<1>9. /\ IsThread(v) /\ v.pc = "iput" /\ v.arg = t.at /\ v.ret = "create_found"
      /\ v.at = None /\ v.rest = t.rest /\ v.op = t.op
  BY <1>1, <1>6, PutAtIs
<1>10. /\ IsThread(u) /\ u.pc = "iput" /\ u.arg = t.at /\ u.ret = "create_found"
       /\ u.at = None /\ u.rest = t.rest /\ u.op = t.op /\ u.ip = j
  BY <1>7, <1>9 DEF IsThread
<1> HIDE DEF t
<1>11. Stage(u) = "create_found"
  BY <1>10 DEF Stage, Puts
<1>12. ThreadOK(u)
  <2>1. /\ u.ret \in Labels \ (Puts \cup NameStages \cup {"open", "link", "panic"})
        /\ u.ret \notin AtStages /\ u.ret \in IpStages
    BY <1>10 DEF Labels, Puts, NameStages, AtStages, IpStages
  <2>2. u.at \in MaybeInum /\ u.ip \in MaybeInum /\ u.rest \in Seq(Names) /\ u.arg \in Inum
    BY <1>2, <1>5, <1>10 DEF MaybeInum
  <2> QED BY <1>2, <1>3, <1>5, <1>10, <2>1, <2>2, PutOK
<1>13. Moves(p, u, file[p], cwd[p])
  BY <1>8, SetMoves
<1>14. CwdOf(u, cwd[p]) = CwdOf(t, cwd[p])
  BY <1>1, <1>2, <1>10 DEF CwdOf
<1>15. Counts(p, u, file[p], cwd[p])
  <2>1. \A n \in Inum :
           OwnOf(u, file[p], cwd[p], n) = OwnOf(t, file[p], cwd[p], n) + One(n = j)
    <3>1. u.at = None /\ u.ip = j /\ u.arg = t.at /\ t.ip = None /\ t.arg = None
      BY <1>2, <1>10
    <3> QED BY <1>14, <3>1, OwnTakeFound
  <2>2. ref' = RefTaken(j)
    BY <1>8 DEF LockedGet
  <2> QED BY <2>1, <2>2, TakenCounts DEF t
<1>16. Inodes' /\ Cache' /\ LocksKept(p)
  <2>1. strayed' \in BOOLEAN
    BY <1>8 DEF RefInv, Types, Inodes
  <2> QED BY <1>2, <1>8, <2>1, LoadFrame
<1>17. Locks(lock', p, u) /\ Unopened(u, file[p])
  BY <1>10, <1>11, NoLocks, Here DEF AtLocked, IpLocked, Unopened, t
<1>18. Flies(u) = Flies(t)
  BY <1>2, <1>11 DEF Flies, FlightStages
<1>19. Firm(u, file[p], cwd[p]) \subseteq Keeps(p) \cup {j}
  BY <1>1, <1>10, <1>14, FsFacts DEF Firm, Keeps, t
<1>20. ASSUME Links, ~strayed'
       PROVE  (disk[j].nlink > 0 \/ j \in Keeps(p)) /\ Relies(disk, ents, u)
  <2>1. t.at \in Keeps(p) /\ th[p].pc # "create_new"
    BY <1>1, <1>2 DEF Keeps, Firm, t
  <2>2. ~Strays(t.at, Head(t.rest), j)
    BY <1>8, <1>20
  <2>3. disk[j].nlink > 0 \/ j \in Keeps(p)
    BY <1>2, <1>4, <1>5, <1>20, <2>1, <2>2, Lookup DEF Dirlookup
  <2> QED BY <1>10, <1>11, <2>3 DEF Relies, DirStages, FlightStages
<1>21. j \in MaybeInum /\ th[p].pc # "create_new" /\ u.pc \notin {"create_new", "ifree"}
  BY <1>1, <1>5, <1>10 DEF MaybeInum, t
<1>22. disk' = disk /\ ents' = ents /\ lost' = lost /\ (strayed => strayed')
  BY <1>8
<1> QED BY <1>3, <1>12, <1>13, <1>15, <1>16, <1>17, <1>18, <1>19, <1>20, <1>21, <1>22,
  QuietInv DEF t

LEMMA CreateFoundKeeps == ASSUME FsInv, NEW p \in Process, CreateFound(p) PROVE FsInv'
<1> RefInv
  BY DEF FsInv
<1>1. th[p].pc = "create_found"
  BY DEF CreateFound, At
<1>2. th[p].at = None /\ th[p].ip \in Inum /\ Stage(th[p]) = "create_found"
  BY <1>1, AtLabel DEF Labels, Puts, AtStages, IpStages
<1>3. /\ disk' = disk /\ ents' = ents /\ lost' = lost /\ strayed' = strayed
      /\ strayed' \in BOOLEAN /\ cwd' = cwd /\ lock' = lock
      /\ Ilock(th[p].ip) /\ LockedGet(th[p].ip, None) /\ ref' = ref
  BY NoneTaken DEF CreateFound, history, RefInv, Types, Inodes, Loaded, LockedGet
<1>4. Inodes' /\ Cache' /\ LocksKept(p)
  BY <1>2, <1>3, LoadFrame
<1>5. th[p].pc \notin Puts \cup {"create_new", "chdir_set"} /\ Stage(th[p]) \notin FlightStages
  BY <1>1, <1>2 DEF Puts, FlightStages
<1>6. CASE th[p].op = "create" /\ file' = [file EXCEPT ![p] = th[p].ip] /\ Set(p, Idle)
  BY <1>2, <1>3, <1>4, <1>5, <1>6, GoOpen
<1>7. CASE Set(p, PutIp(p, "idle")) /\ file' = file
  BY <1>2, <1>3, <1>4, <1>5, <1>7, GoPutIp DEF Resting
<1> QED BY <1>6, <1>7 DEF CreateFound, OpenFile

LEMMA CreateDoneKeeps == ASSUME FsInv, NEW p \in Process, CreateDone(p) PROVE FsInv'
<1> RefInv
  BY DEF FsInv
<1>1. th[p].pc = "create_done"
  BY DEF CreateDone, At
<1>2. /\ th[p].at = None /\ th[p].ip \in Inum /\ Stage(th[p]) = "create_done"
      /\ lock[th[p].ip] = p
  BY <1>1, AtLabel DEF Labels, Puts, AtStages, IpStages, IpLocked
<1>3. /\ UNCHANGED nodeVars /\ lock' = [lock EXCEPT ![th[p].ip] = Nobody]
      /\ cwd' = cwd /\ ref' = ref
  BY DEF CreateDone
<1>4. Inodes' /\ Cache' /\ LocksKept(p)
  BY <1>2, <1>3, FreeFrame
<1>5. th[p].pc \notin Puts \cup {"create_new", "chdir_set"} /\ Stage(th[p]) \notin FlightStages
  BY <1>1, <1>2 DEF Puts, FlightStages
<1>6. disk' = disk /\ ents' = ents /\ lost' = lost /\ strayed' = strayed
  BY <1>3, Unchanged
<1>7. CASE th[p].op = "create" /\ file' = [file EXCEPT ![p] = th[p].ip] /\ Set(p, Idle)
  BY <1>2, <1>3, <1>4, <1>5, <1>6, <1>7, GoOpen
<1>8. CASE Set(p, PutIp(p, "idle")) /\ file' = file
  BY <1>2, <1>3, <1>4, <1>5, <1>6, <1>8, GoPutIp DEF Resting
<1> QED BY <1>7, <1>8 DEF CreateDone, OpenFile

LEMMA UnlinkBadKeeps == ASSUME FsInv, NEW p \in Process, UnlinkBad(p) PROVE FsInv'
<1> RefInv
  BY DEF FsInv
<1>1. th[p].pc = "unlink_bad"
  BY DEF UnlinkBad, At
<1>2. /\ th[p].at \in Inum /\ th[p].ip = None /\ lock[th[p].at] = p
  BY <1>1, AtLabel DEF Labels, Puts, AtStages, IpStages, AtLocked
<1>3. /\ UNCHANGED nodeVars /\ lock' = [lock EXCEPT ![th[p].at] = Nobody]
      /\ cwd' = cwd /\ ref' = ref /\ file' = file /\ Set(p, PutAt(p, "idle"))
  BY DEF UnlinkBad
<1>4. Inodes' /\ Cache' /\ LocksKept(p)
  BY <1>2, <1>3, FreeFrame
<1>5. th[p].pc \notin Puts \cup {"create_new", "chdir_set"}
  BY <1>1 DEF Puts
<1>6. disk' = disk /\ ents' = ents /\ lost' = lost /\ strayed' = strayed
  BY <1>3, Unchanged
<1> QED BY <1>2, <1>3, <1>4, <1>5, <1>6, GoPutAt DEF Resting

LEMMA LinkExistsKeeps == ASSUME FsInv, NEW p \in Process, LinkExists(p) PROVE FsInv'
<1> RefInv
  BY DEF FsInv
<1>1. th[p].pc = "link_exists"
  BY DEF LinkExists, At
<1>2. /\ th[p].at \in Inum /\ th[p].ip \in Inum /\ lock[th[p].at] = p
      /\ Stage(th[p]) = "link_exists"
  BY <1>1, AtLabel DEF Labels, Puts, AtStages, IpStages, AtLocked
<1>3. /\ UNCHANGED nodeVars /\ lock' = [lock EXCEPT ![th[p].at] = Nobody]
      /\ cwd' = cwd /\ ref' = ref /\ file' = file /\ Set(p, PutAt(p, "link_bad"))
  BY DEF LinkExists
<1>4. Inodes' /\ Cache' /\ LocksKept(p)
  BY <1>2, <1>3, FreeFrame
<1>5. /\ th[p].pc \notin Puts \cup {"create_new", "chdir_set"} /\ th[p].ip # None
      /\ Stage(th[p]) \in FlightStages \ {"unlink_dec"}
  BY <1>1, <1>2, FsFacts DEF Puts, FlightStages
<1>6. disk' = disk /\ ents' = ents /\ lost' = lost /\ strayed' = strayed
  BY <1>3, Unchanged
<1> QED BY <1>2, <1>3, <1>4, <1>5, <1>6, GoPutAt DEF Resting

LEMMA LinkDoneKeeps == ASSUME FsInv, NEW p \in Process, LinkDone(p) PROVE FsInv'
<1> RefInv
  BY DEF FsInv
<1>1. th[p].pc = "link_done"
  BY DEF LinkDone, At
<1>2. th[p].at = None /\ th[p].ip \in Inum /\ Stage(th[p]) = "link_done"
  BY <1>1, AtLabel DEF Labels, Puts, AtStages, IpStages
<1>3. /\ UNCHANGED <<nodeVars, lock>>
      /\ cwd' = cwd /\ ref' = ref /\ file' = file /\ Set(p, PutIp(p, "idle"))
  BY DEF LinkDone
<1>4. Inodes' /\ Cache' /\ LocksKept(p)
  BY <1>3, QuietStep
<1>5. th[p].pc \notin Puts \cup {"create_new", "chdir_set"} /\ Stage(th[p]) \notin FlightStages
  BY <1>1, <1>2 DEF Puts, FlightStages
<1>6. disk' = disk /\ ents' = ents /\ lost' = lost /\ strayed' = strayed
  BY <1>3, Unchanged
<1> QED BY <1>2, <1>3, <1>4, <1>5, <1>6, GoPutIp DEF Resting

(* panic("ialloc: no inodes").                                              *)
LEMMA NoInodes ==
    ASSUME FsInv, NEW p \in Process, At(p, "create"), Ilock(th[p].at), Loaded(th[p].at),
           Set(p, To(p, "no inodes")), lock' = [lock EXCEPT ![th[p].at] = p],
           UNCHANGED <<disk, ents, history, cwd, file>>
    PROVE  FsInv'
<1> RefInv
  BY DEF FsInv
<1> DEFINE t == th[p]
<1>1. t.pc = "create" /\ IsThread(t)
  BY Here DEF At
<1>2. /\ t.at \in Inum /\ t.ip = None /\ t.arg = None /\ t.ret = "" /\ Stage(t) = "create"
      /\ t.rest \in Seq(Names)
  BY <1>1, AtLabel DEF Labels, Puts, AtStages, IpStages
<1>3. PICK u : u = To(p, "no inodes")
  OBVIOUS
<1>4. /\ IsThread(u) /\ u.pc = "no inodes" /\ u.arg = t.arg /\ u.ret = t.ret /\ u.at = t.at
      /\ u.ip = t.ip /\ u.rest = t.rest /\ u.op = t.op
  BY <1>1, <1>3 DEF IsThread, To
<1> HIDE DEF t
<1>5. Stage(u) = "no inodes"
  BY <1>4 DEF Stage, Puts
<1>6. ThreadOK(u)
  <2>1. Slots(u)
    BY <1>2, <1>4, <1>5, FsFacts DEF Slots, AtStages, IpStages, MaybeInum, Puts
  <2>2. Flow(u)
    BY <1>2, <1>4, <1>5 DEF Flow, Labels, NameStages, Puts
  <2> QED BY <1>4, <2>1, <2>2 DEF ThreadOK
<1>7. Moves(p, u, file[p], cwd[p])
  BY <1>3, SetMoves
<1>8. CwdOf(u, cwd[p]) = CwdOf(t, cwd[p])
  BY <1>1, <1>2, <1>4 DEF CwdOf
<1>9. Counts(p, u, file[p], cwd[p])
  <2>1. \A n \in Inum : OwnOf(u, file[p], cwd[p], n) = OwnOf(t, file[p], cwd[p], n)
    <3>1. u.at = t.at /\ u.ip = t.ip /\ u.arg = t.arg
      BY <1>4
    <3> QED BY <1>8, <3>1 DEF OwnOf
  <2>2. ref' = ref
    BY NoneTaken DEF Loaded, LockedGet
  <2> QED BY <2>1, <2>2, KeptCounts DEF t
<1>10. disk' = disk /\ ents' = ents /\ lost' = lost /\ strayed' = strayed /\ strayed' \in BOOLEAN
  BY DEF history, RefInv, Types, Inodes
<1>11. Inodes' /\ Cache' /\ LocksKept(p)
  BY <1>2, <1>10, LoadFrame DEF Loaded, t
<1>12. Locks(lock', p, u) /\ Unopened(u, file[p])
  <2>1. lock'[t.at] = p
    BY <1>2 DEF RefInv, Types, Inodes, t
  <2> QED BY <1>4, <1>5, <2>1, Here DEF Locks, IpLocked, Unopened, t
<1>13. Flies(u) = Flies(t)
  BY <1>2, <1>5 DEF Flies, FlightStages
<1>14. Firm(u, file[p], cwd[p]) \subseteq Keeps(p) \cup {None}
  BY <1>2, <1>4, <1>8, FsFacts DEF Firm, Keeps, t
<1>15. Relies(disk, ents, u)
  BY <1>4, <1>5 DEF Relies, DirStages, FlightStages
<1>16. /\ None \in MaybeInum /\ th[p].pc # "create_new" /\ u.pc \notin {"create_new", "ifree"}
       /\ file[p] \in MaybeInum /\ cwd[p] \in Inum
  BY <1>1, <1>4, Here DEF MaybeInum, t
<1> QED BY <1>6, <1>7, <1>9, <1>10, <1>11, <1>12, <1>13, <1>14, <1>15, <1>16, QuietInv DEF t

LEMMA UnlinkLockKeeps == ASSUME FsInv, NEW p \in Process, UnlinkLock(p) PROVE FsInv'
<1> RefInv
  BY DEF FsInv
<1> DEFINE t == th[p]
<1>1. t.pc = "unlink" /\ IsThread(t)
  BY Here DEF UnlinkLock, At
<1>2. /\ t.at \in Inum /\ t.ip = None /\ t.arg = None /\ t.ret = "" /\ Stage(t) = "unlink"
      /\ t.rest \in Seq(Names) /\ t.rest # <<>> /\ Head(t.rest) \in Names /\ t.pc \notin Puts
  BY <1>1, AtLabel DEF Labels, Puts, AtStages, IpStages, NameStages
<1>3. /\ disk' = disk /\ ents' = ents /\ lost' = lost /\ strayed' = strayed
      /\ strayed' \in BOOLEAN /\ cwd' = cwd /\ file' = file /\ Ilock(t.at)
  BY DEF UnlinkLock, history, RefInv, Types, Inodes
<1>4. CASE Set(p, PutAt(p, "idle")) /\ Loaded(t.at) /\ UNCHANGED lock
  <2>1. LockedGet(t.at, None) /\ ref' = ref
    BY <1>4, NoneTaken DEF Loaded, LockedGet
  <2>2. Inodes' /\ Cache' /\ LocksKept(p)
    BY <1>2, <1>3, <1>4, <2>1, LoadFrame
  <2>3. t.pc \notin Puts \cup {"create_new", "chdir_set"}
    BY <1>1 DEF Puts
  <2> QED BY <1>2, <1>3, <1>4, <2>1, <2>2, <2>3, GoPutAt DEF Resting
<1>5. ASSUME NEW j, j = Dirlookup(t.at, Head(t.rest)), Head(t.rest) \notin Dots, j # None,
             Set(p, [t EXCEPT !.pc = "unlink_ip", !.ip = j]), LockedGet(t.at, j),
             lock' = [lock EXCEPT ![t.at] = p]
      PROVE  FsInv'
  <2>1. j \in Inum
    BY <1>2, <1>5, LookupType DEF MaybeInum
  <2>2. PICK u : u = [t EXCEPT !.pc = "unlink_ip", !.ip = j]
    OBVIOUS
  <2>3. /\ IsThread(u) /\ u.pc = "unlink_ip" /\ u.arg = t.arg /\ u.ret = t.ret
        /\ u.at = t.at /\ u.ip = j /\ u.rest = t.rest /\ u.op = t.op
    BY <1>1, <2>2 DEF IsThread
  <2>4. Moves(p, u, file[p], cwd[p])
    BY <1>3, <1>5, <2>2, SetMoves
  <2> HIDE DEF t
  <2>5. Stage(u) = "unlink_ip"
    BY <2>3 DEF Stage, Puts
  <2>6. ThreadOK(u)
    <3>1. Slots(u)
      BY <1>2, <2>1, <2>3, <2>5, FsFacts DEF Slots, AtStages, IpStages, MaybeInum, Puts
    <3>2. Flow(u)
      BY <1>2, <2>3, <2>5 DEF Flow, Labels, NameStages, Puts
    <3> QED BY <2>3, <3>1, <3>2 DEF ThreadOK
  <2>7. CwdOf(u, cwd[p]) = CwdOf(t, cwd[p])
    BY <1>1, <1>2, <2>3 DEF CwdOf
  <2>8. Counts(p, u, file[p], cwd[p])
    <3>1. \A n \in Inum :
             OwnOf(u, file[p], cwd[p], n) = OwnOf(t, file[p], cwd[p], n) + One(n = j)
      <4>1. u.at = t.at /\ u.ip = j /\ u.arg = t.arg /\ t.ip = None
        BY <1>2, <2>3
      <4> QED BY <2>7, <4>1, OwnTakeIp
    <3>2. ref' = RefTaken(j)
      BY <1>5 DEF LockedGet
    <3> QED BY <3>1, <3>2, TakenCounts DEF t
  <2>9. Inodes' /\ Cache' /\ LocksKept(p)
    BY <1>2, <1>3, <1>5, LoadFrame
  <2>10. Locks(lock', p, u) /\ Unopened(u, file[p])
    <3>1. lock'[t.at] = p
      BY <1>2, <1>5 DEF RefInv, Types, Inodes
    <3> QED BY <2>3, <2>5, <3>1, Here DEF Locks, IpLocked, Unopened, t
  <2>11. Flies(u) = Flies(t)
    BY <1>2, <2>5 DEF Flies, FlightStages
  <2>12. Firm(u, file[p], cwd[p]) \subseteq Keeps(p) \cup {j}
    BY <1>2, <2>3, <2>7, FsFacts DEF Firm, Keeps, t
  <2>13. Head(t.rest) \in Name
    BY <1>2, <1>5 DEF Names
  <2>14. ASSUME Links PROVE disk[j].nlink > 0 /\ Relies(disk, ents, u)
    <3>1. disk[j].nlink > 0
      BY <1>2, <1>5, <2>13, <2>14, EntryLinks DEF Dirlookup
    <3>2. disk[t.at].type = "dir"
      BY <1>2, <2>14 DEF Links, Relies, DirStages, t
    <3> QED BY <1>5, <2>3, <2>5, <2>13, <3>1, <3>2 DEF Relies, FlightStages, Dirlookup
  <2>15. j \in MaybeInum /\ th[p].pc # "create_new" /\ u.pc \notin {"create_new", "ifree"}
         /\ file[p] \in MaybeInum /\ cwd[p] \in Inum
    BY <1>1, <2>1, <2>3, Here DEF MaybeInum, t
  <2> QED BY <1>3, <2>4, <2>6, <2>8, <2>9, <2>10, <2>11, <2>12, <2>14, <2>15, QuietInv DEF t
<1>6. PICK j : j = Dirlookup(t.at, Head(t.rest))
  OBVIOUS
<1> QED BY <1>4, <1>5, <1>6 DEF UnlinkLock

(* The old path of link() is a directory.                                   *)
LEMMA LinkIpDir ==
    ASSUME FsInv, NEW p \in Process, At(p, "link"), Ilock(th[p].at), Loaded(th[p].at),
           Set(p, PutAt(p, "idle")), UNCHANGED <<disk, ents, history, lock, cwd, file>>
    PROVE  FsInv'
<1> RefInv
  BY DEF FsInv
<1>1. th[p].pc = "link"
  BY DEF At
<1>2. th[p].at \in Inum /\ th[p].ip = None
  BY <1>1, AtLabel DEF Labels, Puts, AtStages, IpStages
<1>3. /\ lost' = lost /\ strayed' = strayed /\ strayed' \in BOOLEAN
      /\ LockedGet(th[p].at, None) /\ ref' = ref
  BY NoneTaken DEF history, RefInv, Types, Inodes, Loaded, LockedGet
<1>4. Inodes' /\ Cache' /\ LocksKept(p)
  BY <1>2, <1>3, LoadFrame
<1>5. th[p].pc \notin Puts \cup {"create_new", "chdir_set"}
  BY <1>1 DEF Puts
<1> QED BY <1>2, <1>3, <1>4, <1>5, GoPutAt DEF Resting

(* The new name of link() exists.                                           *)
LEMMA LinkDirExists ==
    ASSUME FsInv, NEW p \in Process, At(p, "link_dir"), Ilock(th[p].at), NEW j, j # None,
           j = Dirlookup(th[p].at, Head(th[p].rest)), LockedGet(th[p].at, j),
           Set(p, Put(th[p], j, "link_exists")), lock' = [lock EXCEPT ![th[p].at] = p],
           strayed' = (strayed \/ Strays(th[p].at, Head(th[p].rest), j)),
           UNCHANGED <<disk, ents, lost, cwd, file>>
    PROVE  FsInv'
<1> RefInv
  BY DEF FsInv
<1> DEFINE t == th[p]
<1>1. t.pc = "link_dir" /\ IsThread(t)
  BY Here DEF At
<1>2. /\ t.at \in Inum /\ t.ip \in Inum /\ t.arg = None /\ t.ret = "" /\ Stage(t) = "link_dir"
      /\ t.rest \in Seq(Names) /\ Head(t.rest) \in Names /\ t.pc \notin Puts
  BY <1>1, AtLabel DEF Labels, Puts, AtStages, IpStages, NameStages
<1>3. j \in Inum
  BY <1>2, LookupType DEF MaybeInum
<1>4. PICK u : u = Put(t, j, "link_exists")
  OBVIOUS
<1>5. /\ IsThread(u) /\ u.pc = "iput" /\ u.arg = j /\ u.ret = "link_exists"
      /\ u.at = t.at /\ u.ip = t.ip /\ u.rest = t.rest /\ u.op = t.op
  <2>1. IsThread(t)
    BY <1>1
  <2> QED BY <1>4, <2>1, PutIs
<1>6. Moves(p, u, file[p], cwd[p])
  BY <1>4, SetMoves
<1> HIDE DEF t
<1>7. Stage(u) = "link_exists"
  BY <1>5 DEF Stage, Puts
<1>8. ThreadOK(u)
  <2>1. /\ u.ret \in Labels \ (Puts \cup NameStages \cup {"open", "link", "panic"})
        /\ u.ret \in AtStages /\ u.ret \in IpStages
    BY <1>5 DEF Labels, Puts, NameStages, AtStages, IpStages
  <2>2. /\ u.at \in MaybeInum /\ u.ip \in MaybeInum /\ u.rest \in Seq(Names) /\ u.arg \in Inum
        /\ u.at # None /\ u.ip # None
    BY <1>2, <1>3, <1>5, FsFacts DEF MaybeInum
  <2>3. ThreadOK(t)
    BY Here DEF t
  <2> QED BY <1>2, <1>5, <2>1, <2>2, <2>3, PutOK
<1>9. CwdOf(u, cwd[p]) = CwdOf(t, cwd[p])
  BY <1>1, <1>2, <1>5 DEF CwdOf
<1>10. Counts(p, u, file[p], cwd[p])
  <2>1. \A n \in Inum :
           OwnOf(u, file[p], cwd[p], n) = OwnOf(t, file[p], cwd[p], n) + One(n = j)
    <3>1. u.at = t.at /\ u.ip = t.ip /\ u.arg = j /\ t.arg = None
      BY <1>2, <1>5
    <3> QED BY <1>9, <3>1, OwnTakeArg
  <2>2. ref' = RefTaken(j)
    BY DEF LockedGet
  <2> QED BY <2>1, <2>2, TakenCounts DEF t
<1>11. Inodes' /\ Cache' /\ LocksKept(p)
  <2>1. strayed' \in BOOLEAN
    BY DEF RefInv, Types, Inodes
  <2> QED BY <1>2, <2>1, LoadFrame DEF t
<1>12. Locks(lock', p, u) /\ Unopened(u, file[p])
  <2>1. lock'[t.at] = p
    BY <1>2 DEF RefInv, Types, Inodes, t
  <2> QED BY <1>5, <1>7, <2>1, Here DEF Locks, IpLocked, Unopened, t
<1>13. Flies(u) = Flies(t)
  BY <1>2, <1>5, <1>7 DEF Flies, FlightStages
<1>14. Firm(u, file[p], cwd[p]) \subseteq Keeps(p) \cup {j}
  BY <1>2, <1>5, <1>9, FsFacts DEF Firm, Keeps, t
<1>15. ASSUME Links, ~strayed'
       PROVE  (disk[j].nlink > 0 \/ j \in Keeps(p)) /\ Relies(disk, ents, u)
  <2>1. t.at \in Keeps(p) /\ th[p].pc # "create_new"
    BY <1>1, <1>2 DEF Keeps, Firm, t
  <2>2. ~Strays(t.at, Head(t.rest), j)
    BY <1>15 DEF t
  <2>3. disk[j].nlink > 0 \/ j \in Keeps(p)
    BY <1>2, <1>3, <1>15, <2>1, <2>2, Lookup DEF Dirlookup, t
  <2>4. disk[t.at].type = "dir" /\ disk[t.ip].type # "dir"
    BY <1>2, <1>15, FsFacts DEF Links, Relies, DirStages, FlightStages, t
  <2> QED BY <1>5, <1>7, <2>3, <2>4 DEF Relies
<1>16. /\ j \in MaybeInum /\ th[p].pc # "create_new" /\ u.pc \notin {"create_new", "ifree"}
       /\ file[p] \in MaybeInum /\ cwd[p] \in Inum
  BY <1>1, <1>3, <1>5, Here DEF MaybeInum, t
<1>17. disk' = disk /\ ents' = ents /\ lost' = lost /\ (strayed => strayed')
  OBVIOUS
<1> QED BY <1>6, <1>8, <1>10, <1>11, <1>12, <1>13, <1>14, <1>15, <1>16, <1>17, QuietInv DEF t

(* unlink() finds a directory with entries, or would panic.                 *)
LEMMA UnlinkIpHere ==
    ASSUME RefInv, NEW p \in Process, th[p].pc = "unlink_ip"
    PROVE  /\ th[p].at \in Inum /\ th[p].ip \in Inum /\ th[p].arg = None /\ th[p].ret = ""
           /\ Stage(th[p]) = "unlink_ip" /\ th[p].rest \in Seq(Names) /\ th[p].rest # <<>>
           /\ lock[th[p].at] = p /\ IsThread(th[p])
           /\ th[p].pc \notin Puts \cup {"create_new", "chdir_set"}
<1>1. IsThread(th[p])
  BY Here
<1> QED BY <1>1, AtLabel DEF Labels, Puts, AtStages, IpStages, NameStages, AtLocked

LEMMA UnlinkIpFull ==
    ASSUME FsInv, NEW p \in Process, At(p, "unlink_ip"), Ilock(th[p].ip),
           Loaded(th[p].ip), Set(p, PutIp(p, "unlink_bad")),
           UNCHANGED <<disk, ents, lock, history, cwd, file>>
    PROVE  FsInv'
<1> RefInv
  BY DEF FsInv
<1>1. th[p].pc = "unlink_ip"
  BY DEF At
<1>2. /\ th[p].at \in Inum /\ th[p].ip \in Inum /\ Stage(th[p]) = "unlink_ip"
      /\ lock[th[p].at] = p /\ th[p].pc \notin Puts \cup {"create_new", "chdir_set"}
  BY <1>1, UnlinkIpHere
<1>3. /\ lost' = lost /\ strayed' = strayed /\ strayed' \in BOOLEAN
      /\ LockedGet(th[p].ip, None) /\ ref' = ref
  BY NoneTaken DEF history, RefInv, Types, Inodes, Loaded, LockedGet
<1>4. Inodes' /\ Cache' /\ LocksKept(p)
  BY <1>2, <1>3, LoadFrame
<1>5. th[p].at # None /\ Stage(th[p]) \in DirStages /\ Stage(th[p]) \notin FlightStages
  BY <1>2, FsFacts DEF DirStages, FlightStages
<1> QED BY <1>2, <1>3, <1>4, <1>5, GoPutIp DEF Resting

LEMMA UnlinkIpPanic ==
    ASSUME FsInv, NEW p \in Process, At(p, "unlink_ip"), Ilock(th[p].ip),
           Cached(th[p].ip).nlink < 1, Loaded(th[p].ip), Set(p, To(p, "panic")),
           UNCHANGED <<disk, ents, lock, history, cwd, file>>
    PROVE  FsInv'
<1> RefInv
  BY DEF FsInv
<1> DEFINE t == th[p]
<1>1. t.pc = "unlink_ip"
  BY DEF At
<1>2. /\ t.at \in Inum /\ t.ip \in Inum /\ t.arg = None /\ t.ret = ""
      /\ Stage(t) = "unlink_ip" /\ t.rest \in Seq(Names) /\ lock[t.at] = p /\ IsThread(t)
  BY <1>1, UnlinkIpHere
<1>3. PICK u : u = To(p, "panic")
  OBVIOUS
<1>4. /\ IsThread(u) /\ u.pc = "panic" /\ u.arg = t.arg /\ u.ret = t.ret /\ u.at = t.at
      /\ u.ip = t.ip /\ u.rest = t.rest /\ u.op = t.op
  BY <1>2, <1>3 DEF IsThread, To
<1> HIDE DEF t
<1>5. Stage(u) = "panic"
  BY <1>4 DEF Stage, Puts
<1>6. ThreadOK(u)
  <2>1. Slots(u)
    BY <1>2, <1>4, <1>5, FsFacts DEF Slots, AtStages, IpStages, MaybeInum, Puts
  <2>2. Flow(u)
    BY <1>2, <1>4, <1>5 DEF Flow, Labels, NameStages, Puts
  <2> QED BY <1>4, <2>1, <2>2 DEF ThreadOK
<1>7. Moves(p, u, file[p], cwd[p])
  BY <1>3, SetMoves
<1>8. CwdOf(u, cwd[p]) = CwdOf(t, cwd[p])
  BY <1>1, <1>2, <1>4 DEF CwdOf
<1>9. Counts(p, u, file[p], cwd[p])
  <2>1. \A n \in Inum : OwnOf(u, file[p], cwd[p], n) = OwnOf(t, file[p], cwd[p], n)
    <3>1. u.at = t.at /\ u.ip = t.ip /\ u.arg = t.arg
      BY <1>4
    <3> QED BY <1>8, <3>1 DEF OwnOf
  <2>2. ref' = ref
    BY NoneTaken DEF Loaded, LockedGet
  <2> QED BY <2>1, <2>2, KeptCounts DEF t
<1>10. disk' = disk /\ ents' = ents /\ lost' = lost /\ strayed' = strayed /\ strayed' \in BOOLEAN
  BY DEF history, RefInv, Types, Inodes
<1>11. Inodes' /\ Cache' /\ LocksKept(p)
  BY <1>2, <1>10, LoadFrame DEF Loaded, t
<1>12. Locks(lock', p, u) /\ Unopened(u, file[p])
  BY <1>2, <1>4, <1>5, Here DEF Locks, IpLocked, Unopened, t
<1>13. Flies(u) = Flies(t)
  BY <1>2, <1>5 DEF Flies, FlightStages
<1>14. Firm(u, file[p], cwd[p]) \subseteq Keeps(p) \cup {None}
  BY <1>2, <1>4, <1>8, FsFacts DEF Firm, Keeps, t
<1>15. ~Links
  <2> SUFFICES ASSUME Links PROVE FALSE
    OBVIOUS
  <2>1. Head(t.rest) \in Name /\ ents[t.at][Head(t.rest)] = t.ip
    BY <1>1 DEF Links, Relies, t
  <2>2. disk[t.ip].nlink > 0 /\ disk[t.ip].nlink \in Nat
    BY <1>2, <2>1, EntryLinks, HasLink, FsFacts
  <2>3. disk[t.ip].nlink < 1
    BY <1>2, CachedIs DEF t
  <2> QED BY <2>2, <2>3
<1>16. /\ None \in MaybeInum /\ th[p].pc # "create_new" /\ u.pc \notin {"create_new", "ifree"}
       /\ file[p] \in MaybeInum /\ cwd[p] \in Inum
  BY <1>1, <1>4, Here DEF MaybeInum, t
<1> QED BY <1>6, <1>7, <1>9, <1>10, <1>11, <1>12, <1>13, <1>14, <1>15, <1>16, QuietInv DEF t

(***************************************************************************)
(* Steps that change links.                                                *)
(***************************************************************************)
LEMMA Replace ==
    ASSUME NEW S, IsFiniteSet(S), NEW R, NEW x, \A y : y # x => (y \in S <=> y \in R)
    PROVE  /\ IsFiniteSet(R)
           /\ Cardinality(R) = Cardinality(S) - One(x \in S) + One(x \in R)
<1>1. Cardinality(S) \in Nat
  BY FS_CardinalityType
<1>2. CASE x \in S /\ x \in R
  <2>1. R = S
    BY <1>2
  <2> QED BY <1>1, <1>2, <2>1 DEF One
<1>3. CASE x \in S /\ x \notin R
  <2>1. R = S \ {x}
    BY <1>3
  <2>2. IsFiniteSet(S \ {x}) /\ Cardinality(S \ {x}) = Cardinality(S) - 1
    BY <1>3, FS_RemoveElement
  <2> QED BY <1>1, <1>3, <2>1, <2>2 DEF One
<1>4. CASE x \notin S /\ x \in R
  <2>1. R = S \cup {x}
    BY <1>4
  <2>2. IsFiniteSet(S \cup {x}) /\ Cardinality(S \cup {x}) = Cardinality(S) + 1
    BY <1>4, FS_AddElement
  <2> QED BY <1>1, <1>4, <2>1, <2>2 DEF One
<1>5. CASE x \notin S /\ x \notin R
  <2>1. R = S
    BY <1>5
  <2> QED BY <1>1, <1>5, <2>1 DEF One
<1> QED BY <1>2, <1>3, <1>4, <1>5

LEMMA OneNat == ASSUME NEW b PROVE One(b) \in Nat
BY DEF One

(* Flight of process p.                                                     *)
LEMMA FlightStep ==
    ASSUME RefInv, NEW p \in Process, NEW u, NEW f, NEW c, Moves(p, u, f, c), NEW i \in Inum
    PROVE  Cardinality(InFlight(i)')
              = Cardinality(InFlight(i)) - One(Flies(th[p]) = i) + One(Flies(u) = i)
<1>1. /\ th'[p] = u
      /\ \A r \in Process : r # p => th'[r] = th[r]
  BY MovesTo DEF RefInv
<1>2. IsFiniteSet(InFlight(i))
  BY FiniteParts
<1>3. \A y : y # p => (y \in InFlight(i) <=> y \in InFlight(i)')
  BY <1>1 DEF InFlight
<1>4. (p \in InFlight(i) <=> Flies(th[p]) = i) /\ (p \in InFlight(i)' <=> Flies(u) = i)
  BY <1>1 DEF InFlight
<1>5. Cardinality(InFlight(i)')
         = Cardinality(InFlight(i)) - One(p \in InFlight(i)) + One(p \in InFlight(i)')
  BY <1>2, <1>3, Replace
<1>6. One(p \in InFlight(i)) = One(Flies(th[p]) = i)
      /\ One(p \in InFlight(i)') = One(Flies(u) = i)
  BY <1>4 DEF One
<1> QED BY <1>5, <1>6

(* One entry x and one subdirectory s may change.                           *)
SameBut(x, s) ==
    \A i \in Inum : /\ \A y : y # x => (y \in Entries(i) <=> y \in Entries(i)')
                    /\ \A y : y # s => (y \in Subdirs(i) <=> y \in Subdirs(i)')

Change(x, s, t, u, i) ==
    One(x \in Entries(i)') - One(x \in Entries(i))
    + One(s \in Subdirs(i)') - One(s \in Subdirs(i))
    + One(Flies(u) = i) - One(Flies(t) = i)

LEMMA SumStep ==
    ASSUME RefInv, Links, NEW p \in Process, NEW u, NEW f, NEW c, Moves(p, u, f, c),
           lost' = lost, NEW x, NEW s, SameBut(x, s),
           \A i \in Inum : disk'[i].nlink = disk[i].nlink + Change(x, s, th[p], u, i)
    PROVE  LinkCount'
<1>1. ASSUME NEW i \in Inum
      PROVE  disk'[i].nlink = Cardinality(Entries(i)') + Cardinality(Subdirs(i)')
                              + Cardinality(InFlight(i)') + lost'[i] + One(i = ROOT)
  <2>1. /\ IsFiniteSet(Entries(i)) /\ IsFiniteSet(Subdirs(i))
        /\ Cardinality(Entries(i)) \in Nat /\ Cardinality(Subdirs(i)) \in Nat
        /\ Cardinality(InFlight(i)) \in Nat
    BY FiniteParts
  <2>2. Cardinality(Entries(i)')
           = Cardinality(Entries(i)) - One(x \in Entries(i)) + One(x \in Entries(i)')
    <3>1. \A y : y # x => (y \in Entries(i) <=> y \in Entries(i)')
      BY DEF SameBut
    <3> QED BY <2>1, <3>1, Replace
  <2>3. Cardinality(Subdirs(i)')
           = Cardinality(Subdirs(i)) - One(s \in Subdirs(i)) + One(s \in Subdirs(i)')
    <3>1. \A y : y # s => (y \in Subdirs(i) <=> y \in Subdirs(i)')
      BY DEF SameBut
    <3> QED BY <2>1, <3>1, Replace
  <2>4. Cardinality(InFlight(i)')
           = Cardinality(InFlight(i)) - One(Flies(th[p]) = i) + One(Flies(u) = i)
    BY FlightStep
  <2>5. disk[i].nlink = Cardinality(Entries(i)) + Cardinality(Subdirs(i))
                        + Cardinality(InFlight(i)) + lost[i] + One(i = ROOT)
    BY DEF Links, LinkCount
  <2>6. lost[i] \in Nat /\ One(i = ROOT) \in Nat
    BY OneNat DEF RefInv, Types, Inodes
  <2>7. /\ One(x \in Entries(i)) \in Nat /\ One(x \in Entries(i)') \in Nat
        /\ One(s \in Subdirs(i)) \in Nat /\ One(s \in Subdirs(i)') \in Nat
        /\ One(Flies(th[p]) = i) \in Nat /\ One(Flies(u) = i) \in Nat
    BY OneNat
  <2>8. disk'[i].nlink = disk[i].nlink
          + (One(x \in Entries(i)') - One(x \in Entries(i))
             + One(s \in Subdirs(i)') - One(s \in Subdirs(i))
             + One(Flies(u) = i) - One(Flies(th[p]) = i))
    BY DEF Change
  <2> QED BY <2>1, <2>2, <2>3, <2>4, <2>5, <2>6, <2>7, <2>8
<1> QED BY <1>1 DEF LinkCount

(* What is left to show of a step that changes inodes.                      *)
Bounds(p) ==
    /\ \A i \in Inum : i \notin Keeps(p) =>
          disk'[i].nlink = disk[i].nlink /\ ents'[i] = ents[i]
    /\ \A i \in Inum : lock[i] \notin {p, Nobody} => ents'[i] = ents[i]
    /\ \A i \in Inum : disk[i].type # "free" /\ i # Special(th[p])
                          => disk'[i].type = disk[i].type
    /\ \A i \in Inum : disk'[i].type = "free" => disk[i].type = "free" \/ i = Special(th[p])

LEMMA LinksStep ==
    ASSUME RefInv, Links, NEW p \in Process, NEW u, NEW f, NEW c, Moves(p, u, f, c),
           NEW j \in MaybeInum, Firm(u, f, c) \subseteq Keeps(p) \cup {j}, Takes(p, j),
           Bounds(p), \A i \in Firm(u, f, c) : disk'[i].type # "free",
           LinkCount', Blank', Tree', HasDots',
           Lonely(p)', LastOwn(p)', Relies(disk', ents', u)
    PROVE  Links'
<1>1. Types /\ Threads
  BY DEF RefInv
<1>2. th'[p] = u
  BY <1>1, MovesTo
<1>3. \A q \in Process : q # p => Lonely(q)' /\ LastOwn(q)'
  BY OthersLonely DEF Bounds
<1>4. \A q \in Process : q # p => Relies(disk', ents', th'[q])
  BY OthersRely DEF Bounds
<1>5. Live'
  BY StillLive DEF Bounds
<1>6. \A q \in Process : Lonely(q)' /\ LastOwn(q)'
  BY <1>3
<1>7. \A q \in Process : Relies(disk', ents', th'[q])
  BY <1>2, <1>4
<1>8. \A q \in Process : Lonely(q)' /\ LastOwn(q)' /\ Relies(disk, ents, th[q])'
  BY <1>6, <1>7
<1> QED BY <1>5, <1>8 DEF Links

(* A step of both parts of the invariant.                                   *)
LEMMA FsStep ==
    ASSUME FsInv, RefInv', Links /\ ~strayed' => Links', strayed => strayed'
    PROVE  FsInv'
BY DEF FsInv, LinkInv

(* With one reference left, iput() has the only one.                        *)
LEMMA OnlyRef ==
    ASSUME RefInv, NEW p \in Process, NEW i \in Inum, th[p].arg = i, ref[i] = 1
    PROVE  /\ \A q \in Process : q # p => i \notin Keeps(q)
           /\ i \notin {th[p].at, th[p].ip, file[p], CwdOf(th[p], cwd[p])}
<1>1. /\ Cardinality(OthersIn(Hold, p, i)) \in Nat
      /\ 1 = Cardinality(OthersIn(Hold, p, i)) + OwnOf(th[p], file[p], cwd[p], i)
  BY RefsAre DEF RefsSplit, RefInv, Counted
<1>2. OwnOf(th[p], file[p], cwd[p], i)
         = One(th[p].at = i) + One(th[p].ip = i) + 1 + One(file[p] = i)
           + One(CwdOf(th[p], cwd[p]) = i)
  BY DEF OwnOf, Among, One
<1>3. /\ One(th[p].at = i) = 0 /\ One(th[p].ip = i) = 0 /\ One(file[p] = i) = 0
      /\ One(CwdOf(th[p], cwd[p]) = i) = 0 /\ Cardinality(OthersIn(Hold, p, i)) = 0
  <2>1. PICK a \in Nat : a = One(th[p].at = i)
    BY OneNat
  <2>2. PICK b \in Nat : b = One(th[p].ip = i)
    BY OneNat
  <2>3. PICK d \in Nat : d = One(file[p] = i)
    BY OneNat
  <2>4. PICK e \in Nat : e = One(CwdOf(th[p], cwd[p]) = i)
    BY OneNat
  <2>5. PICK n \in Nat : n = Cardinality(OthersIn(Hold, p, i))
    BY <1>1
  <2>6. 1 = n + (a + b + 1 + d + e)
    BY <1>1, <1>2, <2>1, <2>2, <2>3, <2>4, <2>5
  <2>7. a = 0 /\ b = 0 /\ d = 0 /\ e = 0 /\ n = 0
    BY <2>6
  <2> QED BY <2>1, <2>2, <2>3, <2>4, <2>5, <2>7
<1>4. i \notin {th[p].at, th[p].ip, file[p], CwdOf(th[p], cwd[p])}
  BY <1>3 DEF One
<1>5. OthersIn(Hold, p, i) = {}
  <2>1. OthersIn(Hold, p, i) \subseteq RefsIn(Hold, i)
    BY DEF OthersIn, RefsIn
  <2>2. IsFiniteSet(OthersIn(Hold, p, i))
    <3>1. IsFiniteSet(Pointers)
      BY PointersFinite
    <3> QED BY <3>1, FS_Subset DEF OthersIn
  <2> QED BY <1>3, <2>2, FS_EmptySet
<1>6. ASSUME NEW q \in Process, q # p PROVE i \notin Keeps(q)
  <2>1. /\ Hold[<<q, "at">>] = th[q].at /\ Hold[<<q, "ip">>] = th[q].ip
        /\ Hold[<<q, "arg">>] = th[q].arg /\ Hold[<<q, "file">>] = file[q]
        /\ Hold[<<q, "cwd">>] = CwdOf(th[q], cwd[q])
    BY HoldIs
  <2>2. \A k \in {"at", "ip", "arg", "file", "cwd"} : Hold[<<q, k>>] # i
    <3> SUFFICES ASSUME NEW k \in {"at", "ip", "arg", "file", "cwd"}, Hold[<<q, k>>] = i
                 PROVE  FALSE
      OBVIOUS
    <3>1. <<q, k>> \in Pointers /\ <<q, k>>[1] = q
      BY DEF Pointers
    <3>2. <<q, k>> \in OthersIn(Hold, p, i)
      BY <1>6, <3>1 DEF OthersIn
    <3> QED BY <1>5, <3>2
  <2> QED BY <2>1, <2>2 DEF Keeps, Firm
<1> QED BY <1>4, <1>6

(* iput() goes to free the inode.                                           *)
LEMMA IputToFree ==
    ASSUME FsInv, NEW p \in Process, At(p, "iput"), NEW i, i = th[p].arg, lock[i] = Nobody,
           valid[i], mem[i].nlink = 0, LastRef(i), lock' = [lock EXCEPT ![i] = p],
           Set(p, To(p, "ifree")), UNCHANGED <<nodeVars, ref, cwd, file>>
    PROVE  FsInv'
<1> RefInv
  BY DEF FsInv
<1> DEFINE t == th[p]
           f == file[p]
           c == cwd[p]
<1>1. PICK u : u = To(p, "ifree")
  OBVIOUS
<1>2. t.pc = "iput" /\ t.pc \in Puts /\ i \in Inum
  BY Here DEF At, Puts, Slots, MaybeInum
<1>3. /\ ThreadOK(u) /\ u.pc = "ifree" /\ Stage(u) = Stage(t) /\ Flies(u) = Flies(t)
      /\ u.at = t.at /\ u.ip = t.ip /\ u.arg = t.arg /\ u.ret = t.ret /\ u.op = t.op
      /\ \A cc : CwdOf(u, cc) = CwdOf(t, cc)
      /\ \A n \in Inum : OwnOf(u, f, c, n) = OwnOf(t, f, c, n)
  <2>1. "ifree" \in Puts
    BY DEF Puts
  <2> QED BY <1>1, <1>2, <2>1, PutsOn
<1>4. Moves(p, u, f, c)
  BY <1>1, SetMoves
<1>5. Counts(p, u, f, c)
  BY <1>3, KeptCounts
<1>6. disk' = disk /\ ents' = ents /\ mem' = mem /\ valid' = valid /\ lost' = lost
      /\ strayed' = strayed
  BY Unchanged
<1>7. Inodes /\ Cache
  BY DEF RefInv, Types
<1>8. disk[i].type # "free" /\ disk[i].nlink = 0
  BY <1>2, <1>7 DEF Cache
<1>9. /\ lock' \in [Inum -> Process \cup {Nobody}] /\ lock'[i] = p
      /\ \A k \in Inum : k # i => lock'[k] = lock[k]
  BY <1>2, <1>7 DEF Inodes
<1>10. Inodes' /\ Cache' /\ LocksKept(p)
  <2>1. Inodes'
    BY <1>6, <1>7, <1>9 DEF Inodes
  <2>2. Cache'
    BY <1>6, <1>7, <1>8, <1>9 DEF Cache
  <2>3. LocksKept(p)
    BY <1>2, <1>9 DEF LocksKept
  <2> QED BY <2>1, <2>2, <2>3
<1>11. /\ Stage(t) \in AtLocked => lock[t.at] = p
       /\ Stage(t) \in IpLocked => lock[t.ip] = p
       /\ Stage(t) \in AtLocked => t.at \in Inum
       /\ Stage(t) \in IpLocked => t.ip \in Inum
  BY Here DEF Locks, Slots, AtLocked, IpLocked, AtStages, IpStages, MaybeInum
<1>12. Locks(lock', p, u) /\ Unopened(u, f)
  <2>1. /\ Stage(t) \in AtLocked => t.at # i /\ lock'[t.at] = p
        /\ Stage(t) \in IpLocked => t.ip # i /\ lock'[t.ip] = p
    BY <1>9, <1>11, FsFacts
  <2> QED BY <1>3, <1>9, <2>1, Here DEF Locks, Unopened
<1>13. f \in MaybeInum /\ c \in Inum
  BY Here
<1>14. RefInv'
  BY <1>3, <1>4, <1>5, <1>10, <1>12, <1>13, RefStep
<1>15. ASSUME Links PROVE Links'
  <2>1. /\ th'[p] = u /\ file'[p] = f /\ cwd'[p] = c
        /\ \A r \in Process : r # p =>
              th'[r] = th[r] /\ file'[r] = file[r] /\ cwd'[r] = cwd[r]
    BY <1>4, MovesTo DEF RefInv
  <2>2. /\ \A q \in Process : q # p => i \notin Keeps(q)
        /\ i \notin {t.at, t.ip, f, CwdOf(t, c)}
    <3>1. ref[i] = 1
      BY DEF LastRef
    <3> QED BY <1>2, <3>1, OnlyRef
  <2>3. Special(u) = i
    BY <1>3 DEF Special
  <2>4. Lonely(p)'
    <3>1. \A q \in Process : q # p => i \notin Keeps(q)'
      BY <2>1, <2>2 DEF Keeps
    <3> QED BY <1>6, <1>8, <2>1, <2>3, <3>1 DEF Lonely
  <2>5. LastOwn(p)'
    BY <1>3, <2>1, <2>2 DEF LastOwn
  <2>6. Relies(disk', ents', u)
    BY <1>3, <1>6, <1>15 DEF Links, Relies
  <2>7. Firm(u, f, c) \subseteq Keeps(p) \cup {None}
    BY <1>2, <1>3 DEF Firm, Keeps
  <2>8. \A k \in Firm(u, f, c) : disk'[k].type # "free"
    BY <1>6, <1>15, <2>7, FsFacts DEF Links, Live, Firm
  <2>9. Bounds(p)
    BY <1>6 DEF Bounds
  <2>10. \A k \in Inum : InFlight(k)' = InFlight(k)
    BY <1>3, <2>1 DEF InFlight
  <2>11. \A k \in Inum : Entries(k)' = Entries(k) /\ Subdirs(k)' = Subdirs(k)
    BY <1>6 DEF Entries, Subdirs
  <2>12. LinkCount'
    BY <1>6, <1>15, <2>10, <2>11 DEF Links, LinkCount
  <2>13. Blank' /\ Tree'
    BY <1>6, <1>15, <2>11, FsFacts DEF Links, Blank, Tree
  <2>14. HasDots'
    <3>1. \A q \in Process : th[q].pc = "create_new" => th'[q] = th[q]
      BY <1>2, <2>1
    <3> QED BY <1>6, <1>15, <3>1 DEF Links, HasDots
  <2>15. None \in MaybeInum /\ Takes(p, None)
    BY DEF MaybeInum, Takes
  <2> QED BY <1>4, <1>15, <2>4, <2>5, <2>6, <2>7, <2>8, <2>9, <2>12, <2>13, <2>14, <2>15, LinksStep
<1> QED BY <1>6, <1>14, <1>15, FsStep

LEMMA IputKeeps == ASSUME FsInv, NEW p \in Process, Iput(p) PROVE FsInv'
<1>1. PICK i : i = th[p].arg
  OBVIOUS
<1>2. /\ At(p, "iput") /\ lock[i] = Nobody /\ UNCHANGED <<nodeVars, ref, cwd, file>>
      /\ IF valid[i] /\ mem[i].nlink = 0 /\ LastRef(i)
         THEN lock' = [lock EXCEPT ![i] = p] /\ Set(p, To(p, "ifree"))
         ELSE Set(p, To(p, "iref")) /\ UNCHANGED lock
  BY <1>1 DEF Iput
<1>3. CASE valid[i] /\ mem[i].nlink = 0 /\ LastRef(i)
  BY <1>1, <1>2, <1>3, IputToFree
<1>4. CASE ~(valid[i] /\ mem[i].nlink = 0 /\ LastRef(i))
  BY <1>2, <1>4, IputOn
<1> QED BY <1>3, <1>4

(* An inode with no link has nothing that counts as one.                    *)
LEMMA NoLink ==
    ASSUME RefInv, Links, NEW i \in Inum, disk[i].nlink = 0
    PROVE  Entries(i) = {} /\ Subdirs(i) = {} /\ InFlight(i) = {} /\ lost[i] = 0 /\ i # ROOT
<1>1. Entries(i) = {} /\ Subdirs(i) = {} /\ InFlight(i) = {} /\ i # ROOT
  BY HasLink
<1>2. disk[i].nlink = Cardinality(Entries(i)) + Cardinality(Subdirs(i))
                      + Cardinality(InFlight(i)) + lost[i] + One(i = ROOT)
  BY DEF Links, LinkCount
<1>3. Cardinality({}) = 0 /\ One(i = ROOT) = 0 /\ lost[i] \in Nat
  BY <1>1, FS_EmptySet DEF One, RefInv, Types, Inodes
<1> QED BY <1>1, <1>2, <1>3

(* The entries of directory i that name k are counted as lost.              *)
RowOf(i, k) == {n \in Name : ents[i][n] = k}

LEMMA RowLost ==
    ASSUME NEW i \in Inum, NEW k \in Inum, NEW R,
           R = {e \in Entries(k) : e[1] # i}
    PROVE  /\ Cardinality(RowOf(i, k)) \in Nat /\ Cardinality(R) \in Nat
           /\ Cardinality(Entries(k)) = Cardinality(R) + Cardinality(RowOf(i, k))
<1> DEFINE N == RowOf(i, k)
           Row == {i} \X N
<1>1. IsFiniteSet(N) /\ Cardinality(N) \in Nat
  BY FsFacts, FS_Subset, FS_CardinalityType DEF RowOf
<1>2. IsFiniteSet({i}) /\ Cardinality({i}) = 1
  BY FS_Singleton
<1> HIDE DEF N
<1>3. IsFiniteSet(Row) /\ Cardinality(Row) = Cardinality(N)
  <2>1. IsFiniteSet({i} \X N) /\ Cardinality({i} \X N) = Cardinality({i}) * Cardinality(N)
    BY <1>1, <1>2, FS_Product
  <2> QED BY <1>1, <1>2, <2>1
<1>4. IsFiniteSet(R) /\ Cardinality(R) \in Nat
  <2>1. IsFiniteSet(Entries(k))
    BY FiniteParts
  <2> QED BY <2>1, FS_Subset, FS_CardinalityType
<1>5. Entries(k) = R \cup Row /\ R \cap Row = {}
  BY DEF Entries, N, RowOf
<1> HIDE DEF Row
<1>6. Cardinality(R \cup Row) = Cardinality(R) + Cardinality(Row) - Cardinality(R \cap Row)
  BY <1>3, <1>4, FS_Union
<1>7. Cardinality({}) = 0
  BY FS_EmptySet
<1>8. Cardinality(Entries(k)) = Cardinality(R \cup Row)
  BY <1>5, Zenon
<1>9. Cardinality(R \cap Row) = 0
  BY <1>5, <1>7, Zenon
<1>10. Cardinality(Entries(k)) = Cardinality(R) + Cardinality(N)
  BY <1>1, <1>3, <1>4, <1>6, <1>8, <1>9
<1> QED BY <1>1, <1>4, <1>10 DEF N

LEMMA IputFreeKeeps == ASSUME FsInv, NEW p \in Process, IputFree(p) PROVE FsInv'
<1> RefInv
  BY DEF FsInv
<1> DEFINE t == th[p]
           f == file[p]
           c == cwd[p]
           i == t.arg
<1>1. PICK u : u = To(p, "iref")
  OBVIOUS
<1>2. /\ t.pc = "ifree" /\ t.pc \in Puts /\ i \in Inum /\ Special(t) = i
  BY Here DEF IputFree, At, Puts, Slots, MaybeInum, Special
<1>3. /\ ThreadOK(u) /\ u.pc = "iref" /\ Stage(u) = Stage(t) /\ Flies(u) = Flies(t)
      /\ u.at = t.at /\ u.ip = t.ip /\ u.arg = t.arg /\ u.ret = t.ret /\ u.op = t.op
      /\ \A cc : CwdOf(u, cc) = CwdOf(t, cc)
      /\ \A n \in Inum : OwnOf(u, f, c, n) = OwnOf(t, f, c, n)
  <2>1. "iref" \in Puts
    BY DEF Puts
  <2> QED BY <1>1, <1>2, <2>1, PutsOn
<1>4. /\ disk' = [disk EXCEPT ![i] = Free] /\ ents' = [ents EXCEPT ![i] = NoEnts]
      /\ mem' = [mem EXCEPT ![i] = Free] /\ valid' = [valid EXCEPT ![i] = FALSE]
      /\ lost' = [k \in Inum |-> lost[k] + Cardinality(RowOf(i, k))]
      /\ lock' = [lock EXCEPT ![i] = Nobody] /\ Set(p, u)
      /\ strayed' = strayed /\ ref' = ref /\ cwd' = cwd /\ file' = file
  BY <1>1 DEF IputFree, Invalidated, RowOf
<1>5. Moves(p, u, f, c)
  BY <1>4, SetMoves
<1>6. Counts(p, u, f, c)
  BY <1>3, <1>4, KeptCounts
<1>7. Inodes /\ Cache
  BY DEF RefInv, Types
<1>8. Free \in Node /\ Free.type = "free" /\ Free.nlink = 0 /\ NoEnts \in [Names -> MaybeInum]
      /\ \A n \in Names : NoEnts[n] = None
  BY DEF Free, Node, NoEnts, Names, MaybeInum
<1> HIDE DEF t, i
<1>9. /\ \A k \in Inum : k # i => /\ disk'[k] = disk[k] /\ ents'[k] = ents[k]
                                  /\ mem'[k] = mem[k] /\ valid'[k] = valid[k]
                                  /\ lock'[k] = lock[k]
      /\ disk'[i] = Free /\ ents'[i] = NoEnts /\ valid'[i] = FALSE /\ lock'[i] = Nobody
  BY <1>2, <1>4, <1>7 DEF Inodes
<1>10. Inodes'
  <2>1. \A k \in Inum : Cardinality(RowOf(i, k)) \in Nat
    BY <1>2, RowLost
  <2>2. lost' \in [Inum -> Nat]
    BY <1>4, <1>7, <2>1 DEF Inodes
  <2>3. disk' \in [Inum -> Node] /\ mem' \in [Inum -> Node]
    BY <1>4, <1>7, <1>8 DEF Inodes
  <2>4. ents' \in [Inum -> [Names -> MaybeInum]]
    BY <1>4, <1>7, <1>8 DEF Inodes
  <2>5. valid' \in [Inum -> BOOLEAN] /\ lock' \in [Inum -> Process \cup {Nobody}]
    BY <1>4, <1>7 DEF Inodes
  <2> QED BY <1>4, <1>7, <2>2, <2>3, <2>4, <2>5 DEF Inodes
<1>11. Cache'
  BY <1>7, <1>9 DEF Cache
<1>12. lock[i] = p
  BY <1>2, Here DEF Locks, t, i
<1>13. LocksKept(p)
  BY <1>9, <1>12 DEF LocksKept
<1>14. Locks(lock', p, u) /\ Unopened(u, f)
  <2>1. /\ Stage(t) \in AtLocked => lock[t.at] = p /\ t.at \in Inum /\ t.at # i
        /\ Stage(t) \in IpLocked => lock[t.ip] = p /\ t.ip \in Inum /\ t.ip # i
    BY <1>2, Here DEF Locks, Slots, AtLocked, IpLocked, AtStages, IpStages, MaybeInum, t, i
  <2> QED BY <1>3, <1>9, <2>1, Here DEF Locks, Unopened, t
<1>15. f \in MaybeInum /\ c \in Inum
  BY Here
<1>16. RefInv'
  BY <1>3, <1>5, <1>6, <1>10, <1>11, <1>13, <1>14, <1>15, RefStep
<1>17. ASSUME Links PROVE Links'
  <2>1. /\ th'[p] = u
        /\ \A r \in Process : r # p => th'[r] = th[r]
    BY <1>5, MovesTo DEF RefInv
  <2>2. disk[i].nlink = 0 /\ i \notin {t.at, t.ip, f, CwdOf(t, c)} /\ i \in Keeps(p)
    <3>1. Lonely(p) /\ LastOwn(p)
      BY <1>17 DEF Links
    <3>2. disk[i].nlink = 0
      BY <1>2, <3>1, FsFacts DEF Lonely, t
    <3>3. i \notin {t.at, t.ip, f, CwdOf(t, c)}
      BY <1>2, <3>1 DEF LastOwn, t, i
    <3> QED BY <1>2, <3>2, <3>3 DEF Keeps, Firm, t, i
  <2>3. Entries(i) = {} /\ Subdirs(i) = {} /\ InFlight(i) = {} /\ lost[i] = 0 /\ i # ROOT
    BY <1>2, <1>17, <2>2, NoLink
  <2>4. Firm(u, f, c) \subseteq Keeps(p) \ {i}
    BY <1>2, <1>3, <2>2 DEF Firm, Keeps, t, i
  <2>5. \A k \in Firm(u, f, c) : disk'[k].type # "free"
    <3>1. \A k \in Keeps(p) : k \in Inum /\ disk[k].type # "free"
      BY <1>17 DEF Links, Live, Keeps, Firm
    <3> QED BY <1>9, <2>4, <3>1
  <2>6. Bounds(p)
    <3>1. disk[i].type # "free"
      BY <1>17, <2>2 DEF Links, Live
    <3> QED BY <1>2, <1>8, <1>9, <1>12, <2>2 DEF Bounds, t
  <2>7. \A k \in Inum : Entries(k)' = {e \in Entries(k) : e[1] # i}
    <3>2. \A e \in Inum \X Name : \A k \in Inum :
             ents'[e[1]][e[2]] = k <=> ents[e[1]][e[2]] = k /\ e[1] # i
      <4> SUFFICES ASSUME NEW d \in Inum, NEW n \in Name, NEW k \in Inum
                   PROVE  ents'[d][n] = k <=> ents[d][n] = k /\ d # i
        OBVIOUS
      <4>1. CASE d = i
        <5>1. ents'[d][n] = None
          BY <1>8, <1>9, <4>1 DEF Names
        <5> QED BY <4>1, <5>1, FsFacts
      <4>2. CASE d # i
        BY <1>9, <4>2
      <4> QED BY <4>1, <4>2
    <3> QED BY <3>2 DEF Entries
  <2>8. ASSUME NEW d \in Inum, disk[d].type = "dir" PROVE Entries(d)' = Entries(d)
    <3>1. ASSUME NEW e \in Entries(d), e[1] = i PROVE FALSE
      <4>1. ents[d][".."] = i /\ d # ROOT
        BY <1>17, <2>8, <3>1 DEF Links, Tree
      <4>2. d \in Subdirs(i)
        BY <4>1 DEF Subdirs
      <4> QED BY <2>3, <4>2
    <3> QED BY <2>7, <3>1
  <2>9. \A k \in Inum : Subdirs(k)' = Subdirs(k)
    <3>1. ASSUME NEW k \in Inum, NEW d \in Inum
          PROVE  ents'[d][".."] = k /\ Entries(d)' # {} <=> ents[d][".."] = k /\ Entries(d) # {}
      <4>1. CASE d = i
        <5>1. ents'[d][".."] # k
          BY <1>8, <1>9, <4>1, FsFacts DEF Names, Dots
        <5> QED BY <2>3, <4>1, <5>1
      <4>2. CASE d # i /\ disk[d].type = "dir"
        BY <1>9, <2>8, <4>2
      <4>3. CASE d # i /\ disk[d].type # "dir"
        <5>1. ents[d][".."] = None
          BY <1>17, <4>3 DEF Links, Tree, Names, Dots
        <5> QED BY <1>9, <4>3, <5>1, FsFacts
      <4> QED BY <4>1, <4>2, <4>3
    <3> QED BY <3>1 DEF Subdirs
  <2>10. \A k \in Inum : InFlight(k)' = InFlight(k)
    BY <1>3, <2>1 DEF InFlight, t
  <2>11. LinkCount'
    <3>1. ASSUME NEW k \in Inum
          PROVE  disk'[k].nlink = Cardinality(Entries(k)') + Cardinality(Subdirs(k)')
                                  + Cardinality(InFlight(k)') + lost'[k] + One(k = ROOT)
      <4> DEFINE row == Cardinality(RowOf(i, k))
      <4>1. /\ row \in Nat /\ Cardinality(Entries(k)') \in Nat
            /\ Cardinality(Entries(k)) = Cardinality(Entries(k)') + row
        BY <1>2, <2>7, RowLost
      <4>2. lost'[k] = lost[k] + row
        BY <1>4
      <4> HIDE DEF row
      <4>3. disk[k].nlink = Cardinality(Entries(k)) + Cardinality(Subdirs(k))
                            + Cardinality(InFlight(k)) + lost[k] + One(k = ROOT)
        BY <1>17 DEF Links, LinkCount
      <4>4. disk'[k].nlink = disk[k].nlink
        BY <1>8, <1>9, <2>2
      <4>5. /\ Cardinality(Subdirs(k)) \in Nat /\ Cardinality(InFlight(k)) \in Nat
            /\ lost[k] \in Nat /\ One(k = ROOT) \in Nat
        BY FiniteParts, OneNat, <1>7 DEF Inodes
      <4> QED BY <2>9, <2>10, <4>1, <4>2, <4>3, <4>4, <4>5
    <3> QED BY <3>1 DEF LinkCount
  <2>12. Blank'
    BY <1>8, <1>9, <1>17 DEF Links, Blank
  <2>13. Tree'
    <3>1. \A d \in Inum : \A n \in Names : ents'[d][n] # None => disk'[d].type = "dir"
      BY <1>8, <1>9, <1>17 DEF Links, Tree
    <3>2. ASSUME NEW d \in Inum, disk'[d].type = "dir", NEW e \in Entries(d)'
          PROVE  ents'[d][".."] = e[1] /\ \A g \in Entries(d)' : g = e
      <4>1. d # i /\ disk[d].type = "dir" /\ ents'[d] = ents[d]
        BY <1>8, <1>9, <3>2
      <4>2. Entries(d)' = Entries(d)
        BY <2>8, <4>1
      <4>3. /\ \A k \in Inum : disk[k].type = "dir" =>
                  \A e2 \in Entries(k) : ents[k][".."] = e2[1] /\ \A g \in Entries(k) : g = e2
        BY <1>17 DEF Links, Tree
      <4> QED BY <3>2, <4>1, <4>2, <4>3
    <3>3. disk'[ROOT].type = "dir" /\ ents'[ROOT][".."] = ROOT /\ Entries(ROOT)' = {}
      BY <1>9, <1>17, <2>3, <2>7, FsFacts DEF Links, Tree
    <3> QED BY <3>1, <3>2, <3>3 DEF Tree
  <2>14. HasDots'
    <3>1. \A q \in Process : th[q].pc = "create_new" => th'[q] = th[q]
      BY <1>2, <2>1 DEF t
    <3>2. \A d \in Inum : disk'[d].type = "dir" => d # i
      BY <1>8, <1>9
    <3> QED BY <1>9, <1>17, <3>1, <3>2 DEF Links, HasDots
  <2>15. Lonely(p)' /\ LastOwn(p)'
    BY <1>3, <2>1 DEF Lonely, LastOwn, Special
  <2>16. Relies(disk', ents', u)
    <3>1. Relies(disk, ents, t)
      BY <1>17 DEF Links, t
    <3>2. /\ Stage(t) \in DirStages => t.at \in Inum /\ t.at # i
          /\ t.ip # None => t.ip \in Inum /\ t.ip # i
      BY <2>2, Here DEF Slots, DirStages, AtStages, MaybeInum, t
    <3> QED BY <1>3, <1>9, <3>1, <3>2 DEF Relies
  <2>17. None \in MaybeInum /\ Takes(p, None) /\ Firm(u, f, c) \subseteq Keeps(p) \cup {None}
    BY <2>4 DEF MaybeInum, Takes
  <2> QED BY <1>5, <1>17, <2>5, <2>6, <2>11, <2>12, <2>13, <2>14, <2>15, <2>16, <2>17, LinksStep
<1> QED BY <1>4, <1>16, <1>17, FsStep

(* Min of a set of natural numbers is an element of it.                     *)
LEMMA LeastIn ==
    ASSUME NEW S, S \subseteq Nat, S # {}
    PROVE  Min(S) \in S
<1> DEFINE Less == OpToRel(<, Nat)
<1>1. IsWellFoundedOn(Less, Nat)
  BY NatLessThanWellFounded, Zenon
<1>2. \E x \in S : \A y \in S : ~(<<y, x>> \in Less)
  <2> HIDE DEF Less
  <2> QED BY <1>1, WFMin
<1>3. PICK x \in S : \A y \in S : ~(y < x)
  BY <1>2 DEF OpToRel
<1>4. \A y \in S : x <= y
  BY <1>3
<1> QED BY <1>4 DEF Min

LEMMA TypeIs ==
    ASSUME NEW op
    PROVE  /\ TypeOf(op) \in {"file", "dir", "dev"} /\ TypeOf(op) # "free"
           /\ TypeOf(op) = "dir" <=> op = "mkdir"
BY DEF TypeOf

(* ialloc() finds an inode.                                                 *)
LEMMA CreateAllocNew ==
    ASSUME FsInv, NEW p \in Process, At(p, "create"), Ilock(th[p].at),
           Dirlookup(th[p].at, Head(th[p].rest)) = None,
           NEW j \in FreeInums, LockedGet(th[p].at, j),
           disk' = [disk EXCEPT ![j] = [type |-> TypeOf(th[p].op), nlink |-> 0]],
           Set(p, [th[p] EXCEPT !.pc = "create_new", !.ip = j]),
           lock' = [lock EXCEPT ![th[p].at] = p],
           UNCHANGED <<ents, history, cwd, file>>
    PROVE  FsInv'
<1> RefInv
  BY DEF FsInv
<1> DEFINE t == th[p]
           f == file[p]
           c == cwd[p]
<1>1. t.pc = "create" /\ IsThread(t)
  BY Here DEF At
<1>2. /\ t.at \in Inum /\ t.ip = None /\ t.arg = None /\ t.ret = "" /\ Stage(t) = "create"
      /\ t.rest \in Seq(Names) /\ t.rest # <<>> /\ Head(t.rest) \in Names
  BY <1>1, AtLabel DEF Labels, Puts, AtStages, IpStages, NameStages
<1>3. j \in Inum /\ disk[j].type = "free"
  BY DEF FreeInums
<1>4. PICK u : u = [t EXCEPT !.pc = "create_new", !.ip = j]
  OBVIOUS
<1>5. /\ IsThread(u) /\ u.pc = "create_new" /\ u.arg = t.arg /\ u.ret = t.ret
      /\ u.at = t.at /\ u.ip = j /\ u.rest = t.rest /\ u.op = t.op
  BY <1>1, <1>4 DEF IsThread
<1>6. Moves(p, u, f, c)
  BY <1>4, SetMoves
<1>7. Inodes /\ Cache
  BY DEF RefInv, Types
<1>8. Cached(t.at) = disk[t.at] /\ disk[t.at].type # "free" /\ t.at # j /\ lock[t.at] = Nobody
      /\ disk[t.at] \in Node
  BY <1>2, <1>3, CachedIs DEF Ilock
<1>9. PICK m : m = [type |-> TypeOf(t.op), nlink |-> 0]
  OBVIOUS
<1>10. m \in Node /\ m.type = TypeOf(t.op) /\ m.nlink = 0 /\ m.type # "free"
       /\ (m.type = "dir" <=> t.op = "mkdir")
  BY <1>9, TypeIs DEF Node
<1>11. /\ disk' = [disk EXCEPT ![j] = m] /\ ents' = ents /\ lost' = lost /\ strayed' = strayed
       /\ mem' = [mem EXCEPT ![t.at] = disk[t.at]] /\ valid' = [valid EXCEPT ![t.at] = TRUE]
       /\ ref' = RefTaken(j) /\ lock' = [lock EXCEPT ![t.at] = p]
  BY <1>8, <1>9 DEF LockedGet, history
<1> HIDE DEF t
<1>12. disk'[j] = m /\ \A k \in Inum : k # j => disk'[k] = disk[k]
  BY <1>3, <1>7, <1>11 DEF Inodes
<1>13. Stage(u) = "create_new"
  BY <1>5 DEF Stage, Puts
<1>14. ThreadOK(u)
  <2>1. Slots(u)
    BY <1>2, <1>3, <1>5, <1>13, FsFacts DEF Slots, AtStages, IpStages, MaybeInum, Puts
  <2>2. Flow(u)
    BY <1>2, <1>5, <1>13 DEF Flow, Labels, NameStages, Puts
  <2> QED BY <1>5, <2>1, <2>2 DEF ThreadOK
<1>15. CwdOf(u, c) = CwdOf(t, c)
  BY <1>1, <1>2, <1>5 DEF CwdOf
<1>16. Counts(p, u, f, c)
  <2>1. \A n \in Inum : OwnOf(u, f, c, n) = OwnOf(t, f, c, n) + One(n = j)
    <3>1. u.at = t.at /\ u.ip = j /\ u.arg = t.arg /\ t.ip = None
      BY <1>2, <1>5
    <3> QED BY <1>15, <3>1, OwnTakeIp
  <2> QED BY <1>11, <2>1, TakenCounts DEF t
<1>17. Inodes'
  <2>1. disk' \in [Inum -> Node] /\ mem' \in [Inum -> Node] /\ valid' \in [Inum -> BOOLEAN]
    <3>1. ASSUME NEW h, h = [disk EXCEPT ![j] = m] PROVE h \in [Inum -> Node]
      BY <1>7, <1>10, <3>1 DEF Inodes
    <3>2. mem' \in [Inum -> Node]
      BY <1>7, <1>8, <1>11 DEF Inodes
    <3>3. valid' \in [Inum -> BOOLEAN]
      BY <1>7, <1>11 DEF Inodes
    <3> QED BY <1>11, <3>1, <3>2, <3>3
  <2>2. lock' \in [Inum -> Process \cup {Nobody}]
    BY <1>7, <1>11 DEF Inodes
  <2> QED BY <1>7, <1>11, <2>1, <2>2 DEF Inodes
<1>18. Cache'
  <2>1. ASSUME NEW k \in Inum, valid'[k] PROVE mem'[k] = disk'[k] /\ disk'[k].type # "free"
    <3>1. CASE k = t.at
      BY <1>2, <1>7, <1>8, <1>11, <1>12, <3>1 DEF Inodes
    <3>2. CASE k # t.at
      <4>1. valid[k] /\ mem'[k] = mem[k]
        BY <1>7, <1>11, <2>1, <3>2 DEF Inodes
      <4>2. mem[k] = disk[k] /\ disk[k].type # "free"
        BY <1>7, <4>1 DEF Cache
      <4> QED BY <1>3, <1>12, <4>1, <4>2
    <3> QED BY <3>1, <3>2
  <2>2. ASSUME NEW k \in Inum, lock'[k] # Nobody PROVE disk'[k].type # "free"
    <3>1. k = t.at \/ lock[k] # Nobody
      BY <1>7, <1>11, <2>2 DEF Inodes
    <3>2. disk[k].type # "free"
      BY <1>7, <1>8, <3>1 DEF Cache
    <3> QED BY <1>3, <1>12, <3>2
  <2> QED BY <2>1, <2>2 DEF Cache
<1>19. LocksKept(p) /\ lock'[t.at] = p
  BY <1>2, <1>7, <1>8, <1>11 DEF LocksKept, Inodes
<1>20. Locks(lock', p, u) /\ Unopened(u, f)
  BY <1>5, <1>13, <1>19, Here DEF Locks, IpLocked, Unopened, t
<1>21. f \in MaybeInum /\ c \in Inum
  BY Here
<1>22. RefInv'
  BY <1>6, <1>14, <1>16, <1>17, <1>18, <1>19, <1>20, <1>21, RefStep
<1>23. ASSUME Links PROVE Links'
  <2>1. /\ th'[p] = u /\ file'[p] = f /\ cwd'[p] = c
        /\ \A r \in Process : r # p =>
              th'[r] = th[r] /\ file'[r] = file[r] /\ cwd'[r] = cwd[r]
    BY <1>6, MovesTo DEF RefInv
  <2>2. disk[j].nlink = 0 /\ ents[j] = NoEnts
    BY <1>3, <1>23 DEF Links, Blank
  <2>3. Entries(j) = {} /\ j # ROOT
    BY <1>3, <1>23, <2>2, NoLink
  <2>4. \A k \in Inum : disk'[k].nlink = disk[k].nlink
    BY <1>10, <1>12, <2>2
  <2>5. \A k \in Inum : disk[k].type # "free" => k # j /\ disk'[k] = disk[k]
    BY <1>3, <1>12
  <2>6. \A k \in Inum : Entries(k)' = Entries(k) /\ Subdirs(k)' = Subdirs(k)
    BY <1>11 DEF Entries, Subdirs
  <2>7. Flies(u) = None /\ Flies(t) = None
    BY <1>2, <1>13 DEF Flies, FlightStages
  <2>8. \A k \in Inum : InFlight(k)' = InFlight(k)
    BY <2>1, <2>7 DEF InFlight, t
  <2>9. LinkCount'
    BY <1>11, <1>23, <2>4, <2>6, <2>8 DEF Links, LinkCount
  <2>10. Blank'
    BY <1>10, <1>11, <1>12, <1>23 DEF Links, Blank
  <2>11. Tree'
    <3>1. \A d \in Inum : \A n \in Names : ents'[d][n] # None => disk'[d].type = "dir"
      BY <1>11, <1>23, <2>5 DEF Links, Tree
    <3>2. ASSUME NEW d \in Inum, disk'[d].type = "dir", NEW e \in Entries(d)'
          PROVE  ents'[d][".."] = e[1] /\ \A g \in Entries(d)' : g = e
      <4>1. d # j /\ disk[d].type = "dir" /\ ents' = ents
        BY <1>11, <1>12, <2>3, <2>6, <3>2
      <4>2. \A k \in Inum : disk[k].type = "dir" =>
               \A e2 \in Entries(k) : ents[k][".."] = e2[1] /\ \A g \in Entries(k) : g = e2
        BY <1>23 DEF Links, Tree
      <4> QED BY <2>6, <3>2, <4>1, <4>2
    <3>3. disk'[ROOT].type = "dir" /\ ents'[ROOT][".."] = ROOT /\ Entries(ROOT)' = {}
      BY <1>11, <1>12, <1>23, <2>3, <2>6, FsFacts DEF Links, Tree
    <3> QED BY <3>1, <3>2, <3>3 DEF Tree
  <2>12. HasDots'
    <3> SUFFICES ASSUME NEW d \in Inum, disk'[d].type = "dir"
                 PROVE  \/ ents'[d]["."] = d /\ ents'[d][".."] # None
                        \/ \E q \in Process : th'[q].pc = "create_new" /\ th'[q].ip = d
      BY DEF HasDots
    <3>1. CASE d = j
      BY <1>5, <2>1, <3>1
    <3>2. CASE d # j
      <4>1. \/ ents[d]["."] = d /\ ents[d][".."] # None
            \/ \E q \in Process : th[q].pc = "create_new" /\ th[q].ip = d
        BY <1>12, <1>23, <3>2 DEF Links, HasDots
      <4>2. \A q \in Process : th[q].pc = "create_new" => th'[q] = th[q]
        BY <1>1, <2>1 DEF t
      <4> QED BY <1>11, <4>1, <4>2
    <3> QED BY <3>1, <3>2
  <2>13. Lonely(p)'
    <3>1. \A q \in Process : j \notin Keeps(q)
      BY <1>3, <1>23 DEF Links, Live
    <3>2. \A q \in Process : q # p => j \notin Keeps(q)'
      BY <2>1, <3>1 DEF Keeps
    <3>3. Special(u) = j
      BY <1>5 DEF Special
    <3> QED BY <1>10, <1>12, <2>1, <3>2, <3>3 DEF Lonely
  <2>14. LastOwn(p)'
    BY <1>5, <2>1 DEF LastOwn
  <2>15. disk[t.at].type = "dir"
    BY <1>2, <1>23 DEF Links, Relies, DirStages, t
  <2>16. Head(t.rest) \in Name /\ ents[t.at][Head(t.rest)] = None
    <3>1. t.at \in Keeps(p) /\ th[p].pc # "create_new"
      BY <1>1, <1>2 DEF Keeps, Firm, t
    <3>2. ents[t.at]["."] = t.at /\ ents[t.at][".."] # None
      BY <1>23, <2>15, <3>1, DotsThere
    <3>3. ents[t.at][Head(t.rest)] = None
      BY DEF Dirlookup, t
    <3> QED BY <1>2, <3>2, <3>3, FsFacts DEF Names, Dots
  <2>17. Relies(disk', ents', u)
    <3>1. disk'[t.at].type = "dir"
      BY <1>2, <1>8, <2>5, <2>15
    <3>2. disk'[j].type = TypeOf(t.op)
      BY <1>10, <1>12
    <3>3. ents'[j] = NoEnts /\ ents'[t.at][Head(t.rest)] = None
      BY <1>11, <2>2, <2>16
    <3> QED BY <1>5, <1>13, <2>16, <3>1, <3>2, <3>3 DEF Relies, FlightStages
  <2>18. Firm(u, f, c) \subseteq Keeps(p) \cup {j}
    BY <1>2, <1>5, <1>15, FsFacts DEF Firm, Keeps, t
  <2>19. \A k \in Firm(u, f, c) : disk'[k].type # "free"
    <3>1. \A k \in Keeps(p) : k \in Inum /\ disk[k].type # "free"
      BY <1>23 DEF Links, Live, Keeps, Firm
    <3> QED BY <1>10, <1>12, <2>5, <2>18, <3>1
  <2>20. Bounds(p)
    BY <1>10, <1>11, <1>12, <2>4, <2>5 DEF Bounds
  <2>21. j \in MaybeInum /\ Takes(p, j)
    BY <1>3 DEF MaybeInum, Takes
  <2> QED BY <1>6, <1>23, <2>9, <2>10, <2>11, <2>12, <2>13, <2>14, <2>17, <2>18, <2>19,
    <2>20, <2>21, LinksStep
<1> QED BY <1>11, <1>22, <1>23, FsStep

LEMMA CreateAllocKeeps == ASSUME FsInv, NEW p \in Process, CreateAlloc(p) PROVE FsInv'
<1>1. CASE FreeInums = {}
  BY <1>1, NoInodes DEF CreateAlloc
<1>2. CASE FreeInums # {}
  <2>1. PICK j : j = Min(FreeInums)
    OBVIOUS
  <2>2. j \in FreeInums
    <3>1. FreeInums \subseteq Nat
      BY FsFacts DEF FreeInums
    <3> QED BY <1>2, <2>1, <3>1, LeastIn
  <2> QED BY <1>2, <2>1, <2>2, CreateAllocNew DEF CreateAlloc
<1> QED BY <1>1, <1>2

(* iupdate() of two inodes, of which the lock moves from dp to ip.          *)
Both(p, dp, n, ip, m) ==
    /\ lock[dp] = p /\ Ilock(ip)
    /\ n \in Node /\ m \in Node /\ n.type # "free" /\ m.type # "free"
    /\ IupdateBoth(dp, n, ip, m) /\ lock' = [lock EXCEPT ![dp] = Nobody, ![ip] = p]
    /\ ents' \in [Inum -> [Names -> MaybeInum]] /\ lost' = lost /\ strayed' = strayed

LEMMA BothFrame ==
    ASSUME RefInv, NEW p \in Process, NEW dp \in Inum, NEW ip \in Inum, NEW n, NEW m,
           Both(p, dp, n, ip, m)
    PROVE  /\ Inodes' /\ Cache' /\ LocksKept(p) /\ lock'[ip] = p /\ dp # ip
           /\ disk'[dp] = n /\ disk'[ip] = m
           /\ \A k \in Inum : k \notin {dp, ip} => disk'[k] = disk[k]
<1> USE DEF Both
<1>1. Inodes /\ Cache
  BY DEF RefInv, Types
<1>2. dp # ip /\ lock[ip] = Nobody
  BY FsFacts DEF Ilock
<1>3. /\ disk' = [disk EXCEPT ![dp] = n, ![ip] = m]
      /\ mem' = [mem EXCEPT ![dp] = n, ![ip] = m]
      /\ valid' = [valid EXCEPT ![dp] = TRUE, ![ip] = TRUE]
  BY DEF IupdateBoth
<1>4. disk' \in [Inum -> Node] /\ mem' \in [Inum -> Node] /\ valid' \in [Inum -> BOOLEAN]
  BY <1>1, <1>3 DEF Inodes
<1>5. lock' \in [Inum -> Process \cup {Nobody}]
  BY <1>1 DEF Inodes
<1>6. /\ disk'[dp] = n /\ disk'[ip] = m /\ mem'[dp] = n /\ mem'[ip] = m
      /\ \A k \in Inum : k \notin {dp, ip} =>
            disk'[k] = disk[k] /\ mem'[k] = mem[k] /\ valid'[k] = valid[k]
  BY <1>1, <1>2, <1>3 DEF Inodes
<1>7. /\ lock'[ip] = p /\ lock'[dp] = Nobody
      /\ \A k \in Inum : k \notin {dp, ip} => lock'[k] = lock[k]
  BY <1>1, <1>2 DEF Inodes
<1>8. Inodes'
  BY <1>1, <1>4, <1>5 DEF Inodes
<1>9. Cache'
  BY <1>1, <1>6, <1>7 DEF Cache
<1>10. LocksKept(p)
  BY <1>2, <1>7 DEF LocksKept
<1> QED BY <1>2, <1>6, <1>7, <1>8, <1>9, <1>10

(* at is given to iput(), and ip kept.                                      *)
LEMMA PutAtRef ==
    ASSUME RefInv, NEW p \in Process, th[p].pc \notin Puts \cup {"chdir_set"},
           th[p].at \in Inum, th[p].ip \in Inum, NEW u,
           NEW l \in {"create_done", "unlink_dec", "link_done"}, u = PutAt(p, l), Set(p, u),
           ref' = ref, file' = file, cwd' = cwd, Inodes', Cache', LocksKept(p),
           l \in IpLocked => lock'[th[p].ip] = p
    PROVE  /\ RefInv' /\ Moves(p, u, file[p], cwd[p])
           /\ u.pc = "iput" /\ Stage(u) = l /\ u.ip = th[p].ip
           /\ Firm(u, file[p], cwd[p]) \subseteq Keeps(p) \cup {None}
<1> DEFINE t == th[p]
<1>1. IsThread(t) /\ ThreadOK(t)
  BY Here
<1>2. /\ IsThread(u) /\ u.pc = "iput" /\ u.arg = t.at /\ u.ret = l /\ u.at = None
      /\ u.ip = t.ip /\ u.rest = t.rest /\ u.op = t.op
  BY <1>1, PutAtIs
<1>3. /\ t.rest \in Seq(Names) /\ t.arg = None /\ t.ret = ""
      /\ file[p] \in MaybeInum /\ cwd[p] \in Inum
  BY Here DEF Slots, Flow
<1>4. Stage(u) = l
  BY <1>2 DEF Stage, Puts
<1>5. ThreadOK(u)
  <2>1. /\ u.ret \in Labels \ (Puts \cup NameStages \cup {"open", "link", "panic"})
        /\ u.ret \notin AtStages /\ u.ret \in IpStages
    BY <1>2 DEF Labels, Puts, NameStages, AtStages, IpStages
  <2>2. /\ u.at \in MaybeInum /\ u.ip \in MaybeInum /\ u.ip # None /\ u.rest \in Seq(Names)
        /\ u.arg \in Inum
    BY <1>2, <1>3, FsFacts DEF MaybeInum
  <2> QED BY <1>1, <1>2, <2>1, <2>2, PutOK
<1>6. Moves(p, u, file[p], cwd[p])
  BY SetMoves
<1>7. CwdOf(u, cwd[p]) = CwdOf(t, cwd[p])
  BY <1>2, <1>3 DEF CwdOf
<1>8. Counts(p, u, file[p], cwd[p])
  <2>1. \A n \in Inum : OwnOf(u, file[p], cwd[p], n) = OwnOf(t, file[p], cwd[p], n)
    <3>1. u.at = None /\ u.ip = t.ip /\ u.arg = t.at /\ t.arg = None
      BY <1>2, <1>3
    <3> QED BY <1>7, <3>1, OwnPutAt
  <2> QED BY <2>1, KeptCounts
<1>9. Locks(lock', p, u) /\ Unopened(u, file[p])
  BY <1>2, <1>4, Here DEF Locks, AtLocked, Unopened
<1>10. RefInv'
  BY <1>3, <1>5, <1>6, <1>8, <1>9, RefStep
<1>11. Firm(u, file[p], cwd[p]) \subseteq Keeps(p) \cup {None}
  BY <1>2, <1>7, FsFacts DEF Firm, Keeps
<1> QED BY <1>2, <1>4, <1>6, <1>10, <1>11

(* A step to iput() that frees no inode.                                    *)
LEMMA PutLinks ==
    ASSUME RefInv, Links, NEW p \in Process, NEW u, NEW f, NEW c, Moves(p, u, f, c),
           u.pc = "iput", Firm(u, f, c) \subseteq Keeps(p) \cup {None},
           \A i \in Inum : i \notin Keeps(p) =>
              disk'[i].nlink = disk[i].nlink /\ ents'[i] = ents[i],
           \A i \in Inum : lock[i] \notin {p, Nobody} => ents'[i] = ents[i],
           \A i \in Inum : disk'[i].type = disk[i].type,
           LinkCount', Blank', Tree', HasDots', Relies(disk', ents', u)
    PROVE  Links'
<1>1. th'[p] = u
  BY MovesTo DEF RefInv
<1>2. Lonely(p)' /\ LastOwn(p)'
  BY <1>1 DEF Lonely, LastOwn, Special
<1>3. Bounds(p)
  BY DEF Bounds
<1>4. \A i \in Firm(u, f, c) : disk'[i].type # "free"
  <2>1. \A i \in Firm(u, f, c) : i \in Inum
    BY DEF Firm
  <2>2. \A i \in Keeps(p) : disk[i].type # "free"
    BY DEF Links, Live
  <2> QED BY <2>1, <2>2, FsFacts
<1>5. None \in MaybeInum /\ Takes(p, None)
  BY DEF MaybeInum, Takes
<1> QED BY <1>2, <1>3, <1>4, <1>5, LinksStep

LEMMA LinkedIs ==
    ASSUME RefInv, NEW i \in Inum, NEW d \in Int
    PROVE  /\ Linked(i, d) \in Node /\ Linked(i, d).type = disk[i].type
           /\ Linked(i, d).nlink = disk[i].nlink + d /\ disk[i].nlink \in Int
<1>1. Cached(i) = disk[i] /\ Cached(i) \in Node
  BY CachedIs
<1>2. Linked(i, d) = [disk[i] EXCEPT !.nlink = @ + d]
  BY <1>1 DEF Linked
<1> QED BY <1>1, <1>2 DEF Node

LEMMA CreateNewKeeps == ASSUME FsInv, NEW p \in Process, CreateNew(p) PROVE FsInv'
<1> RefInv
  BY DEF FsInv
<1> DEFINE t == th[p]
           f == file[p]
           c == cwd[p]
           dir == th[p].op = "mkdir"
<1>0. PICK dp, ip, name : dp = t.at /\ ip = t.ip /\ name = Head(t.rest)
  OBVIOUS
<1>1. t.pc = "create_new"
  BY DEF CreateNew, At
<1>2. /\ dp \in Inum /\ ip \in Inum /\ t.arg = None /\ t.ret = "" /\ Stage(t) = "create_new"
      /\ t.rest \in Seq(Names) /\ name \in Names /\ lock[dp] = p
      /\ t.pc \notin Puts \cup {"chdir_set"}
  BY <1>0, <1>1, AtLabel DEF Labels, Puts, AtStages, IpStages, NameStages, AtLocked
<1>3. PICK n : n = Linked(dp, IF dir THEN 1 ELSE 0)
  OBVIOUS
<1>4. PICK m : m = [Cached(ip) EXCEPT !.nlink = 1]
  OBVIOUS
<1>5. PICK row : row = IF dir THEN [ents[ip] EXCEPT !["."] = ip, ![".."] = dp] ELSE ents[ip]
  OBVIOUS
<1>6. PICK u : u = PutAt(p, "create_done")
  OBVIOUS
<1>7. Ilock(ip)
  BY <1>0 DEF CreateNew
<1>8. dp # ip
  BY <1>2, <1>7, FsFacts DEF Ilock
<1>9. Inodes /\ Cache
  BY DEF RefInv, Types
<1>10. /\ n \in Node /\ n.type = disk[dp].type /\ n.nlink = disk[dp].nlink + One(dir)
       /\ n.type # "free"
  <2>1. disk[dp].type # "free"
    BY <1>2, <1>9, FsFacts DEF Cache
  <2>2. PICK d \in Int : d = One(dir)
    BY OneNat
  <2>3. n = Linked(dp, d)
    BY <1>3, <2>2 DEF One
  <2>4. n \in Node /\ n.type = disk[dp].type /\ n.nlink = disk[dp].nlink + d
    BY <1>2, <2>3, LinkedIs
  <2> QED BY <2>1, <2>2, <2>4
<1>11. m \in Node /\ m.type = disk[ip].type /\ m.nlink = 1 /\ m.type # "free"
  <2>1. Cached(ip) = disk[ip] /\ disk[ip] \in Node /\ disk[ip].type # "free"
    BY <1>2, <1>7, CachedIs DEF Ilock
  <2> QED BY <1>4, <2>1 DEF Node
<1>12. /\ IupdateBoth(dp, n, ip, m)
       /\ lock' = [lock EXCEPT ![dp] = Nobody, ![ip] = p] /\ Set(p, u)
       /\ lost' = lost /\ strayed' = strayed /\ ref' = ref /\ cwd' = cwd /\ file' = file
  BY <1>0, <1>3, <1>4, <1>6 DEF CreateNew, history
<1>13. ents' = [ents EXCEPT ![dp][name] = ip,
                            ![ip] = IF dir THEN [@ EXCEPT !["."] = ip, ![".."] = dp] ELSE @]
  BY <1>0 DEF CreateNew
<1> HIDE DEF t, dir
<1>14. /\ ents' = [ents EXCEPT ![dp] = [ents[dp] EXCEPT ![name] = ip], ![ip] = row]
       /\ row \in [Names -> MaybeInum]
       /\ [ents[dp] EXCEPT ![name] = ip] \in [Names -> MaybeInum]
  <2>1. ents \in [Inum -> [Names -> MaybeInum]] /\ ip \in MaybeInum /\ dp \in MaybeInum
    BY <1>2, <1>9 DEF Inodes, MaybeInum
  <2>2. row \in [Names -> MaybeInum]
    BY <1>2, <1>5, <2>1
  <2>3. [ents[dp] EXCEPT ![name] = ip] \in [Names -> MaybeInum]
    BY <1>2, <2>1
  <2>4. PICK g : g = [ents EXCEPT ![dp] = [ents[dp] EXCEPT ![name] = ip]]
    OBVIOUS
  <2>5. g[ip] = ents[ip]
    BY <1>2, <1>8, <2>1, <2>4
  <2>6. ents' = [g EXCEPT ![ip] = row]
    BY <1>5, <1>13, <2>4, <2>5
  <2> QED BY <2>2, <2>3, <2>4, <2>6
<1>15. /\ ents' \in [Inum -> [Names -> MaybeInum]] /\ ents'[ip] = row
       /\ ents'[dp] = [ents[dp] EXCEPT ![name] = ip]
       /\ \A k \in Inum : k \notin {dp, ip} => ents'[k] = ents[k]
  BY <1>2, <1>8, <1>9, <1>14 DEF Inodes
<1>16. /\ Inodes' /\ Cache' /\ LocksKept(p) /\ lock'[ip] = p
       /\ disk'[dp] = n /\ disk'[ip] = m
       /\ \A k \in Inum : k \notin {dp, ip} => disk'[k] = disk[k]
  <2>1. /\ dp \in Inum /\ ip \in Inum /\ lock[dp] = p /\ Ilock(ip)
        /\ n \in Node /\ m \in Node /\ n.type # "free" /\ m.type # "free"
        /\ IupdateBoth(dp, n, ip, m) /\ lock' = [lock EXCEPT ![dp] = Nobody, ![ip] = p]
        /\ ents' \in [Inum -> [Names -> MaybeInum]] /\ lost' = lost /\ strayed' = strayed
    BY <1>2, <1>7, <1>10, <1>11, <1>12, <1>15
  <2>2. Both(p, dp, n, ip, m)
    BY <2>1 DEF Both
  <2>3. dp \in Inum /\ ip \in Inum /\ p \in Process /\ RefInv
    BY <2>1
  <2>4. Inodes'
    BY <2>2, <2>3, BothFrame
  <2>5. Cache' /\ LocksKept(p)
    BY <2>2, <2>3, BothFrame
  <2>6. disk'[dp] = n /\ disk'[ip] = m /\ lock'[ip] = p
    BY <2>2, <2>3, BothFrame
  <2>7. \A k \in Inum : k \notin {dp, ip} => disk'[k] = disk[k]
    BY <2>2, <2>3, BothFrame
  <2> QED BY <2>4, <2>5, <2>6, <2>7
<1>17. /\ RefInv' /\ Moves(p, u, f, c) /\ u.pc = "iput" /\ Stage(u) = "create_done"
       /\ Firm(u, f, c) \subseteq Keeps(p) \cup {None}
  <2>1. /\ t.pc \notin Puts \cup {"chdir_set"} /\ t.at \in Inum /\ t.ip \in Inum
        /\ lock'[t.ip] = p
    BY <1>0, <1>2, <1>16
  <2> QED BY <1>6, <1>12, <1>16, <2>1, PutAtRef DEF t
<1>18. ASSUME Links PROVE Links'
  <2>1. /\ th'[p] = u
        /\ \A r \in Process : r # p => th'[r] = th[r]
    BY <1>17, MovesTo DEF RefInv
  <2>2. Relies(disk, ents, t) /\ Lonely(p)
    BY <1>18 DEF Links, t
  <2>3. /\ name \in Name /\ ents[dp][name] = None /\ ents[ip] = NoEnts
        /\ disk[dp].type = "dir" /\ (disk[ip].type = "dir" <=> dir)
    BY <1>0, <1>1, <1>2, <2>2, TypeIs DEF Relies, DirStages, t, dir
  <2>4. disk[ip].nlink = 0
    <3>1. Special(t) = ip
      BY <1>0, <1>1 DEF Special
    <3> QED BY <1>2, <2>2, <3>1, FsFacts DEF Lonely, t
  <2>5. Entries(ip) = {} /\ Subdirs(ip) = {} /\ ip # ROOT
    BY <1>2, <1>18, <2>4, NoLink
  <2>6. dp \in Keeps(p) /\ ip \in Keeps(p)
    BY <1>0, <1>2 DEF Keeps, Firm, t
  <2>7. /\ name # "." /\ name # ".." /\ "." \in Names /\ ".." \in Names /\ name \in Names
        /\ \A k \in Name : k # "." /\ k # ".." /\ k \in Names
    BY <2>3, FsFacts DEF Names, Dots
  <2>8. /\ \A k \in Name : row[k] = None
        /\ dir => row["."] = ip /\ row[".."] = dp
        /\ ~dir => row[".."] = None /\ row["."] = None
    <3>1. \A k \in Names : NoEnts[k] = None
      BY DEF NoEnts, Names
    <3>2. NoEnts \in [Names -> MaybeInum]
      BY DEF NoEnts, Names, MaybeInum
    <3> QED BY <1>5, <2>3, <2>7, <3>1, <3>2
  <2>9. /\ ents'[dp][name] = ip
        /\ \A k \in Names : k # name => ents'[dp][k] = ents[dp][k]
    BY <1>2, <1>9, <1>15, <2>7 DEF Inodes
  <2>10. \A d \in Inum : \A k \in Name :
            <<d, k>> # <<dp, name>> => ents'[d][k] = ents[d][k]
    <3> SUFFICES ASSUME NEW d \in Inum, NEW k \in Name, <<d, k>> # <<dp, name>>
                 PROVE  ents'[d][k] = ents[d][k]
      OBVIOUS
    <3>1. CASE d = dp
      BY <2>7, <2>9, <3>1
    <3>2. CASE d = ip
      <4>1. ents[ip][k] = None
        BY <2>3, <2>7 DEF NoEnts, Names
      <4> QED BY <1>15, <2>8, <3>2, <4>1
    <3>3. CASE d \notin {dp, ip}
      BY <1>15, <3>3
    <3> QED BY <3>1, <3>2, <3>3
  <2>11. /\ \A k \in Inum : k # ip => Entries(k)' = Entries(k)
         /\ Entries(ip)' = {<<dp, name>>}
    <3>1. ASSUME NEW k \in Inum, NEW e \in Inum \X Name
          PROVE  e \in Entries(k)' <=> IF e = <<dp, name>> THEN k = ip ELSE e \in Entries(k)
      <4>1. PICK d \in Inum, l \in Name : e = <<d, l>>
        OBVIOUS
      <4>2. (e \in Entries(k)' <=> ents'[d][l] = k) /\ (e \in Entries(k) <=> ents[d][l] = k)
        BY <4>1 DEF Entries
      <4> QED BY <2>9, <2>10, <4>1, <4>2
    <3>2. \A k \in Inum : Entries(k)' \subseteq Inum \X Name /\ Entries(k) \subseteq Inum \X Name
      BY DEF Entries
    <3>3. <<dp, name>> \in Inum \X Name
      BY <1>2, <2>3
    <3>4. ASSUME NEW k \in Inum, k # ip PROVE Entries(k)' = Entries(k)
      <4>1. <<dp, name>> \notin Entries(k)
        BY <1>2, <2>3, FsFacts DEF Entries
      <4> QED BY <3>1, <3>2, <3>4, <4>1
    <3>5. Entries(ip)' = {<<dp, name>>}
      BY <1>2, <2>5, <3>1, <3>2, <3>3
    <3> QED BY <3>4, <3>5
  <2>12. \A k \in Inum : \A d : d \in Subdirs(k)' <=>
            IF d = ip THEN dir /\ k = dp ELSE d \in Subdirs(k)
    <3> SUFFICES ASSUME NEW k \in Inum, NEW d
                 PROVE  d \in Subdirs(k)' <=> IF d = ip THEN dir /\ k = dp ELSE d \in Subdirs(k)
      OBVIOUS
    <3>1. /\ d \in Subdirs(k)' <=> d \in Inum /\ d # ROOT /\ ents'[d][".."] = k /\ Entries(d)' # {}
          /\ d \in Subdirs(k) <=> d \in Inum /\ d # ROOT /\ ents[d][".."] = k /\ Entries(d) # {}
      BY DEF Subdirs
    <3>2. CASE d = ip
      <4>1. Entries(d)' # {} /\ d \in Inum /\ d # ROOT
        BY <1>2, <2>5, <2>11, <3>2
      <4>2. ents'[d][".."] = k <=> dir /\ k = dp
        BY <1>15, <2>8, <3>2, FsFacts
      <4> QED BY <3>1, <3>2, <4>1, <4>2
    <3>3. CASE d # ip /\ d \in Inum
      <4>1. ents'[d][".."] = ents[d][".."]
        BY <1>15, <2>7, <2>9, <3>3
      <4>2. Entries(d)' = Entries(d)
        BY <2>11, <3>3
      <4> QED BY <3>1, <3>3, <4>1, <4>2
    <3>4. CASE d # ip /\ d \notin Inum
      BY <3>1, <3>4
    <3> QED BY <3>2, <3>3, <3>4
  <2>13. Flies(u) = None /\ Flies(t) = None
    BY <1>2, <1>17 DEF Flies, FlightStages
  <2>14. LinkCount'
    <3>1. SameBut(<<dp, name>>, ip)
      <4>1. \A k \in Inum : \A y : y # ip => (y \in Subdirs(k) <=> y \in Subdirs(k)')
        BY <2>12
      <4>2. \A k \in Inum : \A y : y # <<dp, name>> => (y \in Entries(k) <=> y \in Entries(k)')
        BY <2>5, <2>11
      <4> QED BY <4>1, <4>2 DEF SameBut
    <3>2. ASSUME NEW k \in Inum
          PROVE  disk'[k].nlink = disk[k].nlink + Change(<<dp, name>>, ip, t, u, k)
      <4>1. /\ One(<<dp, name>> \in Entries(k)') = One(k = ip)
            /\ One(<<dp, name>> \in Entries(k)) = 0
        <5>1. <<dp, name>> \in Entries(k)' <=> k = ip
          BY <1>2, <2>3, <2>11, FsFacts DEF Entries
        <5>2. <<dp, name>> \notin Entries(k)
          BY <1>2, <2>3, FsFacts DEF Entries
        <5> QED BY <5>1, <5>2 DEF One
      <4>2. /\ One(ip \in Subdirs(k)') = One(dir /\ k = dp) /\ One(ip \in Subdirs(k)) = 0
        <5>1. ip \in Subdirs(k)' <=> dir /\ k = dp
          BY <2>12
        <5>2. ip \notin Subdirs(k)
          BY <2>5 DEF Subdirs
        <5> QED BY <5>1, <5>2 DEF One
      <4>3. One(Flies(u) = k) = 0 /\ One(Flies(t) = k) = 0
        BY <2>13, FsFacts DEF One
      <4>4. Change(<<dp, name>>, ip, t, u, k) = One(k = ip) + One(dir /\ k = dp)
        <5>1. One(k = ip) \in Nat /\ One(dir /\ k = dp) \in Nat
          BY OneNat
        <5> QED BY <4>1, <4>2, <4>3, <5>1 DEF Change
      <4>5. disk[k].nlink \in Int
        BY <1>9 DEF Inodes, Node
      <4>6. CASE k = ip
        <5>1. One(k = ip) = 1 /\ One(dir /\ k = dp) = 0
          BY <1>8, <4>6 DEF One
        <5> QED BY <1>11, <1>16, <2>4, <4>4, <4>6, <5>1
      <4>7. CASE k = dp
        <5>1. One(k = ip) = 0 /\ One(dir /\ k = dp) = One(dir) /\ One(dir) \in Nat
          BY <1>8, <4>7 DEF One
        <5> QED BY <1>10, <1>16, <4>4, <4>5, <4>7, <5>1
      <4>8. CASE k \notin {dp, ip}
        <5>1. One(k = ip) = 0 /\ One(dir /\ k = dp) = 0
          BY <4>8 DEF One
        <5> QED BY <1>16, <4>4, <4>5, <4>8, <5>1
      <4> QED BY <4>6, <4>7, <4>8
    <3> QED BY <1>12, <1>17, <1>18, <3>1, <3>2, SumStep DEF t
  <2>15. \A k \in Inum : disk'[k].type = disk[k].type
    BY <1>10, <1>11, <1>16
  <2>16. Blank'
    BY <1>10, <1>11, <1>15, <1>16, <1>18 DEF Links, Blank
  <2>17. Tree'
    <3>1. ASSUME NEW d \in Inum, NEW k \in Names, ents'[d][k] # None
          PROVE  disk'[d].type = "dir"
      <4>1. CASE d = dp
        BY <1>2, <2>3, <2>15, <4>1
      <4>2. CASE d = ip
        <5>1. dir
          BY <1>15, <2>8, <3>1, <4>2 DEF Names, Dots
        <5> QED BY <1>2, <2>3, <2>15, <4>2, <5>1
      <4>3. CASE d \notin {dp, ip}
        BY <1>15, <1>18, <2>15, <3>1, <4>3 DEF Links, Tree
      <4> QED BY <4>1, <4>2, <4>3
    <3>2. ASSUME NEW d \in Inum, disk'[d].type = "dir", NEW e \in Entries(d)'
          PROVE  ents'[d][".."] = e[1] /\ \A g \in Entries(d)' : g = e
      <4>1. CASE d = ip
        <5>1. dir /\ e = <<dp, name>>
          BY <1>2, <2>3, <2>11, <2>15, <3>2, <4>1
        <5>2. ents'[d][".."] = dp
          BY <1>15, <2>8, <4>1, <5>1
        <5> QED BY <2>11, <4>1, <5>1, <5>2
      <4>2. CASE d # ip
        <5>1. Entries(d)' = Entries(d) /\ ents'[d][".."] = ents[d][".."]
          BY <1>15, <2>7, <2>9, <2>11, <4>2
        <5>2. \A k \in Inum : disk[k].type = "dir" =>
                 \A e2 \in Entries(k) : ents[k][".."] = e2[1] /\ \A g \in Entries(k) : g = e2
          BY <1>18 DEF Links, Tree
        <5> QED BY <2>15, <3>2, <5>1, <5>2
      <4> QED BY <4>1, <4>2
    <3>3. disk'[ROOT].type = "dir" /\ ents'[ROOT][".."] = ROOT /\ Entries(ROOT)' = {}
      <4>1. disk[ROOT].type = "dir" /\ ents[ROOT][".."] = ROOT /\ Entries(ROOT) = {}
        BY <1>18 DEF Links, Tree
      <4>2. ents'[ROOT][".."] = ents[ROOT][".."]
        BY <1>15, <2>5, <2>7, <2>9, FsFacts
      <4> QED BY <2>5, <2>11, <2>15, <4>1, <4>2, FsFacts
    <3> QED BY <3>1, <3>2, <3>3 DEF Tree
  <2>18. HasDots'
    <3> SUFFICES ASSUME NEW d \in Inum, disk'[d].type = "dir"
                 PROVE  \/ ents'[d]["."] = d /\ ents'[d][".."] # None
                        \/ \E q \in Process : th'[q].pc = "create_new" /\ th'[q].ip = d
      BY DEF HasDots
    <3>1. CASE d = ip
      BY <1>2, <1>15, <2>3, <2>8, <2>15, <3>1, FsFacts
    <3>2. CASE d # ip
      <4>1. \/ ents[d]["."] = d /\ ents[d][".."] # None
            \/ \E q \in Process : th[q].pc = "create_new" /\ th[q].ip = d
        BY <1>18, <2>15 DEF Links, HasDots
      <4>2. \A q \in Process : th[q].ip = d /\ th[q].pc = "create_new" => th'[q] = th[q] \/ q = p
        BY <2>1
      <4>3. th[p].ip # d
        BY <1>0, <3>2 DEF t
      <4>4. ents'[d]["."] = ents[d]["."] /\ ents'[d][".."] = ents[d][".."]
        BY <1>15, <2>7, <2>9, <3>2
      <4> QED BY <4>1, <4>2, <4>3, <4>4
    <3> QED BY <3>1, <3>2
  <2>19. Relies(disk', ents', u)
    BY <1>17 DEF Relies, DirStages, FlightStages
  <2>20. /\ \A k \in Inum : k \notin Keeps(p) =>
               disk'[k].nlink = disk[k].nlink /\ ents'[k] = ents[k]
         /\ \A k \in Inum : lock[k] \notin {p, Nobody} => ents'[k] = ents[k]
    <3>1. lock[ip] = Nobody
      BY <1>7 DEF Ilock
    <3> QED BY <1>2, <1>15, <1>16, <2>6, <3>1
  <2> QED BY <1>17, <1>18, <2>14, <2>15, <2>16, <2>17, <2>18, <2>19, <2>20, PutLinks
<1> QED BY <1>12, <1>17, <1>18, FsStep

(* unlink() erases the entry and goes on to iput() of the directory.        *)
Erases(p, d) ==
    /\ At(p, "unlink_ip") /\ Ilock(th[p].ip)
    /\ d = IF Cached(th[p].ip).type = "dir" THEN -1 ELSE 0
    /\ ents' = EntryErased(th[p].at, Head(th[p].rest))
    /\ IupdateBoth(th[p].at, Linked(th[p].at, d), th[p].ip, Cached(th[p].ip))
    /\ lock' = [lock EXCEPT ![th[p].at] = Nobody, ![th[p].ip] = p]
    /\ Set(p, PutAt(p, "unlink_dec")) /\ UNCHANGED <<history, ref, cwd, file>>

LEMMA ErasesKeeps == ASSUME FsInv, NEW p \in Process, NEW d \in Int, Erases(p, d) PROVE FsInv'
<1> RefInv
  BY DEF FsInv
<1> DEFINE t == th[p]
           f == file[p]
           c == cwd[p]
<1>0. PICK dp, ip, name : dp = t.at /\ ip = t.ip /\ name = Head(t.rest)
  OBVIOUS
<1>1. t.pc = "unlink_ip"
  BY DEF Erases, At
<1>2. /\ dp \in Inum /\ ip \in Inum /\ t.arg = None /\ t.ret = "" /\ Stage(t) = "unlink_ip"
      /\ name \in Names /\ lock[dp] = p
      /\ t.pc \notin Puts \cup {"chdir_set"}
  BY <1>0, <1>1, AtLabel DEF Labels, Puts, AtStages, IpStages, NameStages, AtLocked
<1>3. PICK n : n = Linked(dp, d)
  OBVIOUS
<1>4. PICK m : m = Cached(ip)
  OBVIOUS
<1>5. PICK u : u = PutAt(p, "unlink_dec")
  OBVIOUS
<1>6. Inodes /\ Cache /\ Ilock(ip)
  BY <1>0 DEF Erases, RefInv, Types
<1>7. /\ n \in Node /\ n.type = disk[dp].type /\ n.nlink = disk[dp].nlink + d
      /\ n.type # "free"
  <2>1. disk[dp].type # "free"
    BY <1>2, <1>6, FsFacts DEF Cache
  <2> QED BY <1>2, <1>3, <2>1, LinkedIs
<1>8. m \in Node /\ m = disk[ip] /\ m.type # "free"
  BY <1>2, <1>4, <1>6, CachedIs DEF Ilock
<1>9. d = IF disk[ip].type = "dir" THEN -1 ELSE 0
  BY <1>0, <1>4, <1>8 DEF Erases
<1>10. /\ IupdateBoth(dp, n, ip, m)
       /\ lock' = [lock EXCEPT ![dp] = Nobody, ![ip] = p] /\ Set(p, u)
       /\ lost' = lost /\ strayed' = strayed /\ ref' = ref /\ cwd' = cwd /\ file' = file
  BY <1>0, <1>3, <1>4, <1>5 DEF Erases, history
<1>11. ents' = [ents EXCEPT ![dp] = [ents[dp] EXCEPT ![name] = None]]
  BY <1>0 DEF Erases, EntryErased
<1> HIDE DEF t
<1>12. /\ ents' \in [Inum -> [Names -> MaybeInum]]
       /\ ents'[dp][name] = None
       /\ \A l \in Names : l # name => ents'[dp][l] = ents[dp][l]
       /\ \A k \in Inum : k # dp => ents'[k] = ents[k]
  <2>1. ents \in [Inum -> [Names -> MaybeInum]] /\ None \in MaybeInum
    BY <1>6 DEF Inodes, MaybeInum
  <2>2. ents[dp] \in [Names -> MaybeInum]
    BY <1>2, <2>1
  <2>3. PICK row : row = [ents[dp] EXCEPT ![name] = None]
    OBVIOUS
  <2>4. /\ row \in [Names -> MaybeInum] /\ row[name] = None
        /\ \A l \in Names : l # name => row[l] = ents[dp][l]
    BY <1>2, <2>1, <2>2, <2>3
  <2>5. ents' = [ents EXCEPT ![dp] = row]
    BY <1>11, <2>3
  <2>6. ents' \in [Inum -> [Names -> MaybeInum]] /\ ents'[dp] = row
        /\ \A k \in Inum : k # dp => ents'[k] = ents[k]
    BY <1>2, <2>1, <2>4, <2>5
  <2> QED BY <2>4, <2>6
<1>13. /\ Inodes' /\ Cache' /\ LocksKept(p) /\ lock'[ip] = p /\ dp # ip
       /\ disk'[dp] = n /\ disk'[ip] = m
       /\ \A k \in Inum : k \notin {dp, ip} => disk'[k] = disk[k]
  <2>1. Both(p, dp, n, ip, m)
    BY <1>2, <1>6, <1>7, <1>8, <1>10, <1>12 DEF Both
  <2>2. dp \in Inum /\ ip \in Inum /\ p \in Process /\ RefInv
    BY <1>2
  <2>3. Inodes' /\ Cache' /\ LocksKept(p)
    BY <2>1, <2>2, BothFrame
  <2>4. disk'[dp] = n /\ disk'[ip] = m /\ lock'[ip] = p
    BY <2>1, <2>2, BothFrame
  <2>6. dp # ip
    BY <1>2, <1>6, FsFacts DEF Ilock
  <2>5. \A k \in Inum : k \notin {dp, ip} => disk'[k] = disk[k]
    BY <2>1, <2>2, BothFrame
  <2> QED BY <2>3, <2>4, <2>5, <2>6
<1>14. /\ RefInv' /\ Moves(p, u, f, c) /\ u.pc = "iput" /\ Stage(u) = "unlink_dec" /\ u.ip = ip
       /\ Firm(u, f, c) \subseteq Keeps(p) \cup {None}
  <2>1. /\ t.pc \notin Puts \cup {"chdir_set"} /\ t.at \in Inum /\ t.ip \in Inum
        /\ lock'[t.ip] = p
    BY <1>0, <1>2, <1>13
  <2> QED BY <1>0, <1>5, <1>10, <1>13, <2>1, PutAtRef DEF t
<1>15. ASSUME Links PROVE Links'
  <2>1. /\ th'[p] = u
        /\ \A r \in Process : r # p => th'[r] = th[r]
    BY <1>14, MovesTo DEF RefInv
  <2>2. name \in Name /\ ents[dp][name] = ip /\ disk[dp].type = "dir"
    BY <1>0, <1>1, <1>2, <1>15 DEF Links, Relies, DirStages, t
  <2>3. dp \in Keeps(p)
    BY <1>0, <1>2 DEF Keeps, Firm, t
  <2>4. /\ name # "." /\ name # ".." /\ "." \in Names /\ ".." \in Names
        /\ \A k \in Name : k \in Names
    BY <2>2, FsFacts DEF Names, Dots
  <2>5. \A k \in Inum : ents'[k]["."] = ents[k]["."] /\ ents'[k][".."] = ents[k][".."]
    BY <1>12, <2>4
  <2>6. \A k \in Inum : \A l \in Name : <<k, l>> # <<dp, name>> => ents'[k][l] = ents[k][l]
    BY <1>12, <2>4
  <2>7. ASSUME NEW k \in Inum, NEW e \in Inum \X Name
        PROVE  e \in Entries(k)' <=> e \in Entries(k) /\ e # <<dp, name>>
    <3>1. PICK g \in Inum, l \in Name : e = <<g, l>>
      OBVIOUS
    <3>2. (e \in Entries(k)' <=> ents'[g][l] = k) /\ (e \in Entries(k) <=> ents[g][l] = k)
      BY <3>1 DEF Entries
    <3> QED BY <1>12, <2>6, <3>1, <3>2, FsFacts
  <2>8. \A k \in Inum : Entries(k)' \subseteq Inum \X Name /\ Entries(k) \subseteq Inum \X Name
    BY DEF Entries
  <2>9. /\ <<dp, name>> \in Entries(ip)
        /\ \A k \in Inum : k # ip => <<dp, name>> \notin Entries(k)
    BY <1>2, <2>2 DEF Entries
  <2>10. /\ \A k \in Inum : Entries(k)' \subseteq Entries(k)
         /\ \A k \in Inum : <<dp, name>> \notin Entries(k)'
         /\ \A k \in Inum : k # ip => Entries(k)' = Entries(k)
    BY <2>7, <2>8, <2>9
  <2>11. ip # ROOT
    BY <1>15, <2>9 DEF Links, Tree
  <2>12. /\ \A k \in Inum : ip \in Subdirs(k) <=> disk[ip].type = "dir" /\ k = dp
         /\ \A k \in Inum : ip \notin Subdirs(k)'
    <3>1. CASE disk[ip].type = "dir"
      <4>1. \A e \in Entries(ip) : ents[ip][".."] = e[1] /\ \A g \in Entries(ip) : g = e
        BY <1>2, <1>15, <3>1 DEF Links, Tree
      <4>2. ents[ip][".."] = <<dp, name>>[1] /\ \A g \in Entries(ip) : g = <<dp, name>>
        BY <2>9, <4>1
      <4>3. ents[ip][".."] = dp /\ Entries(ip)' = {}
        BY <1>2, <2>10, <4>2
      <4> QED BY <1>2, <2>9, <2>11, <3>1, <4>3 DEF Subdirs
    <3>2. CASE disk[ip].type # "dir"
      <4>1. ents[ip][".."] = None /\ ents'[ip][".."] = None
        BY <1>2, <1>15, <2>4, <2>5, <3>2 DEF Links, Tree
      <4> QED BY <3>2, <4>1, FsFacts DEF Subdirs
    <3> QED BY <3>1, <3>2
  <2>13. \A k \in Inum : \A y : y # ip => (y \in Subdirs(k) <=> y \in Subdirs(k)')
    <3> SUFFICES ASSUME NEW k \in Inum, NEW y, y # ip
                 PROVE  y \in Subdirs(k) <=> y \in Subdirs(k)'
      OBVIOUS
    <3>1. /\ y \in Subdirs(k)' <=> y \in Inum /\ y # ROOT /\ ents'[y][".."] = k /\ Entries(y)' # {}
          /\ y \in Subdirs(k) <=> y \in Inum /\ y # ROOT /\ ents[y][".."] = k /\ Entries(y) # {}
      BY DEF Subdirs
    <3>2. y \in Inum => ents'[y][".."] = ents[y][".."] /\ Entries(y)' = Entries(y)
      BY <2>5, <2>10
    <3> QED BY <3>1, <3>2
  <2>14. LinkCount'
    <3>1. SameBut(<<dp, name>>, ip)
      <4>1. \A k \in Inum : \A y : y # <<dp, name>> => (y \in Entries(k) <=> y \in Entries(k)')
        BY <2>7, <2>8
      <4> QED BY <2>13, <4>1 DEF SameBut
    <3>2. ASSUME NEW k \in Inum
          PROVE  disk'[k].nlink = disk[k].nlink + Change(<<dp, name>>, ip, t, u, k)
      <4>1. /\ One(<<dp, name>> \in Entries(k)') = 0
            /\ One(<<dp, name>> \in Entries(k)) = One(k = ip)
        <5>1. (<<dp, name>> \in Entries(k) <=> k = ip) /\ <<dp, name>> \notin Entries(k)'
          BY <2>9, <2>10
        <5> QED BY <5>1 DEF One
      <4>2. PICK b \in Int : /\ b = One(ip \in Subdirs(k)) /\ One(ip \in Subdirs(k)') = 0
                             /\ b = IF k = dp THEN -d ELSE 0
        <5>1. ip \notin Subdirs(k)' /\ (ip \in Subdirs(k) <=> disk[ip].type = "dir" /\ k = dp)
          BY <2>12
        <5> QED BY <1>9, <5>1 DEF One
      <4>3. One(Flies(u) = k) = One(k = ip) /\ One(Flies(t) = k) = 0
        <5>1. Flies(u) = ip /\ Flies(t) = None
          BY <1>2, <1>14 DEF Flies, FlightStages
        <5> QED BY <5>1, FsFacts DEF One
      <4>4. PICK a \in Int : a = One(k = ip)
        BY OneNat
      <4>5. Change(<<dp, name>>, ip, t, u, k) = 0 - a + 0 - b + a - 0
        BY <4>1, <4>2, <4>3, <4>4 DEF Change
      <4>6. Change(<<dp, name>>, ip, t, u, k) = IF k = dp THEN d ELSE 0
        BY <4>2, <4>4, <4>5
      <4>7. disk[k].nlink \in Int
        BY <1>6 DEF Inodes, Node
      <4>8. disk'[k].nlink = disk[k].nlink + IF k = dp THEN d ELSE 0
        BY <1>7, <1>8, <1>13, <4>7
      <4> QED BY <4>6, <4>8
    <3> QED BY <1>10, <1>14, <1>15, <3>1, <3>2, SumStep DEF t
  <2>15. \A k \in Inum : disk'[k].type = disk[k].type
    BY <1>7, <1>8, <1>13
  <2>16. Blank'
    <3>1. \A k \in Inum : disk'[k].type = "free" => k # dp
      BY <2>2, <2>15
    <3>2. \A k \in Inum : disk'[k].type = "free" =>
             disk[k].type = "free" /\ disk'[k].nlink = disk[k].nlink /\ ents'[k] = ents[k]
      BY <1>8, <1>12, <1>13, <2>15, <3>1
    <3> QED BY <1>15, <3>2 DEF Links, Blank
  <2>17. Tree'
    <3>1. ASSUME NEW k \in Inum, NEW l \in Names, ents'[k][l] # None
          PROVE  disk'[k].type = "dir"
      <4>1. ents[k][l] # None
        BY <1>12, <3>1
      <4> QED BY <1>15, <2>15, <4>1 DEF Links, Tree
    <3>2. ASSUME NEW k \in Inum, disk'[k].type = "dir", NEW e \in Entries(k)'
          PROVE  ents'[k][".."] = e[1] /\ \A g \in Entries(k)' : g = e
      <4>1. \A e2 \in Entries(k) : ents[k][".."] = e2[1] /\ \A g \in Entries(k) : g = e2
        BY <1>15, <2>15, <3>2 DEF Links, Tree
      <4>2. Entries(k)' \subseteq Entries(k) /\ ents'[k][".."] = ents[k][".."]
        BY <2>5, <2>10
      <4> QED BY <3>2, <4>1, <4>2
    <3>3. disk'[ROOT].type = "dir" /\ ents'[ROOT][".."] = ROOT /\ Entries(ROOT)' = {}
      <4>1. disk[ROOT].type = "dir" /\ ents[ROOT][".."] = ROOT /\ Entries(ROOT) = {}
        BY <1>15 DEF Links, Tree
      <4> QED BY <2>5, <2>10, <2>15, <4>1, FsFacts
    <3> QED BY <3>1, <3>2, <3>3 DEF Tree
  <2>18. HasDots'
    <3> SUFFICES ASSUME NEW k \in Inum, disk'[k].type = "dir"
                 PROVE  \/ ents'[k]["."] = k /\ ents'[k][".."] # None
                        \/ \E q \in Process : th'[q].pc = "create_new" /\ th'[q].ip = k
      BY DEF HasDots
    <3>1. \/ ents[k]["."] = k /\ ents[k][".."] # None
          \/ \E q \in Process : th[q].pc = "create_new" /\ th[q].ip = k
      BY <1>15, <2>15 DEF Links, HasDots
    <3>2. \A q \in Process : th[q].pc = "create_new" => th'[q] = th[q]
      BY <1>1, <2>1 DEF t
    <3> QED BY <2>5, <3>1, <3>2
  <2>19. Relies(disk', ents', u)
    BY <1>14 DEF Relies, DirStages, FlightStages
  <2>20. /\ \A k \in Inum : k \notin Keeps(p) =>
               disk'[k].nlink = disk[k].nlink /\ ents'[k] = ents[k]
         /\ \A k \in Inum : lock[k] \notin {p, Nobody} => ents'[k] = ents[k]
    <3>1. \A k \in Inum : k # dp => disk'[k] = disk[k]
      BY <1>8, <1>13
    <3> QED BY <1>2, <1>12, <2>3, <3>1
  <2> QED BY <1>14, <1>15, <2>14, <2>15, <2>16, <2>17, <2>18, <2>19, <2>20, PutLinks
<1> QED BY <1>10, <1>14, <1>15, FsStep

LEMMA UnlinkIpKeeps == ASSUME FsInv, NEW p \in Process, UnlinkIp(p) PROVE FsInv'
<1> DEFINE ip == th[p].ip
           dir == Cached(ip).type = "dir"
<1>1. /\ At(p, "unlink_ip") /\ Ilock(ip) /\ UNCHANGED <<history, cwd, file>>
      /\ \/ /\ Cached(ip).nlink < 1
            /\ Set(p, To(p, "panic")) /\ Loaded(ip) /\ UNCHANGED <<disk, ents, lock>>
         \/ Set(p, PutIp(p, "unlink_bad")) /\ Loaded(ip) /\ UNCHANGED <<disk, ents, lock>>
         \/ Erases(p, IF dir THEN -1 ELSE 0)
  BY DEF UnlinkIp, Erases, ParentUnlinked
<1>2. CASE /\ Cached(ip).nlink < 1
           /\ Set(p, To(p, "panic")) /\ Loaded(ip) /\ UNCHANGED <<disk, ents, lock>>
  BY <1>1, <1>2, UnlinkIpPanic
<1>3. CASE Set(p, PutIp(p, "unlink_bad")) /\ Loaded(ip) /\ UNCHANGED <<disk, ents, lock>>
  BY <1>1, <1>3, UnlinkIpFull
<1>4. CASE Erases(p, IF dir THEN -1 ELSE 0)
  <2>1. (IF dir THEN -1 ELSE 0) \in Int
    OBVIOUS
  <2> QED BY <1>4, <2>1, ErasesKeeps
<1> QED BY <1>1, <1>2, <1>3, <1>4

(* iupdate() of one inode, which p has locked or locks in this step.        *)
Single(p, i, n) ==
    /\ lock[i] \in {p, Nobody} /\ lock' \in {lock, [lock EXCEPT ![i] = Nobody]}
    /\ n \in Node /\ n.type = disk[i].type /\ n.type # "free" /\ Iupdate(i, n)
    /\ ents' = ents /\ lost' = lost /\ strayed' = strayed

LEMMA SingleFrame ==
    ASSUME RefInv, NEW p \in Process, NEW i \in Inum, NEW n, Single(p, i, n)
    PROVE  /\ Inodes' /\ Cache' /\ LocksKept(p)
           /\ disk'[i] = n /\ \A k \in Inum : k # i => disk'[k] = disk[k]
           /\ \A k \in Inum : disk'[k].type = disk[k].type
<1>1. Inodes /\ Cache
  BY DEF RefInv, Types
<1>2. /\ disk' = [disk EXCEPT ![i] = n] /\ mem' = [mem EXCEPT ![i] = n]
      /\ valid' = [valid EXCEPT ![i] = TRUE] /\ n \in Node
  BY DEF Single, Iupdate
<1>3. disk' \in [Inum -> Node] /\ mem' \in [Inum -> Node] /\ valid' \in [Inum -> BOOLEAN]
  BY <1>1, <1>2 DEF Inodes
<1>4. /\ disk'[i] = n /\ mem'[i] = n
      /\ \A k \in Inum : k # i => disk'[k] = disk[k] /\ mem'[k] = mem[k] /\ valid'[k] = valid[k]
  BY <1>1, <1>2 DEF Inodes
<1>5. /\ lock' \in [Inum -> Process \cup {Nobody}]
      /\ \A k \in Inum : k # i => lock'[k] = lock[k]
  BY <1>1 DEF Single, Inodes
<1>6. n.type = disk[i].type /\ n.type # "free"
  BY DEF Single
<1>7. Inodes'
  BY <1>1, <1>3, <1>5 DEF Inodes, Single
<1>8. Cache'
  BY <1>1, <1>4, <1>5, <1>6 DEF Cache
<1>9. LocksKept(p)
  BY <1>5 DEF LocksKept, Single
<1>10. \A k \in Inum : disk'[k].type = disk[k].type
  BY <1>4, <1>6
<1> QED BY <1>4, <1>7, <1>8, <1>9, <1>10

(* A step that changes link counts only.                                    *)
LEMMA SameEnts ==
    ASSUME RefInv, Links, NEW p \in Process, NEW u, NEW f, NEW c, Moves(p, u, f, c),
           th[p].pc # "create_new", ents' = ents, NEW i \in Inum, disk[i].type # "free",
           \A k \in Inum : disk'[k].type = disk[k].type,
           \A k \in Inum : k # i => disk'[k] = disk[k]
    PROVE  /\ Blank' /\ Tree' /\ HasDots'
           /\ \A k \in Inum : Entries(k)' = Entries(k) /\ Subdirs(k)' = Subdirs(k)
<1>1. \A q \in Process : th[q].pc = "create_new" => th'[q] = th[q]
  BY MovesTo DEF RefInv
<1>2. \A k \in Inum : Entries(k)' = Entries(k)
  BY DEF Entries
<1>3. \A k \in Inum : Subdirs(k)' = Subdirs(k)
  BY <1>2 DEF Subdirs
<1>4. Blank'
  <2>1. \A k \in Inum : disk'[k].type = "free" => disk[k].type = "free" /\ disk'[k] = disk[k]
    OBVIOUS
  <2> QED BY <2>1 DEF Links, Blank
<1>5. Tree'
  <2>1. \A k \in Inum : \A n \in Names : ents'[k][n] # None => disk'[k].type = "dir"
    BY DEF Links, Tree
  <2>2. \A k \in Inum : disk'[k].type = "dir" =>
          \A e \in Entries(k)' : ents'[k][".."] = e[1] /\ \A g \in Entries(k)' : g = e
    BY <1>2 DEF Links, Tree
  <2>3. disk'[ROOT].type = "dir" /\ ents'[ROOT][".."] = ROOT /\ Entries(ROOT)' = {}
    BY <1>2, FsFacts DEF Links, Tree
  <2> QED BY <2>1, <2>2, <2>3 DEF Tree
<1>6. HasDots'
  <2>1. \A k \in Inum : disk'[k].type = "dir" =>
          \/ ents'[k]["."] = k /\ ents'[k][".."] # None
          \/ \E q \in Process : th'[q].pc = "create_new" /\ th'[q].ip = k
    BY <1>1 DEF Links, HasDots
  <2> QED BY <2>1 DEF HasDots
<1> QED BY <1>2, <1>3, <1>4, <1>5, <1>6

(* The links in flight change, and the entries do not.                      *)
LEMMA FlightSum ==
    ASSUME RefInv, Links, NEW p \in Process, NEW u, NEW f, NEW c, Moves(p, u, f, c),
           lost' = lost,
           \A k \in Inum : Entries(k)' = Entries(k) /\ Subdirs(k)' = Subdirs(k),
           \A k \in Inum : disk'[k].nlink
                              = disk[k].nlink + One(Flies(u) = k) - One(Flies(th[p]) = k)
    PROVE  LinkCount'
<1>1. SameBut(None, None)
  BY DEF SameBut
<1>2. ASSUME NEW k \in Inum
      PROVE  disk'[k].nlink = disk[k].nlink + Change(None, None, th[p], u, k)
  <2>1. PICK a \in Int, b \in Int :
           /\ a = One(None \in Entries(k)) /\ b = One(None \in Subdirs(k))
           /\ a = One(None \in Entries(k)') /\ b = One(None \in Subdirs(k)')
    BY OneNat
  <2>2. PICK g \in Int, h \in Int : g = One(Flies(u) = k) /\ h = One(Flies(th[p]) = k)
    BY OneNat
  <2>3. Change(None, None, th[p], u, k) = a - a + b - b + g - h
    BY <2>1, <2>2 DEF Change
  <2>4. disk[k].nlink \in Int
    BY DEF RefInv, Types, Inodes, Node
  <2>5. disk'[k].nlink = disk[k].nlink + g - h
    BY <2>2
  <2> QED BY <2>1, <2>2, <2>3, <2>4, <2>5
<1> QED BY <1>1, <1>2, SumStep

(* The end of unlink(), and of link() that failed.                          *)
Drops(p) ==
    /\ th[p].pc \in {"unlink_dec", "link_bad"}
    /\ Single(p, th[p].ip, Linked(th[p].ip, -1))
    /\ Set(p, PutIp(p, "idle")) /\ ref' = ref /\ cwd' = cwd /\ file' = file

LEMMA DropsKeeps == ASSUME FsInv, NEW p \in Process, Drops(p) PROVE FsInv'
<1> RefInv
  BY DEF FsInv
<1> DEFINE t == th[p]
           f == file[p]
           c == cwd[p]
<1>0. PICK ip : ip = t.ip
  OBVIOUS
<1>1. t.pc \in {"unlink_dec", "link_bad"}
  BY DEF Drops
<1>2. /\ t.at = None /\ ip \in Inum /\ t.arg = None /\ t.ret = "" /\ Stage(t) = t.pc
      /\ t.rest \in Seq(Names) /\ IsThread(t) /\ t.pc \notin Puts /\ f \in MaybeInum /\ c \in Inum
  BY <1>0, <1>1, AtLabel, Here DEF Labels, Puts, AtStages, IpStages
<1>3. PICK n : n = Linked(ip, -1)
  OBVIOUS
<1>4. PICK u : u = PutIp(p, "idle")
  OBVIOUS
<1>5. /\ Single(p, ip, n) /\ Set(p, u) /\ ref' = ref /\ cwd' = cwd /\ file' = file
  BY <1>0, <1>3, <1>4 DEF Drops
<1>6. /\ IsThread(u) /\ u.pc = "iput" /\ u.arg = ip /\ u.ret = "idle" /\ u.at = None
      /\ u.ip = None /\ u.rest = t.rest /\ u.op = t.op
  <2>1. IsThread(th[p])
    BY <1>2
  <2>2. /\ IsThread(u) /\ u.pc = "iput" /\ u.arg = th[p].ip /\ u.ret = "idle" /\ u.at = th[p].at
        /\ u.ip = None /\ u.rest = th[p].rest /\ u.op = th[p].op
    BY <1>4, <2>1, PutIpIs
  <2> QED BY <1>0, <1>2, <2>2
<1>7. Moves(p, u, f, c)
  BY <1>5, SetMoves
<1> HIDE DEF t
<1>8. /\ Inodes' /\ Cache' /\ LocksKept(p)
      /\ disk'[ip] = n /\ \A k \in Inum : k # ip => disk'[k] = disk[k]
      /\ \A k \in Inum : disk'[k].type = disk[k].type
  BY <1>2, <1>5, SingleFrame
<1>9. n.nlink = disk[ip].nlink - 1 /\ disk[ip].nlink \in Int /\ disk[ip].type # "free"
  <2>0. PICK d \in Int : d = -1
    OBVIOUS
  <2>1. n.nlink = disk[ip].nlink + d /\ disk[ip].nlink \in Int
    BY <1>2, <1>3, <2>0, LinkedIs
  <2>2. disk[ip].type # "free"
    BY <1>5 DEF Single
  <2> QED BY <2>0, <2>1, <2>2
<1>10. Stage(u) = "idle" /\ Flies(u) = None /\ Flies(t) = ip
  <2>1. Stage(u) = "idle"
    BY <1>6 DEF Stage, Puts
  <2> QED BY <1>0, <1>1, <1>2, <2>1 DEF Flies, FlightStages
<1>11. ThreadOK(u)
  <2>1. /\ u.ret \in Labels \ (Puts \cup NameStages \cup {"open", "link", "panic"})
        /\ u.ret \notin AtStages /\ u.ret \notin IpStages
    BY <1>6 DEF Labels, Puts, NameStages, AtStages, IpStages
  <2>2. u.at \in MaybeInum /\ u.ip \in MaybeInum /\ u.rest \in Seq(Names) /\ u.arg \in Inum
    BY <1>2, <1>6 DEF MaybeInum
  <2>3. ThreadOK(t)
    BY Here DEF t
  <2> QED BY <1>2, <1>6, <2>1, <2>2, <2>3, PutOK
<1>12. CwdOf(u, c) = CwdOf(t, c)
  BY <1>1, <1>2, <1>6 DEF CwdOf
<1>13. Counts(p, u, f, c)
  <2>1. \A k \in Inum : OwnOf(u, f, c, k) = OwnOf(t, f, c, k)
    <3>1. u.at = t.at /\ u.ip = None /\ u.arg = t.ip /\ t.arg = None
      BY <1>0, <1>2, <1>6
    <3> QED BY <1>12, <3>1, OwnPutIp
  <2> QED BY <1>5, <2>1, KeptCounts DEF t
<1>14. Locks(lock', p, u) /\ Unopened(u, f)
  BY <1>6, <1>10, Here DEF Locks, AtLocked, IpLocked, Unopened, t
<1>15. RefInv'
  BY <1>2, <1>7, <1>8, <1>11, <1>13, <1>14, RefStep
<1>16. ents' = ents /\ lost' = lost /\ strayed' = strayed
  BY <1>5 DEF Single
<1>17. ASSUME Links PROVE Links'
  <2>1. /\ Blank' /\ Tree' /\ HasDots'
        /\ \A k \in Inum : Entries(k)' = Entries(k) /\ Subdirs(k)' = Subdirs(k)
    <3>1. th[p].pc # "create_new"
      BY <1>1 DEF t
    <3> QED BY <1>2, <1>7, <1>8, <1>9, <1>16, <1>17, <3>1, SameEnts
  <2>2. LinkCount'
    <3>1. ASSUME NEW k \in Inum
          PROVE  disk'[k].nlink = disk[k].nlink + One(Flies(u) = k) - One(Flies(t) = k)
      <4>1. One(Flies(u) = k) = 0 /\ One(Flies(t) = k) = IF k = ip THEN 1 ELSE 0
        BY <1>10, FsFacts DEF One
      <4>2. disk[k].nlink \in Int
        BY DEF RefInv, Types, Inodes, Node
      <4> QED BY <1>8, <1>9, <4>1, <4>2
    <3> QED BY <1>7, <1>16, <1>17, <2>1, <3>1, FlightSum DEF t
  <2>3. Firm(u, f, c) \subseteq Keeps(p) \cup {None}
    BY <1>0, <1>2, <1>6, <1>12, FsFacts DEF Firm, Keeps, t
  <2>4. Relies(disk', ents', u)
    BY <1>6, <1>10 DEF Relies, DirStages, FlightStages
  <2>5. ip \in Keeps(p)
    BY <1>0, <1>2 DEF Keeps, Firm, t
  <2>6. /\ \A k \in Inum : k \notin Keeps(p) =>
              disk'[k].nlink = disk[k].nlink /\ ents'[k] = ents[k]
        /\ \A k \in Inum : lock[k] \notin {p, Nobody} => ents'[k] = ents[k]
    BY <1>8, <1>16, <2>5
  <2> QED BY <1>6, <1>7, <1>8, <1>17, <2>1, <2>2, <2>3, <2>4, <2>6, PutLinks
<1> QED BY <1>15, <1>16, <1>17, FsStep

LEMMA UnlinkDecKeeps == ASSUME FsInv, NEW p \in Process, UnlinkDec(p) PROVE FsInv'
<1> RefInv
  BY DEF FsInv
<1>1. th[p].pc = "unlink_dec"
  BY DEF UnlinkDec, At
<1>2. th[p].ip \in Inum /\ lock[th[p].ip] = p
  BY <1>1, AtLabel DEF Labels, Puts, IpStages, IpLocked
<1>3. disk[th[p].ip].type # "free"
  BY <1>2, FsFacts DEF RefInv, Cache
<1>4. Linked(th[p].ip, -1) \in Node /\ Linked(th[p].ip, -1).type = disk[th[p].ip].type
  BY <1>2, LinkedIs
<1>5. Single(p, th[p].ip, Linked(th[p].ip, -1))
  BY <1>2, <1>3, <1>4 DEF UnlinkDec, Single, history
<1>6. Drops(p)
  BY <1>1, <1>5 DEF Drops, UnlinkDec
<1> QED BY <1>6, DropsKeeps

LEMMA LinkBadKeeps == ASSUME FsInv, NEW p \in Process, LinkBad(p) PROVE FsInv'
<1> RefInv
  BY DEF FsInv
<1>1. th[p].pc = "link_bad" /\ Ilock(th[p].ip)
  BY DEF LinkBad, At
<1>2. th[p].ip \in Inum
  BY <1>1, AtLabel DEF Labels, Puts, IpStages
<1>3. disk[th[p].ip].type # "free" /\ lock[th[p].ip] = Nobody
  BY <1>1, <1>2, CachedIs DEF Ilock
<1>4. Linked(th[p].ip, -1) \in Node /\ Linked(th[p].ip, -1).type = disk[th[p].ip].type
  BY <1>2, LinkedIs
<1>5. Single(p, th[p].ip, Linked(th[p].ip, -1))
  BY <1>3, <1>4 DEF LinkBad, Single, history
<1>6. Drops(p)
  BY <1>1, <1>5 DEF Drops, LinkBad
<1> QED BY <1>6, DropsKeeps

(* link() has counted the link and goes on to the new path.                 *)
NewLink(p, i) ==
    /\ At(p, "link") /\ Ilock(th[p].at) /\ Cached(th[p].at).type # "dir"
    /\ Iupdate(th[p].at, Linked(th[p].at, 1)) /\ ref' = RefTaken(i)
    /\ Set(p, [th[p] EXCEPT !.pc = "walk", !.ip = th[p].at, !.at = i, !.parent = TRUE,
                 !.rest = th[p].new.elems, !.found = "link_dir", !.fail = "link_bad"])
    /\ UNCHANGED <<ents, history, lock, cwd, file>>

LEMMA NewLinkKeeps ==
    ASSUME FsInv, NEW p \in Process, NEW i, i = Start(p, th[p].new), NewLink(p, i)
    PROVE  FsInv'
<1> RefInv
  BY DEF FsInv
<1> DEFINE t == th[p]
           f == file[p]
           c == cwd[p]
<1>0. PICK ip : ip = t.at
  OBVIOUS
<1>1. t.pc = "link"
  BY DEF NewLink, At
<1>2. /\ ip \in Inum /\ t.ip = None /\ t.arg = None /\ t.ret = "" /\ Stage(t) = "link"
      /\ IsThread(t) /\ t.pc \notin Puts /\ f \in MaybeInum /\ c \in Inum
  BY <1>0, <1>1, AtLabel, Here DEF Labels, Puts, AtStages, IpStages
<1>3. t.new.elems \in Seq(Names) /\ t.new.elems # <<>>
  <2>1. t.new \in Path
    BY <1>2, Here DEF Flow
  <2> QED BY <2>1 DEF Path, Names, Dots
<1>4. i \in Inum /\ (i = ROOT \/ i = c)
  BY <1>2, FsFacts DEF Start
<1>5. PICK n : n = Linked(ip, 1)
  OBVIOUS
<1>6. PICK u : u = [t EXCEPT !.pc = "walk", !.ip = ip, !.at = i, !.parent = TRUE,
                      !.rest = t.new.elems, !.found = "link_dir", !.fail = "link_bad"]
  OBVIOUS
<1>7. /\ Ilock(ip) /\ Cached(ip).type # "dir" /\ Iupdate(ip, n) /\ ref' = RefTaken(i) /\ Set(p, u)
      /\ ents' = ents /\ lost' = lost /\ strayed' = strayed /\ lock' = lock
      /\ cwd' = cwd /\ file' = file
  BY <1>0, <1>5, <1>6 DEF NewLink, history
<1>8. /\ IsThread(u) /\ u.pc = "walk" /\ u.ip = ip /\ u.at = i /\ u.arg = None /\ u.ret = ""
      /\ u.rest = t.new.elems /\ u.found = "link_dir" /\ u.fail = "link_bad" /\ u.op = t.op
  BY <1>2, <1>6 DEF IsThread
<1>9. u.parent = TRUE
  BY <1>2, <1>6 DEF IsThread
<1>10. Moves(p, u, f, c)
  BY <1>7, SetMoves
<1> HIDE DEF t
<1>11. /\ n \in Node /\ n.type = disk[ip].type /\ n.nlink = disk[ip].nlink + 1
       /\ disk[ip].nlink \in Int /\ disk[ip].type # "free" /\ disk[ip].type # "dir"
       /\ lock[ip] = Nobody
  <2>0. PICK d \in Int : d = 1
    OBVIOUS
  <2>1. n \in Node /\ n.type = disk[ip].type /\ n.nlink = disk[ip].nlink + d
        /\ disk[ip].nlink \in Int
    BY <1>2, <1>5, <2>0, LinkedIs
  <2>2. Cached(ip) = disk[ip]
    BY <1>2, CachedIs
  <2> QED BY <1>7, <2>0, <2>1, <2>2 DEF Ilock
<1>12. /\ Inodes' /\ Cache' /\ LocksKept(p)
       /\ disk'[ip] = n /\ \A k \in Inum : k # ip => disk'[k] = disk[k]
       /\ \A k \in Inum : disk'[k].type = disk[k].type
  <2>1. Single(p, ip, n)
    BY <1>7, <1>11 DEF Single
  <2> QED BY <1>2, <2>1, SingleFrame
<1>13. Stage(u) = "walk" /\ Flies(u) = ip /\ Flies(t) = None
  <2>1. Stage(u) = "walk"
    BY <1>8 DEF Stage, Puts
  <2> QED BY <1>2, <1>8, <2>1 DEF Flies, FlightStages
<1>14. ThreadOK(u)
  <2>1. Slots(u)
    BY <1>2, <1>4, <1>8, <1>13, FsFacts DEF Slots, AtStages, IpStages, Puts, MaybeInum
  <2>2. Flow(u)
    BY <1>3, <1>8, <1>9, <1>13 DEF Flow, Labels, Puts
  <2> QED BY <1>8, <2>1, <2>2 DEF ThreadOK
<1>15. CwdOf(u, c) = c /\ CwdOf(t, c) = c
  BY <1>1, <1>2, <1>8 DEF CwdOf
<1>16. Counts(p, u, f, c)
  <2>1. \A k \in Inum : OwnOf(u, f, c, k) = OwnOf(t, f, c, k) + One(k = i)
    <3>1. u.at = i /\ u.ip = t.at /\ u.arg = t.arg /\ t.ip = None /\ CwdOf(u, c) = CwdOf(t, c)
      BY <1>0, <1>2, <1>8, <1>15
    <3> QED BY <3>1, OwnTakeNext
  <2> QED BY <1>7, <2>1, TakenCounts DEF t
<1>17. Locks(lock', p, u) /\ Unopened(u, f)
  BY <1>8, <1>13, Here DEF Locks, AtLocked, IpLocked, Unopened, t
<1>18. RefInv'
  BY <1>2, <1>10, <1>12, <1>14, <1>16, <1>17, RefStep
<1>19. ASSUME Links PROVE Links'
  <2>1. /\ Blank' /\ Tree' /\ HasDots'
        /\ \A k \in Inum : Entries(k)' = Entries(k) /\ Subdirs(k)' = Subdirs(k)
    <3>1. th[p].pc # "create_new"
      BY <1>1 DEF t
    <3> QED BY <1>2, <1>7, <1>10, <1>11, <1>12, <1>19, <3>1, SameEnts
  <2>2. LinkCount'
    <3>1. ASSUME NEW k \in Inum
          PROVE  disk'[k].nlink = disk[k].nlink + One(Flies(u) = k) - One(Flies(t) = k)
      <4>1. One(Flies(t) = k) = 0 /\ One(Flies(u) = k) = IF k = ip THEN 1 ELSE 0
        BY <1>13, FsFacts DEF One
      <4>2. disk[k].nlink \in Int
        BY DEF RefInv, Types, Inodes, Node
      <4> QED BY <1>11, <1>12, <4>1, <4>2
    <3> QED BY <1>7, <1>10, <1>19, <2>1, <3>1, FlightSum DEF t
  <2>3. ip \in Keeps(p) /\ c \in Keeps(p)
    BY <1>0, <1>2, <1>15 DEF Keeps, Firm, t
  <2>4. Firm(u, f, c) \subseteq Keeps(p) \cup {i}
    BY <1>0, <1>2, <1>8, <1>15, FsFacts DEF Firm, Keeps, t
  <2>5. i \in MaybeInum /\ (i \in Keeps(p) \/ disk[i].nlink > 0)
    BY <1>4, <1>19, <2>3, HasLink DEF MaybeInum
  <2>6. Takes(p, i)
    BY <2>5 DEF Takes
  <2>7. th'[p] = u
    BY <1>10, MovesTo DEF RefInv
  <2>8. Lonely(p)' /\ LastOwn(p)'
    BY <1>8, <2>7 DEF Lonely, LastOwn, Special
  <2>9. Bounds(p)
    BY <1>7, <1>12, <2>3 DEF Bounds
  <2>10. \A k \in Firm(u, f, c) : disk'[k].type # "free"
    <3>1. \A k \in Firm(u, f, c) : k \in Inum
      BY DEF Firm
    <3>2. \A k \in Keeps(p) : disk[k].type # "free"
      BY <1>19 DEF Links, Live
    <3>3. disk[i].nlink > 0 => disk[i].type # "free"
      BY <1>4, <1>19 DEF Links, Blank
    <3> QED BY <1>12, <2>4, <2>5, <3>1, <3>2, <3>3
  <2>11. Relies(disk', ents', u)
    <3>1. disk'[u.ip].type # "dir"
      BY <1>2, <1>8, <1>11, <1>12
    <3> QED BY <1>8, <1>13, <3>1 DEF Relies, DirStages
  <2> QED BY <1>10, <1>19, <2>1, <2>2, <2>4, <2>5, <2>6, <2>8, <2>9, <2>10, <2>11, LinksStep
<1> QED BY <1>7, <1>18, <1>19, FsStep

LEMMA LinkIpKeeps == ASSUME FsInv, NEW p \in Process, LinkIp(p) PROVE FsInv'
<1>1. CASE Cached(th[p].at).type = "dir"
  <2>1. /\ At(p, "link") /\ Ilock(th[p].at) /\ Loaded(th[p].at) /\ Set(p, PutAt(p, "idle"))
        /\ UNCHANGED <<disk, ents, history, lock, cwd, file>>
    BY <1>1 DEF LinkIp
  <2> QED BY <2>1, LinkIpDir
<1>2. CASE Cached(th[p].at).type # "dir"
  <2>1. NewLink(p, Start(p, th[p].new))
    BY <1>2 DEF LinkIp, NewLink
  <2> QED BY <2>1, NewLinkKeeps
<1> QED BY <1>1, <1>2

(* link() writes the entry, and iput() of the directory follows.            *)
Enters(p) ==
    /\ At(p, "link_dir") /\ Ilock(th[p].at) /\ Loaded(th[p].at)
    /\ Dirlookup(th[p].at, Head(th[p].rest)) = None
    /\ ents' = [ents EXCEPT ![th[p].at][Head(th[p].rest)] = th[p].ip]
    /\ Set(p, PutAt(p, "link_done")) /\ UNCHANGED <<disk, lost, strayed, lock, cwd, file>>

LEMMA EntersKeeps == ASSUME FsInv, NEW p \in Process, Enters(p) PROVE FsInv'
<1> RefInv
  BY DEF FsInv
<1> DEFINE t == th[p]
           f == file[p]
           c == cwd[p]
<1>0. PICK dp, ip, name : dp = t.at /\ ip = t.ip /\ name = Head(t.rest)
  OBVIOUS
<1>1. t.pc = "link_dir"
  BY DEF Enters, At
<1>2. /\ dp \in Inum /\ ip \in Inum /\ t.arg = None /\ t.ret = "" /\ Stage(t) = "link_dir"
      /\ name \in Names /\ t.pc \notin Puts \cup {"chdir_set"}
  BY <1>0, <1>1, AtLabel DEF Labels, Puts, AtStages, IpStages, NameStages
<1>3. PICK u : u = PutAt(p, "link_done")
  OBVIOUS
<1>4. /\ Inodes /\ Cache /\ Ilock(dp) /\ Loaded(dp) /\ ents[dp][name] = None /\ Set(p, u)
      /\ disk' = disk /\ lost' = lost /\ strayed' = strayed /\ lock' = lock
      /\ cwd' = cwd /\ file' = file
  BY <1>0, <1>3 DEF Enters, RefInv, Types, Dirlookup
<1>5. ents' = [ents EXCEPT ![dp] = [ents[dp] EXCEPT ![name] = ip]]
  BY <1>0 DEF Enters
<1> HIDE DEF t
<1>6. /\ ents' \in [Inum -> [Names -> MaybeInum]]
      /\ ents'[dp][name] = ip
      /\ \A l \in Names : l # name => ents'[dp][l] = ents[dp][l]
      /\ \A k \in Inum : k # dp => ents'[k] = ents[k]
  <2>1. ents \in [Inum -> [Names -> MaybeInum]] /\ ip \in MaybeInum
    BY <1>2, <1>4 DEF Inodes, MaybeInum
  <2>2. ents[dp] \in [Names -> MaybeInum]
    BY <1>2, <2>1
  <2>3. PICK row : row = [ents[dp] EXCEPT ![name] = ip]
    OBVIOUS
  <2>4. /\ row \in [Names -> MaybeInum] /\ row[name] = ip
        /\ \A l \in Names : l # name => row[l] = ents[dp][l]
    BY <1>2, <2>1, <2>2, <2>3
  <2>5. ents' = [ents EXCEPT ![dp] = row]
    BY <1>5, <2>3
  <2>6. ents' \in [Inum -> [Names -> MaybeInum]] /\ ents'[dp] = row
        /\ \A k \in Inum : k # dp => ents'[k] = ents[k]
    BY <1>2, <2>1, <2>4, <2>5
  <2> QED BY <2>4, <2>6
<1>7. Inodes' /\ Cache' /\ LocksKept(p) /\ ref' = ref
  <2>1. /\ mem' = [mem EXCEPT ![dp] = disk[dp]] /\ valid' = [valid EXCEPT ![dp] = TRUE]
        /\ disk[dp] \in Node /\ disk[dp].type # "free" /\ ref' = ref
    BY <1>2, <1>4, CachedIs, NoneTaken DEF Loaded, LockedGet, Ilock
  <2>2. mem' \in [Inum -> Node] /\ valid' \in [Inum -> BOOLEAN]
    BY <1>4, <2>1 DEF Inodes
  <2>3. /\ mem'[dp] = disk[dp]
        /\ \A k \in Inum : k # dp => mem'[k] = mem[k] /\ valid'[k] = valid[k]
    BY <1>2, <1>4, <2>1 DEF Inodes
  <2>4. Inodes'
    BY <1>4, <1>6, <2>2 DEF Inodes
  <2>5. Cache'
    BY <1>4, <2>1, <2>3 DEF Cache
  <2>6. LocksKept(p)
    BY <1>4 DEF LocksKept
  <2> QED BY <2>1, <2>4, <2>5, <2>6
<1>8. /\ RefInv' /\ Moves(p, u, f, c) /\ u.pc = "iput" /\ Stage(u) = "link_done" /\ u.ip = ip
      /\ Firm(u, f, c) \subseteq Keeps(p) \cup {None}
  <2>1. /\ t.pc \notin Puts \cup {"chdir_set"} /\ t.at \in Inum /\ t.ip \in Inum
        /\ "link_done" \notin IpLocked
    BY <1>0, <1>2 DEF IpLocked
  <2> QED BY <1>0, <1>3, <1>4, <1>7, <2>1, PutAtRef DEF t
<1>9. ASSUME Links PROVE Links'
  <2>1. \A q \in Process : th[q].pc = "create_new" => th'[q] = th[q]
    BY <1>1, <1>8, MovesTo DEF RefInv, t
  <2>2. disk[dp].type = "dir" /\ disk[ip].type # "dir" /\ ip # None
    BY <1>0, <1>2, <1>9, FsFacts DEF Links, Relies, DirStages, FlightStages, t
  <2>3. dp \in Keeps(p)
    BY <1>0, <1>2 DEF Keeps, Firm, t
  <2>4. name \in Name
    <3>1. ents[dp]["."] = dp /\ ents[dp][".."] # None
      BY <1>1, <1>9, <2>2, <2>3, DotsThere DEF t
    <3> QED BY <1>2, <1>4, <3>1, FsFacts DEF Names, Dots
  <2>5. /\ name # "." /\ name # ".." /\ "." \in Names /\ ".." \in Names
        /\ \A k \in Name : k \in Names
    BY <2>4, FsFacts DEF Names, Dots
  <2>6. \A k \in Inum : ents'[k]["."] = ents[k]["."] /\ ents'[k][".."] = ents[k][".."]
    BY <1>6, <2>5
  <2>7. \A k \in Inum : \A l \in Name : <<k, l>> # <<dp, name>> => ents'[k][l] = ents[k][l]
    BY <1>6, <2>5
  <2>8. ASSUME NEW k \in Inum, NEW e \in Inum \X Name
        PROVE  e \in Entries(k)' <=> e \in Entries(k) \/ (e = <<dp, name>> /\ k = ip)
    <3>1. PICK g \in Inum, l \in Name : e = <<g, l>>
      OBVIOUS
    <3>2. (e \in Entries(k)' <=> ents'[g][l] = k) /\ (e \in Entries(k) <=> ents[g][l] = k)
      BY <3>1 DEF Entries
    <3> QED BY <1>4, <1>6, <2>7, <3>1, <3>2, FsFacts
  <2>9. \A k \in Inum : Entries(k)' \subseteq Inum \X Name /\ Entries(k) \subseteq Inum \X Name
    BY DEF Entries
  <2>10. /\ \A k \in Inum : k # ip => Entries(k)' = Entries(k)
         /\ \A k \in Inum : <<dp, name>> \in Entries(k)' <=> k = ip
         /\ \A k \in Inum : <<dp, name>> \notin Entries(k)
    <3>1. \A k \in Inum : <<dp, name>> \notin Entries(k)
      BY <1>4, FsFacts DEF Entries
    <3>2. <<dp, name>> \in Inum \X Name
      BY <1>2, <2>4
    <3> QED BY <2>8, <2>9, <3>1, <3>2
  <2>11. ip # ROOT /\ ents[ip][".."] = None
    BY <1>2, <1>9, <2>2, <2>5 DEF Links, Tree
  <2>12. \A k \in Inum : Subdirs(k)' = Subdirs(k)
    <3> SUFFICES ASSUME NEW k \in Inum, NEW y
                 PROVE  y \in Subdirs(k) <=> y \in Subdirs(k)'
      OBVIOUS
    <3>1. /\ y \in Subdirs(k)' <=> y \in Inum /\ y # ROOT /\ ents'[y][".."] = k /\ Entries(y)' # {}
          /\ y \in Subdirs(k) <=> y \in Inum /\ y # ROOT /\ ents[y][".."] = k /\ Entries(y) # {}
      BY DEF Subdirs
    <3>2. y \in Inum => ents'[y][".."] = ents[y][".."]
      BY <2>6
    <3>3. y \in Inum /\ y # ip => Entries(y)' = Entries(y)
      BY <2>10
    <3> QED BY <2>11, <3>1, <3>2, <3>3, FsFacts
  <2>13. LinkCount'
    <3>1. SameBut(<<dp, name>>, None)
      <4>1. \A k \in Inum : \A y : y # <<dp, name>> => (y \in Entries(k) <=> y \in Entries(k)')
        BY <2>8, <2>9
      <4> QED BY <2>12, <4>1 DEF SameBut
    <3>2. ASSUME NEW k \in Inum
          PROVE  disk'[k].nlink = disk[k].nlink + Change(<<dp, name>>, None, t, u, k)
      <4>1. PICK a \in Int : a = One(k = ip)
        BY OneNat
      <4>2. One(<<dp, name>> \in Entries(k)') = a /\ One(<<dp, name>> \in Entries(k)) = 0
        BY <2>10, <4>1 DEF One
      <4>3. PICK b \in Int : b = One(None \in Subdirs(k)) /\ b = One(None \in Subdirs(k)')
        BY <2>12, OneNat
      <4>4. One(Flies(u) = k) = 0 /\ One(Flies(t) = k) = a
        <5>1. Flies(u) = None /\ Flies(t) = ip
          BY <1>0, <1>2, <1>8 DEF Flies, FlightStages
        <5> QED BY <4>1, <5>1, FsFacts DEF One
      <4>5. Change(<<dp, name>>, None, t, u, k) = a - 0 + b - b + 0 - a
        BY <4>2, <4>3, <4>4 DEF Change
      <4>6. disk[k].nlink \in Int
        BY <1>4 DEF Inodes, Node
      <4> QED BY <1>4, <4>1, <4>3, <4>5, <4>6
    <3> QED BY <1>4, <1>8, <1>9, <3>1, <3>2, SumStep DEF t
  <2>14. Blank'
    <3>1. \A k \in Inum : disk'[k].type = "free" => k # dp
      BY <1>4, <2>2
    <3>2. \A k \in Inum : disk'[k].type = "free" => disk'[k] = disk[k] /\ ents'[k] = ents[k]
      BY <1>4, <1>6, <3>1
    <3> QED BY <1>4, <1>9, <3>2 DEF Links, Blank
  <2>15. Tree'
    <3>1. ASSUME NEW k \in Inum, NEW l \in Names, ents'[k][l] # None
          PROVE  disk'[k].type = "dir"
      <4>1. ents[k][l] # None \/ k = dp
        BY <1>6, <3>1
      <4> QED BY <1>4, <1>9, <2>2, <4>1 DEF Links, Tree
    <3>2. ASSUME NEW k \in Inum, disk'[k].type = "dir", NEW e \in Entries(k)'
          PROVE  ents'[k][".."] = e[1] /\ \A g \in Entries(k)' : g = e
      <4>1. \A e2 \in Entries(k) : ents[k][".."] = e2[1] /\ \A g \in Entries(k) : g = e2
        BY <1>4, <1>9, <3>2 DEF Links, Tree
      <4>2. Entries(k)' = Entries(k) /\ ents'[k][".."] = ents[k][".."]
        BY <1>4, <2>2, <2>6, <2>10, <3>2
      <4> QED BY <3>2, <4>1, <4>2
    <3>3. disk'[ROOT].type = "dir" /\ ents'[ROOT][".."] = ROOT /\ Entries(ROOT)' = {}
      <4>1. disk[ROOT].type = "dir" /\ ents[ROOT][".."] = ROOT /\ Entries(ROOT) = {}
        BY <1>9 DEF Links, Tree
      <4> QED BY <1>4, <2>6, <2>10, <2>11, <4>1, FsFacts
    <3> QED BY <3>1, <3>2, <3>3 DEF Tree
  <2>16. HasDots'
    <3>1. \A k \in Inum : disk'[k].type = "dir" =>
            \/ ents'[k]["."] = k /\ ents'[k][".."] # None
            \/ \E q \in Process : th'[q].pc = "create_new" /\ th'[q].ip = k
      BY <1>4, <1>9, <2>1, <2>6 DEF Links, HasDots
    <3> QED BY <3>1 DEF HasDots
  <2>17. Relies(disk', ents', u)
    BY <1>8 DEF Relies, DirStages, FlightStages
  <2>18. /\ \A k \in Inum : k \notin Keeps(p) =>
               disk'[k].nlink = disk[k].nlink /\ ents'[k] = ents[k]
         /\ \A k \in Inum : lock[k] \notin {p, Nobody} => ents'[k] = ents[k]
    <3>1. lock[dp] = Nobody
      BY <1>4 DEF Ilock
    <3> QED BY <1>4, <1>6, <2>3, <3>1
  <2>19. \A k \in Inum : disk'[k].type = disk[k].type
    BY <1>4
  <2> QED BY <1>8, <1>9, <2>13, <2>14, <2>15, <2>16, <2>17, <2>18, <2>19, PutLinks
<1> QED BY <1>4, <1>8, <1>9, FsStep

LEMMA LinkDirKeeps == ASSUME FsInv, NEW p \in Process, LinkDir(p) PROVE FsInv'
<1>1. PICK j : j = Dirlookup(th[p].at, Head(th[p].rest))
  OBVIOUS
<1>2. CASE j # None
  <2>1. /\ At(p, "link_dir") /\ Ilock(th[p].at) /\ LockedGet(th[p].at, j)
        /\ Set(p, Put(th[p], j, "link_exists")) /\ lock' = [lock EXCEPT ![th[p].at] = p]
        /\ strayed' = (strayed \/ Strays(th[p].at, Head(th[p].rest), j))
        /\ UNCHANGED <<disk, ents, lost, cwd, file>>
    BY <1>1, <1>2 DEF LinkDir
  <2> QED BY <1>1, <1>2, <2>1, LinkDirExists
<1>3. CASE j = None
  <2>1. Enters(p)
    BY <1>1, <1>3 DEF LinkDir, Enters, Loaded
  <2> QED BY <2>1, EntersKeeps
<1> QED BY <1>2, <1>3

(***************************************************************************)
(* The invariant.                                                          *)
(***************************************************************************)
LEMMA InitOwn ==
    ASSUME Init, NEW i \in Inum
    PROVE  Cardinality(References(i)) = IF i = ROOT THEN Cardinality(Process) ELSE 0
<1>1. ASSUME NEW p \in Process, NEW k \in {"at", "ip", "arg", "file", "cwd"}
      PROVE  Pointed(<<p, k>>) = IF k = "cwd" THEN ROOT ELSE None
  <2>1. <<p, k>>[1] = p /\ <<p, k>>[2] = k
    OBVIOUS
  <2>2. th[p] = Idle /\ file[p] = None /\ cwd[p] = ROOT
    BY DEF Init
  <2>3. CwdGone(p) = FALSE
    BY <2>2, IdleIs DEF CwdGone, At
  <2> QED BY <2>1, <2>2, <2>3, IdleIs DEF Pointed
<1>2. \A x \in Pointers : Pointed(x) = IF x[2] = "cwd" THEN ROOT ELSE None
  <2> SUFFICES ASSUME NEW x \in Pointers
               PROVE  Pointed(x) = IF x[2] = "cwd" THEN ROOT ELSE None
    OBVIOUS
  <2>1. PICK p \in Process, k \in {"at", "ip", "arg", "file", "cwd"} : x = <<p, k>>
    BY DEF Pointers
  <2>2. x[2] = k
    BY <2>1
  <2> QED BY <1>1, <2>1, <2>2
<1>3. CASE i = ROOT
  <2>1. References(i) = Process \X {"cwd"}
    BY <1>2, <1>3, FsFacts DEF References, Pointers
  <2>2. IsFiniteSet({"cwd"}) /\ Cardinality({"cwd"}) = 1
    BY FS_Singleton
  <2>3. Cardinality(Process \X {"cwd"}) = Cardinality(Process) * Cardinality({"cwd"})
    BY <2>2, FsFacts, FS_Product
  <2>4. Cardinality(Process) \in Nat
    BY FsFacts, FS_CardinalityType
  <2> QED BY <1>3, <2>1, <2>2, <2>3, <2>4
<1>4. CASE i # ROOT
  <2>1. References(i) = {}
    BY <1>2, <1>4, FsFacts DEF References
  <2> QED BY <1>4, <2>1, FS_EmptySet
<1> QED BY <1>3, <1>4

LEMMA InitRefs == Init => RefInv
<1> SUFFICES ASSUME Init PROVE RefInv
  OBVIOUS
<1>1. Types
  <2>1. Free \in Node /\ [type |-> "dir", nlink |-> 1] \in Node
    BY DEF Free, Node
  <2>2. disk \in [Inum -> Node] /\ mem \in [Inum -> Node]
    BY <2>1 DEF Init
  <2>3. ents \in [Inum -> [Names -> MaybeInum]]
    BY FsFacts DEF Init, NoEnts, Names, MaybeInum
  <2>4. Cardinality(Process) \in Nat
    BY FsFacts, FS_CardinalityType
  <2> QED BY <2>2, <2>3, <2>4, FsFacts DEF Init, Types, Inodes, MaybeInum
<1>2. \A p \in Process : th[p] = Idle /\ file[p] = None
  BY DEF Init
<1>3. Threads
  BY <1>2, IdleIs DEF Threads, Init
<1>4. Cache
  BY DEF Init, Cache
<1>5. Counted
  BY InitOwn DEF Counted, Init
<1>6. \A p \in Process : Locks(lock, p, th[p]) /\ Unopened(th[p], file[p])
  BY <1>2, IdleIs DEF Locks, Stage, Puts, AtLocked, IpLocked, Unopened
<1> QED BY <1>1, <1>3, <1>4, <1>5, <1>6 DEF RefInv

LEMMA InitLinks == Init => Links
<1> SUFFICES ASSUME Init PROVE Links
  OBVIOUS
<1>1. \A p \in Process : th[p] = Idle /\ file[p] = None /\ cwd[p] = ROOT
  BY DEF Init
<1>2. Stage(Idle) = "idle" /\ Flies(Idle) = None
  <2>1. Stage(Idle) = "idle"
    BY IdleIs DEF Stage, Puts
  <2> QED BY <2>1 DEF Flies, FlightStages
<1>3. /\ \A i \in Inum, n \in Name : ents[i][n] = None
      /\ \A i \in Inum \ {ROOT} : \A n \in Names : ents[i][n] = None
      /\ ents[ROOT]["."] = ROOT /\ ents[ROOT][".."] = ROOT
      /\ \A i \in Inum \ {ROOT} : disk[i] = Free /\ ents[i] = NoEnts
      /\ disk[ROOT].type = "dir" /\ disk[ROOT].nlink = 1
      /\ \A i \in Inum : lost[i] = 0
  BY FsFacts DEF Init, NoEnts, Names, Dots
<1>4. \A i \in Inum : Entries(i) = {} /\ Subdirs(i) = {} /\ InFlight(i) = {}
  <2>1. \A i \in Inum : Entries(i) = {}
    BY <1>3, FsFacts DEF Entries
  <2>2. \A i \in Inum : Subdirs(i) = {}
    BY <2>1 DEF Subdirs
  <2>3. \A i \in Inum : InFlight(i) = {}
    BY <1>1, <1>2, FsFacts DEF InFlight
  <2> QED BY <2>1, <2>2, <2>3
<1>5. Live
  <2>1. \A p \in Process : Keeps(p) \subseteq {ROOT}
    BY <1>1, IdleIs, FsFacts DEF Keeps, Firm, CwdOf
  <2> QED BY <1>3, <2>1 DEF Live
<1>6. LinkCount
  <2>1. Cardinality({}) = 0
    BY FS_EmptySet
  <2>2. ASSUME NEW i \in Inum PROVE disk[i].nlink = 0 + 0 + 0 + lost[i] + One(i = ROOT)
    BY <1>3 DEF One, Free
  <2> QED BY <1>4, <2>1, <2>2 DEF LinkCount
<1>7. Blank
  BY <1>3 DEF Blank, Free
<1>8. Tree
  BY <1>3, <1>4, FsFacts DEF Tree
<1>9. HasDots
  <2>1. \A d \in Inum : disk[d].type = "dir" => d = ROOT
    BY <1>3 DEF Free
  <2> QED BY <1>3, <2>1, FsFacts DEF HasDots
<1>10. ASSUME NEW p \in Process PROVE Lonely(p) /\ LastOwn(p) /\ Relies(disk, ents, th[p])
  <2>1. th[p].pc = "idle" /\ Stage(th[p]) = "idle"
    BY <1>1, <1>2, IdleIs
  <2> QED BY <2>1 DEF Lonely, LastOwn, Relies, Special, DirStages, FlightStages
<1> QED BY <1>5, <1>6, <1>7, <1>8, <1>9, <1>10 DEF Links

LEMMA StepKeeps == ASSUME FsInv, NEW p \in Process,
       \/ Call(p) \/ Walk(p) \/ Iput(p) \/ IputFree(p) \/ IputRef(p)
       \/ OpenLock(p) \/ Close(p) \/ Create(p) \/ Unlink(p) \/ Link(p)
       \/ ChdirLock(p) \/ ChdirSet(p)
    PROVE  FsInv'
<1>1. CASE Create(p)
  BY <1>1, CreateExistsKeeps, CreateFoundKeeps, CreateAllocKeeps, CreateNewKeeps,
     CreateDoneKeeps DEF Create
<1>2. CASE Unlink(p)
  BY <1>2, UnlinkLockKeeps, UnlinkIpKeeps, UnlinkBadKeeps, UnlinkDecKeeps DEF Unlink
<1>3. CASE Link(p)
  BY <1>3, LinkIpKeeps, LinkDirKeeps, LinkExistsKeeps, LinkDoneKeeps, LinkBadKeeps DEF Link
<1>4. CASE Call(p) \/ Walk(p) \/ Iput(p) \/ IputFree(p) \/ IputRef(p)
  BY <1>4, CallKeeps, WalkKeeps, IputKeeps, IputFreeKeeps, IputRefKeeps
<1>5. CASE OpenLock(p) \/ Close(p) \/ ChdirLock(p) \/ ChdirSet(p)
  BY <1>5, OpenLockKeeps, CloseKeeps, ChdirLockKeeps, ChdirSetKeeps
<1> QED BY <1>1, <1>2, <1>3, <1>4, <1>5

(* The whole state is what it was.                                          *)
LEMMA StutterKeeps == ASSUME FsInv, UNCHANGED vars PROVE FsInv'
<1>1. /\ disk' = disk /\ ents' = ents /\ mem' = mem /\ valid' = valid /\ ref' = ref
      /\ lock' = lock /\ cwd' = cwd /\ file' = file /\ th' = th
      /\ lost' = lost /\ strayed' = strayed
  BY DEF vars, nodeVars, history
<1>2. /\ \A i : Entries(i)' = Entries(i) /\ InFlight(i)' = InFlight(i)
      /\ \A x \in Pointers : Pointed(x)' = Pointed(x)
      /\ \A p \in Process : Keeps(p)' = Keeps(p)
  BY <1>1 DEF Entries, InFlight, Pointed, CwdGone, At, Keeps
<1>3. \A i : Subdirs(i)' = Subdirs(i) /\ References(i)' = References(i)
  BY <1>1, <1>2 DEF Subdirs, References
<1>4. RefInv'
  <2>1. RefInv
    BY DEF FsInv
  <2> QED BY <1>1, <1>3, <2>1 DEF RefInv, Types, Inodes, Threads, Cache, Counted
<1>5. ASSUME Links PROVE Links'
  <2>1. Live' /\ LinkCount' /\ Blank'
    BY <1>1, <1>2, <1>3, <1>5 DEF Links, Live, LinkCount, Blank
  <2>2. Tree' /\ HasDots'
    BY <1>1, <1>2, <1>5, FsFacts DEF Links, Tree, HasDots
  <2>3. \A p \in Process : Lonely(p)' /\ LastOwn(p)' /\ Relies(disk, ents, th[p])'
    BY <1>1, <1>2, <1>5 DEF Links, Lonely, LastOwn
  <2> QED BY <2>1, <2>2, <2>3 DEF Links
<1> QED BY <1>1, <1>4, <1>5, FsStep

(* The reference counts and link counts that all calls keep, at every step. *)
THEOREM FsInvariant == Spec => []FsInv
<1>1. Init => FsInv
  BY InitRefs, InitLinks DEF FsInv, LinkInv
<1>2. FsInv /\ [Next]_vars => FsInv'
  <2>1. ASSUME FsInv, Next PROVE FsInv'
    <3>1. PICK p \in Process :
             \/ Call(p) \/ Walk(p) \/ Iput(p) \/ IputFree(p) \/ IputRef(p)
             \/ OpenLock(p) \/ Close(p) \/ Create(p) \/ Unlink(p) \/ Link(p)
             \/ ChdirLock(p) \/ ChdirSet(p)
      BY <2>1 DEF Next
    <3> QED BY <2>1, <3>1, StepKeeps
  <2> QED BY <2>1, StutterKeeps
<1> QED BY <1>1, <1>2, PTL DEF Spec

(***************************************************************************)
(* Results.                                                                *)
(***************************************************************************)
LEMMA Counting == FsInv => RefsCounted
<1> SUFFICES ASSUME FsInv PROVE RefsCounted
  OBVIOUS
<1>1. RefInv /\ Types /\ Cache /\ Counted
  BY DEF FsInv, RefInv
<1>2. ASSUME NEW p \in Process
      PROVE  th[p].pc \in Labels /\ {th[p].at, th[p].ip, th[p].arg} \subseteq MaybeInum
  <2>1. Slots(th[p]) /\ Flow(th[p])
    BY <1>1, Here
  <2>2. th[p].pc \in Labels
    BY <2>1 DEF Flow, Stage, Puts, Labels
  <2> QED BY <2>1, <2>2 DEF Slots
<1>3. TypeOK
  BY <1>1, <1>2 DEF TypeOK, Types, Inodes, Names, MaybeInum
<1>4. CacheAgrees
  BY <1>1 DEF Cache, CacheAgrees
<1> QED BY <1>1, <1>3, <1>4 DEF RefsCounted, Counted

LEMMA InUse == FsInv => NoUseAfterFree
<1> SUFFICES ASSUME FsInv, ~strayed
             PROVE  /\ NoPanic
                    /\ \A x \in Pointers : x[2] # "arg" /\ Pointed(x) # None
                                              => disk[Pointed(x)].type # "free"
  BY DEF NoUseAfterFree
<1>1. RefInv /\ Links
  BY DEF FsInv, LinkInv
<1>2. ASSUME NEW p \in Process PROVE \A i \in Keeps(p) : i \in Inum /\ disk[i].type # "free"
  BY <1>1 DEF Links, Live, Keeps, Firm
<1>3. ASSUME NEW p \in Process
      PROVE  /\ ~At(p, "panic")
             /\ Target(p) # None /\ ~At(p, "iput") => Cached(Target(p)).type # "free"
  <2>1. th[p].pc # "panic"
    BY <1>1 DEF Links, Relies
  <2>2. ASSUME Target(p) # None, th[p].pc # "iput" PROVE Target(p) \in Keeps(p)
    <3>1. Target(p) = th[p].at \/ Target(p) = th[p].ip
      BY <2>2 DEF Target, At
    <3>2. th[p].at \in MaybeInum /\ th[p].ip \in MaybeInum
      BY <1>1, Here
    <3> QED BY <2>2, <3>1, <3>2 DEF Keeps, Firm, MaybeInum
  <2>3. \A i \in Inum : Cached(i) = disk[i]
    BY <1>1, CachedIs
  <2> QED BY <1>2, <2>1, <2>2, <2>3 DEF At
<1>4. NoPanic
  BY <1>3 DEF NoPanic
<1>5. ASSUME NEW x \in Pointers, x[2] # "arg", Pointed(x) # None
      PROVE  disk[Pointed(x)].type # "free"
  <2>1. PICK p \in Process, k \in {"at", "ip", "file", "cwd"} : x = <<p, k>>
    BY <1>5 DEF Pointers
  <2>2. x[1] = p /\ x[2] = k
    BY <2>1
  <2>3. Pointed(x) \in {th[p].at, th[p].ip, file[p], CwdOf(th[p], cwd[p])}
    BY <2>2 DEF Pointed, CwdOf, CwdGone, At
  <2>4. /\ th[p].at \in MaybeInum /\ th[p].ip \in MaybeInum /\ file[p] \in MaybeInum
        /\ CwdOf(th[p], cwd[p]) \in MaybeInum
    BY <1>1, Here DEF CwdOf, MaybeInum
  <2>5. Pointed(x) \in Keeps(p)
    BY <1>5, <2>3, <2>4 DEF Keeps, Firm, MaybeInum
  <2> QED BY <1>2, <2>5
<1> QED BY <1>4, <1>5

LEMMA CountedAtRest == FsInv => LinksCounted
<1> SUFFICES ASSUME FsInv, ~strayed, \A p \in Process : At(p, "idle"), NEW i \in Inum
             PROVE  disk[i].nlink = Cardinality(Entries(i)) + Cardinality(Subdirs(i)) + lost[i]
                                    + (IF i = ROOT THEN 1 ELSE 0)
  BY DEF LinksCounted
<1>1. RefInv /\ Links
  BY DEF FsInv, LinkInv
<1>2. InFlight(i) = {}
  <2>1. \A p \in Process : Stage(th[p]) = "idle"
    BY DEF At, Stage, Puts
  <2> QED BY <2>1, FsFacts DEF InFlight, Flies, FlightStages
<1>3. disk[i].nlink = Cardinality(Entries(i)) + Cardinality(Subdirs(i)) + 0 + lost[i]
                      + One(i = ROOT)
  BY <1>1, <1>2, FS_EmptySet DEF Links, LinkCount
<1>4. lost[i] \in Nat /\ Cardinality(Entries(i)) \in Nat /\ Cardinality(Subdirs(i)) \in Nat
  BY <1>1, FiniteParts DEF RefInv, Types, Inodes
<1> QED BY <1>3, <1>4 DEF One

(* ip->ref of icache is exactly the number of pointers to the inode that    *)
(* open files, current directories and calls in progress hold, whatever     *)
(* calls run and wherever they fail; and the cache is write-through.        *)
THEOREM ReferencesExact == Spec => []RefsCounted
BY FsInvariant, Counting, PTL

(* iput() frees no inode that a process still uses, and ilock() and         *)
(* sys_unlink() do not panic, unless the ".." of a removed directory was    *)
(* followed to one that was removed as well.                                *)
THEOREM NothingFreedInUse == Spec => []NoUseAfterFree
BY FsInvariant, InUse, PTL

(* When no call is in progress, nlink of every inode is the number of       *)
(* entries that name it, subdirectories included: create(), sys_link(),     *)
(* sys_unlink() and their failures cancel out under every interleaving.     *)
THEOREM LinkCountsExact == Spec => []LinksCounted
BY FsInvariant, CountedAtRest, PTL
====
