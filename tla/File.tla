------------------------------- MODULE File -------------------------------
(***************************************************************************)
(* Open files and the contents of inodes: descriptors and the file table   *)
(* (file.c, sysfile.c), block allocation, bmap, itrunc, readi and writei   *)
(* (fs.c), over a disk that loses the open transactions in a crash.        *)
(*                                                                         *)
(* The log is used through its contract: what is written between           *)
(* begin_op and end_op is installed when the last open transaction ends    *)
(* (AtomicDisk; Log models the waiting).  Names and the races of iput are  *)
(* the business of Fs, the bytes in a pipe that of Pipe.  One step is the  *)
(* code between two acquisitions of locks, and in writei one block.        *)
(***************************************************************************)
EXTENDS Integers, Sequences, FiniteSets, FiniteSetsExt

CONSTANTS
    NPROC, NFILE, NOFILE, NINODES,
    NBLOCKS,                    \* data blocks of the disk
    BSIZE, NDIRECT, NINDIRECT,
    BPB,                        \* bits in a block of the free map
    MAXOPBLOCKS,
    WriteSizes,                 \* lengths write() is called with
    MaxCalls, MaxCrashes        \* bounds: system calls made, crashes

ASSUME FileAssumption ==
    /\ {NPROC, NFILE, NOFILE, NINODES, NBLOCKS, BSIZE, NDIRECT, BPB} \subseteq Nat \ {0}
    /\ NINDIRECT \in 1..BSIZE /\ MAXOPBLOCKS \in Nat /\ MAXOPBLOCKS >= 6
    /\ WriteSizes \subseteq Nat \ {0} /\ {MaxCalls, MaxCrashes} \subseteq Nat

Proc == 1..NPROC
FileId == 1..NFILE
Fd == 0..(NOFILE - 1)
Inum == 1..NINODES
Block == 1..NBLOCKS
MAXFILE == NDIRECT + NINDIRECT

VARIABLES
    ftable,      \* struct file: ref, type, ip, off, readable, writable
    ofile,       \* descriptors of each process, 0 for a closed one
    alive,       \* processes
    inode,       \* inodes in the cache: live (type # 0), nlink, size, addrs
    disk,        \* what the buffer cache says the disk holds
    installed,   \* what a restart finds on the disk
    lock,        \* process holding the sleep lock of the inode, or 0
    op,          \* blocks written by the transaction a process is in
    inop,        \* processes between begin_op and end_op
    call,        \* system call each process is in
    moved,       \* history: bytes read and written through each open file
    calls, crashes

vars == <<ftable, ofile, alive, inode, disk, installed, lock, op, inop, call, moved,
          calls, crashes>>
fileVars == <<ftable, ofile, alive>>
dataVars == <<inode, disk>>
logVars == <<installed, op, inop>>
boundVars == <<calls, crashes>>

NoFile == [ref |-> 0, type |-> "none", ip |-> 0, off |-> 0,
           readable |-> FALSE, writable |-> FALSE]
FreeInode == [live |-> FALSE, nlink |-> 0, size |-> 0,
              addrs |-> [k \in 0..NDIRECT |-> 0]]
Idle == [pc |-> "idle", f |-> 0, w |-> 0, ip |-> 0, n |-> 0, i |-> 0, n1 |-> 0, tot |-> 0,
         r |-> 0, then |-> "idle"]
Zeroed == [k \in 0..(BSIZE - 1) |-> 0]

(* disk.text is a history: the bytes of each file as the calls intend them. *)
EmptyDisk == [din |-> [i \in Inum |-> FreeInode], used |-> {},
              data |-> [b \in Block |-> Zeroed], text |-> [i \in Inum |-> <<>>]]

Init ==
    /\ ftable = [f \in FileId |-> NoFile]
    /\ ofile = [p \in Proc |-> [fd \in Fd |-> 0]]
    /\ alive = {1}
    /\ inode = EmptyDisk.din /\ disk = EmptyDisk /\ installed = EmptyDisk
    /\ lock = [i \in Inum |-> 0]
    /\ op = [p \in Proc |-> {}] /\ inop = {}
    /\ call = [p \in Proc |-> Idle]
    /\ moved = [f \in FileId |-> 0]
    /\ calls = 0 /\ crashes = 0

---------------------------------------------------------------------------
(* Blocks of an inode.  x carries what the code changes as it goes: the     *)
(* inode, the disk, the blocks logged, the address found; "full" is         *)
(* balloc's panic.                                                          *)

BBLOCK(b) == <<"map", b \div BPB>>
InodeBlock == <<"inodes", 0>>
DataBlock(b) == <<"data", b>>

(* mkfs gives the free map one block; what matters is that an unlinked file *)
(* whose blocks are spread over all of it still fits in a transaction.      *)
ASSUME FreeMapAssumption == Cardinality({BBLOCK(b) : b \in Block}) < MAXOPBLOCKS

Balloc(x) ==
    IF Block \ x.d.used = {} THEN [x EXCEPT !.full = TRUE]
    ELSE LET b == Min(Block \ x.d.used)
         IN [x EXCEPT !.addr = b, !.d.used = @ \cup {b}, !.d.data[b] = Zeroed,
                      !.log = @ \cup {BBLOCK(b), DataBlock(b)}]

(* The block an entry of ip->addrs names, allocated if there is none.       *)
AddrOf(x, k) ==
    IF x.ino.addrs[k] # 0 THEN [x EXCEPT !.addr = x.ino.addrs[k]]
    ELSE LET y == Balloc(x) IN IF y.full THEN y ELSE [y EXCEPT !.ino.addrs[k] = y.addr]

Bmap(x, bn) ==
    IF bn < NDIRECT THEN AddrOf(x, bn)
    ELSE LET t == AddrOf(x, NDIRECT)
             k == bn - NDIRECT
         IN IF t.full THEN t
            ELSE IF t.d.data[t.addr][k] # 0
                 THEN [t EXCEPT !.addr = t.d.data[t.addr][k]]
            ELSE LET y == Balloc(t)
                 IN IF y.full THEN y
                    ELSE [y EXCEPT !.d.data[t.addr][k] = y.addr,
                                   !.log = @ \cup {DataBlock(t.addr)}]

Lookup(ino, d) == [ino |-> ino, d |-> d, log |-> {}, addr |-> 0, full |-> FALSE]

(* The bytes readi returns, and how many.                                   *)
ReadCount(ino, off, n) == IF off > ino.size THEN -1
                          ELSE IF off + n > ino.size THEN ino.size - off ELSE n
Readi(ino, d, off, n) ==
    [j \in 1..ReadCount(ino, off, n) |->
        LET o == off + j - 1
        IN d.data[Bmap(Lookup(ino, d), o \div BSIZE).addr][o % BSIZE]]

(* The blocks reachable from an inode, in the order itrunc frees them.      *)
Blocks(ino, d) ==
    LET direct == {ino.addrs[k] : k \in 0..(NDIRECT - 1)} \ {0}
        t == ino.addrs[NDIRECT]
    IN direct \cup (IF t = 0 THEN {}
                    ELSE {t} \cup ({d.data[t][k] : k \in 0..(NINDIRECT - 1)} \ {0}))

---------------------------------------------------------------------------
(* Transactions and the life of an inode.                                   *)

(* end_op commits when no transaction is left open.                         *)
CommitsEarly(p) == TRUE
LastOut(p) == inop \ {p} = {}

EndOp(p) ==
    /\ inop' = inop \ {p} /\ op' = [op EXCEPT ![p] = {}]
    /\ installed' = IF LastOut(p) THEN disk' ELSE installed

(* References of the inode cache entry: open files, opens and closes under  *)
(* way.                                                                     *)
Refs(i) ==
    Cardinality({f \in FileId : ftable[f].ref > 0 /\ ftable[f].type = "inode"
                                /\ ftable[f].ip = i})
    + Cardinality({p \in Proc : call[p].pc \in {"open", "cbegin", "iput"}
                                /\ call[p].ip = i})

Iupdate(i, ino, d) == [d EXCEPT !.din[i] = ino]

(* itrunc, then type = 0 and iupdate: the end of an unlinked inode.         *)
Itrunc(ino, d) == [d EXCEPT !.used = @ \ Blocks(ino, d)]
Discard(i, ino, d) == [Iupdate(i, FreeInode, Itrunc(ino, d)) EXCEPT !.text[i] = <<>>]
DiscardLog(ino, d) == {BBLOCK(b) : b \in Blocks(ino, d)} \cup {InodeBlock}

LastLink(i, refs) == refs = 1 /\ inode[i].live /\ inode[i].nlink = 0

---------------------------------------------------------------------------
(* File table and descriptors.                                              *)

Start(p) == /\ p \in alive /\ call[p].pc = "idle" /\ calls < MaxCalls
            /\ calls' = calls + 1 /\ UNCHANGED crashes
Goto(p, c) == call' = [call EXCEPT ![p] = c]
Now(p, label) == Goto(p, [call[p] EXCEPT !.pc = label])
At(p, label) == call[p].pc = label /\ UNCHANGED boundVars

FreeFiles == {f \in FileId : ftable[f].ref = 0}
FreeFds(o, p) == {fd \in Fd : o[p][fd] = 0}
Filealloc(t, f) == [t EXCEPT ![f].ref = 1]
Fdalloc(o, p, f) == [o EXCEPT ![p][Min(FreeFds(o, p))] = f]
Fileref(t, f, k) == [t EXCEPT ![f].ref = @ + k]
Fileput(t, f) == IF t[f].ref = 1 THEN [t EXCEPT ![f].ref = 0, ![f].type = "none"]
                 ELSE Fileref(t, f, -1)

(* sys_open of an existing file, or of a new one (O_CREATE), up to          *)
(* filealloc.  Without a free file it drops the inode again; a name that    *)
(* create() made is kept.                                                   *)
SysOpen(p, i) ==
    LET create == ~disk.din[i].live /\ Refs(i) = 0
        ino == IF Refs(i) > 0 THEN inode[i]
               ELSE IF create THEN [FreeInode EXCEPT !.live = TRUE, !.nlink = 1]
               ELSE disk.din[i]
        f == Min(FreeFiles)
    IN /\ Start(p) /\ lock[i] = 0
       /\ create \/ ino.nlink > 0
       /\ inode' = [inode EXCEPT ![i] = ino]
       /\ disk' = IF create THEN Iupdate(i, ino, disk) ELSE disk
       /\ inop' = inop \cup {p}
       /\ IF FreeFiles = {}
          THEN /\ Goto(p, [Idle EXCEPT !.pc = "iput", !.ip = i])
               /\ UNCHANGED <<ftable, lock>>
          ELSE /\ ftable' = Filealloc(ftable, f)
               /\ lock' = [lock EXCEPT ![i] = p]
               /\ Goto(p, [Idle EXCEPT !.pc = "open", !.f = f, !.ip = i])
       /\ UNCHANGED <<ofile, alive, installed, op, moved>>

(* The rest of sys_open: fdalloc, and the file filled in, or fileclose(f)   *)
(* and iunlockput.                                                          *)
OpenFd(p, readable, writable) ==
    LET f == call[p].f
        i == call[p].ip
    IN /\ At(p, "open")
       /\ FreeFds(ofile, p) # {}
       /\ ofile' = Fdalloc(ofile, p, f)
       /\ ftable' = [ftable EXCEPT ![f] =
             [ref |-> 1, type |-> "inode", ip |-> i, off |-> 0,
              readable |-> readable, writable |-> writable]]
       /\ moved' = [moved EXCEPT ![f] = 0]
       /\ lock' = [lock EXCEPT ![i] = 0]
       /\ UNCHANGED dataVars /\ EndOp(p)
       /\ Goto(p, Idle)
       /\ UNCHANGED alive

OpenNoFd(p) ==
    LET i == call[p].ip
    IN /\ At(p, "open")
       /\ FreeFds(ofile, p) = {}
       /\ ftable' = Fileput(ftable, call[p].f)
       /\ lock' = [lock EXCEPT ![i] = 0]
       /\ Goto(p, [Idle EXCEPT !.pc = "iput", !.ip = i])
       /\ UNCHANGED <<ofile, alive, dataVars, logVars, moved>>

SysDup(p, fd) ==
    /\ Start(p) /\ ofile[p][fd] # 0 /\ FreeFds(ofile, p) # {}
    /\ ofile' = Fdalloc(ofile, p, ofile[p][fd])
    /\ ftable' = Fileref(ftable, ofile[p][fd], 1)
    /\ UNCHANGED <<alive, dataVars, lock, logVars, call, moved>>

(* fileclose(f): the last reference takes a copy of the file, frees it, and *)
(* goes on with the inode of the copy, before the caller goes on.           *)
Fileclose(p, f, caller) ==
    /\ ftable' = Fileput(ftable, f)
    /\ Goto(p, IF ftable[f].ref = 1 /\ ftable[f].type = "inode"
               THEN [Idle EXCEPT !.pc = "cbegin", !.ip = ftable[f].ip,
                                 !.then = caller.pc]
               ELSE caller)
    /\ UNCHANGED <<alive, dataVars, lock, logVars, moved>>

SysClose(p, fd) ==
    /\ Start(p) /\ ofile[p][fd] # 0
    /\ ofile' = [ofile EXCEPT ![p][fd] = 0]
    /\ Fileclose(p, ofile[p][fd], Idle)

CloseBegin(p) ==
    /\ At(p, "cbegin") /\ inop' = inop \cup {p} /\ Now(p, "iput")
    /\ UNCHANGED <<fileVars, dataVars, installed, op, lock, moved>>

Iput(p) ==
    LET i == call[p].ip
        ino == inode[i]
    IN /\ At(p, "iput") /\ lock[i] = 0
       /\ IF LastLink(i, Refs(i))
          THEN /\ inode' = [inode EXCEPT ![i] = FreeInode]
               /\ disk' = Discard(i, ino, disk)
               /\ op' = [op EXCEPT ![p] = @ \cup DiscardLog(ino, disk)]
          ELSE UNCHANGED <<dataVars, op>>
       /\ Now(p, "cend")
       /\ UNCHANGED <<fileVars, installed, inop, lock, moved>>

CloseEnd(p) ==
    /\ At(p, "cend") /\ Goto(p, [Idle EXCEPT !.pc = call[p].then])
    /\ UNCHANGED dataVars /\ EndOp(p)
    /\ UNCHANGED <<fileVars, lock, moved>>

(* sys_pipe: pipealloc takes one file, then the other, then a page.  From    *)
(* there on whatever is missing, both files go back, one at a time; without *)
(* a first file the call fails and nothing has happened.                    *)
Undo(rf, wf) == [Idle EXCEPT !.pc = "pundo", !.f = rf, !.w = wf]

SysPipe(p) ==
    LET f == Min(FreeFiles)
    IN /\ Start(p) /\ FreeFiles # {}
       /\ ftable' = Filealloc(ftable, f)
       /\ Goto(p, [Idle EXCEPT !.pc = "pipe", !.f = f])
       /\ UNCHANGED <<ofile, alive, dataVars, lock, logVars, moved>>

Pipealloc(p) ==
    LET rf == call[p].f
        wf == Min(FreeFiles)
    IN /\ At(p, "pipe")
       /\ IF FreeFiles = {}
          THEN Goto(p, Undo(rf, 0)) /\ UNCHANGED ftable
          ELSE /\ ftable' = Filealloc(ftable, wf)
               /\ Goto(p, [Idle EXCEPT !.pc = "kalloc", !.f = rf, !.w = wf])
       /\ UNCHANGED <<ofile, alive, dataVars, lock, logVars, moved>>

PipeNoPage(p) ==
    /\ At(p, "kalloc") /\ Goto(p, Undo(call[p].f, call[p].w))
    /\ UNCHANGED <<fileVars, dataVars, lock, logVars, moved>>

PipeFile(t, f, w) == [t EXCEPT ![f] = [NoFile EXCEPT !.ref = 1, !.type = "pipe",
                                                     !.readable = ~w, !.writable = w]]

(* The first descriptor is taken back when there is no second.              *)
NotTakenBack(o, p, fd) == o
TakenBack(o, p, fd) == [o EXCEPT ![p][fd] = 0]

PipeFds(p) ==
    LET rf == call[p].f
        wf == call[p].w
        one == Fdalloc(ofile, p, rf)
    IN /\ At(p, "kalloc")
       /\ ftable' = PipeFile(PipeFile(ftable, rf, FALSE), wf, TRUE)
       /\ IF FreeFds(ofile, p) = {}
          THEN UNCHANGED ofile /\ Goto(p, Undo(rf, wf))
          ELSE IF FreeFds(one, p) = {}
          THEN /\ ofile' = TakenBack(one, p, Min(FreeFds(ofile, p)))
               /\ Goto(p, Undo(rf, wf))
          ELSE ofile' = Fdalloc(one, p, wf) /\ Goto(p, Idle)
       /\ UNCHANGED <<alive, dataVars, lock, logVars, moved>>

PipeUndo(p) ==
    LET c == call[p]
    IN /\ At(p, "pundo")
       /\ Fileclose(p, c.f, IF c.w = 0 THEN Idle ELSE Undo(c.w, 0))
       /\ UNCHANGED ofile

(* The files part of fork and exit.  exit clears ofile[fd] after fileclose;  *)
(* nobody else reads the descriptor, so it is cleared in the step that      *)
(* drops the reference.                                                     *)
ForkFiles(p, q) ==
    /\ Start(p) /\ q \notin alive
    /\ alive' = alive \cup {q}
    /\ ofile' = [ofile EXCEPT ![q] = ofile[p]]
    /\ ftable' = [f \in FileId |-> [ftable[f] EXCEPT
                     !.ref = @ + Cardinality({fd \in Fd : ofile[p][fd] = f})]]
    /\ UNCHANGED <<dataVars, lock, logVars, call, moved>>

SysExit(p) ==
    /\ Start(p) /\ Cardinality(alive) > 1 /\ Now(p, "exit")
    /\ UNCHANGED <<fileVars, dataVars, lock, logVars, moved>>

ExitFiles(p) ==
    LET open == Fd \ FreeFds(ofile, p)
    IN /\ At(p, "exit")
       /\ IF open = {}
          THEN /\ alive' = alive \ {p} /\ Goto(p, Idle)
               /\ UNCHANGED <<ftable, ofile, dataVars, lock, logVars, moved>>
          ELSE /\ ofile' = [ofile EXCEPT ![p][Min(open)] = 0]
               /\ Fileclose(p, ofile[p][Min(open)], [Idle EXCEPT !.pc = "exit"])

---------------------------------------------------------------------------
(* Reading and writing.  Byte k of the buffer a process writes is told      *)
(* apart from every other byte.                                             *)

Byte(p, k) == 100 * p + k

Fileread(p, fd, n) ==
    LET f == ofile[p][fd]
        file == ftable[f]
        r == ReadCount(inode[file.ip], file.off, n)
    IN /\ Start(p) /\ f # 0 /\ file.readable /\ file.type = "inode"
       /\ lock[file.ip] = 0 /\ r > 0
       /\ ftable' = [ftable EXCEPT ![f].off = @ + r]
       /\ moved' = [moved EXCEPT ![f] = @ + r]
       /\ UNCHANGED <<ofile, alive, dataVars, lock, logVars, call>>

(* Bytes filewrite puts in one transaction.                                 *)
NoSlop == ((MAXOPBLOCKS - 1 - 1) \div 2) * BSIZE
MaxChunk == ((MAXOPBLOCKS - 1 - 1 - 2) \div 2) * BSIZE

Filewrite(p, fd, n) ==
    LET f == ofile[p][fd]
    IN /\ Start(p) /\ f # 0 /\ ftable[f].writable /\ ftable[f].type = "inode"
       /\ Goto(p, [Idle EXCEPT !.pc = "wbegin", !.f = f, !.ip = ftable[f].ip, !.n = n])
       /\ UNCHANGED <<fileVars, dataVars, lock, logVars, moved>>

WriteBegin(p) ==
    /\ At(p, "wbegin") /\ inop' = inop \cup {p}
    /\ Goto(p, [call[p] EXCEPT !.pc = "ilock", !.tot = 0,
                               !.n1 = Min({call[p].n - call[p].i, MaxChunk})])
    /\ UNCHANGED <<fileVars, dataVars, installed, op, lock, moved>>

NeverLocked(i) == FALSE
Locked(i) == lock[i] # 0

(* ilock and the checks writei starts with.                                 *)
WriteFits(ino, off, n) == off <= ino.size /\ off + n <= MAXFILE * BSIZE

WriteLock(p) ==
    LET i == call[p].ip
    IN /\ At(p, "ilock") /\ ~Locked(i)
       /\ IF WriteFits(inode[i], ftable[call[p].f].off, call[p].n1)
          THEN lock' = [lock EXCEPT ![i] = p] /\ Now(p, "copy")
          ELSE /\ Goto(p, [call[p] EXCEPT !.pc = "wend", !.r = -1])
               /\ UNCHANGED lock
       /\ UNCHANGED <<fileVars, dataVars, logVars, moved>>

(* What a restart, or a panic, leaves: the installed disk.                  *)
Restart ==
    /\ ftable' = [f \in FileId |-> NoFile]
    /\ ofile' = [p \in Proc |-> [fd \in Fd |-> 0]]
    /\ alive' = {1}
    /\ disk' = installed /\ inode' = installed.din /\ UNCHANGED installed
    /\ lock' = [i \in Inum |-> 0]
    /\ op' = [p \in Proc |-> {}] /\ inop' = {}
    /\ call' = [p \in Proc |-> Idle]
    /\ moved' = [f \in FileId |-> 0]

(* One turn of writei's loop: one block, or the part of it that is written. *)
Copied(blk, at, p, from, m) ==
    [k \in DOMAIN blk |-> IF k \in at..(at + m - 1) THEN Byte(p, from + k - at)
                          ELSE blk[k]]

WriteBlock(p) ==
    LET c == call[p]
        off == ftable[c.f].off + c.tot
        at == off % BSIZE
        m == Min({c.n1 - c.tot, BSIZE - at})
        x == Bmap(Lookup(inode[c.ip], disk), off \div BSIZE)
    IN /\ At(p, "copy") /\ c.tot < c.n1
       /\ IF x.full THEN Restart
          ELSE /\ inode' = [inode EXCEPT ![c.ip] = x.ino]
               /\ disk' = [x.d EXCEPT !.data[x.addr] = Copied(@, at, p, c.i + c.tot, m)]
               /\ op' = [op EXCEPT ![p] = @ \cup x.log \cup {DataBlock(x.addr)}]
               /\ Goto(p, [c EXCEPT !.tot = @ + m])
               /\ UNCHANGED <<fileVars, installed, inop, lock, moved>>

(* The end of writei, the new offset, iunlock.                              *)
Overwrite(s, off, w) ==
    SubSeq(s, 1, off) \o w \o SubSeq(s, off + Len(w) + 1, Len(s))
Grown(ino, end) == [ino EXCEPT !.size = end]
MovedOff(t, f, r) == [t EXCEPT ![f].off = @ + r]

WriteDone(p) ==
    LET c == call[p]
        end == ftable[c.f].off + c.tot
        grows == end > inode[c.ip].size
        ino == IF grows THEN Grown(inode[c.ip], end) ELSE inode[c.ip]
        sent == [k \in 1..c.n1 |-> Byte(p, c.i + k - 1)]
    IN /\ At(p, "copy") /\ c.tot = c.n1
       /\ inode' = [inode EXCEPT ![c.ip] = ino]
       /\ disk' = [(IF grows THEN Iupdate(c.ip, ino, disk) ELSE disk) EXCEPT
                      !.text[c.ip] = Overwrite(@, moved[c.f], sent)]
       /\ op' = [op EXCEPT ![p] = IF grows THEN @ \cup {InodeBlock} ELSE @]
       /\ ftable' = MovedOff(ftable, c.f, c.n1)
       /\ moved' = [moved EXCEPT ![c.f] = @ + c.n1]
       /\ lock' = [lock EXCEPT ![c.ip] = 0]
       /\ Goto(p, [c EXCEPT !.pc = "wend", !.r = c.n1])
       /\ UNCHANGED <<ofile, alive, installed, inop>>

WriteEnd(p) ==
    LET c == call[p]
        i == c.i + c.r
    IN /\ At(p, "wend")
       /\ Goto(p, IF c.r < 0 \/ i = c.n THEN Idle
                  ELSE [c EXCEPT !.pc = "wbegin", !.i = i])
       /\ UNCHANGED dataVars /\ EndOp(p)
       /\ UNCHANGED <<fileVars, lock, moved>>

---------------------------------------------------------------------------
(* sys_unlink of a file's only name, in one step here (Fs has its steps);   *)
(* a crash of the machine.                                                  *)

Unlink(p, i) ==
    LET ino == [inode[i] EXCEPT !.nlink = 0]
    IN /\ Start(p) /\ lock[i] = 0 /\ disk.din[i].live /\ disk.din[i].nlink > 0
       /\ IF Refs(i) = 0
          THEN /\ inode' = [inode EXCEPT ![i] = FreeInode]
               /\ disk' = Discard(i, disk.din[i], disk)
          ELSE /\ inode' = [inode EXCEPT ![i] = ino]
               /\ disk' = Iupdate(i, ino, disk)
       /\ EndOp(p)
       /\ UNCHANGED <<fileVars, lock, call, moved>>

Crash == /\ crashes < MaxCrashes /\ crashes' = crashes + 1
         /\ UNCHANGED calls /\ Restart

Next ==
    \/ \E p \in Proc :
        \/ \E i \in Inum : SysOpen(p, i) \/ Unlink(p, i)
        \/ OpenFd(p, TRUE, TRUE) \/ OpenFd(p, FALSE, TRUE) \/ OpenNoFd(p)
        \/ \E fd \in Fd : \/ SysDup(p, fd) \/ SysClose(p, fd)
                          \/ \E n \in WriteSizes : Fileread(p, fd, n) \/ Filewrite(p, fd, n)
        \/ CloseBegin(p) \/ Iput(p) \/ CloseEnd(p)
        \/ SysPipe(p) \/ Pipealloc(p) \/ PipeNoPage(p) \/ PipeFds(p) \/ PipeUndo(p)
        \/ SysExit(p) \/ ExitFiles(p) \/ \E q \in Proc : ForkFiles(p, q)
        \/ WriteBegin(p) \/ WriteLock(p) \/ WriteBlock(p) \/ WriteDone(p) \/ WriteEnd(p)
    \/ Crash

Spec == Init /\ [][Next]_vars

---------------------------------------------------------------------------
(* Properties.                                                              *)

(* Every variable has its type; no offset or size passes the largest file.  *)
TypeOK ==
    /\ \A f \in FileId : ftable[f].ref \in Nat /\ ftable[f].off \in 0..(MAXFILE * BSIZE)
    /\ ofile \in [Proc -> [Fd -> FileId \cup {0}]]
    /\ alive \subseteq Proc /\ inop \subseteq alive
    /\ lock \in [Inum -> Proc \cup {0}]
    /\ disk.used \subseteq Block
    /\ \A i \in Inum : inode[i].size \in 0..(MAXFILE * BSIZE)

(* f->ref is the number of descriptors that hold the file, and one for an   *)
(* open or a pipe that is still being made or is given back (filedup,       *)
(* fileclose, fork, exit; sys_open without a descriptor; sys_pipe without a *)
(* second file, a page or a descriptor), so a file is free exactly when     *)
(* nobody can reach it; the inode of an open file is live.                  *)
Making == {"open", "pipe", "kalloc", "pundo"}
FilesCounted ==
    /\ TypeOK
    /\ \A f \in FileId :
        /\ ftable[f].ref =
              Cardinality({x \in Proc \X Fd : ofile[x[1]][x[2]] = f})
              + Cardinality({p \in Proc : call[p].pc \in Making
                                            /\ f \in {call[p].f, call[p].w}})
        /\ ftable[f].ref > 0 /\ ftable[f].type = "inode" => inode[ftable[f].ip].live

(* The free map is exact: on the disk a restart finds, always, and in the   *)
(* cache when no transaction is open, a block is marked in use iff one      *)
(* inode reaches it, by one path (balloc, bfree, bmap, itrunc; a write cut  *)
(* into several transactions).                                              *)
MapExact(d) ==
    /\ d.used = UNION {Blocks(d.din[i], d) : i \in Inum}
    /\ \A i, j \in Inum : i # j => Blocks(d.din[i], d) \cap Blocks(d.din[j], d) = {}
BlocksExact ==
    /\ MapExact(installed)
    /\ inop = {} => MapExact(disk)
    /\ \A i, j \in Inum : i # j => Blocks(inode[i], disk) \cap Blocks(inode[j], disk) = {}

(* What readi returns is what the calls wrote: every chunk of a write lands *)
(* whole at the offset of its open file, shared offsets included (the       *)
(* inode lock covers both), the inode on disk is never behind the one in    *)
(* the cache although iupdate is called only when the file grows, and a     *)
(* crash leaves a file that the installed transactions made.                *)
Whole(ino, d) == Readi(ino, d, 0, MAXFILE * BSIZE)
ReadsBack ==
    \A i \in Inum :
          /\ Whole(installed.din[i], installed) = installed.text[i]
          /\ lock[i] = 0 /\ inode[i].live =>
                /\ Whole(inode[i], disk) = disk.text[i]
                /\ inode[i] = disk.din[i]

(* No transaction of filewrite writes more blocks than begin_op set aside   *)
(* for it (MAXOPBLOCKS), whatever the alignment of the write: the bound     *)
(* filewrite computes for its chunks is sufficient.  Nor does an iput that  *)
(* frees the inode of a closed file.                                        *)
TransactionFits == \A p \in Proc : Cardinality(op[p]) <= MAXOPBLOCKS
===========================================================================
