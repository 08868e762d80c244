-------------------------------- MODULE Fs --------------------------------
(***************************************************************************)
(* Inodes, directories, path names (fs.c) and the system calls on them     *)
(* (sysfile.c), by several processes.                                      *)
(*                                                                         *)
(* One step is the code between two acquisitions of locks: a sleep lock is *)
(* free or held, and a step that takes it waits until it is free.  An      *)
(* inode locked, used and unlocked by one step does not show as locked.    *)
(* The cache entry of an inode is indexed by its number; a directory is a  *)
(* function from names to inode numbers, 0 for no entry.  File contents,   *)
(* transactions and the size limit of the inode cache are left out.        *)
(***************************************************************************)
EXTENDS Integers, Sequences, FiniteSets, FiniteSetsExt, Relation

CONSTANTS
    Process, Nobody,
    Name,        \* names other than "." and ".."
    NINODES,     \* inodes on the disk
    MaxLinks,    \* bound on the link count of a file that link() is called on
    Calls        \* system calls the processes make

(* A path as skipelem() cuts it up; "/" alone, with no name, is left out.   *)
Path == [abs : BOOLEAN, elems : Seq(Name \cup {".", ".."}) \ {<<>>}]

ASSUME FsAssumption ==
    /\ IsFiniteSet(Process) /\ Nobody \notin Process
    /\ IsFiniteSet(Name) /\ {".", ".."} \cap Name = {}
    /\ NINODES \in Nat \ {0} /\ MaxLinks \in Nat
    /\ \A c \in Calls :
          /\ c.op \in {"open", "create", "mkdir", "mknod", "unlink", "link", "chdir"}
          /\ c.path \in Path
          /\ c.op = "link" => c.new \in Path

ROOT == 1
Inum == 1..NINODES
None == 0
Dots == {".", ".."}

VARIABLES
    disk,      \* type and nlink of each inode on disk
    ents,      \* contents of each directory
    mem,       \* type and nlink of its copy in the inode cache
    valid, ref,
    lock,      \* process holding the sleep lock of the inode
    cwd,       \* current directory of each process
    file,      \* inode of its open file, or None
    th,        \* thread: label, call, path walk, inodes in its locals
    lost,      \* history: entries of each inode freed with their directory
    strayed    \* history: ".." of a removed directory led to a removed one

history == <<lost, strayed>>
nodeVars == <<disk, ents, mem, valid, history>>
vars == <<nodeVars, ref, lock, cwd, file, th>>

Free == [type |-> "free", nlink |-> 0]
NoEnts == [n \in Name \cup Dots |-> None]

Idle == [pc |-> "idle", op |-> "", new |-> <<>>, rest |-> <<>>, parent |-> FALSE,
         found |-> "", fail |-> "", at |-> None, ip |-> None, arg |-> None, ret |-> ""]

(* The disk mkfs makes: a root directory.                                   *)
Init ==
    /\ disk = [i \in Inum |-> IF i = ROOT THEN [type |-> "dir", nlink |-> 1]
                              ELSE Free]
    /\ ents = [i \in Inum |-> IF i = ROOT
                 THEN [n \in Name \cup Dots |-> IF n \in Dots THEN ROOT ELSE None]
                 ELSE NoEnts]
    /\ mem = [i \in Inum |-> Free] /\ valid = [i \in Inum |-> FALSE]
    /\ ref = [i \in Inum |-> IF i = ROOT THEN Cardinality(Process) ELSE 0]
    /\ lock = [i \in Inum |-> Nobody]
    /\ cwd = [p \in Process |-> ROOT] /\ file = [p \in Process |-> None]
    /\ th = [p \in Process |-> Idle]
    /\ lost = [i \in Inum |-> 0] /\ strayed = FALSE

At(p, l) == th[p].pc = l
Set(p, t) == th' = [th EXCEPT ![p] = t]
To(p, l) == [th[p] EXCEPT !.pc = l]

(* Go on with iput(i), and then at label l.                                 *)
Put(t, i, l) == [t EXCEPT !.pc = "iput", !.arg = i, !.ret = l]
PutAt(p, l) == Put([th[p] EXCEPT !.at = None], th[p].at, l)
PutIp(p, l) == Put([th[p] EXCEPT !.ip = None], th[p].ip, l)

(***************************************************************************)
(* The inode cache.                                                        *)
(***************************************************************************)

(* The copy of inode i that the holder of its lock sees after ilock().      *)
Cached(i) == IF valid[i] THEN mem[i] ELSE disk[i]

(* acquiresleep() of ilock(); with no type it panics, see NoPanic.          *)
Ilock(i) == lock[i] = Nobody /\ Cached(i).type # "free"

(* References after iget() or idup() of j, if any.                          *)
RefNotTaken(j) == ref
RefTaken(j) == [k \in Inum |-> IF k = j THEN ref[k] + 1 ELSE ref[k]]

(* ilock() reads inode i, and iget() references j while i is locked.        *)
LockedGet(i, j) ==
    /\ mem' = [mem EXCEPT ![i] = Cached(i)]
    /\ valid' = [valid EXCEPT ![i] = TRUE]
    /\ ref' = RefTaken(j)
Loaded(i) == LockedGet(i, None)

(* iupdate() of a locked inode, and of two.                                 *)
Iupdate(i, n) ==
    /\ mem' = [mem EXCEPT ![i] = n] /\ disk' = [disk EXCEPT ![i] = n]
    /\ valid' = [valid EXCEPT ![i] = TRUE]
IupdateBoth(i, n, j, m) ==
    /\ mem' = [mem EXCEPT ![i] = n, ![j] = m]
    /\ disk' = [disk EXCEPT ![i] = n, ![j] = m]
    /\ valid' = [valid EXCEPT ![i] = TRUE, ![j] = TRUE]

Linked(i, d) == [Cached(i) EXCEPT !.nlink = @ + d]

(* iput(): the reference count is read, and the inode freed, under the      *)
(* sleep lock but not under one critical section of icache.lock.            *)
NoRefCheck(i) == TRUE
LastRef(i) == ref[i] = 1

Iput(p) ==
    /\ At(p, "iput")
    /\ LET i == th[p].arg IN
       /\ lock[i] = Nobody
       /\ IF valid[i] /\ mem[i].nlink = 0 /\ LastRef(i)
          THEN lock' = [lock EXCEPT ![i] = p] /\ Set(p, To(p, "ifree"))
          ELSE Set(p, To(p, "iref")) /\ UNCHANGED lock
    /\ UNCHANGED <<nodeVars, ref, cwd, file>>

Invalidated(i) ==
    /\ mem' = [mem EXCEPT ![i] = Free]
    /\ valid' = [valid EXCEPT ![i] = FALSE]

(* itrunc(), type = 0, iupdate(), valid = 0, releasesleep().                *)
IputFree(p) ==
    /\ At(p, "ifree")
    /\ LET i == th[p].arg IN
       /\ disk' = [disk EXCEPT ![i] = Free]
       /\ ents' = [ents EXCEPT ![i] = NoEnts]
       /\ lost' = [j \in Inum |->
                     lost[j] + Cardinality({n \in Name : ents[i][n] = j})]
       /\ Invalidated(i)
       /\ lock' = [lock EXCEPT ![i] = Nobody]
    /\ Set(p, To(p, "iref"))
    /\ UNCHANGED <<strayed, ref, cwd, file>>

(* ip->ref--.  An entry without references is free: the next iget() of its *)
(* inode clears valid, which is modelled here.                              *)
IputRef(p) ==
    /\ At(p, "iref")
    /\ LET i == th[p].arg IN
       /\ ref' = [ref EXCEPT ![i] = @ - 1]
       /\ IF ref[i] = 1 THEN Invalidated(i) ELSE UNCHANGED <<mem, valid>>
    /\ Set(p, IF th[p].ret = "idle" THEN Idle
              ELSE [th[p] EXCEPT !.pc = th[p].ret, !.arg = None, !.ret = ""])
    /\ UNCHANGED <<disk, ents, history, lock, cwd, file>>

(* The inode number of an entry of directory dp, or None.                   *)
Dirlookup(dp, name) == ents[dp][name]

(***************************************************************************)
(* Path names: namex() of the path, which ends at label found with the     *)
(* inode referenced in th[p].at, or at label fail.                         *)
(***************************************************************************)
Start(p, path) == IF path.abs THEN ROOT ELSE cwd[p]

Call(p) ==
    /\ At(p, "idle")
    /\ \E c \in Calls :
       LET i == Start(p, c.path) IN
       /\ c.op \in {"open", "create"} => file[p] = None
       /\ ref' = RefTaken(i)
       /\ Set(p, [Idle EXCEPT
                    !.pc = "walk", !.op = c.op, !.rest = c.path.elems, !.at = i,
                    !.new = IF c.op = "link" THEN c.new ELSE <<>>,
                    !.parent = c.op \in {"create", "mkdir", "mknod", "unlink"},
                    !.found = IF c.op \in {"mkdir", "mknod"} THEN "create" ELSE c.op,
                    !.fail = "idle"])
    /\ UNCHANGED <<nodeVars, lock, cwd, file>>

Entries(i) == {e \in Inum \X Name : ents[e[1]][e[2]] = i}

(* The ".." of a directory that was removed names a directory that was, too. *)
Strays(dp, name, next) ==
    name = ".." /\ dp # ROOT /\ Entries(dp) = {} /\ disk[next].nlink = 0

(* One round of the loop of namex().                                        *)
Walk(p) ==
    /\ At(p, "walk")
    /\ LET t == th[p]
           last == Len(t.rest) = 1
           dir == Cached(t.at).type = "dir"
           next == IF dir THEN Dirlookup(t.at, Head(t.rest)) ELSE None
       IN /\ Ilock(t.at)
          /\ \/ /\ dir /\ t.parent /\ last
                /\ Set(p, To(p, t.found))
                /\ Loaded(t.at)
                /\ UNCHANGED strayed
             \/ /\ ~(dir /\ t.parent /\ last) /\ next = None
                /\ Set(p, PutAt(p, t.fail))
                /\ Loaded(t.at)
                /\ UNCHANGED strayed
             \/ /\ ~(t.parent /\ last) /\ next # None
                /\ Set(p, Put([t EXCEPT !.at = next, !.rest = Tail(t.rest)],
                              t.at, IF last THEN t.found ELSE "walk"))
                /\ LockedGet(t.at, next)
                /\ strayed' = (strayed \/ Strays(t.at, Head(t.rest), next))
    /\ UNCHANGED <<disk, ents, lost, lock, cwd, file>>

(***************************************************************************)
(* open() and close().                                                     *)
(***************************************************************************)

(* The inode i is locked: allocate a file and a descriptor, which may fail. *)
OpenFile(p, i, put) ==
    \/ /\ file' = [file EXCEPT ![p] = i]
       /\ Set(p, Idle)
    \/ /\ Set(p, put)
       /\ UNCHANGED file

OpenLock(p) ==
    /\ At(p, "open") /\ Ilock(th[p].at)
    /\ Loaded(th[p].at)
    /\ OpenFile(p, th[p].at, PutAt(p, "idle"))
    /\ UNCHANGED <<disk, ents, history, lock, cwd>>

Close(p) ==
    /\ At(p, "idle") /\ file[p] # None
    /\ Set(p, Put(th[p], file[p], "idle"))
    /\ file' = [file EXCEPT ![p] = None]
    /\ UNCHANGED <<nodeVars, ref, lock, cwd>>

(***************************************************************************)
(* create(): open() with O_CREATE, mkdir() and mknod().                    *)
(***************************************************************************)
FreeInums == {i \in Inum : disk[i].type = "free"}
TypeOf(op) == CASE op = "mkdir" -> "dir" [] op = "mknod" -> "dev" [] OTHER -> "file"

(* The name exists: create() releases dp before it locks the inode.         *)
CreateExists(p) ==
    /\ At(p, "create") /\ Ilock(th[p].at)
    /\ LET ip == Dirlookup(th[p].at, Head(th[p].rest)) IN
       /\ ip # None
       /\ LockedGet(th[p].at, ip)
       /\ Set(p, [PutAt(p, "create_found") EXCEPT !.ip = ip])
       /\ strayed' = (strayed \/ Strays(th[p].at, Head(th[p].rest), ip))
    /\ UNCHANGED <<disk, ents, lost, lock, cwd, file>>

CreateFound(p) ==
    /\ At(p, "create_found") /\ Ilock(th[p].ip)
    /\ Loaded(th[p].ip)
    /\ IF th[p].op = "create" /\ Cached(th[p].ip).type = "file"
       THEN OpenFile(p, th[p].ip, PutIp(p, "idle"))
       ELSE Set(p, PutIp(p, "idle")) /\ UNCHANGED file
    /\ UNCHANGED <<disk, ents, history, lock, cwd>>

(* The name is free: ialloc() with dp locked, or panic("ialloc: no inodes"). *)
CreateAlloc(p) ==
    /\ At(p, "create") /\ Ilock(th[p].at)
    /\ Dirlookup(th[p].at, Head(th[p].rest)) = None
    /\ lock' = [lock EXCEPT ![th[p].at] = p]
    /\ IF FreeInums = {}
       THEN /\ Set(p, To(p, "no inodes"))
            /\ Loaded(th[p].at)
            /\ UNCHANGED disk
       ELSE LET ip == Min(FreeInums) IN
            /\ disk' = [disk EXCEPT ![ip] = [type |-> TypeOf(th[p].op), nlink |-> 0]]
            /\ LockedGet(th[p].at, ip)
            /\ Set(p, [th[p] EXCEPT !.pc = "create_new", !.ip = ip])
    /\ UNCHANGED <<ents, history, cwd, file>>

CreateNew(p) ==
    /\ At(p, "create_new") /\ Ilock(th[p].ip)
    /\ LET dp == th[p].at
           ip == th[p].ip
           dir == th[p].op = "mkdir"
       IN /\ IupdateBoth(dp, Linked(dp, IF dir THEN 1 ELSE 0),
                         ip, [Cached(ip) EXCEPT !.nlink = 1])
          /\ ents' = [ents EXCEPT
                        ![dp][Head(th[p].rest)] = ip,
                        ![ip] = IF dir THEN [@ EXCEPT !["."] = ip, ![".."] = dp] ELSE @]
          /\ lock' = [lock EXCEPT ![dp] = Nobody, ![ip] = p]
    /\ Set(p, PutAt(p, "create_done"))
    /\ UNCHANGED <<history, ref, cwd, file>>

(* Back in sys_open(), sys_mkdir() or sys_mknod() with ip locked.           *)
CreateDone(p) ==
    /\ At(p, "create_done")
    /\ lock' = [lock EXCEPT ![th[p].ip] = Nobody]
    /\ IF th[p].op = "create" THEN OpenFile(p, th[p].ip, PutIp(p, "idle"))
       ELSE Set(p, PutIp(p, "idle")) /\ UNCHANGED file
    /\ UNCHANGED <<nodeVars, ref, cwd>>

(***************************************************************************)
(* unlink()                                                                *)
(***************************************************************************)
UnlinkLock(p) ==
    /\ At(p, "unlink") /\ Ilock(th[p].at)
    /\ LET name == Head(th[p].rest)
           ip == Dirlookup(th[p].at, name)
       IN IF name \in Dots \/ ip = None
          THEN /\ Set(p, PutAt(p, "idle"))
               /\ Loaded(th[p].at)
               /\ UNCHANGED lock
          ELSE /\ Set(p, [th[p] EXCEPT !.pc = "unlink_ip", !.ip = ip])
               /\ LockedGet(th[p].at, ip)
               /\ lock' = [lock EXCEPT ![th[p].at] = p]
    /\ UNCHANGED <<disk, ents, history, cwd, file>>

EmptyDir(i) == \A n \in Name : ents[i][n] = None

EntryErased(dp, name) == [ents EXCEPT ![dp][name] = None]

ParentKept(dp, dir) == Cached(dp)
ParentUnlinked(dp, dir) == Linked(dp, IF dir THEN -1 ELSE 0)

UnlinkIp(p) ==
    /\ At(p, "unlink_ip") /\ Ilock(th[p].ip)
    /\ LET dp == th[p].at
           ip == th[p].ip
           dir == Cached(ip).type = "dir"
       IN IF Cached(ip).nlink < 1
          THEN /\ Set(p, To(p, "panic"))
               /\ Loaded(ip)
               /\ UNCHANGED <<disk, ents, lock>>
          ELSE IF dir /\ ~EmptyDir(ip)
          THEN /\ Set(p, PutIp(p, "unlink_bad"))
               /\ Loaded(ip)
               /\ UNCHANGED <<disk, ents, lock>>
          ELSE /\ ents' = EntryErased(dp, Head(th[p].rest))
               /\ IupdateBoth(dp, ParentUnlinked(dp, dir), ip, Cached(ip))
               /\ lock' = [lock EXCEPT ![dp] = Nobody, ![ip] = p]
               /\ Set(p, PutAt(p, "unlink_dec"))
               /\ UNCHANGED ref
    /\ UNCHANGED <<history, cwd, file>>

UnlinkBad(p) ==
    /\ At(p, "unlink_bad")
    /\ lock' = [lock EXCEPT ![th[p].at] = Nobody]
    /\ Set(p, PutAt(p, "idle"))
    /\ UNCHANGED <<nodeVars, ref, cwd, file>>

UnlinkDec(p) ==
    /\ At(p, "unlink_dec")
    /\ LET ip == th[p].ip IN
       /\ Iupdate(ip, Linked(ip, -1))
       /\ lock' = [lock EXCEPT ![ip] = Nobody]
    /\ Set(p, PutIp(p, "idle"))
    /\ UNCHANGED <<ents, history, ref, cwd, file>>

(***************************************************************************)
(* link()                                                                  *)
(***************************************************************************)

(* The old path is found: count the link, then look for the new directory.  *)
LinkIp(p) ==
    /\ At(p, "link") /\ Ilock(th[p].at)
    /\ LET ip == th[p].at
           i == Start(p, th[p].new)
       IN IF Cached(ip).type = "dir"
          THEN /\ Loaded(ip)
               /\ Set(p, PutAt(p, "idle"))
               /\ UNCHANGED disk
          ELSE /\ Cached(ip).nlink < MaxLinks
               /\ Iupdate(ip, Linked(ip, 1))
               /\ ref' = RefTaken(i)
               /\ Set(p, [th[p] EXCEPT !.pc = "walk", !.ip = ip, !.at = i,
                            !.parent = TRUE, !.rest = th[p].new.elems,
                            !.found = "link_dir", !.fail = "link_bad"])
    /\ UNCHANGED <<ents, history, lock, cwd, file>>

(* dirlink(): if the name exists, iput() of what it names with dp locked.   *)
LinkDir(p) ==
    /\ At(p, "link_dir") /\ Ilock(th[p].at)
    /\ LET dp == th[p].at
           name == Head(th[p].rest)
           there == Dirlookup(dp, name)
       IN /\ LockedGet(dp, there)
          /\ IF there # None
             THEN /\ Set(p, Put(th[p], there, "link_exists"))
                  /\ lock' = [lock EXCEPT ![dp] = p]
                  /\ strayed' = (strayed \/ Strays(dp, name, there))
                  /\ UNCHANGED ents
             ELSE /\ ents' = [ents EXCEPT ![dp][name] = th[p].ip]
                  /\ Set(p, PutAt(p, "link_done"))
                  /\ UNCHANGED <<lock, strayed>>
    /\ UNCHANGED <<disk, lost, cwd, file>>

LinkExists(p) ==
    /\ At(p, "link_exists")
    /\ lock' = [lock EXCEPT ![th[p].at] = Nobody]
    /\ Set(p, PutAt(p, "link_bad"))
    /\ UNCHANGED <<nodeVars, ref, cwd, file>>

LinkDone(p) ==
    /\ At(p, "link_done")
    /\ Set(p, PutIp(p, "idle"))
    /\ UNCHANGED <<nodeVars, ref, lock, cwd, file>>

LinkBad(p) ==
    /\ At(p, "link_bad") /\ Ilock(th[p].ip)
    /\ Iupdate(th[p].ip, Linked(th[p].ip, -1))
    /\ Set(p, PutIp(p, "idle"))
    /\ UNCHANGED <<ents, history, ref, lock, cwd, file>>

(***************************************************************************)
(* chdir()                                                                 *)
(***************************************************************************)
ChdirLock(p) ==
    /\ At(p, "chdir") /\ Ilock(th[p].at)
    /\ Loaded(th[p].at)
    /\ Set(p, IF Cached(th[p].at).type # "dir" THEN PutAt(p, "idle")
              ELSE Put(th[p], cwd[p], "chdir_set"))
    /\ UNCHANGED <<disk, ents, history, lock, cwd, file>>

ChdirSet(p) ==
    /\ At(p, "chdir_set")
    /\ cwd' = [cwd EXCEPT ![p] = th[p].at]
    /\ Set(p, Idle)
    /\ UNCHANGED <<nodeVars, ref, lock, file>>

Create(p) ==
    CreateExists(p) \/ CreateFound(p) \/ CreateAlloc(p) \/ CreateNew(p) \/ CreateDone(p)
Unlink(p) == UnlinkLock(p) \/ UnlinkIp(p) \/ UnlinkBad(p) \/ UnlinkDec(p)
Link(p) == LinkIp(p) \/ LinkDir(p) \/ LinkExists(p) \/ LinkDone(p) \/ LinkBad(p)

Next == \E p \in Process :
    \/ Call(p) \/ Walk(p) \/ Iput(p) \/ IputFree(p) \/ IputRef(p)
    \/ OpenLock(p) \/ Close(p) \/ Create(p) \/ Unlink(p) \/ Link(p)
    \/ ChdirLock(p) \/ ChdirSet(p)

Spec == Init /\ [][Next]_vars

(***************************************************************************)
(* Properties.                                                             *)
(***************************************************************************)
Labels == {"idle", "walk", "iput", "ifree", "iref", "open", "create",
           "create_found", "create_new", "create_done", "no inodes", "unlink",
           "unlink_ip", "unlink_bad", "unlink_dec", "link", "link_dir",
           "link_exists", "link_done", "link_bad", "chdir", "chdir_set", "panic"}

Node == [type : {"free", "file", "dir", "dev"}, nlink : Int]

(* Every variable has its type.                                             *)
TypeOK ==
    /\ disk \in [Inum -> Node] /\ mem \in [Inum -> Node]
    /\ ents \in [Inum -> [Name \cup Dots -> Inum \cup {None}]]
    /\ valid \in [Inum -> BOOLEAN] /\ ref \in [Inum -> Nat]
    /\ lock \in [Inum -> Process \cup {Nobody}]
    /\ cwd \in [Process -> Inum] /\ file \in [Process -> Inum \cup {None}]
    /\ lost \in [Inum -> Nat] /\ strayed \in BOOLEAN
    /\ \A p \in Process :
          /\ th[p].pc \in Labels
          /\ {th[p].at, th[p].ip, th[p].arg} \subseteq Inum \cup {None}

(* The cache is write-through: a valid entry that is in use and not locked  *)
(* agrees with the disk, also when its number is freed and allocated again. *)
CacheAgrees ==
    \A i \in Inum : valid[i] /\ lock[i] = Nobody => mem[i] = disk[i]

(* chdir() has given up the old directory but not yet stored the new one.   *)
CwdGone(p) == th[p].ret = "chdir_set" \/ At(p, "chdir_set")

(* The pointers to inodes that a process has, and what each points to.      *)
Pointers == Process \X {"at", "ip", "arg", "file", "cwd"}

Pointed(x) ==
    LET p == x[1] IN
    CASE x[2] = "at" -> th[p].at
      [] x[2] = "ip" -> th[p].ip
      [] x[2] = "arg" -> th[p].arg
      [] x[2] = "file" -> file[p]
      [] x[2] = "cwd" -> IF CwdGone(p) THEN None ELSE cwd[p]

References(i) == {x \in Pointers : Pointed(x) = i}

(* ip->ref is exactly the number of pointers to the inode: open files,      *)
(* current directories and locals of system calls in progress, on every     *)
(* path through namex, create, link, unlink and chdir, failures included;   *)
(* and the cache agrees with the disk.                                      *)
RefsCounted ==
    /\ TypeOK /\ CacheAgrees
    /\ \A i \in Inum : ref[i] = Cardinality(References(i))

(* The inode a process locks next.                                          *)
Target(p) ==
    CASE th[p].pc \in {"walk", "open", "create", "unlink", "link", "link_dir", "chdir"}
              -> th[p].at
      [] th[p].pc \in {"create_found", "create_new", "unlink_ip", "link_bad"} -> th[p].ip
      [] At(p, "iput") -> th[p].arg
      [] OTHER -> None

(* No process is in a panic, or about to lock an inode that is free.        *)
NoPanic ==
    \A p \in Process :
       /\ ~At(p, "panic")
       /\ Target(p) # None /\ ~At(p, "iput") /\ lock[Target(p)] = Nobody
             => Cached(Target(p)).type # "free"

(* iput() frees no inode that somebody else uses, although it checks the    *)
(* reference count and frees in separate critical sections: whatever a      *)
(* process refers to, and is not giving up, is allocated, and no call runs  *)
(* into panic("ilock: no type") or panic("unlink: nlink < 1").  The only    *)
(* way out is the ".." of a removed directory: it holds no reference to the *)
(* parent, and names its inode also after that was removed and freed.       *)
NoUseAfterFree ==
    ~strayed =>
    /\ NoPanic
    /\ \A x \in Pointers :
          x[2] # "arg" /\ Pointed(x) # None => disk[Pointed(x)].type # "free"

Subdirs(i) == {d \in Inum \ {ROOT} : ents[d][".."] = i /\ Entries(d) # {}}

(* When no call is in progress the link count of every inode is the number  *)
(* of entries that name it (and of its subdirectories): links, unlinks,     *)
(* creates and their failures that race leave no entry without an inode.    *)
(* A subdirectory counts while an entry names it.  Entries in a directory   *)
(* freed while a create or link was on its way into it are the exception,   *)
(* and what follows a ".." to a removed directory.                          *)
LinksCounted ==
    ~strayed /\ (\A p \in Process : At(p, "idle")) =>
       \A i \in Inum : disk[i].nlink =
          Cardinality(Entries(i)) + Cardinality(Subdirs(i)) + lost[i]
          + (IF i = ROOT THEN 1 ELSE 0)

(* No process waits, over any number of others, for itself: locks are taken *)
(* from the directory to its entry and ".." never with a lock held.         *)
NoLockCycle ==
    LET waits == [e \in Process \X Process |->
                    Target(e[1]) # None /\ lock[Target(e[1])] = e[2]]
    IN IsIrreflexive(TransitiveClosure(waits, Process), Process)
===========================================================================
