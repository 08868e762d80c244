-------------------------------- MODULE Vm --------------------------------
(***************************************************************************)
(* Physical pages and address spaces: kalloc.c, vm.c, exec.c, and the      *)
(* parts of fork, wait and sbrk that allocate and free memory.             *)
(*                                                                         *)
(* A page has no identity: the free list is its length, a page table the   *)
(* set of what it maps.  The loop of allocuvm(), copyuvm() or setupkvm()   *)
(* is one step; what other processes allocate meanwhile is covered by the  *)
(* lengths the free list can have when it starts.                          *)
(***************************************************************************)
EXTENDS Integers, FiniteSets, FiniteSetsExt

CONSTANTS
    Slot,         \* process slots
    FirstProc,    \* the slot of init
    NPAGES,       \* physical pages
    PGSIZE,       \* bytes in a page
    NPTENTRIES,   \* pages one page table maps
    KERNBASE,     \* end of user addresses
    Word,         \* unsigned integers wrap around here
    KernTabs,     \* the page tables setupkvm() fills, by number; between them is a hole
    WSIZE,        \* bytes in a word
    MAXARG,       \* arguments exec takes
    SbrkArgs,     \* arguments of sbrk
    Segments,     \* program headers, [vaddr, memsz], of the programs on disk
    ArgLens       \* lengths of the argument strings of exec, each with its 0

KTABS == Cardinality(KernTabs)

ASSUME VmAssumption ==
    /\ FirstProc \in Slot /\ IsFiniteSet(Slot)
    /\ {NPAGES, PGSIZE, NPTENTRIES, WSIZE, KTABS} \subseteq Nat \ {0}
    /\ NPAGES >= KTABS + 4                 \* userinit() finds memory for init
    /\ KERNBASE \in Nat /\ KERNBASE > PGSIZE /\ KERNBASE % (PGSIZE * NPTENTRIES) = 0
    /\ Word \in Nat /\ Word > KERNBASE /\ Word % PGSIZE = 0
    /\ KernTabs \subseteq Nat
    /\ PGSIZE % WSIZE = 0 /\ MAXARG \in Nat /\ (MAXARG + 4) * WSIZE <= PGSIZE
    /\ SbrkArgs \subseteq Int /\ ArgLens \subseteq Nat \ {0}
    /\ \A s \in Segments : s.vaddr \in 0..(Word - 1) /\ s.memsz \in 0..(Word - 1)

VARIABLES
    free,     \* length of kmem.freelist
    state,    \* p->state, with "exec" while a new image is being built
    kstack,   \* p->kstack # 0
    vm,       \* p->pgdir and p->sz
    new,      \* pgdir, sz and sp of exec
    argc      \* arguments exec has pushed

vars == <<free, state, kstack, vm, new, argc>>

Vpn == 0..(KERNBASE \div PGSIZE - 1)
TableOf(v) == v \div NPTENTRIES
PagesBelow(a) == (a + PGSIZE - 1) \div PGSIZE
RoundUp(a) == PagesBelow(a) * PGSIZE
Aligned(a) == a - (a % WSIZE)

(* An address space: whether it has a directory, its kernel tables, user    *)
(* tables and pages, the pages without PTE_U, the size, and the stack       *)
(* pointer exec has set.                                                    *)
NoVm == [dir |-> FALSE, kern |-> 0, tabs |-> {}, pages |-> {}, guard |-> {}, sz |-> 0,
         esp |-> 0]

(* kinit1(), kinit2(): every page goes to the free list.                    *)
Kinit == NPAGES

(* The memory an operation works on, and how it went.                       *)
Mem(n, as) == [free |-> n, as |-> as, ok |-> "ok"]
Fail(m) == [m EXCEPT !.ok = "fail"]

(***************************************************************************)
(* vm.c                                                                    *)
(***************************************************************************)

(* walkpgdir() with alloc.                                                  *)
Walkpgdir(m, v) ==
    IF TableOf(v) \in m.as.tabs THEN m
    ELSE IF m.free = 0 THEN Fail(m)
    ELSE [m EXCEPT !.free = @ - 1, !.as.tabs = @ \cup {TableOf(v)}]

(* kalloc() of a page and mappages() of it at v; if there is no room for    *)
(* the page table the page is given back.                                   *)
PageKept(m) == m
PageFreed(m) == [m EXCEPT !.free = @ + 1]

AllocPage(m, v) ==
    IF m.ok # "ok" THEN m
    ELSE IF m.free = 0 THEN Fail(m)
    ELSE LET w == Walkpgdir([m EXCEPT !.free = @ - 1], v) IN
         IF w.ok = "fail" THEN PageFreed(w)
         ELSE IF v \in w.as.pages THEN [w EXCEPT !.ok = "panic"]
         ELSE [w EXCEPT !.as.pages = @ \cup {v}]

(* Pages from address a up to b.                                            *)
PagesIn(a, b) == PagesBelow(a)..(PagesBelow(b) - 1)

(* The loops of allocuvm() and copyuvm() over these pages.                  *)
AllocPages(m, a, b) ==
    LET n == PagesBelow(b) - PagesBelow(a)
        mem[i \in 0..n] == IF i = 0 THEN m ELSE AllocPage(mem[i - 1], PagesBelow(a) + i - 1)
    IN mem[n]

Deallocuvm(m, oldsz, newsz) ==
    LET gone == m.as.pages \cap PagesIn(newsz, oldsz)
    IN [m EXCEPT !.free = @ + Cardinality(gone), !.as.pages = @ \ gone]

(* allocuvm() out of memory: free what it has allocated.                    *)
HalfDone(m, oldsz, newsz) == m
Rollback(m, oldsz, newsz) == Deallocuvm(m, newsz, oldsz)

OverLimit(newsz) == newsz >= KERNBASE

(* The memory after allocuvm(), and what it returns: 0 if it fails.         *)
Allocuvm(m, oldsz, newsz) ==
    IF OverLimit(newsz) THEN [m |-> m, ret |-> 0]
    ELSE IF newsz < oldsz THEN [m |-> m, ret |-> oldsz]
    ELSE LET r == AllocPages(m, oldsz, newsz) IN
         IF r.ok = "fail"
         THEN [m |-> [Rollback(r, oldsz, newsz) EXCEPT !.ok = "ok"], ret |-> 0]
         ELSE [m |-> r, ret |-> newsz]

(* freevm(): user pages, page tables and the directory.                     *)
Freevm(n, as) ==
    n + Cardinality(as.pages) + Cardinality(as.tabs) + as.kern + 1

(* setupkvm(): a directory and the kernel's tables, or nothing.             *)
Setupkvm(n) ==
    IF n = 0 THEN Fail(Mem(n, NoVm))
    ELSE LET tabs == Min({n - 1, KTABS})
             as == [NoVm EXCEPT !.dir = TRUE, !.kern = tabs]
         IN IF tabs < KTABS THEN Fail(Mem(Freevm(n - 1 - tabs, as), NoVm))
            ELSE Mem(n - 1 - tabs, as)

(* copyuvm(): a copy of every page below sz, or nothing.                    *)
Copyuvm(n, as) ==
    LET d == Setupkvm(n)
        c == AllocPages(d, 0, as.sz)
    IN IF d.ok = "fail" THEN d
       ELSE IF ~(PagesIn(0, as.sz) \subseteq as.pages) THEN [d EXCEPT !.ok = "panic"]
       ELSE IF c.ok = "fail" THEN Fail(Mem(Freevm(c.free, c.as), NoVm))
       ELSE [c EXCEPT !.as.guard = as.guard \cap c.as.pages, !.as.sz = as.sz,
                      !.as.esp = as.esp]

(* uva2ka(): a user page that is present with PTE_U, or none.  Without a    *)
(* page table walkpgdir() returns 0, and uva2ka() reads its entry at        *)
(* address 0, which is the code of the running program.                     *)
HasTable(as, v) == TableOf(v) \in IF v \in Vpn THEN as.tabs ELSE KernTabs

PresentIsEnough(as, v) ==
    IF ~HasTable(as, v) THEN "wild" ELSE IF v \in as.pages THEN "page" ELSE "none"

Uva2ka(as, v) ==
    IF ~HasTable(as, v) THEN "wild" ELSE IF v \in as.pages \ as.guard THEN "page" ELSE "none"

(* The pages copyout() of len bytes at va goes through, in order: addresses *)
(* wrap around.                                                             *)
Visited(va, len) ==
    [i \in 0..(PagesBelow((va % PGSIZE) + len) - 1) |->
        (va \div PGSIZE + i) % (Word \div PGSIZE)]

(* What copyout() can come to: the first page that is not a user page stops *)
(* it, unless the code at address 0 reads as an entry that is present with  *)
(* PTE_U: then it writes to the page that word names.                       *)
Copyout(as, va, len) ==
    LET page == Visited(va, len)
        stops == {i \in DOMAIN page : Uva2ka(as, page[i]) # "page"}
    IN IF stops = {} THEN {"ok"}
       ELSE IF Uva2ka(as, page[Min(stops)]) = "none" THEN {"fail"}
       ELSE {"fail", "stray"}

(***************************************************************************)
(* Processes.                                                              *)
(***************************************************************************)
Init ==
    LET k == Setupkvm(Kinit - 1)           \* allocproc() took the stack
        u == AllocPage(k, 0)               \* inituvm()
    IN /\ free = u.free
       /\ vm = [p \in Slot |-> IF p = FirstProc THEN [u.as EXCEPT !.sz = PGSIZE]
                               ELSE NoVm]
       /\ state = [p \in Slot |-> IF p = FirstProc THEN "running" ELSE "unused"]
       /\ kstack = [p \in Slot |-> p = FirstProc]
       /\ new = [p \in Slot |-> NoVm]
       /\ argc = [p \in Slot |-> 0]

(* allocproc(): a slot and a kernel stack, or failure.                      *)
ForkAlloc(p, c) ==
    /\ state[p] = "running" /\ state[c] = "unused"
    /\ free > 0
    /\ free' = free - 1
    /\ state' = [state EXCEPT ![c] = "embryo"]
    /\ kstack' = [kstack EXCEPT ![c] = TRUE]
    /\ UNCHANGED <<vm, new, argc>>

(* The rest of fork(): copyuvm(), and its failure path.                     *)
ForkCopy(p, c) ==
    /\ state[p] = "running" /\ state[c] = "embryo"
    /\ LET r == Copyuvm(free, vm[p]) IN
       \/ /\ r.ok = "ok"
          /\ free' = r.free
          /\ vm' = [vm EXCEPT ![c] = r.as]
          /\ state' = [state EXCEPT ![c] = "running"]
          /\ UNCHANGED <<kstack, new, argc>>
       \/ /\ r.ok = "fail"
          /\ free' = r.free + 1
          /\ kstack' = [kstack EXCEPT ![c] = FALSE]
          /\ state' = [state EXCEPT ![c] = "unused"]
          /\ UNCHANGED <<vm, new, argc>>

(* sbrk(), growproc(): on failure p->sz stays.  A process that has freed    *)
(* its own code faults as soon as it returns.                               *)
Sbrk(p, n) ==
    /\ state[p] = "running"
    /\ LET sz == vm[p].sz
           newsz == (sz + n) % Word
           a == Allocuvm(Mem(free, vm[p]), sz, newsz)
           d == IF newsz >= sz THEN Mem(free, vm[p])
                ELSE Deallocuvm(Mem(free, vm[p]), sz, newsz)
           r == IF n > 0 THEN a
                ELSE [m |-> d, ret |-> IF newsz >= sz THEN sz ELSE newsz]
       IN /\ free' = r.m.free
          /\ vm' = [vm EXCEPT ![p] = [r.m.as EXCEPT !.sz = IF r.ret = 0 THEN sz ELSE r.ret,
                                                    !.guard = @ \cap r.m.as.pages]]
          /\ state' = [state EXCEPT ![p] = CASE r.m.ok = "panic" -> "panic"
                                             [] n < 0 /\ r.ret = 0 -> "faulty"
                                             [] OTHER -> "running"]
    /\ UNCHANGED <<kstack, new, argc>>

(***************************************************************************)
(* exec()                                                                  *)
(***************************************************************************)

(* bad: give up the new image and go on with the old one.                   *)
ExecBad(p, m) ==
    /\ free' = Freevm(m.free, m.as)
    /\ new' = [new EXCEPT ![p] = NoVm]
    /\ state' = [state EXCEPT ![p] = "running"]
    /\ argc' = [argc EXCEPT ![p] = 0]
    /\ UNCHANGED <<kstack, vm>>

ExecStart(p) ==
    /\ state[p] = "running"
    /\ LET k == Setupkvm(free) IN
       /\ k.ok = "ok"
       /\ free' = k.free
       /\ new' = [new EXCEPT ![p] = k.as]
       /\ state' = [state EXCEPT ![p] = "exec"]
    /\ UNCHANGED <<kstack, vm, argc>>

(* One program header; reading the file may fail too.                       *)
ExecLoad(p, s) ==
    /\ state[p] = "exec" /\ new[p].guard = {}
    /\ LET end == (s.vaddr + s.memsz) % Word
           r == Allocuvm(Mem(free, new[p]), new[p].sz, end)
       IN \/ /\ end < s.vaddr
             /\ ExecBad(p, Mem(free, new[p]))
          \/ /\ end >= s.vaddr
             /\ ExecBad(p, r.m)
          \/ /\ end >= s.vaddr /\ r.ret # 0 /\ s.vaddr % PGSIZE = 0
             /\ free' = r.m.free
             /\ new' = [new EXCEPT ![p] = [r.m.as EXCEPT !.sz = r.ret]]
             /\ state' = [state EXCEPT ![p] = IF r.m.ok = "panic" THEN "panic" ELSE @]
             /\ UNCHANGED <<kstack, vm, argc>>

(* Two pages at the end, the first made inaccessible; sp starts at the top. *)
ExecStack(p) ==
    /\ state[p] = "exec" /\ new[p].guard = {}
    /\ LET base == RoundUp(new[p].sz)
           r == Allocuvm(Mem(free, new[p]), base, base + 2 * PGSIZE)
       IN \/ /\ r.ret = 0
             /\ ExecBad(p, r.m)
          \/ /\ r.ret # 0
             /\ free' = r.m.free
             /\ new' = [new EXCEPT ![p] = [r.m.as EXCEPT !.sz = r.ret, !.esp = r.ret,
                                                         !.guard = {base \div PGSIZE}]]
             /\ state' = [state EXCEPT ![p] = IF r.m.ok = "panic" THEN "panic" ELSE @]
             /\ UNCHANGED <<kstack, vm, argc>>

(* copyout() to the new stack does not succeed.                             *)
CopyFails(p, sp, len) ==
    \/ /\ "fail" \in Copyout(new[p], sp, len)
       /\ ExecBad(p, Mem(free, new[p]))
    \/ /\ "stray" \in Copyout(new[p], sp, len)
       /\ state' = [state EXCEPT ![p] = "stray"]
       /\ UNCHANGED <<free, kstack, vm, new, argc>>

(* One argument string.  sys_exec() took it from the caller's memory, so it *)
(* is no longer than that.                                                  *)
ExecPush(p, len) ==
    /\ state[p] = "exec" /\ new[p].guard # {}
    /\ len <= vm[p].sz
    /\ LET sp == Aligned((new[p].esp - len) % Word) IN
       \/ /\ argc[p] >= MAXARG
          /\ ExecBad(p, Mem(free, new[p]))
       \/ /\ argc[p] < MAXARG
          /\ CopyFails(p, sp, len)
       \/ /\ argc[p] < MAXARG
          /\ "ok" \in Copyout(new[p], sp, len)
          /\ new' = [new EXCEPT ![p].esp = sp]
          /\ argc' = [argc EXCEPT ![p] = @ + 1]
          /\ UNCHANGED <<free, state, kstack, vm>>

(* The return address, argc, argv and its pointers, and the commit.         *)
ExecCommit(p) ==
    /\ state[p] = "exec" /\ new[p].guard # {}
    /\ LET len == (3 + argc[p] + 1) * WSIZE
           sp == (new[p].esp - len) % Word
       IN \/ CopyFails(p, sp, len)
          \/ /\ "ok" \in Copyout(new[p], sp, len)
             /\ free' = Freevm(free, vm[p])
             /\ vm' = [vm EXCEPT ![p] = [new[p] EXCEPT !.esp = sp]]
             /\ new' = [new EXCEPT ![p] = NoVm]
             /\ state' = [state EXCEPT ![p] = "running"]
             /\ argc' = [argc EXCEPT ![p] = 0]
             /\ UNCHANGED kstack

(* exit(), by itself or after a fault, and wait() of the parent.            *)
Exit(p) ==
    /\ p # FirstProc /\ state[p] \in {"running", "faulty"}
    /\ state' = [state EXCEPT ![p] = "zombie"]
    /\ UNCHANGED <<free, kstack, vm, new, argc>>

Reap(p) ==
    /\ state[p] = "zombie"
    /\ free' = Freevm(free + 1, vm[p])
    /\ state' = [state EXCEPT ![p] = "unused"]
    /\ kstack' = [kstack EXCEPT ![p] = FALSE]
    /\ vm' = [vm EXCEPT ![p] = NoVm]
    /\ UNCHANGED <<new, argc>>

(* After a stray write anything may happen: the model stops there.          *)
Next ==
    /\ \A p \in Slot : state[p] # "stray"
    /\ \E p \in Slot :
       \/ \E c \in Slot : ForkAlloc(p, c) \/ ForkCopy(p, c)
       \/ \E n \in SbrkArgs : Sbrk(p, n)
       \/ ExecStart(p) \/ (\E s \in Segments : ExecLoad(p, s))
       \/ ExecStack(p) \/ (\E len \in ArgLens : ExecPush(p, len)) \/ ExecCommit(p)
       \/ Exit(p) \/ Reap(p)

Spec == Init /\ [][Next]_vars

(***************************************************************************)
(* Properties.                                                             *)
(***************************************************************************)
VmType == [dir : BOOLEAN, kern : 0..KTABS, tabs : SUBSET {TableOf(v) : v \in Vpn},
           pages : SUBSET Vpn, guard : SUBSET Vpn, sz : 0..(KERNBASE - 1),
           esp : 0..(Word - 1)]

(* Every variable has its type; in particular no size reaches KERNBASE.     *)
TypeOK ==
    /\ free \in 0..NPAGES
    /\ state \in [Slot -> {"unused", "embryo", "running", "exec", "faulty", "zombie",
                           "panic", "stray"}]
    /\ kstack \in [Slot -> BOOLEAN]
    /\ vm \in [Slot -> VmType] /\ new \in [Slot -> VmType]
    /\ argc \in [Slot -> 0..MAXARG]

PagesOf(as) ==
    IF as.dir THEN 1 + as.kern + Cardinality(as.tabs) + Cardinality(as.pages) ELSE 0

PagesHeld(p) == PagesOf(vm[p]) + PagesOf(new[p]) + (IF kstack[p] THEN 1 ELSE 0)

(* The pages processes hold, each numbered among those of its owner.        *)
Held == UNION {{p} \X (1..PagesHeld(p)) : p \in Slot}

(* Every page is free or has one owner: the paths on which kalloc() fails   *)
(* half way through fork, sbrk or exec leak no page and free none twice.    *)
PagesAccounted ==
    /\ TypeOK
    /\ free + Cardinality(Held) = NPAGES

(* Exactly the pages below p->sz are mapped, and in exec those below sz, so *)
(* that sbrk never maps a page twice (panic "remap") and fork finds every   *)
(* page (panic "page not present"), after any sequence of calls that grow   *)
(* and shrink by less than a page and fail at any point.                    *)
SizeMapped ==
    \A p \in Slot :
       /\ state[p] # "panic"
       /\ state[p] \in {"running", "exec"} => vm[p].pages = PagesIn(0, vm[p].sz)
       /\ state[p] = "exec" => new[p].pages = PagesIn(0, new[p].sz)

(* What exec() has pushed lies in the stack page of the new image, each     *)
(* string and at last the argument list below the one before: an argument   *)
(* that is too long, also one that takes sp below 0 to the top of the       *)
(* address space, is stopped on its way up by the guard page, where         *)
(* uva2ka() finds no PTE_U, whatever the program below it looks like.       *)
InStack(as) == as.sz - PGSIZE <= as.esp /\ as.esp <= as.sz

ArgsAboveGuard ==
    [][\A p \in Slot : state[p] = "exec" =>
          /\ vm'[p] # vm[p] => InStack(vm'[p]) /\ vm'[p].esp < new[p].esp
          /\ new[p].guard # {} /\ state'[p] = "exec" /\ new'[p] # new[p]
             => InStack(new'[p]) /\ new'[p].esp < new[p].esp]_vars
===========================================================================
