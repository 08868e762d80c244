------------------------------ MODULE VmProofs -----------------------------
(***************************************************************************)
(* Proofs about Vm, for any number of processes and pages, any page size   *)
(* and any set of programs and sbrk arguments.                             *)
(***************************************************************************)
EXTENDS Vm, FiniteSetTheorems, WellFoundedInduction, NaturalsInduction, TLAPS

(***************************************************************************)
(* The inductive invariant.                                                *)
(***************************************************************************)

(* What a process holds follows from its state.                             *)
Shapes ==
    \A p \in Slot :
       /\ kstack[p] <=> state[p] # "unused"
       /\ vm[p].dir <=> state[p] \notin {"unused", "embryo"}
       /\ new[p].dir <=> state[p] \in {"exec", "stray"}

VmInv == PagesAccounted /\ Shapes /\ SizeMapped

LEMMA VmFacts ==
    /\ FirstProc \in Slot /\ IsFiniteSet(Slot)
    /\ NPAGES \in Nat /\ PGSIZE \in Nat /\ PGSIZE > 0
    /\ NPTENTRIES \in Nat /\ NPTENTRIES > 0 /\ KTABS \in Nat /\ KTABS > 0
    /\ NPAGES >= KTABS + 4
    /\ KERNBASE \in Nat /\ KERNBASE > PGSIZE /\ Word \in Nat /\ Word > KERNBASE
    /\ WSIZE \in Nat /\ WSIZE > 0 /\ MAXARG \in Nat /\ (MAXARG + 4) * WSIZE <= PGSIZE
    /\ SbrkArgs \subseteq Int /\ ArgLens \subseteq Nat \ {0}
    /\ \A s \in Segments : s.vaddr \in 0..(Word - 1) /\ s.memsz \in 0..(Word - 1)
BY VmAssumption

(***************************************************************************)
(* Pages and addresses.                                                    *)
(***************************************************************************)
LEMMA DivIs ==
    ASSUME NEW a \in Nat, NEW d \in Nat, d > 0
    PROVE  /\ a \div d \in Nat /\ a = d * (a \div d) + (a % d)
           /\ a % d \in Nat /\ a % d < d
           /\ d * (a \div d) <= a /\ a < d * (a \div d) + d
<1>1. a = d * (a \div d) + (a % d) /\ a % d \in 0..(d - 1)
  OBVIOUS
<1>2. a \div d \in Int /\ a \div d >= 0
  OBVIOUS
<1>3. d * (a \div d) \in Nat
  BY <1>2
<1> QED BY <1>1, <1>2, <1>3

(* Multiples are ordered as their factors.                                  *)
LEMMA TimesMonotone ==
    ASSUME NEW d \in Nat, d > 0, NEW i \in Int, NEW j \in Int
    PROVE  d * i < d * j + d => i <= j
<1>1. SUFFICES ASSUME i >= j + 1 PROVE d * i >= d * j + d
  <2>1. d * i \in Int /\ d * j \in Int
    OBVIOUS
  <2> QED BY <2>1
<1>2. PICK k \in Nat : i = j + 1 + k
  <2>1. i - (j + 1) \in Nat
    BY <1>1
  <2> QED BY <2>1
<1>3. d * i = d * j + d + d * k /\ d * k >= 0
  BY <1>2
<1>4. d * i \in Int /\ d * j \in Int
  OBVIOUS
<1> QED BY <1>2, <1>3, <1>4

(* a div d is the only k with a between k * d and (k + 1) * d.              *)
LEMMA DivUnique ==
    ASSUME NEW a \in Nat, NEW d \in Nat, d > 0, NEW k \in Int, d * k <= a, a < d * k + d
    PROVE  a \div d = k
<1> DEFINE q == a \div d
<1>1. q \in Nat /\ d * q <= a /\ a < d * q + d
  BY DivIs
<1> HIDE DEF q
<1>2. d * q \in Int /\ d * k \in Int
  BY <1>1
<1>3. q <= k
  BY <1>1, <1>2, TimesMonotone
<1>4. k <= q
  BY <1>1, <1>2, TimesMonotone
<1>5. q = k
  BY <1>1, <1>3, <1>4
<1> QED BY <1>5 DEF q

(* PagesBelow(a) pages reach up to a, one fewer does not.                   *)
LEMMA PagesBelowIs ==
    ASSUME NEW a \in Nat
    PROVE  /\ PagesBelow(a) \in Nat
           /\ a <= PGSIZE * PagesBelow(a) /\ PGSIZE * PagesBelow(a) < a + PGSIZE
<1>1. PGSIZE \in Nat /\ PGSIZE > 0 /\ a + PGSIZE - 1 \in Nat
  BY VmFacts
<1>2. PICK s \in Nat : s = a + PGSIZE - 1
  BY <1>1
<1>3. /\ s \div PGSIZE \in Nat /\ PGSIZE * (s \div PGSIZE) <= s
      /\ s < PGSIZE * (s \div PGSIZE) + PGSIZE
  BY <1>1, DivIs
<1>4. PagesBelow(a) = s \div PGSIZE
  BY <1>2 DEF PagesBelow
<1>5. PGSIZE * (s \div PGSIZE) \in Nat
  BY <1>1, <1>3
<1> QED BY <1>1, <1>2, <1>3, <1>4, <1>5

LEMMA PagesBelowUnique ==
    ASSUME NEW a \in Nat, NEW k \in Nat, a <= PGSIZE * k, PGSIZE * k < a + PGSIZE
    PROVE  PagesBelow(a) = k
<1>1. /\ PagesBelow(a) \in Nat
      /\ a <= PGSIZE * PagesBelow(a) /\ PGSIZE * PagesBelow(a) < a + PGSIZE
  BY PagesBelowIs
<1>2. PGSIZE \in Nat /\ PGSIZE > 0
  BY VmFacts
<1>3. PICK n \in Nat : n = PagesBelow(a)
  BY <1>1
<1>4. a <= PGSIZE * n /\ PGSIZE * n < a + PGSIZE
  BY <1>1, <1>3
<1>5. PGSIZE * k \in Nat /\ PGSIZE * n \in Nat
  BY <1>2
<1>6. PGSIZE * n < PGSIZE * k + PGSIZE /\ PGSIZE * k < PGSIZE * n + PGSIZE
  BY <1>2, <1>4, <1>5
<1>7. n <= k /\ k <= n
  BY <1>2, <1>6, TimesMonotone
<1> QED BY <1>3, <1>7

LEMMA PagesBelowOrder ==
    /\ PagesBelow(0) = 0
    /\ \A a, b \in Nat : a <= b => PagesBelow(a) <= PagesBelow(b)
<1>1. PGSIZE \in Nat /\ PGSIZE > 0
  BY VmFacts
<1>2. PagesBelow(0) = 0
  <2>1. PGSIZE * 0 = 0
    BY <1>1
  <2> QED BY <1>1, <2>1, PagesBelowUnique
<1>3. ASSUME NEW a \in Nat, NEW b \in Nat, a <= b PROVE PagesBelow(a) <= PagesBelow(b)
  <2>1. PICK i \in Nat : i = PagesBelow(a) /\ PGSIZE * i < a + PGSIZE
    BY PagesBelowIs
  <2>2. PICK j \in Nat : j = PagesBelow(b) /\ b <= PGSIZE * j
    BY PagesBelowIs
  <2>3. PGSIZE * i \in Nat /\ PGSIZE * j \in Nat
    BY <1>1
  <2>4. PGSIZE * i < PGSIZE * j + PGSIZE
    BY <1>1, <1>3, <2>1, <2>2, <2>3
  <2> QED BY <1>1, <2>1, <2>2, <2>4, TimesMonotone
<1> QED BY <1>2, <1>3

(* User addresses lie in user pages.                                        *)
LEMMA KernbaseAligned == KERNBASE = PGSIZE * (KERNBASE \div PGSIZE)
<1>1. PGSIZE \in Nat /\ PGSIZE > 0 /\ NPTENTRIES \in Nat /\ NPTENTRIES > 0 /\ KERNBASE \in Nat
  BY VmFacts
<1>2. PICK t \in Nat : t = PGSIZE * NPTENTRIES /\ t > 0
  BY <1>1
<1>3. KERNBASE % t = 0
  BY <1>2, VmAssumption
<1>4. PICK k \in Nat : k = KERNBASE \div t /\ KERNBASE = t * k + 0
  BY <1>1, <1>2, <1>3, DivIs
<1>5. PICK j \in Nat : j = NPTENTRIES * k
  BY <1>1, <1>4
<1>6. KERNBASE = PGSIZE * j
  <2>1. t * k = PGSIZE * (NPTENTRIES * k)
    BY <1>1, <1>2, <1>4
  <2>2. t * k + 0 = t * k
    BY <1>2, <1>4
  <2> QED BY <1>4, <1>5, <2>1, <2>2
<1>7. KERNBASE \div PGSIZE = j
  BY <1>1, <1>6, DivUnique
<1> QED BY <1>6, <1>7

LEMMA UserPages ==
    /\ \A a \in Nat : a < KERNBASE => PagesBelow(a) <= KERNBASE \div PGSIZE
    /\ KERNBASE \div PGSIZE \in Nat /\ KERNBASE \div PGSIZE >= 1
<1>1. PGSIZE \in Nat /\ PGSIZE > 0 /\ KERNBASE \in Nat /\ KERNBASE > PGSIZE
  BY VmFacts
<1>2. PICK j \in Nat : j = KERNBASE \div PGSIZE /\ KERNBASE = PGSIZE * j
  BY <1>1, KernbaseAligned, DivIs
<1>3. ASSUME NEW a \in Nat, a < KERNBASE PROVE PagesBelow(a) <= j
  <2>1. PICK i \in Nat : i = PagesBelow(a) /\ PGSIZE * i < a + PGSIZE
    BY PagesBelowIs
  <2>2. PGSIZE * i \in Nat /\ PGSIZE * j \in Nat
    BY <1>1
  <2>3. PGSIZE * i < PGSIZE * j + PGSIZE
    BY <1>1, <1>2, <1>3, <2>1, <2>2
  <2> QED BY <1>1, <2>1, <2>3, TimesMonotone
<1>4. j >= 1
  <2>1. j = 0 => PGSIZE * j = 0
    BY <1>1
  <2> QED BY <1>1, <1>2, <2>1
<1> QED BY <1>2, <1>3, <1>4

LEMMA PagesInVpn ==
    ASSUME NEW a \in Nat, NEW b \in Nat, b < KERNBASE
    PROVE  PagesIn(a, b) \subseteq Vpn /\ PagesIn(a, b) \subseteq Nat
<1>1. PagesBelow(a) \in Nat /\ PagesBelow(b) \in Nat
  BY PagesBelowIs
<1>2. PagesBelow(b) <= KERNBASE \div PGSIZE /\ KERNBASE \div PGSIZE \in Nat
  BY UserPages
<1> QED BY <1>1, <1>2 DEF PagesIn, Vpn

(* The pages below c, split at a.                                           *)
LEMMA PagesSplit ==
    ASSUME NEW a \in Nat, NEW c \in Nat, a <= c
    PROVE  /\ PagesIn(0, c) = PagesIn(0, a) \cup PagesIn(a, c)
           /\ PagesIn(0, a) \cap PagesIn(a, c) = {}
<1>1. PagesBelow(a) \in Nat /\ PagesBelow(c) \in Nat
  BY PagesBelowIs
<1>2. PagesBelow(0) = 0 /\ PagesBelow(a) <= PagesBelow(c)
  BY PagesBelowOrder
<1> QED BY <1>1, <1>2 DEF PagesIn

LEMMA RoundUpIs ==
    ASSUME NEW a \in Nat
    PROVE  /\ RoundUp(a) \in Nat /\ PagesBelow(RoundUp(a)) = PagesBelow(a)
           /\ RoundUp(a) \div PGSIZE = PagesBelow(a)
           /\ a <= RoundUp(a)
           /\ PGSIZE * PagesBelow(a) = RoundUp(a)
<1>1. PGSIZE \in Nat /\ PGSIZE > 0
  BY VmFacts
<1>2. PICK k \in Nat : k = PagesBelow(a) /\ a <= PGSIZE * k
  BY PagesBelowIs
<1>3. RoundUp(a) = PGSIZE * k
  BY <1>1, <1>2 DEF RoundUp
<1>4. PGSIZE * k \in Nat
  BY <1>1
<1>5. PagesBelow(PGSIZE * k) = k
  BY <1>1, <1>4, PagesBelowUnique
<1>6. (PGSIZE * k) \div PGSIZE = k
  BY <1>1, <1>4, DivUnique
<1> QED BY <1>2, <1>3, <1>4, <1>5, <1>6
(***************************************************************************)
(* The operators on memory: none loses or duplicates a page.               *)
(***************************************************************************)
MemType == [free : Nat, as : VmType, ok : {"ok", "fail", "panic"}]

(* What no allocation or deallocation touches.                              *)
SameRest(s, t) == /\ t.dir = s.dir /\ t.kern = s.kern /\ t.guard = s.guard
                  /\ t.sz = s.sz /\ t.esp = s.esp

LEMMA VpnFinite == IsFiniteSet(Vpn) /\ Vpn \subseteq Nat /\ 0 \in Vpn
<1>1. KERNBASE \div PGSIZE \in Nat /\ KERNBASE \div PGSIZE >= 1
  BY UserPages
<1>2. IsFiniteSet(0..(KERNBASE \div PGSIZE - 1))
  BY <1>1, FS_Interval
<1> QED BY <1>1, <1>2 DEF Vpn

LEMMA TablesFinite ==
    ASSUME NEW T, T \subseteq {TableOf(v) : v \in Vpn}
    PROVE  IsFiniteSet(T) /\ Cardinality(T) \in Nat
<1> DEFINE All == {TableOf(v) : v \in Vpn}
<1> DEFINE f == [v \in Vpn |-> TableOf(v)]
<1>1. f \in Surjection(Vpn, All)
  BY DEF Surjection
<1>2. IsFiniteSet(All)
  <2> HIDE DEF All, f
  <2> QED BY <1>1, VpnFinite, FS_Surjection
<1>3. T \in SUBSET All
  OBVIOUS
<1> QED
  <2> HIDE DEF All
  <2> QED BY <1>2, <1>3, FS_Subset, FS_CardinalityType

LEMMA VpnSubset ==
    ASSUME NEW S, S \subseteq Vpn
    PROVE  IsFiniteSet(S) /\ Cardinality(S) \in Nat
<1>1. S \in SUBSET Vpn
  OBVIOUS
<1> QED BY <1>1, VpnFinite, FS_Subset, FS_CardinalityType

(* Address spaces, field by field.                                          *)
LEMMA VmFields ==
    ASSUME NEW x \in VmType
    PROVE  /\ x.dir \in BOOLEAN /\ x.kern \in 0..KTABS /\ x.kern \in Nat
           /\ x.tabs \subseteq {TableOf(v) : v \in Vpn}
           /\ x.pages \subseteq Vpn /\ x.guard \subseteq Vpn
           /\ x.sz \in 0..(KERNBASE - 1) /\ x.sz \in Nat /\ x.esp \in 0..(Word - 1)
           /\ x = [dir |-> x.dir, kern |-> x.kern, tabs |-> x.tabs,
                    pages |-> x.pages, guard |-> x.guard, sz |-> x.sz,
                    esp |-> x.esp]
<1>1. x.dir \in BOOLEAN
  BY Zenon DEF VmType
<1>2. x.kern \in 0..KTABS /\ x.sz \in 0..(KERNBASE - 1) /\ x.esp \in 0..(Word - 1)
  BY Zenon DEF VmType
<1>3. /\ x.tabs \subseteq {TableOf(v) : v \in Vpn}
      /\ x.pages \subseteq Vpn /\ x.guard \subseteq Vpn
  BY DEF VmType
<1>4. x = [dir |-> x.dir, kern |-> x.kern, tabs |-> x.tabs, pages |-> x.pages,
            guard |-> x.guard, sz |-> x.sz, esp |-> x.esp]
  BY DEF VmType
<1>5. KTABS \in Nat /\ KERNBASE \in Nat
  BY VmFacts
<1>6. x.kern \in Nat /\ x.sz \in Nat
  BY <1>2, <1>5
<1> QED BY <1>1, <1>2, <1>3, <1>4, <1>6

LEMMA VmMake ==
    ASSUME NEW d \in BOOLEAN, NEW k \in 0..KTABS, NEW t \in SUBSET {TableOf(v) : v \in Vpn},
           NEW pg \in SUBSET Vpn, NEW g \in SUBSET Vpn, NEW s \in 0..(KERNBASE - 1),
           NEW e \in 0..(Word - 1)
    PROVE  [dir |-> d, kern |-> k, tabs |-> t, pages |-> pg, guard |-> g, sz |-> s,
            esp |-> e] \in VmType
BY Zenon DEF VmType

(* The fields that are set apart from the pages.                            *)
Updated(x, y, g, s, e) ==
    y = [dir |-> x.dir, kern |-> x.kern, tabs |-> x.tabs, pages |-> x.pages, guard |-> g,
         sz |-> s, esp |-> e]

LEMMA ExceptUpdates ==
    ASSUME NEW x \in VmType, NEW g, NEW s, NEW e,
           NEW y, \/ y = [x EXCEPT !.guard = g, !.sz = s, !.esp = e]
                  \/ y = [x EXCEPT !.sz = s, !.esp = e, !.guard = g]
                  \/ y = [x EXCEPT !.sz = s, !.guard = g] /\ e = x.esp
                  \/ y = [x EXCEPT !.sz = s] /\ g = x.guard /\ e = x.esp
                  \/ y = [x EXCEPT !.esp = e] /\ g = x.guard /\ s = x.sz
    PROVE  Updated(x, y, g, s, e)
<1>1. x = [dir |-> x.dir, kern |-> x.kern, tabs |-> x.tabs, pages |-> x.pages,
           guard |-> x.guard, sz |-> x.sz, esp |-> x.esp]
  BY VmFields
<1>2. PICK d, k, t, pg, g0, s0, e0 :
         x = [dir |-> d, kern |-> k, tabs |-> t, pages |-> pg, guard |-> g0, sz |-> s0,
              esp |-> e0]
  BY <1>1
<1>3. /\ d = x.dir /\ k = x.kern /\ t = x.tabs /\ pg = x.pages /\ g0 = x.guard
      /\ s0 = x.sz /\ e0 = x.esp
  BY <1>2
<1>4. y = [dir |-> d, kern |-> k, tabs |-> t, pages |-> pg, guard |-> g, sz |-> s,
           esp |-> e]
  BY <1>2, <1>3
<1> QED BY <1>3, <1>4 DEF Updated

Kept(x, y) == y.dir = x.dir /\ y.pages = x.pages /\ PagesOf(y) = PagesOf(x)

LEMMA VmUpdate ==
    ASSUME NEW x \in VmType, NEW g \in SUBSET Vpn, NEW s \in 0..(KERNBASE - 1), NEW e \in 0..(Word - 1),
           NEW y, Updated(x, y, g, s, e)
    PROVE  y \in VmType /\ Kept(x, y) /\ y.sz = s /\ y.guard = g /\ y.esp = e
<1>3. PICK d, k, t, pg : d = x.dir /\ k = x.kern /\ t = x.tabs /\ pg = x.pages
  OBVIOUS
<1>4. y = [dir |-> d, kern |-> k, tabs |-> t, pages |-> pg, guard |-> g, sz |-> s,
           esp |-> e]
  BY <1>3 DEF Updated
<1>5. /\ d \in BOOLEAN /\ k \in 0..KTABS /\ t \in SUBSET {TableOf(v) : v \in Vpn}
      /\ pg \in SUBSET Vpn
  BY <1>3, VmFields
<1>6. y \in VmType
  BY <1>4, <1>5, VmMake
<1>7. /\ y.dir = d /\ y.kern = k /\ y.tabs = t /\ y.pages = pg /\ y.sz = s
      /\ y.guard = g /\ y.esp = e
  BY <1>4
<1>8. PagesOf(y) = PagesOf(x)
  BY <1>3, <1>7, Zenon DEF PagesOf
<1>9. Kept(x, y)
  BY <1>3, <1>7, <1>8 DEF Kept
<1> QED BY <1>6, <1>7, <1>9

LEMMA MemMake ==
    ASSUME NEW n \in Nat, NEW x \in VmType, NEW k \in {"ok", "fail", "panic"}
    PROVE  [free |-> n, as |-> x, ok |-> k] \in MemType
BY Zenon DEF MemType

LEMMA PagesOfNat == ASSUME NEW x \in VmType PROVE PagesOf(x) \in Nat
<1>1. Cardinality(x.tabs) \in Nat
  BY TablesFinite, VmFields
<1>2. Cardinality(x.pages) \in Nat
  BY VpnSubset, VmFields
<1>3. x.kern \in Nat
  BY VmFields
<1>4. CASE x.dir
  BY <1>1, <1>2, <1>3, <1>4 DEF PagesOf
<1>5. CASE ~x.dir
  BY <1>5 DEF PagesOf
<1> QED BY <1>4, <1>5

LEMMA WalkpgdirKeeps ==
    ASSUME NEW m \in MemType, m.as.dir, m.ok = "ok", NEW v \in Vpn, NEW w,
           w = Walkpgdir(m, v)
    PROVE  /\ w \in MemType /\ w.ok \in {"ok", "fail"}
           /\ SameRest(m.as, w.as) /\ w.as.pages = m.as.pages
           /\ w.free + PagesOf(w.as) = m.free + PagesOf(m.as)
<1>1. /\ m.free \in Nat /\ m.as \in VmType /\ m.ok \in {"ok", "fail", "panic"}
      /\ m = [free |-> m.free, as |-> m.as, ok |-> m.ok]
  BY DEF MemType
<1>2. CASE TableOf(v) \in m.as.tabs
  BY <1>1, <1>2 DEF Walkpgdir, SameRest
<1>3. CASE TableOf(v) \notin m.as.tabs /\ m.free = 0
  <2>1. w = [m EXCEPT !.ok = "fail"]
    BY <1>3 DEF Walkpgdir, Fail
  <2> QED BY <1>1, <2>1 DEF SameRest, MemType
<1>4. CASE TableOf(v) \notin m.as.tabs /\ m.free # 0
  <2>1. w = [m EXCEPT !.free = @ - 1, !.as.tabs = @ \cup {TableOf(v)}]
    BY <1>4 DEF Walkpgdir
  <2>2. /\ w.free = m.free - 1 /\ w.as = [m.as EXCEPT !.tabs = @ \cup {TableOf(v)}]
        /\ w.ok = "ok" /\ w = [free |-> w.free, as |-> w.as, ok |-> w.ok]
    BY <1>1, <2>1
  <2>3. /\ w.as.tabs = m.as.tabs \cup {TableOf(v)} /\ w.as.pages = m.as.pages
        /\ SameRest(m.as, w.as)
        /\ w.as = [dir |-> m.as.dir, kern |-> m.as.kern, tabs |-> w.as.tabs,
                   pages |-> m.as.pages, guard |-> m.as.guard, sz |-> m.as.sz,
                   esp |-> m.as.esp]
    BY <1>1, <2>2 DEF VmType, SameRest
  <2>4. w.as \in VmType
    <3>1. w.as.tabs \in SUBSET {TableOf(u) : u \in Vpn}
      BY <1>1, <2>3, VmFields
    <3>2. /\ m.as.dir \in BOOLEAN /\ m.as.kern \in 0..KTABS
          /\ m.as.pages \in SUBSET Vpn /\ m.as.guard \in SUBSET Vpn
          /\ m.as.sz \in 0..(KERNBASE - 1) /\ m.as.esp \in 0..(Word - 1)
      BY <1>1, VmFields
    <3>3. [dir |-> m.as.dir, kern |-> m.as.kern, tabs |-> w.as.tabs, pages |-> m.as.pages,
           guard |-> m.as.guard, sz |-> m.as.sz, esp |-> m.as.esp] \in VmType
      BY <3>1, <3>2, VmMake
    <3> QED BY <2>3, <3>3
  <2>5. w \in MemType
    <3>1. w.free \in Nat /\ w.ok \in {"ok", "fail", "panic"}
      BY <1>1, <1>4, <2>2
    <3>2. [free |-> w.free, as |-> w.as, ok |-> w.ok] \in MemType
      BY <2>4, <3>1, MemMake, Zenon
    <3>3. w = [free |-> w.free, as |-> w.as, ok |-> w.ok]
      BY <2>2
    <3> QED BY <3>2, <3>3, Zenon
  <2>6. IsFiniteSet(m.as.tabs) /\ Cardinality(m.as.tabs) \in Nat
    BY <1>1, TablesFinite, VmFields
  <2>7. Cardinality(w.as.tabs) = Cardinality(m.as.tabs) + 1
    BY <1>4, <2>3, <2>6, FS_AddElement
  <2>8. Cardinality(m.as.pages) \in Nat /\ m.as.kern \in Nat
    BY <1>1, VpnSubset, VmFields
  <2>9. w.free + PagesOf(w.as) = m.free + PagesOf(m.as)
    BY <1>1, <2>2, <2>3, <2>6, <2>7, <2>8 DEF PagesOf, SameRest
  <2> QED BY <2>2, <2>3, <2>5, <2>9
<1> QED BY <1>2, <1>3, <1>4

LEMMA AllocPageKeeps ==
    ASSUME NEW m \in MemType, m.as.dir, m.ok \in {"ok", "fail"},
           NEW v \in Vpn, v \notin m.as.pages, NEW r, r = AllocPage(m, v)
    PROVE  /\ r \in MemType /\ r.ok \in {"ok", "fail"}
           /\ SameRest(m.as, r.as)
           /\ r.free + PagesOf(r.as) = m.free + PagesOf(m.as)
           /\ m.ok = "fail" => r = m
           /\ r.ok = "fail" => r.as.pages = m.as.pages
           /\ r.ok = "ok" => r.as.pages = m.as.pages \cup {v}
<1>1. /\ m.free \in Nat /\ m.as \in VmType /\ m.ok \in {"ok", "fail", "panic"}
      /\ m = [free |-> m.free, as |-> m.as, ok |-> m.ok]
  BY DEF MemType
<1>2. CASE m.ok = "fail"
  <2>1. r = m
    BY <1>2 DEF AllocPage
  <2> QED BY <1>1, <1>2, <2>1 DEF SameRest
<1>3. CASE m.ok = "ok" /\ m.free = 0
  <2>1. r = [m EXCEPT !.ok = "fail"]
    BY <1>3 DEF AllocPage, Fail
  <2> QED BY <1>1, <1>3, <2>1 DEF SameRest, MemType
<1>4. CASE m.ok = "ok" /\ m.free # 0
  <2>1. PICK n : n = [m EXCEPT !.free = @ - 1]
    OBVIOUS
  <2>2. /\ n \in MemType /\ n.free = m.free - 1 /\ n.as = m.as /\ n.ok = "ok"
    BY <1>1, <1>4, <2>1 DEF MemType
  <2>3. PICK w : w = Walkpgdir(n, v)
    OBVIOUS
  <2>4. /\ w \in MemType /\ w.ok \in {"ok", "fail"}
        /\ SameRest(m.as, w.as) /\ w.as.pages = m.as.pages
        /\ w.free + PagesOf(w.as) = m.free - 1 + PagesOf(m.as)
    BY <2>2, <2>3, WalkpgdirKeeps
  <2>5. /\ w.free \in Nat /\ w.as \in VmType
        /\ w = [free |-> w.free, as |-> w.as, ok |-> w.ok]
        /\ PagesOf(w.as) \in Nat /\ PagesOf(m.as) \in Nat
    BY <1>1, <2>4, PagesOfNat DEF MemType
  <2>6. r = IF w.ok = "fail" THEN PageFreed(w)
            ELSE IF v \in w.as.pages THEN [w EXCEPT !.ok = "panic"]
            ELSE [w EXCEPT !.as.pages = @ \cup {v}]
    BY <1>4, <2>1, <2>3 DEF AllocPage
  <2>7. CASE w.ok = "fail"
    <3>1. r = [w EXCEPT !.free = @ + 1]
      BY <2>6, <2>7 DEF PageFreed
    <3>2. r.free = w.free + 1 /\ r.as = w.as /\ r.ok = w.ok /\ r \in MemType
      BY <2>5, <3>1, <2>4 DEF MemType
    <3>3. r.free + PagesOf(r.as) = m.free + PagesOf(m.as)
      BY <1>1, <2>4, <2>5, <3>2
    <3> QED BY <1>4, <2>4, <2>7, <3>2, <3>3
  <2>8. CASE w.ok = "ok"
    <3>1. r = [w EXCEPT !.as.pages = @ \cup {v}]
      BY <2>4, <2>6, <2>8
    <3>2. /\ r.free = w.free /\ r.as = [w.as EXCEPT !.pages = @ \cup {v}]
          /\ r.ok = "ok" /\ r = [free |-> r.free, as |-> r.as, ok |-> r.ok]
      BY <2>5, <2>8, <3>1
    <3>3. /\ r.as.pages = m.as.pages \cup {v} /\ r.as.tabs = w.as.tabs
          /\ SameRest(w.as, r.as)
          /\ r.as = [dir |-> w.as.dir, kern |-> w.as.kern, tabs |-> w.as.tabs,
                     pages |-> r.as.pages, guard |-> w.as.guard, sz |-> w.as.sz,
                     esp |-> w.as.esp]
      BY <2>4, <2>5, <3>2 DEF VmType, SameRest
    <3>4. SameRest(m.as, r.as)
      BY <2>4, <3>3 DEF SameRest
    <3>5. r.as \in VmType
      <4>1. r.as.pages \in SUBSET Vpn
        BY <1>1, <3>3, VmFields
      <4>2. /\ w.as.dir \in BOOLEAN /\ w.as.kern \in 0..KTABS
            /\ w.as.tabs \in SUBSET {TableOf(u) : u \in Vpn}
            /\ w.as.guard \in SUBSET Vpn
            /\ w.as.sz \in 0..(KERNBASE - 1) /\ w.as.esp \in 0..(Word - 1)
        BY <2>5, VmFields
      <4>3. [dir |-> w.as.dir, kern |-> w.as.kern, tabs |-> w.as.tabs,
             pages |-> r.as.pages, guard |-> w.as.guard, sz |-> w.as.sz,
             esp |-> w.as.esp] \in VmType
        BY <4>1, <4>2, VmMake
      <4> QED BY <3>3, <4>3
    <3>6. r \in MemType
      <4>1. r.free \in Nat /\ r.ok \in {"ok", "fail", "panic"}
        BY <2>5, <3>2
      <4> QED BY <3>2, <3>5, <4>1, MemMake, Zenon
    <3>7. IsFiniteSet(m.as.pages) /\ Cardinality(m.as.pages) \in Nat
      BY <1>1, VpnSubset, VmFields
    <3>8. Cardinality(r.as.pages) = Cardinality(m.as.pages) + 1
      BY <3>3, <3>7, FS_AddElement
    <3>9. Cardinality(w.as.tabs) \in Nat /\ w.as.kern \in Nat
      BY <2>5, TablesFinite, VmFields
    <3>10. PagesOf(r.as) = PagesOf(w.as) + 1
      BY <2>4, <3>3, <3>7, <3>8, <3>9 DEF PagesOf, SameRest
    <3>11. r.free + PagesOf(r.as) = m.free + PagesOf(m.as)
      BY <1>1, <2>4, <2>5, <3>2, <3>10
    <3> QED BY <1>4, <3>2, <3>3, <3>4, <3>6, <3>11
  <2> QED BY <2>4, <2>7, <2>8
<1> QED BY <1>2, <1>3, <1>4
(* Least elements, for induction on the number of pages.                    *)
LEMMA LeastOf ==
    ASSUME NEW S, S \subseteq Nat, S # {}
    PROVE  \E i \in S : \A j \in S : i <= j
<1> DEFINE Less == OpToRel(<, Nat)
<1>1. IsWellFoundedOn(Less, Nat)
  BY NatLessThanWellFounded, Zenon
<1>2. \E i \in S : \A j \in S : ~(<<j, i>> \in Less)
  <2> HIDE DEF Less
  <2> QED BY <1>1, WFMin
<1>3. PICK i \in S : \A j \in S : ~(j < i)
  BY <1>2 DEF OpToRel
<1> QED BY <1>3

(* The loop over pages has a value after each round.                        *)
IsLoop(g, n, m, v) ==
    g = [i \in 0..n |-> IF i = 0 THEN m ELSE AllocPage(g[i - 1], v + i - 1)]

LEMMA LoopExists ==
    ASSUME NEW m, NEW v, NEW k \in Nat PROVE \E g : IsLoop(g, k, m, v)
<1> DEFINE Bad == {n \in Nat : ~\E g : IsLoop(g, n, m, v)}
<1>1. SUFFICES ASSUME Bad # {} PROVE FALSE
  OBVIOUS
<1>2. PICK n \in Bad : \A j \in Bad : n <= j
  <2>1. Bad \subseteq Nat
    OBVIOUS
  <2> HIDE DEF Bad
  <2> QED BY <1>1, <2>1, LeastOf
<1>3. n \in Nat /\ ~\E g : IsLoop(g, n, m, v)
  OBVIOUS
<1>4. CASE n = 0
  <2> DEFINE h == [i \in 0..0 |-> m]
  <2>1. h = [i \in 0..0 |-> IF i = 0 THEN m ELSE AllocPage(h[i - 1], v + i - 1)]
    <3>1. \A i \in 0..0 : i = 0
      OBVIOUS
    <3> QED BY <3>1
  <2>2. IsLoop(h, n, m, v)
    <3> HIDE DEF h
    <3> QED BY <1>4, <2>1 DEF IsLoop
  <2> QED BY <1>3, <2>2
<1>5. CASE n # 0
  <2>1. n - 1 \in Nat /\ n - 1 \notin Bad
    BY <1>2, <1>3, <1>5
  <2>2. PICK g : IsLoop(g, n - 1, m, v)
    BY <2>1
  <2> DEFINE h == [i \in 0..n |-> IF i = n THEN AllocPage(g[n - 1], v + n - 1) ELSE g[i]]
  <2>3. ASSUME NEW i \in 0..n
        PROVE  h[i] = IF i = 0 THEN m ELSE AllocPage(h[i - 1], v + i - 1)
    <3>1. CASE i = n
      <4>1. h[i - 1] = g[n - 1]
        BY <1>3, <1>5, <3>1
      <4> QED BY <1>3, <1>5, <3>1, <4>1
    <3>2. CASE i # n
      <4>1. i \in 0..(n - 1)
        BY <1>3, <3>2
      <4>2. g[i] = IF i = 0 THEN m ELSE AllocPage(g[i - 1], v + i - 1)
        BY <2>2, <4>1 DEF IsLoop
      <4>3. h[i] = g[i]
        BY <3>2
      <4>4. i # 0 => h[i - 1] = g[i - 1]
        BY <1>3, <4>1
      <4> QED BY <4>2, <4>3, <4>4
    <3> QED BY <3>1, <3>2
  <2>4. h = [i \in 0..n |-> h[i]]
    OBVIOUS
  <2>5. IsLoop(h, n, m, v)
    <3> HIDE DEF h
    <3> QED BY <2>3, <2>4 DEF IsLoop
  <2> QED BY <1>3, <2>5
<1> QED BY <1>4, <1>5

LEMMA AllocPagesIs ==
    ASSUME NEW m, NEW a \in Nat, NEW b \in Nat, a <= b
    PROVE  \E g : /\ IsLoop(g, PagesBelow(b) - PagesBelow(a), m, PagesBelow(a))
                  /\ AllocPages(m, a, b) = g[PagesBelow(b) - PagesBelow(a)]
<1>1. PICK n \in Nat : n = PagesBelow(b) - PagesBelow(a)
  BY PagesBelowIs, PagesBelowOrder
<1>2. PICK v : v = PagesBelow(a)
  OBVIOUS
<1> DEFINE f == CHOOSE g : g = [i \in 0..n |-> IF i = 0 THEN m ELSE AllocPage(g[i - 1], v + i - 1)]
<1>3. AllocPages(m, a, b) = f[n]
  BY <1>1, <1>2 DEF AllocPages
<1>4. \E g : g = [i \in 0..n |-> IF i = 0 THEN m ELSE AllocPage(g[i - 1], v + i - 1)]
  <2>1. PICK h : IsLoop(h, n, m, v)
    BY LoopExists
  <2>2. h = [i \in 0..n |-> IF i = 0 THEN m ELSE AllocPage(h[i - 1], v + i - 1)]
    BY <2>1 DEF IsLoop
  <2> QED BY <2>2
<1>5. f = [i \in 0..n |-> IF i = 0 THEN m ELSE AllocPage(f[i - 1], v + i - 1)]
  BY <1>4
<1>6. IsLoop(f, n, m, v)
  <2> HIDE DEF f
  <2> QED BY <1>5 DEF IsLoop
<1> QED BY <1>1, <1>2, <1>3, <1>6
(* The state of the loop after i rounds, begun with m at page v.            *)
Round(s, m, v, i) ==
    /\ s \in MemType /\ s.ok \in {"ok", "fail"} /\ SameRest(m.as, s.as)
    /\ s.free + PagesOf(s.as) = m.free + PagesOf(m.as)
    /\ s.ok = "ok" => s.as.pages = m.as.pages \cup v..(v + i - 1)
    /\ m.as.pages \subseteq s.as.pages
    /\ s.as.pages \subseteq m.as.pages \cup v..(v + i - 1)

LEMMA RoundStep ==
    ASSUME NEW m \in MemType, m.as.dir, NEW s, NEW v \in Nat, NEW i \in Nat, i > 0,
           Round(s, m, v, i - 1), v + i - 1 \in Vpn, v + i - 1 \notin m.as.pages
    PROVE  Round(AllocPage(s, v + i - 1), m, v, i)
<1>1. PICK u \in Nat : u = v + i - 1
  OBVIOUS
<1>2. PICK t : t = AllocPage(s, u)
  OBVIOUS
<1>3. v + (i - 1) - 1 = u - 1 /\ v..u = v..(u - 1) \cup {u} /\ u \notin v..(u - 1)
  BY <1>1
<1>4. /\ s \in MemType /\ s.ok \in {"ok", "fail"} /\ SameRest(m.as, s.as)
      /\ s.free + PagesOf(s.as) = m.free + PagesOf(m.as)
      /\ s.ok = "ok" => s.as.pages = m.as.pages \cup v..(u - 1)
      /\ m.as.pages \subseteq s.as.pages
      /\ s.as.pages \subseteq m.as.pages \cup v..(u - 1)
  BY <1>3 DEF Round
<1>5. s.as.dir
  BY <1>4 DEF SameRest
<1>6. u \in Vpn /\ u \notin s.as.pages
  BY <1>1, <1>3, <1>4
<1>7. /\ t \in MemType /\ t.ok \in {"ok", "fail"} /\ SameRest(s.as, t.as)
      /\ t.free + PagesOf(t.as) = s.free + PagesOf(s.as)
      /\ s.ok = "fail" => t = s
      /\ t.ok = "fail" => t.as.pages = s.as.pages
      /\ t.ok = "ok" => t.as.pages = s.as.pages \cup {u}
  BY <1>2, <1>4, <1>5, <1>6, AllocPageKeeps
<1>8. SameRest(m.as, t.as)
  BY <1>4, <1>7 DEF SameRest
<1>9. t.ok = "ok" => s.ok = "ok"
  BY <1>4, <1>7
<1>10. t.ok = "ok" => t.as.pages = m.as.pages \cup v..u
  BY <1>3, <1>4, <1>7, <1>9
<1>11. m.as.pages \subseteq t.as.pages /\ t.as.pages \subseteq m.as.pages \cup v..u
  BY <1>3, <1>4, <1>7
<1> QED BY <1>1, <1>2, <1>4, <1>7, <1>8, <1>10, <1>11 DEF Round

LEMMA AllocPagesKeeps ==
    ASSUME NEW m \in MemType, m.as.dir, m.ok = "ok",
           NEW a \in Nat, NEW b \in Nat, a <= b, b < KERNBASE,
           m.as.pages \cap PagesIn(a, b) = {}, NEW r, r = AllocPages(m, a, b)
    PROVE  /\ r \in MemType /\ r.ok \in {"ok", "fail"} /\ SameRest(m.as, r.as)
           /\ r.free + PagesOf(r.as) = m.free + PagesOf(m.as)
           /\ r.ok = "ok" => r.as.pages = m.as.pages \cup PagesIn(a, b)
           /\ m.as.pages \subseteq r.as.pages
           /\ r.as.pages \subseteq m.as.pages \cup PagesIn(a, b)
<1>1. PICK v \in Nat : v = PagesBelow(a)
  BY PagesBelowIs
<1>2. PICK n \in Nat : n = PagesBelow(b) - v
  BY <1>1, PagesBelowIs, PagesBelowOrder
<1>3. PICK g : IsLoop(g, n, m, v) /\ r = g[n]
  BY <1>1, <1>2, AllocPagesIs
<1>4. PagesIn(a, b) = v..(v + n - 1)
  <2>1. PagesBelow(b) \in Nat
    BY PagesBelowIs
  <2> QED BY <1>1, <1>2, <2>1 DEF PagesIn
<1>5. \A i \in 0..n : g[i] = IF i = 0 THEN m ELSE AllocPage(g[i - 1], v + i - 1)
  BY <1>3 DEF IsLoop
<1> DEFINE Bad == {i \in 0..n : ~Round(g[i], m, v, i)}
<1>6. Bad = {}
  <2>1. SUFFICES ASSUME Bad # {} PROVE FALSE
    OBVIOUS
  <2>2. PICK i \in Bad : \A j \in Bad : i <= j
    <3>1. Bad \subseteq Nat
      OBVIOUS
    <3> HIDE DEF Bad
    <3> QED BY <2>1, <3>1, LeastOf
  <2>3. i \in 0..n /\ ~Round(g[i], m, v, i)
    OBVIOUS
  <2>4. CASE i = 0
    <3>1. g[i] = m
      BY <1>5, <2>3, <2>4
    <3>2. SameRest(m.as, m.as)
      BY DEF SameRest
    <3>3. v..(v + i - 1) = {}
      BY <2>4
    <3>4. Round(m, m, v, i)
      BY <3>2, <3>3 DEF Round
    <3> QED BY <2>3, <3>1, <3>4
  <2>5. CASE i # 0
    <3>1. i \in Nat /\ i > 0 /\ i - 1 \in 0..n
      BY <2>3, <2>5
    <3>2. i - 1 \notin Bad
      BY <2>2, <3>1
    <3>3. Round(g[i - 1], m, v, i - 1)
      BY <3>1, <3>2
    <3>4. v + i - 1 \in PagesIn(a, b)
      BY <1>4, <2>3, <3>1
    <3>5. v + i - 1 \in Vpn /\ v + i - 1 \notin m.as.pages
      BY <3>4, PagesInVpn
    <3>6. Round(AllocPage(g[i - 1], v + i - 1), m, v, i)
      BY <3>1, <3>3, <3>5, RoundStep
    <3>7. g[i] = AllocPage(g[i - 1], v + i - 1)
      BY <1>5, <2>3, <2>5
    <3> QED BY <2>3, <3>6, <3>7
  <2> QED BY <2>4, <2>5
<1>7. Round(r, m, v, n)
  BY <1>3, <1>6
<1> QED BY <1>4, <1>7 DEF Round
LEMMA DeallocKeeps ==
    ASSUME NEW m \in MemType, m.as.dir, NEW old \in Nat, NEW sz \in Nat, NEW r,
           r = Deallocuvm(m, old, sz)
    PROVE  /\ r \in MemType /\ r.ok = m.ok /\ SameRest(m.as, r.as)
           /\ r.free + PagesOf(r.as) = m.free + PagesOf(m.as)
           /\ r.as.pages = m.as.pages \ PagesIn(sz, old)
<1>1. /\ m.free \in Nat /\ m.as \in VmType /\ m.ok \in {"ok", "fail", "panic"}
      /\ m = [free |-> m.free, as |-> m.as, ok |-> m.ok]
  BY DEF MemType
<1>2. PICK gone : gone = m.as.pages \cap PagesIn(sz, old)
  OBVIOUS
<1>3. r = [m EXCEPT !.free = @ + Cardinality(gone), !.as.pages = @ \ gone]
  BY <1>2 DEF Deallocuvm
<1>4. /\ r.free = m.free + Cardinality(gone) /\ r.as = [m.as EXCEPT !.pages = @ \ gone]
      /\ r.ok = m.ok /\ r = [free |-> r.free, as |-> r.as, ok |-> r.ok]
  BY <1>1, <1>3
<1>5. /\ r.as.pages = m.as.pages \ gone /\ r.as.tabs = m.as.tabs /\ SameRest(m.as, r.as)
      /\ r.as = [dir |-> m.as.dir, kern |-> m.as.kern, tabs |-> m.as.tabs,
                 pages |-> r.as.pages, guard |-> m.as.guard, sz |-> m.as.sz,
                 esp |-> m.as.esp]
  BY <1>1, <1>4 DEF VmType, SameRest
<1>6. m.as.pages \subseteq Vpn /\ gone \subseteq Vpn
  BY <1>1, <1>2, VmFields
<1>7. r.as \in VmType
  <2>1. /\ m.as.dir \in BOOLEAN /\ m.as.kern \in 0..KTABS
        /\ m.as.tabs \in SUBSET {TableOf(u) : u \in Vpn} /\ m.as.guard \in SUBSET Vpn
        /\ m.as.sz \in 0..(KERNBASE - 1) /\ m.as.esp \in 0..(Word - 1)
    BY <1>1, VmFields
  <2>2. r.as.pages \in SUBSET Vpn
    BY <1>5, <1>6
  <2>3. [dir |-> m.as.dir, kern |-> m.as.kern, tabs |-> m.as.tabs,
         pages |-> r.as.pages, guard |-> m.as.guard, sz |-> m.as.sz,
         esp |-> m.as.esp] \in VmType
    BY <2>1, <2>2, VmMake
  <2> QED BY <1>5, <2>3
<1>8. /\ IsFiniteSet(m.as.pages) /\ Cardinality(m.as.pages) \in Nat
      /\ Cardinality(gone) \in Nat
  BY <1>6, VpnSubset
<1>9. r \in MemType
  <2>1. r.free \in Nat /\ r.ok \in {"ok", "fail", "panic"}
    BY <1>1, <1>4, <1>8
  <2>2. [free |-> r.free, as |-> r.as, ok |-> r.ok] \in MemType
    BY <1>7, <2>1, MemMake, Zenon
  <2>3. r = [free |-> r.free, as |-> r.as, ok |-> r.ok]
    BY <1>4
  <2> QED BY <2>2, <2>3, Zenon
<1>10. Cardinality(r.as.pages) = Cardinality(m.as.pages) - Cardinality(gone)
  <2>1. m.as.pages \cap gone = gone
    BY <1>2, Zenon
  <2>2. Cardinality(m.as.pages \ gone) = Cardinality(m.as.pages) - Cardinality(m.as.pages \cap gone)
    BY <1>8, FS_Difference, Zenon
  <2> QED BY <1>5, <2>1, <2>2, Zenon
<1>11. Cardinality(m.as.tabs) \in Nat /\ m.as.kern \in Nat
  BY <1>1, TablesFinite, VmFields
<1>12. r.free + PagesOf(r.as) = m.free + PagesOf(m.as)
  BY <1>1, <1>4, <1>5, <1>8, <1>10, <1>11 DEF PagesOf, SameRest
<1>13. r.as.pages = m.as.pages \ PagesIn(sz, old)
  BY <1>2, <1>5
<1> QED BY <1>4, <1>5, <1>9, <1>12, <1>13

(* An address space whose pages are those below its size keeps to that:     *)
(* growing and shrinking, however far they get, agree on what is allocated. *)
LEMMA DeallocMapped ==
    ASSUME NEW m \in MemType, m.as.dir, m.ok = "ok", NEW old \in 0..(KERNBASE - 1),
           NEW sz \in Nat, sz < old, m.as.pages = PagesIn(0, old), NEW r,
           r = Deallocuvm(m, old, sz)
    PROVE  /\ r \in MemType /\ r.ok = "ok" /\ SameRest(m.as, r.as)
           /\ r.free + PagesOf(r.as) = m.free + PagesOf(m.as)
           /\ r.as.pages = PagesIn(0, sz)
<1>1. old \in Nat
  BY VmFacts
<1>2. PagesIn(0, old) = PagesIn(0, sz) \cup PagesIn(sz, old) /\ PagesIn(0, sz) \cap PagesIn(sz, old) = {}
  BY <1>1, PagesSplit
<1>3. /\ r \in MemType /\ r.ok = m.ok /\ SameRest(m.as, r.as)
      /\ r.free + PagesOf(r.as) = m.free + PagesOf(m.as)
      /\ r.as.pages = m.as.pages \ PagesIn(sz, old)
  BY <1>1, DeallocKeeps
<1>4. r.as.pages = PagesIn(0, sz)
  BY <1>2, <1>3
<1> QED BY <1>3, <1>4

LEMMA TakenBack ==
    ASSUME NEW A, NEW B, NEW C, A \cap C = {}, A \subseteq B, B \subseteq A \cup C
    PROVE  B \ C = A
OBVIOUS

LEMMA AllocMapped ==
    ASSUME NEW m \in MemType, m.as.dir, m.ok = "ok", NEW old \in 0..(KERNBASE - 1),
           NEW sz \in Nat, m.as.pages = PagesIn(0, old), NEW a, a = Allocuvm(m, old, sz)
    PROVE  /\ a.m \in MemType /\ a.m.ok = "ok" /\ SameRest(m.as, a.m.as)
           /\ a.m.free + PagesOf(a.m.as) = m.free + PagesOf(m.as)
           /\ a.ret \in {0, old, sz} /\ a.ret \in 0..(KERNBASE - 1)
           /\ a.ret # sz => a.ret = 0 \/ sz < old
           /\ a.m.as.pages = PagesIn(0, IF a.ret = 0 THEN old ELSE a.ret)
<1>1. old \in Nat /\ KERNBASE \in Nat /\ KERNBASE > 0
  BY VmFacts
<1>2. SameRest(m.as, m.as)
  BY DEF SameRest
<1>3. CASE OverLimit(sz)
  <2>1. a = [m |-> m, ret |-> 0]
    BY <1>3 DEF Allocuvm
  <2> QED BY <1>1, <1>2, <2>1
<1>4. CASE ~OverLimit(sz) /\ sz < old
  <2>1. a = [m |-> m, ret |-> old]
    BY <1>4 DEF Allocuvm
  <2> QED BY <1>1, <1>2, <1>4, <2>1
<1>5. CASE ~OverLimit(sz) /\ ~(sz < old)
  <2>1. old <= sz /\ sz < KERNBASE
    BY <1>1, <1>5 DEF OverLimit
  <2>2. PICK r : r = AllocPages(m, old, sz)
    OBVIOUS
  <2>3. /\ PagesIn(0, sz) = PagesIn(0, old) \cup PagesIn(old, sz)
        /\ PagesIn(0, old) \cap PagesIn(old, sz) = {}
    BY <1>1, <2>1, PagesSplit
  <2>4. /\ r \in MemType /\ r.ok \in {"ok", "fail"} /\ SameRest(m.as, r.as)
        /\ r.free + PagesOf(r.as) = m.free + PagesOf(m.as)
        /\ r.ok = "ok" => r.as.pages = m.as.pages \cup PagesIn(old, sz)
        /\ m.as.pages \subseteq r.as.pages
        /\ r.as.pages \subseteq m.as.pages \cup PagesIn(old, sz)
    BY <1>1, <2>1, <2>2, <2>3, AllocPagesKeeps
  <2>5. CASE r.ok = "fail"
    <3>1. PICK d : d = Deallocuvm(r, sz, old)
      OBVIOUS
    <3>2. r.as.dir
      BY <2>4 DEF SameRest
    <3>3. /\ d \in MemType /\ SameRest(r.as, d.as)
          /\ d.free + PagesOf(d.as) = r.free + PagesOf(r.as)
          /\ d.as.pages = r.as.pages \ PagesIn(old, sz)
      BY <1>1, <2>4, <3>1, <3>2, DeallocKeeps
    <3>4. a = [m |-> [d EXCEPT !.ok = "ok"], ret |-> 0]
      BY <1>5, <2>2, <2>5, <3>1 DEF Allocuvm, Rollback
    <3>5. a.ret = 0 /\ a.m.as = d.as /\ a.m.free = d.free /\ a.m.ok = "ok"
      BY <3>3, <3>4 DEF MemType
    <3>6. a.m \in MemType
      <4>1. a.m = [free |-> d.free, as |-> d.as, ok |-> "ok"]
        BY <3>3, <3>4 DEF MemType
      <4>2. d.free \in Nat /\ d.as \in VmType
        BY <3>3 DEF MemType
      <4> QED BY <4>1, <4>2, MemMake
    <3>7. SameRest(m.as, a.m.as)
      BY <2>4, <3>3, <3>5 DEF SameRest
    <3>8. a.m.as.pages = PagesIn(0, old)
      <4>1. PICK A, B, C : A = m.as.pages /\ B = r.as.pages /\ C = PagesIn(old, sz)
        OBVIOUS
      <4>2. A \cap C = {} /\ A \subseteq B /\ B \subseteq A \cup C
        BY <2>3, <2>4, <4>1, Zenon
      <4>3. B \ C = A
        BY <4>2, TakenBack, Zenon
      <4>4. r.as.pages \ PagesIn(old, sz) = m.as.pages
        BY <4>1, <4>3, Zenon
      <4> QED BY <3>3, <3>5, <4>4, Zenon
    <3>9. a.m.free + PagesOf(a.m.as) = m.free + PagesOf(m.as)
      BY <2>4, <3>3, <3>5
    <3> QED BY <1>1, <3>5, <3>6, <3>7, <3>8, <3>9
  <2>6. CASE r.ok = "ok"
    <3>1. a = [m |-> r, ret |-> sz]
      BY <1>5, <2>2, <2>6 DEF Allocuvm
    <3>2. r.as.pages = PagesIn(0, sz)
      BY <2>3, <2>4, <2>6
    <3>3. sz = 0 => old = sz
      BY <1>1, <2>1
    <3> QED BY <1>1, <2>1, <2>4, <2>6, <3>1, <3>2, <3>3
  <2> QED BY <2>4, <2>5, <2>6
<1> QED BY <1>3, <1>4, <1>5

LEMMA NoVmType == NoVm \in VmType /\ ~NoVm.dir /\ PagesOf(NoVm) = 0
<1>1. /\ NoVm.dir = FALSE /\ NoVm.kern \in 0..KTABS /\ NoVm.sz \in 0..(KERNBASE - 1)
      /\ NoVm.tabs = {} /\ NoVm.pages = {}
  BY VmFacts DEF NoVm
<1>2. 0 \in 0..KTABS /\ 0 \in 0..(KERNBASE - 1)
  BY VmFacts
<1>3. NoVm \in VmType
  <2>1. {} \in SUBSET {TableOf(v) : v \in Vpn} /\ {} \in SUBSET Vpn /\ 0 \in 0..(Word - 1)
        /\ FALSE \in BOOLEAN
    BY VmFacts
  <2>2. [dir |-> FALSE, kern |-> 0, tabs |-> {}, pages |-> {}, guard |-> {}, sz |-> 0,
         esp |-> 0] \in VmType
    BY <1>2, <2>1, VmMake
  <2> QED BY <2>2 DEF NoVm
<1>4. PagesOf(NoVm) = 0
  BY <1>1 DEF PagesOf
<1> QED BY <1>1, <1>3, <1>4

LEMMA SetupKeeps ==
    ASSUME NEW n \in Nat, NEW k, k = Setupkvm(n)
    PROVE  /\ k.ok \in {"ok", "fail"} /\ k.free \in Nat
           /\ k.ok = "fail" => k.free = n /\ n < KTABS + 1
           /\ k.ok = "ok" => /\ k \in MemType /\ k.as.dir /\ k.free + PagesOf(k.as) = n
                             /\ k.as.pages = {} /\ k.as.sz = 0 /\ k.as.guard = {}
                             /\ k.free = n - (KTABS + 1)
<1>1. KTABS \in Nat /\ KTABS > 0
  BY VmFacts
<1>2. CASE n = 0
  <2>1. k = [Mem(n, NoVm) EXCEPT !.ok = "fail"]
    BY <1>2 DEF Setupkvm, Fail
  <2>2. k.ok = "fail" /\ k.free = n
    BY <2>1 DEF Mem
  <2> QED BY <1>1, <1>2, <2>2
<1>3. CASE n # 0
  <2>1. PICK t : t = Min({n - 1, KTABS})
    OBVIOUS
  <2>2. t \in Nat /\ t <= n - 1 /\ t <= KTABS /\ (t = n - 1 \/ t = KTABS)
    <3>1. \E i \in {n - 1, KTABS} : \A j \in {n - 1, KTABS} : i <= j
      BY <1>1, <1>3
    <3>2. t \in {n - 1, KTABS} /\ \A j \in {n - 1, KTABS} : t <= j
      BY <2>1, <3>1 DEF Min
    <3> QED BY <1>1, <1>3, <3>2
  <2>3. PICK s : s = [NoVm EXCEPT !.dir = TRUE, !.kern = t]
    OBVIOUS
  <2>4. s = [dir |-> TRUE, kern |-> t, tabs |-> {}, pages |-> {}, guard |-> {},
             sz |-> 0, esp |-> 0]
    BY <2>3 DEF NoVm
  <2>5. Freevm(n - 1 - t, s) = n
    BY <1>1, <1>3, <2>2, <2>4, FS_EmptySet DEF Freevm
  <2>6. CASE t < KTABS
    <3>1. k = [Mem(n, NoVm) EXCEPT !.ok = "fail"]
      BY <1>3, <2>1, <2>3, <2>5, <2>6 DEF Setupkvm, Fail
    <3>2. k.ok = "fail" /\ k.free = n
      BY <3>1 DEF Mem
    <3> QED BY <1>1, <1>3, <2>2, <2>6, <3>2
  <2>7. CASE ~(t < KTABS)
    <3>1. t = KTABS
      BY <1>1, <2>2, <2>7
    <3>2. k = [free |-> n - 1 - t, as |-> s, ok |-> "ok"]
      BY <1>3, <2>1, <2>3, <2>7 DEF Setupkvm, Mem
    <3>3. s \in VmType
      <4>1. /\ {} \in SUBSET {TableOf(v) : v \in Vpn} /\ {} \in SUBSET Vpn /\ 0 \in 0..(Word - 1)
            /\ TRUE \in BOOLEAN /\ 0 \in 0..(KERNBASE - 1) /\ t \in 0..KTABS
        BY <1>1, <2>2, VmFacts
      <4> QED BY <2>4, <4>1, VmMake
    <3>4. n - 1 - t \in Nat
      BY <1>3, <2>2
    <3>5. k \in MemType
      BY <3>2, <3>3, <3>4, MemMake
    <3>6. PagesOf(s) = 1 + t
      BY <2>2, <2>4, FS_EmptySet DEF PagesOf
    <3>7. /\ k.ok = "ok" /\ k.free = n - 1 - t /\ k.as = s /\ s.dir /\ s.pages = {} /\ s.sz = 0
          /\ s.guard = {}
      BY <2>4, <3>2
    <3> QED BY <1>1, <1>3, <2>2, <3>1, <3>4, <3>5, <3>6, <3>7
  <2> QED BY <2>6, <2>7
<1> QED BY <1>2, <1>3
LEMMA FreevmGives ==
    ASSUME NEW n \in Int, NEW x \in VmType, x.dir PROVE Freevm(n, x) = n + PagesOf(x)
<1>1. Cardinality(x.tabs) \in Nat /\ Cardinality(x.pages) \in Nat /\ x.kern \in Nat
  BY VmFields, TablesFinite, VpnSubset
<1> QED BY <1>1 DEF Freevm, PagesOf

(* fork() copies all of the parent's memory or takes none.                  *)
LEMMA CopyKeeps ==
    ASSUME NEW n \in Nat, NEW x \in VmType, x.pages = PagesIn(0, x.sz), NEW r,
           r = Copyuvm(n, x)
    PROVE  /\ r.ok \in {"ok", "fail"} /\ r.free \in Nat
           /\ r.ok = "fail" => r.free = n
           /\ r.ok = "ok" => /\ r.as \in VmType /\ r.as.dir /\ r.as.sz = x.sz
                             /\ r.as.pages = PagesIn(0, x.sz)
                             /\ r.free + PagesOf(r.as) = n
<1>1. PICK d : d = Setupkvm(n)
  OBVIOUS
<1>2. PICK c : c = AllocPages(d, 0, x.sz)
  OBVIOUS
<1>3. r = IF d.ok = "fail" THEN d
          ELSE IF ~(PagesIn(0, x.sz) \subseteq x.pages) THEN [d EXCEPT !.ok = "panic"]
          ELSE IF c.ok = "fail" THEN Fail(Mem(Freevm(c.free, c.as), NoVm))
          ELSE [c EXCEPT !.as.guard = x.guard \cap c.as.pages, !.as.sz = x.sz,
                         !.as.esp = x.esp]
  BY <1>1, <1>2 DEF Copyuvm
<1>4. /\ d.ok \in {"ok", "fail"} /\ d.free \in Nat
      /\ d.ok = "fail" => d.free = n
      /\ d.ok = "ok" => /\ d \in MemType /\ d.as.dir /\ d.free + PagesOf(d.as) = n
                        /\ d.as.pages = {}
  BY <1>1, SetupKeeps
<1>5. CASE d.ok = "fail"
  BY <1>3, <1>4, <1>5
<1>6. CASE d.ok = "ok"
  <2>1. x.sz \in Nat /\ x.sz < KERNBASE
    <3>1. x.sz \in 0..(KERNBASE - 1) /\ KERNBASE \in Nat
      BY VmFields, VmFacts
    <3> QED BY <3>1
  <2>2. /\ c \in MemType /\ c.ok \in {"ok", "fail"} /\ SameRest(d.as, c.as)
        /\ c.free + PagesOf(c.as) = d.free + PagesOf(d.as)
        /\ c.ok = "ok" => c.as.pages = d.as.pages \cup PagesIn(0, x.sz)
    <3>1. d.as.pages \cap PagesIn(0, x.sz) = {}
      BY <1>4, <1>6
    <3>2. 0 \in Nat /\ 0 <= x.sz
      BY <2>1
    <3> QED BY <1>2, <1>4, <1>6, <2>1, <3>1, <3>2, AllocPagesKeeps
  <2>3. /\ c.free \in Nat /\ c.as \in VmType /\ c.as.dir
        /\ c = [free |-> c.free, as |-> c.as, ok |-> c.ok]
        /\ c.free + PagesOf(c.as) = n
    BY <1>4, <1>6, <2>2 DEF MemType, SameRest
  <2>4. CASE c.ok = "fail"
    <3>1. Freevm(c.free, c.as) = n
      <4>1. c.free \in Int
        BY <2>3
      <4>2. Freevm(c.free, c.as) = c.free + PagesOf(c.as)
        BY <2>3, <4>1, FreevmGives
      <4> QED BY <2>3, <4>2
    <3>2. r = [Mem(n, NoVm) EXCEPT !.ok = "fail"]
      BY <1>3, <1>6, <2>4, <3>1 DEF Fail
    <3>3. r.ok = "fail" /\ r.free = n
      BY <3>2 DEF Mem
    <3> QED BY <3>3
  <2>5. CASE c.ok = "ok"
    <3>1. r = [c EXCEPT !.as.guard = x.guard \cap c.as.pages, !.as.sz = x.sz,
                        !.as.esp = x.esp]
      BY <1>3, <1>6, <2>5
    <3>2. /\ r.free = c.free /\ r.ok = "ok"
          /\ r.as = [c.as EXCEPT !.guard = x.guard \cap c.as.pages, !.sz = x.sz,
                                 !.esp = x.esp]
      BY <2>3, <2>5, <3>1
    <3>3. /\ r.as \in VmType /\ r.as.dir = c.as.dir /\ r.as.pages = c.as.pages
          /\ PagesOf(r.as) = PagesOf(c.as) /\ r.as.sz = x.sz
      <4>1. PICK y, g, s, e : /\ y = c.as /\ s = x.sz /\ e = x.esp
                              /\ g = x.guard \cap c.as.pages
        OBVIOUS
      <4>2. y \in VmType /\ g \in SUBSET Vpn /\ s \in 0..(KERNBASE - 1) /\ e \in 0..(Word - 1)
        BY <2>3, <4>1, VmFields
      <4>3. r.as = [y EXCEPT !.guard = g, !.sz = s, !.esp = e]
        BY <3>2, <4>1
      <4>4. Updated(y, r.as, g, s, e)
        BY <4>2, <4>3, ExceptUpdates
      <4>5. r.as \in VmType /\ Kept(y, r.as) /\ r.as.sz = s
        BY <4>2, <4>4, VmUpdate
      <4> QED BY <4>1, <4>5 DEF Kept
    <3>6. r.as.pages = PagesIn(0, x.sz)
      BY <1>4, <1>6, <2>2, <2>5, <3>3
    <3> QED BY <2>3, <3>2, <3>3, <3>6
  <2> QED BY <2>2, <2>4, <2>5
<1> QED BY <1>4, <1>5, <1>6

(***************************************************************************)
(* Accounting: pages move between the free list and one owner.             *)
(***************************************************************************)
Bit(k) == IF k THEN 1 ELSE 0

Numbered(f) == UNION {{p} \X (1..f[p]) : p \in Slot}

LEMMA NumberedParts ==
    ASSUME NEW f \in [Slot -> Nat], NEW p \in Slot, NEW R,
           R = UNION {{q} \X (1..f[q]) : q \in Slot \ {p}}
    PROVE  /\ IsFiniteSet(R) /\ Cardinality(R) \in Nat
           /\ IsFiniteSet(Numbered(f))
           /\ Cardinality(Numbered(f)) = Cardinality(R) + f[p]
<1>1. \A q \in Slot : IsFiniteSet({q} \X (1..f[q])) /\ Cardinality({q} \X (1..f[q])) = f[q]
  <2>1. SUFFICES ASSUME NEW q \in Slot
                 PROVE  IsFiniteSet({q} \X (1..f[q])) /\ Cardinality({q} \X (1..f[q])) = f[q]
    OBVIOUS
  <2>2. PICK k \in Nat : k = f[q]
    OBVIOUS
  <2>3. IsFiniteSet(1..k) /\ Cardinality(1..k) = k
    <3>1. 1 \in Int /\ k \in Int
      OBVIOUS
    <3>2. IsFiniteSet(1..k) /\ Cardinality(1..k) = IF 1 > k THEN 0 ELSE k - 1 + 1
      BY <3>1, FS_Interval
    <3> QED BY <3>2
  <2>4. IsFiniteSet({q}) /\ Cardinality({q}) = 1
    BY FS_Singleton
  <2>5. IsFiniteSet({q} \X (1..k)) /\ Cardinality({q} \X (1..k)) = 1 * k
    BY <2>3, <2>4, FS_Product
  <2> QED BY <2>2, <2>5
<1> DEFINE Q == Slot \ {p}
<1> DEFINE S == {{q} \X (1..f[q]) : q \in Q}
<1>2. IsFiniteSet(S)
  <2>1. IsFiniteSet(Q)
    <3>1. IsFiniteSet(Slot)
      BY VmFacts
    <3> QED BY <3>1, FS_RemoveElement
  <2> DEFINE h == [q \in Q |-> {q} \X (1..f[q])]
  <2>2. h \in Surjection(Q, S)
    BY DEF Surjection
  <2> HIDE DEF h, S, Q
  <2> QED BY <2>1, <2>2, FS_Surjection
<1>3. \A T \in S : IsFiniteSet(T)
  BY <1>1
<1>4. IsFiniteSet(R)
  <2>1. R = UNION S
    OBVIOUS
  <2> HIDE DEF S
  <2> QED BY <1>2, <1>3, <2>1, FS_UNION
<1>5. Numbered(f) = R \cup ({p} \X (1..f[p]))
  BY DEF Numbered
<1>6. R \cap ({p} \X (1..f[p])) = {}
  OBVIOUS
<1>7. Cardinality(R) \in Nat
  BY <1>4, FS_CardinalityType
<1>8. IsFiniteSet({p} \X (1..f[p])) /\ Cardinality({p} \X (1..f[p])) = f[p]
  BY <1>1
<1>9. Cardinality({}) = 0
  BY FS_EmptySet
<1>10. IsFiniteSet(Numbered(f)) /\ Cardinality(Numbered(f)) = Cardinality(R) + f[p] - 0
  BY <1>4, <1>5, <1>6, <1>8, <1>9, FS_Union
<1> QED BY <1>4, <1>7, <1>10

LEMMA NumberedChange ==
    ASSUME NEW f \in [Slot -> Nat], NEW g \in [Slot -> Nat], NEW p \in Slot,
           \A q \in Slot \ {p} : g[q] = f[q]
    PROVE  /\ Cardinality(Numbered(f)) \in Nat /\ Cardinality(Numbered(g)) \in Nat
           /\ Cardinality(Numbered(g)) = Cardinality(Numbered(f)) - f[p] + g[p]
<1>1. PICK R : R = UNION {{q} \X (1..f[q]) : q \in Slot \ {p}}
  OBVIOUS
<1>2. R = UNION {{q} \X (1..g[q]) : q \in Slot \ {p}}
  BY <1>1
<1>3. Cardinality(R) \in Nat /\ Cardinality(Numbered(f)) = Cardinality(R) + f[p]
  BY <1>1, NumberedParts
<1>4. Cardinality(Numbered(g)) = Cardinality(R) + g[p]
  BY <1>2, NumberedParts
<1>5. f[p] \in Nat /\ g[p] \in Nat
  OBVIOUS
<1> QED BY <1>3, <1>4, <1>5
LEMMA Balance ==
    ASSUME NEW n \in Nat, NEW u \in Nat, NEW v \in Nat, NEW a \in Nat, NEW b \in Nat,
           NEW c \in Nat, NEW d \in Nat, b = a - c + d, v + d = u + c, u + a = n
    PROVE  v + b = n
OBVIOUS

LEMMA StepAccounts ==
    ASSUME TypeOK, free + Cardinality(Held) = NPAGES, NEW p \in Slot,
           vm' \in [Slot -> VmType], new' \in [Slot -> VmType], kstack' \in [Slot -> BOOLEAN],
           \A q \in Slot \ {p} : vm'[q] = vm[q] /\ new'[q] = new[q] /\ kstack'[q] = kstack[q],
           free' \in Nat,
           free' + (PagesOf(vm'[p]) + PagesOf(new'[p]) + Bit(kstack'[p]))
           = free + (PagesOf(vm[p]) + PagesOf(new[p]) + Bit(kstack[p]))
    PROVE  free' + Cardinality(Held') = NPAGES /\ free' \in 0..NPAGES
<1>1. PICK f : f = [q \in Slot |-> PagesOf(vm[q]) + PagesOf(new[q]) + Bit(kstack[q])]
  OBVIOUS
<1>2. PICK g : g = [q \in Slot |-> PagesOf(vm'[q]) + PagesOf(new'[q]) + Bit(kstack'[q])]
  OBVIOUS
<1>3. f \in [Slot -> Nat]
  <2>1. ASSUME NEW q \in Slot
        PROVE  PagesOf(vm[q]) + PagesOf(new[q]) + Bit(kstack[q]) \in Nat
    <3>1. vm[q] \in VmType /\ new[q] \in VmType
      BY DEF TypeOK
    <3>2. PagesOf(vm[q]) \in Nat /\ PagesOf(new[q]) \in Nat
      BY <3>1, PagesOfNat
    <3>3. Bit(kstack[q]) \in Nat
      BY DEF Bit
    <3> QED BY <3>2, <3>3
  <2> QED BY <1>1, <2>1
<1>4. g \in [Slot -> Nat]
  <2>1. ASSUME NEW q \in Slot
        PROVE  PagesOf(vm'[q]) + PagesOf(new'[q]) + Bit(kstack'[q]) \in Nat
    <3>1. vm'[q] \in VmType /\ new'[q] \in VmType
      OBVIOUS
    <3>2. PagesOf(vm'[q]) \in Nat /\ PagesOf(new'[q]) \in Nat
      BY <3>1, PagesOfNat
    <3>3. Bit(kstack'[q]) \in Nat
      BY DEF Bit
    <3> QED BY <3>2, <3>3
  <2> QED BY <1>2, <2>1
<1>5. Held = Numbered(f)
  BY <1>1 DEF Held, Numbered, PagesHeld, Bit
<1>6. Held' = Numbered(g)
  BY <1>2 DEF Held, Numbered, PagesHeld, Bit
<1>7. \A q \in Slot \ {p} : g[q] = f[q]
  BY <1>1, <1>2
<1>8. /\ Cardinality(Numbered(f)) \in Nat /\ Cardinality(Numbered(g)) \in Nat
      /\ Cardinality(Numbered(g)) = Cardinality(Numbered(f)) - f[p] + g[p]
  BY <1>3, <1>4, <1>7, NumberedChange
<1>9. free' + g[p] = free + f[p] /\ f[p] \in Nat /\ g[p] \in Nat
  BY <1>1, <1>2, <1>3, <1>4
<1>10. free \in Nat /\ NPAGES \in Nat
  BY VmFacts DEF TypeOK
<1>11. free + Cardinality(Numbered(f)) = NPAGES
  BY <1>5
<1>12. free' + Cardinality(Numbered(g)) = NPAGES
  <2>1. PICK a \in Nat, b \in Nat, c \in Nat, d \in Nat :
           /\ a = Cardinality(Numbered(f)) /\ b = Cardinality(Numbered(g))
           /\ c = f[p] /\ d = g[p]
    BY <1>8, <1>9
  <2>2. b = a - c + d /\ free' + d = free + c /\ free + a = NPAGES
    BY <1>8, <1>9, <1>11, <2>1
  <2>3. free' + b = NPAGES
    <3>1. PICK n \in Nat, u \in Nat, v \in Nat : n = NPAGES /\ u = free /\ v = free'
      BY <1>10
    <3>2. b = a - c + d
      BY <2>2
    <3>3. v + d = u + c
      BY <2>2, <3>1
    <3>4. u + a = n
      BY <2>2, <3>1
    <3>5. v + b = n
      BY <3>2, <3>3, <3>4, Balance
    <3> QED BY <3>1, <3>5
  <2> QED BY <2>1, <2>3
<1> QED BY <1>6, <1>8, <1>10, <1>12

(***************************************************************************)
(* The invariant, one process at a time.                                   *)
(***************************************************************************)
State == {"unused", "embryo", "running", "exec", "faulty", "zombie", "panic",
          "stray"}

Fits(x, y, s) ==
    /\ s # "panic"
    /\ (x.dir <=> s \notin {"unused", "embryo"}) /\ (y.dir <=> s \in {"exec", "stray"})
    /\ s \in {"running", "exec"} => x.pages = PagesIn(0, x.sz)
    /\ s = "exec" => y.pages = PagesIn(0, y.sz)

Cost(x, y, s) == PagesOf(x) + PagesOf(y) + (IF s = "unused" THEN 0 ELSE 1)

Stacks == \A p \in Slot : kstack[p] <=> state[p] # "unused"

LEMMA InvParts ==
    VmInv <=> /\ TypeOK /\ free + Cardinality(Held) = NPAGES /\ Stacks
              /\ \A p \in Slot : Fits(vm[p], new[p], state[p])
BY Zenon DEF VmInv, PagesAccounted, Shapes, SizeMapped, Fits, Stacks

(* What the invariant says of one process.                                  *)
LEMMA InvAt ==
    ASSUME VmInv, NEW p \in Slot
    PROVE  /\ free \in Nat /\ vm[p] \in VmType /\ new[p] \in VmType
           /\ state[p] \in State /\ Fits(vm[p], new[p], state[p])
           /\ PagesOf(vm[p]) \in Nat /\ PagesOf(new[p]) \in Nat
           /\ ~vm[p].dir => PagesOf(vm[p]) = 0
           /\ ~new[p].dir => PagesOf(new[p]) = 0
           /\ vm = [vm EXCEPT ![p] = vm[p]] /\ new = [new EXCEPT ![p] = new[p]]
<1>1. TypeOK /\ Fits(vm[p], new[p], state[p])
  BY InvParts
<1>2. /\ free \in 0..NPAGES /\ vm \in [Slot -> VmType] /\ new \in [Slot -> VmType]
      /\ state \in [Slot -> State]
  BY <1>1 DEF TypeOK, State
<1>3. free \in Nat
  BY <1>2, VmFacts
<1>4. vm[p] \in VmType /\ new[p] \in VmType /\ state[p] \in State
  BY <1>2
<1>6. PagesOf(vm[p]) \in Nat /\ PagesOf(new[p]) \in Nat
  BY <1>4, PagesOfNat
<1>7. (~vm[p].dir => PagesOf(vm[p]) = 0) /\ (~new[p].dir => PagesOf(new[p]) = 0)
  BY DEF PagesOf
<1>8. /\ vm = [vm EXCEPT ![p] = vm[p]] /\ new = [new EXCEPT ![p] = new[p]]
  BY <1>2
<1> QED BY <1>1, <1>3, <1>4, <1>6, <1>7, <1>8

(* A step that changes the stack of p alone, to go with state s.            *)
StackStep(p, s) ==
    /\ kstack' \in [Slot -> BOOLEAN] /\ (kstack'[p] <=> s # "unused")
    /\ \A q \in Slot \ {p} : kstack'[q] = kstack[q]

LEMMA StackSteps ==
    ASSUME VmInv, NEW p \in Slot, NEW s,
           \/ kstack' = kstack /\ s # "unused" /\ state[p] # "unused"
           \/ kstack' = [kstack EXCEPT ![p] = TRUE] /\ s # "unused"
           \/ kstack' = [kstack EXCEPT ![p] = FALSE] /\ s = "unused"
    PROVE  StackStep(p, s)
<1>1. kstack \in [Slot -> BOOLEAN] /\ (kstack[p] <=> state[p] # "unused")
  BY InvParts DEF TypeOK, Stacks
<1>2. CASE kstack' = kstack /\ s # "unused" /\ state[p] # "unused"
  BY <1>1, <1>2 DEF StackStep
<1>3. CASE kstack' = [kstack EXCEPT ![p] = TRUE] /\ s # "unused"
  BY <1>1, <1>3 DEF StackStep
<1>4. CASE kstack' = [kstack EXCEPT ![p] = FALSE] /\ s = "unused"
  BY <1>1, <1>4 DEF StackStep
<1> QED BY <1>2, <1>3, <1>4

(* exec() counts its arguments within MAXARG.                               *)
Argcs == argc \in [Slot -> 0..MAXARG]

LEMMA ArgcSteps ==
    ASSUME VmInv, NEW p \in Slot, argc' = argc \/ argc' = [argc EXCEPT ![p] = 0]
    PROVE  Argcs'
<1>1. argc \in [Slot -> 0..MAXARG]
  BY InvParts DEF TypeOK
<1>2. 0 \in 0..MAXARG
  BY VmFacts
<1> QED BY <1>1, <1>2 DEF Argcs

(* A step that changes one process, whole before and after, and moves the   *)
(* pages it gains or loses from or to the free list.                        *)
LEMMA OneProcess ==
    ASSUME VmInv, NEW p \in Slot, NEW x \in VmType, NEW y \in VmType, NEW s \in State,
           vm' = [vm EXCEPT ![p] = x], new' = [new EXCEPT ![p] = y],
           state' = [state EXCEPT ![p] = s], StackStep(p, s),
           Argcs', Fits(x, y, s), free' \in Nat,
           free' + Cost(x, y, s) = free + Cost(vm[p], new[p], state[p])
    PROVE  VmInv'
<1>1. /\ TypeOK /\ free + Cardinality(Held) = NPAGES /\ Stacks
      /\ \A q \in Slot : Fits(vm[q], new[q], state[q])
  BY InvParts
<1>2. /\ vm \in [Slot -> VmType] /\ new \in [Slot -> VmType]
      /\ kstack \in [Slot -> BOOLEAN] /\ state \in [Slot -> State]
  BY <1>1 DEF TypeOK, State
<1>3. vm' \in [Slot -> VmType] /\ new' \in [Slot -> VmType] /\ state' \in [Slot -> State]
  BY <1>2
<1>4. /\ kstack' \in [Slot -> BOOLEAN] /\ (kstack'[p] <=> s # "unused")
      /\ \A q \in Slot \ {p} : kstack'[q] = kstack[q]
  BY DEF StackStep
<1>5. \A q \in Slot \ {p} : /\ vm'[q] = vm[q] /\ new'[q] = new[q] /\ state'[q] = state[q]
  BY <1>2
<1>6. vm'[p] = x /\ new'[p] = y /\ state'[p] = s
  BY <1>2
<1>7. Stacks'
  BY <1>1, <1>4, <1>5, <1>6, Zenon DEF Stacks
<1>8. Bit(kstack'[p]) = IF s = "unused" THEN 0 ELSE 1
  BY <1>4 DEF Bit
<1>9. Bit(kstack[p]) = IF state[p] = "unused" THEN 0 ELSE 1
  BY <1>1 DEF Bit, Stacks
<1>10. free' + (PagesOf(vm'[p]) + PagesOf(new'[p]) + Bit(kstack'[p]))
       = free + (PagesOf(vm[p]) + PagesOf(new[p]) + Bit(kstack[p]))
  <2>1. PagesOf(vm'[p]) + PagesOf(new'[p]) + Bit(kstack'[p]) = Cost(x, y, s)
    BY <1>6, <1>8, Zenon DEF Cost
  <2>2. PagesOf(vm[p]) + PagesOf(new[p]) + Bit(kstack[p]) = Cost(vm[p], new[p], state[p])
    BY <1>9, Zenon DEF Cost
  <2> QED BY <2>1, <2>2
<1>11. free' + Cardinality(Held') = NPAGES /\ free' \in 0..NPAGES
  <2>1. \A q \in Slot \ {p} : vm'[q] = vm[q] /\ new'[q] = new[q] /\ kstack'[q] = kstack[q]
    BY <1>4, <1>5
  <2> QED BY <1>1, <1>3, <1>4, <1>10, <2>1, StepAccounts
<1>12. TypeOK'
  BY <1>3, <1>4, <1>11 DEF TypeOK, State, Argcs
<1>13. \A q \in Slot : Fits(vm'[q], new'[q], state'[q])
  BY <1>1, <1>5, <1>6
<1> QED
  BY <1>7, <1>11, <1>12, <1>13, Zenon DEF VmInv, PagesAccounted, Shapes, SizeMapped, Fits, Stacks

LEMMA ForkAllocKeeps ==
    ASSUME VmInv, NEW q \in Slot, NEW p \in Slot, ForkAlloc(q, p) PROVE VmInv'
<1>0. Argcs'
  <2>1. argc' = argc \/ argc' = [argc EXCEPT ![p] = 0]
    BY DEF ForkAlloc
  <2> QED BY <2>1, ArgcSteps
<1>1. /\ state[p] = "unused" /\ free > 0 /\ free' = free - 1
      /\ state' = [state EXCEPT ![p] = "embryo"] /\ kstack' = [kstack EXCEPT ![p] = TRUE]
      /\ vm' = vm /\ new' = new
  BY DEF ForkAlloc
<1>2. /\ free \in Nat /\ vm[p] \in VmType /\ new[p] \in VmType
      /\ Fits(vm[p], new[p], state[p])
      /\ PagesOf(vm[p]) \in Nat /\ PagesOf(new[p]) \in Nat
      /\ vm' = [vm EXCEPT ![p] = vm[p]] /\ new' = [new EXCEPT ![p] = new[p]]
  BY <1>1, InvAt
<1>3. Fits(vm[p], new[p], "embryo")
  BY <1>1, <1>2 DEF Fits
<1>4. StackStep(p, "embryo")
  <2>1. kstack' = [kstack EXCEPT ![p] = TRUE] /\ "embryo" # "unused"
    BY <1>1
  <2>2. kstack \in [Slot -> BOOLEAN]
    BY InvParts DEF TypeOK
  <2> QED BY <2>1, <2>2 DEF StackStep
<1>5. /\ free' \in Nat
      /\ free' + Cost(vm[p], new[p], "embryo") = free + Cost(vm[p], new[p], state[p])
  BY <1>1, <1>2 DEF Cost
<1>6. "embryo" \in State
  BY DEF State
<1> QED BY <1>0, <1>1, <1>2, <1>3, <1>4, <1>5, <1>6, OneProcess

LEMMA ForkCopyKeeps ==
    ASSUME VmInv, NEW q \in Slot, NEW p \in Slot, ForkCopy(q, p) PROVE VmInv'
<1>0. Argcs'
  <2>1. argc' = argc \/ argc' = [argc EXCEPT ![p] = 0]
    BY DEF ForkCopy
  <2> QED BY <2>1, ArgcSteps
<1>1. PICK r : r = Copyuvm(free, vm[q])
  OBVIOUS
<1>2. state[q] = "running" /\ state[p] = "embryo"
  BY DEF ForkCopy
<1>3. /\ free \in Nat /\ vm[q] \in VmType /\ Fits(vm[q], new[q], state[q])
  BY InvAt
<1>4. /\ r.ok \in {"ok", "fail"} /\ r.free \in Nat
      /\ r.ok = "fail" => r.free = free
      /\ r.ok = "ok" => /\ r.as \in VmType /\ r.as.dir /\ r.as.sz = vm[q].sz
                        /\ r.as.pages = PagesIn(0, vm[q].sz)
                        /\ r.free + PagesOf(r.as) = free
  <2>1. vm[q].pages = PagesIn(0, vm[q].sz)
    BY <1>2, <1>3 DEF Fits
  <2> QED BY <1>1, <1>3, <2>1, CopyKeeps
<1>5. /\ vm[p] \in VmType /\ new[p] \in VmType
      /\ Fits(vm[p], new[p], state[p])
      /\ PagesOf(vm[p]) = 0 /\ PagesOf(new[p]) = 0
      /\ vm = [vm EXCEPT ![p] = vm[p]] /\ new = [new EXCEPT ![p] = new[p]]
  BY <1>2, InvAt DEF Fits
<1>7. CASE r.ok = "ok"
  <2>1. /\ free' = r.free /\ vm' = [vm EXCEPT ![p] = r.as]
        /\ state' = [state EXCEPT ![p] = "running"] /\ kstack' = kstack /\ new' = new
    BY <1>1, <1>7 DEF ForkCopy
  <2>2. Fits(r.as, new[p], "running")
    BY <1>2, <1>4, <1>5, <1>7 DEF Fits
  <2>3. PagesOf(r.as) \in Nat
    BY <1>4, <1>7, PagesOfNat
  <2>4. /\ free' \in Nat
        /\ free' + Cost(r.as, new[p], "running") = free + Cost(vm[p], new[p], state[p])
    BY <1>2, <1>3, <1>4, <1>5, <1>7, <2>1, <2>3 DEF Cost
  <2>5. "running" \in State /\ StackStep(p, "running")
    BY <1>2, <2>1, StackSteps DEF State
  <2>6. new' = [new EXCEPT ![p] = new[p]]
    BY <1>5, <2>1
  <2>7. r.as \in VmType
    BY <1>4, <1>7
  <2> QED BY <1>0, <1>5, <2>1, <2>2, <2>4, <2>5, <2>6, <2>7, OneProcess
<1>8. CASE r.ok = "fail"
  <2>1. /\ free' = r.free + 1 /\ kstack' = [kstack EXCEPT ![p] = FALSE]
        /\ state' = [state EXCEPT ![p] = "unused"] /\ vm' = vm /\ new' = new
    BY <1>1, <1>8 DEF ForkCopy
  <2>2. Fits(vm[p], new[p], "unused")
    BY <1>2, <1>5 DEF Fits
  <2>3. /\ free' \in Nat
        /\ free' + Cost(vm[p], new[p], "unused") = free + Cost(vm[p], new[p], state[p])
    BY <1>2, <1>3, <1>4, <1>5, <1>8, <2>1 DEF Cost
  <2>4. "unused" \in State /\ StackStep(p, "unused")
    BY <2>1, StackSteps DEF State
  <2>5. new' = [new EXCEPT ![p] = new[p]] /\ vm' = [vm EXCEPT ![p] = vm[p]]
    BY <1>5, <2>1
  <2> QED BY <1>0, <1>5, <2>1, <2>2, <2>3, <2>4, <2>5, OneProcess
<1> QED BY <1>4, <1>7, <1>8

LEMMA ExitKeeps ==
    ASSUME VmInv, NEW p \in Slot, Exit(p) PROVE VmInv'
<1>0. Argcs'
  <2>1. argc' = argc \/ argc' = [argc EXCEPT ![p] = 0]
    BY DEF Exit
  <2> QED BY <2>1, ArgcSteps
<1>1. /\ state[p] \in {"running", "faulty"} /\ free' = free /\ vm' = vm /\ new' = new
      /\ kstack' = kstack /\ state' = [state EXCEPT ![p] = "zombie"]
  BY DEF Exit
<1>2. /\ free \in Nat /\ vm[p] \in VmType /\ new[p] \in VmType
      /\ Fits(vm[p], new[p], state[p])
      /\ vm' = [vm EXCEPT ![p] = vm[p]] /\ new' = [new EXCEPT ![p] = new[p]]
  BY <1>1, InvAt
<1>3. Fits(vm[p], new[p], "zombie")
  BY <1>1, <1>2 DEF Fits
<1>4. /\ free' \in Nat
      /\ free' + Cost(vm[p], new[p], "zombie") = free + Cost(vm[p], new[p], state[p])
  BY <1>1, <1>2 DEF Cost
<1>5. "zombie" \in State /\ StackStep(p, "zombie")
  BY <1>1, StackSteps DEF State
<1> QED BY <1>0, <1>1, <1>2, <1>3, <1>4, <1>5, OneProcess

LEMMA ReapKeeps ==
    ASSUME VmInv, NEW p \in Slot, Reap(p) PROVE VmInv'
<1>0. Argcs'
  <2>1. argc' = argc \/ argc' = [argc EXCEPT ![p] = 0]
    BY DEF Reap
  <2> QED BY <2>1, ArgcSteps
<1>1. /\ state[p] = "zombie" /\ free' = Freevm(free + 1, vm[p])
      /\ vm' = [vm EXCEPT ![p] = NoVm] /\ new' = new
      /\ kstack' = [kstack EXCEPT ![p] = FALSE] /\ state' = [state EXCEPT ![p] = "unused"]
  BY DEF Reap
<1>2. /\ free \in Nat /\ vm[p] \in VmType /\ new[p] \in VmType
      /\ Fits(vm[p], new[p], state[p])
      /\ PagesOf(vm[p]) \in Nat /\ PagesOf(new[p]) \in Nat
      /\ new' = [new EXCEPT ![p] = new[p]]
  BY <1>1, InvAt
<1>3. Fits(NoVm, new[p], "unused") /\ vm[p].dir
  BY <1>1, <1>2, NoVmType DEF Fits
<1>5. free' = free + 1 + PagesOf(vm[p])
  <2>1. free + 1 \in Int
    BY <1>2
  <2> QED BY <1>1, <1>2, <1>3, <2>1, FreevmGives
<1>6. /\ free' \in Nat
      /\ free' + Cost(NoVm, new[p], "unused") = free + Cost(vm[p], new[p], state[p])
  BY <1>1, <1>2, <1>5, NoVmType DEF Cost
<1>7. "unused" \in State /\ NoVm \in VmType /\ StackStep(p, "unused")
  BY <1>1, NoVmType, StackSteps DEF State
<1> QED BY <1>0, <1>1, <1>2, <1>3, <1>6, <1>7, OneProcess

LEMMA SbrkKeeps ==
    ASSUME VmInv, NEW p \in Slot, NEW n \in SbrkArgs, Sbrk(p, n) PROVE VmInv'
<1>0. Argcs'
  <2>1. argc' = argc \/ argc' = [argc EXCEPT ![p] = 0]
    BY DEF Sbrk
  <2> QED BY <2>1, ArgcSteps
<1>1. /\ free \in Nat /\ vm[p] \in VmType /\ new[p] \in VmType
      /\ Fits(vm[p], new[p], state[p])
      /\ PagesOf(vm[p]) \in Nat /\ PagesOf(new[p]) \in Nat
      /\ new = [new EXCEPT ![p] = new[p]]
  BY InvAt
<1>2. state[p] = "running" /\ kstack' = kstack /\ new' = new
  BY DEF Sbrk
<1>3. PICK sz : sz = vm[p].sz
  OBVIOUS
<1>4. /\ sz \in 0..(KERNBASE - 1) /\ sz \in Nat /\ sz < Word /\ n \in Int
      /\ KERNBASE \in Nat /\ Word \in Nat /\ Word > KERNBASE
  <2>1. sz \in 0..(KERNBASE - 1) /\ sz \in Nat
    BY <1>1, <1>3, VmFields
  <2>2. n \in Int /\ KERNBASE \in Nat /\ Word \in Nat /\ Word > KERNBASE
    BY VmFacts
  <2> QED BY <2>1, <2>2
<1>5. PICK newsz : newsz = (sz + n) % Word
  OBVIOUS
<1>6. newsz \in Nat /\ (n = 0 => newsz = sz)
  <2>1. sz + n \in Int /\ Word > 0
    BY <1>4
  <2>2. newsz \in 0..(Word - 1)
    BY <1>4, <1>5, <2>1
  <2>3. n = 0 => newsz = sz
    <3>1. sz % Word = sz
      BY <1>4
    <3> QED BY <1>4, <1>5, <3>1
  <2> QED BY <1>4, <2>2, <2>3
<1>7. PICK m : m = Mem(free, vm[p])
  OBVIOUS
<1>8. /\ m \in MemType /\ m.ok = "ok" /\ m.as = vm[p] /\ m.free = free
      /\ m.as.dir /\ m.as.pages = PagesIn(0, sz)
  <2>1. m = [free |-> free, as |-> vm[p], ok |-> "ok"]
    BY <1>7 DEF Mem
  <2>2. m \in MemType
    BY <1>1, <2>1, MemMake
  <2>3. vm[p].dir /\ vm[p].pages = PagesIn(0, sz)
    BY <1>1, <1>2, <1>3 DEF Fits
  <2> QED BY <2>1, <2>2, <2>3
<1>9. PICK r : r = IF n > 0 THEN Allocuvm(m, sz, newsz)
                   ELSE [m |-> IF newsz >= sz THEN m ELSE Deallocuvm(m, sz, newsz),
                         ret |-> IF newsz >= sz THEN sz ELSE newsz]
  OBVIOUS
<1>10. /\ free' = r.m.free
       /\ vm' = [vm EXCEPT ![p] = [r.m.as EXCEPT !.sz = IF r.ret = 0 THEN sz ELSE r.ret,
                                                 !.guard = @ \cap r.m.as.pages]]
       /\ state' = [state EXCEPT ![p] = CASE r.m.ok = "panic" -> "panic"
                                          [] n < 0 /\ r.ret = 0 -> "faulty"
                                          [] OTHER -> "running"]
  BY <1>3, <1>5, <1>7, <1>9 DEF Sbrk
(* Whatever happens, the pages are conserved and match the size unless the  *)
(* process has given up all of them.                                        *)
<1>11. /\ r.m \in MemType /\ r.m.ok = "ok" /\ SameRest(m.as, r.m.as)
       /\ r.m.free + PagesOf(r.m.as) = m.free + PagesOf(m.as)
       /\ r.ret \in 0..(KERNBASE - 1)
       /\ \/ r.m.as.pages = PagesIn(0, IF r.ret = 0 THEN sz ELSE r.ret)
          \/ n < 0 /\ r.ret = 0
  <2>1. CASE n > 0
    <3>1. r = Allocuvm(m, sz, newsz)
      BY <1>9, <2>1
    <3> QED BY <1>4, <1>6, <1>8, <3>1, AllocMapped
  <2>2. CASE ~(n > 0) /\ newsz >= sz
    <3>1. r = [m |-> m, ret |-> sz]
      BY <1>9, <2>2
    <3>2. SameRest(m.as, m.as)
      BY DEF SameRest
    <3> QED BY <1>4, <1>8, <3>1, <3>2
  <2>3. CASE ~(n > 0) /\ ~(newsz >= sz)
    <3>1. PICK d : d = Deallocuvm(m, sz, newsz)
      OBVIOUS
    <3>2. r = [m |-> d, ret |-> newsz]
      BY <1>9, <2>3, <3>1
    <3>3. newsz < sz /\ n < 0 /\ newsz \in 0..(KERNBASE - 1)
      BY <1>4, <1>6, <2>3
    <3>4. /\ d \in MemType /\ d.ok = "ok" /\ SameRest(m.as, d.as)
          /\ d.free + PagesOf(d.as) = m.free + PagesOf(m.as)
          /\ d.as.pages = PagesIn(0, newsz)
      BY <1>4, <1>6, <1>8, <3>1, <3>3, DeallocMapped
    <3>5. r.m = d /\ r.ret = newsz
      BY <3>2
    <3> QED BY <3>3, <3>4, <3>5
  <2> QED BY <2>1, <2>2, <2>3
<1>12. PICK u, s, g : u = r.m.as /\ s = (IF r.ret = 0 THEN sz ELSE r.ret) /\ g = u.guard \cap u.pages
  OBVIOUS
<1>13. u \in VmType /\ s \in 0..(KERNBASE - 1) /\ g \in SUBSET Vpn /\ u.dir /\ u.esp \in 0..(Word - 1)
  <2>1. u \in VmType /\ u.dir
    BY <1>8, <1>11, <1>12 DEF MemType, SameRest
  <2>2. g \in SUBSET Vpn /\ u.esp \in 0..(Word - 1)
    BY <1>12, <2>1, VmFields
  <2>3. s \in 0..(KERNBASE - 1)
    BY <1>4, <1>11, <1>12
  <2> QED BY <2>1, <2>2, <2>3
<1>14. PICK x : x = [u EXCEPT !.sz = s, !.guard = g]
  OBVIOUS
<1>15. vm' = [vm EXCEPT ![p] = x]
  <2>1. [u EXCEPT !.sz = s, !.guard = @ \cap u.pages] = [u EXCEPT !.sz = s, !.guard = g]
    BY <1>12, <1>13 DEF VmType
  <2> QED BY <1>10, <1>12, <1>14, <2>1
<1>16. /\ x \in VmType /\ x.dir = u.dir /\ x.pages = u.pages /\ PagesOf(x) = PagesOf(u)
       /\ x.sz = s
  <2>1. PICK e : e = u.esp
    OBVIOUS
  <2>2. Updated(u, x, g, s, e)
    BY <1>13, <1>14, <2>1, ExceptUpdates
  <2>3. e \in 0..(Word - 1) /\ u \in VmType /\ g \in SUBSET Vpn /\ s \in 0..(KERNBASE - 1)
    BY <1>13, <2>1
  <2>4. x \in VmType /\ Kept(u, x) /\ x.sz = s
    BY <2>2, <2>3, VmUpdate
  <2> QED BY <2>4 DEF Kept
<1>17. free' \in Nat /\ free' + PagesOf(x) = free + PagesOf(vm[p])
  BY <1>8, <1>10, <1>11, <1>12, <1>16 DEF MemType
<1>18. PagesOf(x) \in Nat
  BY <1>16, PagesOfNat
<1>19. CASE n < 0 /\ r.ret = 0
  <2>1. state' = [state EXCEPT ![p] = "faulty"]
    BY <1>10, <1>11, <1>19
  <2>2. Fits(x, new[p], "faulty")
    BY <1>1, <1>2, <1>13, <1>16 DEF Fits
  <2>3. free' + Cost(x, new[p], "faulty") = free + Cost(vm[p], new[p], state[p])
    BY <1>1, <1>2, <1>17, <1>18 DEF Cost
  <2>4. "faulty" \in State /\ StackStep(p, "faulty")
    BY <1>2, StackSteps DEF State
  <2>5. new' = [new EXCEPT ![p] = new[p]]
    BY <1>1, <1>2
  <2> QED BY <1>0, <1>1, <1>15, <1>16, <1>17, <2>1, <2>2, <2>3, <2>4, <2>5, OneProcess
<1>20. CASE ~(n < 0 /\ r.ret = 0)
  <2>1. state' = [state EXCEPT ![p] = "running"]
    BY <1>10, <1>11, <1>20
  <2>2. Fits(x, new[p], "running")
    <3>1. x.pages = PagesIn(0, x.sz)
      BY <1>11, <1>12, <1>16, <1>20
    <3> QED BY <1>1, <1>2, <1>13, <1>16, <3>1 DEF Fits
  <2>3. free' + Cost(x, new[p], "running") = free + Cost(vm[p], new[p], state[p])
    BY <1>1, <1>2, <1>17, <1>18 DEF Cost
  <2>4. "running" \in State /\ StackStep(p, "running")
    BY <1>2, StackSteps DEF State
  <2>5. new' = [new EXCEPT ![p] = new[p]]
    BY <1>1, <1>2
  <2> QED BY <1>0, <1>1, <1>15, <1>16, <1>17, <2>1, <2>2, <2>3, <2>4, <2>5, OneProcess
<1> QED BY <1>19, <1>20
LEMMA EmptySpace == PagesIn(0, 0) = {}
BY PagesBelowOrder DEF PagesIn

LEMMA ExecStartKeeps ==
    ASSUME VmInv, NEW p \in Slot, ExecStart(p) PROVE VmInv'
<1>0. Argcs'
  <2>1. argc' = argc \/ argc' = [argc EXCEPT ![p] = 0]
    BY DEF ExecStart
  <2> QED BY <2>1, ArgcSteps
<1>1. PICK k : k = Setupkvm(free)
  OBVIOUS
<1>2. /\ state[p] = "running" /\ k.ok = "ok" /\ free' = k.free
      /\ new' = [new EXCEPT ![p] = k.as] /\ state' = [state EXCEPT ![p] = "exec"]
      /\ kstack' = kstack /\ vm' = vm
  BY <1>1 DEF ExecStart
<1>3. /\ free \in Nat /\ vm[p] \in VmType /\ new[p] \in VmType
      /\ Fits(vm[p], new[p], state[p])
      /\ PagesOf(vm[p]) \in Nat /\ PagesOf(new[p]) = 0
      /\ vm' = [vm EXCEPT ![p] = vm[p]]
  BY <1>2, InvAt DEF Fits
<1>4. /\ k \in MemType /\ k.free \in Nat /\ k.as.dir /\ k.free + PagesOf(k.as) = free
      /\ k.as.pages = {} /\ k.as.sz = 0
  BY <1>1, <1>2, <1>3, SetupKeeps
<1>5. k.as \in VmType /\ PagesOf(k.as) \in Nat
  BY <1>4, PagesOfNat DEF MemType
<1>6. Fits(vm[p], k.as, "exec")
  BY <1>2, <1>3, <1>4, EmptySpace DEF Fits
<1>7. /\ free' \in Nat
      /\ free' + Cost(vm[p], k.as, "exec") = free + Cost(vm[p], new[p], state[p])
  BY <1>2, <1>3, <1>4, <1>5 DEF Cost
<1>8. "exec" \in State /\ StackStep(p, "exec")
  BY <1>2, StackSteps DEF State
<1> QED BY <1>0, <1>2, <1>3, <1>5, <1>6, <1>7, <1>8, OneProcess

(* exec() gives up: the new image goes back to the free list.               *)
LEMMA ExecBadKeeps ==
    ASSUME VmInv, NEW p \in Slot, state[p] = "exec", NEW m \in MemType, m.as.dir,
           m.free + PagesOf(m.as) = free + PagesOf(new[p]), ExecBad(p, m)
    PROVE  VmInv'
<1>0. Argcs'
  <2>1. argc' = argc \/ argc' = [argc EXCEPT ![p] = 0]
    BY DEF ExecBad
  <2> QED BY <2>1, ArgcSteps
<1>1. /\ free' = Freevm(m.free, m.as) /\ new' = [new EXCEPT ![p] = NoVm]
      /\ state' = [state EXCEPT ![p] = "running"] /\ kstack' = kstack /\ vm' = vm
  BY DEF ExecBad
<1>2. /\ free \in Nat /\ vm[p] \in VmType
      /\ Fits(vm[p], new[p], state[p])
      /\ PagesOf(vm[p]) \in Nat /\ PagesOf(new[p]) \in Nat
      /\ vm' = [vm EXCEPT ![p] = vm[p]]
  BY <1>1, InvAt
<1>3. free' = free + PagesOf(new[p])
  <2>1. m.free \in Int /\ m.as \in VmType
    BY DEF MemType
  <2>2. Freevm(m.free, m.as) = m.free + PagesOf(m.as)
    BY <2>1, FreevmGives
  <2> QED BY <1>1, <2>2
<1>4. Fits(vm[p], NoVm, "running")
  BY <1>2, NoVmType DEF Fits
<1>5. /\ free' \in Nat
      /\ free' + Cost(vm[p], NoVm, "running") = free + Cost(vm[p], new[p], state[p])
  BY <1>2, <1>3, NoVmType DEF Cost
<1>6. "running" \in State /\ StackStep(p, "running") /\ NoVm \in VmType
  BY <1>1, StackSteps, NoVmType DEF State
<1> QED BY <1>0, <1>1, <1>2, <1>4, <1>5, <1>6, OneProcess

(* The memory exec() starts a step with.                                    *)
LEMMA ExecMem ==
    ASSUME VmInv, NEW p \in Slot, state[p] = "exec", NEW m, m = Mem(free, new[p])
    PROVE  /\ m \in MemType /\ m.ok = "ok" /\ m.as = new[p] /\ m.free = free
           /\ m.as.dir /\ m.as.pages = PagesIn(0, new[p].sz)
           /\ new[p].sz \in 0..(KERNBASE - 1) /\ new[p].sz \in Nat
           /\ m.free + PagesOf(m.as) = free + PagesOf(new[p])
<1>1. free \in Nat /\ new[p] \in VmType /\ Fits(vm[p], new[p], state[p])
  BY InvAt
<1>2. m = [free |-> free, as |-> new[p], ok |-> "ok"]
  BY DEF Mem
<1>3. m \in MemType
  BY <1>1, <1>2, MemMake
<1>4. new[p].dir /\ new[p].pages = PagesIn(0, new[p].sz)
  BY <1>1 DEF Fits
<1>5. new[p].sz \in 0..(KERNBASE - 1) /\ new[p].sz \in Nat
  BY <1>1, VmFields
<1> QED BY <1>2, <1>3, <1>4, <1>5

LEMMA ExecLoadKeeps ==
    ASSUME VmInv, NEW p \in Slot, NEW seg \in Segments, ExecLoad(p, seg)
    PROVE  VmInv' /\ (state'[p] = "exec" => new'[p].guard = {})
<1>0. Argcs'
  <2>1. argc' = argc \/ argc' = [argc EXCEPT ![p] = 0]
    BY DEF ExecLoad, ExecBad
  <2> QED BY <2>1, ArgcSteps
<1>1. state[p] = "exec" /\ new[p].guard = {}
  BY DEF ExecLoad
<1>20. new \in [Slot -> VmType] /\ state \in [Slot -> State]
  BY InvParts DEF TypeOK, State
<1>21. ASSUME NEW n, ExecBad(p, n) PROVE state'[p] # "exec"
  BY <1>20, <1>21 DEF ExecBad
<1>2. PICK end : end = (seg.vaddr + seg.memsz) % Word
  OBVIOUS
<1>3. PICK m : m = Mem(free, new[p])
  OBVIOUS
<1>4. PICK r : r = Allocuvm(m, new[p].sz, end)
  OBVIOUS
<1>5. \/ ExecBad(p, m)
      \/ ExecBad(p, r.m)
      \/ /\ r.ret # 0 /\ free' = r.m.free
         /\ new' = [new EXCEPT ![p] = [r.m.as EXCEPT !.sz = r.ret]]
         /\ state' = [state EXCEPT ![p] = IF r.m.ok = "panic" THEN "panic" ELSE @]
         /\ kstack' = kstack /\ vm' = vm
  BY <1>2, <1>3, <1>4 DEF ExecLoad
<1>6. end \in Nat
  <2>1. seg.vaddr \in 0..(Word - 1) /\ seg.memsz \in 0..(Word - 1) /\ Word \in Nat /\ Word > KERNBASE
        /\ KERNBASE \in Nat
    BY VmFacts
  <2>2. PICK a \in Nat : a = seg.vaddr + seg.memsz
    BY <2>1
  <2>3. a % Word \in 0..(Word - 1)
    BY <2>1
  <2> QED BY <1>2, <2>1, <2>2, <2>3
<1>7. /\ m \in MemType /\ m.ok = "ok" /\ m.as = new[p] /\ m.free = free
      /\ m.as.dir /\ m.as.pages = PagesIn(0, new[p].sz)
      /\ new[p].sz \in 0..(KERNBASE - 1) /\ new[p].sz \in Nat
      /\ m.free + PagesOf(m.as) = free + PagesOf(new[p])
  BY <1>1, <1>3, ExecMem
<1>8. /\ r.m \in MemType /\ r.m.ok = "ok" /\ SameRest(m.as, r.m.as)
      /\ r.m.free + PagesOf(r.m.as) = m.free + PagesOf(m.as)
      /\ r.ret \in 0..(KERNBASE - 1)
      /\ r.m.as.pages = PagesIn(0, IF r.ret = 0 THEN new[p].sz ELSE r.ret)
  BY <1>4, <1>6, <1>7, AllocMapped
<1>9. r.m.as.dir /\ r.m.free + PagesOf(r.m.as) = free + PagesOf(new[p])
  BY <1>7, <1>8 DEF SameRest
<1>10. CASE ExecBad(p, m)
  BY <1>1, <1>7, <1>10, <1>21, ExecBadKeeps
<1>11. CASE ExecBad(p, r.m)
  BY <1>1, <1>8, <1>9, <1>11, <1>21, ExecBadKeeps
<1>12. CASE /\ r.ret # 0 /\ free' = r.m.free
            /\ new' = [new EXCEPT ![p] = [r.m.as EXCEPT !.sz = r.ret]]
            /\ state' = [state EXCEPT ![p] = IF r.m.ok = "panic" THEN "panic" ELSE @]
            /\ kstack' = kstack /\ vm' = vm
  <2>1. PICK u, s, g, e : u = r.m.as /\ s = r.ret /\ g = u.guard /\ e = u.esp
    OBVIOUS
  <2>2. u \in VmType /\ s \in 0..(KERNBASE - 1) /\ g \in SUBSET Vpn /\ e \in 0..(Word - 1)
    <3>1. u \in VmType
      BY <1>8, <2>1 DEF MemType
    <3>2. u.guard \in SUBSET Vpn /\ u.esp \in 0..(Word - 1)
      BY <3>1, VmFields
    <3> QED BY <1>8, <2>1, <3>1, <3>2
  <2>3. PICK y : y = [u EXCEPT !.sz = s]
    OBVIOUS
  <2>4. Updated(u, y, g, s, e)
    BY <2>1, <2>2, <2>3, ExceptUpdates
  <2>5. y \in VmType /\ y.dir = u.dir /\ y.pages = u.pages /\ PagesOf(y) = PagesOf(u) /\ y.sz = s
        /\ y.guard = g
    <3>1. y \in VmType /\ Kept(u, y) /\ y.sz = s /\ y.guard = g
      BY <2>2, <2>4, VmUpdate
    <3> QED BY <3>1 DEF Kept
  <2>6. new' = [new EXCEPT ![p] = y]
    BY <1>12, <2>1, <2>3
  <2>7. /\ free \in Nat /\ vm[p] \in VmType /\ Fits(vm[p], new[p], state[p])
        /\ PagesOf(vm[p]) \in Nat /\ PagesOf(new[p]) \in Nat
        /\ vm' = [vm EXCEPT ![p] = vm[p]]
    BY <1>12, InvAt
  <2>8. state' = [state EXCEPT ![p] = "exec"]
    BY <1>1, <1>8, <1>12
  <2>9. y.pages = PagesIn(0, y.sz) /\ y.dir
    BY <1>8, <1>9, <1>12, <2>1, <2>5
  <2>10. Fits(vm[p], y, "exec")
    BY <1>1, <2>7, <2>9 DEF Fits
  <2>11. PagesOf(y) \in Nat
    BY <2>5, PagesOfNat
  <2>12. free' \in Nat /\ free' + PagesOf(y) = free + PagesOf(new[p])
    BY <1>8, <1>9, <1>12, <2>1, <2>5 DEF MemType
  <2>13. free' + Cost(vm[p], y, "exec") = free + Cost(vm[p], new[p], state[p])
    BY <1>1, <2>7, <2>11, <2>12 DEF Cost
  <2>14. "exec" \in State /\ StackStep(p, "exec")
    BY <1>1, <1>12, StackSteps DEF State
  <2>15. VmInv'
    BY <1>0, <2>5, <2>6, <2>7, <2>8, <2>10, <2>12, <2>13, <2>14, OneProcess
  <2>16. y.guard = {}
    BY <1>1, <1>7, <1>8, <2>1, <2>5 DEF SameRest
  <2> QED BY <1>20, <2>6, <2>15, <2>16
<1> QED BY <1>5, <1>10, <1>11, <1>12
(***************************************************************************)
(* The stack of a new image.                                               *)
(***************************************************************************)

(* Memory as ExecStack() finds it after allocuvm().                         *)
LEMMA StackAllocated ==
    ASSUME VmInv, NEW p \in Slot, state[p] = "exec",
           NEW m, m = Mem(free, new[p]), NEW base, base = RoundUp(new[p].sz),
           NEW r, r = Allocuvm(m, base, base + 2 * PGSIZE)
    PROVE  /\ r.m \in MemType /\ r.m.ok = "ok" /\ r.m.as.dir
           /\ r.m.free + PagesOf(r.m.as) = free + PagesOf(new[p])
           /\ r.ret # 0 =>
                /\ base \div PGSIZE \in Vpn /\ base = PGSIZE * (base \div PGSIZE)
                /\ r.ret = base + 2 * PGSIZE /\ r.ret \in 0..(KERNBASE - 1)
                /\ r.m.as.pages = PagesIn(0, r.ret)
<1>3. /\ m \in MemType /\ m.ok = "ok" /\ m.as = new[p] /\ m.free = free
      /\ m.as.dir /\ m.as.pages = PagesIn(0, new[p].sz)
      /\ new[p].sz \in 0..(KERNBASE - 1) /\ new[p].sz \in Nat
      /\ m.free + PagesOf(m.as) = free + PagesOf(new[p])
  BY ExecMem
<1>4. base \in Nat
  BY <1>3, RoundUpIs
<1>5. PICK k \in Nat : k = PagesBelow(new[p].sz)
  BY <1>3, PagesBelowIs
<1>6. base = PGSIZE * k /\ base \div PGSIZE = k /\ PagesBelow(base) = k
  BY <1>3, <1>5, RoundUpIs
<1>7. PGSIZE \in Nat /\ PGSIZE > 0 /\ KERNBASE \in Nat
  BY VmFacts
<1>8. PICK top \in Nat : top = base + 2 * PGSIZE
  BY <1>4, <1>7
<1>12. /\ r.m \in MemType /\ r.m.ok = "ok" /\ SameRest(m.as, r.m.as)
       /\ r.m.free + PagesOf(r.m.as) = m.free + PagesOf(m.as)
       /\ r.ret # 0 => r.ret = top /\ top < KERNBASE /\ r.m.as.pages = PagesIn(0, r.ret)
  <2>1. CASE top >= KERNBASE
    <3>1. r = [m |-> m, ret |-> 0]
      BY <1>8, <2>1 DEF Allocuvm, OverLimit
    <3>2. SameRest(m.as, m.as)
      BY DEF SameRest
    <3> QED BY <1>3, <3>1, <3>2
  <2>2. CASE top < KERNBASE
    <3>1. base \in 0..(KERNBASE - 1) /\ ~(top < base)
      BY <1>4, <1>7, <1>8, <2>2
    <3>2. PagesIn(0, base) = PagesIn(0, new[p].sz)
      BY <1>5, <1>6 DEF PagesIn
    <3>3. /\ r.m \in MemType /\ r.m.ok = "ok" /\ SameRest(m.as, r.m.as)
          /\ r.m.free + PagesOf(r.m.as) = m.free + PagesOf(m.as)
          /\ r.ret # top => r.ret = 0 \/ top < base
          /\ r.m.as.pages = PagesIn(0, IF r.ret = 0 THEN base ELSE r.ret)
      <4>1. r = Allocuvm(m, base, top)
        BY <1>8
      <4> QED BY <1>3, <3>1, <3>2, <4>1, AllocMapped
    <3> QED BY <2>2, <3>1, <3>3
  <2> QED BY <1>7, <2>1, <2>2
<1>13. r.m.as.dir /\ r.m.free + PagesOf(r.m.as) = free + PagesOf(new[p])
  BY <1>3, <1>12 DEF SameRest
<1>14. ASSUME r.ret # 0 PROVE k \in Vpn
  <2>1. PICK j \in Nat : j = KERNBASE \div PGSIZE /\ KERNBASE = PGSIZE * j
    BY UserPages, KernbaseAligned
  <2>2. PGSIZE * (k + 1) = base + PGSIZE /\ PGSIZE * j \in Nat
    BY <1>6, <1>7
  <2>3. PGSIZE * (k + 1) < PGSIZE * j + PGSIZE
    BY <1>4, <1>7, <1>8, <1>12, <1>14, <2>1, <2>2
  <2>4. k + 1 <= j
    BY <1>7, <2>3, TimesMonotone
  <2> QED BY <2>1, <2>4 DEF Vpn
<1>15. r.ret # 0 => r.ret = top /\ r.ret \in 0..(KERNBASE - 1)
  BY <1>7, <1>8, <1>12
<1> QED BY <1>6, <1>8, <1>12, <1>13, <1>14, <1>15

(* A step that goes on with another guard page, size or stack pointer, and  *)
(* takes or gives back no page but those mapped.                            *)
LEMMA ExecGoesOn ==
    ASSUME VmInv, NEW p \in Slot, state[p] = "exec", NEW y \in VmType, y.dir,
           y.pages = PagesIn(0, y.sz), free' \in Nat,
           free' + PagesOf(y) = free + PagesOf(new[p]), Argcs',
           new' = [new EXCEPT ![p] = y], state' = [state EXCEPT ![p] = "exec"],
           kstack' = kstack, vm' = vm
    PROVE  VmInv'
<1>1. /\ free \in Nat /\ vm[p] \in VmType /\ Fits(vm[p], new[p], state[p])
      /\ PagesOf(vm[p]) \in Nat /\ PagesOf(new[p]) \in Nat
      /\ vm' = [vm EXCEPT ![p] = vm[p]]
  BY InvAt
<1>2. Fits(vm[p], y, "exec")
  BY <1>1 DEF Fits
<1>3. PagesOf(y) \in Nat
  BY PagesOfNat
<1>4. free' + Cost(vm[p], y, "exec") = free + Cost(vm[p], new[p], state[p])
  BY <1>1, <1>3 DEF Cost
<1>5. "exec" \in State /\ StackStep(p, "exec")
  BY StackSteps DEF State
<1> QED BY <1>1, <1>2, <1>4, <1>5, OneProcess

(* The stack pointer lies in the page above the guard page.                 *)
OnStack(x) ==
    \E k \in Vpn :
       /\ x.guard = {k} /\ x.sz = PGSIZE * k + 2 * PGSIZE
       /\ PGSIZE * k + PGSIZE <= x.esp /\ x.esp <= x.sz

LEMMA ExecStackKeeps ==
    ASSUME VmInv, NEW p \in Slot, ExecStack(p)
    PROVE  VmInv' /\ (new'[p] # NoVm => OnStack(new'[p])) /\ vm' = vm
<1>0. Argcs'
  <2>1. argc' = argc \/ argc' = [argc EXCEPT ![p] = 0]
    BY DEF ExecStack, ExecBad
  <2> QED BY <2>1, ArgcSteps
<1>1. state[p] = "exec" /\ new \in [Slot -> VmType]
  BY InvParts DEF ExecStack, TypeOK
<1>2. PICK m : m = Mem(free, new[p])
  OBVIOUS
<1>3. PICK base : base = RoundUp(new[p].sz)
  OBVIOUS
<1>4. PICK r : r = Allocuvm(m, base, base + 2 * PGSIZE)
  OBVIOUS
<1>5. PICK k : k = base \div PGSIZE
  OBVIOUS
<1>6. PICK x : x = [r.m.as EXCEPT !.sz = r.ret, !.esp = r.ret, !.guard = {k}]
  OBVIOUS
<1>7. /\ r.m \in MemType /\ r.m.ok = "ok" /\ r.m.as.dir
      /\ r.m.free + PagesOf(r.m.as) = free + PagesOf(new[p])
      /\ r.ret # 0 =>
           /\ k \in Vpn /\ base = PGSIZE * k
           /\ r.ret = base + 2 * PGSIZE /\ r.ret \in 0..(KERNBASE - 1)
           /\ r.m.as.pages = PagesIn(0, r.ret)
  BY <1>1, <1>2, <1>3, <1>4, <1>5, StackAllocated
<1>8. \/ ExecBad(p, r.m)
      \/ /\ r.ret # 0 /\ free' = r.m.free /\ new' = [new EXCEPT ![p] = x]
         /\ state' = [state EXCEPT ![p] = IF r.m.ok = "panic" THEN "panic" ELSE @]
         /\ kstack' = kstack /\ vm' = vm
  BY <1>2, <1>3, <1>4, <1>5, <1>6 DEF ExecStack
<1>9. CASE ExecBad(p, r.m)
  <2>1. VmInv'
    BY <1>1, <1>7, <1>9, ExecBadKeeps
  <2>2. new' = [new EXCEPT ![p] = NoVm] /\ vm' = vm
    BY <1>9 DEF ExecBad
  <2> QED BY <1>1, <2>1, <2>2
<1>10. CASE /\ r.ret # 0 /\ free' = r.m.free /\ new' = [new EXCEPT ![p] = x]
            /\ state' = [state EXCEPT ![p] = IF r.m.ok = "panic" THEN "panic" ELSE @]
            /\ kstack' = kstack /\ vm' = vm
  <2>1. PICK u, s, g, e : u = r.m.as /\ s = r.ret /\ g = {k} /\ e = r.ret
    OBVIOUS
  <2>2. u \in VmType /\ s \in 0..(KERNBASE - 1) /\ g \in SUBSET Vpn /\ e \in 0..(Word - 1)
    <3>1. u \in VmType
      BY <1>7, <2>1 DEF MemType
    <3>2. s \in 0..(KERNBASE - 1) /\ e \in 0..(Word - 1) /\ k \in Vpn
      BY <1>7, <1>10, <2>1, VmFacts
    <3> QED BY <2>1, <3>1, <3>2
  <2>3. x = [u EXCEPT !.sz = s, !.esp = e, !.guard = g]
    BY <1>6, <2>1
  <2>4. Updated(u, x, g, s, e)
    BY <2>2, <2>3, ExceptUpdates
  <2>5. x \in VmType /\ Kept(u, x) /\ x.sz = s /\ x.guard = g /\ x.esp = e
    BY <2>2, <2>4, VmUpdate
  <2>6. x.dir /\ x.pages = PagesIn(0, x.sz) /\ PagesOf(x) = PagesOf(r.m.as)
    BY <1>7, <1>10, <2>1, <2>5 DEF Kept
  <2>7. free' \in Nat /\ free' + PagesOf(x) = free + PagesOf(new[p])
    BY <1>7, <1>10, <2>6 DEF MemType
  <2>8. state' = [state EXCEPT ![p] = "exec"]
    BY <1>1, <1>7, <1>10
  <2>9. VmInv'
    BY <1>0, <1>1, <1>10, <2>5, <2>6, <2>7, <2>8, ExecGoesOn
  <2>10. OnStack(x)
    <3>1. /\ x.guard = {k} /\ k \in Vpn /\ x.sz = base + 2 * PGSIZE /\ x.esp = x.sz
          /\ base = PGSIZE * k
      BY <1>7, <1>10, <2>1, <2>5
    <3>2. k \in Nat /\ PGSIZE \in Nat
      BY <3>1, VpnFinite, VmFacts
    <3>3. PGSIZE * k \in Nat
      BY <3>2
    <3> QED BY <3>1, <3>2, <3>3 DEF OnStack
  <2>11. new'[p] = x
    BY <1>1, <1>10
  <2> QED BY <1>10, <2>9, <2>10, <2>11
<1> QED BY <1>8, <1>9, <1>10

(* exec() gives up its new image as it is.                                  *)
LEMMA GivesUp ==
    ASSUME VmInv, NEW p \in Slot, state[p] = "exec", ExecBad(p, Mem(free, new[p]))
    PROVE  VmInv'
<1>1. PICK m : m = Mem(free, new[p])
  OBVIOUS
<1>2. m \in MemType /\ m.as.dir /\ m.free + PagesOf(m.as) = free + PagesOf(new[p])
  BY <1>1, ExecMem
<1>3. ExecBad(p, m)
  BY <1>1
<1> QED BY <1>2, <1>3, ExecBadKeeps

LEMMA CopyFailsKeeps ==
    ASSUME VmInv, NEW p \in Slot, state[p] = "exec", NEW sp, NEW len, CopyFails(p, sp, len)
    PROVE  VmInv' /\ vm' = vm /\ state'[p] # "exec"
<1>1. state \in [Slot -> State]
  BY InvParts DEF TypeOK, State
<1>2. CASE ExecBad(p, Mem(free, new[p]))
  <2>1. vm' = vm /\ state' = [state EXCEPT ![p] = "running"]
    BY <1>2 DEF ExecBad
  <2> QED BY <1>1, <1>2, <2>1, GivesUp
<1>3. CASE /\ state' = [state EXCEPT ![p] = "stray"]
           /\ UNCHANGED <<free, kstack, vm, new, argc>>
  <2>1. /\ free \in Nat /\ vm[p] \in VmType /\ new[p] \in VmType
        /\ Fits(vm[p], new[p], state[p])
        /\ vm' = [vm EXCEPT ![p] = vm[p]] /\ new' = [new EXCEPT ![p] = new[p]]
    BY <1>3, InvAt
  <2>2. Fits(vm[p], new[p], "stray")
    BY <2>1 DEF Fits
  <2>3. /\ free' \in Nat
        /\ free' + Cost(vm[p], new[p], "stray") = free + Cost(vm[p], new[p], state[p])
    BY <1>3, <2>1 DEF Cost
  <2>4. "stray" \in State /\ StackStep(p, "stray")
    BY <1>3, StackSteps DEF State
  <2>5. Argcs'
    BY <1>3, ArgcSteps
  <2>6. VmInv'
    BY <1>3, <2>1, <2>2, <2>3, <2>4, <2>5, OneProcess
  <2> QED BY <1>1, <1>3, <2>6
<1> QED BY <1>2, <1>3 DEF CopyFails

(* The new image with another stack pointer.                                *)
LEMMA Pushed ==
    ASSUME NEW u \in VmType, NEW e \in 0..(Word - 1), NEW y
    PROVE  y = [u EXCEPT !.esp = e] =>
             /\ y \in VmType /\ Kept(u, y) /\ y.sz = u.sz /\ y.guard = u.guard /\ y.esp = e
<1>1. PICK g, s : g = u.guard /\ s = u.sz
  OBVIOUS
<1>2. SUFFICES ASSUME y = [u EXCEPT !.esp = e]
               PROVE  y \in VmType /\ Kept(u, y) /\ y.sz = s /\ y.guard = g /\ y.esp = e
  BY <1>1
<1>3. g \in SUBSET Vpn /\ s \in 0..(KERNBASE - 1)
  BY <1>1, VmFields
<1>4. Updated(u, y, g, s, e)
  BY <1>1, <1>2, ExceptUpdates
<1> QED BY <1>3, <1>4, VmUpdate

(* Unsigned subtraction of what is less than Word.                          *)
LEMMA Wraps ==
    ASSUME NEW a \in 0..(Word - 1), NEW len \in 1..(Word - 1)
    PROVE  /\ (a - len) % Word \in 0..(Word - 1)
           /\ (a - len) % Word = IF len <= a THEN a - len ELSE a - len + Word
<1>1. Word \in Nat /\ Word > 0
  BY VmFacts
<1>2. PICK b \in Int : b = a - len
  BY <1>1
<1>3. b % Word \in 0..(Word - 1)
  BY <1>1
<1>4. CASE len <= a
  <2>1. b \in 0..(Word - 1)
    BY <1>1, <1>2, <1>4
  <2>2. b % Word = b
    BY <1>1, <2>1
  <2> QED BY <1>2, <1>3, <1>4, <2>2
<1>5. CASE a < len
  <2>1. b + Word \in 0..(Word - 1)
    BY <1>1, <1>2, <1>5
  <2>2. b % Word = b + Word
    BY <1>1, <2>1
  <2> QED BY <1>1, <1>2, <1>3, <1>5, <2>2
<1> QED BY <1>1, <1>4, <1>5

LEMMA AlignedIs ==
    ASSUME NEW a \in 0..(Word - 1)
    PROVE  \E t \in 0..(WSIZE - 1) : Aligned(a) = a - t /\ a - t \in 0..(Word - 1)
<1>1. WSIZE \in Nat /\ WSIZE > 0 /\ Word \in Nat /\ a \in Nat
  BY VmFacts
<1>2. PICK q \in Nat, t \in Nat : /\ q = a \div WSIZE /\ t = a % WSIZE
                                  /\ t < WSIZE /\ WSIZE * q <= a /\ a = WSIZE * q + t
  BY <1>1, DivIs
<1>3. WSIZE * q \in Nat
  BY <1>1
<1>4. t \in 0..(WSIZE - 1) /\ a - t \in 0..(Word - 1)
  BY <1>1, <1>2, <1>3
<1> QED BY <1>2, <1>4 DEF Aligned

(* exec()'s stack pointer after a push, or what copyout() is given.         *)
Pushes(x, len, sp) ==
    \E t \in 0..(WSIZE - 1) : /\ sp = ((x.esp - len) % Word) - t
                              /\ sp \in 0..(Word - 1)

(* copyout() that ends above the guard page either begins above it, or goes *)
(* through it, also when it begins at the top of the address space.         *)
LEMMA GuardStops ==
    ASSUME NEW x \in VmType, OnStack(x), NEW len \in 1..(Word - 1), NEW sp,
           Pushes(x, len, sp), "ok" \in Copyout(x, sp, len)
    PROVE  x.sz - PGSIZE <= sp /\ sp < x.esp
<1>1. PICK k \in Vpn : /\ x.guard = {k} /\ x.sz = PGSIZE * k + 2 * PGSIZE
                       /\ PGSIZE * k + PGSIZE <= x.esp /\ x.esp <= x.sz
  BY DEF OnStack
<1>2. /\ PGSIZE \in Nat /\ PGSIZE > 0 /\ k \in Nat /\ Word \in Nat /\ WSIZE \in Nat
      /\ WSIZE > 0 /\ KERNBASE \in Nat /\ KERNBASE < Word /\ WSIZE <= PGSIZE
  <2>1. WSIZE <= PGSIZE
    <3>1. WSIZE \in Nat /\ MAXARG \in Nat /\ (MAXARG + 4) * WSIZE <= PGSIZE /\ PGSIZE \in Nat
      BY VmFacts
    <3>2. (MAXARG + 4) * WSIZE = MAXARG * WSIZE + 4 * WSIZE /\ MAXARG * WSIZE \in Nat
      BY <3>1
    <3> QED BY <3>1, <3>2
  <2> QED BY <2>1, VmFacts, VpnFinite
<1>3. PICK W \in Nat : W = Word \div PGSIZE /\ Word = PGSIZE * W /\ W > k
  <2>1. Word % PGSIZE = 0
    BY VmAssumption
  <2>2. PICK W \in Nat : W = Word \div PGSIZE /\ Word = PGSIZE * W + 0
    BY <1>2, <2>1, DivIs
  <2>3. PICK K \in Nat : K = KERNBASE \div PGSIZE /\ KERNBASE = PGSIZE * K
    BY UserPages, KernbaseAligned
  <2>4. k < K
    BY <1>2, <2>3 DEF Vpn
  <2>5. PGSIZE * K \in Nat /\ PGSIZE * W \in Nat
    BY <1>2
  <2>6. PGSIZE * K < PGSIZE * W + PGSIZE
    BY <1>2, <2>2, <2>3, <2>5
  <2>7. K <= W
    BY <1>2, <2>6, TimesMonotone
  <2> QED BY <1>2, <2>2, <2>4, <2>5, <2>7
<1>4. x.esp \in 0..(Word - 1)
  BY VmFields
<1>5. PICK t \in 0..(WSIZE - 1) : /\ sp = ((x.esp - len) % Word) - t
                                  /\ sp \in 0..(Word - 1)
  BY DEF Pushes
<1>6. /\ (x.esp - len) % Word = IF len <= x.esp THEN x.esp - len ELSE x.esp - len + Word
  BY <1>4, Wraps
<1>7. PICK c \in {0, 1} : sp = x.esp - len - t + (IF c = 1 THEN Word ELSE 0)
                          /\ (c = 1 <=> x.esp < len)
  BY <1>2, <1>4, <1>5, <1>6
<1>8. PICK q \in Nat, o \in Nat : /\ q = sp \div PGSIZE /\ o = sp % PGSIZE
                                  /\ sp = PGSIZE * q + o /\ o < PGSIZE
  <2>1. sp \in Nat
    BY <1>2, <1>5
  <2> QED BY <1>2, <2>1, DivIs
<1>9. PICK n \in Nat : n = PagesBelow(o + len) /\ o + len <= PGSIZE * n
  <2>1. o + len \in Nat
    BY <1>2
  <2> QED BY <2>1, PagesBelowIs
<1>10. \A i \in 0..(n - 1) : (q + i) % W # k
  <2>1. SUFFICES ASSUME NEW i \in 0..(n - 1) PROVE (q + i) % W # k
    OBVIOUS
  <2>2. PICK page : page = Visited(sp, len)
    OBVIOUS
  <2>3. page = [j \in 0..(n - 1) |-> (q + j) % W]
    BY <1>3, <1>8, <1>9, <2>2 DEF Visited
  <2>4. page[i] = (q + i) % W /\ i \in DOMAIN page
    BY <2>3
  <2>5. {j \in DOMAIN page : Uva2ka(x, page[j]) # "page"} = {}
    BY <2>2 DEF Copyout
  <2>6. Uva2ka(x, page[i]) = "page"
    BY <2>4, <2>5
  <2>7. page[i] \notin x.guard
    BY <2>6 DEF Uva2ka
  <2> QED BY <1>1, <2>4, <2>7
<1>11. PICK g \in Nat : g = PGSIZE * k
  BY <1>2
<1>12. PICK f \in Nat : f = PGSIZE * q
  BY <1>2, <1>8
<1>13. g < x.esp - t
  BY <1>1, <1>2, <1>4, <1>5, <1>11
<1>18. /\ t \in Nat /\ len \in Nat /\ sp \in Nat /\ x.esp \in Nat /\ sp < Word
       /\ sp = f + o
  BY <1>2, <1>4, <1>5, <1>8, <1>12
<1>14. sp < g + PGSIZE /\ c = 0 => FALSE
  <2>1. SUFFICES ASSUME sp < g + PGSIZE, c = 0 PROVE FALSE
    OBVIOUS
  <2>2. f < g + PGSIZE
    BY <1>2, <1>8, <1>12, <2>1
  <2>3. q <= k
    BY <1>2, <1>11, <1>12, <2>2, TimesMonotone
  <2>4. PICK i \in Nat : i = k - q
    BY <1>2, <2>3
  <2>5. PGSIZE * i = g - f
    BY <1>2, <1>11, <1>12, <2>4
  <2>6. g - f < o + len
    BY <1>2, <1>7, <1>13, <1>18, <2>1
  <2>7. i < n
    <3>1. PGSIZE * i < PGSIZE * n /\ PGSIZE * n \in Nat /\ PGSIZE * i \in Int
      BY <1>2, <1>9, <2>5, <2>6
    <3>2. PGSIZE * (n - 1) + PGSIZE = PGSIZE * n
      BY <1>2
    <3>3. n - 1 \in Int /\ PGSIZE * i < PGSIZE * (n - 1) + PGSIZE
      BY <3>1, <3>2
    <3>4. i <= n - 1
      BY <1>2, <3>3, TimesMonotone
    <3> QED BY <3>4
  <2>8. (q + i) % W = k
    <3>1. q + i = k
      BY <1>2, <2>4
    <3>2. k % W = k
      BY <1>2, <1>3
    <3> QED BY <3>1, <3>2
  <2> QED BY <1>10, <2>4, <2>7, <2>8
<1>15. c = 1 => FALSE
  <2>1. SUFFICES ASSUME c = 1 PROVE FALSE
    OBVIOUS
  <2>2. f < PGSIZE * W /\ PGSIZE * W \in Nat
    <3>1. PGSIZE * W = Word
      BY <1>3
    <3> QED BY <1>2, <1>18, <3>1
  <2>3. q <= W
    <3>1. PGSIZE * q < PGSIZE * W + PGSIZE
      BY <1>2, <1>12, <2>2
    <3> QED BY <1>2, <3>1, TimesMonotone
  <2>4. PICK i \in Nat : i = W + k - q
    BY <1>2, <2>3
  <2>5. PGSIZE * i = Word + g - f
    BY <1>2, <1>3, <1>11, <1>12, <2>4
  <2>6. Word + g - f < o + len
    BY <1>2, <1>7, <1>13, <1>18, <2>1
  <2>7. i < n
    <3>1. PGSIZE * i < PGSIZE * n /\ PGSIZE * n \in Nat /\ PGSIZE * i \in Int
      BY <1>2, <1>9, <2>5, <2>6
    <3>2. PGSIZE * (n - 1) + PGSIZE = PGSIZE * n
      BY <1>2
    <3>3. n - 1 \in Int /\ PGSIZE * i < PGSIZE * (n - 1) + PGSIZE
      BY <3>1, <3>2
    <3>4. i <= n - 1
      BY <1>2, <3>3, TimesMonotone
    <3> QED BY <3>4
  <2>8. (q + i) % W = k
    <3>1. q + i = W + k
      BY <1>2, <2>4
    <3>2. PICK a \in Nat : a = W + k
      BY <1>2
    <3>3. W > 0 /\ W * 1 = W
      BY <1>2, <1>3
    <3>4. a \div W = 1
      BY <1>2, <1>3, <3>2, <3>3, DivUnique
    <3>5. a % W \in Nat /\ a = W * 1 + (a % W)
      BY <3>3, <3>4, DivIs
    <3>6. a % W = k
      BY <1>2, <3>2, <3>3, <3>5
    <3> QED BY <3>1, <3>2, <3>6
  <2>9. i \in 0..(n - 1)
    BY <2>4, <2>7
  <2> QED BY <1>10, <2>8, <2>9
<1>16. c = 0 /\ sp >= g + PGSIZE
  BY <1>2, <1>5, <1>14, <1>15
<1>17. sp < x.esp
  BY <1>2, <1>4, <1>5, <1>7, <1>16
<1> QED BY <1>1, <1>2, <1>11, <1>16, <1>17

(* A push that succeeds leaves the stack pointer in the stack.              *)
LEMMA StaysOnStack ==
    ASSUME NEW x \in VmType, OnStack(x), NEW len \in 1..(Word - 1), NEW sp,
           Pushes(x, len, sp), "ok" \in Copyout(x, sp, len), NEW y, y = [x EXCEPT !.esp = sp]
    PROVE  OnStack(y) /\ InStack(y) /\ y.esp < x.esp
<1>1. x.sz - PGSIZE <= sp /\ sp < x.esp /\ sp \in 0..(Word - 1)
  BY GuardStops DEF Pushes
<1>2. y.sz = x.sz /\ y.guard = x.guard /\ y.esp = sp
  BY <1>1, Pushed
<1>3. PICK k \in Vpn : /\ x.guard = {k} /\ x.sz = PGSIZE * k + 2 * PGSIZE
                       /\ PGSIZE * k + PGSIZE <= x.esp /\ x.esp <= x.sz
  BY DEF OnStack
<1>4. PICK g \in Nat : g = PGSIZE * k
  BY <1>3, VmFacts, VpnFinite
<1>5. PGSIZE \in Nat /\ x.esp \in Int /\ Word \in Nat
  BY VmFacts, VmFields
<1>6. g + PGSIZE <= sp /\ sp <= x.sz
  BY <1>1, <1>3, <1>4, <1>5
<1>7. OnStack(y)
  BY <1>2, <1>3, <1>4, <1>6 DEF OnStack
<1>8. InStack(y)
  BY <1>1, <1>2, <1>6 DEF InStack
<1> QED BY <1>1, <1>2, <1>7, <1>8

LEMMA ExecPushKeeps ==
    ASSUME VmInv, NEW p \in Slot, NEW len \in ArgLens, ExecPush(p, len)
    PROVE  /\ VmInv' /\ vm' = vm
           /\ state'[p] = "exec" => \E sp :
                /\ new'[p] = [new[p] EXCEPT !.esp = sp] /\ Pushes(new[p], len, sp)
                /\ "ok" \in Copyout(new[p], sp, len) /\ len \in 1..(Word - 1)
<1>1. state[p] = "exec" /\ len <= vm[p].sz
  BY DEF ExecPush
<1>2. /\ new[p] \in VmType /\ vm[p] \in VmType /\ free \in Nat
      /\ new \in [Slot -> VmType] /\ state \in [Slot -> State]
      /\ argc \in [Slot -> 0..MAXARG]
  BY InvAt, InvParts DEF TypeOK, State
<1>3. len \in 1..(Word - 1)
  <2>1. len \in Nat /\ len > 0 /\ Word \in Nat /\ KERNBASE \in Nat /\ Word > KERNBASE
    BY VmFacts
  <2>2. vm[p].sz \in 0..(KERNBASE - 1)
    BY <1>2, VmFields
  <2> QED BY <1>1, <2>1, <2>2
<1>4. PICK sp : sp = Aligned((new[p].esp - len) % Word)
  OBVIOUS
<1>5. Pushes(new[p], len, sp) /\ sp \in 0..(Word - 1)
  <2>1. new[p].esp \in 0..(Word - 1)
    BY <1>2, VmFields
  <2>2. PICK w \in 0..(Word - 1) : w = (new[p].esp - len) % Word
    BY <1>3, <2>1, Wraps
  <2>3. PICK t \in 0..(WSIZE - 1) : sp = w - t /\ sp \in 0..(Word - 1)
    BY <1>4, <2>2, AlignedIs
  <2> QED BY <2>2, <2>3 DEF Pushes
<1>6. \/ ExecBad(p, Mem(free, new[p]))
      \/ CopyFails(p, sp, len)
      \/ /\ argc[p] < MAXARG /\ "ok" \in Copyout(new[p], sp, len)
         /\ new' = [new EXCEPT ![p].esp = sp] /\ argc' = [argc EXCEPT ![p] = @ + 1]
         /\ UNCHANGED <<free, state, kstack, vm>>
  BY <1>4 DEF ExecPush
<1>7. CASE ExecBad(p, Mem(free, new[p]))
  <2>1. vm' = vm /\ state' = [state EXCEPT ![p] = "running"]
    BY <1>7 DEF ExecBad
  <2>2. state'[p] # "exec"
    BY <1>2, <2>1
  <2> QED BY <1>1, <1>7, <2>1, <2>2, GivesUp
<1>8. CASE CopyFails(p, sp, len)
  BY <1>1, <1>8, CopyFailsKeeps
<1>9. CASE /\ argc[p] < MAXARG /\ "ok" \in Copyout(new[p], sp, len)
           /\ new' = [new EXCEPT ![p].esp = sp] /\ argc' = [argc EXCEPT ![p] = @ + 1]
           /\ UNCHANGED <<free, state, kstack, vm>>
  <2>1. PICK y : y = [new[p] EXCEPT !.esp = sp]
    OBVIOUS
  <2>2. new' = [new EXCEPT ![p] = y]
    BY <1>2, <1>9, <2>1
  <2>3. y \in VmType /\ Kept(new[p], y) /\ y.sz = new[p].sz
    BY <1>2, <1>5, <2>1, Pushed
  <2>4. new[p].dir /\ new[p].pages = PagesIn(0, new[p].sz)
    BY <1>1, InvAt DEF Fits
  <2>5. /\ y.dir /\ y.pages = PagesIn(0, y.sz)
        /\ free' \in Nat /\ free' + PagesOf(y) = free + PagesOf(new[p])
    BY <1>2, <1>9, <2>3, <2>4 DEF Kept
  <2>6. state' = [state EXCEPT ![p] = "exec"]
    BY <1>1, <1>2, <1>9
  <2>7. Argcs'
    <3>1. argc[p] \in 0..MAXARG /\ MAXARG \in Nat
      BY <1>2, VmFacts
    <3>2. argc[p] + 1 \in 0..MAXARG
      BY <1>9, <3>1
    <3> QED BY <1>2, <1>9, <3>2 DEF Argcs
  <2>8. VmInv'
    BY <1>1, <1>9, <2>2, <2>3, <2>5, <2>6, <2>7, ExecGoesOn
  <2>9. new'[p] = [new[p] EXCEPT !.esp = sp]
    BY <1>2, <2>1, <2>2
  <2> QED BY <1>3, <1>5, <1>9, <2>8, <2>9
<1> QED BY <1>6, <1>7, <1>8, <1>9

LEMMA ExecCommitKeeps ==
    ASSUME VmInv, NEW p \in Slot, ExecCommit(p)
    PROVE  /\ VmInv' /\ state'[p] # "exec"
           /\ \/ vm' = vm
              \/ \E sp, len :
                   /\ vm' = [vm EXCEPT ![p] = [new[p] EXCEPT !.esp = sp]]
                   /\ Pushes(new[p], len, sp)
                   /\ "ok" \in Copyout(new[p], sp, len) /\ len \in 1..(Word - 1)
<1>1. state[p] = "exec"
  BY DEF ExecCommit
<1>2. /\ new[p] \in VmType /\ vm[p] \in VmType /\ free \in Nat
      /\ state \in [Slot -> State] /\ argc[p] \in 0..MAXARG
  BY InvAt, InvParts DEF TypeOK, State
<1>3. PICK len : len = (3 + argc[p] + 1) * WSIZE
  OBVIOUS
<1>4. len \in 1..(Word - 1)
  <2>1. /\ WSIZE \in Nat /\ WSIZE > 0 /\ MAXARG \in Nat /\ (MAXARG + 4) * WSIZE <= PGSIZE
        /\ PGSIZE \in Nat /\ KERNBASE \in Nat /\ KERNBASE > PGSIZE /\ Word \in Nat
        /\ Word > KERNBASE
    BY VmFacts
  <2>2. PICK j \in Nat : MAXARG = argc[p] + j
    <3>1. MAXARG - argc[p] \in Nat
      BY <1>2, <2>1
    <3> QED BY <1>2, <2>1, <3>1
  <2>3. (MAXARG + 4) * WSIZE = len + j * WSIZE /\ j * WSIZE \in Nat
    BY <1>2, <1>3, <2>1, <2>2
  <2>4. len = argc[p] * WSIZE + 4 * WSIZE /\ argc[p] * WSIZE \in Nat
    BY <1>2, <1>3, <2>1
  <2> QED BY <2>1, <2>3, <2>4
<1>5. PICK sp : sp = (new[p].esp - len) % Word
  OBVIOUS
<1>6. Pushes(new[p], len, sp) /\ sp \in 0..(Word - 1)
  <2>1. new[p].esp \in 0..(Word - 1)
    BY <1>2, VmFields
  <2>2. sp \in 0..(Word - 1)
    BY <1>4, <1>5, <2>1, Wraps
  <2>3. 0 \in 0..(WSIZE - 1) /\ sp = sp - 0
    BY <2>2, VmFacts
  <2> QED BY <1>5, <2>2, <2>3 DEF Pushes
<1>7. \/ CopyFails(p, sp, len)
      \/ /\ "ok" \in Copyout(new[p], sp, len) /\ free' = Freevm(free, vm[p])
         /\ vm' = [vm EXCEPT ![p] = [new[p] EXCEPT !.esp = sp]]
         /\ new' = [new EXCEPT ![p] = NoVm] /\ state' = [state EXCEPT ![p] = "running"]
         /\ argc' = [argc EXCEPT ![p] = 0] /\ kstack' = kstack
  BY <1>3, <1>5 DEF ExecCommit
<1>8. CASE CopyFails(p, sp, len)
  BY <1>1, <1>8, CopyFailsKeeps
<1>9. CASE /\ "ok" \in Copyout(new[p], sp, len) /\ free' = Freevm(free, vm[p])
           /\ vm' = [vm EXCEPT ![p] = [new[p] EXCEPT !.esp = sp]]
           /\ new' = [new EXCEPT ![p] = NoVm] /\ state' = [state EXCEPT ![p] = "running"]
           /\ argc' = [argc EXCEPT ![p] = 0] /\ kstack' = kstack
  <2>1. PICK x : x = [new[p] EXCEPT !.esp = sp]
    OBVIOUS
  <2>2. x \in VmType /\ Kept(new[p], x) /\ x.sz = new[p].sz
    BY <1>2, <1>6, <2>1, Pushed
  <2>3. /\ new[p].dir /\ new[p].pages = PagesIn(0, new[p].sz) /\ vm[p].dir
        /\ PagesOf(vm[p]) \in Nat /\ PagesOf(new[p]) \in Nat
    BY <1>1, InvAt DEF Fits
  <2>4. Fits(x, NoVm, "running")
    BY <2>2, <2>3, NoVmType DEF Fits, Kept
  <2>5. free' = free + PagesOf(vm[p])
    BY <1>2, <1>9, <2>3, FreevmGives
  <2>6. /\ free' \in Nat
        /\ free' + Cost(x, NoVm, "running") = free + Cost(vm[p], new[p], state[p])
    BY <1>1, <1>2, <2>2, <2>3, <2>5, NoVmType DEF Cost, Kept
  <2>7. "running" \in State /\ StackStep(p, "running") /\ NoVm \in VmType
    BY <1>1, <1>9, StackSteps, NoVmType DEF State
  <2>8. Argcs'
    BY <1>9, ArgcSteps
  <2>9. vm' = [vm EXCEPT ![p] = x]
    BY <1>9, <2>1
  <2>10. VmInv'
    BY <1>9, <2>2, <2>4, <2>6, <2>7, <2>8, <2>9, OneProcess
  <2>11. state'[p] # "exec"
    BY <1>2, <1>9
  <2> QED BY <1>4, <1>6, <1>9, <2>10, <2>11
<1> QED BY <1>7, <1>8, <1>9

(***************************************************************************)
(* The initial state: init has a stack, an empty kernel map and one page.  *)
(***************************************************************************)
LEMMA FirstPage ==
    ASSUME NEW k \in MemType, k.ok = "ok", k.as.dir, k.as.pages = {}, k.free >= 2,
           NEW u, u = AllocPage(k, 0)
    PROVE  u.ok = "ok"
<1>1. /\ k.free \in Nat /\ k.as \in VmType /\ k = [free |-> k.free, as |-> k.as, ok |-> k.ok]
  BY DEF MemType
<1>2. PICK n : n = [k EXCEPT !.free = @ - 1]
  OBVIOUS
<1>3. n = [free |-> k.free - 1, as |-> k.as, ok |-> "ok"]
  BY <1>1, <1>2
<1>4. PICK w : w = Walkpgdir(n, 0)
  OBVIOUS
<1>5. n \in MemType /\ n.as.dir /\ n.ok = "ok" /\ n.as = k.as /\ n.free # 0
  <2>1. k.free - 1 \in Nat
    BY <1>1
  <2>2. n \in MemType
    BY <1>1, <1>3, <2>1, MemMake
  <2> QED BY <1>1, <1>3, <2>2
<1>6. w \in MemType /\ w.ok \in {"ok", "fail"} /\ w.as.pages = {}
  <2>1. 0 \in Vpn
    BY VpnFinite
  <2> QED BY <1>4, <1>5, <2>1, WalkpgdirKeeps
<1>7. w.ok = "ok"
  <2>1. CASE TableOf(0) \in n.as.tabs
    BY <1>4, <1>5, <2>1 DEF Walkpgdir
  <2>2. CASE TableOf(0) \notin n.as.tabs
    <3>1. w = [n EXCEPT !.free = @ - 1, !.as.tabs = @ \cup {TableOf(0)}]
      BY <1>4, <1>5, <2>2 DEF Walkpgdir
    <3> QED BY <1>3, <3>1
  <2> QED BY <2>1, <2>2
<1>8. u = [w EXCEPT !.as.pages = @ \cup {0}]
  BY <1>1, <1>2, <1>4, <1>6, <1>7 DEF AllocPage
<1>9. w = [free |-> w.free, as |-> w.as, ok |-> w.ok]
  BY <1>6 DEF MemType
<1> QED BY <1>7, <1>8, <1>9

LEMMA VmInvInit == Init => VmInv
<1> SUFFICES ASSUME Init PROVE VmInv
  OBVIOUS
<1>1. PICK k, u : k = Setupkvm(NPAGES - 1) /\ u = AllocPage(k, 0)
  OBVIOUS
<1>2. /\ free = u.free
      /\ vm = [p \in Slot |-> IF p = FirstProc THEN [u.as EXCEPT !.sz = PGSIZE] ELSE NoVm]
      /\ state = [p \in Slot |-> IF p = FirstProc THEN "running" ELSE "unused"]
      /\ kstack = [p \in Slot |-> p = FirstProc]
      /\ new = [p \in Slot |-> NoVm] /\ argc = [p \in Slot |-> 0]
  BY <1>1 DEF Init, Kinit
<1>3. /\ NPAGES - 1 \in Nat /\ NPAGES \in Nat /\ KTABS \in Nat /\ NPAGES >= KTABS + 4
      /\ FirstProc \in Slot /\ PGSIZE \in Nat /\ PGSIZE > 0 /\ KERNBASE \in Nat /\ KERNBASE > PGSIZE
  BY VmFacts
<1>4. /\ k.ok = "ok" /\ k \in MemType /\ k.as.dir /\ k.free + PagesOf(k.as) = NPAGES - 1
      /\ k.as.pages = {} /\ k.free >= 2 /\ k.free \in Nat
  <2>1. /\ k.ok \in {"ok", "fail"} /\ k.free \in Nat
        /\ k.ok = "fail" => k.free = NPAGES - 1 /\ NPAGES - 1 < KTABS + 1
        /\ k.ok = "ok" => /\ k \in MemType /\ k.as.dir /\ k.free + PagesOf(k.as) = NPAGES - 1
                          /\ k.as.pages = {} /\ k.free = NPAGES - 1 - (KTABS + 1)
    BY <1>1, <1>3, SetupKeeps
  <2>2. k.ok = "ok"
    BY <1>3, <2>1
  <2> QED BY <1>3, <2>1, <2>2
<1>5. u.ok = "ok"
  BY <1>1, <1>4, FirstPage
<1>6. /\ u \in MemType /\ SameRest(k.as, u.as) /\ u.as.pages = {0}
      /\ u.free + PagesOf(u.as) = NPAGES - 1
  <2>1. 0 \in Vpn
    BY VpnFinite
  <2>2. /\ u \in MemType /\ SameRest(k.as, u.as)
        /\ u.free + PagesOf(u.as) = k.free + PagesOf(k.as)
        /\ u.ok = "ok" => u.as.pages = k.as.pages \cup {0}
    BY <1>1, <1>4, <2>1, AllocPageKeeps
  <2> QED BY <1>4, <1>5, <2>2
<1>7. u.as \in VmType /\ u.as.dir /\ u.free \in Nat
  BY <1>4, <1>6 DEF MemType, SameRest
<1>8. PICK a, x, g, e : /\ a = u.as /\ x = [a EXCEPT !.sz = PGSIZE] /\ g = a.guard /\ e = a.esp
  OBVIOUS
<1>9. x \in VmType /\ Kept(a, x) /\ x.sz = PGSIZE
  <2>1. a \in VmType
    BY <1>7, <1>8
  <2>2. g \in SUBSET Vpn /\ e \in 0..(Word - 1) /\ PGSIZE \in 0..(KERNBASE - 1)
    BY <1>3, <1>8, <2>1, VmFields
  <2>3. Updated(a, x, g, PGSIZE, e)
    BY <1>8, <2>1, ExceptUpdates
  <2> QED BY <2>1, <2>2, <2>3, VmUpdate
<1>10. x.dir /\ x.pages = PagesIn(0, x.sz) /\ u.free + PagesOf(x) = NPAGES - 1 /\ PagesOf(x) \in Nat
  <2>1. PagesBelow(PGSIZE) = 1
    <3>1. PGSIZE * 1 = PGSIZE
      BY <1>3
    <3> QED BY <1>3, <3>1, PagesBelowUnique
  <2>2. PagesIn(0, PGSIZE) = {0}
    <3>1. PagesIn(0, PGSIZE) = 0..(1 - 1)
      BY <2>1, PagesBelowOrder DEF PagesIn
    <3> QED BY <3>1
  <2> QED BY <1>6, <1>7, <1>8, <1>9, <2>2, PagesOfNat DEF Kept
<1>11. Fits(x, NoVm, "running") /\ Fits(NoVm, NoVm, "unused")
  BY <1>10, NoVmType DEF Fits
<1>12. /\ vm[FirstProc] = x /\ new[FirstProc] = NoVm /\ state[FirstProc] = "running"
       /\ \A p \in Slot \ {FirstProc} : vm[p] = NoVm /\ new[p] = NoVm /\ state[p] = "unused"
  BY <1>2, <1>3, <1>8
<1>13. \A p \in Slot : Fits(vm[p], new[p], state[p])
  BY <1>11, <1>12
<1>14. Stacks
  BY <1>2 DEF Stacks
<1>15. free + Cardinality(Held) = NPAGES
  <2>1. PICK f : f = [p \in Slot |-> 0]
    OBVIOUS
  <2>2. PICK h : h = [p \in Slot |-> IF p = FirstProc THEN PagesOf(x) + 1 ELSE 0]
    OBVIOUS
  <2>3. f \in [Slot -> Nat] /\ h \in [Slot -> Nat]
    BY <1>10, <2>1, <2>2
  <2>4. \A p \in Slot : PagesHeld(p) = h[p]
    <3>1. PagesHeld(FirstProc) = h[FirstProc]
      <4>1. kstack[FirstProc]
        BY <1>2, <1>3
      <4>2. (IF kstack[FirstProc] THEN 1 ELSE 0) = 1
        BY <4>1
      <4>3. PagesHeld(FirstProc) = PagesOf(x) + 0 + 1
        BY <1>12, <4>2, NoVmType DEF PagesHeld
      <4>4. h[FirstProc] = PagesOf(x) + 1
        BY <1>3, <2>2
      <4> QED BY <1>10, <4>3, <4>4
    <3>2. ASSUME NEW p \in Slot, p # FirstProc PROVE PagesHeld(p) = h[p]
      <4>1. ~kstack[p]
        BY <1>2, <3>2
      <4>2. (IF kstack[p] THEN 1 ELSE 0) = 0
        BY <4>1
      <4>3. PagesHeld(p) = 0 + 0 + 0
        BY <1>12, <3>2, <4>2, NoVmType DEF PagesHeld
      <4>4. h[p] = 0
        BY <2>2, <3>2
      <4> QED BY <4>3, <4>4
    <3> QED BY <3>1, <3>2
  <2>5. Held = Numbered(h)
    BY <2>4 DEF Held, Numbered
  <2>6. Numbered(f) = {}
    BY <2>1 DEF Numbered
  <2>7. Cardinality(Numbered(h)) = Cardinality(Numbered(f)) - f[FirstProc] + h[FirstProc]
    <3>1. \A q \in Slot \ {FirstProc} : h[q] = f[q]
      BY <2>1, <2>2
    <3> QED BY <1>3, <2>3, <3>1, NumberedChange
  <2>8. f[FirstProc] = 0 /\ h[FirstProc] = PagesOf(x) + 1 /\ Cardinality(Numbered(f)) = 0
    BY <1>3, <2>1, <2>2, <2>6, FS_EmptySet
  <2>9. Cardinality(Numbered(h)) = PagesOf(x) + 1
    BY <1>10, <2>7, <2>8
  <2> QED BY <1>2, <1>3, <1>7, <1>10, <2>5, <2>9
<1>16. TypeOK
  <2>1. vm \in [Slot -> VmType] /\ new \in [Slot -> VmType]
    <3>1. \A p \in Slot : vm[p] \in VmType /\ new[p] \in VmType
      BY <1>9, <1>12, NoVmType
    <3> QED BY <1>2, <3>1
  <2>2. state \in [Slot -> State]
    BY <1>2 DEF State
  <2>3. kstack \in [Slot -> BOOLEAN]
    BY <1>2
  <2>4. free \in 0..NPAGES
    BY <1>2, <1>3, <1>7, <1>10
  <2>5. argc \in [Slot -> 0..MAXARG]
    BY <1>2, VmFacts
  <2> QED BY <2>1, <2>2, <2>3, <2>4, <2>5 DEF TypeOK, State
<1> QED BY <1>13, <1>14, <1>15, <1>16, InvParts
(***************************************************************************)
(* Steps.                                                                  *)
(***************************************************************************)
LEMMA VmInvNext == VmInv /\ [Next]_vars => VmInv'
<1> SUFFICES ASSUME VmInv, [Next]_vars PROVE VmInv'
  OBVIOUS
<1>1. CASE UNCHANGED vars
  BY <1>1 DEF vars, VmInv, PagesAccounted, TypeOK, Held, PagesHeld, Shapes, SizeMapped
<1>2. ASSUME NEW p \in Slot, NEW c \in Slot, ForkAlloc(p, c) \/ ForkCopy(p, c) PROVE VmInv'
  BY <1>2, ForkAllocKeeps, ForkCopyKeeps
<1>3. ASSUME NEW p \in Slot, NEW n \in SbrkArgs, Sbrk(p, n) PROVE VmInv'
  BY <1>3, SbrkKeeps
<1>4. ASSUME NEW p \in Slot, ExecStart(p) PROVE VmInv'
  BY <1>4, ExecStartKeeps
<1>5. ASSUME NEW p \in Slot, NEW s \in Segments, ExecLoad(p, s) PROVE VmInv'
  BY <1>5, ExecLoadKeeps
<1>6. ASSUME NEW p \in Slot, ExecStack(p) \/ ExecCommit(p) PROVE VmInv'
  BY <1>6, ExecStackKeeps, ExecCommitKeeps
<1>7. ASSUME NEW p \in Slot, NEW len \in ArgLens, ExecPush(p, len) PROVE VmInv'
  BY <1>7, ExecPushKeeps
<1>8. ASSUME NEW p \in Slot, Exit(p) \/ Reap(p) PROVE VmInv'
  BY <1>8, ExitKeeps, ReapKeeps
<1> QED BY <1>1, <1>2, <1>3, <1>4, <1>5, <1>6, <1>7, <1>8 DEF Next

(***************************************************************************)
(* The arguments.                                                          *)
(***************************************************************************)

(* Once exec() has made the stack of the new image it stays on it.          *)
StackInv ==
    \A p \in Slot : state[p] = "exec" /\ new[p].guard # {} => OnStack(new[p])

(* The clause of ArgsAboveGuard.                                            *)
ArgsFitAt(p) ==
    state[p] = "exec" =>
       /\ vm'[p] # vm[p] => InStack(vm'[p]) /\ vm'[p].esp < new[p].esp
       /\ new[p].guard # {} /\ state'[p] = "exec" /\ new'[p] # new[p]
          => InStack(new'[p]) /\ new'[p].esp < new[p].esp

ArgsFit == \A p \in Slot : ArgsFitAt(p)

(* Of a process in exec only exec() changes the images.                     *)
Apart(q) == vm'[q] = vm[q] /\ new'[q] = new[q] /\ state'[q] = state[q]

LEMMA ApartFits ==
    ASSUME StackInv, NEW q \in Slot, Apart(q)
    PROVE  /\ state'[q] = "exec" /\ new'[q].guard # {} => OnStack(new'[q])
           /\ ArgsFitAt(q)
BY DEF StackInv, Apart, ArgsFitAt

(* A process that is not in exec, before or after.                          *)
LEMMA NotInExec ==
    ASSUME NEW q \in Slot, state[q] # "exec", state'[q] # "exec" \/ new'[q].guard = {}
    PROVE  /\ state'[q] = "exec" /\ new'[q].guard # {} => OnStack(new'[q])
           /\ ArgsFitAt(q)
BY DEF ArgsFitAt

(* A step of p leaves the others alone.                                     *)
StepOf(p) ==
    \E x, y, s : /\ vm' = [vm EXCEPT ![p] = x] /\ new' = [new EXCEPT ![p] = y]
                 /\ state' = [state EXCEPT ![p] = s]

LEMMA ChangesOne ==
    ASSUME VmInv, NEW p \in Slot,
           vm' = vm \/ (\E x : vm' = [vm EXCEPT ![p] = x]),
           new' = new \/ (\E y : new' = [new EXCEPT ![p] = y]),
           state' = state \/ (\E s : state' = [state EXCEPT ![p] = s])
    PROVE  StepOf(p)
<1>1. vm \in [Slot -> VmType] /\ new \in [Slot -> VmType] /\ state \in [Slot -> State]
  BY InvParts DEF TypeOK, State
<1>2. /\ vm = [vm EXCEPT ![p] = vm[p]] /\ new = [new EXCEPT ![p] = new[p]]
      /\ state = [state EXCEPT ![p] = state[p]]
  BY <1>1
<1>3. PICK x : vm' = [vm EXCEPT ![p] = x]
  BY <1>2
<1>4. PICK y : new' = [new EXCEPT ![p] = y]
  BY <1>2
<1>5. PICK s : state' = [state EXCEPT ![p] = s]
  BY <1>2
<1> QED BY <1>3, <1>4, <1>5, Zenon DEF StepOf

LEMMA OthersApart ==
    ASSUME VmInv, NEW p, StepOf(p), NEW q \in Slot, q # p
    PROVE  Apart(q)
<1>1. /\ vm \in [Slot -> VmType] /\ new \in [Slot -> VmType] /\ state \in [Slot -> State]
  BY InvParts DEF TypeOK, State
<1>2. PICK x, y, s : /\ vm' = [vm EXCEPT ![p] = x] /\ new' = [new EXCEPT ![p] = y]
                     /\ state' = [state EXCEPT ![p] = s]
  BY DEF StepOf
<1> QED BY <1>1, <1>2 DEF Apart

LEMMA ArgsFitNext == VmInv /\ StackInv /\ [Next]_vars => StackInv' /\ ArgsFit
<1> SUFFICES ASSUME VmInv, StackInv, [Next]_vars, NEW q \in Slot
             PROVE  /\ state'[q] = "exec" /\ new'[q].guard # {} => OnStack(new'[q])
                    /\ ArgsFitAt(q)
  BY DEF StackInv, ArgsFit
<1> DEFINE Goal == /\ state'[q] = "exec" /\ new'[q].guard # {} => OnStack(new'[q])
                   /\ ArgsFitAt(q)
<1>0. /\ vm \in [Slot -> VmType] /\ new \in [Slot -> VmType] /\ state \in [Slot -> State]
  BY InvParts DEF TypeOK, State
<1>1. CASE UNCHANGED vars
  <2>1. Apart(q)
    BY <1>1 DEF vars, Apart
  <2> QED BY <2>1, ApartFits
<1>2. ASSUME NEW p \in Slot, StepOf(p), q # p PROVE Goal
  <2>1. Apart(q)
    BY <1>2, OthersApart
  <2> QED BY <2>1, ApartFits
<1>3. ASSUME NEW p \in Slot, StepOf(p), state[p] # "exec", state'[p] # "exec" PROVE Goal
  <2>1. CASE q = p
    <3>1. state[q] # "exec" /\ state'[q] # "exec"
      BY <1>3, <2>1
    <3> QED BY <3>1, NotInExec
  <2> QED BY <1>2, <1>3, <2>1
<1>4. ASSUME NEW p \in Slot, NEW c \in Slot, ForkAlloc(p, c) PROVE Goal
  <2>1. state[c] # "exec" /\ state'[c] # "exec" /\ vm' = vm /\ new' = new
        /\ state' = [state EXCEPT ![c] = "embryo"]
    BY <1>0, <1>4 DEF ForkAlloc
  <2>2. StepOf(c)
    BY <2>1, ChangesOne
  <2> QED BY <1>3, <2>1, <2>2
<1>5. ASSUME NEW p \in Slot, NEW c \in Slot, ForkCopy(p, c) PROVE Goal
  <2>1. /\ state[c] # "exec" /\ new' = new
        /\ vm' = vm \/ \E x : vm' = [vm EXCEPT ![c] = x]
        /\ \/ state' = [state EXCEPT ![c] = "running"]
           \/ state' = [state EXCEPT ![c] = "unused"]
    BY <1>5 DEF ForkCopy
  <2>2. state'[c] # "exec"
    BY <1>0, <2>1
  <2>3. StepOf(c)
    BY <2>1, ChangesOne
  <2> QED BY <1>3, <2>1, <2>2, <2>3
<1>6. ASSUME NEW p \in Slot, NEW n \in SbrkArgs, Sbrk(p, n) PROVE Goal
  <2>1. /\ state[p] = "running" /\ new' = new
        /\ \E x : vm' = [vm EXCEPT ![p] = x]
    BY <1>6 DEF Sbrk
  <2>2. \E s : state' = [state EXCEPT ![p] = s]
    BY <1>6 DEF Sbrk
  <2>3. StepOf(p)
    BY <2>1, <2>2, ChangesOne
  <2>4. VmInv'
    BY <1>6, SbrkKeeps
  <2>5. state'[p] # "exec"
    <3>1. new[p].dir <=> state[p] \in {"exec", "stray"}
      BY DEF VmInv, Shapes
    <3>2. new'[p].dir <=> state'[p] \in {"exec", "stray"}
      BY <2>4 DEF VmInv, Shapes
    <3> QED BY <2>1, <3>1, <3>2
  <2> QED BY <1>3, <2>1, <2>3, <2>5
<1>7. ASSUME NEW p \in Slot, Exit(p) \/ Reap(p) PROVE Goal
  <2>1. /\ state[p] # "exec" /\ new' = new
        /\ vm' = vm \/ \E x : vm' = [vm EXCEPT ![p] = x]
        /\ \/ state' = [state EXCEPT ![p] = "zombie"]
           \/ state' = [state EXCEPT ![p] = "unused"]
    BY <1>7 DEF Exit, Reap
  <2>2. state'[p] # "exec"
    BY <1>0, <2>1
  <2>3. StepOf(p)
    BY <2>1, ChangesOne
  <2> QED BY <1>3, <2>1, <2>2, <2>3
<1>8. ASSUME NEW p \in Slot, ExecStart(p) PROVE Goal
  <2>1. PICK k : k = Setupkvm(free)
    OBVIOUS
  <2>2. /\ state[p] = "running" /\ k.ok = "ok" /\ vm' = vm
        /\ new' = [new EXCEPT ![p] = k.as] /\ state' = [state EXCEPT ![p] = "exec"]
    BY <1>8, <2>1 DEF ExecStart
  <2>3. StepOf(p)
    BY <1>0, <2>2 DEF StepOf
  <2>4. k.as.guard = {}
    <3>1. k.as = [NoVm EXCEPT !.dir = TRUE, !.kern = Min({free - 1, KTABS})]
      BY <2>1, <2>2 DEF Setupkvm, Fail, Mem
    <3> QED BY <3>1 DEF NoVm
  <2>5. CASE q = p
    <3>1. state[q] # "exec" /\ new'[q].guard = {}
      BY <1>0, <2>2, <2>4, <2>5
    <3> QED BY <3>1, NotInExec
  <2> QED BY <1>2, <2>3, <2>5
<1>9. ASSUME NEW p \in Slot, NEW s \in Segments, ExecLoad(p, s) PROVE Goal
  <2>1. new[p].guard = {} /\ state[p] = "exec" /\ vm' = vm
    BY <1>9 DEF ExecLoad, ExecBad
  <2>2. StepOf(p)
    BY <1>0, <1>9 DEF StepOf, ExecLoad, ExecBad
  <2>3. state'[p] = "exec" => new'[p].guard = {}
    BY <1>9, ExecLoadKeeps
  <2>4. q = p => Goal
    BY <2>1, <2>3 DEF ArgsFitAt
  <2> QED BY <1>2, <2>2, <2>4
<1>10. ASSUME NEW p \in Slot, ExecStack(p) PROVE Goal
  <2>1. new[p].guard = {} /\ state[p] = "exec"
    BY <1>10 DEF ExecStack
  <2>2. StepOf(p)
    BY <1>0, <1>10 DEF StepOf, ExecStack, ExecBad
  <2>3. (new'[p] # NoVm => OnStack(new'[p])) /\ vm' = vm
    BY <1>10, ExecStackKeeps
  <2>4. NoVm.guard = {}
    BY DEF NoVm
  <2>5. q = p => Goal
    BY <2>1, <2>3, <2>4 DEF ArgsFitAt
  <2> QED BY <1>2, <2>2, <2>5
<1>11. ASSUME NEW p \in Slot, NEW len \in ArgLens, ExecPush(p, len) PROVE Goal
  <2>1. new[p].guard # {} /\ state[p] = "exec" /\ OnStack(new[p]) /\ new[p] \in VmType
    BY <1>0, <1>11 DEF ExecPush, StackInv
  <2>2. StepOf(p)
    BY <1>0, <1>11 DEF StepOf, ExecPush, ExecBad, CopyFails
  <2>3. /\ vm' = vm
        /\ state'[p] = "exec" => \E sp :
             /\ new'[p] = [new[p] EXCEPT !.esp = sp] /\ Pushes(new[p], len, sp)
             /\ "ok" \in Copyout(new[p], sp, len) /\ len \in 1..(Word - 1)
    BY <1>11, ExecPushKeeps
  <2>4. state'[p] = "exec" => OnStack(new'[p]) /\ InStack(new'[p]) /\ new'[p].esp < new[p].esp
    BY <2>1, <2>3, StaysOnStack
  <2>5. q = p => Goal
    BY <2>1, <2>3, <2>4 DEF ArgsFitAt
  <2> QED BY <1>2, <2>2, <2>5
<1>12. ASSUME NEW p \in Slot, ExecCommit(p) PROVE Goal
  <2>1. new[p].guard # {} /\ state[p] = "exec" /\ OnStack(new[p]) /\ new[p] \in VmType
    BY <1>0, <1>12 DEF ExecCommit, StackInv
  <2>2. StepOf(p)
    BY <1>0, <1>12 DEF StepOf, ExecCommit, ExecBad, CopyFails
  <2>3. /\ state'[p] # "exec"
        /\ \/ vm' = vm
           \/ \E sp, len :
                /\ vm' = [vm EXCEPT ![p] = [new[p] EXCEPT !.esp = sp]]
                /\ Pushes(new[p], len, sp)
                /\ "ok" \in Copyout(new[p], sp, len) /\ len \in 1..(Word - 1)
    BY <1>12, ExecCommitKeeps
  <2>4. vm' = vm \/ (InStack(vm'[p]) /\ vm'[p].esp < new[p].esp)
    <3>1. SUFFICES ASSUME NEW sp, NEW len \in 1..(Word - 1),
                          vm' = [vm EXCEPT ![p] = [new[p] EXCEPT !.esp = sp]],
                          Pushes(new[p], len, sp), "ok" \in Copyout(new[p], sp, len)
                   PROVE  InStack(vm'[p]) /\ vm'[p].esp < new[p].esp
      BY <2>3
    <3>2. vm'[p] = [new[p] EXCEPT !.esp = sp]
      BY <1>0, <3>1
    <3> QED BY <2>1, <3>1, <3>2, StaysOnStack
  <2>5. q = p => Goal
    BY <2>1, <2>3, <2>4 DEF ArgsFitAt
  <2> QED BY <1>2, <2>2, <2>5
<1>13. ASSUME Next PROVE Goal
  <2> HIDE DEF Goal
  <2>1. PICK p \in Slot :
           \/ \E d \in Slot : ForkAlloc(p, d) \/ ForkCopy(p, d)
           \/ \E n \in SbrkArgs : Sbrk(p, n)
           \/ ExecStart(p) \/ (\E s \in Segments : ExecLoad(p, s))
           \/ ExecStack(p) \/ (\E len \in ArgLens : ExecPush(p, len)) \/ ExecCommit(p)
           \/ Exit(p) \/ Reap(p)
    BY <1>13 DEF Next
  <2>2. CASE \E d \in Slot : ForkAlloc(p, d) \/ ForkCopy(p, d)
    BY <1>4, <1>5, <2>2
  <2>3. CASE \E n \in SbrkArgs : Sbrk(p, n)
    BY <1>6, <2>3
  <2>4. CASE \E s \in Segments : ExecLoad(p, s)
    BY <1>9, <2>4
  <2>5. CASE \E len \in ArgLens : ExecPush(p, len)
    BY <1>11, <2>5
  <2>6. CASE ExecStart(p) \/ ExecStack(p) \/ ExecCommit(p) \/ Exit(p) \/ Reap(p)
    BY <1>7, <1>8, <1>10, <1>12, <2>6
  <2> QED BY <2>1, <2>2, <2>3, <2>4, <2>5, <2>6
<1> QED BY <1>1, <1>13

(***************************************************************************)
(* Theorems.                                                               *)
(***************************************************************************)

(* The memory is accounted for, what a process holds follows from its state *)
(* and the pages mapped follow from its size: together these are preserved  *)
(* by fork(), wait(), growproc() and exec() and by their failure paths.     *)
THEOREM VmInvariant == Spec => []VmInv
BY VmInvInit, VmInvNext, PTL DEF Spec

(* However kalloc() fails inside copyuvm(), allocuvm(), setupkvm() or       *)
(* exec(), no page is leaked and none is freed twice: the free list and     *)
(* the address spaces and kernel stacks always add up to all of memory.     *)
THEOREM NoPageLeaks == Spec => []PagesAccounted
<1>1. VmInv => PagesAccounted
  BY DEF VmInv
<1> QED BY <1>1, VmInvariant, PTL

(* A process has mapped exactly the pages below p->sz, so mappages() never  *)
(* panics with "remap" and copyuvm() finds every page present.              *)
THEOREM MappedBelowSize == Spec => []SizeMapped
<1>1. VmInv => SizeMapped
  BY DEF VmInv
<1> QED BY <1>1, VmInvariant, PTL

(* Every argument string that exec() pushes, and the argument list at last, *)
(* lies in the stack page of the new image above the guard page, below what *)
(* was pushed before, for strings of any length up to the size of the       *)
(* caller, also those that take the unsigned sp below 0.                    *)
THEOREM ArgumentsFit == Spec => ArgsAboveGuard
<1>1. Init => StackInv
  BY DEF Init, StackInv
<1>2. VmInv /\ StackInv /\ [Next]_vars => StackInv'
  BY ArgsFitNext
<1>3. VmInv /\ StackInv /\ [Next]_vars => [ArgsFit]_vars
  BY ArgsFitNext
<1>4. Spec => [][ArgsFit]_vars
  BY <1>1, <1>2, <1>3, VmInvariant, PTL DEF Spec
<1> QED BY <1>4 DEF ArgsAboveGuard, ArgsFit, ArgsFitAt
============================================================================
