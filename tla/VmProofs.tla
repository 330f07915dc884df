------------------------------- MODULE VmProofs -------------------------------
(***************************************************************************)
(* Proofs about module Vm, for any number of processes and pages and any   *)
(* page size: no page is lost or used twice (OneOwner), and every address  *)
(* space is mapped up to its size (SizeIsMapped).                          *)
(***************************************************************************)
EXTENDS Vm, TLAPS

(* The inductive invariant *)

\* An address space whose entries are all different pages.
NoDup(d) ==
    /\ \A t \in Table : d.pt[t] # 0 => d.pt[t] # d.dir
    /\ \A v \in VPage : d.pte[v] # 0 => d.pte[v] # d.dir
    /\ \A t \in Table, v \in VPage : d.pt[t] # 0 => d.pt[t] # d.pte[v]
    /\ \A t, u \in Table : d.pt[t] # 0 /\ d.pt[t] = d.pt[u] => t = u
    /\ \A v, w \in VPage : d.pte[v] # 0 /\ d.pte[v] = d.pte[w] => v = w

\* What each place of a call tells about its locals.
CallOK(p) ==
    /\ pc[p] # "out" => state[p] = "RUNNING"
    /\ pc[p] = "out" <=> call[p].op = "none"
    /\ pc[p] = "out" => call[p] = NoCall
    /\ pc[p] = "kstack" => call[p].op = "fork" /\ kstack[call[p].np] = 0
    /\ pc[p] \in {"kstack", "setupkvm"} => call[p].d = NoDir
    /\ pc[p] = "kmap" => call[p].d.pt[KERNEL] = 0
    /\ pc[p] \in {"kstack", "setupkvm", "kmap"} =>
           call[p].op \in {"fork", "exec"} /\ call[p].a = 0
    /\ pc[p] = "mappages" <=> call[p].mem # 0
    /\ pc[p] = "mappages" => More(p)
    /\ call[p].op = "sbrk" => call[p].d = NoDir
    /\ call[p].op \in {"sbrk", "stack"} => call[p].newsz < KERNBASE
    /\ call[p].op = "fork" => /\ state[call[p].np] = "EMBRYO"
                              /\ pc[p] # "kstack" => kstack[call[p].np] # 0

\* The loop of allocuvm() and copyuvm() goes over the beginnings of pages.
LoopOK(p) ==
    /\ \E k \in Nat : call[p].a = k * PGSIZE
    /\ call[p].a < call[p].newsz + PGSIZE

\* What the state of a slot tells about its memory.
SlotOK(p) ==
    /\ state[p] \in {"UNUSED", "EMBRYO"} => pgdir[p] = NoDir
    /\ state[p] = "UNUSED" => kstack[p] = 0
    /\ state[p] \in {"RUNNING", "ZOMBIE"} => kstack[p] # 0

\* Every page is in F or in one of the sets of f.
Partition(f, F) ==
    /\ F \subseteq Page /\ \A o \in Owner : f[o] \subseteq Page
    /\ \A m \in Page : m \notin F => \E o \in Owner : m \in f[o]
    /\ \A o \in Owner : f[o] \cap F = {}
    /\ \A o, o2 \in Owner : o # o2 => f[o] \cap f[o2] = {}

Pools == [o \in Owner |-> Pool(o)]

\* The calls and the slots.
Calls ==
    /\ TypeOK
    /\ \A p \in Slot : CallOK(p)
    /\ \A p \in Slot : LoopOK(p)
    /\ \A p \in Slot : SlotOK(p)
    /\ \A p, q \in Slot : call[p].op = "fork" /\ call[q].op = "fork"
                          /\ call[p].np = call[q].np => p = q

\* The pages.
Memory ==
    /\ Partition(Pools, freelist)
    /\ \A p \in Slot : NoDup(pgdir[p]) /\ NoDup(call[p].d)

VmInv == Calls /\ Memory

\* The pages of d are the ones below n.
Mapped(d, n) == \A v \in VPage : d.pte[v] # 0 <=> v * PGSIZE < n

\* The sizes: a process outside of sbrk() has the pages below its size, and a
\* call that maps pages has mapped the ones below its a.
Sized(p) ==
    /\ call[p].op = "fork" => call[p].newsz = sz[p]
    /\ call[p].op \in {"fork", "exec", "stack"} => Mapped(call[p].d, call[p].a)
    /\ call[p].op = "sbrk" => Mapped(pgdir[p], call[p].a) /\ PGROUNDUP(sz[p]) <= call[p].a
    /\ state[p] \in {"RUNNING", "ZOMBIE"} /\ call[p].op # "sbrk" => Mapped(pgdir[p], sz[p])

SizeInv == ~panicked /\ \A p \in Slot : Sized(p)
-----------------------------------------------------------------------------
(* Arithmetic *)

\* The beginnings of pages are ordered like the pages.
LEMMA Steps ==
    ASSUME NEW P \in Nat \ {0}, NEW j \in Int, NEW k \in Int
    PROVE  /\ j < k => j * P + P <= k * P
           /\ j * P < k * P <=> j < k
  <1>1. j < k => (k - j - 1) * P >= 0
    OBVIOUS
  <1>2. (k - j - 1) * P = k * P - j * P - P
    OBVIOUS
  <1>3. ~(j < k) => (j - k) * P >= 0
    OBVIOUS
  <1>4. (j - k) * P = j * P - k * P
    OBVIOUS
  <1>5. j * P \in Int /\ k * P \in Int
    OBVIOUS
  <1> QED
    BY <1>1, <1>2, <1>3, <1>4, <1>5

\* PGROUNDUP(n) is the first beginning of a page that is not below n.
LEMMA RoundUp ==
    ASSUME NEW n \in Nat
    PROVE  /\ \E k \in Nat : PGROUNDUP(n) = k * PGSIZE
           /\ n <= PGROUNDUP(n) /\ PGROUNDUP(n) < n + PGSIZE
  <1>1. PGSIZE \in Nat \ {0}
    BY VmAssumption, Zenon
  <1> DEFINE k == (n + PGSIZE - 1) \div PGSIZE
  <1>2. k \in Nat /\ k * PGSIZE <= n + PGSIZE - 1 /\ n + PGSIZE - 1 < k * PGSIZE + PGSIZE
    BY <1>1
  <1>3. PGROUNDUP(n) = k * PGSIZE
    BY Zenon DEF PGROUNDUP
  <1> HIDE DEF k
  <1> QED
    BY <1>1, <1>2, <1>3

\* A place p * PGSIZE of user memory is below n exactly if it is below the
\* next beginning of a page.
LEMMA Below ==
    ASSUME NEW n \in Nat, NEW a \in Nat, NEW k \in Nat, a = k * PGSIZE,
           n <= a, a < n + PGSIZE, NEW v \in VPage
    PROVE  v * PGSIZE < a <=> v * PGSIZE < n
  <1>1. PGSIZE \in Nat \ {0} /\ v \in Int
    BY VmAssumption DEF VPage
  <1>2. /\ v < k => v * PGSIZE + PGSIZE <= k * PGSIZE
        /\ v * PGSIZE < k * PGSIZE <=> v < k
    BY <1>1, Steps
  <1>3. v * PGSIZE \in Int
    BY <1>1
  <1> QED
    BY <1>1, <1>2, <1>3

\* The loop is at a page of user memory.
LEMMA AtPage ==
    ASSUME NEW k \in Nat, k * PGSIZE < KERNBASE
    PROVE  k \in VPage /\ (k * PGSIZE) \div PGSIZE = k
  <1>1. PGSIZE \in Nat \ {0} /\ KERNBASE \in Nat /\ KERNBASE % PGSIZE = 0
    BY VmAssumption, Zenon
  <1> DEFINE n == KERNBASE \div PGSIZE
  <1>2. n \in Nat /\ KERNBASE = n * PGSIZE
    BY <1>1
  <1> HIDE DEF n
  <1>3. k < n
    BY <1>1, <1>2, Steps
  <1>4. k \in VPage
    BY <1>2, <1>3 DEF VPage, n
  <1>5. (k * PGSIZE) \div PGSIZE = k
    BY <1>1
  <1> QED
    BY <1>4, <1>5, Zenon
-----------------------------------------------------------------------------
(* Pages change owners *)

\* kalloc(): a free page goes to an owner.
LEMMA Takes ==
    ASSUME NEW f, NEW F, Partition(f, F), NEW m \in F, NEW o \in Owner, NEW g,
           g[o] = f[o] \cup {m}, \A x \in Owner \ {o} : g[x] = f[x]
    PROVE  Partition(g, F \ {m})
  <1>1. F \ {m} \subseteq Page /\ \A x \in Owner : g[x] \subseteq Page
    BY Zenon DEF Partition
  <1>2. ASSUME NEW n \in Page, n \notin F \ {m} PROVE \E x \in Owner : n \in g[x]
    BY <1>2, Zenon DEF Partition
  <1>3. ASSUME NEW x \in Owner PROVE g[x] \cap (F \ {m}) = {}
    BY Zenon DEF Partition
  <1>4. ASSUME NEW x \in Owner, NEW y \in Owner, x # y PROVE g[x] \cap g[y] = {}
    <2> SUFFICES ASSUME NEW n, n \in g[x], n \in g[y] PROVE FALSE
      BY Zenon
    <2>1. f[x] \cap f[y] = {} /\ m \notin f[x] /\ m \notin f[y]
      BY <1>4, Zenon DEF Partition
    <2>2. CASE x = o
      BY <1>4, <2>1, <2>2, Zenon
    <2>3. CASE y = o
      BY <1>4, <2>1, <2>3, Zenon
    <2> QED
      BY <2>1, <2>2, <2>3, Zenon
  <1> QED
    BY <1>1, <1>2, <1>3, <1>4, Zenon DEF Partition

\* kfree(): pages of owners become free.
LEMMA Frees ==
    ASSUME NEW f, NEW F, Partition(f, F), NEW g, NEW S,
           \A x \in Owner : g[x] \subseteq f[x],
           \A n : n \in S <=> \E x \in Owner : n \in f[x] \ g[x]
    PROVE  Partition(g, F \cup S)
  <1>1. F \cup S \subseteq Page /\ \A x \in Owner : g[x] \subseteq Page
    BY Zenon DEF Partition
  <1>2. ASSUME NEW n \in Page, n \notin F \cup S PROVE \E x \in Owner : n \in g[x]
    BY <1>2, Zenon DEF Partition
  <1>3. ASSUME NEW x \in Owner PROVE g[x] \cap (F \cup S) = {}
    <2> SUFFICES ASSUME NEW n \in g[x] PROVE n \notin F /\ n \notin S
      BY Zenon
    <2>1. n \in f[x] /\ n \notin F
      BY Zenon DEF Partition
    <2>2. ASSUME NEW y \in Owner PROVE n \notin f[y] \ g[y]
      BY <2>1, Zenon DEF Partition
    <2> QED
      BY <2>1, <2>2, Zenon
  <1>4. ASSUME NEW x \in Owner, NEW y \in Owner, x # y PROVE g[x] \cap g[y] = {}
    BY <1>4, Zenon DEF Partition
  <1> QED
    BY <1>1, <1>2, <1>3, <1>4, Zenon DEF Partition

\* An owner hands all its pages to another one.
LEMMA MovesTo ==
    ASSUME NEW f, NEW F, Partition(f, F), NEW o \in Owner, NEW r \in Owner, o # r, NEW g,
           g[o] = {}, g[r] = f[r] \cup f[o], \A x \in Owner \ {o, r} : g[x] = f[x]
    PROVE  Partition(g, F)
  <1>1. F \subseteq Page /\ \A x \in Owner : g[x] \subseteq Page
    BY Zenon DEF Partition
  <1>2. ASSUME NEW n \in Page, n \notin F PROVE \E x \in Owner : n \in g[x]
    BY <1>2, Zenon DEF Partition
  <1>3. ASSUME NEW x \in Owner PROVE g[x] \cap F = {}
    BY Zenon DEF Partition
  <1>4. ASSUME NEW x \in Owner, NEW y \in Owner, x # y PROVE g[x] \cap g[y] = {}
    <2> SUFFICES ASSUME NEW n, n \in g[x], n \in g[y] PROVE FALSE
      BY Zenon
    <2>1. f[x] \cap f[y] = {} /\ x # o /\ y # o
      BY <1>4, Zenon DEF Partition
    <2>2. CASE x = r
      <3>1. g[y] = f[y] /\ f[o] \cap f[y] = {}
        BY <1>4, <2>1, <2>2, Zenon DEF Partition
      <3> QED
        BY <2>1, <2>2, <3>1, Zenon
    <2>3. CASE y = r
      <3>1. g[x] = f[x] /\ f[o] \cap f[x] = {}
        BY <1>4, <2>1, <2>3, Zenon DEF Partition
      <3> QED
        BY <2>1, <2>3, <3>1, Zenon
    <2> QED
      BY <2>1, <2>2, <2>3, Zenon
  <1> QED
    BY <1>1, <1>2, <1>3, <1>4, Zenon DEF Partition
-----------------------------------------------------------------------------
(* Address spaces grow and shrink *)

\* What is a page of an address space.
LEMMA PagesAre ==
    ASSUME NEW d, NEW n
    PROVE  n \in Pages(d) <=> /\ n # 0
                              /\ \/ n = d.dir
                                 \/ \E t \in Table : n = d.pt[t]
                                 \/ \E v \in VPage : n = d.pte[v]
  BY Zenon DEF Pages, UserPages

\* The first page and the first page table are in every address space.
LEMMA Indices ==
    /\ KERNEL \in Table
    /\ \A v \in VPage : PDX(v) \in Table
    /\ 0 \in VPage
    /\ NoDir \in Dir /\ Pages(NoDir) = {} /\ NoDup(NoDir)
  <1>1. KERNEL \in Table /\ \A v \in VPage : PDX(v) \in Table
    BY Zenon DEF Table
  <1>2. 0 \in VPage
    <2>1. PGSIZE \in Nat \ {0} /\ KERNBASE \in Nat \ {0} /\ PGSIZE < KERNBASE
      BY VmAssumption, Zenon
    <2>2. KERNBASE \div PGSIZE >= 1
      BY <2>1
    <2> QED
      BY <2>1, <2>2 DEF VPage
  <1>3. 0 \in 0..NPAGE
    BY VmAssumption
  <1>4. NoDir \in Dir
    BY <1>3, Zenon DEF NoDir, Dir
  <1>5. NoDir.dir = 0 /\ (\A t \in Table : NoDir.pt[t] = 0) /\ \A v \in VPage : NoDir.pte[v] = 0
    BY Zenon DEF NoDir
  <1>6. Pages(NoDir) = {}
    BY <1>5, PagesAre, Zenon
  <1>7. NoDup(NoDir)
    BY <1>5, Zenon DEF NoDup
  <1> QED
    BY <1>1, <1>2, <1>4, <1>6, <1>7, Zenon

\* setupkvm() allocates the page directory.
LEMMA AddDir ==
    ASSUME NEW m \in Page, NEW e, e = [NoDir EXCEPT !.dir = m]
    PROVE  e \in Dir /\ Pages(e) = {m} /\ NoDup(e)
  <1>1. m \in 0..NPAGE /\ m # 0
    BY VmAssumption DEF Page
  <1>2. NoDir \in Dir
    BY Indices, Zenon
  <1>3. e \in Dir
    BY <1>1, <1>2, Zenon DEF Dir
  <1>4. e.dir = m /\ (\A t \in Table : e.pt[t] = 0) /\ \A v \in VPage : e.pte[v] = 0
    BY Zenon DEF NoDir
  <1>5. Pages(e) = {m}
    <2>1. ASSUME NEW n PROVE n \in Pages(e) <=> n = m
      BY <1>1, <1>4, Zenon DEF Pages, UserPages
    <2> QED
      BY <2>1, Zenon
  <1>6. NoDup(e)
    BY <1>4, Zenon DEF NoDup
  <1> QED
    BY <1>3, <1>5, <1>6, Zenon

\* walkpgdir() allocates a page table.
LEMMA AddTable ==
    ASSUME NEW d \in Dir, NoDup(d), NEW t \in Table, d.pt[t] = 0, NEW m \in Page, m \notin Pages(d),
           NEW e, e = [d EXCEPT !.pt[t] = m]
    PROVE  e \in Dir /\ Pages(e) = Pages(d) \cup {m} /\ NoDup(e)
  <1>1. m \in 0..NPAGE /\ m # 0
    BY VmAssumption DEF Page
  <1>2. e \in Dir
    BY <1>1, Zenon DEF Dir
  <1>3. /\ e.dir = d.dir /\ e.pte = d.pte /\ e.pt[t] = m
        /\ \A u \in Table \ {t} : e.pt[u] = d.pt[u]
    BY Zenon DEF Dir
  <1>4. /\ m # d.dir /\ \A v \in VPage : m # d.pte[v]
        /\ \A u \in Table : m # d.pt[u]
    BY <1>1, PagesAre, Zenon
  <1>5. ASSUME NEW n PROVE n \in Pages(e) <=> n \in Pages(d) \cup {m}
    <2>1. n \in Pages(e) <=> /\ n # 0
                             /\ n = e.dir \/ (\E u \in Table : n = e.pt[u]) \/ \E v \in VPage : n = e.pte[v]
      BY Zenon DEF Pages, UserPages
    <2>2. n \in Pages(d) <=> /\ n # 0
                             /\ n = d.dir \/ (\E u \in Table : n = d.pt[u]) \/ \E v \in VPage : n = d.pte[v]
      BY PagesAre, Zenon
    <2> QED
      BY <1>1, <1>3, <2>1, <2>2, Zenon
  <1>6. NoDup(e)
    <2>1. \A u \in Table : e.pt[u] # 0 => e.pt[u] # e.dir
      BY <1>3, <1>4, Zenon DEF NoDup
    <2>2. \A v \in VPage : e.pte[v] # 0 => e.pte[v] # e.dir
      BY <1>3, Zenon DEF NoDup
    <2>3. \A u \in Table, v \in VPage : e.pt[u] # 0 => e.pt[u] # e.pte[v]
      BY <1>3, <1>4, ZenonT(30) DEF NoDup
    <2>4. ASSUME NEW u \in Table, NEW w \in Table, e.pt[u] # 0, e.pt[u] = e.pt[w] PROVE u = w
      BY <1>3, <1>4, <2>4 DEF NoDup
    <2>5. \A v, w \in VPage : e.pte[v] # 0 /\ e.pte[v] = e.pte[w] => v = w
      BY <1>3 DEF NoDup
    <2> QED
      BY <2>1, <2>2, <2>3, <2>4, <2>5, Zenon DEF NoDup
  <1> QED
    BY <1>2, <1>5, <1>6, Zenon

\* mappages() maps a page that was not mapped.
LEMMA AddPage ==
    ASSUME NEW d \in Dir, NoDup(d), NEW v \in VPage, d.pte[v] = 0, NEW m \in Page, m \notin Pages(d),
           NEW e, e = [d EXCEPT !.pte[v] = m]
    PROVE  e \in Dir /\ Pages(e) = Pages(d) \cup {m} /\ NoDup(e)
  <1>1. m \in 0..NPAGE /\ m # 0
    BY VmAssumption DEF Page
  <1>2. e \in Dir
    BY <1>1, Zenon DEF Dir
  <1>3. /\ e.dir = d.dir /\ e.pt = d.pt /\ e.pte[v] = m
        /\ \A w \in VPage \ {v} : e.pte[w] = d.pte[w]
    BY Zenon DEF Dir
  <1>4. /\ m # d.dir /\ \A w \in VPage : m # d.pte[w]
        /\ \A u \in Table : m # d.pt[u]
    BY <1>1, PagesAre, Zenon
  <1>5. ASSUME NEW n PROVE n \in Pages(e) <=> n \in Pages(d) \cup {m}
    <2>1. n \in Pages(e) <=> /\ n # 0
                             /\ n = e.dir \/ (\E u \in Table : n = e.pt[u]) \/ \E w \in VPage : n = e.pte[w]
      BY Zenon DEF Pages, UserPages
    <2>2. n \in Pages(d) <=> /\ n # 0
                             /\ n = d.dir \/ (\E u \in Table : n = d.pt[u]) \/ \E w \in VPage : n = d.pte[w]
      BY PagesAre, Zenon
    <2> QED
      BY <1>1, <1>3, <2>1, <2>2, Zenon
  <1>6. NoDup(e)
    <2>1. \A u \in Table : e.pt[u] # 0 => e.pt[u] # e.dir
      BY <1>3, Zenon DEF NoDup
    <2>2. \A w \in VPage : e.pte[w] # 0 => e.pte[w] # e.dir
      BY <1>3, <1>4, Zenon DEF NoDup
    <2>3. \A u \in Table, w \in VPage : e.pt[u] # 0 => e.pt[u] # e.pte[w]
      BY <1>3, <1>4 DEF NoDup
    <2>4. \A u, w \in Table : e.pt[u] # 0 /\ e.pt[u] = e.pt[w] => u = w
      BY <1>3 DEF NoDup
    <2>5. ASSUME NEW u \in VPage, NEW w \in VPage, e.pte[u] # 0, e.pte[u] = e.pte[w] PROVE u = w
      BY <1>3, <1>4, <2>5 DEF NoDup
    <2> QED
      BY <2>1, <2>2, <2>3, <2>4, <2>5, Zenon DEF NoDup
  <1> QED
    BY <1>2, <1>5, <1>6, Zenon

\* deallocuvm() only takes pages away, and which.
LEMMA Unmaps ==
    ASSUME NEW d \in Dir, NoDup(d), NEW old, NEW new, NEW e, e = deallocuvm(d, old, new)
    PROVE  /\ e \in Dir /\ Pages(e) \subseteq Pages(d) /\ NoDup(e)
           /\ \A v \in VPage : e.pte[v] = IF v * PGSIZE >= PGROUNDUP(new) /\ v * PGSIZE < old
                                          THEN 0 ELSE d.pte[v]
  <1> DEFINE gone(v) == v * PGSIZE >= PGROUNDUP(new) /\ v * PGSIZE < old
  <1> HIDE DEF gone
  <1>1. e = [d EXCEPT !.pte = [v \in VPage |-> IF gone(v) THEN 0 ELSE d.pte[v]]]
    BY Zenon DEF deallocuvm, gone
  <1>2. 0 \in 0..NPAGE
    BY VmAssumption
  <1>3. /\ e \in Dir /\ e.dir = d.dir /\ e.pt = d.pt
        /\ \A v \in VPage : e.pte[v] = IF gone(v) THEN 0 ELSE d.pte[v]
    BY <1>1, <1>2 DEF Dir
  <1>4. \A v \in VPage : e.pte[v] # 0 => e.pte[v] = d.pte[v]
    BY <1>3, Zenon
  <1>5. Pages(e) \subseteq Pages(d)
    BY <1>3, <1>4, PagesAre
  <1>6. NoDup(e)
    <2>1. \A u \in Table : e.pt[u] # 0 => e.pt[u] # e.dir
      BY <1>3, Zenon DEF NoDup
    <2>2. \A w \in VPage : e.pte[w] # 0 => e.pte[w] # e.dir
      BY <1>3, <1>4, Zenon DEF NoDup
    <2>3. \A u \in Table, w \in VPage : e.pt[u] # 0 => e.pt[u] # e.pte[w]
      BY <1>3, <1>4 DEF NoDup
    <2>4. \A u, w \in Table : e.pt[u] # 0 /\ e.pt[u] = e.pt[w] => u = w
      BY <1>3 DEF NoDup
    <2>5. ASSUME NEW u \in VPage, NEW w \in VPage, e.pte[u] # 0, e.pte[u] = e.pte[w] PROVE u = w
      BY <1>4, <2>5, Zenon DEF NoDup
    <2> QED
      BY <2>1, <2>2, <2>3, <2>4, <2>5, Zenon DEF NoDup
  <1> QED
    BY <1>3, <1>5, <1>6, Zenon DEF gone
-----------------------------------------------------------------------------
(* Owners *)

\* The owners of a slot.
LEMMA OwnersAre ==
    /\ \A p \in Slot : \A k \in {"kstack", "pgdir", "d", "mem"} : <<p, k>> \in Owner
    /\ \A x \in Owner : \E p \in Slot : x \in {<<p, "kstack">>, <<p, "pgdir">>, <<p, "d">>, <<p, "mem">>}
    /\ \A p, q \in Slot : \A k, l \in {"kstack", "pgdir", "d", "mem"} :
           <<p, k>> = <<q, l>> => p = q /\ k = l
  <1>1. \A p \in Slot : \A k \in {"kstack", "pgdir", "d", "mem"} : <<p, k>> \in Owner
    BY Zenon DEF Owner
  <1>2. \A x \in Owner : \E p \in Slot : x \in {<<p, "kstack">>, <<p, "pgdir">>, <<p, "d">>, <<p, "mem">>}
    BY DEF Owner
  <1>3. \A p, q \in Slot : \A k, l \in {"kstack", "pgdir", "d", "mem"} :
           <<p, k>> = <<q, l>> => p = q /\ k = l
    OBVIOUS
  <1> QED
    BY <1>1, <1>2, <1>3, Zenon

\* What each owner has.
LEMMA PoolsAre ==
    \A p \in Slot : /\ Pools[<<p, "kstack">>] = {kstack[p]} \ {0}
                    /\ Pools[<<p, "pgdir">>] = Pages(pgdir[p])
                    /\ Pools[<<p, "d">>] = Pages(call[p].d)
                    /\ Pools[<<p, "mem">>] = {call[p].mem} \ {0}
  <1> SUFFICES ASSUME NEW p \in Slot
               PROVE  /\ Pools[<<p, "kstack">>] = {kstack[p]} \ {0}
                      /\ Pools[<<p, "pgdir">>] = Pages(pgdir[p])
                      /\ Pools[<<p, "d">>] = Pages(call[p].d)
                      /\ Pools[<<p, "mem">>] = {call[p].mem} \ {0}
    BY Zenon
  <1>1. ASSUME NEW k \in {"kstack", "pgdir", "d", "mem"}
        PROVE  Pools[<<p, k>>] = Owned[p][k]
    BY Zenon DEF Pools, Pool, Owner
  <1>2. Owned[p] = [kstack |-> {kstack[p]} \ {0}, pgdir |-> Pages(pgdir[p]),
                    d |-> Pages(call[p].d), mem |-> {call[p].mem} \ {0}]
    BY Zenon DEF Owned
  <1>3. /\ Owned[p]["kstack"] = {kstack[p]} \ {0} /\ Owned[p]["pgdir"] = Pages(pgdir[p])
        /\ Owned[p]["d"] = Pages(call[p].d) /\ Owned[p]["mem"] = {call[p].mem} \ {0}
    BY <1>2
  <1> QED
    BY <1>1, <1>3, Zenon

\* The same after a step.
LEMMA PoolsWillBe ==
    \A p \in Slot : /\ Pools'[<<p, "kstack">>] = {kstack'[p]} \ {0}
                    /\ Pools'[<<p, "pgdir">>] = Pages(pgdir'[p])
                    /\ Pools'[<<p, "d">>] = Pages(call'[p].d)
                    /\ Pools'[<<p, "mem">>] = {call'[p].mem} \ {0}
  <1>1. (\A p \in Slot : /\ Pools[<<p, "kstack">>] = {kstack[p]} \ {0}
                         /\ Pools[<<p, "pgdir">>] = Pages(pgdir[p])
                         /\ Pools[<<p, "d">>] = Pages(call[p].d)
                         /\ Pools[<<p, "mem">>] = {call[p].mem} \ {0})'
    BY PoolsAre, PTL
  <1> QED
    BY <1>1, Zenon

\* The memory of slot q stays as it is.
Keeps(q) ==
    /\ kstack'[q] = kstack[q] /\ pgdir'[q] = pgdir[q]
    /\ call'[q].d = call[q].d /\ call'[q].mem = call[q].mem

\* An owner of a slot whose memory stays as it is keeps what it has.
LEMMA Others ==
    ASSUME NEW x \in Owner,
           \A q \in Slot : \A k \in {"kstack", "pgdir", "d", "mem"} : x = <<q, k>> => Keeps(q)
    PROVE  Pools'[x] = Pools[x]
  <1>1. PICK q \in Slot : x \in {<<q, "kstack">>, <<q, "pgdir">>, <<q, "d">>, <<q, "mem">>}
    BY OwnersAre, Zenon
  <1>3. Keeps(q)
    BY <1>1, Zenon
  <1>4. /\ kstack'[q] = kstack[q] /\ pgdir'[q] = pgdir[q]
        /\ call'[q].d = call[q].d /\ call'[q].mem = call[q].mem
    BY <1>3, Zenon DEF Keeps
  <1>5. /\ Pools'[<<q, "kstack">>] = Pools[<<q, "kstack">>]
        /\ Pools'[<<q, "mem">>] = Pools[<<q, "mem">>]
    <2>1. /\ Pools[<<q, "kstack">>] = {kstack[q]} \ {0}
          /\ Pools[<<q, "mem">>] = {call[q].mem} \ {0}
      BY PoolsAre, Zenon
    <2>2. /\ Pools'[<<q, "kstack">>] = {kstack'[q]} \ {0}
          /\ Pools'[<<q, "mem">>] = {call'[q].mem} \ {0}
      BY PoolsWillBe, Zenon
    <2> QED
      BY <1>4, <2>1, <2>2, Zenon
  <1>6. /\ Pools'[<<q, "pgdir">>] = Pools[<<q, "pgdir">>]
        /\ Pools'[<<q, "d">>] = Pools[<<q, "d">>]
    <2>1. /\ Pools[<<q, "pgdir">>] = Pages(pgdir[q])
          /\ Pools[<<q, "d">>] = Pages(call[q].d)
      BY PoolsAre, Zenon
    <2>2. /\ Pools'[<<q, "pgdir">>] = Pages(pgdir'[q])
          /\ Pools'[<<q, "d">>] = Pages(call'[q].d)
      BY PoolsWillBe, Zenon
    <2> QED
      BY <1>4, <2>1, <2>2, Zenon
  <1> QED
    BY <1>1, <1>5, <1>6, Zenon

\* If the memory of no other slot than p changes, its owners are to look at.
LEMMA OnlyOwners ==
    ASSUME NEW p \in Slot, \A q \in Slot \ {p} : Keeps(q), NEW x \in Owner,
           \A l \in {"kstack", "pgdir", "d", "mem"} : x = <<p, l>> => Pools'[<<p, l>>] = Pools[<<p, l>>]
    PROVE  Pools'[x] = Pools[x]
  <1>1. CASE \E k \in {"kstack", "pgdir", "d", "mem"} : x = <<p, k>>
    BY <1>1, Zenon
  <1>2. CASE \A k \in {"kstack", "pgdir", "d", "mem"} : x # <<p, k>>
    <2>1. \A q \in Slot : \A k \in {"kstack", "pgdir", "d", "mem"} : x = <<q, k>> => Keeps(q)
      BY <1>2, Zenon
    <2> QED
      BY <2>1, Others, Zenon
  <1> QED
    BY <1>1, <1>2, Zenon

\* kalloc() for an owner of slot p, if nothing else changes hands.
LEMMA TakesFor ==
    ASSUME NEW p \in Slot, NEW k \in {"kstack", "pgdir", "d", "mem"}, Partition(Pools, freelist),
           NEW m \in freelist, freelist' = freelist \ {m}, \A q \in Slot \ {p} : Keeps(q),
           \A l \in {"kstack", "pgdir", "d", "mem"} \ {k} : Pools'[<<p, l>>] = Pools[<<p, l>>],
           Pools'[<<p, k>>] = Pools[<<p, k>>] \cup {m}
    PROVE  Partition(Pools', freelist')
  <1>1. ASSUME NEW x \in Owner \ {<<p, k>>} PROVE Pools'[x] = Pools[x]
    <2>1. \A l \in {"kstack", "pgdir", "d", "mem"} : x = <<p, l>> => Pools'[<<p, l>>] = Pools[<<p, l>>]
      BY Zenon
    <2> QED
      BY <2>1, OnlyOwners, Zenon
  <1>2. <<p, k>> \in Owner
    BY OwnersAre, Zenon
  <1>3. Partition(Pools', freelist \ {m})
    BY <1>1, <1>2, Takes, Zenon
  <1> QED
    BY <1>3, Zenon

\* The invariant of the pages after a step.
LEMMA NewMemory ==
    ASSUME Partition(Pools', freelist'),
           \A p \in Slot : NoDup(pgdir'[p]) /\ NoDup(call'[p].d)
    PROVE  Memory'
  <1>1. Partition(Pools, freelist)'
    BY Zenon DEF Partition
  <1>2. (\A p \in Slot : NoDup(pgdir[p]) /\ NoDup(call[p].d))'
    BY Zenon DEF NoDup
  <1> QED
    BY <1>1, <1>2, Zenon DEF Memory
-----------------------------------------------------------------------------
(* Calls *)

\* The call of q goes on where it was.
Quiet(q) ==
    /\ pc'[q] = pc[q] /\ call'[q] = call[q]
    /\ pc[q] # "out" => state'[q] = state[q]
    /\ call[q].op = "fork" => /\ state'[call[q].np] = state[call[q].np]
                              /\ kstack'[call[q].np] = 0 <=> kstack[call[q].np] = 0

\* What holds of a call that nothing touches goes on to hold.
LEMMA QuietCall ==
    ASSUME NEW q \in Slot, Quiet(q), CallOK(q), LoopOK(q)
    PROVE  CallOK(q)' /\ LoopOK(q)'
  <1>1. pc'[q] = pc[q] /\ call'[q] = call[q] /\ More(q)' = More(q)
    BY Zenon DEF Quiet, More
  <1>2. LoopOK(q)'
    BY <1>1, Zenon DEF LoopOK
  <1>3. CallOK(q)'
    BY <1>1, Zenon DEF CallOK, Quiet
  <1> QED
    BY <1>2, <1>3, Zenon

\* A step of p alone, of no process that is born or dies.
Local(p) ==
    /\ freelist' \subseteq Page
    /\ state[p] = "RUNNING" /\ state' = state /\ kstack' = kstack
    /\ pgdir' \in [Slot -> Dir] /\ sz' \in [Slot -> 0..KERNBASE-1]
    /\ pc' \in [Slot -> {"out", "kstack", "setupkvm", "kmap", "kalloc", "mappages"}]
    /\ call' \in [Slot -> Call] /\ panicked' \in BOOLEAN
    /\ \A q \in Slot \ {p} : pc'[q] = pc[q] /\ call'[q] = call[q] /\ pgdir'[q] = pgdir[q]
    /\ call'[p].op = "fork" => call[p].op = "fork" /\ call'[p].np = call[p].np

\* Such a step has to be looked at where it happens only.
LEMMA LocalStep ==
    ASSUME Calls, NEW p \in Slot, Local(p), CallOK(p)', LoopOK(p)'
    PROVE  Calls'
  <1>1. TypeOK'
    BY Zenon DEF TypeOK, Calls, Local
  <1>2. ASSUME NEW q \in Slot PROVE CallOK(q)' /\ LoopOK(q)'
    <2>1. CASE q # p
      <3>1. Quiet(q)
        BY <2>1, Zenon DEF Quiet, Local
      <3> QED
        BY <3>1, QuietCall, Zenon DEF Calls
    <2> QED
      BY <2>1, Zenon
  <1>3. ASSUME NEW q \in Slot PROVE SlotOK(q)'
    <2>1. state'[q] = state[q] /\ kstack'[q] = kstack[q] /\ SlotOK(q)
      BY Zenon DEF Local, Calls
    <2>2. q # p => pgdir'[q] = pgdir[q]
      BY Zenon DEF Local
    <2>3. q = p => state[q] = "RUNNING"
      BY Zenon DEF Local
    <2> QED
      BY <2>1, <2>2, <2>3, Zenon DEF SlotOK
  <1>4. ASSUME NEW q \in Slot, NEW r \in Slot, call'[q].op = "fork", call'[r].op = "fork",
               call'[q].np = call'[r].np
        PROVE  q = r
    <2>1. ASSUME NEW t \in Slot, call'[t].op = "fork"
          PROVE  call[t].op = "fork" /\ call'[t].np = call[t].np
      BY <2>1, Zenon DEF Local
    <2> QED
      BY <1>4, <2>1, Zenon DEF Calls
  <1> QED
    BY <1>1, <1>2, <1>3, <1>4, Zenon DEF Calls
-----------------------------------------------------------------------------
(* setupkvm() *)

\* The address space of a call changes, and nothing else of it.
LEMMA NewD ==
    ASSUME TypeOK, NEW p \in Slot, NEW e \in Dir, call' = [call EXCEPT ![p].d = e]
    PROVE  /\ call' \in [Slot -> Call] /\ \A q \in Slot \ {p} : call'[q] = call[q]
           /\ call'[p].d = e /\ call'[p].op = call[p].op /\ call'[p].np = call[p].np
           /\ call'[p].a = call[p].a /\ call'[p].newsz = call[p].newsz
           /\ call'[p].mem = call[p].mem
  <1>1. call \in [Slot -> Call] /\ call[p] \in Call
    BY Zenon DEF TypeOK
  <1> DEFINE c == [call[p] EXCEPT !.d = e]
  <1>2. /\ c \in Call /\ c.d = e /\ c.op = call[p].op /\ c.np = call[p].np
        /\ c.a = call[p].a /\ c.newsz = call[p].newsz /\ c.mem = call[p].mem
    BY <1>1, Zenon DEF Call
  <1>3. call' = [call EXCEPT ![p] = c]
    OBVIOUS
  <1> HIDE DEF c
  <1>4. call'[p] = c /\ (\A q \in Slot \ {p} : call'[q] = call[q]) /\ call' \in [Slot -> Call]
    BY <1>1, <1>2, <1>3, Zenon
  <1> QED
    BY <1>2, <1>4, Zenon

\* Pages that are free belong to nobody.
LEMMA FreeIsFree ==
    ASSUME Memory, NEW p \in Slot, NEW m \in freelist
    PROVE  /\ m \in Page /\ m # 0
           /\ m \notin Pages(pgdir[p]) /\ m \notin Pages(call[p].d)
           /\ m # kstack[p] /\ m # call[p].mem
  <1>1. m \in Page /\ \A x \in Owner : m \notin Pools[x]
    BY Zenon DEF Memory, Partition
  <1>2. m # 0
    BY <1>1, VmAssumption DEF Page
  <1>3. /\ m \notin Pools[<<p, "kstack">>] /\ m \notin Pools[<<p, "pgdir">>]
        /\ m \notin Pools[<<p, "d">>] /\ m \notin Pools[<<p, "mem">>]
    BY <1>1, OwnersAre, Zenon
  <1>4. /\ Pools[<<p, "kstack">>] = {kstack[p]} \ {0} /\ Pools[<<p, "pgdir">>] = Pages(pgdir[p])
        /\ Pools[<<p, "d">>] = Pages(call[p].d) /\ Pools[<<p, "mem">>] = {call[p].mem} \ {0}
    BY PoolsAre, Zenon
  <1>5. m \notin Pages(pgdir[p]) /\ m \notin Pages(call[p].d)
    BY <1>3, <1>4, Zenon
  <1>6. m \notin {kstack[p]} \ {0} /\ m \notin {call[p].mem} \ {0}
    BY <1>3, <1>4, Zenon
  <1> QED
    BY <1>1, <1>2, <1>5, <1>6, Zenon

\* A free page goes to the address space that a call builds.
LEMMA TakesD ==
    ASSUME Memory, NEW p \in Slot, NEW m \in freelist, freelist' = freelist \ {m},
           UNCHANGED <<kstack, pgdir>>, \A q \in Slot \ {p} : call'[q] = call[q],
           call'[p].mem = call[p].mem, Pages(call'[p].d) = Pages(call[p].d) \cup {m}, NoDup(call'[p].d)
    PROVE  Memory'
  <1>1. \A q \in Slot \ {p} : Keeps(q)
    BY Zenon DEF Keeps
  <1>2. /\ Pools[<<p, "kstack">>] = {kstack[p]} \ {0} /\ Pools[<<p, "pgdir">>] = Pages(pgdir[p])
        /\ Pools[<<p, "d">>] = Pages(call[p].d) /\ Pools[<<p, "mem">>] = {call[p].mem} \ {0}
    BY PoolsAre, Zenon
  <1>3. /\ Pools'[<<p, "kstack">>] = {kstack'[p]} \ {0} /\ Pools'[<<p, "pgdir">>] = Pages(pgdir'[p])
        /\ Pools'[<<p, "d">>] = Pages(call'[p].d) /\ Pools'[<<p, "mem">>] = {call'[p].mem} \ {0}
    BY PoolsWillBe, Zenon
  <1>4. \A l \in {"kstack", "pgdir", "d", "mem"} \ {"d"} : Pools'[<<p, l>>] = Pools[<<p, l>>]
    BY <1>2, <1>3, Zenon
  <1>6. Pools'[<<p, "d">>] = Pools[<<p, "d">>] \cup {m}
    BY <1>2, <1>3, Zenon
  <1>7. Partition(Pools', freelist')
    BY <1>1, <1>4, <1>6, TakesFor, Zenon DEF Memory
  <1>8. \A q \in Slot : NoDup(pgdir'[q]) /\ NoDup(call'[q].d)
    BY Zenon DEF Memory
  <1> QED
    BY <1>7, <1>8, NewMemory, Zenon

\* setupkvm() gets the page directory.
LEMMA SetupkvmInv ==
    ASSUME VmInv, NEW p \in Slot, setupkvm(p)
    PROVE  VmInv'
  <1>1. PICK m \in Page : kalloc(m) /\ call' = [call EXCEPT ![p].d.dir = m]
    BY Zenon DEF setupkvm
  <1>2. m \in freelist /\ freelist' = freelist \ {m} /\ UNCHANGED <<state, kstack, pgdir, sz, panicked>>
    BY <1>1, Zenon DEF kalloc, setupkvm
  <1>3. /\ pc[p] = "setupkvm" /\ state[p] = "RUNNING" /\ pc' = [pc EXCEPT ![p] = "kmap"]
        /\ TypeOK /\ CallOK(p) /\ LoopOK(p) /\ Calls /\ Memory
    BY Zenon DEF setupkvm, at, goto, VmInv, Calls
  <1>4. /\ call[p].d = NoDir /\ call[p].op \in {"fork", "exec"} /\ call[p].a = 0 /\ call[p].mem = 0
        /\ call[p].op = "fork" => state[call[p].np] = "EMBRYO" /\ kstack[call[p].np] # 0
    BY <1>3, Zenon DEF CallOK
  <1>5. PICK e : e = [NoDir EXCEPT !.dir = m]
    BY Zenon
  <1>6. e \in Dir /\ Pages(e) = {m} /\ NoDup(e) /\ e.pt[KERNEL] = 0
    <2>1. e.pt[KERNEL] = 0
      BY <1>5, Indices, Zenon DEF NoDir
    <2> QED
      BY <1>5, <2>1, AddDir, Zenon
  <1>7. call' = [call EXCEPT ![p].d = e]
    BY <1>1, <1>4, <1>5, Zenon
  <1>8. /\ call' \in [Slot -> Call] /\ \A q \in Slot \ {p} : call'[q] = call[q]
        /\ call'[p].d = e /\ call'[p].op = call[p].op /\ call'[p].np = call[p].np
        /\ call'[p].a = call[p].a /\ call'[p].newsz = call[p].newsz
        /\ call'[p].mem = call[p].mem
    BY <1>3, <1>6, <1>7, NewD, Zenon
  <1>9. pc'[p] = "kmap" /\ \A q \in Slot \ {p} : pc'[q] = pc[q]
    BY <1>3, Zenon DEF TypeOK
  <1>10. CallOK(p)'
    <2>1. state' = state /\ kstack' = kstack /\ call'[p].d.pt[KERNEL] = 0
      BY <1>2, <1>6, <1>8, Zenon
    <2>2. /\ call'[p].op \in {"fork", "exec"} /\ call'[p].a = 0 /\ call'[p].mem = 0
          /\ call'[p].op = "fork" => state'[call'[p].np] = "EMBRYO" /\ kstack'[call'[p].np] # 0
      BY <1>4, <1>8, <2>1, Zenon
    <2>3. pc'[p] = "kmap" /\ state'[p] = "RUNNING"
      BY <1>3, <1>9, <2>1, Zenon
    <2> QED
      BY <2>1, <2>2, <2>3, Zenon DEF CallOK
  <1>11. LoopOK(p)'
    BY <1>3, <1>8, Zenon DEF LoopOK
  <1>12. Local(p)
    <2>1. freelist' \subseteq Page
      BY <1>2, <1>3, Zenon DEF TypeOK
    <2>2. pc' \in [Slot -> {"out", "kstack", "setupkvm", "kmap", "kalloc", "mappages"}]
      BY <1>3, Zenon DEF TypeOK
    <2> QED
      BY <1>2, <1>3, <1>8, <1>9, <2>1, <2>2, Zenon DEF Local, TypeOK
  <1>13. Memory'
    <2>1. Pages(call'[p].d) = Pages(call[p].d) \cup {m} /\ NoDup(call'[p].d)
      BY <1>4, <1>6, <1>8, Indices, Zenon
    <2> QED
      BY <1>2, <1>3, <1>8, <2>1, TakesD, Zenon
  <1> QED
    BY <1>3, <1>10, <1>11, <1>12, <1>13, LocalStep, Zenon DEF VmInv

\* setupkvm() gets the page table of the kernel.
LEMMA KmapInv ==
    ASSUME VmInv, NEW p \in Slot, kmap(p)
    PROVE  VmInv'
  <1>1. PICK m \in Page : kalloc(m) /\ call' = [call EXCEPT ![p].d.pt[KERNEL] = m]
    BY Zenon DEF kmap
  <1>2. m \in freelist /\ freelist' = freelist \ {m} /\ UNCHANGED <<state, kstack, pgdir, sz, panicked>>
    BY <1>1, Zenon DEF kalloc, kmap
  <1>3. /\ pc[p] = "kmap" /\ state[p] = "RUNNING" /\ pc' = [pc EXCEPT ![p] = "kalloc"]
        /\ TypeOK /\ CallOK(p) /\ LoopOK(p) /\ Calls /\ Memory
    BY Zenon DEF kmap, at, goto, VmInv, Calls
  <1>4. /\ call[p].d.pt[KERNEL] = 0 /\ call[p].op \in {"fork", "exec"} /\ call[p].mem = 0
        /\ call[p].op = "fork" => state[call[p].np] = "EMBRYO" /\ kstack[call[p].np] # 0
    BY <1>3, Zenon DEF CallOK
  <1>5. PICK e : e = [call[p].d EXCEPT !.pt[KERNEL] = m]
    BY Zenon
  <1>6. e \in Dir /\ Pages(e) = Pages(call[p].d) \cup {m} /\ NoDup(e)
    <2>1. call[p].d \in Dir
      BY <1>3, Zenon DEF TypeOK, Call
    <2>2. KERNEL \in Table /\ m \notin Pages(call[p].d) /\ NoDup(call[p].d)
      BY <1>2, <1>3, Indices, FreeIsFree, Zenon DEF Memory
    <2> QED
      BY <1>4, <1>5, <2>1, <2>2, AddTable, ZenonT(30)
  <1>7. call' = [call EXCEPT ![p].d = e]
    BY <1>1, <1>5, Zenon
  <1>8. /\ call' \in [Slot -> Call] /\ \A q \in Slot \ {p} : call'[q] = call[q]
        /\ call'[p].d = e /\ call'[p].op = call[p].op /\ call'[p].np = call[p].np
        /\ call'[p].a = call[p].a /\ call'[p].newsz = call[p].newsz
        /\ call'[p].mem = call[p].mem
    BY <1>3, <1>6, <1>7, NewD, Zenon
  <1>9. pc'[p] = "kalloc" /\ \A q \in Slot \ {p} : pc'[q] = pc[q]
    BY <1>3, Zenon DEF TypeOK
  <1>10. CallOK(p)'
    <2>1. state' = state /\ kstack' = kstack
      BY <1>2, Zenon
    <2>2. /\ call'[p].op \in {"fork", "exec"} /\ call'[p].mem = 0
          /\ call'[p].op = "fork" => state'[call'[p].np] = "EMBRYO" /\ kstack'[call'[p].np] # 0
      BY <1>4, <1>8, <2>1, Zenon
    <2>3. pc'[p] = "kalloc" /\ state'[p] = "RUNNING"
      BY <1>3, <1>9, <2>1, Zenon
    <2> QED
      BY <2>1, <2>2, <2>3, Zenon DEF CallOK
  <1>11. LoopOK(p)'
    BY <1>3, <1>8, Zenon DEF LoopOK
  <1>12. Local(p)
    <2>1. freelist' \subseteq Page
      BY <1>2, <1>3, Zenon DEF TypeOK
    <2>2. pc' \in [Slot -> {"out", "kstack", "setupkvm", "kmap", "kalloc", "mappages"}]
      BY <1>3, Zenon DEF TypeOK
    <2> QED
      BY <1>2, <1>3, <1>8, <1>9, <2>1, <2>2, Zenon DEF Local, TypeOK
  <1>13. Memory'
    <2>1. Pages(call'[p].d) = Pages(call[p].d) \cup {m} /\ NoDup(call'[p].d)
      BY <1>6, <1>8, Zenon
    <2> QED
      BY <1>2, <1>3, <1>8, <2>1, TakesD, Zenon
  <1> QED
    BY <1>3, <1>10, <1>11, <1>12, <1>13, LocalStep, Zenon DEF VmInv
-----------------------------------------------------------------------------
(* The loop of allocuvm() and copyuvm() *)

\* A panic changes nothing else.
LEMMA PanicInv ==
    ASSUME VmInv, UNCHANGED <<freelist, state, kstack, pgdir, sz, pc, call>>, panicked' \in BOOLEAN
    PROVE  VmInv'
  <1>1. TypeOK'
    BY Zenon DEF VmInv, Calls, TypeOK
  <1>2. \A p \in Slot : CallOK(p)' /\ LoopOK(p)' /\ SlotOK(p)'
    <2> SUFFICES ASSUME NEW p \in Slot PROVE CallOK(p)' /\ LoopOK(p)' /\ SlotOK(p)'
      BY Zenon
    <2>1. CallOK(p) /\ LoopOK(p) /\ SlotOK(p)
      BY Zenon DEF VmInv, Calls
    <2>2. Quiet(p)
      BY Zenon DEF Quiet
    <2>3. SlotOK(p)'
      BY <2>1, Zenon DEF SlotOK
    <2> QED
      BY <2>1, <2>2, <2>3, QuietCall, Zenon
  <1>3. Calls'
    BY <1>1, <1>2, Zenon DEF VmInv, Calls
  <1>4. Memory'
    <2>1. ASSUME NEW x \in Owner PROVE Pools'[x] = Pools[x]
      <3>1. \A q \in Slot : Keeps(q)
        BY Zenon DEF Keeps
      <3> QED
        BY <3>1, Others, Zenon
    <2>2. Partition(Pools, freelist)
      BY Zenon DEF VmInv, Memory
    <2>3. Partition(Pools', freelist')
      BY <2>1, <2>2, Zenon DEF Partition
    <2>4. \A p \in Slot : NoDup(pgdir'[p]) /\ NoDup(call'[p].d)
      BY Zenon DEF VmInv, Memory
    <2> QED
      BY <2>3, <2>4, NewMemory, Zenon
  <1> QED
    BY <1>3, <1>4, Zenon DEF VmInv

\* The page that the loop is about to map changes.
LEMMA NewMem ==
    ASSUME TypeOK, NEW p \in Slot, NEW m \in 0..NPAGE, call' = [call EXCEPT ![p].mem = m]
    PROVE  /\ call' \in [Slot -> Call] /\ \A q \in Slot \ {p} : call'[q] = call[q]
           /\ call'[p].d = call[p].d /\ call'[p].op = call[p].op /\ call'[p].np = call[p].np
           /\ call'[p].a = call[p].a /\ call'[p].newsz = call[p].newsz
           /\ call'[p].mem = m
  <1>1. call \in [Slot -> Call] /\ call[p] \in Call
    BY Zenon DEF TypeOK
  <1> DEFINE c == [call[p] EXCEPT !.mem = m]
  <1>2. /\ c \in Call /\ c.d = call[p].d /\ c.op = call[p].op /\ c.np = call[p].np
        /\ c.a = call[p].a /\ c.newsz = call[p].newsz /\ c.mem = m
    BY <1>1, Zenon DEF Call
  <1>3. call' = [call EXCEPT ![p] = c]
    OBVIOUS
  <1> HIDE DEF c
  <1>4. call'[p] = c /\ (\A q \in Slot \ {p} : call'[q] = call[q]) /\ call' \in [Slot -> Call]
    BY <1>1, <1>2, <1>3, Zenon
  <1> QED
    BY <1>2, <1>4, Zenon

\* A free page goes to a call that is about to map it.
LEMMA TakesMem ==
    ASSUME Memory, NEW p \in Slot, NEW m \in freelist, freelist' = freelist \ {m},
           UNCHANGED <<kstack, pgdir>>, \A q \in Slot \ {p} : call'[q] = call[q],
           call[p].mem = 0, call'[p].mem = m, call'[p].d = call[p].d
    PROVE  Memory'
  <1>1. \A q \in Slot \ {p} : Keeps(q)
    BY Zenon DEF Keeps
  <1>2. /\ Pools[<<p, "kstack">>] = {kstack[p]} \ {0} /\ Pools[<<p, "pgdir">>] = Pages(pgdir[p])
        /\ Pools[<<p, "d">>] = Pages(call[p].d) /\ Pools[<<p, "mem">>] = {call[p].mem} \ {0}
    BY PoolsAre, Zenon
  <1>3. /\ Pools'[<<p, "kstack">>] = {kstack'[p]} \ {0} /\ Pools'[<<p, "pgdir">>] = Pages(pgdir'[p])
        /\ Pools'[<<p, "d">>] = Pages(call'[p].d) /\ Pools'[<<p, "mem">>] = {call'[p].mem} \ {0}
    BY PoolsWillBe, Zenon
  <1>4. \A l \in {"kstack", "pgdir", "d", "mem"} \ {"mem"} : Pools'[<<p, l>>] = Pools[<<p, l>>]
    BY <1>2, <1>3, Zenon
  <1>6. Pools'[<<p, "mem">>] = Pools[<<p, "mem">>] \cup {m}
    <2>1. m # 0
      BY FreeIsFree, Zenon
    <2>2. {call[p].mem} \ {0} = {} /\ {call'[p].mem} \ {0} = {m}
      BY <2>1, Zenon
    <2>3. Pools[<<p, "mem">>] = {} /\ Pools'[<<p, "mem">>] = {m}
      BY <1>2, <1>3, <2>2, Zenon
    <2> QED
      BY <2>3, Zenon
  <1>7. Partition(Pools', freelist')
    BY <1>1, <1>4, <1>6, TakesFor, Zenon DEF Memory
  <1>8. \A q \in Slot : NoDup(pgdir'[q]) /\ NoDup(call'[q].d)
    BY Zenon DEF Memory
  <1> QED
    BY <1>7, <1>8, NewMemory, Zenon

\* A page is allocated for the loop, or copyuvm() panics.
LEMMA LoopKallocInv ==
    ASSUME VmInv, NEW p \in Slot, loop_kalloc(p)
    PROVE  VmInv'
  <1>1. CASE panicked' = TRUE /\ UNCHANGED <<freelist, call, pc>>
    <2>1. UNCHANGED <<freelist, state, kstack, pgdir, sz, pc, call>> /\ panicked' \in BOOLEAN
      BY <1>1, Zenon DEF loop_kalloc
    <2> QED
      BY <2>1, PanicInv, Zenon
  <1>2. CASE /\ \E m \in Page : kalloc(m) /\ call' = [call EXCEPT ![p].mem = m]
             /\ goto(p, "mappages") /\ UNCHANGED panicked
    <2>1. PICK m \in Page : kalloc(m) /\ call' = [call EXCEPT ![p].mem = m]
      BY <1>2, Zenon
    <2>2. m \in freelist /\ freelist' = freelist \ {m} /\ UNCHANGED <<state, kstack, pgdir, sz, panicked>>
      BY <1>2, <2>1, Zenon DEF kalloc, loop_kalloc
    <2>3. /\ pc[p] = "kalloc" /\ state[p] = "RUNNING" /\ pc' = [pc EXCEPT ![p] = "mappages"]
          /\ More(p) /\ TypeOK /\ CallOK(p) /\ LoopOK(p) /\ Calls /\ Memory
      BY <1>2, Zenon DEF loop_kalloc, at, goto, VmInv, Calls
    <2>4. /\ call[p].op # "none" /\ call[p].mem = 0
          /\ call[p].op = "sbrk" => call[p].d = NoDir
          /\ call[p].op \in {"sbrk", "stack"} => call[p].newsz < KERNBASE
          /\ call[p].op = "fork" => state[call[p].np] = "EMBRYO" /\ kstack[call[p].np] # 0
      BY <2>3, Zenon DEF CallOK
    <2>5. m \in 0..NPAGE /\ m # 0
      BY VmAssumption DEF Page
    <2>8. /\ call' \in [Slot -> Call] /\ \A q \in Slot \ {p} : call'[q] = call[q]
          /\ call'[p].d = call[p].d /\ call'[p].op = call[p].op /\ call'[p].np = call[p].np
          /\ call'[p].a = call[p].a /\ call'[p].newsz = call[p].newsz
          /\ call'[p].mem = m
      BY <2>1, <2>3, <2>5, NewMem, Zenon
    <2>9. pc'[p] = "mappages" /\ \A q \in Slot \ {p} : pc'[q] = pc[q]
      BY <2>3, Zenon DEF TypeOK
    <2>10. CallOK(p)'
      <3>1. state' = state /\ kstack' = kstack
        BY <2>2, Zenon
      <3>2. /\ call'[p].op # "none" /\ call'[p].mem # 0 /\ More(p)'
            /\ call'[p].op = "sbrk" => call'[p].d = NoDir
            /\ call'[p].op \in {"sbrk", "stack"} => call'[p].newsz < KERNBASE
        BY <2>3, <2>4, <2>5, <2>8, Zenon DEF More
      <3>3. call'[p].op = "fork" => state'[call'[p].np] = "EMBRYO" /\ kstack'[call'[p].np] # 0
        BY <2>4, <2>8, <3>1, Zenon
      <3>4. pc'[p] = "mappages" /\ state'[p] = "RUNNING"
        BY <2>3, <2>9, <3>1, Zenon
      <3> QED
        BY <3>2, <3>3, <3>4, Zenon DEF CallOK
    <2>11. LoopOK(p)'
      BY <2>3, <2>8, Zenon DEF LoopOK
    <2>12. Local(p)
      <3>1. freelist' \subseteq Page
        BY <2>2, <2>3, Zenon DEF TypeOK
      <3>2. pc' \in [Slot -> {"out", "kstack", "setupkvm", "kmap", "kalloc", "mappages"}]
        BY <2>3, Zenon DEF TypeOK
      <3> QED
        BY <2>2, <2>3, <2>8, <2>9, <3>1, <3>2, Zenon DEF Local, TypeOK
    <2>13. Memory'
      BY <2>2, <2>3, <2>4, <2>8, TakesMem, Zenon
    <2> QED
      BY <2>3, <2>10, <2>11, <2>12, <2>13, LocalStep, Zenon DEF VmInv
  <1> QED
    BY <1>1, <1>2, Zenon DEF loop_kalloc

\* d with page n mapped at v through page table m.
With(d, v, n, m) == [d EXCEPT !.pte[v] = n, !.pt[PDX(v)] = m]

\* mappages() of page n at v, through a page table that is there or is new.
LEMMA MapOne ==
    ASSUME NEW d \in Dir, NoDup(d), NEW v \in VPage, d.pte[v] = 0, NEW n \in Page, n \notin Pages(d),
           NEW m \in Page, d.pt[PDX(v)] = m \/ (d.pt[PDX(v)] = 0 /\ m \notin Pages(d) /\ m # n),
           NEW e, e = With(d, v, n, m)
    PROVE  /\ e \in Dir /\ NoDup(e) /\ Pages(e) = Pages(d) \cup {n, m}
           /\ e.pte[v] = n /\ \A w \in VPage \ {v} : e.pte[w] = d.pte[w]
  <1>1. PDX(v) \in Table
    BY Indices, Zenon
  <1>2. PICK c : c = [d EXCEPT !.pte[v] = n]
    BY Zenon
  <1>3. c \in Dir /\ Pages(c) = Pages(d) \cup {n} /\ NoDup(c)
    BY <1>2, AddPage, Zenon
  <1>4. e = [c EXCEPT !.pt[PDX(v)] = m]
    BY <1>2, Zenon DEF With
  <1>5. /\ c.pt = d.pt /\ c.pte[v] = n /\ \A w \in VPage \ {v} : c.pte[w] = d.pte[w]
        /\ e.pte = c.pte
    BY <1>2, <1>4, Zenon DEF Dir
  <1>6. CASE d.pt[PDX(v)] = m
    <2>1. c.pt \in [Table -> 0..NPAGE] /\ c.pt[PDX(v)] = m
      BY <1>3, <1>5, <1>6, Zenon DEF Dir
    <2>2. [c.pt EXCEPT ![PDX(v)] = m] = c.pt
      BY <2>1, Zenon
    <2>3. e = [c EXCEPT !.pt = c.pt]
      BY <1>4, <2>2, Zenon
    <2>4. e = c
      BY <1>3, <2>3, Zenon DEF Dir
    <2>5. m \in Pages(d)
      <3>1. m # 0
        BY VmAssumption DEF Page
      <3> QED
        BY <1>1, <1>6, <3>1, Zenon DEF Pages
    <2> QED
      BY <1>3, <1>5, <2>4, <2>5, Zenon
  <1>7. CASE d.pt[PDX(v)] = 0 /\ m \notin Pages(d) /\ m # n
    <2>1. c.pt[PDX(v)] = 0 /\ m \notin Pages(c)
      BY <1>3, <1>5, <1>7, Zenon
    <2>2. e \in Dir /\ Pages(e) = Pages(c) \cup {m} /\ NoDup(e)
      BY <1>1, <1>3, <1>4, <2>1, AddTable, Zenon
    <2> QED
      BY <1>3, <1>5, <2>2, Zenon
  <1> QED
    BY <1>6, <1>7, Zenon

\* Where the loop is.
LEMMA LoopPage ==
    ASSUME Calls, NEW p \in Slot, More(p)
    PROVE  \E k \in VPage : /\ call[p].a = k * PGSIZE /\ call[p].a \div PGSIZE = k
                            /\ call[p].a + PGSIZE = (k + 1) * PGSIZE
                            /\ call[p].a + PGSIZE \in 0..UINT
                            /\ call[p].a + PGSIZE < call[p].newsz + PGSIZE
  <1>1. PICK k \in Nat : call[p].a = k * PGSIZE
    BY Zenon DEF Calls, LoopOK
  <1>2. PGSIZE \in Nat /\ KERNBASE \in Nat /\ PGSIZE < KERNBASE
    BY VmAssumption, Zenon
  <1>3. call[p].a \in Nat /\ call[p].newsz \in Nat
    <2>1. call[p] \in Call
      BY Zenon DEF Calls, TypeOK
    <2>2. UINT \in Nat
      BY <1>2 DEF UINT
    <2> QED
      BY <2>1, <2>2 DEF Call
  <1>4. call[p].a < call[p].newsz /\ call[p].newsz < KERNBASE
    BY Zenon DEF More
  <1>5. k * PGSIZE < KERNBASE
    BY <1>1, <1>2, <1>3, <1>4
  <1>6. k \in VPage /\ (k * PGSIZE) \div PGSIZE = k
    BY <1>5, AtPage, Zenon
  <1>7. (k + 1) * PGSIZE = k * PGSIZE + PGSIZE
    BY <1>2
  <1>8. /\ call[p].a + PGSIZE = (k + 1) * PGSIZE /\ call[p].a + PGSIZE \in 0..UINT
        /\ call[p].a + PGSIZE < call[p].newsz + PGSIZE
    BY <1>1, <1>2, <1>3, <1>4, <1>7 DEF UINT
  <1> QED
    BY <1>1, <1>6, <1>8, Zenon

\* The page to map is in no address space yet.
LEMMA MemIsNew ==
    ASSUME Memory, NEW p \in Slot, call[p].mem # 0
    PROVE  /\ call[p].mem \in Page
           /\ call[p].mem \notin Pages(pgdir[p]) /\ call[p].mem \notin Pages(call[p].d)
  <1>1. /\ Pools[<<p, "pgdir">>] = Pages(pgdir[p]) /\ Pools[<<p, "d">>] = Pages(call[p].d)
        /\ Pools[<<p, "mem">>] = {call[p].mem} \ {0}
    BY PoolsAre, Zenon
  <1>2. call[p].mem \in Pools[<<p, "mem">>]
    BY <1>1, Zenon
  <1>3. /\ <<p, "mem">> \in Owner /\ <<p, "d">> \in Owner /\ <<p, "pgdir">> \in Owner
        /\ <<p, "mem">> # <<p, "d">> /\ <<p, "mem">> # <<p, "pgdir">>
    BY OwnersAre, Zenon
  <1>4. /\ Pools[<<p, "mem">>] \subseteq Page
        /\ Pools[<<p, "mem">>] \cap Pools[<<p, "d">>] = {}
        /\ Pools[<<p, "mem">>] \cap Pools[<<p, "pgdir">>] = {}
    BY <1>3, Zenon DEF Memory, Partition
  <1> QED
    BY <1>1, <1>2, <1>4, Zenon

\* The address space r of slot p gets its page, and a page table from kalloc().
LEMMA GivesPage ==
    ASSUME NEW p \in Slot, NEW r \in {<<p, "pgdir">>, <<p, "d">>}, Partition(Pools, freelist),
           \A x \in Owner \ {<<p, "mem">>, r} : Pools'[x] = Pools[x], Pools'[<<p, "mem">>] = {},
           NEW m, Pools'[r] = Pools[r] \cup Pools[<<p, "mem">>] \cup {m},
           (m \in Pools[r] /\ freelist' = freelist) \/ (m \in freelist /\ freelist' = freelist \ {m})
    PROVE  Partition(Pools', freelist')
  <1>1. <<p, "mem">> \in Owner /\ r \in Owner /\ <<p, "mem">> # r
    BY OwnersAre, ZenonT(30)
  <1>2. CASE m \in Pools[r] /\ freelist' = freelist
    <2>1. Pools'[r] = Pools[r] \cup Pools[<<p, "mem">>]
      BY <1>2, Zenon
    <2>2. Partition(Pools', freelist)
      BY <1>1, <2>1, MovesTo, Zenon
    <2> QED
      BY <1>2, <2>2, Zenon
  <1>3. CASE m \in freelist /\ freelist' = freelist \ {m}
    <2>1. PICK h : h = [x \in Owner |-> IF x = r THEN Pools[r] \cup {m} ELSE Pools[x]]
      BY Zenon
    <2>2. h[r] = Pools[r] \cup {m} /\ \A x \in Owner \ {r} : h[x] = Pools[x]
      BY <1>1, <2>1, Zenon
    <2>3. Partition(h, freelist \ {m})
      BY <1>1, <1>3, <2>2, Takes, Zenon
    <2>4. /\ Pools'[r] = h[r] \cup h[<<p, "mem">>]
          /\ \A x \in Owner \ {<<p, "mem">>, r} : Pools'[x] = h[x]
      <3>1. h[<<p, "mem">>] = Pools[<<p, "mem">>]
        BY <1>1, <2>2, Zenon
      <3>2. Pools'[r] = h[r] \cup h[<<p, "mem">>]
        BY <2>2, <3>1, Zenon
      <3>3. \A x \in Owner \ {<<p, "mem">>, r} : Pools'[x] = h[x]
        BY <2>2, Zenon
      <3> QED
        BY <3>2, <3>3, Zenon
    <2>5. Partition(Pools', freelist \ {m})
      BY <1>1, <2>3, <2>4, MovesTo
    <2> QED
      BY <1>3, <2>5, Zenon
  <1> QED
    BY <1>2, <1>3, Zenon

\* What mapped(p, m) does, with e the address space it makes.
LEMMA MappedDoes ==
    ASSUME TypeOK, NEW p \in Slot, NEW m, mapped(p, m), call[p].a + PGSIZE \in 0..UINT,
           NEW e \in Dir, e = With(Target(p), call[p].a \div PGSIZE, call[p].mem, m)
    PROVE  /\ call' \in [Slot -> Call] /\ \A q \in Slot \ {p} : call'[q] = call[q]
           /\ call'[p].op = call[p].op /\ call'[p].np = call[p].np
           /\ call'[p].newsz = call[p].newsz
           /\ call'[p].a = call[p].a + PGSIZE /\ call'[p].mem = 0
           /\ pgdir' \in [Slot -> Dir] /\ \A q \in Slot \ {p} : pgdir'[q] = pgdir[q]
           /\ IF call[p].op = "sbrk" THEN pgdir'[p] = e /\ call'[p].d = call[p].d
              ELSE call'[p].d = e /\ pgdir'[p] = pgdir[p]
  <1>1. call \in [Slot -> Call] /\ call[p] \in Call /\ pgdir \in [Slot -> Dir]
    BY Zenon DEF TypeOK
  <1>2. PICK c : c = [call[p] EXCEPT !.a = @ + PGSIZE, !.mem = 0]
    BY Zenon
  <1>3. 0 \in 0..NPAGE
    BY VmAssumption
  <1>4. /\ c \in Call /\ c.d = call[p].d /\ c.op = call[p].op /\ c.np = call[p].np
        /\ c.a = call[p].a + PGSIZE /\ c.newsz = call[p].newsz /\ c.mem = 0
    BY <1>1, <1>2, <1>3, Zenon DEF Call
  <1>5. PICK c2 : c2 = [c EXCEPT !.d = e]
    BY Zenon
  <1>6. /\ c2 \in Call /\ c2.d = e /\ c2.op = call[p].op /\ c2.np = call[p].np
        /\ c2.a = call[p].a + PGSIZE /\ c2.newsz = call[p].newsz /\ c2.mem = 0
    BY <1>4, <1>5, Zenon DEF Call
  <1>7. IF call[p].op = "sbrk"
        THEN pgdir' = [pgdir EXCEPT ![p] = e] /\ call' = [call EXCEPT ![p] = c]
        ELSE call' = [call EXCEPT ![p] = c2] /\ pgdir' = pgdir
    BY <1>2, <1>5, Zenon DEF mapped, With
  <1>8. CASE call[p].op = "sbrk"
    <2>1. /\ pgdir'[p] = e /\ pgdir' \in [Slot -> Dir] /\ \A q \in Slot \ {p} : pgdir'[q] = pgdir[q]
      BY <1>1, <1>7, <1>8, Zenon
    <2>2. /\ call'[p] = c /\ call' \in [Slot -> Call] /\ \A q \in Slot \ {p} : call'[q] = call[q]
      BY <1>1, <1>4, <1>7, <1>8, Zenon
    <2> QED
      BY <1>4, <1>8, <2>1, <2>2, Zenon
  <1>9. CASE call[p].op # "sbrk"
    <2>1. /\ call'[p] = c2 /\ call' \in [Slot -> Call] /\ \A q \in Slot \ {p} : call'[q] = call[q]
          /\ pgdir' = pgdir
      BY <1>1, <1>6, <1>7, <1>9, Zenon
    <2> QED
      BY <1>1, <1>6, <1>9, <2>1, Zenon
  <1> QED
    BY <1>8, <1>9, Zenon

\* mappages() maps the page of the call, maybe with a new page table m: e is
\* the address space then.
Maps(p, m, e) ==
    /\ UNCHANGED kstack
    /\ \A q \in Slot \ {p} : call'[q] = call[q] /\ pgdir'[q] = pgdir[q]
    /\ call[p].mem # 0 /\ call'[p].mem = 0
    /\ IF call[p].op = "sbrk" THEN pgdir'[p] = e /\ call'[p].d = call[p].d
       ELSE call'[p].d = e /\ pgdir'[p] = pgdir[p]
    /\ NoDup(e) /\ Pages(e) = Pages(Target(p)) \cup {call[p].mem, m}
    /\ \/ m \in Pages(Target(p)) /\ freelist' = freelist
       \/ m \in freelist /\ freelist' = freelist \ {m}

\* Then every page still has one owner.
LEMMA MapsMemory ==
    ASSUME Memory, NEW p \in Slot, NEW m, NEW e, Maps(p, m, e)
    PROVE  Memory'
  <1>1. \A q \in Slot \ {p} : Keeps(q)
    BY Zenon DEF Keeps, Maps
  <1>2. /\ Pools[<<p, "kstack">>] = {kstack[p]} \ {0} /\ Pools[<<p, "pgdir">>] = Pages(pgdir[p])
        /\ Pools[<<p, "d">>] = Pages(call[p].d) /\ Pools[<<p, "mem">>] = {call[p].mem} \ {0}
    BY PoolsAre, Zenon
  <1>3. /\ Pools'[<<p, "kstack">>] = {kstack'[p]} \ {0} /\ Pools'[<<p, "pgdir">>] = Pages(pgdir'[p])
        /\ Pools'[<<p, "d">>] = Pages(call'[p].d) /\ Pools'[<<p, "mem">>] = {call'[p].mem} \ {0}
    BY PoolsWillBe, Zenon
  <1>4. Pools[<<p, "mem">>] = {call[p].mem} /\ Pools'[<<p, "mem">>] = {}
    <2>1. call[p].mem # 0 /\ call'[p].mem = 0
      BY Zenon DEF Maps
    <2> QED
      BY <1>2, <1>3, <2>1, Zenon
  <1>5. Pools'[<<p, "kstack">>] = Pools[<<p, "kstack">>]
    BY <1>2, <1>3, Zenon DEF Maps
  <1>6. PICK r \in {<<p, "pgdir">>, <<p, "d">>} :
            /\ Pools[r] = Pages(Target(p)) /\ Pools'[r] = Pages(e)
            /\ \A l \in {"pgdir", "d"} : <<p, l>> # r => Pools'[<<p, l>>] = Pools[<<p, l>>]
    <2>1. CASE call[p].op = "sbrk"
      <3>1. Pools[<<p, "pgdir">>] = Pages(Target(p)) /\ Pools'[<<p, "pgdir">>] = Pages(e)
        BY <1>2, <1>3, <2>1, Zenon DEF Target, Maps
      <3>2. Pools'[<<p, "d">>] = Pools[<<p, "d">>]
        BY <1>2, <1>3, <2>1, Zenon DEF Maps
      <3> QED
        BY <3>1, <3>2, Zenon
    <2>2. CASE call[p].op # "sbrk"
      <3>1. Pools[<<p, "d">>] = Pages(Target(p)) /\ Pools'[<<p, "d">>] = Pages(e)
        BY <1>2, <1>3, <2>2, Zenon DEF Target, Maps
      <3>2. Pools'[<<p, "pgdir">>] = Pools[<<p, "pgdir">>]
        BY <1>2, <1>3, <2>2, Zenon DEF Maps
      <3> QED
        BY <3>1, <3>2, Zenon
    <2> QED
      BY <2>1, <2>2, Zenon
  <1>7. ASSUME NEW x \in Owner \ {<<p, "mem">>, r} PROVE Pools'[x] = Pools[x]
    <2>1. \A l \in {"kstack", "pgdir", "d", "mem"} : x = <<p, l>> => Pools'[<<p, l>>] = Pools[<<p, l>>]
      BY <1>5, <1>6, Zenon
    <2> QED
      BY <1>1, <2>1, OnlyOwners, Zenon
  <1>8. Partition(Pools', freelist')
    <2>1. Partition(Pools, freelist)
      BY Zenon DEF Memory
    <2>2. Pools'[r] = Pools[r] \cup Pools[<<p, "mem">>] \cup {m}
      <3>1. Pages(e) = Pages(Target(p)) \cup {call[p].mem, m}
        BY Zenon DEF Maps
      <3> QED
        BY <1>4, <1>6, <3>1, Zenon
    <2>3. \/ m \in Pools[r] /\ freelist' = freelist
          \/ m \in freelist /\ freelist' = freelist \ {m}
      BY <1>6, Zenon DEF Maps
    <2>4. Pools'[<<p, "mem">>] = {}
      BY <1>4, Zenon
    <2> QED
      BY <2>4, <1>7, <2>1, <2>2, <2>3, GivesPage, Zenon
  <1>9. ASSUME NEW q \in Slot PROVE NoDup(pgdir'[q]) /\ NoDup(call'[q].d)
    <2>1. CASE q # p
      BY <2>1, Zenon DEF Memory, Maps
    <2>2. CASE q = p
      BY <2>2, Zenon DEF Memory, Maps
    <2> QED
      BY <2>1, <2>2, Zenon
  <1> QED
    BY <1>8, <1>9, NewMemory, Zenon

\* The loop maps a page and goes on.
LEMMA MapsInv ==
    ASSUME VmInv, NEW p \in Slot, at(p, "mappages"), Target(p).pte[call[p].a \div PGSIZE] = 0,
           NEW m \in Page, mapped(p, m), goto(p, "kalloc"), UNCHANGED <<state, kstack, sz, panicked>>,
           \/ pgtab(p) = m /\ UNCHANGED freelist
           \/ pgtab(p) = 0 /\ m \in freelist /\ freelist' = freelist \ {m}
    PROVE  VmInv'
  <1>1. /\ pc[p] = "mappages" /\ state[p] = "RUNNING" /\ pc' = [pc EXCEPT ![p] = "kalloc"]
        /\ TypeOK /\ CallOK(p) /\ LoopOK(p) /\ Calls /\ Memory
    BY Zenon DEF at, goto, VmInv, Calls
  <1>2. /\ call[p].op # "none" /\ call[p].mem # 0 /\ More(p)
        /\ call[p].op = "sbrk" => call[p].d = NoDir
        /\ call[p].op \in {"sbrk", "stack"} => call[p].newsz < KERNBASE
        /\ call[p].op = "fork" => state[call[p].np] = "EMBRYO" /\ kstack[call[p].np] # 0
    BY <1>1, Zenon DEF CallOK
  <1>3. PICK k \in VPage : /\ call[p].a = k * PGSIZE /\ call[p].a \div PGSIZE = k
                           /\ call[p].a + PGSIZE = (k + 1) * PGSIZE
                           /\ call[p].a + PGSIZE \in 0..UINT
                           /\ call[p].a + PGSIZE < call[p].newsz + PGSIZE
    BY <1>1, <1>2, LoopPage, Zenon
  <1>4. Target(p) \in Dir /\ NoDup(Target(p))
    <2>1. pgdir[p] \in Dir /\ call[p].d \in Dir
      BY <1>1, Zenon DEF TypeOK, Call
    <2>2. NoDup(pgdir[p]) /\ NoDup(call[p].d)
      BY <1>1, Zenon DEF Memory
    <2> QED
      BY <2>1, <2>2, Zenon DEF Target
  <1>5. /\ call[p].mem \in Page /\ call[p].mem \notin Pages(Target(p))
        /\ m \in freelist => m \notin Pages(Target(p)) /\ m # call[p].mem
    BY <1>1, <1>2, MemIsNew, FreeIsFree, Zenon DEF Target
  <1>6. PICK e : e = With(Target(p), k, call[p].mem, m)
    BY Zenon
  <1>7. /\ e \in Dir /\ NoDup(e) /\ Pages(e) = Pages(Target(p)) \cup {call[p].mem, m}
        /\ \/ m \in Pages(Target(p)) /\ freelist' = freelist
           \/ m \in freelist /\ freelist' = freelist \ {m}
    <2>1. Target(p).pte[k] = 0 /\ Target(p).pt[PDX(k)] = pgtab(p)
      BY <1>3, Zenon DEF pgtab
    <2>2. \/ Target(p).pt[PDX(k)] = m
          \/ Target(p).pt[PDX(k)] = 0 /\ m \notin Pages(Target(p)) /\ m # call[p].mem
      BY <1>5, <2>1, Zenon
    <2>3. e \in Dir /\ NoDup(e) /\ Pages(e) = Pages(Target(p)) \cup {call[p].mem, m}
      <3>1. PICK d, n : d = Target(p) /\ n = call[p].mem
        BY Zenon
      <3>2. /\ d \in Dir /\ NoDup(d) /\ d.pte[k] = 0 /\ n \in Page /\ n \notin Pages(d)
            /\ e = With(d, k, n, m)
        BY <1>4, <1>5, <1>6, <2>1, <3>1, Zenon
      <3>3. d.pt[PDX(k)] = m \/ (d.pt[PDX(k)] = 0 /\ m \notin Pages(d) /\ m # n)
        BY <2>2, <3>1, Zenon
      <3>4. e \in Dir /\ NoDup(e) /\ Pages(e) = Pages(d) \cup {n, m}
        BY <3>2, <3>3, MapOne
      <3> QED
        BY <3>1, <3>4, Zenon
    <2>4. pgtab(p) = m => m \in Pages(Target(p))
      <3>1. m # 0 /\ PDX(k) \in Table
        BY VmAssumption, Indices DEF Page
      <3> QED
        BY <2>1, <3>1, Zenon DEF Pages
    <2> QED
      BY <2>3, <2>4, Zenon
  <1>8. /\ call' \in [Slot -> Call] /\ \A q \in Slot \ {p} : call'[q] = call[q]
        /\ call'[p].op = call[p].op /\ call'[p].np = call[p].np
        /\ call'[p].newsz = call[p].newsz
        /\ call'[p].a = call[p].a + PGSIZE /\ call'[p].mem = 0
        /\ pgdir' \in [Slot -> Dir] /\ \A q \in Slot \ {p} : pgdir'[q] = pgdir[q]
        /\ IF call[p].op = "sbrk" THEN pgdir'[p] = e /\ call'[p].d = call[p].d
           ELSE call'[p].d = e /\ pgdir'[p] = pgdir[p]
    <2>1. e = With(Target(p), call[p].a \div PGSIZE, call[p].mem, m)
      BY <1>3, <1>6, Zenon
    <2>2. TypeOK /\ call[p].a + PGSIZE \in 0..UINT /\ e \in Dir
      BY <1>1, <1>3, <1>7, Zenon
    <2> QED
      BY <2>1, <2>2, MappedDoes, ZenonT(30)
  <1>9. pc'[p] = "kalloc" /\ \A q \in Slot \ {p} : pc'[q] = pc[q]
    BY <1>1, Zenon DEF TypeOK
  <1>10. CallOK(p)'
    <2>1. state' = state /\ kstack' = kstack
      BY Zenon
    <2>2. /\ call'[p].op # "none" /\ call'[p].mem = 0
          /\ call'[p].op = "sbrk" => call'[p].d = NoDir
          /\ call'[p].op \in {"sbrk", "stack"} => call'[p].newsz < KERNBASE
      BY <1>2, <1>8, Zenon
    <2>3. call'[p].op = "fork" => state'[call'[p].np] = "EMBRYO" /\ kstack'[call'[p].np] # 0
      BY <1>2, <1>8, <2>1, Zenon
    <2>4. pc'[p] = "kalloc" /\ state'[p] = "RUNNING"
      BY <1>1, <1>9, <2>1, Zenon
    <2> QED
      BY <2>2, <2>3, <2>4, Zenon DEF CallOK
  <1>11. LoopOK(p)'
    <2>1. k + 1 \in Nat
      BY DEF VPage
    <2>2. call'[p].a = (k + 1) * PGSIZE /\ call'[p].a < call'[p].newsz + PGSIZE
      BY <1>3, <1>8, Zenon
    <2> QED
      BY <2>1, <2>2, Zenon DEF LoopOK
  <1>12. Local(p)
    <2>1. freelist' \subseteq Page
      BY <1>1, Zenon DEF TypeOK
    <2>2. pc' \in [Slot -> {"out", "kstack", "setupkvm", "kmap", "kalloc", "mappages"}]
      BY <1>1, Zenon DEF TypeOK
    <2> QED
      BY <1>1, <1>8, <1>9, <2>1, <2>2, Zenon DEF Local, TypeOK
  <1>13. Memory'
    <2>1. Maps(p, m, e)
      BY <1>2, <1>7, <1>8, Zenon DEF Maps
    <2> QED
      BY <1>1, <2>1, MapsMemory, Zenon
  <1> QED
    BY <1>1, <1>10, <1>11, <1>12, <1>13, LocalStep, Zenon DEF VmInv

\* mappages() as a whole.
LEMMA MappagesInv ==
    ASSUME VmInv, NEW p \in Slot, mappages(p)
    PROVE  VmInv'
  <1>1. CASE Target(p).pte[call[p].a \div PGSIZE] # 0
    <2>1. UNCHANGED <<freelist, state, kstack, pgdir, sz, pc, call>> /\ panicked' \in BOOLEAN
      BY <1>1, Zenon DEF mappages
    <2> QED
      BY <2>1, PanicInv, Zenon
  <1>2. CASE Target(p).pte[call[p].a \div PGSIZE] = 0
    <2>1. /\ at(p, "mappages") /\ goto(p, "kalloc") /\ UNCHANGED <<state, kstack, sz, panicked>>
      BY <1>2, Zenon DEF mappages
    <2>2. CASE pgtab(p) # 0
      <3>1. mapped(p, pgtab(p)) /\ UNCHANGED freelist
        BY <1>2, <2>2, Zenon DEF mappages
      <3>2. pgtab(p) \in Page
        <4>1. TypeOK /\ pgdir[p] \in Dir /\ call[p] \in Call
          BY Zenon DEF VmInv, Calls, TypeOK
        <4>2. Target(p) \in Dir
          BY <4>1, Zenon DEF Target, Call
        <4>3. PICK k \in VPage : call[p].a \div PGSIZE = k
          <5>1. Calls /\ More(p)
            BY <2>1, Zenon DEF VmInv, Calls, CallOK, at
          <5> QED
            BY <5>1, LoopPage, Zenon
        <4>4. pgtab(p) \in 0..NPAGE
          BY <4>2, <4>3, Indices, Zenon DEF pgtab, Dir
        <4> QED
          BY <2>2, <4>4, VmAssumption DEF Page
      <3> QED
        BY <1>2, <2>1, <3>1, <3>2, MapsInv, Zenon
    <2>3. CASE pgtab(p) = 0
      <3>1. PICK m \in Page : kalloc(m) /\ mapped(p, m)
        BY <1>2, <2>3, Zenon DEF mappages
      <3>2. m \in freelist /\ freelist' = freelist \ {m}
        BY <3>1, Zenon DEF kalloc
      <3> QED
        BY <1>2, <2>1, <2>3, <3>1, <3>2, MapsInv, Zenon
    <2> QED
      BY <2>2, <2>3, Zenon
  <1> QED
    BY <1>1, <1>2, Zenon
-----------------------------------------------------------------------------
(* A call begins or returns *)

\* The locals of a call that returned.
LEMMA NoCallIs ==
    /\ NoCall \in Call /\ NoCall.op = "none" /\ NoCall.d = NoDir /\ NoCall.mem = 0
    /\ NoCall.a = 0 /\ NoCall.newsz = 0 /\ NoCall.np = First
  <1>1. NoDir \in Dir /\ 0 \in 0..NPAGE /\ 0 \in 0..UINT /\ First \in Slot
    BY Indices, VmAssumption DEF UINT
  <1> QED
    BY <1>1, Zenon DEF NoCall, Call

\* A process outside of its calls satisfies what is said of them.
LEMMA OutOK ==
    ASSUME NEW p \in Slot, pc'[p] = "out", call'[p] = NoCall
    PROVE  CallOK(p)' /\ LoopOK(p)'
  <1>1. /\ call'[p].op = "none" /\ call'[p].mem = 0 /\ call'[p].a = 0 /\ call'[p].newsz = 0
    BY NoCallIs, Zenon
  <1>2. CallOK(p)'
    BY <1>1, Zenon DEF CallOK
  <1>3. PGSIZE \in Nat \ {0}
    BY VmAssumption, Zenon
  <1>4. 0 = 0 * PGSIZE /\ 0 < 0 + PGSIZE
    BY <1>3
  <1>5. LoopOK(p)'
    BY <1>1, <1>4, Zenon DEF LoopOK
  <1> QED
    BY <1>2, <1>5, Zenon

\* return(p) leaves p outside of its calls.
LEMMA Returns ==
    ASSUME TypeOK, NEW p \in Slot, return(p)
    PROVE  /\ call' \in [Slot -> Call] /\ call'[p] = NoCall
           /\ \A q \in Slot \ {p} : call'[q] = call[q] /\ pc'[q] = pc[q]
           /\ pc' \in [Slot -> {"out", "kstack", "setupkvm", "kmap", "kalloc", "mappages"}]
           /\ pc'[p] = "out" /\ CallOK(p)' /\ LoopOK(p)'
  <1>1. /\ call \in [Slot -> Call] /\ call' = [call EXCEPT ![p] = NoCall]
        /\ pc \in [Slot -> {"out", "kstack", "setupkvm", "kmap", "kalloc", "mappages"}]
        /\ pc' = [pc EXCEPT ![p] = "out"]
    BY Zenon DEF TypeOK, return, goto
  <1>2. NoCall \in Call
    BY NoCallIs, Zenon
  <1>3. /\ call' \in [Slot -> Call] /\ call'[p] = NoCall
        /\ \A q \in Slot \ {p} : call'[q] = call[q]
    BY <1>1, <1>2, Zenon
  <1>4. /\ pc' \in [Slot -> {"out", "kstack", "setupkvm", "kmap", "kalloc", "mappages"}]
        /\ pc'[p] = "out" /\ \A q \in Slot \ {p} : pc'[q] = pc[q]
    BY <1>1, Zenon
  <1> QED
    BY <1>3, <1>4, OutOK, Zenon
-----------------------------------------------------------------------------
(* Memory that stays, and memory that is freed *)

\* No page changes hands.
LEMMA SameMemory ==
    ASSUME Memory, UNCHANGED freelist, \A q \in Slot : Keeps(q)
    PROVE  Memory'
  <1>1. ASSUME NEW x \in Owner PROVE Pools'[x] = Pools[x]
    BY Others, Zenon
  <1>2. Partition(Pools, freelist)
    BY Zenon DEF Memory
  <1>3. Partition(Pools', freelist')
    BY <1>1, <1>2, Zenon DEF Partition
  <1>4. \A q \in Slot : NoDup(pgdir'[q]) /\ NoDup(call'[q].d)
    BY Zenon DEF Memory, Keeps
  <1> QED
    BY <1>3, <1>4, NewMemory, Zenon

\* Slots give pages away and get none.
Shrinks(q) ==
    /\ kstack'[q] \in {0, kstack[q]} /\ Pages(pgdir'[q]) \subseteq Pages(pgdir[q])
    /\ call'[q].mem \in {0, call[q].mem} /\ Pages(call'[q].d) \subseteq Pages(call[q].d)

\* Page n was of slot q and is no longer.
Lost(q, n) ==
    \/ n # 0 /\ n = kstack[q] /\ kstack'[q] = 0
    \/ n \in Pages(pgdir[q]) \ Pages(pgdir'[q])
    \/ n # 0 /\ n = call[q].mem /\ call'[q].mem = 0
    \/ n \in Pages(call[q].d) \ Pages(call'[q].d)

\* kfree() of all the pages that slots give away.
LEMMA Releases ==
    ASSUME Memory, NEW S, freelist' = freelist \cup S, \A q \in Slot : Shrinks(q),
           \A n : n \in S <=> \E q \in Slot : Lost(q, n)
    PROVE  Partition(Pools', freelist')
  <1>1. ASSUME NEW q \in Slot
        PROVE  /\ Pools'[<<q, "kstack">>] \subseteq Pools[<<q, "kstack">>]
               /\ Pools'[<<q, "pgdir">>] \subseteq Pools[<<q, "pgdir">>]
               /\ Pools'[<<q, "d">>] \subseteq Pools[<<q, "d">>]
               /\ Pools'[<<q, "mem">>] \subseteq Pools[<<q, "mem">>]
               /\ \A n : Lost(q, n) <=> \/ n \in Pools[<<q, "kstack">>] \ Pools'[<<q, "kstack">>]
                                        \/ n \in Pools[<<q, "pgdir">>] \ Pools'[<<q, "pgdir">>]
                                        \/ n \in Pools[<<q, "d">>] \ Pools'[<<q, "d">>]
                                        \/ n \in Pools[<<q, "mem">>] \ Pools'[<<q, "mem">>]
    <2>1. /\ Pools[<<q, "kstack">>] = {kstack[q]} \ {0} /\ Pools[<<q, "pgdir">>] = Pages(pgdir[q])
          /\ Pools[<<q, "d">>] = Pages(call[q].d) /\ Pools[<<q, "mem">>] = {call[q].mem} \ {0}
      BY PoolsAre, Zenon
    <2>2. /\ Pools'[<<q, "kstack">>] = {kstack'[q]} \ {0} /\ Pools'[<<q, "pgdir">>] = Pages(pgdir'[q])
          /\ Pools'[<<q, "d">>] = Pages(call'[q].d) /\ Pools'[<<q, "mem">>] = {call'[q].mem} \ {0}
      BY PoolsWillBe, Zenon
    <2>3. /\ {kstack'[q]} \ {0} \subseteq {kstack[q]} \ {0}
          /\ Pages(pgdir'[q]) \subseteq Pages(pgdir[q])
          /\ {call'[q].mem} \ {0} \subseteq {call[q].mem} \ {0}
          /\ Pages(call'[q].d) \subseteq Pages(call[q].d)
      BY Zenon DEF Shrinks
    <2>4. ASSUME NEW n
          PROVE  Lost(q, n) <=> \/ n \in ({kstack[q]} \ {0}) \ ({kstack'[q]} \ {0})
                                \/ n \in Pages(pgdir[q]) \ Pages(pgdir'[q])
                                \/ n \in Pages(call[q].d) \ Pages(call'[q].d)
                                \/ n \in ({call[q].mem} \ {0}) \ ({call'[q].mem} \ {0})
      <3>1. n # 0 /\ n = kstack[q] /\ kstack'[q] = 0 <=> n \in ({kstack[q]} \ {0}) \ ({kstack'[q]} \ {0})
        BY Zenon DEF Shrinks
      <3>2. n # 0 /\ n = call[q].mem /\ call'[q].mem = 0
                <=> n \in ({call[q].mem} \ {0}) \ ({call'[q].mem} \ {0})
        BY Zenon DEF Shrinks
      <3> QED
        BY <3>1, <3>2, Zenon DEF Lost
    <2> QED
      BY <2>1, <2>2, <2>3, <2>4
  <1>2. ASSUME NEW x \in Owner PROVE Pools'[x] \subseteq Pools[x]
    <2>1. PICK q \in Slot : x \in {<<q, "kstack">>, <<q, "pgdir">>, <<q, "d">>, <<q, "mem">>}
      BY OwnersAre, Zenon
    <2> QED
      BY <1>1, <2>1, Zenon
  <1>3. ASSUME NEW n PROVE n \in S <=> \E x \in Owner : n \in Pools[x] \ Pools'[x]
    <2>1. ASSUME NEW q \in Slot, Lost(q, n) PROVE \E x \in Owner : n \in Pools[x] \ Pools'[x]
      BY <1>1, <2>1, OwnersAre, Zenon
    <2>2. ASSUME NEW x \in Owner, n \in Pools[x] \ Pools'[x] PROVE \E q \in Slot : Lost(q, n)
      <3>1. PICK q \in Slot : x \in {<<q, "kstack">>, <<q, "pgdir">>, <<q, "d">>, <<q, "mem">>}
        BY OwnersAre, Zenon
      <3> QED
        BY <1>1, <2>2, <3>1, Zenon
    <2> QED
      BY <2>1, <2>2, Zenon
  <1>4. Partition(Pools', freelist \cup S)
    <2>1. Partition(Pools, freelist)
      BY Zenon DEF Memory
    <2> QED
      BY <1>2, <1>3, <2>1, Frees, Zenon
  <1> QED
    BY <1>4, Zenon
-----------------------------------------------------------------------------
(* sbrk() *)

\* growproc() begins to grow.
LEMMA SbrkGrowInv ==
    ASSUME VmInv, NEW p \in Slot, NEW n \in Deltas, sbrk_grow(p, n)
    PROVE  VmInv'
  <1>1. /\ pc[p] = "out" /\ state[p] = "RUNNING" /\ pc' = [pc EXCEPT ![p] = "kalloc"]
        /\ TypeOK /\ CallOK(p) /\ Calls /\ Memory /\ call[p] = NoCall
        /\ n > 0 /\ sz[p] + n < KERNBASE
        /\ UNCHANGED <<freelist, state, kstack, pgdir, sz, panicked>>
    <2>1. /\ pc[p] = "out" /\ state[p] = "RUNNING" /\ pc' = [pc EXCEPT ![p] = "kalloc"]
          /\ TypeOK /\ CallOK(p) /\ Calls /\ Memory
      BY Zenon DEF sbrk_grow, at, goto, VmInv, Calls
    <2>2. call[p] = NoCall
      BY <2>1, Zenon DEF CallOK
    <2> QED
      BY <2>1, <2>2, Zenon DEF sbrk_grow
  <1>2. PICK a, m : a = PGROUNDUP(sz[p]) /\ m = sz[p] + n
    BY Zenon
  <1>3. sz[p] \in Nat /\ sz[p] < KERNBASE /\ n \in Int /\ KERNBASE \in Nat /\ PGSIZE \in Nat
        /\ PGSIZE < KERNBASE
    BY <1>1, VmAssumption DEF TypeOK
  <1>4. (\E k \in Nat : a = k * PGSIZE) /\ a < sz[p] + PGSIZE
    BY <1>2, <1>3, RoundUp, Zenon
  <1>5. a \in Nat
    BY <1>3, <1>4
  <1>6. a \in 0..UINT /\ m \in 0..UINT /\ m < KERNBASE /\ a < m + PGSIZE
    BY <1>1, <1>2, <1>3, <1>4, <1>5 DEF UINT
  <1>7. PICK c : c = [call[p] EXCEPT !.op = "sbrk", !.a = a, !.newsz = m]
    BY Zenon
  <1>8. c \in Call /\ c.op = "sbrk" /\ c.a = a /\ c.newsz = m /\ c.d = NoDir /\ c.mem = 0
    <2>1. call[p] \in Call /\ call[p].d = NoDir /\ call[p].mem = 0
      BY <1>1, NoCallIs, Zenon
    <2> QED
      BY <1>6, <1>7, <2>1, Zenon DEF Call
  <1>9. /\ call' \in [Slot -> Call] /\ \A r \in Slot \ {p} : call'[r] = call[r]
        /\ call'[p].op = "sbrk" /\ call'[p].a = a /\ call'[p].newsz = m
        /\ call'[p].d = NoDir /\ call'[p].mem = 0
    <2>1. call' = [call EXCEPT ![p].op = "sbrk", ![p].a = a, ![p].newsz = m]
      BY <1>2, Zenon DEF sbrk_grow
    <2>2. call' = [call EXCEPT ![p] = c]
      BY <1>7, <2>1, Zenon
    <2>3. call \in [Slot -> Call]
      BY <1>1, Zenon DEF TypeOK
    <2>4. call'[p] = c /\ call' \in [Slot -> Call] /\ \A r \in Slot \ {p} : call'[r] = call[r]
      BY <1>8, <2>2, <2>3, Zenon
    <2> QED
      BY <1>8, <2>4, Zenon
  <1>10. pc'[p] = "kalloc" /\ \A q \in Slot \ {p} : pc'[q] = pc[q]
    BY <1>1, Zenon DEF TypeOK
  <1>11. CallOK(p)'
    <2>1. pc'[p] = "kalloc" /\ state'[p] = "RUNNING" /\ call'[p].newsz < KERNBASE
      BY <1>1, <1>6, <1>9, <1>10, Zenon
    <2> QED
      BY <1>9, <2>1, Zenon DEF CallOK
  <1>12. LoopOK(p)'
    BY <1>4, <1>6, <1>9, Zenon DEF LoopOK
  <1>13. Local(p)
    <2>1. pc' \in [Slot -> {"out", "kstack", "setupkvm", "kmap", "kalloc", "mappages"}]
      BY <1>1, Zenon DEF TypeOK
    <2>2. call'[p].op # "fork"
      BY <1>9, Zenon
    <2> QED
      BY <1>1, <1>9, <1>10, <2>1, <2>2, Zenon DEF Local, TypeOK
  <1>14. Memory'
    <2>1. call[p].d = NoDir /\ call[p].mem = 0
      BY <1>1, NoCallIs, Zenon
    <2>2. \A q \in Slot : Keeps(q)
      BY <1>1, <1>9, <2>1, Zenon DEF Keeps
    <2> QED
      BY <1>1, <2>2, SameMemory, Zenon
  <1> QED
    BY <1>1, <1>11, <1>12, <1>13, <1>14, LocalStep, Zenon DEF VmInv

\* A call that returns, and gives up its own memory, is a step of p alone.
LEMMA LocalReturn ==
    ASSUME Calls, NEW p \in Slot, state[p] = "RUNNING", return(p), UNCHANGED <<state, kstack, panicked>>,
           freelist' \subseteq Page, sz' \in [Slot -> 0..KERNBASE-1], pgdir' \in [Slot -> Dir],
           \A q \in Slot \ {p} : pgdir'[q] = pgdir[q]
    PROVE  Calls'
  <1>1. TypeOK
    BY Zenon DEF Calls
  <1>2. /\ call' \in [Slot -> Call] /\ call'[p] = NoCall
        /\ \A q \in Slot \ {p} : call'[q] = call[q] /\ pc'[q] = pc[q]
        /\ pc' \in [Slot -> {"out", "kstack", "setupkvm", "kmap", "kalloc", "mappages"}]
        /\ CallOK(p)' /\ LoopOK(p)'
    BY <1>1, Returns, Zenon
  <1>3. call'[p].op # "fork"
    BY <1>2, NoCallIs, Zenon
  <1>4. Local(p)
    BY <1>1, <1>2, <1>3, Zenon DEF Local, TypeOK
  <1> QED
    BY <1>2, <1>4, LocalStep, Zenon

\* growproc() has grown.
LEMMA SbrkDoneInv ==
    ASSUME VmInv, NEW p \in Slot, sbrk_done(p)
    PROVE  VmInv'
  <1>1. /\ pc[p] = "kalloc" /\ state[p] = "RUNNING" /\ return(p) /\ call[p].op = "sbrk"
        /\ TypeOK /\ CallOK(p) /\ Calls /\ Memory
        /\ UNCHANGED <<freelist, state, kstack, pgdir, panicked>>
        /\ sz' = [sz EXCEPT ![p] = call[p].newsz]
    BY Zenon DEF sbrk_done, at, VmInv, Calls
  <1>2. call[p].d = NoDir /\ call[p].mem = 0 /\ call[p].newsz < KERNBASE
    BY <1>1, Zenon DEF CallOK
  <1>3. call'[p] = NoCall /\ \A q \in Slot \ {p} : call'[q] = call[q]
    BY <1>1, Returns, Zenon
  <1>4. sz' \in [Slot -> 0..KERNBASE-1]
    <2>1. call[p].newsz \in 0..UINT /\ sz \in [Slot -> 0..KERNBASE-1]
      BY <1>1, Zenon DEF TypeOK, Call
    <2>2. call[p].newsz \in 0..KERNBASE-1
      BY <1>2, <2>1, VmAssumption DEF UINT
    <2> QED
      BY <1>1, <2>1, <2>2, Zenon
  <1>5. Calls'
    BY <1>1, <1>4, LocalReturn, Zenon DEF TypeOK
  <1>6. Memory'
    <2>1. call'[p].d = NoDir /\ call'[p].mem = 0
      BY <1>3, NoCallIs, Zenon
    <2>2. \A q \in Slot : Keeps(q)
      BY <1>1, <1>2, <1>3, <2>1, Zenon DEF Keeps
    <2> QED
      BY <1>1, <2>2, SameMemory, Zenon
  <1> QED
    BY <1>5, <1>6, Zenon DEF VmInv

\* allocuvm() fails and undoes what it did.
LEMMA SbrkFailsInv ==
    ASSUME VmInv, NEW p \in Slot, sbrk_fails(p)
    PROVE  VmInv'
  <1>1. PICK d : d = deallocuvm(pgdir[p], call[p].newsz, sz[p])
    BY Zenon
  <1>2. /\ call[p].op = "sbrk" /\ OutOfMemory(p) /\ return(p)
        /\ pgdir' = [pgdir EXCEPT ![p] = d]
        /\ freelist' = freelist \cup ((Pages(pgdir[p]) \ Pages(d)) \cup ({call[p].mem} \ {0}))
        /\ UNCHANGED <<state, kstack, sz, panicked>>
        /\ TypeOK /\ CallOK(p) /\ Calls /\ Memory
    BY <1>1, Zenon DEF sbrk_fails, kfree, VmInv, Calls
  <1>3. state[p] = "RUNNING" /\ call[p].d = NoDir
    BY <1>2, Zenon DEF OutOfMemory, at, CallOK
  <1>4. call'[p] = NoCall /\ \A q \in Slot \ {p} : call'[q] = call[q]
    BY <1>2, Returns, Zenon
  <1>5. d \in Dir /\ Pages(d) \subseteq Pages(pgdir[p]) /\ NoDup(d)
    <2>1. pgdir[p] \in Dir /\ NoDup(pgdir[p])
      BY <1>2, Zenon DEF TypeOK, Memory
    <2> QED
      BY <1>1, <2>1, Unmaps
  <1>6. pgdir' \in [Slot -> Dir] /\ pgdir'[p] = d /\ \A q \in Slot \ {p} : pgdir'[q] = pgdir[q]
    <2>1. pgdir \in [Slot -> Dir]
      BY <1>2, Zenon DEF TypeOK
    <2> QED
      BY <1>2, <1>5, <2>1, Zenon
  <1>7. /\ call'[p].d = NoDir /\ call'[p].mem = 0 /\ Pages(NoDir) = {} /\ NoDup(NoDir)
    BY <1>4, NoCallIs, Indices, Zenon
  <1>8. Partition(Pools', freelist')
    <2>1. PICK S : S = (Pages(pgdir[p]) \ Pages(d)) \cup ({call[p].mem} \ {0})
      BY Zenon
    <2>2. Shrinks(p)
      BY <1>2, <1>3, <1>5, <1>6, <1>7, Zenon DEF Shrinks
    <2>3. \A q \in Slot \ {p} : Shrinks(q)
      BY <1>2, <1>4, <1>6, Zenon DEF Shrinks
    <2>4. ASSUME NEW n, NEW q \in Slot, Lost(q, n) PROVE n \in S
      <3>1. CASE q = p
        <4>1. n # 0 /\ n = kstack[p] /\ kstack'[p] = 0 => FALSE
          BY <1>2, Zenon
        <4>2. n \notin Pages(call[p].d)
          BY <1>3, <1>7, Zenon
        <4> QED
          BY <1>6, <2>1, <2>4, <3>1, <4>1, <4>2, Zenon DEF Lost
      <3>2. CASE q # p
        BY <1>2, <1>4, <1>6, <2>4, <3>2, Zenon DEF Lost
      <3> QED
        BY <3>1, <3>2, Zenon
    <2>5. ASSUME NEW n \in S PROVE Lost(p, n)
      BY <1>6, <1>7, <2>1, Zenon DEF Lost
    <2>6. freelist' = freelist \cup S
      BY <1>2, <2>1, Zenon
    <2> QED
      BY <1>2, <2>2, <2>3, <2>4, <2>5, <2>6, Releases, Zenon
  <1>9. Memory'
    <2>1. \A q \in Slot : NoDup(pgdir'[q]) /\ NoDup(call'[q].d)
      BY <1>2, <1>4, <1>5, <1>6, <1>7, Zenon DEF Memory
    <2> QED
      BY <1>8, <2>1, NewMemory, Zenon
  <1>10. Calls'
    <2>1. freelist' \subseteq Page /\ sz' \in [Slot -> 0..KERNBASE-1]
      BY <1>2, <1>8, Zenon DEF Partition, TypeOK
    <2> QED
      BY <1>2, <1>3, <1>6, <2>1, LocalReturn, Zenon
  <1> QED
    BY <1>9, <1>10, Zenon DEF VmInv

\* growproc() shrinks.
LEMMA SbrkShrinkInv ==
    ASSUME VmInv, NEW p \in Slot, NEW n \in Deltas, sbrk_shrink(p, n)
    PROVE  VmInv'
  <1>1. PICK m : m = (sz[p] + n) % UINT
    BY Zenon
  <1>2. PICK d : d = deallocuvm(pgdir[p], sz[p], m)
    BY Zenon
  <1>3. /\ at(p, "out") /\ m < sz[p]
        /\ pgdir' = [pgdir EXCEPT ![p] = d]
        /\ freelist' = freelist \cup (Pages(pgdir[p]) \ Pages(d))
        /\ sz' = [sz EXCEPT ![p] = IF m = 0 THEN @ ELSE m]
        /\ UNCHANGED <<state, kstack, pc, call, panicked>>
        /\ TypeOK /\ CallOK(p) /\ LoopOK(p) /\ Calls /\ Memory
    BY <1>1, <1>2, Zenon DEF sbrk_shrink, kfree, VmInv, Calls
  <1>5. d \in Dir /\ Pages(d) \subseteq Pages(pgdir[p]) /\ NoDup(d)
    <2>1. pgdir[p] \in Dir /\ NoDup(pgdir[p])
      BY <1>3, Zenon DEF TypeOK, Memory
    <2> QED
      BY <1>2, <2>1, Unmaps, Zenon
  <1>6. pgdir' \in [Slot -> Dir] /\ pgdir'[p] = d /\ \A q \in Slot \ {p} : pgdir'[q] = pgdir[q]
    <2>1. pgdir \in [Slot -> Dir]
      BY <1>3, Zenon DEF TypeOK
    <2> QED
      BY <1>3, <1>5, <2>1, Zenon
  <1>7. sz' \in [Slot -> 0..KERNBASE-1]
    <2>1. sz \in [Slot -> 0..KERNBASE-1] /\ n \in Int /\ UINT \in Nat \ {0} /\ KERNBASE \in Nat
      BY <1>3, VmAssumption DEF TypeOK, UINT
    <2>2. m \in Nat
      BY <1>1, <2>1
    <2> QED
      BY <1>3, <2>1, <2>2
  <1>8. Partition(Pools', freelist')
    <2>1. PICK S : S = Pages(pgdir[p]) \ Pages(d)
      BY Zenon
    <2>2. \A q \in Slot : Shrinks(q)
      BY <1>3, <1>5, <1>6, Zenon DEF Shrinks
    <2>3. ASSUME NEW k, NEW q \in Slot, Lost(q, k) PROVE k \in S
      <3>1. k \in Pages(pgdir[q]) \ Pages(pgdir'[q])
        BY <1>3, <2>3, Zenon DEF Lost
      <3> QED
        BY <1>6, <2>1, <3>1, Zenon
    <2>4. ASSUME NEW k \in S PROVE Lost(p, k)
      BY <1>6, <2>1, Zenon DEF Lost
    <2>5. freelist' = freelist \cup S
      BY <1>3, <2>1, Zenon
    <2> QED
      BY <1>3, <2>2, <2>3, <2>4, <2>5, Releases, Zenon
  <1>9. Memory'
    <2>1. \A q \in Slot : NoDup(pgdir'[q]) /\ NoDup(call'[q].d)
      BY <1>3, <1>5, <1>6, Zenon DEF Memory
    <2> QED
      BY <1>8, <2>1, NewMemory, Zenon
  <1>10. Calls'
    <2>1. freelist' \subseteq Page
      BY <1>8, Zenon DEF Partition
    <2>2. Quiet(p)
      BY <1>3, Zenon DEF Quiet
    <2>3. CallOK(p)' /\ LoopOK(p)'
      BY <1>3, <2>2, QuietCall, Zenon
    <2>4. Local(p)
      BY <1>3, <1>6, <1>7, <2>1, Zenon DEF Local, at, TypeOK
    <2> QED
      BY <1>3, <2>3, <2>4, LocalStep, Zenon
  <1> QED
    BY <1>9, <1>10, Zenon DEF VmInv
-----------------------------------------------------------------------------
(* fork(), exit() and wait() *)

\* A step of p that changes slot q too.
Reaches(p, q) ==
    /\ \A r \in Slot \ {p} : Quiet(r)
    /\ \A r \in Slot \ {q} : state'[r] = state[r] /\ kstack'[r] = kstack[r] /\ pgdir'[r] = pgdir[r]
    /\ call'[p].op = "fork" =>
           \A r \in Slot \ {p} : call[r].op = "fork" => call[r].np # call'[p].np

\* Such a step has to be looked at in the two slots only.
LEMMA SlotStep ==
    ASSUME Calls, TypeOK', NEW p \in Slot, NEW q \in Slot, Reaches(p, q),
           CallOK(p)', LoopOK(p)', SlotOK(q)'
    PROVE  Calls'
  <1>1. ASSUME NEW r \in Slot PROVE CallOK(r)' /\ LoopOK(r)'
    <2>1. CASE r # p
      <3>1. Quiet(r) /\ CallOK(r) /\ LoopOK(r)
        BY <2>1, Zenon DEF Reaches, Calls
      <3> QED
        BY <3>1, QuietCall, Zenon
    <2> QED
      BY <2>1, Zenon
  <1>2. ASSUME NEW r \in Slot PROVE SlotOK(r)'
    <2>1. CASE r # q
      <3>1. state'[r] = state[r] /\ kstack'[r] = kstack[r] /\ pgdir'[r] = pgdir[r] /\ SlotOK(r)
        BY <2>1, Zenon DEF Reaches, Calls
      <3> QED
        BY <3>1, Zenon DEF SlotOK
    <2> QED
      BY <2>1, Zenon
  <1>3. ASSUME NEW r \in Slot, NEW t \in Slot, call'[r].op = "fork", call'[t].op = "fork",
               call'[r].np = call'[t].np
        PROVE  r = t
    <2>1. \A u \in Slot \ {p} : call'[u] = call[u]
      BY Zenon DEF Reaches, Quiet
    <2>2. CASE r # p /\ t # p
      BY <1>3, <2>1, <2>2, Zenon DEF Calls
    <2>3. CASE r = p /\ t # p
      BY <1>3, <2>1, <2>3, Zenon DEF Reaches
    <2>4. CASE r # p /\ t = p
      BY <1>3, <2>1, <2>4, Zenon DEF Reaches
    <2> QED
      BY <2>2, <2>3, <2>4, Zenon
  <1> QED
    BY <1>1, <1>2, <1>3, Zenon DEF Calls

\* allocproc() takes an unused slot.
LEMMA ForkInv ==
    ASSUME VmInv, NEW p \in Slot, fork(p)
    PROVE  VmInv'
  <1>1. PICK q \in Slot : /\ state[q] = "UNUSED" /\ state' = [state EXCEPT ![q] = "EMBRYO"]
                          /\ call' = [call EXCEPT ![p].op = "fork", ![p].np = q, ![p].newsz = sz[p]]
    BY Zenon DEF fork
  <1>2. /\ pc[p] = "out" /\ state[p] = "RUNNING" /\ pc' = [pc EXCEPT ![p] = "kstack"]
        /\ TypeOK /\ CallOK(p) /\ Calls /\ Memory
        /\ UNCHANGED <<freelist, kstack, pgdir, sz, panicked>>
    BY Zenon DEF fork, at, goto, VmInv, Calls
  <1>3. call[p] = NoCall
    BY <1>2, Zenon DEF CallOK
  <1>4. PICK c : c = [call[p] EXCEPT !.op = "fork", !.np = q, !.newsz = sz[p]]
    BY Zenon
  <1>5. sz[p] \in 0..UINT /\ sz[p] \in Nat
    BY <1>2, VmAssumption DEF TypeOK, UINT
  <1>6. /\ c \in Call /\ c.op = "fork" /\ c.np = q /\ c.a = 0 /\ c.newsz = sz[p]
        /\ c.d = NoDir /\ c.mem = 0
    <2>1. call[p] \in Call /\ call[p].d = NoDir /\ call[p].mem = 0 /\ call[p].a = 0
      BY <1>3, NoCallIs, Zenon
    <2> QED
      BY <1>4, <1>5, <2>1, Zenon DEF Call
  <1>7. call'[p] = c /\ call' \in [Slot -> Call] /\ \A r \in Slot \ {p} : call'[r] = call[r]
    <2>1. call' = [call EXCEPT ![p] = c]
      BY <1>1, <1>4, Zenon
    <2>2. call \in [Slot -> Call]
      BY <1>2, Zenon DEF TypeOK
    <2> QED
      BY <1>6, <2>1, <2>2, Zenon
  <1>8. pc'[p] = "kstack" /\ \A r \in Slot \ {p} : pc'[r] = pc[r]
    BY <1>2, Zenon DEF TypeOK
  <1>9. state'[q] = "EMBRYO" /\ \A r \in Slot \ {q} : state'[r] = state[r]
    BY <1>1, <1>2, Zenon DEF TypeOK
  <1>10. pc[q] = "out" /\ kstack[q] = 0 /\ pgdir[q] = NoDir /\ p # q
    <2>1. CallOK(q) /\ SlotOK(q)
      BY <1>2, Zenon DEF Calls
    <2> QED
      BY <1>1, <1>2, <2>1, Zenon DEF CallOK, SlotOK
  <1>11. ASSUME NEW r \in Slot, call[r].op = "fork" PROVE call[r].np \in Slot \ {q}
    <2>1. CallOK(r) /\ call[r] \in Call
      BY <1>2, Zenon DEF Calls, TypeOK
    <2>2. state[call[r].np] = "EMBRYO"
      BY <1>11, <2>1, Zenon DEF CallOK
    <2>3. call[r].np \in Slot
      BY <2>1, Zenon DEF Call
    <2> QED
      BY <1>1, <2>2, <2>3, Zenon
  <1>12. TypeOK'
    <2>1. state' \in [Slot -> {"UNUSED", "EMBRYO", "RUNNING", "ZOMBIE"}]
      BY <1>1, <1>2, Zenon DEF TypeOK
    <2>2. pc' \in [Slot -> {"out", "kstack", "setupkvm", "kmap", "kalloc", "mappages"}]
      BY <1>2, Zenon DEF TypeOK
    <2> QED
      BY <1>2, <1>7, <2>1, <2>2, Zenon DEF TypeOK
  <1>13. Reaches(p, q)
    <2>1. ASSUME NEW r \in Slot \ {p} PROVE Quiet(r)
      <3>1. pc'[r] = pc[r] /\ call'[r] = call[r] /\ (pc[r] # "out" => state'[r] = state[r])
        BY <1>7, <1>8, <1>9, <1>10, Zenon
      <3>2. call[r].op = "fork" => /\ state'[call[r].np] = state[call[r].np]
                                   /\ kstack'[call[r].np] = 0 <=> kstack[call[r].np] = 0
        BY <1>2, <1>9, <1>11, Zenon
      <3> QED
        BY <3>1, <3>2, Zenon DEF Quiet
    <2>2. call'[p].np = q
      BY <1>6, <1>7, Zenon
    <2> QED
      BY <1>2, <1>9, <1>11, <2>1, <2>2, Zenon DEF Reaches
  <1>14. CallOK(p)'
    <2>1. /\ call'[p].op = "fork" /\ call'[p].d = NoDir /\ call'[p].a = 0 /\ call'[p].mem = 0
          /\ kstack'[call'[p].np] = 0 /\ state'[call'[p].np] = "EMBRYO"
      BY <1>2, <1>6, <1>7, <1>9, <1>10, Zenon
    <2>2. pc'[p] = "kstack" /\ state'[p] = "RUNNING"
      BY <1>2, <1>8, <1>9, <1>10, Zenon
    <2> QED
      BY <2>1, <2>2, Zenon DEF CallOK
  <1>15. LoopOK(p)'
    <2>1. PGSIZE \in Nat \ {0}
      BY VmAssumption, Zenon
    <2>2. 0 = 0 * PGSIZE /\ 0 < sz[p] + PGSIZE
      BY <1>5, <2>1
    <2> QED
      BY <1>6, <1>7, <2>2, Zenon DEF LoopOK
  <1>16. SlotOK(q)'
    <2>1. state'[q] = "EMBRYO" /\ pgdir'[q] = NoDir
      BY <1>2, <1>9, <1>10, Zenon
    <2> QED
      BY <2>1, Zenon DEF SlotOK
  <1>17. Memory'
    <2>1. call[p].d = NoDir /\ call[p].mem = 0 /\ call'[p].d = NoDir /\ call'[p].mem = 0
      BY <1>3, <1>6, <1>7, NoCallIs, Zenon
    <2>2. \A r \in Slot : Keeps(r)
      BY <1>2, <1>7, <2>1, Zenon DEF Keeps
    <2> QED
      BY <1>2, <2>2, SameMemory, Zenon
  <1> QED
    BY <1>2, <1>12, <1>13, <1>14, <1>15, <1>16, <1>17, SlotStep, Zenon DEF VmInv

\* The slot that fork() of p is filling.
LEMMA Child ==
    ASSUME Calls, NEW p \in Slot, call[p].op = "fork", state[p] = "RUNNING"
    PROVE  /\ call[p].np \in Slot /\ call[p].np # p /\ state[call[p].np] = "EMBRYO"
           /\ pc[call[p].np] = "out" /\ pgdir[call[p].np] = NoDir /\ call[call[p].np] = NoCall
           /\ \A r \in Slot \ {p} : call[r].op = "fork" => call[r].np \in Slot \ {call[p].np}
  <1>1. \A r \in Slot : call[r].np \in Slot
    BY Zenon DEF Calls, TypeOK, Call
  <1>2. PICK q \in Slot : q = call[p].np
    BY <1>1, Zenon
  <1>3. state[q] = "EMBRYO"
    BY <1>2, Zenon DEF Calls, CallOK
  <1>4. q # p
    BY <1>3, Zenon
  <1>5. CallOK(q) /\ SlotOK(q)
    BY Zenon DEF Calls
  <1>6. pc[q] = "out" /\ pgdir[q] = NoDir
    BY <1>3, <1>5, Zenon DEF CallOK, SlotOK
  <1>7. call[q] = NoCall
    BY <1>5, <1>6, Zenon DEF CallOK
  <1>8. \A r \in Slot \ {p} : call[r].op = "fork" => call[r].np # q
    BY <1>2, Zenon DEF Calls
  <1> QED
    BY <1>1, <1>2, <1>3, <1>4, <1>6, <1>7, <1>8, Zenon

\* fork() gets a kernel stack.
LEMMA ForkKstackInv ==
    ASSUME VmInv, NEW p \in Slot, fork_kstack(p)
    PROVE  VmInv'
  <1>1. PICK m \in Page : kalloc(m) /\ kstack' = [kstack EXCEPT ![call[p].np] = m]
    BY Zenon DEF fork_kstack
  <1>2. /\ pc[p] = "kstack" /\ state[p] = "RUNNING" /\ pc' = [pc EXCEPT ![p] = "setupkvm"]
        /\ TypeOK /\ CallOK(p) /\ LoopOK(p) /\ Calls /\ Memory
        /\ UNCHANGED <<state, pgdir, sz, call, panicked>>
    BY Zenon DEF fork_kstack, at, goto, VmInv, Calls
  <1>3. m \in freelist /\ freelist' = freelist \ {m}
    BY <1>1, Zenon DEF kalloc
  <1>4. /\ call[p].op = "fork" /\ kstack[call[p].np] = 0 /\ call[p].d = NoDir /\ call[p].a = 0
        /\ call[p].mem = 0
    BY <1>2, Zenon DEF CallOK
  <1>5. PICK q \in Slot : q = call[p].np
    BY <1>2, <1>4, Child, Zenon
  <1>6. /\ q # p /\ state[q] = "EMBRYO" /\ pc[q] = "out" /\ pgdir[q] = NoDir
        /\ \A r \in Slot \ {p} : call[r].op = "fork" => call[r].np \in Slot \ {q}
    BY <1>2, <1>4, <1>5, Child, Zenon
  <1>7. m \in 0..NPAGE /\ m # 0
    BY VmAssumption DEF Page
  <1>8. kstack'[q] = m /\ (\A r \in Slot \ {q} : kstack'[r] = kstack[r]) /\ kstack' \in [Slot -> 0..NPAGE]
    <2>1. kstack \in [Slot -> 0..NPAGE]
      BY <1>2, Zenon DEF TypeOK
    <2> QED
      BY <1>1, <1>5, <1>7, <2>1, Zenon
  <1>9. /\ pc'[p] = "setupkvm" /\ \A r \in Slot \ {p} : pc'[r] = pc[r]
        /\ pc' \in [Slot -> {"out", "kstack", "setupkvm", "kmap", "kalloc", "mappages"}]
    BY <1>2, Zenon DEF TypeOK
  <1>10. freelist' \subseteq Page
    BY <1>2, <1>3, Zenon DEF TypeOK
  <1>11. TypeOK'
    BY <1>2, <1>8, <1>9, <1>10, Zenon DEF TypeOK
  <1>12. Reaches(p, q)
    <2>1. ASSUME NEW r \in Slot \ {p} PROVE Quiet(r)
      BY <1>2, <1>6, <1>8, <1>9, ZenonT(30) DEF Quiet
    <2>2. call'[p].np = q
      BY <1>2, <1>5, Zenon
    <2> QED
      BY <1>2, <1>6, <1>8, <2>1, <2>2, Zenon DEF Reaches
  <1>13. CallOK(p)'
    <2>1. /\ call'[p].op = "fork" /\ call'[p].d = NoDir /\ call'[p].a = 0 /\ call'[p].mem = 0
          /\ kstack'[call'[p].np] # 0 /\ state'[call'[p].np] = "EMBRYO"
      BY <1>2, <1>4, <1>5, <1>6, <1>7, <1>8, Zenon
    <2>2. pc'[p] = "setupkvm" /\ state'[p] = "RUNNING"
      BY <1>2, <1>9, Zenon
    <2> QED
      BY <2>1, <2>2, Zenon DEF CallOK
  <1>14. LoopOK(p)'
    BY <1>2, Zenon DEF LoopOK
  <1>15. SlotOK(q)'
    <2>1. state'[q] = "EMBRYO" /\ pgdir'[q] = NoDir
      BY <1>2, <1>6, Zenon
    <2> QED
      BY <2>1, Zenon DEF SlotOK
  <1>16. Memory'
    <2>1. \A r \in Slot \ {q} : Keeps(r)
      BY <1>2, <1>8, Zenon DEF Keeps
    <2>2. /\ Pools[<<q, "kstack">>] = {kstack[q]} \ {0} /\ Pools[<<q, "pgdir">>] = Pages(pgdir[q])
          /\ Pools[<<q, "d">>] = Pages(call[q].d) /\ Pools[<<q, "mem">>] = {call[q].mem} \ {0}
      BY PoolsAre, Zenon
    <2>3. /\ Pools'[<<q, "kstack">>] = {kstack'[q]} \ {0} /\ Pools'[<<q, "pgdir">>] = Pages(pgdir'[q])
          /\ Pools'[<<q, "d">>] = Pages(call'[q].d) /\ Pools'[<<q, "mem">>] = {call'[q].mem} \ {0}
      BY PoolsWillBe, Zenon
    <2>4. pgdir'[q] = pgdir[q] /\ call'[q] = call[q]
      BY <1>2, Zenon
    <2>5. \A l \in {"kstack", "pgdir", "d", "mem"} \ {"kstack"} : Pools'[<<q, l>>] = Pools[<<q, l>>]
      BY <2>2, <2>3, <2>4, Zenon
    <2>6. {kstack[q]} \ {0} = {} /\ {kstack'[q]} \ {0} = {m}
      BY <1>4, <1>5, <1>7, <1>8, Zenon
    <2>7. Pools'[<<q, "kstack">>] = Pools[<<q, "kstack">>] \cup {m}
      BY <2>2, <2>3, <2>6, Zenon
    <2>8. Partition(Pools', freelist')
      BY <1>2, <1>3, <2>1, <2>5, <2>7, TakesFor, Zenon DEF Memory
    <2>9. \A r \in Slot : NoDup(pgdir'[r]) /\ NoDup(call'[r].d)
      BY <1>2, Zenon DEF Memory
    <2> QED
      BY <2>8, <2>9, NewMemory, Zenon
  <1> QED
    BY <1>2, <1>11, <1>12, <1>13, <1>14, <1>15, <1>16, SlotStep, Zenon DEF VmInv

\* fork() is done: the child has the address space that was built.
LEMMA ForkDoneInv ==
    ASSUME VmInv, NEW p \in Slot, fork_done(p)
    PROVE  VmInv'
  <1>1. /\ pc[p] = "kalloc" /\ state[p] = "RUNNING" /\ return(p) /\ call[p].op = "fork"
        /\ TypeOK /\ CallOK(p) /\ Calls /\ Memory
        /\ UNCHANGED <<freelist, kstack, panicked>>
        /\ pgdir' = [pgdir EXCEPT ![call[p].np] = call[p].d]
        /\ sz' = [sz EXCEPT ![call[p].np] = sz[p]]
        /\ state' = [state EXCEPT ![call[p].np] = "RUNNING"]
    BY Zenon DEF fork_done, at, VmInv, Calls
  <1>2. call[p].mem = 0 /\ kstack[call[p].np] # 0
    BY <1>1, Zenon DEF CallOK
  <1>3. PICK q \in Slot : q = call[p].np
    BY <1>1, Child, Zenon
  <1>4. /\ q # p /\ state[q] = "EMBRYO" /\ pc[q] = "out" /\ pgdir[q] = NoDir /\ call[q] = NoCall
        /\ \A r \in Slot \ {p} : call[r].op = "fork" => call[r].np \in Slot \ {q}
    BY <1>1, <1>3, Child, Zenon
  <1>5. /\ call' \in [Slot -> Call] /\ call'[p] = NoCall
        /\ \A r \in Slot \ {p} : call'[r] = call[r] /\ pc'[r] = pc[r]
        /\ pc' \in [Slot -> {"out", "kstack", "setupkvm", "kmap", "kalloc", "mappages"}]
        /\ CallOK(p)' /\ LoopOK(p)'
    BY <1>1, Returns, Zenon
  <1>6. call[p].d \in Dir
    BY <1>1, Zenon DEF TypeOK, Call
  <1>7. /\ pgdir'[q] = call[p].d /\ pgdir' \in [Slot -> Dir]
        /\ \A r \in Slot \ {q} : pgdir'[r] = pgdir[r]
    <2>1. pgdir \in [Slot -> Dir]
      BY <1>1, Zenon DEF TypeOK
    <2> QED
      BY <1>1, <1>3, <1>6, <2>1, Zenon
  <1>8. /\ state'[q] = "RUNNING" /\ \A r \in Slot \ {q} : state'[r] = state[r]
        /\ state' \in [Slot -> {"UNUSED", "EMBRYO", "RUNNING", "ZOMBIE"}]
    BY <1>1, <1>3, Zenon DEF TypeOK
  <1>9. TypeOK'
    <2>1. sz' \in [Slot -> 0..KERNBASE-1]
      BY <1>1, <1>3, Zenon DEF TypeOK
    <2> QED
      BY <1>1, <1>5, <1>7, <1>8, <2>1, Zenon DEF TypeOK
  <1>10. Reaches(p, q)
    <2>1. ASSUME NEW r \in Slot \ {p} PROVE Quiet(r)
      <3>1. pc'[r] = pc[r] /\ call'[r] = call[r] /\ (pc[r] # "out" => state'[r] = state[r])
        BY <1>4, <1>5, <1>8, Zenon
      <3>2. call[r].op = "fork" => /\ state'[call[r].np] = state[call[r].np]
                                   /\ kstack'[call[r].np] = 0 <=> kstack[call[r].np] = 0
        BY <1>1, <1>4, <1>8, Zenon
      <3> QED
        BY <3>1, <3>2, Zenon DEF Quiet
    <2>2. call'[p].op # "fork"
      BY <1>5, NoCallIs, Zenon
    <2> QED
      BY <1>1, <1>7, <1>8, <2>1, <2>2, Zenon DEF Reaches
  <1>11. SlotOK(q)'
    <2>1. state'[q] = "RUNNING" /\ kstack'[q] # 0
      BY <1>1, <1>2, <1>3, <1>8, Zenon
    <2> QED
      BY <2>1, Zenon DEF SlotOK
  <1>12. call'[p].d = NoDir /\ call'[p].mem = 0 /\ Pages(NoDir) = {} /\ NoDup(NoDir)
    BY <1>5, NoCallIs, Indices, Zenon
  <1>13. Partition(Pools', freelist')
    <2>1. /\ Pools[<<p, "kstack">>] = {kstack[p]} \ {0} /\ Pools[<<p, "pgdir">>] = Pages(pgdir[p])
          /\ Pools[<<p, "d">>] = Pages(call[p].d) /\ Pools[<<p, "mem">>] = {call[p].mem} \ {0}
      BY PoolsAre, Zenon
    <2>2. /\ Pools'[<<p, "kstack">>] = {kstack'[p]} \ {0} /\ Pools'[<<p, "pgdir">>] = Pages(pgdir'[p])
          /\ Pools'[<<p, "d">>] = Pages(call'[p].d) /\ Pools'[<<p, "mem">>] = {call'[p].mem} \ {0}
      BY PoolsWillBe, Zenon
    <2>3. /\ Pools[<<q, "kstack">>] = {kstack[q]} \ {0} /\ Pools[<<q, "pgdir">>] = Pages(pgdir[q])
          /\ Pools[<<q, "d">>] = Pages(call[q].d) /\ Pools[<<q, "mem">>] = {call[q].mem} \ {0}
      BY PoolsAre, Zenon
    <2>4. /\ Pools'[<<q, "kstack">>] = {kstack'[q]} \ {0} /\ Pools'[<<q, "pgdir">>] = Pages(pgdir'[q])
          /\ Pools'[<<q, "d">>] = Pages(call'[q].d) /\ Pools'[<<q, "mem">>] = {call'[q].mem} \ {0}
      BY PoolsWillBe, Zenon
    <2>5. /\ Pools'[<<p, "kstack">>] = Pools[<<p, "kstack">>]
          /\ Pools'[<<p, "pgdir">>] = Pools[<<p, "pgdir">>]
          /\ Pools'[<<p, "mem">>] = Pools[<<p, "mem">>]
      <3>1. kstack'[p] = kstack[p] /\ pgdir'[p] = pgdir[p] /\ call'[p].mem = call[p].mem
        BY <1>1, <1>2, <1>4, <1>7, <1>12, Zenon
      <3>2. Pools'[<<p, "kstack">>] = Pools[<<p, "kstack">>]
        BY <2>1, <2>2, <3>1, Zenon
      <3>3. Pools'[<<p, "pgdir">>] = Pools[<<p, "pgdir">>]
        BY <2>1, <2>2, <3>1, Zenon
      <3>4. Pools'[<<p, "mem">>] = Pools[<<p, "mem">>]
        BY <2>1, <2>2, <3>1, Zenon
      <3> QED
        BY <3>2, <3>3, <3>4, Zenon
    <2>6. /\ Pools'[<<q, "kstack">>] = Pools[<<q, "kstack">>]
          /\ Pools'[<<q, "d">>] = Pools[<<q, "d">>]
          /\ Pools'[<<q, "mem">>] = Pools[<<q, "mem">>]
      BY <1>1, <1>4, <1>5, <2>3, <2>4, Zenon
    <2>7. Pools'[<<p, "d">>] = {}
      BY <1>12, <2>2, Zenon
    <2>8. Pools'[<<q, "pgdir">>] = Pools[<<q, "pgdir">>] \cup Pools[<<p, "d">>]
      <3>1. Pools[<<q, "pgdir">>] = {} /\ Pools'[<<q, "pgdir">>] = Pools[<<p, "d">>]
        BY <1>4, <1>7, <1>12, <2>1, <2>3, <2>4, Zenon
      <3> QED
        BY <3>1, Zenon
    <2>9. ASSUME NEW x \in Owner \ {<<p, "d">>, <<q, "pgdir">>} PROVE Pools'[x] = Pools[x]
      <3>1. PICK r \in Slot : x \in {<<r, "kstack">>, <<r, "pgdir">>, <<r, "d">>, <<r, "mem">>}
        BY OwnersAre, Zenon
      <3>2. CASE r = p
        BY <2>5, <3>1, <3>2, Zenon
      <3>3. CASE r = q
        BY <2>6, <3>1, <3>3, Zenon
      <3>4. CASE r # p /\ r # q
        <4>1. Keeps(r)
          BY <1>1, <1>5, <1>7, <3>4, Zenon DEF Keeps
        <4>2. \A u \in Slot : \A k \in {"kstack", "pgdir", "d", "mem"} : x = <<u, k>> => u = r
          BY <3>1, OwnersAre
        <4> QED
          BY <4>1, <4>2, Others, Zenon
      <3> QED
        BY <3>2, <3>3, <3>4, Zenon
    <2>10. <<p, "d">> \in Owner /\ <<q, "pgdir">> \in Owner /\ <<p, "d">> # <<q, "pgdir">>
      BY OwnersAre, Zenon
    <2>11. Partition(Pools, freelist)
      BY <1>1, Zenon DEF Memory
    <2>12. Partition(Pools', freelist)
      BY <2>7, <2>8, <2>9, <2>10, <2>11, MovesTo, Zenon
    <2> QED
      BY <1>1, <2>12, Zenon
  <1>14. Memory'
    <2>1. \A r \in Slot : NoDup(pgdir'[r]) /\ NoDup(call'[r].d)
      BY <1>1, <1>5, <1>7, <1>12, Zenon DEF Memory
    <2> QED
      BY <1>13, <2>1, NewMemory, Zenon
  <1> QED
    BY <1>1, <1>5, <1>9, <1>10, <1>11, <1>14, SlotStep, Zenon DEF VmInv

\* fork() fails and gives back everything.
LEMMA ForkFailsInv ==
    ASSUME VmInv, NEW p \in Slot, fork_fails(p)
    PROVE  VmInv'
  <1>1. /\ call[p].op = "fork" /\ OutOfMemory(p) /\ return(p)
        /\ freelist' = freelist \cup ((Pages(call[p].d) \cup {call[p].mem, kstack[call[p].np]}) \ {0})
        /\ kstack' = [kstack EXCEPT ![call[p].np] = 0]
        /\ state' = [state EXCEPT ![call[p].np] = "UNUSED"]
        /\ UNCHANGED <<pgdir, sz, panicked>>
        /\ TypeOK /\ CallOK(p) /\ Calls /\ Memory
    BY Zenon DEF fork_fails, kfree, VmInv, Calls
  <1>2. state[p] = "RUNNING"
    BY <1>1, Zenon DEF OutOfMemory, at
  <1>3. PICK q \in Slot : q = call[p].np
    BY <1>1, <1>2, Child, Zenon
  <1>4. /\ q # p /\ state[q] = "EMBRYO" /\ pc[q] = "out" /\ pgdir[q] = NoDir /\ call[q] = NoCall
        /\ \A r \in Slot \ {p} : call[r].op = "fork" => call[r].np \in Slot \ {q}
    BY <1>1, <1>2, <1>3, Child, Zenon
  <1>5. /\ call' \in [Slot -> Call] /\ call'[p] = NoCall
        /\ \A r \in Slot \ {p} : call'[r] = call[r] /\ pc'[r] = pc[r]
        /\ pc' \in [Slot -> {"out", "kstack", "setupkvm", "kmap", "kalloc", "mappages"}]
        /\ CallOK(p)' /\ LoopOK(p)'
    BY <1>1, Returns, Zenon
  <1>6. /\ kstack'[q] = 0 /\ kstack' \in [Slot -> 0..NPAGE]
        /\ \A r \in Slot \ {q} : kstack'[r] = kstack[r]
    <2>1. kstack \in [Slot -> 0..NPAGE] /\ 0 \in 0..NPAGE
      BY <1>1, VmAssumption DEF TypeOK
    <2> QED
      BY <1>1, <1>3, <2>1, Zenon
  <1>7. /\ state'[q] = "UNUSED" /\ \A r \in Slot \ {q} : state'[r] = state[r]
        /\ state' \in [Slot -> {"UNUSED", "EMBRYO", "RUNNING", "ZOMBIE"}]
    BY <1>1, <1>3, Zenon DEF TypeOK
  <1>8. call'[p].d = NoDir /\ call'[p].mem = 0 /\ Pages(NoDir) = {} /\ NoDup(NoDir)
    BY <1>5, NoCallIs, Indices, Zenon
  <1>9. Partition(Pools', freelist')
    <2>1. PICK S : S = (Pages(call[p].d) \cup {call[p].mem, kstack[q]}) \ {0}
      BY Zenon
    <2>2. Shrinks(p)
      BY <1>1, <1>4, <1>6, <1>8, Zenon DEF Shrinks
    <2>3. \A r \in Slot \ {p} : Shrinks(r)
      BY <1>1, <1>5, <1>6, Zenon DEF Shrinks
    <2>4. ASSUME NEW n, NEW r \in Slot, Lost(r, n) PROVE n \in S
      <3>1. n \notin Pages(pgdir[r]) \ Pages(pgdir'[r])
        BY <1>1, Zenon
      <3>2. CASE n # 0 /\ n = kstack[r] /\ kstack'[r] = 0
        BY <1>6, <2>1, <3>2, Zenon
      <3>3. CASE n # 0 /\ n = call[r].mem /\ call'[r].mem = 0
        BY <1>5, <2>1, <3>3, Zenon
      <3>4. CASE n \in Pages(call[r].d) \ Pages(call'[r].d)
        <4>1. r = p
          BY <1>5, <3>4, Zenon
        <4>2. n # 0
          BY <3>4, PagesAre, Zenon
        <4> QED
          BY <2>1, <3>4, <4>1, <4>2, Zenon
      <3> QED
        BY <2>4, <3>1, <3>2, <3>3, <3>4, Zenon DEF Lost
    <2>5. ASSUME NEW n \in S PROVE \E r \in Slot : Lost(r, n)
      <3>1. CASE n = kstack[q]
        <4>1. Lost(q, n)
          BY <1>6, <2>1, <2>5, <3>1, Zenon DEF Lost
        <4> QED
          BY <4>1, Zenon
      <3>2. CASE n # kstack[q]
        <4>1. Lost(p, n)
          BY <1>8, <2>1, <2>5, <3>2, Zenon DEF Lost
        <4> QED
          BY <4>1, Zenon
      <3> QED
        BY <3>1, <3>2, Zenon
    <2>6. freelist' = freelist \cup S
      BY <1>1, <1>3, <2>1, Zenon
    <2> QED
      BY <1>1, <2>2, <2>3, <2>4, <2>5, <2>6, Releases, Zenon
  <1>10. TypeOK'
    <2>1. freelist' \subseteq Page
      BY <1>9, Zenon DEF Partition
    <2> QED
      BY <1>1, <1>5, <1>6, <1>7, <2>1, Zenon DEF TypeOK
  <1>11. Reaches(p, q)
    <2>1. ASSUME NEW r \in Slot \ {p} PROVE Quiet(r)
      <3>1. pc'[r] = pc[r] /\ call'[r] = call[r] /\ (pc[r] # "out" => state'[r] = state[r])
        BY <1>4, <1>5, <1>7, Zenon
      <3>2. call[r].op = "fork" => /\ state'[call[r].np] = state[call[r].np]
                                   /\ kstack'[call[r].np] = 0 <=> kstack[call[r].np] = 0
        BY <1>4, <1>6, <1>7, Zenon
      <3> QED
        BY <3>1, <3>2, Zenon DEF Quiet
    <2>2. call'[p].op # "fork"
      BY <1>5, NoCallIs, Zenon
    <2> QED
      BY <1>1, <1>6, <1>7, <2>1, <2>2, Zenon DEF Reaches
  <1>12. SlotOK(q)'
    <2>1. state'[q] = "UNUSED" /\ kstack'[q] = 0 /\ pgdir'[q] = NoDir
      BY <1>1, <1>4, <1>6, <1>7, Zenon
    <2> QED
      BY <2>1, Zenon DEF SlotOK
  <1>13. Memory'
    <2>1. \A r \in Slot : NoDup(pgdir'[r]) /\ NoDup(call'[r].d)
      BY <1>1, <1>5, <1>8, Zenon DEF Memory
    <2> QED
      BY <1>9, <2>1, NewMemory, Zenon
  <1> QED
    BY <1>1, <1>5, <1>10, <1>11, <1>12, <1>13, SlotStep, Zenon DEF VmInv

\* exit() leaves the memory to wait().
LEMMA ExitInv ==
    ASSUME VmInv, NEW p \in Slot, exit(p)
    PROVE  VmInv'
  <1>1. /\ pc[p] = "out" /\ state[p] = "RUNNING" /\ state' = [state EXCEPT ![p] = "ZOMBIE"]
        /\ UNCHANGED <<freelist, kstack, pgdir, sz, pc, call, panicked>>
        /\ TypeOK /\ CallOK(p) /\ LoopOK(p) /\ SlotOK(p) /\ Calls /\ Memory
    BY Zenon DEF exit, at, VmInv, Calls
  <1>2. /\ state'[p] = "ZOMBIE" /\ \A r \in Slot \ {p} : state'[r] = state[r]
        /\ state' \in [Slot -> {"UNUSED", "EMBRYO", "RUNNING", "ZOMBIE"}]
    BY <1>1, Zenon DEF TypeOK
  <1>3. TypeOK'
    BY <1>1, <1>2, Zenon DEF TypeOK
  <1>4. ASSUME NEW r \in Slot, call[r].op = "fork" PROVE call[r].np \in Slot \ {p}
    <2>1. state[call[r].np] = "EMBRYO"
      BY <1>1, <1>4, Zenon DEF Calls, CallOK
    <2>2. call[r].np \in Slot
      BY <1>1, Zenon DEF TypeOK, Call
    <2> QED
      BY <1>1, <2>1, <2>2, Zenon
  <1>5. ASSUME NEW r \in Slot PROVE Quiet(r)
    <2>1. pc[r] # "out" => state'[r] = state[r]
      BY <1>1, <1>2, Zenon
    <2> QED
      BY <1>1, <1>2, <1>4, <2>1, Zenon DEF Quiet
  <1>6. Reaches(p, p)
    <2>1. call'[p].op # "fork"
      <3>1. call[p] = NoCall
        BY <1>1, Zenon DEF CallOK
      <3> QED
        BY <1>1, <3>1, NoCallIs, Zenon
    <2> QED
      BY <1>1, <1>2, <1>5, <2>1, Zenon DEF Reaches
  <1>7. CallOK(p)' /\ LoopOK(p)'
    BY <1>1, <1>5, QuietCall, Zenon
  <1>8. SlotOK(p)'
    <2>1. state'[p] = "ZOMBIE" /\ kstack'[p] = kstack[p] /\ kstack[p] # 0
      BY <1>1, <1>2, Zenon DEF SlotOK
    <2> QED
      BY <2>1, Zenon DEF SlotOK
  <1>9. Memory'
    <2>1. \A q \in Slot : Keeps(q)
      BY <1>1, Zenon DEF Keeps
    <2> QED
      BY <1>1, <2>1, SameMemory, Zenon
  <1> QED
    BY <1>1, <1>3, <1>6, <1>7, <1>8, <1>9, SlotStep, Zenon DEF VmInv

\* wait() of q frees the memory of the zombie p.
LEMMA WaitInv ==
    ASSUME VmInv, NEW p \in Slot, NEW q \in Slot, wait(q, p)
    PROVE  VmInv'
  <1>1. /\ state[p] = "ZOMBIE" /\ state' = [state EXCEPT ![p] = "UNUSED"]
        /\ freelist' = freelist \cup (Pages(pgdir[p]) \cup {kstack[p]})
        /\ kstack' = [kstack EXCEPT ![p] = 0] /\ pgdir' = [pgdir EXCEPT ![p] = NoDir]
        /\ UNCHANGED <<sz, pc, call, panicked>>
        /\ TypeOK /\ CallOK(p) /\ LoopOK(p) /\ SlotOK(p) /\ Calls /\ Memory
    BY Zenon DEF wait, kfree, VmInv, Calls
  <1>2. /\ state'[p] = "UNUSED" /\ \A r \in Slot \ {p} : state'[r] = state[r]
        /\ state' \in [Slot -> {"UNUSED", "EMBRYO", "RUNNING", "ZOMBIE"}]
    BY <1>1, Zenon DEF TypeOK
  <1>3. /\ kstack'[p] = 0 /\ kstack' \in [Slot -> 0..NPAGE]
        /\ \A r \in Slot \ {p} : kstack'[r] = kstack[r]
    <2>1. kstack \in [Slot -> 0..NPAGE] /\ 0 \in 0..NPAGE
      BY <1>1, VmAssumption DEF TypeOK
    <2> QED
      BY <1>1, <2>1, Zenon
  <1>4. NoDir \in Dir /\ Pages(NoDir) = {} /\ NoDup(NoDir)
    BY Indices, Zenon
  <1>5. /\ pgdir'[p] = NoDir /\ pgdir' \in [Slot -> Dir]
        /\ \A r \in Slot \ {p} : pgdir'[r] = pgdir[r]
    <2>1. pgdir \in [Slot -> Dir]
      BY <1>1, Zenon DEF TypeOK
    <2> QED
      BY <1>1, <1>4, <2>1, Zenon
  <1>6. pc[p] = "out" /\ kstack[p] # 0
    BY <1>1, Zenon DEF CallOK, SlotOK
  <1>7. ASSUME NEW r \in Slot, call[r].op = "fork" PROVE call[r].np \in Slot \ {p}
    <2>1. state[call[r].np] = "EMBRYO"
      BY <1>1, <1>7, Zenon DEF Calls, CallOK
    <2>2. call[r].np \in Slot
      BY <1>1, Zenon DEF TypeOK, Call
    <2> QED
      BY <1>1, <2>1, <2>2, Zenon
  <1>8. ASSUME NEW r \in Slot PROVE Quiet(r)
    <2>1. pc[r] # "out" => state'[r] = state[r]
      BY <1>2, <1>6, Zenon
    <2> QED
      BY <1>1, <1>2, <1>3, <1>7, <2>1, Zenon DEF Quiet
  <1>9. Reaches(p, p)
    <2>1. call'[p].op # "fork"
      <3>1. call[p] = NoCall
        BY <1>1, <1>6, Zenon DEF CallOK
      <3> QED
        BY <1>1, <3>1, NoCallIs, Zenon
    <2> QED
      BY <1>1, <1>2, <1>3, <1>5, <1>8, <2>1, Zenon DEF Reaches
  <1>10. CallOK(p)' /\ LoopOK(p)'
    BY <1>1, <1>8, QuietCall, Zenon
  <1>11. SlotOK(p)'
    <2>1. state'[p] = "UNUSED" /\ kstack'[p] = 0 /\ pgdir'[p] = NoDir
      BY <1>2, <1>3, <1>5, Zenon
    <2> QED
      BY <2>1, Zenon DEF SlotOK
  <1>12. Partition(Pools', freelist')
    <2>1. PICK S : S = Pages(pgdir[p]) \cup {kstack[p]}
      BY Zenon
    <2>2. \A r \in Slot : Shrinks(r)
      BY <1>1, <1>3, <1>4, <1>5, Zenon DEF Shrinks
    <2>3. ASSUME NEW n, NEW r \in Slot, Lost(r, n) PROVE n \in S
      <3>1. CASE n # 0 /\ n = kstack[r] /\ kstack'[r] = 0
        BY <1>3, <2>1, <3>1, Zenon
      <3>2. CASE n \in Pages(pgdir[r]) \ Pages(pgdir'[r])
        BY <1>5, <2>1, <3>2, Zenon
      <3>3. CASE n # 0 /\ n = call[r].mem /\ call'[r].mem = 0
        BY <1>1, <3>3, Zenon
      <3>4. n \notin Pages(call[r].d) \ Pages(call'[r].d)
        BY <1>1, Zenon
      <3> QED
        BY <2>3, <3>1, <3>2, <3>3, <3>4, Zenon DEF Lost
    <2>4. ASSUME NEW n \in S PROVE Lost(p, n)
      <3>1. CASE n = kstack[p]
        BY <1>3, <1>6, <3>1, Zenon DEF Lost
      <3>2. CASE n \in Pages(pgdir[p])
        BY <1>4, <1>5, <3>2, Zenon DEF Lost
      <3> QED
        BY <2>1, <2>4, <3>1, <3>2, Zenon
    <2>5. freelist' = freelist \cup S
      BY <1>1, <2>1, Zenon
    <2> QED
      BY <1>1, <2>2, <2>3, <2>4, <2>5, Releases, Zenon
  <1>13. Memory'
    <2>1. \A r \in Slot : NoDup(pgdir'[r]) /\ NoDup(call'[r].d)
      BY <1>1, <1>4, <1>5, Zenon DEF Memory
    <2> QED
      BY <1>12, <2>1, NewMemory, Zenon
  <1>14. TypeOK'
    <2>1. freelist' \subseteq Page
      BY <1>12, Zenon DEF Partition
    <2> QED
      BY <1>1, <1>2, <1>3, <1>5, <2>1, Zenon DEF TypeOK
  <1> QED
    BY <1>1, <1>9, <1>10, <1>11, <1>13, <1>14, SlotStep, Zenon DEF VmInv
-----------------------------------------------------------------------------
(* exec() *)

\* exec() begins.
LEMMA ExecInv ==
    ASSUME VmInv, NEW p \in Slot, exec(p)
    PROVE  VmInv'
  <1>1. PICK s \in Segments : call' = [call EXCEPT ![p].op = "exec", ![p].newsz = s]
    BY Zenon DEF exec
  <1>2. /\ pc[p] = "out" /\ state[p] = "RUNNING" /\ pc' = [pc EXCEPT ![p] = "setupkvm"]
        /\ TypeOK /\ CallOK(p) /\ Calls /\ Memory
        /\ UNCHANGED <<freelist, state, kstack, pgdir, sz, panicked>>
    BY Zenon DEF exec, at, goto, VmInv, Calls
  <1>3. call[p] = NoCall
    BY <1>2, Zenon DEF CallOK
  <1>4. PICK c : c = [call[p] EXCEPT !.op = "exec", !.newsz = s]
    BY Zenon
  <1>5. s \in 0..UINT /\ s \in Nat
    BY VmAssumption DEF UINT
  <1>6. c \in Call /\ c.op = "exec" /\ c.a = 0 /\ c.newsz = s /\ c.d = NoDir /\ c.mem = 0
    <2>1. call[p] \in Call /\ call[p].d = NoDir /\ call[p].mem = 0 /\ call[p].a = 0
      BY <1>3, NoCallIs, Zenon
    <2> QED
      BY <1>4, <1>5, <2>1, Zenon DEF Call
  <1>7. call'[p] = c /\ call' \in [Slot -> Call] /\ \A r \in Slot \ {p} : call'[r] = call[r]
    <2>1. call' = [call EXCEPT ![p] = c]
      BY <1>1, <1>4, Zenon
    <2>2. call \in [Slot -> Call]
      BY <1>2, Zenon DEF TypeOK
    <2> QED
      BY <1>6, <2>1, <2>2, Zenon
  <1>8. pc'[p] = "setupkvm" /\ \A r \in Slot \ {p} : pc'[r] = pc[r]
    BY <1>2, Zenon DEF TypeOK
  <1>9. CallOK(p)'
    <2>1. /\ call'[p].op = "exec" /\ call'[p].d = NoDir /\ call'[p].a = 0 /\ call'[p].mem = 0
          /\ pc'[p] = "setupkvm" /\ state'[p] = "RUNNING"
      BY <1>2, <1>6, <1>7, <1>8, Zenon
    <2> QED
      BY <2>1, Zenon DEF CallOK
  <1>10. LoopOK(p)'
    <2>1. PGSIZE \in Nat \ {0}
      BY VmAssumption, Zenon
    <2>2. 0 = 0 * PGSIZE /\ 0 < s + PGSIZE
      BY <1>5, <2>1
    <2> QED
      BY <1>6, <1>7, <2>2, Zenon DEF LoopOK
  <1>11. Local(p)
    <2>1. pc' \in [Slot -> {"out", "kstack", "setupkvm", "kmap", "kalloc", "mappages"}]
      BY <1>2, Zenon DEF TypeOK
    <2>2. call'[p].op # "fork"
      BY <1>6, <1>7, Zenon
    <2> QED
      BY <1>2, <1>7, <1>8, <2>1, <2>2, Zenon DEF Local, TypeOK
  <1>12. Memory'
    <2>1. call[p].d = NoDir /\ call[p].mem = 0 /\ call'[p].d = NoDir /\ call'[p].mem = 0
      BY <1>3, <1>6, <1>7, NoCallIs, Zenon
    <2>2. \A r \in Slot : Keeps(r)
      BY <1>2, <1>7, <2>1, Zenon DEF Keeps
    <2> QED
      BY <1>2, <2>2, SameMemory, Zenon
  <1> QED
    BY <1>2, <1>9, <1>10, <1>11, <1>12, LocalStep, Zenon DEF VmInv

\* The program is loaded: exec() goes on with the stack.
LEMMA ExecStackInv ==
    ASSUME VmInv, NEW p \in Slot, exec_stack(p)
    PROVE  VmInv'
  <1>1. PICK s, n : s = PGROUNDUP(call[p].newsz) /\ n = s + 2 * PGSIZE
    BY Zenon
  <1>2. /\ pc[p] = "kalloc" /\ state[p] = "RUNNING" /\ call[p].op = "exec" /\ n < KERNBASE
        /\ call' = [call EXCEPT ![p].op = "stack", ![p].a = s, ![p].newsz = n]
        /\ UNCHANGED <<freelist, state, kstack, pgdir, sz, pc, panicked>>
        /\ TypeOK /\ CallOK(p) /\ Calls /\ Memory
    BY <1>1, Zenon DEF exec_stack, at, VmInv, Calls
  <1>3. call[p] \in Call
    BY <1>2, Zenon DEF TypeOK
  <1>4. UINT \in Nat /\ PGSIZE \in Nat \ {0} /\ KERNBASE \in Nat /\ KERNBASE <= UINT
    BY VmAssumption DEF UINT
  <1>5. call[p].newsz \in Nat
    BY <1>3, <1>4 DEF Call
  <1>6. \E k \in Nat : s = k * PGSIZE
    BY <1>1, <1>5, RoundUp, Zenon
  <1>7. s \in 0..UINT /\ n \in 0..UINT /\ s < n + PGSIZE
    <2>1. s \in Nat
      BY <1>4, <1>6
    <2> QED
      BY <1>1, <1>2, <1>4, <2>1
  <1>8. PICK c : c = [call[p] EXCEPT !.op = "stack", !.a = s, !.newsz = n]
    BY Zenon
  <1>9. /\ c \in Call /\ c.op = "stack" /\ c.a = s /\ c.newsz = n
        /\ c.d = call[p].d /\ c.mem = call[p].mem
    BY <1>3, <1>7, <1>8, Zenon DEF Call
  <1>10. call'[p] = c /\ call' \in [Slot -> Call] /\ \A r \in Slot \ {p} : call'[r] = call[r]
    <2>1. call' = [call EXCEPT ![p] = c]
      BY <1>2, <1>8, Zenon
    <2>2. call \in [Slot -> Call]
      BY <1>2, Zenon DEF TypeOK
    <2> QED
      BY <1>9, <2>1, <2>2, Zenon
  <1>11. call[p].mem = 0
    BY <1>2, Zenon DEF CallOK
  <1>12. CallOK(p)'
    <2>1. /\ call'[p].op = "stack" /\ call'[p].newsz < KERNBASE /\ call'[p].mem = 0
          /\ pc'[p] = "kalloc" /\ state'[p] = "RUNNING"
      BY <1>2, <1>9, <1>10, <1>11, Zenon
    <2> QED
      BY <2>1, Zenon DEF CallOK
  <1>13. LoopOK(p)'
    BY <1>6, <1>7, <1>9, <1>10, Zenon DEF LoopOK
  <1>14. Local(p)
    <2>1. call'[p].op # "fork"
      BY <1>9, <1>10, Zenon
    <2> QED
      BY <1>2, <1>10, <2>1, Zenon DEF Local, TypeOK
  <1>15. Memory'
    <2>1. \A r \in Slot : Keeps(r)
      BY <1>2, <1>9, <1>10, Zenon DEF Keeps
    <2> QED
      BY <1>2, <2>1, SameMemory, Zenon
  <1> QED
    BY <1>2, <1>12, <1>13, <1>14, <1>15, LocalStep, Zenon DEF VmInv

\* exec() fails and gives back the address space it was building.
LEMMA ExecBadInv ==
    ASSUME VmInv, NEW p \in Slot, exec_bad(p)
    PROVE  VmInv'
  <1>1. /\ OutOfMemory(p) \/ (at(p, "kalloc") /\ ~More(p))
        /\ freelist' = freelist \cup ((Pages(call[p].d) \cup {call[p].mem}) \ {0}) /\ return(p)
        /\ UNCHANGED <<state, kstack, pgdir, sz, panicked>>
        /\ TypeOK /\ Calls /\ Memory
    BY Zenon DEF exec_bad, kfree, VmInv, Calls
  <1>2. state[p] = "RUNNING"
    BY <1>1, Zenon DEF OutOfMemory, at
  <1>3. call'[p] = NoCall /\ \A q \in Slot \ {p} : call'[q] = call[q]
    BY <1>1, Returns, Zenon
  <1>4. call'[p].d = NoDir /\ call'[p].mem = 0 /\ Pages(NoDir) = {} /\ NoDup(NoDir)
    BY <1>3, NoCallIs, Indices, Zenon
  <1>5. Partition(Pools', freelist')
    <2>1. PICK S : S = (Pages(call[p].d) \cup {call[p].mem}) \ {0}
      BY Zenon
    <2>2. Shrinks(p)
      BY <1>1, <1>4, Zenon DEF Shrinks
    <2>3. \A q \in Slot \ {p} : Shrinks(q)
      BY <1>1, <1>3, Zenon DEF Shrinks
    <2>4. ASSUME NEW n, NEW q \in Slot, Lost(q, n) PROVE n \in S
      <3>1. n \notin Pages(pgdir[q]) \ Pages(pgdir'[q])
        BY <1>1, Zenon
      <3>2. CASE n # 0 /\ n = kstack[q] /\ kstack'[q] = 0
        BY <1>1, <3>2, Zenon
      <3>3. CASE n # 0 /\ n = call[q].mem /\ call'[q].mem = 0
        BY <1>3, <2>1, <3>3, Zenon
      <3>4. CASE n \in Pages(call[q].d) \ Pages(call'[q].d)
        <4>1. q = p
          BY <1>3, <3>4, Zenon
        <4>2. n # 0
          BY <3>4, PagesAre, Zenon
        <4> QED
          BY <2>1, <3>4, <4>1, <4>2, Zenon
      <3> QED
        BY <2>4, <3>1, <3>2, <3>3, <3>4, Zenon DEF Lost
    <2>5. ASSUME NEW n \in S PROVE Lost(p, n)
      BY <1>4, <2>1, <2>5, Zenon DEF Lost
    <2>6. freelist' = freelist \cup S
      BY <1>1, <2>1, Zenon
    <2> QED
      BY <1>1, <2>2, <2>3, <2>4, <2>5, <2>6, Releases, Zenon
  <1>6. Memory'
    <2>1. \A q \in Slot : NoDup(pgdir'[q]) /\ NoDup(call'[q].d)
      BY <1>1, <1>3, <1>4, Zenon DEF Memory
    <2> QED
      BY <1>5, <2>1, NewMemory, Zenon
  <1>7. Calls'
    <2>1. /\ freelist' \subseteq Page /\ sz' \in [Slot -> 0..KERNBASE-1] /\ pgdir' \in [Slot -> Dir]
          /\ \A q \in Slot \ {p} : pgdir'[q] = pgdir[q]
      BY <1>1, <1>5, Zenon DEF Partition, TypeOK
    <2> QED
      BY <1>1, <1>2, <2>1, LocalReturn, Zenon
  <1> QED
    BY <1>6, <1>7, Zenon DEF VmInv

\* exec() commits to the new address space and frees the old one.
LEMMA ExecCommitInv ==
    ASSUME VmInv, NEW p \in Slot, exec_commit(p)
    PROVE  VmInv'
  <1>1. /\ pc[p] = "kalloc" /\ state[p] = "RUNNING" /\ call[p].op = "stack" /\ return(p)
        /\ freelist' = freelist \cup Pages(pgdir[p])
        /\ pgdir' = [pgdir EXCEPT ![p] = call[p].d]
        /\ sz' = [sz EXCEPT ![p] = call[p].newsz]
        /\ UNCHANGED <<state, kstack, panicked>>
        /\ TypeOK /\ CallOK(p) /\ Calls /\ Memory
    BY Zenon DEF exec_commit, kfree, at, VmInv, Calls
  <1>2. call[p].mem = 0 /\ call[p].newsz < KERNBASE
    BY <1>1, Zenon DEF CallOK
  <1>3. call'[p] = NoCall /\ \A q \in Slot \ {p} : call'[q] = call[q]
    BY <1>1, Returns, Zenon
  <1>4. call'[p].d = NoDir /\ call'[p].mem = 0 /\ Pages(NoDir) = {} /\ NoDup(NoDir)
    BY <1>3, NoCallIs, Indices, Zenon
  <1>5. call[p].d \in Dir /\ call[p].newsz \in 0..UINT
    BY <1>1, Zenon DEF TypeOK, Call
  <1>6. /\ pgdir'[p] = call[p].d /\ pgdir' \in [Slot -> Dir]
        /\ \A r \in Slot \ {p} : pgdir'[r] = pgdir[r]
    <2>1. pgdir \in [Slot -> Dir]
      BY <1>1, Zenon DEF TypeOK
    <2> QED
      BY <1>1, <1>5, <2>1, Zenon
  <1>7. sz' \in [Slot -> 0..KERNBASE-1]
    <2>1. call[p].newsz \in 0..KERNBASE-1
      BY <1>2, <1>5, VmAssumption DEF UINT
    <2>2. sz \in [Slot -> 0..KERNBASE-1]
      BY <1>1, Zenon DEF TypeOK
    <2> QED
      BY <1>1, <2>1, <2>2, Zenon
  <1>8. Partition(Pools', freelist')
    <2>1. /\ Pools[<<p, "kstack">>] = {kstack[p]} \ {0} /\ Pools[<<p, "pgdir">>] = Pages(pgdir[p])
          /\ Pools[<<p, "d">>] = Pages(call[p].d) /\ Pools[<<p, "mem">>] = {call[p].mem} \ {0}
      BY PoolsAre, Zenon
    <2>2. /\ Pools'[<<p, "kstack">>] = {kstack'[p]} \ {0} /\ Pools'[<<p, "pgdir">>] = Pages(pgdir'[p])
          /\ Pools'[<<p, "d">>] = Pages(call'[p].d) /\ Pools'[<<p, "mem">>] = {call'[p].mem} \ {0}
      BY PoolsWillBe, Zenon
    <2>3. PICK h : h = [x \in Owner |-> IF x = <<p, "pgdir">> THEN {} ELSE Pools[x]]
      BY Zenon
    <2>4. <<p, "pgdir">> \in Owner /\ <<p, "d">> \in Owner /\ <<p, "pgdir">> # <<p, "d">>
      BY OwnersAre, Zenon
    <2>5. h[<<p, "pgdir">>] = {} /\ \A x \in Owner \ {<<p, "pgdir">>} : h[x] = Pools[x]
      BY <2>3, <2>4, Zenon
    <2>6. Partition(h, freelist \cup Pages(pgdir[p]))
      <3>1. Partition(Pools, freelist)
        BY <1>1, Zenon DEF Memory
      <3>2. \A x \in Owner : h[x] \subseteq Pools[x]
        BY <2>5, Zenon
      <3>3. ASSUME NEW n PROVE n \in Pages(pgdir[p]) <=> \E x \in Owner : n \in Pools[x] \ h[x]
        BY <2>1, <2>4, <2>5, Zenon
      <3> QED
        BY <3>1, <3>2, <3>3, Frees, Zenon
    <2>7. Pools'[<<p, "d">>] = {}
      BY <1>4, <2>2, Zenon
    <2>8. Pools'[<<p, "pgdir">>] = h[<<p, "pgdir">>] \cup h[<<p, "d">>]
      <3>1. Pools'[<<p, "pgdir">>] = h[<<p, "d">>]
        BY <1>6, <2>1, <2>2, <2>4, <2>5, Zenon
      <3> QED
        BY <2>5, <3>1, Zenon
    <2>9. ASSUME NEW x \in Owner \ {<<p, "d">>, <<p, "pgdir">>} PROVE Pools'[x] = h[x]
      <3>1. \A r \in Slot \ {p} : Keeps(r)
        BY <1>1, <1>3, <1>6, Zenon DEF Keeps
      <3>2. Pools'[<<p, "kstack">>] = Pools[<<p, "kstack">>]
        BY <1>1, <2>1, <2>2, Zenon
      <3>3. Pools'[<<p, "mem">>] = Pools[<<p, "mem">>]
        BY <1>2, <1>4, <2>1, <2>2, Zenon
      <3>4. \A l \in {"kstack", "pgdir", "d", "mem"} : x = <<p, l>> => Pools'[<<p, l>>] = Pools[<<p, l>>]
        BY <3>2, <3>3, Zenon
      <3>5. Pools'[x] = Pools[x]
        BY <3>1, <3>4, OnlyOwners, Zenon
      <3> QED
        BY <2>5, <3>5, Zenon
    <2>10. Partition(Pools', freelist \cup Pages(pgdir[p]))
      BY <2>4, <2>6, <2>7, <2>8, <2>9, MovesTo, Zenon
    <2> QED
      BY <1>1, <2>10, Zenon
  <1>9. Memory'
    <2>1. \A q \in Slot : NoDup(pgdir'[q]) /\ NoDup(call'[q].d)
      BY <1>1, <1>3, <1>4, <1>6, Zenon DEF Memory
    <2> QED
      BY <1>8, <2>1, NewMemory, Zenon
  <1>10. Calls'
    <2>1. freelist' \subseteq Page
      BY <1>8, Zenon DEF Partition
    <2> QED
      BY <1>1, <1>6, <1>7, <2>1, LocalReturn, Zenon
  <1> QED
    BY <1>9, <1>10, Zenon DEF VmInv
-----------------------------------------------------------------------------
(* The invariant *)

\* The first process has five pages.
LEMMA InitInv ==
    ASSUME Init
    PROVE  VmInv
  <1>1. /\ NPAGE \in Nat /\ NPAGE >= 5 /\ First \in Slot /\ NPTE \in Nat \ {0}
        /\ PGSIZE \in Nat \ {0} /\ KERNBASE \in Nat \ {0} /\ PGSIZE < KERNBASE
    BY VmAssumption, Zenon
  <1>2. PICK d : d = [dir |-> 2, pt |-> [NoDir.pt EXCEPT ![KERNEL] = 3, ![0] = 4],
                      pte |-> [NoDir.pte EXCEPT ![0] = 5]]
    BY Zenon
  <1>3. pgdir = [p \in Slot |-> IF p = First THEN d ELSE NoDir] /\ call = [p \in Slot |-> NoCall]
    BY <1>2, Zenon DEF Init
  <1>4. KERNEL \in Table /\ 0 \in Table /\ KERNEL # 0 /\ 0 \in VPage
    <2>1. KERNEL \in Table /\ 0 \in VPage /\ PDX(0) \in Table
      BY Indices, Zenon
    <2>2. PDX(0) = 0
      BY <1>1 DEF PDX
    <2>3. KERNEL # 0
      <3>1. KERNBASE \div PGSIZE \in Nat
        BY <1>1
      <3>2. PDX(KERNBASE \div PGSIZE) \in Nat
        BY <1>1, <3>1 DEF PDX
      <3> QED
        BY <3>2 DEF KERNEL
    <2> QED
      BY <2>1, <2>2, <2>3, Zenon
  <1>5. /\ d.dir = 2 /\ d.pt[KERNEL] = 3 /\ d.pt[0] = 4 /\ \A t \in Table \ {KERNEL, 0} : d.pt[t] = 0
        /\ d.pte[0] = 5 /\ \A v \in VPage \ {0} : d.pte[v] = 0
    BY <1>2, <1>4, Zenon DEF NoDir
  <1>6. d \in Dir
    <2>1. {0, 2, 3, 4, 5} \subseteq 0..NPAGE
      BY <1>1
    <2>2. NoDir.pt \in [Table -> {0}] /\ NoDir.pte \in [VPage -> {0}]
      BY Zenon DEF NoDir
    <2>3. d.pt \in [Table -> 0..NPAGE] /\ d.pte \in [VPage -> 0..NPAGE]
      BY <1>2, <2>1, <2>2, Zenon
    <2> QED
      BY <1>2, <2>1, <2>3, Zenon DEF Dir
  <1>7. NoDir \in Dir /\ Pages(NoDir) = {} /\ NoDup(NoDir)
    BY Indices, Zenon
  <1>8. NoDup(d)
    <2>1. \A t \in Table : d.pt[t] # 0 => (t = KERNEL /\ d.pt[t] = 3) \/ (t = 0 /\ d.pt[t] = 4)
      BY <1>5, Zenon
    <2>2. \A v \in VPage : d.pte[v] # 0 => v = 0 /\ d.pte[v] = 5
      BY <1>5, Zenon
    <2> QED
      BY <1>5, <2>1, <2>2 DEF NoDup
  <1>9. Pages(d) = {2, 3, 4, 5}
    <2>1. ASSUME NEW n \in Pages(d) PROVE n \in {2, 3, 4, 5}
      <3>1. n # 0 /\ (n = d.dir \/ (\E t \in Table : n = d.pt[t]) \/ \E v \in VPage : n = d.pte[v])
        BY PagesAre, Zenon
      <3>2. \A t \in Table : d.pt[t] \in {0, 3, 4}
        BY <1>5, Zenon
      <3>3. \A v \in VPage : d.pte[v] \in {0, 5}
        BY <1>5, Zenon
      <3> QED
        BY <1>5, <3>1, <3>2, <3>3, Zenon
    <2>2. \A n \in {2, 3, 4, 5} : n # 0
      OBVIOUS
    <2>3. \A n \in {2, 3, 4, 5} : n \in Pages(d)
      BY <1>4, <1>5, <2>2, PagesAre, ZenonT(30)
    <2> QED
      BY <2>1, <2>3, Zenon
  <1>10. TypeOK
    <2>1. freelist \subseteq Page
      BY DEF Init, Page
    <2>2. state \in [Slot -> {"UNUSED", "EMBRYO", "RUNNING", "ZOMBIE"}]
      BY Zenon DEF Init
    <2>3. kstack \in [Slot -> 0..NPAGE]
      BY <1>1 DEF Init
    <2>4. pgdir \in [Slot -> Dir]
      BY <1>3, <1>6, <1>7, Zenon
    <2>5. sz \in [Slot -> 0..KERNBASE-1]
      BY <1>1 DEF Init
    <2>6. pc \in [Slot -> {"out", "kstack", "setupkvm", "kmap", "kalloc", "mappages"}]
      BY Zenon DEF Init
    <2>7. call \in [Slot -> Call]
      BY <1>3, NoCallIs, Zenon
    <2>8. panicked \in BOOLEAN
      BY Zenon DEF Init
    <2> QED
      BY <2>1, <2>2, <2>3, <2>4, <2>5, <2>6, <2>7, <2>8, Zenon DEF TypeOK
  <1>11. ASSUME NEW p \in Slot PROVE CallOK(p) /\ LoopOK(p)
    <2>1. /\ call[p] = NoCall /\ call[p].op = "none" /\ call[p].mem = 0 /\ call[p].a = 0
          /\ call[p].newsz = 0 /\ pc[p] = "out"
      BY <1>3, NoCallIs, Zenon DEF Init
    <2>2. CallOK(p)
      BY <2>1, Zenon DEF CallOK
    <2>3. 0 = 0 * PGSIZE /\ 0 < 0 + PGSIZE
      BY <1>1
    <2>4. LoopOK(p)
      BY <2>1, <2>3, Zenon DEF LoopOK
    <2> QED
      BY <2>2, <2>4, Zenon
  <1>12. ASSUME NEW p \in Slot PROVE SlotOK(p)
    <2>1. CASE p = First
      <3>1. state[p] = "RUNNING" /\ kstack[p] = 1
        BY <2>1, Zenon DEF Init
      <3> QED
        BY <3>1 DEF SlotOK
    <2>2. CASE p # First
      <3>1. state[p] = "UNUSED" /\ kstack[p] = 0 /\ pgdir[p] = NoDir
        BY <1>3, <2>2, Zenon DEF Init
      <3> QED
        BY <3>1, Zenon DEF SlotOK
    <2> QED
      BY <2>1, <2>2, Zenon
  <1>13. Calls
    <2>1. \A p \in Slot : call[p].op # "fork"
      BY <1>3, NoCallIs, Zenon
    <2> QED
      BY <1>10, <1>11, <1>12, <2>1, Zenon DEF Calls
  <1>14. Partition(Pools, freelist)
    <2>1. /\ Pools[<<First, "kstack">>] = {1} /\ Pools[<<First, "pgdir">>] = {2, 3, 4, 5}
      <3>1. kstack[First] = 1 /\ pgdir[First] = d
        BY <1>1, <1>3, Zenon DEF Init
      <3>2. {1} \ {0} = {1}
        OBVIOUS
      <3>3. Pools[<<First, "kstack">>] = {kstack[First]} \ {0} /\ Pools[<<First, "pgdir">>] = Pages(pgdir[First])
        BY <1>1, PoolsAre, Zenon
      <3> QED
        BY <1>9, <3>1, <3>2, <3>3, Zenon
    <2>2. ASSUME NEW x \in Owner \ {<<First, "kstack">>, <<First, "pgdir">>} PROVE Pools[x] = {}
      <3>1. PICK p \in Slot : x \in {<<p, "kstack">>, <<p, "pgdir">>, <<p, "d">>, <<p, "mem">>}
        BY OwnersAre, Zenon
      <3>2. /\ Pools[<<p, "kstack">>] = {kstack[p]} \ {0} /\ Pools[<<p, "pgdir">>] = Pages(pgdir[p])
            /\ Pools[<<p, "d">>] = Pages(call[p].d) /\ Pools[<<p, "mem">>] = {call[p].mem} \ {0}
        BY PoolsAre, Zenon
      <3>3. call[p].d = NoDir /\ call[p].mem = 0 /\ {0} \ {0} = {}
        BY <1>3, NoCallIs, Zenon
      <3>4. Pools[<<p, "d">>] = {} /\ Pools[<<p, "mem">>] = {}
        BY <1>7, <3>2, <3>3, Zenon
      <3>5. CASE p = First
        BY <3>1, <3>4, <3>5, Zenon
      <3>6. CASE p # First
        <4>1. kstack[p] = 0 /\ pgdir[p] = NoDir
          BY <1>3, <3>6, Zenon DEF Init
        <4>2. Pools[<<p, "kstack">>] = {} /\ Pools[<<p, "pgdir">>] = {}
          BY <1>7, <3>2, <3>3, <4>1, Zenon
        <4> QED
          BY <3>1, <3>4, <4>2, Zenon
      <3> QED
        BY <3>5, <3>6, Zenon
    <2>3. /\ {1} \subseteq Page /\ {2, 3, 4, 5} \subseteq Page /\ freelist \subseteq Page
          /\ \A m \in Page : m \notin freelist => m \in {1} \cup {2, 3, 4, 5}
          /\ {1} \cap freelist = {} /\ {2, 3, 4, 5} \cap freelist = {} /\ {1} \cap {2, 3, 4, 5} = {}
      BY <1>1, SMTT(30) DEF Init, Page
    <2>4. PICK a \in Owner, b \in Owner : /\ Pools[a] = {1} /\ Pools[b] = {2, 3, 4, 5}
                                         /\ \A x \in Owner \ {a, b} : Pools[x] = {}
      <3>1. <<First, "kstack">> \in Owner /\ <<First, "pgdir">> \in Owner
        BY <1>1, OwnersAre, Zenon
      <3> QED
        BY <2>1, <2>2, <3>1, Zenon
    <2>5. ASSUME NEW x \in Owner PROVE Pools[x] \subseteq Page /\ Pools[x] \cap freelist = {}
      <3>1. CASE x = a
        BY <2>3, <2>4, <3>1, Zenon
      <3>2. CASE x = b
        BY <2>3, <2>4, <3>2, Zenon
      <3>3. CASE x \notin {a, b}
        BY <2>4, <3>3, Zenon
      <3> QED
        BY <3>1, <3>2, <3>3, Zenon
    <2>6. ASSUME NEW m \in Page, m \notin freelist PROVE \E x \in Owner : m \in Pools[x]
      <3>1. m \in {1} \/ m \in {2, 3, 4, 5}
        BY <2>3, <2>6, Zenon
      <3>2. m \in Pools[a] \/ m \in Pools[b]
        BY <2>4, <3>1, Zenon
      <3> QED
        BY <2>4, <3>2, Zenon
    <2>7. ASSUME NEW x \in Owner, NEW y \in Owner, x # y PROVE Pools[x] \cap Pools[y] = {}
      <3>1. CASE x \notin {a, b} \/ y \notin {a, b}
        BY <2>4, <3>1, Zenon
      <3>2. CASE x = a /\ y = b
        BY <2>3, <2>4, <3>2, Zenon
      <3>3. CASE x = b /\ y = a
        BY <2>3, <2>4, <3>3, Zenon
      <3>4. CASE x = a /\ y \in {a, b}
        BY <2>7, <3>2, <3>4, Zenon
      <3>5. CASE x = b /\ y \in {a, b}
        BY <2>7, <3>3, <3>5, Zenon
      <3> QED
        BY <3>1, <3>4, <3>5, Zenon
    <2> QED
      BY <2>3, <2>5, <2>6, <2>7, Zenon DEF Partition
  <1>15. \A p \in Slot : NoDup(pgdir[p]) /\ NoDup(call[p].d)
    <2>1. NoCall.d = NoDir
      BY NoCallIs, Zenon
    <2> QED
      BY <1>3, <1>7, <1>8, <2>1, Zenon
  <1> QED
    BY <1>13, <1>14, <1>15, Zenon DEF VmInv, Memory

\* Every step keeps the invariant.
LEMMA NextInv ==
    ASSUME VmInv, [Next]_vars
    PROVE  VmInv'
  <1>1. CASE UNCHANGED vars
    <2>1. UNCHANGED <<freelist, state, kstack, pgdir, sz, pc, call>> /\ panicked' \in BOOLEAN
      BY <1>1, Zenon DEF vars, VmInv, Calls, TypeOK
    <2> QED
      BY <2>1, PanicInv, Zenon
  <1>2. CASE \E p \in Slot : setupkvm(p) \/ kmap(p) \/ loop_kalloc(p) \/ mappages(p)
    BY <1>2, SetupkvmInv, KmapInv, LoopKallocInv, MappagesInv, Zenon
  <1>3. CASE \E p \in Slot : sbrk_done(p) \/ sbrk_fails(p)
    BY <1>3, SbrkDoneInv, SbrkFailsInv, Zenon
  <1>4. CASE \E p \in Slot : fork(p) \/ fork_kstack(p) \/ fork_done(p) \/ fork_fails(p) \/ exit(p)
    BY <1>4, ForkInv, ForkKstackInv, ForkDoneInv, ForkFailsInv, ExitInv, Zenon
  <1>5. CASE \E p \in Slot : exec(p) \/ exec_stack(p) \/ exec_commit(p) \/ exec_bad(p)
    BY <1>5, ExecInv, ExecStackInv, ExecCommitInv, ExecBadInv, Zenon
  <1>6. CASE \E p \in Slot, n \in Deltas : sbrk_grow(p, n) \/ sbrk_shrink(p, n)
    BY <1>6, SbrkGrowInv, SbrkShrinkInv, Zenon
  <1>7. CASE \E p, q \in Slot : wait(q, p)
    BY <1>7, WaitInv, Zenon
  <1> QED
    BY <1>1, <1>2, <1>3, <1>4, <1>5, <1>6, <1>7, Zenon DEF Next

\* The inductive invariant of kalloc.c and vm.c: what a call has allocated is
\* its own, up to the step in which it gives it away.
THEOREM VmInvHolds == Spec => []VmInv
  <1>1. Init => VmInv
    BY InitInv, Zenon
  <1>2. VmInv /\ [Next]_vars => VmInv'
    BY NextInv, Zenon
  <1> QED
    BY <1>1, <1>2, PTL DEF Spec
-----------------------------------------------------------------------------
(* The sizes *)

\* The numbers of a slot.
LEMMA Numbers ==
    ASSUME TypeOK, NEW p \in Slot
    PROVE  /\ sz[p] \in Nat /\ sz[p] < KERNBASE
           /\ call[p].a \in Nat /\ call[p].newsz \in Nat
  <1>1. call[p] \in Call /\ sz[p] \in 0..KERNBASE-1
    BY Zenon DEF TypeOK
  <1>2. KERNBASE \in Nat /\ UINT \in Nat
    BY VmAssumption DEF UINT
  <1> QED
    BY <1>1, <1>2 DEF Call

\* The loop stops at the first beginning of a page that is not below newsz.
LEMMA LoopEnds ==
    ASSUME NEW d, NEW n \in Nat, NEW a \in Nat, NEW k \in Nat, a = k * PGSIZE,
           n <= a, a < n + PGSIZE
    PROVE  Mapped(d, a) <=> Mapped(d, n)
  <1>1. \A v \in VPage : v * PGSIZE < a <=> v * PGSIZE < n
    BY Below, Zenon
  <1> QED
    BY <1>1, Zenon DEF Mapped

\* Rounding a size up maps no more pages.
LEMMA Rounded ==
    ASSUME NEW d, NEW n \in Nat
    PROVE  Mapped(d, PGROUNDUP(n)) <=> Mapped(d, n)
  <1>1. PICK k \in Nat : PGROUNDUP(n) = k * PGSIZE
    BY RoundUp, Zenon
  <1>2. n <= PGROUNDUP(n) /\ PGROUNDUP(n) < n + PGSIZE
    BY RoundUp, Zenon
  <1>3. k * PGSIZE \in Nat
    BY VmAssumption
  <1> QED
    BY <1>1, <1>2, <1>3, LoopEnds, Zenon

\* mappages() maps the next page.
LEMMA MapsNext ==
    ASSUME NEW d, NEW e, NEW k \in VPage, Mapped(d, k * PGSIZE), e.pte[k] # 0,
           \A w \in VPage \ {k} : e.pte[w] = d.pte[w]
    PROVE  Mapped(e, (k + 1) * PGSIZE)
  <1>1. PGSIZE \in Nat \ {0} /\ VPage \subseteq Int
    BY VmAssumption DEF VPage
  <1>2. ASSUME NEW v \in VPage PROVE e.pte[v] # 0 <=> v * PGSIZE < (k + 1) * PGSIZE
    <2>1. v \in Int /\ k \in Int /\ k + 1 \in Int
      BY <1>1
    <2>2. v * PGSIZE < (k + 1) * PGSIZE <=> v < k + 1
      BY <1>1, <2>1, Steps, Zenon
    <2>3. v * PGSIZE < k * PGSIZE <=> v < k
      BY <1>1, <2>1, Steps, Zenon
    <2>4. CASE v = k
      BY <2>1, <2>2, <2>4
    <2>5. CASE v # k
      <3>1. v < k + 1 <=> v < k
        BY <2>1, <2>5
      <3>2. e.pte[v] # 0 <=> v * PGSIZE < k * PGSIZE
        BY <2>5, Zenon DEF Mapped
      <3> QED
        BY <2>2, <2>3, <3>1, <3>2, Zenon
    <2> QED
      BY <2>4, <2>5, Zenon
  <1> QED
    BY <1>2, Zenon DEF Mapped

\* A slot that nothing touches stays as it is.
Same(q) ==
    call'[q] = call[q] /\ pgdir'[q] = pgdir[q] /\ sz'[q] = sz[q] /\ state'[q] = state[q]

\* A step that touches one slot has to be looked at there only.
LEMMA SizeStep ==
    ASSUME SizeInv, panicked' = panicked, NEW p \in Slot, \A q \in Slot \ {p} : Same(q), Sized(p)'
    PROVE  SizeInv'
  <1>1. ASSUME NEW q \in Slot \ {p} PROVE Sized(q)'
    <2>1. Sized(q) /\ Same(q)
      BY Zenon DEF SizeInv
    <2> QED
      BY <2>1, Zenon DEF Sized, Same
  <1>2. \A q \in Slot : Sized(q)'
    BY <1>1, Zenon
  <1> QED
    BY <1>2, Zenon DEF SizeInv

\* A call goes on without mapping a user page.
LEMMA SizedOn ==
    ASSUME NEW p \in Slot, Sized(p), pgdir'[p] = pgdir[p], sz'[p] = sz[p], state'[p] = state[p],
           call'[p].op = call[p].op, call'[p].a = call[p].a, call'[p].newsz = call[p].newsz,
           call'[p].d.pte = call[p].d.pte
    PROVE  Sized(p)'
  <1>1. ASSUME Mapped(call[p].d, call[p].a) PROVE Mapped(call'[p].d, call'[p].a)
    BY <1>1, Zenon DEF Mapped
  <1> QED
    BY <1>1, Zenon DEF Sized

\* A process is outside of its calls, with what belongs to its size.
LEMMA SizedOut ==
    ASSUME NEW p \in Slot, call'[p].op = "none",
           state'[p] \in {"RUNNING", "ZOMBIE"} => Mapped(pgdir'[p], sz'[p])
    PROVE  Sized(p)'
  <1>1. ~(call'[p].op = "fork") /\ ~(call'[p].op = "sbrk") /\ call'[p].op \notin {"fork", "exec", "stack"}
    OBVIOUS
  <1> QED
    BY <1>1, Zenon DEF Sized

\* setupkvm() and kmap() map no user page.
LEMMA SetupkvmSize ==
    ASSUME VmInv, SizeInv, NEW p \in Slot, setupkvm(p) \/ kmap(p)
    PROVE  SizeInv'
  <1>1. TypeOK /\ Sized(p) /\ call[p] \in Call /\ UNCHANGED <<state, pgdir, sz, panicked>>
    BY Zenon DEF VmInv, Calls, TypeOK, SizeInv, setupkvm, kmap
  <1>2. PICK c : /\ call' = [call EXCEPT ![p] = c]
                 /\ c.op = call[p].op /\ c.a = call[p].a /\ c.newsz = call[p].newsz
                 /\ c.d.pte = call[p].d.pte
    <2>1. PICK m \in Page : \/ call' = [call EXCEPT ![p].d.dir = m]
                            \/ call' = [call EXCEPT ![p].d.pt[KERNEL] = m]
      BY Zenon DEF setupkvm, kmap
    <2>2. CASE call' = [call EXCEPT ![p].d.dir = m]
      <3>1. PICK c : c = [call[p] EXCEPT !.d.dir = m]
        BY Zenon
      <3>2. /\ c.op = call[p].op /\ c.a = call[p].a /\ c.newsz = call[p].newsz
            /\ c.d.pte = call[p].d.pte
        BY <1>1, <3>1, Zenon DEF Call, Dir
      <3>3. call' = [call EXCEPT ![p] = c]
        BY <2>2, <3>1, Zenon
      <3> QED
        BY <3>2, <3>3, Zenon
    <2>3. CASE call' = [call EXCEPT ![p].d.pt[KERNEL] = m]
      <3>1. PICK c : c = [call[p] EXCEPT !.d.pt[KERNEL] = m]
        BY Zenon
      <3>2. /\ c.op = call[p].op /\ c.a = call[p].a /\ c.newsz = call[p].newsz
            /\ c.d.pte = call[p].d.pte
        BY <1>1, <3>1, Zenon DEF Call, Dir
      <3>3. call' = [call EXCEPT ![p] = c]
        BY <2>3, <3>1, Zenon
      <3> QED
        BY <3>2, <3>3, Zenon
    <2> QED
      BY <2>1, <2>2, <2>3, Zenon
  <1>3. call'[p] = c /\ \A q \in Slot \ {p} : call'[q] = call[q]
    BY <1>1, <1>2, Zenon DEF TypeOK
  <1>4. Sized(p)'
    BY <1>1, <1>2, <1>3, SizedOn, Zenon
  <1>5. \A q \in Slot \ {p} : Same(q)
    BY <1>1, <1>3, Zenon DEF Same
  <1> QED
    BY <1>1, <1>4, <1>5, SizeStep, Zenon

\* The page that fork() is to copy is there, as it is below the size: no
\* panic("copyuvm: page not present").
LEMMA LoopKallocSize ==
    ASSUME VmInv, SizeInv, NEW p \in Slot, loop_kalloc(p)
    PROVE  SizeInv'
  <1>1. /\ TypeOK /\ Calls /\ Sized(p) /\ call[p] \in Call /\ state[p] = "RUNNING" /\ More(p)
        /\ UNCHANGED <<state, pgdir, sz>>
    BY Zenon DEF VmInv, Calls, TypeOK, SizeInv, loop_kalloc, at
  <1>2. ~(call[p].op = "fork" /\ pgdir[p].pte[call[p].a \div PGSIZE] = 0)
    <2> SUFFICES ASSUME call[p].op = "fork", pgdir[p].pte[call[p].a \div PGSIZE] = 0 PROVE FALSE
      BY Zenon
    <2>1. PICK k \in VPage : call[p].a = k * PGSIZE /\ call[p].a \div PGSIZE = k
      BY <1>1, LoopPage, Zenon
    <2>2. Mapped(pgdir[p], sz[p]) /\ call[p].newsz = sz[p]
      BY <1>1, Zenon DEF Sized
    <2>3. k * PGSIZE < sz[p]
      BY <1>1, <2>1, <2>2, Zenon DEF More
    <2> QED
      BY <2>1, <2>2, <2>3, Zenon DEF Mapped
  <1>3. PICK m : call' = [call EXCEPT ![p].mem = m] /\ panicked' = panicked
    BY <1>2, Zenon DEF loop_kalloc
  <1>4. PICK c : c = [call[p] EXCEPT !.mem = m]
    BY Zenon
  <1>5. c.op = call[p].op /\ c.a = call[p].a /\ c.newsz = call[p].newsz /\ c.d = call[p].d
    BY <1>1, <1>4, Zenon DEF Call
  <1>6. call'[p] = c /\ \A q \in Slot \ {p} : call'[q] = call[q]
    <2>1. call' = [call EXCEPT ![p] = c]
      BY <1>3, <1>4, Zenon
    <2> QED
      BY <1>1, <2>1, Zenon DEF TypeOK
  <1>7. Sized(p)'
    BY <1>1, <1>5, <1>6, SizedOn, Zenon
  <1>8. \A q \in Slot \ {p} : Same(q)
    BY <1>1, <1>6, Zenon DEF Same
  <1> QED
    BY <1>1, <1>3, <1>7, <1>8, SizeStep, Zenon

\* mappages() finds nothing mapped where the loop is: no panic("remap").
LEMMA MappagesSize ==
    ASSUME VmInv, SizeInv, NEW p \in Slot, mappages(p)
    PROVE  SizeInv'
  <1>1. /\ TypeOK /\ Calls /\ CallOK(p) /\ Sized(p) /\ call[p] \in Call /\ pgdir[p] \in Dir
        /\ pc[p] = "mappages" /\ state[p] = "RUNNING" /\ UNCHANGED <<state, sz>>
    BY Zenon DEF VmInv, Calls, TypeOK, SizeInv, mappages, at
  <1>2. /\ call[p].op # "none" /\ call[p].mem # 0 /\ More(p)
    BY <1>1, Zenon DEF CallOK
  <1>3. PICK k \in VPage : /\ call[p].a = k * PGSIZE /\ call[p].a \div PGSIZE = k
                           /\ call[p].a + PGSIZE = (k + 1) * PGSIZE
                           /\ call[p].a + PGSIZE \in 0..UINT
    BY <1>1, <1>2, LoopPage, Zenon
  <1>4. PICK d \in Dir : d = Target(p)
    <2>1. call[p].d \in Dir
      BY <1>1, Zenon DEF Call
    <2> QED
      BY <1>1, <2>1, Zenon DEF Target
  <1>5. Mapped(d, k * PGSIZE)
    <2>1. call[p].op \in {"sbrk", "fork", "exec", "stack"}
      BY <1>1, <1>2, Zenon DEF Call
    <2>2. Mapped(d, call[p].a)
      BY <1>1, <1>4, <2>1, Zenon DEF Sized, Target
    <2> QED
      BY <1>3, <2>2, Zenon
  <1>6. d.pte[k] = 0
    <2>1. ~(k * PGSIZE < k * PGSIZE)
      BY VmAssumption DEF VPage
    <2> QED
      BY <1>5, <2>1, Zenon DEF Mapped
  <1>7. PICK m \in 0..NPAGE : mapped(p, m) /\ panicked' = panicked
    <2>1. \/ mapped(p, pgtab(p)) /\ panicked' = panicked
          \/ \E m \in Page : mapped(p, m) /\ panicked' = panicked
      BY <1>3, <1>4, <1>6, Zenon DEF mappages
    <2>2. pgtab(p) \in 0..NPAGE
      <3>1. PDX(k) \in Table /\ pgtab(p) = d.pt[PDX(k)]
        BY <1>3, <1>4, Indices, Zenon DEF pgtab
      <3> QED
        BY <3>1, Zenon DEF Dir
    <2>3. Page \subseteq 0..NPAGE
      BY VmAssumption DEF Page
    <2> QED
      BY <2>1, <2>2, <2>3, Zenon
  <1>8. PICK e : e = With(d, k, call[p].mem, m)
    BY Zenon
  <1>9. e \in Dir /\ e.pte[k] = call[p].mem /\ \A w \in VPage \ {k} : e.pte[w] = d.pte[w]
    <2>1. call[p].mem \in 0..NPAGE /\ PDX(k) \in Table
      BY <1>1, Indices, Zenon DEF Call
    <2> QED
      BY <1>8, <2>1, Zenon DEF With, Dir
  <1>10. Mapped(e, (k + 1) * PGSIZE)
    BY <1>2, <1>5, <1>9, MapsNext, Zenon
  <1>11. /\ \A q \in Slot \ {p} : call'[q] = call[q] /\ pgdir'[q] = pgdir[q]
         /\ call'[p].op = call[p].op /\ call'[p].newsz = call[p].newsz
         /\ call'[p].a = call[p].a + PGSIZE
         /\ IF call[p].op = "sbrk" THEN pgdir'[p] = e ELSE call'[p].d = e /\ pgdir'[p] = pgdir[p]
    <2>1. e = With(Target(p), call[p].a \div PGSIZE, call[p].mem, m)
      BY <1>3, <1>4, <1>8, Zenon
    <2> QED
      BY <1>1, <1>3, <1>7, <1>9, <2>1, MappedDoes, Zenon
  <1>12. Sized(p)'
    <2>1. call'[p].a = (k + 1) * PGSIZE
      BY <1>3, <1>11, Zenon
    <2>2. PGROUNDUP(sz[p]) <= call[p].a => PGROUNDUP(sz[p]) <= call'[p].a
      <3>1. PICK j \in Nat : PGROUNDUP(sz[p]) = j * PGSIZE
        BY <1>1, Numbers, RoundUp, Zenon
      <3>2. PGROUNDUP(sz[p]) \in Nat /\ PGSIZE \in Nat
        BY <3>1, VmAssumption
      <3>3. call[p].a \in Nat
        BY <1>1, Numbers, Zenon
      <3> QED
        BY <1>11, <3>2, <3>3
    <2>3. CASE call[p].op = "sbrk"
      <3>1. /\ Mapped(pgdir'[p], call'[p].a) /\ call'[p].op = "sbrk" /\ sz'[p] = sz[p]
            /\ PGROUNDUP(sz[p]) <= call'[p].a
        BY <1>1, <1>10, <1>11, <2>1, <2>2, <2>3, Zenon DEF Sized
      <3>2. PGROUNDUP(sz'[p]) <= call'[p].a
        BY <3>1, Zenon
      <3> QED
        BY <3>1, <3>2, Zenon DEF Sized
    <2>4. CASE call[p].op # "sbrk"
      <3>1. /\ Mapped(call'[p].d, call'[p].a) /\ call'[p].op # "sbrk"
            /\ pgdir'[p] = pgdir[p] /\ sz'[p] = sz[p] /\ state'[p] = state[p]
        BY <1>1, <1>10, <1>11, <2>1, <2>4, Zenon
      <3> QED
        BY <1>1, <1>11, <2>4, <3>1, Zenon DEF Sized
    <2> QED
      BY <2>3, <2>4, Zenon
  <1>13. \A q \in Slot \ {p} : Same(q)
    BY <1>1, <1>11, Zenon DEF Same
  <1> QED
    BY <1>7, <1>12, <1>13, SizeStep, Zenon

\* sbrk() grows from a size that is mapped.
LEMMA SbrkGrowSize ==
    ASSUME VmInv, SizeInv, NEW p \in Slot, NEW n \in Deltas, sbrk_grow(p, n)
    PROVE  SizeInv'
  <1>1. /\ TypeOK /\ CallOK(p) /\ Sized(p) /\ call[p] \in Call /\ state[p] = "RUNNING" /\ pc[p] = "out"
        /\ UNCHANGED <<state, pgdir, sz, panicked>>
    BY Zenon DEF VmInv, Calls, TypeOK, SizeInv, sbrk_grow, at
  <1>2. PICK a, m : a = PGROUNDUP(sz[p]) /\ m = sz[p] + n
    BY Zenon
  <1>3. PICK c : c = [call[p] EXCEPT !.op = "sbrk", !.a = a, !.newsz = m]
    BY Zenon
  <1>4. c.op = "sbrk" /\ c.a = a
    BY <1>1, <1>3, Zenon DEF Call
  <1>5. call'[p] = c /\ \A q \in Slot \ {p} : call'[q] = call[q]
    <2>1. call' = [call EXCEPT ![p].op = "sbrk", ![p].a = a, ![p].newsz = m]
      BY <1>2, Zenon DEF sbrk_grow
    <2>2. call' = [call EXCEPT ![p] = c]
      BY <1>3, <2>1, Zenon
    <2> QED
      BY <1>1, <2>2, Zenon DEF TypeOK
  <1>6. Mapped(pgdir[p], a)
    <2>1. call[p].op = "none"
      BY <1>1, Zenon DEF CallOK
    <2>2. Mapped(pgdir[p], sz[p])
      BY <1>1, <2>1, Zenon DEF Sized
    <2>3. sz[p] \in Nat
      BY <1>1, Numbers, Zenon
    <2> QED
      BY <1>2, <2>2, <2>3, Rounded, Zenon
  <1>7. Sized(p)'
    <2>1. PICK j \in Nat : a = j * PGSIZE
      BY <1>1, <1>2, Numbers, RoundUp, Zenon
    <2>2. a <= a
      BY <2>1, VmAssumption
    <2>3. /\ call'[p].op = "sbrk" /\ Mapped(pgdir'[p], call'[p].a) /\ PGROUNDUP(sz'[p]) <= call'[p].a
      BY <1>1, <1>2, <1>4, <1>5, <1>6, <2>2, Zenon
    <2> QED
      BY <2>3, Zenon DEF Sized
  <1>8. \A q \in Slot \ {p} : Same(q)
    BY <1>1, <1>5, Zenon DEF Same
  <1> QED
    BY <1>1, <1>7, <1>8, SizeStep, Zenon

\* At the end of the loop what is mapped is what the call was to map.
LEMMA LoopDone ==
    ASSUME Calls, NEW p \in Slot, NEW d, Mapped(d, call[p].a), ~More(p), call[p].newsz < KERNBASE
    PROVE  Mapped(d, call[p].newsz)
  <1>1. call[p].a \in Nat /\ call[p].newsz \in Nat
    BY Numbers, Zenon DEF Calls
  <1>2. PICK k \in Nat : call[p].a = k * PGSIZE
    BY Zenon DEF Calls, LoopOK
  <1>3. call[p].a < call[p].newsz + PGSIZE
    BY Zenon DEF Calls, LoopOK
  <1>4. call[p].newsz <= call[p].a
    BY <1>1 DEF More
  <1> QED
    BY <1>1, <1>2, <1>3, <1>4, LoopEnds, Zenon

\* sbrk() has grown the process to its new size.
LEMMA SbrkDoneSize ==
    ASSUME VmInv, SizeInv, NEW p \in Slot, sbrk_done(p)
    PROVE  SizeInv'
  <1>1. /\ TypeOK /\ Calls /\ CallOK(p) /\ Sized(p) /\ call[p].op = "sbrk" /\ ~More(p) /\ return(p)
        /\ sz' = [sz EXCEPT ![p] = call[p].newsz] /\ UNCHANGED <<state, pgdir, panicked>>
    BY Zenon DEF VmInv, Calls, SizeInv, sbrk_done
  <1>2. Mapped(pgdir[p], call[p].newsz)
    <2>1. call[p].newsz < KERNBASE /\ Mapped(pgdir[p], call[p].a)
      BY <1>1, Zenon DEF CallOK, Sized
    <2> QED
      BY <1>1, <2>1, LoopDone, Zenon
  <1>3. call'[p].op = "none" /\ \A q \in Slot \ {p} : call'[q] = call[q]
    BY <1>1, Returns, NoCallIs, Zenon
  <1>4. sz'[p] = call[p].newsz /\ \A q \in Slot \ {p} : sz'[q] = sz[q]
    BY <1>1, Zenon DEF TypeOK
  <1>5. Sized(p)'
    BY <1>1, <1>2, <1>3, <1>4, SizedOut, Zenon
  <1>6. \A q \in Slot \ {p} : Same(q)
    BY <1>1, <1>3, <1>4, Zenon DEF Same
  <1> QED
    BY <1>1, <1>5, <1>6, SizeStep, Zenon

\* deallocuvm() down to n: what was mapped below a is mapped below n, if it
\* takes away all that lies between.
LEMMA UnmapsDown ==
    ASSUME NEW d \in Dir, NoDup(d), NEW n \in Nat, NEW a \in Nat, NEW old \in Nat, Mapped(d, a),
           n <= a, a <= old, NEW e, e = deallocuvm(d, old, n)
    PROVE  Mapped(e, n)
  <1>1. \A v \in VPage : e.pte[v] = IF v * PGSIZE >= PGROUNDUP(n) /\ v * PGSIZE < old
                                    THEN 0 ELSE d.pte[v]
    BY Unmaps
  <1>2. ASSUME NEW v \in VPage PROVE e.pte[v] # 0 <=> v * PGSIZE < n
    <2>1. PICK k \in Nat : PGROUNDUP(n) = k * PGSIZE
      BY RoundUp, Zenon
    <2>2. n <= PGROUNDUP(n) /\ PGROUNDUP(n) < n + PGSIZE
      BY RoundUp, Zenon
    <2>3. PGROUNDUP(n) \in Nat /\ v * PGSIZE \in Int
      BY <2>1, VmAssumption DEF VPage
    <2>4. v * PGSIZE < PGROUNDUP(n) <=> v * PGSIZE < n
      BY <2>1, <2>2, <2>3, Below, Zenon
    <2>5. d.pte[v] # 0 <=> v * PGSIZE < a
      BY Zenon DEF Mapped
    <2>6. CASE v * PGSIZE < n
      <3>1. v * PGSIZE < a /\ ~(v * PGSIZE >= PGROUNDUP(n))
        BY <2>2, <2>3, <2>4, <2>6
      <3> QED
        BY <1>1, <2>5, <2>6, <3>1, Zenon
    <2>7. CASE ~(v * PGSIZE < n)
      <3>1. v * PGSIZE >= PGROUNDUP(n) /\ (v * PGSIZE < a => v * PGSIZE < old)
        BY <2>3, <2>4, <2>7
      <3> QED
        BY <1>1, <2>5, <2>7, <3>1, Zenon
    <2> QED
      BY <2>6, <2>7, Zenon
  <1> QED
    BY <1>2, Zenon DEF Mapped

\* sbrk() that fails leaves what was mapped before it.
LEMMA SbrkFailsSize ==
    ASSUME VmInv, SizeInv, NEW p \in Slot, sbrk_fails(p)
    PROVE  SizeInv'
  <1>1. PICK d : d = deallocuvm(pgdir[p], call[p].newsz, sz[p])
    BY Zenon
  <1>2. /\ TypeOK /\ CallOK(p) /\ Sized(p) /\ call[p].op = "sbrk" /\ OutOfMemory(p) /\ return(p)
        /\ pgdir' = [pgdir EXCEPT ![p] = d] /\ UNCHANGED <<state, sz, panicked>>
        /\ pgdir[p] \in Dir /\ NoDup(pgdir[p])
    BY <1>1, Zenon DEF VmInv, Calls, Memory, TypeOK, SizeInv, sbrk_fails
  <1>3. call[p].a < call[p].newsz
    <2>1. ~(pc[p] \in {"kstack", "setupkvm", "kmap"})
      BY <1>2, Zenon DEF CallOK
    <2>2. (at(p, "kalloc") /\ More(p)) \/ at(p, "mappages")
      BY <1>2, <2>1, Zenon DEF OutOfMemory, at
    <2> QED
      BY <1>2, <2>2, Zenon DEF More, CallOK, at
  <1>4. Mapped(d, sz[p])
    <2>1. /\ sz[p] \in Nat /\ call[p].a \in Nat /\ call[p].newsz \in Nat
      BY <1>2, Numbers, Zenon
    <2>2. call[p].a <= call[p].newsz /\ PGROUNDUP(sz[p]) <= call[p].a /\ Mapped(pgdir[p], call[p].a)
      BY <1>2, <1>3, <2>1 DEF Sized
    <2>3. sz[p] <= call[p].a
      <3>1. PICK j \in Nat : PGROUNDUP(sz[p]) = j * PGSIZE
        BY <2>1, RoundUp, Zenon
      <3>2. sz[p] <= PGROUNDUP(sz[p])
        BY <2>1, RoundUp, Zenon
      <3>3. PGROUNDUP(sz[p]) \in Nat
        BY <3>1, VmAssumption
      <3> QED
        BY <2>1, <2>2, <3>2, <3>3
    <2> QED
      BY <1>1, <1>2, <2>1, <2>2, <2>3, UnmapsDown, Zenon
  <1>5. call'[p].op = "none" /\ \A q \in Slot \ {p} : call'[q] = call[q]
    BY <1>2, Returns, NoCallIs, Zenon
  <1>6. pgdir'[p] = d /\ \A q \in Slot \ {p} : pgdir'[q] = pgdir[q]
    BY <1>2, Zenon DEF TypeOK
  <1>7. Sized(p)'
    BY <1>2, <1>4, <1>5, <1>6, SizedOut, Zenon
  <1>8. \A q \in Slot \ {p} : Same(q)
    BY <1>2, <1>5, <1>6, Zenon DEF Same
  <1> QED
    BY <1>2, <1>7, <1>8, SizeStep, Zenon

\* sbrk() shrinks the process to a size that is not 0.
LEMMA SbrkShrinkSize ==
    ASSUME MINSZ # 0, VmInv, SizeInv, NEW p \in Slot, NEW n \in Deltas, sbrk_shrink(p, n)
    PROVE  SizeInv'
  <1>1. PICK m : m = (sz[p] + n) % UINT
    BY Zenon
  <1>2. PICK d : d = deallocuvm(pgdir[p], sz[p], m)
    BY Zenon
  <1>3. /\ at(p, "out") /\ m < sz[p] /\ m >= MINSZ
        /\ pgdir' = [pgdir EXCEPT ![p] = d] /\ sz' = [sz EXCEPT ![p] = IF m = 0 THEN @ ELSE m]
        /\ UNCHANGED <<state, call, panicked>>
        /\ TypeOK /\ CallOK(p) /\ Sized(p) /\ pgdir[p] \in Dir /\ NoDup(pgdir[p])
    BY <1>1, <1>2, Zenon DEF sbrk_shrink, VmInv, Calls, Memory, TypeOK, SizeInv
  <1>4. sz[p] \in Nat
    BY <1>3, Numbers, Zenon
  <1>5. m \in Nat /\ m # 0 /\ m <= sz[p] /\ sz[p] <= sz[p]
    <2>1. n \in Int /\ UINT \in Nat \ {0} /\ MINSZ \in Nat
      BY VmAssumption DEF UINT
    <2>2. m \in Nat
      BY <1>1, <1>4, <2>1
    <2> QED
      BY <1>3, <1>4, <2>1, <2>2
  <1>6. call[p].op = "none"
    BY <1>3, Zenon DEF CallOK, at
  <1>7. Mapped(pgdir[p], sz[p])
    BY <1>3, <1>6, Zenon DEF Sized, at
  <1>8. Mapped(d, m)
    BY <1>2, <1>3, <1>4, <1>5, <1>7, UnmapsDown, Zenon
  <1>9. pgdir'[p] = d /\ sz'[p] = m /\ \A q \in Slot \ {p} : pgdir'[q] = pgdir[q] /\ sz'[q] = sz[q]
    BY <1>3, <1>5, Zenon DEF TypeOK
  <1>10. Sized(p)'
    BY <1>3, <1>6, <1>8, <1>9, SizedOut, Zenon
  <1>11. \A q \in Slot \ {p} : Same(q)
    BY <1>3, <1>9, Zenon DEF Same
  <1> QED
    BY <1>3, <1>10, <1>11, SizeStep, Zenon

\* A new call has mapped nothing.
LEMMA SizedNew ==
    ASSUME NEW p \in Slot, call'[p].d = NoDir, call'[p].a = 0, call'[p].op \in {"fork", "exec"},
           call'[p].op = "fork" => call'[p].newsz = sz'[p],
           Mapped(pgdir'[p], sz'[p])
    PROVE  Sized(p)'
  <1>1. Mapped(NoDir, 0)
    <2>1. ASSUME NEW v \in VPage PROVE NoDir.pte[v] = 0 /\ ~(v * PGSIZE < 0)
      BY VmAssumption DEF NoDir, VPage
    <2> QED
      BY <2>1, Zenon DEF Mapped
  <1>2. Mapped(call'[p].d, call'[p].a)
    BY <1>1, Zenon
  <1> QED
    BY <1>2, Zenon DEF Sized

\* fork() of a process whose size is mapped.
LEMMA ForkSize ==
    ASSUME VmInv, SizeInv, NEW p \in Slot, fork(p)
    PROVE  SizeInv'
  <1>1. PICK q \in Slot : /\ state[q] = "UNUSED" /\ state' = [state EXCEPT ![q] = "EMBRYO"]
                          /\ call' = [call EXCEPT ![p].op = "fork", ![p].np = q, ![p].newsz = sz[p]]
    BY Zenon DEF fork
  <1>2. /\ TypeOK /\ CallOK(p) /\ Sized(p) /\ call[p] \in Call /\ state[p] = "RUNNING" /\ pc[p] = "out"
        /\ UNCHANGED <<pgdir, sz, panicked>>
    BY Zenon DEF VmInv, Calls, TypeOK, SizeInv, fork, at
  <1>3. call[p] = NoCall
    BY <1>2, Zenon DEF CallOK
  <1>4. PICK c : c = [call[p] EXCEPT !.op = "fork", !.np = q, !.newsz = sz[p]]
    BY Zenon
  <1>5. c.op = "fork" /\ c.a = 0 /\ c.newsz = sz[p] /\ c.d = NoDir
    <2>1. call[p].d = NoDir /\ call[p].a = 0
      BY <1>3, NoCallIs, Zenon
    <2> QED
      BY <1>2, <1>4, <2>1, Zenon DEF Call
  <1>6. call'[p] = c /\ \A r \in Slot \ {p} : call'[r] = call[r]
    <2>1. call' = [call EXCEPT ![p] = c]
      BY <1>1, <1>4, Zenon
    <2> QED
      BY <1>2, <2>1, Zenon DEF TypeOK
  <1>7. state'[q] = "EMBRYO" /\ \A r \in Slot \ {q} : state'[r] = state[r]
    BY <1>1, <1>2, Zenon DEF TypeOK
  <1>8. Mapped(pgdir[p], sz[p])
    <2>1. call[p].op = "none"
      BY <1>2, Zenon DEF CallOK
    <2> QED
      BY <1>2, <2>1, Zenon DEF Sized
  <1>9. Sized(p)'
    BY <1>2, <1>5, <1>6, <1>8, SizedNew, Zenon
  <1>10. ASSUME NEW r \in Slot \ {p} PROVE Sized(r)'
    <2>1. Sized(r) /\ call'[r] = call[r] /\ pgdir'[r] = pgdir[r] /\ sz'[r] = sz[r]
      BY <1>2, <1>6, Zenon DEF SizeInv
    <2>2. state'[r] \in {"RUNNING", "ZOMBIE"} => state'[r] = state[r]
      BY <1>7, Zenon
    <2> QED
      BY <2>1, <2>2, Zenon DEF Sized
  <1> QED
    BY <1>2, <1>9, <1>10, Zenon DEF SizeInv

\* allocproc() has its stack.
LEMMA ForkKstackSize ==
    ASSUME VmInv, SizeInv, NEW p \in Slot, fork_kstack(p)
    PROVE  SizeInv'
  <1>1. UNCHANGED <<state, pgdir, sz, call, panicked>>
    BY Zenon DEF fork_kstack
  <1> QED
    BY <1>1, Zenon DEF SizeInv, Sized

\* The child has the pages below the size of its parent.
LEMMA ForkDoneSize ==
    ASSUME VmInv, SizeInv, NEW p \in Slot, fork_done(p)
    PROVE  SizeInv'
  <1>1. PICK q : q = call[p].np
    BY Zenon
  <1>2. /\ TypeOK /\ Calls /\ Sized(p) /\ state[p] = "RUNNING" /\ call[p].op = "fork" /\ ~More(p)
        /\ pgdir' = [pgdir EXCEPT ![q] = call[p].d] /\ sz' = [sz EXCEPT ![q] = sz[p]]
        /\ state' = [state EXCEPT ![q] = "RUNNING"] /\ return(p) /\ panicked' = panicked
    BY <1>1, Zenon DEF VmInv, Calls, SizeInv, fork_done, at
  <1>3. q \in Slot /\ q # p /\ call[q] = NoCall
    BY <1>1, <1>2, Child, Zenon
  <1>4. /\ call'[p].op = "none" /\ \A r \in Slot \ {p} : call'[r] = call[r]
        /\ call'[q].op = "none"
    BY <1>2, <1>3, Returns, NoCallIs, Zenon
  <1>5. /\ pgdir'[q] = call[p].d /\ sz'[q] = sz[p]
        /\ \A r \in Slot \ {q} : pgdir'[r] = pgdir[r] /\ sz'[r] = sz[r] /\ state'[r] = state[r]
    BY <1>2, <1>3, Zenon DEF TypeOK
  <1>6. Mapped(call[p].d, sz[p]) /\ Mapped(pgdir[p], sz[p])
    <2>1. call[p].newsz = sz[p] /\ Mapped(call[p].d, call[p].a) /\ Mapped(pgdir[p], sz[p])
      BY <1>2, Zenon DEF Sized
    <2>2. call[p].newsz < KERNBASE
      BY <1>2, <2>1, Numbers, Zenon
    <2> QED
      BY <1>2, <2>1, <2>2, LoopDone, Zenon
  <1>7. Sized(p)'
    BY <1>3, <1>4, <1>5, <1>6, SizedOut, Zenon
  <1>8. Sized(q)'
    BY <1>3, <1>4, <1>5, <1>6, SizedOut, Zenon
  <1>9. ASSUME NEW r \in Slot \ {p, q} PROVE Sized(r)'
    <2>1. Sized(r) /\ Same(r)
      BY <1>4, <1>5, Zenon DEF SizeInv, Same
    <2> QED
      BY <2>1, Zenon DEF Sized, Same
  <1> QED
    BY <1>2, <1>7, <1>8, <1>9, Zenon DEF SizeInv

\* fork() that fails gives up the slot of the child, which had no memory.
LEMMA ForkFailsSize ==
    ASSUME VmInv, SizeInv, NEW p \in Slot, fork_fails(p)
    PROVE  SizeInv'
  <1>1. PICK q : q = call[p].np
    BY Zenon
  <1>2. /\ TypeOK /\ Calls /\ Sized(p) /\ call[p].op = "fork" /\ OutOfMemory(p)
        /\ state' = [state EXCEPT ![q] = "UNUSED"] /\ return(p) /\ UNCHANGED <<pgdir, sz, panicked>>
    BY <1>1, Zenon DEF VmInv, Calls, SizeInv, fork_fails
  <1>3. state[p] = "RUNNING"
    BY <1>2, Zenon DEF OutOfMemory, at
  <1>4. q \in Slot /\ q # p
    BY <1>1, <1>2, <1>3, Child, Zenon
  <1>5. call'[p].op = "none" /\ \A r \in Slot \ {p} : call'[r] = call[r]
    BY <1>2, Returns, NoCallIs, Zenon
  <1>6. state'[q] = "UNUSED" /\ \A r \in Slot \ {q} : state'[r] = state[r]
    BY <1>2, <1>4, Zenon DEF TypeOK
  <1>7. Sized(p)'
    <2>1. Mapped(pgdir[p], sz[p])
      BY <1>2, <1>3, Zenon DEF Sized
    <2> QED
      BY <1>2, <1>5, <2>1, SizedOut, Zenon
  <1>8. ASSUME NEW r \in Slot \ {p} PROVE Sized(r)'
    <2>1. Sized(r) /\ call'[r] = call[r] /\ pgdir'[r] = pgdir[r] /\ sz'[r] = sz[r]
      BY <1>2, <1>5, Zenon DEF SizeInv
    <2>2. state'[r] \in {"RUNNING", "ZOMBIE"} => state'[r] = state[r]
      BY <1>6, Zenon
    <2> QED
      BY <2>1, <2>2, Zenon DEF Sized
  <1> QED
    BY <1>2, <1>7, <1>8, Zenon DEF SizeInv

\* exit() leaves the address space for wait().
LEMMA ExitSize ==
    ASSUME VmInv, SizeInv, NEW p \in Slot, exit(p)
    PROVE  SizeInv'
  <1>1. /\ TypeOK /\ state[p] = "RUNNING" /\ state' = [state EXCEPT ![p] = "ZOMBIE"]
        /\ UNCHANGED <<pgdir, sz, call, panicked>>
    BY Zenon DEF VmInv, Calls, exit, at
  <1>2. state'[p] = "ZOMBIE" /\ \A r \in Slot \ {p} : state'[r] = state[r]
    BY <1>1, Zenon DEF TypeOK
  <1>3. ASSUME NEW r \in Slot PROVE Sized(r)'
    <2>1. state'[r] \in {"RUNNING", "ZOMBIE"} => state[r] \in {"RUNNING", "ZOMBIE"}
      BY <1>1, <1>2, Zenon
    <2>2. Sized(r)
      BY Zenon DEF SizeInv
    <2> QED
      BY <1>1, <2>1, <2>2, Zenon DEF Sized
  <1> QED
    BY <1>1, <1>3, Zenon DEF SizeInv

\* wait() frees the address space with the slot.
LEMMA WaitSize ==
    ASSUME VmInv, SizeInv, NEW p \in Slot, NEW q \in Slot, wait(q, p)
    PROVE  SizeInv'
  <1>1. /\ TypeOK /\ CallOK(p) /\ state[p] = "ZOMBIE" /\ state' = [state EXCEPT ![p] = "UNUSED"]
        /\ pgdir' = [pgdir EXCEPT ![p] = NoDir] /\ UNCHANGED <<sz, call, panicked>>
    BY Zenon DEF VmInv, Calls, wait
  <1>2. /\ state'[p] = "UNUSED"
        /\ \A r \in Slot \ {p} : state'[r] = state[r] /\ pgdir'[r] = pgdir[r]
    BY <1>1, Zenon DEF TypeOK
  <1>3. call'[p].op = "none"
    <2>1. pc[p] = "out"
      BY <1>1, Zenon DEF CallOK
    <2> QED
      BY <1>1, <2>1, Zenon DEF CallOK
  <1>4. ~(state'[p] \in {"RUNNING", "ZOMBIE"})
    BY <1>2, Zenon
  <1>5. Sized(p)'
    BY <1>3, <1>4, SizedOut, Zenon
  <1>6. \A r \in Slot \ {p} : Same(r)
    BY <1>1, <1>2, Zenon DEF Same
  <1> QED
    BY <1>1, <1>5, <1>6, SizeStep, Zenon

\* exec() begins with an empty address space.
LEMMA ExecSize ==
    ASSUME VmInv, SizeInv, NEW p \in Slot, exec(p)
    PROVE  SizeInv'
  <1>1. PICK s \in Segments : call' = [call EXCEPT ![p].op = "exec", ![p].newsz = s]
    BY Zenon DEF exec
  <1>2. /\ TypeOK /\ CallOK(p) /\ Sized(p) /\ call[p] \in Call /\ state[p] = "RUNNING" /\ pc[p] = "out"
        /\ UNCHANGED <<state, pgdir, sz, panicked>>
    BY Zenon DEF VmInv, Calls, TypeOK, SizeInv, exec, at
  <1>3. call[p].d = NoDir /\ call[p].a = 0 /\ call[p].op = "none"
    BY <1>2, NoCallIs, Zenon DEF CallOK
  <1>4. PICK c : c = [call[p] EXCEPT !.op = "exec", !.newsz = s]
    BY Zenon
  <1>5. c.op = "exec" /\ c.a = 0 /\ c.d = NoDir
    BY <1>2, <1>3, <1>4, Zenon DEF Call
  <1>6. call'[p] = c /\ \A r \in Slot \ {p} : call'[r] = call[r]
    <2>1. call' = [call EXCEPT ![p] = c]
      BY <1>1, <1>4, Zenon
    <2> QED
      BY <1>2, <2>1, Zenon DEF TypeOK
  <1>7. Mapped(pgdir[p], sz[p])
    BY <1>2, <1>3, Zenon DEF Sized
  <1>8. Sized(p)'
    <2>1. call'[p].op \in {"fork", "exec"} /\ ~(call'[p].op = "fork")
      BY <1>5, <1>6, Zenon
    <2> QED
      BY <1>2, <1>5, <1>6, <1>7, <2>1, SizedNew, Zenon
  <1>9. \A r \in Slot \ {p} : Same(r)
    BY <1>2, <1>6, Zenon DEF Same
  <1> QED
    BY <1>2, <1>8, <1>9, SizeStep, Zenon

\* The stack follows the program at the next page.
LEMMA ExecStackSize ==
    ASSUME VmInv, SizeInv, NEW p \in Slot, exec_stack(p)
    PROVE  SizeInv'
  <1>1. PICK s, n : s = PGROUNDUP(call[p].newsz) /\ n = s + 2 * PGSIZE
    BY Zenon
  <1>2. /\ TypeOK /\ Calls /\ Sized(p) /\ call[p] \in Call /\ state[p] = "RUNNING"
        /\ call[p].op = "exec" /\ ~More(p) /\ n < KERNBASE
        /\ call' = [call EXCEPT ![p].op = "stack", ![p].a = s, ![p].newsz = n]
        /\ UNCHANGED <<state, pgdir, sz, panicked>>
    BY <1>1, Zenon DEF VmInv, Calls, TypeOK, SizeInv, exec_stack, at
  <1>3. PICK c : c = [call[p] EXCEPT !.op = "stack", !.a = s, !.newsz = n]
    BY Zenon
  <1>4. c.op = "stack" /\ c.a = s /\ c.d = call[p].d
    BY <1>2, <1>3, Zenon DEF Call
  <1>5. call'[p] = c /\ \A r \in Slot \ {p} : call'[r] = call[r]
    <2>1. call' = [call EXCEPT ![p] = c]
      BY <1>2, <1>3, Zenon
    <2> QED
      BY <1>2, <2>1, Zenon DEF TypeOK
  <1>6. call[p].newsz \in Nat
    BY <1>2, Numbers, Zenon
  <1>7. call[p].newsz < KERNBASE
    <2>1. PICK k \in Nat : s = k * PGSIZE
      BY <1>1, <1>6, RoundUp, Zenon
    <2>2. call[p].newsz <= s
      BY <1>1, <1>6, RoundUp, Zenon
    <2>3. s \in Nat /\ PGSIZE \in Nat /\ KERNBASE \in Nat
      BY <2>1, VmAssumption
    <2> QED
      BY <1>1, <1>2, <1>6, <2>2, <2>3, SMTT(30)
  <1>8. Mapped(call[p].d, s)
    <2>1. Mapped(call[p].d, call[p].a)
      BY <1>2, Zenon DEF Sized
    <2>2. Mapped(call[p].d, call[p].newsz)
      BY <1>2, <1>7, <2>1, LoopDone, Zenon
    <2> QED
      BY <1>1, <1>6, <2>2, Rounded, Zenon
  <1>9. Sized(p)'
    <2>1. Mapped(pgdir[p], sz[p])
      BY <1>2, Zenon DEF Sized
    <2>2. call'[p].op = "stack" /\ Mapped(call'[p].d, call'[p].a) /\ Mapped(pgdir'[p], sz'[p])
      BY <1>2, <1>4, <1>5, <1>8, <2>1, Zenon
    <2> QED
      BY <2>2, Zenon DEF Sized
  <1>10. \A r \in Slot \ {p} : Same(r)
    BY <1>2, <1>5, Zenon DEF Same
  <1> QED
    BY <1>2, <1>9, <1>10, SizeStep, Zenon

\* exec() commits to an address space that is mapped up to the new size.
LEMMA ExecCommitSize ==
    ASSUME VmInv, SizeInv, NEW p \in Slot, exec_commit(p)
    PROVE  SizeInv'
  <1>1. /\ TypeOK /\ Calls /\ CallOK(p) /\ Sized(p) /\ call[p].op = "stack" /\ ~More(p) /\ return(p)
        /\ pgdir' = [pgdir EXCEPT ![p] = call[p].d] /\ sz' = [sz EXCEPT ![p] = call[p].newsz]
        /\ UNCHANGED <<state, panicked>>
    BY Zenon DEF VmInv, Calls, SizeInv, exec_commit
  <1>2. Mapped(call[p].d, call[p].newsz)
    <2>1. call[p].newsz < KERNBASE /\ Mapped(call[p].d, call[p].a)
      BY <1>1, Zenon DEF CallOK, Sized
    <2> QED
      BY <1>1, <2>1, LoopDone, Zenon
  <1>3. call'[p].op = "none" /\ \A q \in Slot \ {p} : call'[q] = call[q]
    BY <1>1, Returns, NoCallIs, Zenon
  <1>4. /\ sz'[p] = call[p].newsz /\ pgdir'[p] = call[p].d
        /\ \A q \in Slot \ {p} : sz'[q] = sz[q] /\ pgdir'[q] = pgdir[q]
    BY <1>1, Zenon DEF TypeOK
  <1>5. Sized(p)'
    BY <1>2, <1>3, <1>4, SizedOut, Zenon
  <1>6. \A q \in Slot \ {p} : Same(q)
    BY <1>1, <1>3, <1>4, Zenon DEF Same
  <1> QED
    BY <1>1, <1>5, <1>6, SizeStep, Zenon

\* exec() that fails leaves the process as it was.
LEMMA ExecBadSize ==
    ASSUME VmInv, SizeInv, NEW p \in Slot, exec_bad(p)
    PROVE  SizeInv'
  <1>1. /\ TypeOK /\ Sized(p) /\ call[p].op \in {"exec", "stack"} /\ return(p)
        /\ UNCHANGED <<state, pgdir, sz, panicked>>
    BY Zenon DEF VmInv, Calls, SizeInv, exec_bad
  <1>2. call'[p].op = "none" /\ \A q \in Slot \ {p} : call'[q] = call[q]
    BY <1>1, Returns, NoCallIs, Zenon
  <1>3. state[p] \in {"RUNNING", "ZOMBIE"} => Mapped(pgdir[p], sz[p])
    BY <1>1, Zenon DEF Sized
  <1>4. Sized(p)'
    BY <1>1, <1>2, <1>3, SizedOut, Zenon
  <1>5. \A q \in Slot \ {p} : Same(q)
    BY <1>1, <1>2, Zenon DEF Same
  <1> QED
    BY <1>1, <1>4, <1>5, SizeStep, Zenon

\* After userinit() the first process has its one page.
LEMMA InitSize ==
    ASSUME Init
    PROVE  SizeInv
  <1>1. First \in Slot /\ PGSIZE \in Nat \ {0}
    BY VmAssumption, Zenon
  <1>2. \A p \in Slot : call[p].op = "none" /\ state[p] \in {"RUNNING", "ZOMBIE"} => p = First
    <2>1. \A p \in Slot : p # First => state[p] = "UNUSED"
      BY Zenon DEF Init
    <2> QED
      BY <2>1, Zenon
  <1>3. \A p \in Slot : call[p].op = "none"
    BY NoCallIs, Zenon DEF Init
  <1>4. Mapped(pgdir[First], sz[First])
    <2>1. /\ sz[First] = PGSIZE
          /\ pgdir[First].pte = [NoDir.pte EXCEPT ![0] = 5]
      BY <1>1, Zenon DEF Init
    <2>2. ASSUME NEW v \in VPage PROVE pgdir[First].pte[v] # 0 <=> v = 0
      BY <2>1, Indices DEF NoDir
    <2>3. ASSUME NEW v \in VPage PROVE v * PGSIZE < PGSIZE <=> v = 0
      <3>1. v \in Nat /\ 1 \in Int /\ v \in Int
        BY VmAssumption DEF VPage
      <3>2. v * PGSIZE < 1 * PGSIZE <=> v < 1
        BY <1>1, <3>1, Steps, Zenon
      <3>3. 1 * PGSIZE = PGSIZE /\ (v < 1 <=> v = 0)
        BY <1>1, <3>1
      <3> QED
        BY <3>2, <3>3, Zenon
    <2> QED
      BY <2>1, <2>2, <2>3, Zenon DEF Mapped
  <1>5. ASSUME NEW p \in Slot PROVE Sized(p)
    <2>1. call[p].op = "none" /\ (state[p] \in {"RUNNING", "ZOMBIE"} => Mapped(pgdir[p], sz[p]))
      BY <1>2, <1>3, <1>4, Zenon
    <2> QED
      BY <2>1, Zenon DEF Sized
  <1>6. ~panicked
    BY Zenon DEF Init
  <1> QED
    BY <1>5, <1>6, Zenon DEF SizeInv

\* Every step keeps the sizes.
LEMMA NextSize ==
    ASSUME MINSZ # 0, VmInv, SizeInv, [Next]_vars
    PROVE  SizeInv'
  <1>1. CASE UNCHANGED vars
    <2>1. UNCHANGED <<state, pgdir, sz, call, panicked>>
      BY <1>1, Zenon DEF vars
    <2> QED
      BY <2>1, Zenon DEF SizeInv, Sized
  <1>2. CASE \E p \in Slot : setupkvm(p) \/ kmap(p) \/ loop_kalloc(p) \/ mappages(p)
    BY <1>2, SetupkvmSize, LoopKallocSize, MappagesSize, Zenon
  <1>3. CASE \E p \in Slot : sbrk_done(p) \/ sbrk_fails(p)
    BY <1>3, SbrkDoneSize, SbrkFailsSize, Zenon
  <1>4. CASE \E p \in Slot : fork(p) \/ fork_kstack(p) \/ fork_done(p) \/ fork_fails(p) \/ exit(p)
    BY <1>4, ForkSize, ForkKstackSize, ForkDoneSize, ForkFailsSize, ExitSize, Zenon
  <1>5. CASE \E p \in Slot : exec(p) \/ exec_stack(p) \/ exec_commit(p) \/ exec_bad(p)
    BY <1>5, ExecSize, ExecStackSize, ExecCommitSize, ExecBadSize, Zenon
  <1>6. CASE \E p \in Slot, n \in Deltas : sbrk_grow(p, n) \/ sbrk_shrink(p, n)
    BY <1>6, SbrkGrowSize, SbrkShrinkSize, Zenon
  <1>7. CASE \E p, q \in Slot : wait(q, p)
    BY <1>7, WaitSize, Zenon
  <1> QED
    BY <1>1, <1>2, <1>3, <1>4, <1>5, <1>6, <1>7, Zenon DEF Next

\* Outside of sbrk() a process has exactly the pages below its size, whichever
\* of its calls failed, and no panic of vm.c is reached.  Only a shrink to 0
\* is excluded: growproc() takes the result 0 of deallocuvm() for a failure
\* and keeps the old size.
THEOREM SizeIsMappedHolds ==
    ASSUME MINSZ # 0
    PROVE  Spec => []SizeIsMapped
  <1>1. Init => SizeInv
    BY InitSize, Zenon
  <1>2. VmInv /\ SizeInv /\ [Next]_vars => SizeInv'
    BY NextSize, Zenon
  <1>3. SizeInv => SizeIsMapped
    BY Zenon DEF SizeInv, Sized, SizeIsMapped, Mapped
  <1> QED
    BY <1>1, <1>2, <1>3, VmInvHolds, PTL DEF Spec
-----------------------------------------------------------------------------
(* No page plays two parts *)

\* Only here: the provers carry every theorem of the library along.
INSTANCE FiniteSetTheorems

\* Entries that are all different are as many as their pages.
LEMMA Entries ==
    ASSUME NEW I, NEW f \in [I -> 0..NPAGE],
           \A i, j \in I : f[i] # 0 /\ f[i] = f[j] => i = j
    PROVE  LET V == {f[i] : i \in I} \ {0}
           IN  IsFiniteSet(V) /\ Cardinality(V) = Cardinality({i \in I : f[i] # 0})
  <1>1. PICK V : V = {f[i] : i \in I} \ {0}
    BY Zenon
  <1>2. PICK N : N = {i \in I : f[i] # 0}
    BY Zenon
  <1>3. PICK g : g = [i \in N |-> f[i]]
    BY Zenon
  <1>4. IsFiniteSet(V)
    <2>1. IsFiniteSet(0..NPAGE)
      BY FS_Interval, VmAssumption
    <2>2. V \in SUBSET (0..NPAGE)
      BY <1>1, Zenon
    <2> QED
      BY <2>1, <2>2, FS_Subset, Zenon
  <1>5. g \in [N -> V]
    BY <1>1, <1>2, <1>3, Zenon
  <1>6. g \in Injection(N, V)
    BY <1>2, <1>3, <1>5, SMTT(30) DEF Injection, IsInjective
  <1>7. g \in Surjection(N, V)
    BY <1>1, <1>2, <1>3, <1>5, Zenon DEF Surjection
  <1>8. Cardinality(N) = Cardinality(V)
    BY <1>4, <1>6, <1>7, FS_Injection, Zenon
  <1> QED
    BY <1>1, <1>2, <1>4, <1>8, Zenon

\* The pages of an address space are as many as its entries.
LEMMA PartsCounted ==
    ASSUME NEW d \in Dir, NoDup(d)
    PROVE  Cardinality(Pages(d)) =
               (IF d.dir = 0 THEN 0 ELSE 1)
               + Cardinality({t \in Table : d.pt[t] # 0})
               + Cardinality({v \in VPage : d.pte[v] # 0})
  <1>1. PICK A : A = {d.dir} \ {0}
    BY Zenon
  <1>2. PICK B : B = {d.pt[t] : t \in Table} \ {0}
    BY Zenon
  <1>3. PICK C : C = {d.pte[v] : v \in VPage} \ {0}
    BY Zenon
  <1>4. d.pt \in [Table -> 0..NPAGE] /\ d.pte \in [VPage -> 0..NPAGE]
    BY Zenon DEF Dir
  <1>5. IsFiniteSet(B) /\ Cardinality(B) = Cardinality({t \in Table : d.pt[t] # 0})
    <2>1. \A t, u \in Table : d.pt[t] # 0 /\ d.pt[t] = d.pt[u] => t = u
      BY Zenon DEF NoDup
    <2> QED
      BY <1>2, <1>4, <2>1, Entries, Zenon
  <1>6. IsFiniteSet(C) /\ Cardinality(C) = Cardinality({v \in VPage : d.pte[v] # 0})
    <2>1. \A v, w \in VPage : d.pte[v] # 0 /\ d.pte[v] = d.pte[w] => v = w
      BY Zenon DEF NoDup
    <2> QED
      BY <1>3, <1>4, <2>1, Entries, Zenon
  <1>7. IsFiniteSet(A) /\ Cardinality(A) = IF d.dir = 0 THEN 0 ELSE 1
    <2>1. CASE d.dir = 0
      <3>1. A = {}
        BY <1>1, <2>1, Zenon
      <3> QED
        BY <2>1, <3>1, FS_EmptySet, Zenon
    <2>2. CASE d.dir # 0
      <3>1. A = {d.dir}
        BY <1>1, <2>2, Zenon
      <3> QED
        BY <2>2, <3>1, FS_Singleton, Zenon
    <2> QED
      BY <2>1, <2>2, Zenon
  <1>8. A \cap B = {}
    <2> SUFFICES ASSUME NEW m \in A, m \in B PROVE FALSE
      BY Zenon
    <2>1. PICK t \in Table : m = d.pt[t]
      BY <1>2, Zenon
    <2>2. m = d.dir /\ m # 0
      BY <1>1, Zenon
    <2> QED
      BY <2>1, <2>2, Zenon DEF NoDup
  <1>9. (A \cup B) \cap C = {}
    <2> SUFFICES ASSUME NEW m \in A \cup B, m \in C PROVE FALSE
      BY Zenon
    <2>1. PICK v \in VPage : m = d.pte[v] /\ m # 0
      BY <1>3, Zenon
    <2>2. CASE m \in A
      <3>1. m = d.dir
        BY <1>1, <2>2, Zenon
      <3> QED
        BY <2>1, <3>1, Zenon DEF NoDup
    <2>3. CASE m \in B
      <3>1. PICK t \in Table : m = d.pt[t]
        BY <1>2, <2>3, Zenon
      <3> QED
        BY <2>1, <3>1, Zenon DEF NoDup
    <2> QED
      BY <2>2, <2>3, Zenon
  <1>10. IsFiniteSet(A \cup B) /\ Cardinality(A \cup B) = Cardinality(A) + Cardinality(B) - 0
    <2>1. /\ IsFiniteSet(A \cup B)
          /\ Cardinality(A \cup B) = Cardinality(A) + Cardinality(B) - Cardinality(A \cap B)
      BY <1>5, <1>7, FS_Union, Zenon
    <2> QED
      BY <1>8, <2>1, FS_EmptySet, Zenon
  <1>11. Cardinality((A \cup B) \cup C) = Cardinality(A \cup B) + Cardinality(C) - 0
    <2>1. Cardinality((A \cup B) \cup C) =
              Cardinality(A \cup B) + Cardinality(C) - Cardinality((A \cup B) \cap C)
      BY <1>6, <1>10, FS_Union, Zenon
    <2> QED
      BY <1>9, <2>1, FS_EmptySet, Zenon
  <1>12. Pages(d) = (A \cup B) \cup C
    BY <1>1, <1>2, <1>3, Zenon DEF Pages, UserPages
  <1>13. Cardinality(A) \in Nat /\ Cardinality(B) \in Nat /\ Cardinality(C) \in Nat
    BY <1>5, <1>6, <1>7, FS_CardinalityType, Zenon
  <1>14. Cardinality(Pages(d)) = Cardinality(A) + Cardinality(B) + Cardinality(C)
    BY <1>10, <1>11, <1>12, <1>13, SMTT(30)
  <1> QED
    BY <1>5, <1>6, <1>7, <1>14, Zenon

\* kalloc.c and vm.c neither lose a page nor use one twice, whatever calls are
\* under way and wherever they run out of memory.
THEOREM OneOwnerHolds == Spec => []OneOwner
  <1>1. VmInv => OneOwner
    <2> SUFFICES ASSUME VmInv PROVE OneOwner
      OBVIOUS
    <2>1. TypeOK /\ Partition(Pools, freelist)
      BY Zenon DEF VmInv, Calls, Memory
    <2>2. \A o \in Owner : Pools[o] = Pool(o)
      BY Zenon DEF Pools
    <2>3. \A m \in Page : m \notin freelist => \E o \in Owner : m \in Pool(o)
      BY <2>1, <2>2, Zenon DEF Partition
    <2>4. \A o \in Owner : Pool(o) \cap freelist = {}
      BY <2>1, <2>2, Zenon DEF Partition
    <2>5. ASSUME NEW o \in Owner, NEW o2 \in Owner, o # o2 PROVE Pool(o) \cap Pool(o2) = {}
      <3>1. Pools[o] \cap Pools[o2] = {}
        BY <2>1, <2>5, Zenon DEF Partition
      <3> QED
        BY <2>2, <3>1, Zenon
    <2>6. ASSUME NEW p \in Slot, NEW d \in {pgdir[p], call[p].d}
          PROVE  Cardinality(Pages(d)) =
                     (IF d.dir = 0 THEN 0 ELSE 1)
                     + Cardinality({t \in Table : d.pt[t] # 0})
                     + Cardinality({v \in VPage : d.pte[v] # 0})
      <3>1. pgdir[p] \in Dir /\ call[p] \in Call
        BY <2>1, Zenon DEF TypeOK
      <3>2. call[p].d \in Dir
        BY <3>1, Zenon DEF Call
      <3>3. NoDup(d)
        BY Zenon DEF VmInv, Memory
      <3> QED
        BY <3>1, <3>2, <3>3, PartsCounted, Zenon
    <2> QED
      BY <2>1, <2>3, <2>4, <2>5, <2>6, Zenon DEF OneOwner
  <1> QED
    BY <1>1, VmInvHolds, PTL
=============================================================================
