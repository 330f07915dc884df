---------------------------------- MODULE Vm ----------------------------------
(***************************************************************************)
(* The pages of physical memory (src/kalloc.c) and the address spaces      *)
(* built from them (src/vm.c) by fork(), exec(), sbrk() and wait() of      *)
(* several processes at once, with kalloc() running out of pages at any    *)
(* point.  Each kalloc() is a step; what is only freed is freed in one.    *)
(* Page 0 stands for a null pointer or an entry without PTE_P.             *)
(***************************************************************************)
EXTENDS Integers, FiniteSets

CONSTANTS
    Slot, First,  \* slots of the process table, and that of the first process
    NPAGE,        \* pages between end and PHYSTOP
    PGSIZE,       \* units of memory in a page
    NPTE,         \* pages that one page table maps
    KERNBASE,     \* the end of user memory, in units
    MINSZ,        \* bound: no process shrinks below this size
    Deltas,       \* arguments of sbrk()
    Segments      \* sizes of the programs that exec() loads

ASSUME VmAssumption ==
    /\ First \in Slot
    /\ {PGSIZE, NPTE, KERNBASE} \subseteq Nat \ {0}
    /\ PGSIZE < KERNBASE /\ KERNBASE % PGSIZE = 0
    /\ NPAGE \in Nat /\ NPAGE >= 5
    /\ MINSZ \in Nat /\ Deltas \subseteq Int
    /\ Segments \subseteq 1..(2 * KERNBASE - 1)

VARIABLES
    freelist,     \* kmem.freelist, without its order
    state, kstack, pgdir, sz,  \* of each slot, as in struct proc
    pc,           \* where each process is
    call,         \* the locals of its fork(), exec() or sbrk()
    panicked

vars == <<freelist, state, kstack, pgdir, sz, pc, call, panicked>>

Page == 1..NPAGE
UINT == 2 * KERNBASE
PGROUNDUP(n) == ((n + PGSIZE - 1) \div PGSIZE) * PGSIZE
VPage == 0..(KERNBASE \div PGSIZE) - 1
PDX(v) == v \div NPTE
KERNEL == 1 + PDX(KERNBASE \div PGSIZE)  \* the index of the kernel's table
Table == {PDX(v) : v \in VPage} \cup {KERNEL}

\* A page directory, its page tables and the user pages they map.
Dir == [dir : 0..NPAGE, pt : [Table -> 0..NPAGE], pte : [VPage -> 0..NPAGE]]
NoDir == [dir |-> 0, pt |-> [t \in Table |-> 0], pte |-> [v \in VPage |-> 0]]

UserPages(d) == {d.pte[v] : v \in VPage} \ {0}
Pages(d) == ({d.dir} \cup {d.pt[t] : t \in Table} \cup UserPages(d)) \ {0}

Call == [op : {"none", "sbrk", "fork", "exec", "stack"}, d : Dir, np : Slot,
         a : 0..UINT, newsz : 0..UINT, mem : 0..NPAGE]
NoCall == [op |-> "none", d |-> NoDir, np |-> First, a |-> 0, newsz |-> 0,
           mem |-> 0]

TypeOK ==
    /\ freelist \subseteq Page
    /\ state \in [Slot -> {"UNUSED", "EMBRYO", "RUNNING", "ZOMBIE"}]
    /\ kstack \in [Slot -> 0..NPAGE]
    /\ pgdir \in [Slot -> Dir]
    /\ sz \in [Slot -> 0..KERNBASE-1]
    /\ pc \in [Slot -> {"out", "kstack", "setupkvm", "kmap", "kalloc", "mappages"}]
    /\ call \in [Slot -> Call]
    /\ panicked \in BOOLEAN

\* After userinit(): one process of one page.
Init ==
    /\ freelist = 6..NPAGE
    /\ state = [p \in Slot |-> IF p = First THEN "RUNNING" ELSE "UNUSED"]
    /\ kstack = [p \in Slot |-> IF p = First THEN 1 ELSE 0]
    /\ pgdir = [p \in Slot |-> IF p = First
                   THEN [dir |-> 2, pt |-> [NoDir.pt EXCEPT ![KERNEL] = 3, ![0] = 4],
                         pte |-> [NoDir.pte EXCEPT ![0] = 5]]
                   ELSE NoDir]
    /\ sz = [p \in Slot |-> IF p = First THEN PGSIZE ELSE 0]
    /\ pc = [p \in Slot |-> "out"]
    /\ call = [p \in Slot |-> NoCall]
    /\ panicked = FALSE
-----------------------------------------------------------------------------
(* kalloc(), kfree() and the functions of vm.c *)

at(p, l) == pc[p] = l /\ state[p] = "RUNNING" /\ ~panicked

goto(p, l) == pc' = [pc EXCEPT ![p] = l]

\* kalloc() returns page m.  Which free page it takes is not its caller's
\* business: the model takes the lowest.
kalloc(m) ==
    /\ m \in freelist /\ \A m2 \in freelist : m <= m2
    /\ freelist' = freelist \ {m}

kfree(S) == freelist' = freelist \cup S

return(p) == goto(p, "out") /\ call' = [call EXCEPT ![p] = NoCall]

\* The directory after deallocuvm(d, oldsz, newsz).
deallocuvm(d, oldsz, newsz) ==
    [d EXCEPT !.pte = [v \in VPage |->
        IF v * PGSIZE >= PGROUNDUP(newsz) /\ v * PGSIZE < oldsz THEN 0 ELSE @[v]]]

\* What is mapped is the directory of the process, or the new one.
Target(p) == IF call[p].op = "sbrk" THEN pgdir[p] ELSE call[p].d

\* setupkvm(): the page directory, and the page table for the kernel.
setupkvm(p) ==
    /\ at(p, "setupkvm")
    /\ \E m \in Page : kalloc(m) /\ call' = [call EXCEPT ![p].d.dir = m]
    /\ goto(p, "kmap")
    /\ UNCHANGED <<state, kstack, pgdir, sz, panicked>>

kmap(p) ==
    /\ at(p, "kmap")
    /\ \E m \in Page : kalloc(m) /\ call' = [call EXCEPT ![p].d.pt[KERNEL] = m]
    /\ goto(p, "kalloc")
    /\ UNCHANGED <<state, kstack, pgdir, sz, panicked>>

\* allocuvm() refuses to grow to KERNBASE or beyond.
More(p) == call[p].a < call[p].newsz /\ call[p].newsz < KERNBASE

\* The loop of allocuvm() and copyuvm(): a page, if the loop goes on.  The
\* parent's page must be there to copy: panic("copyuvm: page not present").
loop_kalloc(p) ==
    /\ at(p, "kalloc")
    /\ More(p)
    /\ IF call[p].op = "fork" /\ pgdir[p].pte[call[p].a \div PGSIZE] = 0
       THEN panicked' = TRUE /\ UNCHANGED <<freelist, call, pc>>
       ELSE /\ \E m \in Page : kalloc(m) /\ call' = [call EXCEPT ![p].mem = m]
            /\ goto(p, "mappages")
            /\ UNCHANGED panicked
    /\ UNCHANGED <<state, kstack, pgdir, sz>>

\* Target(p) with page mem mapped at a through page table m.
mapped(p, m) ==
    LET v == call[p].a \div PGSIZE
        d == [Target(p) EXCEPT !.pte[v] = call[p].mem, !.pt[PDX(v)] = m]
        next == [call[p] EXCEPT !.a = @ + PGSIZE, !.mem = 0]
    IN  IF call[p].op = "sbrk"
        THEN pgdir' = [pgdir EXCEPT ![p] = d] /\ call' = [call EXCEPT ![p] = next]
        ELSE call' = [call EXCEPT ![p] = [next EXCEPT !.d = d]] /\ UNCHANGED pgdir

pgtab(p) == Target(p).pt[PDX(call[p].a \div PGSIZE)]

\* mappages(), with or without a new page table; panic("remap").
mappages(p) ==
    /\ at(p, "mappages")
    /\ IF Target(p).pte[call[p].a \div PGSIZE] # 0
       THEN panicked' = TRUE /\ UNCHANGED <<freelist, pgdir, call, pc>>
       ELSE /\ IF pgtab(p) # 0
               THEN mapped(p, pgtab(p)) /\ UNCHANGED freelist
               ELSE \E m \in Page : kalloc(m) /\ mapped(p, m)
            /\ goto(p, "kalloc")
            /\ UNCHANGED panicked
    /\ UNCHANGED <<state, kstack, sz>>

\* kalloc() returns 0 to p.
OutOfMemory(p) ==
    /\ freelist = {}
    /\ \/ \E l \in {"kstack", "setupkvm", "kmap"} : at(p, l)
       \/ at(p, "kalloc") /\ More(p)
       \/ at(p, "mappages") /\ pgtab(p) = 0
-----------------------------------------------------------------------------
(* sbrk() *)

\* growproc() with n > 0, up to the loop of allocuvm().
sbrk_grow(p, n) ==
    /\ at(p, "out")
    /\ n > 0
    /\ sz[p] + n < KERNBASE
    /\ call' = [call EXCEPT ![p].op = "sbrk", ![p].a = PGROUNDUP(sz[p]),
                            ![p].newsz = sz[p] + n]
    /\ goto(p, "kalloc")
    /\ UNCHANGED <<freelist, state, kstack, pgdir, sz, panicked>>

sbrk_done(p) ==
    /\ at(p, "kalloc")
    /\ call[p].op = "sbrk" /\ ~More(p)
    /\ sz' = [sz EXCEPT ![p] = call[p].newsz]
    /\ return(p)
    /\ UNCHANGED <<freelist, state, kstack, pgdir, panicked>>

\* Mutant: the pages of the failed call stay mapped.
sbrk_fails_partly(p) ==
    /\ call[p].op = "sbrk" /\ OutOfMemory(p)
    /\ kfree({call[p].mem} \ {0})
    /\ return(p)
    /\ UNCHANGED <<state, kstack, pgdir, sz, panicked>>

\* allocuvm() undoes what it did.
sbrk_fails(p) ==
    LET d == deallocuvm(pgdir[p], call[p].newsz, sz[p])
    IN  /\ call[p].op = "sbrk" /\ OutOfMemory(p)
        /\ pgdir' = [pgdir EXCEPT ![p] = d]
        /\ kfree((Pages(pgdir[p]) \ Pages(d)) \cup ({call[p].mem} \ {0}))
        /\ return(p)
        /\ UNCHANGED <<state, kstack, sz, panicked>>

\* growproc() with n < 0.  A size of zero counts as failure: sz stays.
sbrk_shrink(p, n) ==
    LET newsz == (sz[p] + n) % UINT
        d == deallocuvm(pgdir[p], sz[p], newsz)
    IN  /\ at(p, "out")
        /\ n < 0
        /\ newsz < sz[p] /\ newsz >= MINSZ
        /\ pgdir' = [pgdir EXCEPT ![p] = d]
        /\ kfree(Pages(pgdir[p]) \ Pages(d))
        /\ sz' = [sz EXCEPT ![p] = IF newsz = 0 THEN @ ELSE newsz]
        /\ UNCHANGED <<state, kstack, pc, call, panicked>>
-----------------------------------------------------------------------------
(* fork(), exit() and wait() *)

\* allocproc() up to kalloc().
fork(p) ==
    /\ at(p, "out")
    /\ \E q \in Slot : /\ state[q] = "UNUSED"
                       /\ state' = [state EXCEPT ![q] = "EMBRYO"]
                       /\ call' = [call EXCEPT ![p].op = "fork", ![p].np = q,
                                               ![p].newsz = sz[p]]
    /\ goto(p, "kstack")
    /\ UNCHANGED <<freelist, kstack, pgdir, sz, panicked>>

fork_kstack(p) ==
    /\ at(p, "kstack")
    /\ \E m \in Page : kalloc(m) /\ kstack' = [kstack EXCEPT ![call[p].np] = m]
    /\ goto(p, "setupkvm")
    /\ UNCHANGED <<state, pgdir, sz, call, panicked>>

fork_done(p) ==
    LET q == call[p].np
    IN  /\ at(p, "kalloc")
        /\ call[p].op = "fork" /\ ~More(p)
        /\ pgdir' = [pgdir EXCEPT ![q] = call[p].d]
        /\ sz' = [sz EXCEPT ![q] = sz[p]]
        /\ state' = [state EXCEPT ![q] = "RUNNING"]
        /\ return(p)
        /\ UNCHANGED <<freelist, kstack, panicked>>

\* Mutant: the page that could not be mapped is not freed.
fork_fails_mem(p) ==
    LET q == call[p].np
    IN  /\ call[p].op = "fork" /\ OutOfMemory(p)
        /\ kfree((Pages(call[p].d) \cup {kstack[q]}) \ {0})
        /\ kstack' = [kstack EXCEPT ![q] = 0]
        /\ state' = [state EXCEPT ![q] = "UNUSED"]
        /\ return(p)
        /\ UNCHANGED <<pgdir, sz, panicked>>

\* The failures of allocproc(), setupkvm() and copyuvm(), and fork()'s own.
fork_fails(p) ==
    LET q == call[p].np
    IN  /\ call[p].op = "fork" /\ OutOfMemory(p)
        /\ kfree((Pages(call[p].d) \cup {call[p].mem, kstack[q]}) \ {0})
        /\ kstack' = [kstack EXCEPT ![q] = 0]
        /\ state' = [state EXCEPT ![q] = "UNUSED"]
        /\ return(p)
        /\ UNCHANGED <<pgdir, sz, panicked>>

\* exit() frees nothing: the process still runs on its stack and directory.
exit(p) ==
    /\ at(p, "out")
    /\ p # First
    /\ state' = [state EXCEPT ![p] = "ZOMBIE"]
    /\ UNCHANGED <<freelist, kstack, pgdir, sz, pc, call, panicked>>

\* wait() of q for the zombie p (whose child it is, Proc.tla says).
wait(q, p) ==
    /\ at(q, "out")
    /\ state[p] = "ZOMBIE"
    /\ kfree(Pages(pgdir[p]) \cup {kstack[p]})
    /\ kstack' = [kstack EXCEPT ![p] = 0]
    /\ pgdir' = [pgdir EXCEPT ![p] = NoDir]
    /\ state' = [state EXCEPT ![p] = "UNUSED"]
    /\ UNCHANGED <<sz, pc, call, panicked>>
-----------------------------------------------------------------------------
(* exec() *)

exec(p) ==
    /\ at(p, "out")
    /\ \E s \in Segments : call' = [call EXCEPT ![p].op = "exec", ![p].newsz = s]
    /\ goto(p, "setupkvm")
    /\ UNCHANGED <<freelist, state, kstack, pgdir, sz, panicked>>

\* The program is loaded; the guard page and the stack follow.
exec_stack(p) ==
    LET s == PGROUNDUP(call[p].newsz)
    IN  /\ at(p, "kalloc")
        /\ call[p].op = "exec" /\ ~More(p)
        /\ s + 2 * PGSIZE < KERNBASE
        /\ call' = [call EXCEPT ![p].op = "stack", ![p].a = s,
                                ![p].newsz = s + 2 * PGSIZE]
        /\ UNCHANGED <<freelist, state, kstack, pgdir, sz, pc, panicked>>

\* "Commit to the user image."
exec_commit(p) ==
    /\ at(p, "kalloc")
    /\ call[p].op = "stack" /\ ~More(p)
    /\ kfree(Pages(pgdir[p]))
    /\ pgdir' = [pgdir EXCEPT ![p] = call[p].d]
    /\ sz' = [sz EXCEPT ![p] = call[p].newsz]
    /\ return(p)
    /\ UNCHANGED <<state, kstack, panicked>>

\* bad: no memory, or, between the loops, a program that cannot be loaded.
exec_bad(p) ==
    /\ call[p].op \in {"exec", "stack"}
    /\ OutOfMemory(p) \/ (at(p, "kalloc") /\ ~More(p))
    /\ kfree((Pages(call[p].d) \cup {call[p].mem}) \ {0})
    /\ return(p)
    /\ UNCHANGED <<state, kstack, pgdir, sz, panicked>>
-----------------------------------------------------------------------------
Next ==
    \/ \E p \in Slot :
          \/ setupkvm(p) \/ kmap(p) \/ loop_kalloc(p) \/ mappages(p)
          \/ sbrk_done(p) \/ sbrk_fails(p)
          \/ fork(p) \/ fork_kstack(p) \/ fork_done(p) \/ fork_fails(p) \/ exit(p)
          \/ exec(p) \/ exec_stack(p) \/ exec_commit(p) \/ exec_bad(p)
    \/ \E p \in Slot, n \in Deltas : sbrk_grow(p, n) \/ sbrk_shrink(p, n)
    \/ \E p, q \in Slot : wait(q, p)

Spec == Init /\ [][Next]_vars
-----------------------------------------------------------------------------
(* Properties *)

\* Everything that may hold pages: stacks, address spaces, calls.
Owned == [p \in Slot |-> [kstack |-> {kstack[p]} \ {0}, pgdir |-> Pages(pgdir[p]),
                          d |-> Pages(call[p].d), mem |-> {call[p].mem} \ {0}]]
Owner == Slot \X {"kstack", "pgdir", "d", "mem"}
Pool(o) == Owned[o[1]][o[2]]

\* No page is lost, free and in use at once, or in use twice, whatever call
\* ran out of memory and wherever: every page is free or has one owner, and
\* within an address space no page plays two parts.
OneOwner ==
    /\ TypeOK
    /\ \A m \in Page : m \notin freelist => \E o \in Owner : m \in Pool(o)
    /\ \A o \in Owner : Pool(o) \cap freelist = {}
    /\ \A o, o2 \in Owner : o # o2 => Pool(o) \cap Pool(o2) = {}
    /\ \A p \in Slot : \A d \in {pgdir[p], call[p].d} :
           Cardinality(Pages(d)) =
               (IF d.dir = 0 THEN 0 ELSE 1)
               + Cardinality({t \in Table : d.pt[t] # 0})
               + Cardinality({v \in VPage : d.pte[v] # 0})

\* Outside of its calls a process has exactly the pages below its size, which
\* is what a call that failed must leave as it was; so no panic of vm.c
\* ("remap", "copyuvm: page not present") is reached.
SizeIsMapped ==
    /\ ~panicked
    /\ \A p \in Slot : state[p] \in {"RUNNING", "ZOMBIE"} /\ call[p].op # "sbrk" =>
           \A v \in VPage : pgdir[p].pte[v] # 0 <=> v * PGSIZE < sz[p]
=============================================================================
