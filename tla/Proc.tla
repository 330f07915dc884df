-------------------------------- MODULE Proc --------------------------------
(***************************************************************************)
(* The process table of src/proc.c on several CPUs: fork, exit, wait, kill *)
(* and sleep system calls, timer interrupts (src/trap.c), the per-CPU      *)
(* scheduler, and the context switches between them.                       *)
(*                                                                         *)
(* ptable.lock is held across swtch(): a process takes it and the          *)
(* scheduler (or the next process) releases it.  So the lock, the kernel   *)
(* stack each CPU runs on, and the interrupt state that pushcli/popcli     *)
(* nest (src/spinlock.c) are explicit.  Sections that take and release     *)
(* ptable.lock without a switch are one step.                              *)
(***************************************************************************)
EXTENDS Integers, FiniteSets

CONSTANTS
    CPU,       \* the CPUs
    BootCPU,   \* the one that counts ticks, cpuid() = 0
    NPROC,     \* slots of the process table
    MAXPID,    \* bound: after so many pids fork() finds no free slot
    UINT,      \* ticks is counted modulo this, 2^32 in the kernel
    MAXSLEEP,  \* bound: arguments of sleep()
    Victims,   \* bound: arguments of kill()
    Calls      \* system calls and traps the processes other than init make

Slot == 1..NPROC
None == 0
initproc == 1
NoCPU == "no cpu"

ASSUME ProcAssumption ==
    /\ BootCPU \in CPU
    /\ NoCPU \notin CPU
    /\ NPROC \in Nat \ {0}
    /\ MAXPID \in Nat \ {0}
    /\ UINT \in Nat \ {0}
    /\ MAXSLEEP \in Nat
    /\ Victims \subseteq Nat
    /\ Calls \subseteq {"fork", "exit", "wait", "kill", "sleep", "fault"}

VARIABLES
    \* struct proc
    state, pid, parent, chan, killed,
    kstack,      \* the slot has a kernel stack
    nextpid,
    ptable_lock, \* the CPU that holds ptable.lock
    tickslock,   \* the CPU that holds tickslock
    ticks,
    \* struct cpu and the CPU's registers: proc, ncli, intena; ief is the
    \* interrupt flag; on is the process whose kernel stack the CPU runs on,
    \* None for the scheduler's; loop and scan are where scheduler() is; irq
    \* is where trap() is, for a timer interrupt
    cpu,
    \* the kernel thread of each slot
    pc,          \* where it is
    yielding,    \* where it is in a yield() that trap() called
    intena,      \* the local variable of sched()
    np,          \* the local variable of fork()
    nap,         \* ticks0 and n of sys_sleep()
    panicked     \* the message of the first panic(), or "no"

proc == <<state, pid, parent, chan, killed, kstack, nextpid>>
locks == <<ptable_lock, tickslock>>
thread == <<pc, yielding, intena, np, nap>>
vars == <<proc, locks, ticks, cpu, thread, panicked>>

States == {"UNUSED", "EMBRYO", "SLEEPING", "RUNNABLE", "RUNNING", "ZOMBIE"}

\* Channels: &ticks, or the slot of a process in wait().
TicksChan == -1

PCs == {"user", "sysret", "fork", "fork_mem", "fork_run", "exit", "sched_exit",
        "dead", "wait", "sched_wait", "waited", "sys_sleep", "while_ticks",
        "sleep", "sched_sleep", "slept", "relock", "forkret"}

TypeOK ==
    /\ state \in [Slot -> States]
    /\ pid \in [Slot -> Nat]
    /\ parent \in [Slot -> Slot \cup {None}]
    /\ chan \in [Slot -> Slot \cup {None, TicksChan}]
    /\ killed \in [Slot -> BOOLEAN]
    /\ kstack \in [Slot -> BOOLEAN]
    /\ nextpid \in Nat \ {0}
    /\ ptable_lock \in CPU \cup {NoCPU}
    /\ tickslock \in CPU \cup {NoCPU}
    /\ ticks \in 0..(UINT - 1)
    /\ cpu \in [CPU -> [proc : Slot \cup {None}, ncli : Nat, intena : BOOLEAN,
                        ief : BOOLEAN, on : Slot \cup {None},
                        loop : {"sti", "acquire", "scan"},
                        scan : 1..(NPROC + 1),
                        irq : {"no", "timer", "tick"}]]
    /\ pc \in [Slot -> PCs]
    /\ yielding \in [Slot -> {"no", "yield", "sched", "yielded"}]
    /\ intena \in [Slot -> BOOLEAN]
    /\ np \in [Slot -> Slot \cup {None}]
    /\ nap \in [Slot -> [ticks0 : 0..(UINT - 1), n : 0..MAXSLEEP]]

\* After userinit(), as every CPU enters scheduler().
Init ==
    /\ state = [p \in Slot |-> IF p = initproc THEN "RUNNABLE" ELSE "UNUSED"]
    /\ pid = [p \in Slot |-> IF p = initproc THEN 1 ELSE 0]
    /\ parent = [p \in Slot |-> None]
    /\ chan = [p \in Slot |-> None]
    /\ killed = [p \in Slot |-> FALSE]
    /\ kstack = [p \in Slot |-> p = initproc]
    /\ nextpid = 2
    /\ ptable_lock = NoCPU
    /\ tickslock = NoCPU
    /\ ticks = 0
    /\ cpu = [c \in CPU |-> [proc |-> None, ncli |-> 0, intena |-> FALSE,
                             ief |-> FALSE, on |-> None, loop |-> "sti",
                             scan |-> 1, irq |-> "no"]]
    /\ pc = [p \in Slot |-> "forkret"]
    /\ yielding = [p \in Slot |-> "no"]
    /\ intena = [p \in Slot |-> FALSE]
    /\ np = [p \in Slot |-> None]
    /\ nap = [p \in Slot |-> [ticks0 |-> 0, n |-> 0]]
    /\ panicked = "no"

Up == panicked = "no"

\* CPU c runs the kernel thread of p, or its user code, outside trap().
Runs(c, p) ==
    Up /\ cpu[c].on = p /\ cpu[c].irq = "no" /\ yielding[p] = "no"

At(c, p, l) == Runs(c, p) /\ pc[p] = l

Goto(p, l) == pc' = [pc EXCEPT ![p] = l]

\* The first slot of S in table order, as a set with at most one element.
First(S) == {p \in S : \A q \in S : p <= q}
-----------------------------------------------------------------------------
(* src/spinlock.c: what acquire() and release() do to the CPU *)

pushcli(r) == [r EXCEPT !.ncli = @ + 1, !.ief = FALSE,
                        !.intena = IF r.ncli = 0 THEN r.ief ELSE @]

popcli(r) == [r EXCEPT !.ncli = @ - 1,
                       !.ief = @ \/ (r.ncli = 1 /\ r.intena)]

\* c takes ptable.lock, and keeps it.
acquire(c) ==
    /\ ptable_lock = NoCPU
    /\ ptable_lock' = c
    /\ cpu' = [cpu EXCEPT ![c] = pushcli(@)]
    /\ UNCHANGED tickslock

\* c takes ptable.lock and releases it.
section(c) ==
    /\ ptable_lock = NoCPU
    /\ cpu' = [cpu EXCEPT ![c] = popcli(pushcli(@))]
    /\ UNCHANGED locks
-----------------------------------------------------------------------------
(* scheduler() and sched() *)

\* Enable interrupts at the top of the loop.
sti(c) ==
    /\ Up
    /\ cpu[c].on = None /\ cpu[c].loop = "sti" /\ cpu[c].irq = "no"
    /\ cpu' = [cpu EXCEPT ![c].loop = "acquire", ![c].ief = TRUE]
    /\ UNCHANGED <<proc, locks, ticks, thread, panicked>>

scheduler_acquire(c) ==
    /\ Up
    /\ cpu[c].on = None /\ cpu[c].loop = "acquire" /\ cpu[c].irq = "no"
    /\ ptable_lock = NoCPU
    /\ ptable_lock' = c
    /\ cpu' = [cpu EXCEPT ![c] = [pushcli(@) EXCEPT !.loop = "scan"]]
    /\ UNCHANGED <<proc, tickslock, ticks, thread, panicked>>

Scanned(c) == {p \in Slot : p >= cpu[c].scan /\ state[p] = "RUNNABLE"}

\* The next RUNNABLE process of this pass, which starts with ptable.lock held.
scheduler_swtch(c) ==
    /\ Up
    /\ cpu[c].on = None /\ cpu[c].loop = "scan"
    /\ \E p \in First(Scanned(c)) :
        /\ state' = [state EXCEPT ![p] = "RUNNING"]
        /\ cpu' = [cpu EXCEPT ![c].proc = p, ![c].on = p, ![c].scan = p + 1]
    /\ UNCHANGED <<pid, parent, chan, killed, kstack, nextpid, locks, ticks,
                   thread, panicked>>

scheduler_release(c) ==
    /\ Up
    /\ cpu[c].on = None /\ cpu[c].loop = "scan"
    /\ Scanned(c) = {}
    /\ ptable_lock' = NoCPU
    /\ cpu' = [cpu EXCEPT ![c] = [popcli(@) EXCEPT !.loop = "sti",
                                                   !.scan = 1]]
    /\ UNCHANGED <<proc, tickslock, ticks, thread, panicked>>

\* Where a thread that calls sched() goes on when it is switched to again.
Resumes == [sched_exit |-> "dead", sched_wait |-> "waited",
            sched_sleep |-> "slept"]

InSched(p) == yielding[p] = "sched" \/
              (yielding[p] = "no" /\ pc[p] \in DOMAIN Resumes)

\* The four tests, then swtch(&p->context, mycpu()->scheduler), after which
\* scheduler() sets c->proc = 0.
sched(c, p) ==
    /\ Up /\ cpu[c].on = p /\ cpu[c].irq = "no" /\ InSched(p)
    /\ IF ptable_lock # c \/ cpu[c].ncli # 1 \/ state[p] = "RUNNING"
                          \/ cpu[c].ief
       THEN panicked' = "sched" /\ UNCHANGED <<cpu, pc, yielding, intena>>
       ELSE /\ intena' = [intena EXCEPT ![p] = cpu[c].intena]
            /\ cpu' = [cpu EXCEPT ![c].on = None, ![c].proc = None]
            /\ IF yielding[p] = "sched"
               THEN /\ yielding' = [yielding EXCEPT ![p] = "yielded"]
                    /\ UNCHANGED pc
               ELSE Goto(p, Resumes[pc[p]]) /\ UNCHANGED yielding
            /\ UNCHANGED panicked
    /\ UNCHANGED <<proc, locks, ticks, np, nap>>

\* sched() returns: mycpu()->intena = intena.
Returned(c, p) == [cpu[c] EXCEPT !.intena = intena[p]]

\* ... and its local variable is gone.
Forget(p) == intena' = [intena EXCEPT ![p] = FALSE]
-----------------------------------------------------------------------------
(* Timer interrupts: trap() and yield() *)

\* The end of trap() on c, whose record is now r: exit() if a killed process
\* was in user space, yield() if there is a process, or iret.
trap_end(c, r) ==
    LET p == r.on
    IN  IF p = None
        THEN /\ cpu' = [cpu EXCEPT ![c] = [r EXCEPT !.irq = "no", !.ief = TRUE]]
             /\ UNCHANGED <<pc, yielding>>
        ELSE /\ cpu' = [cpu EXCEPT ![c] = [r EXCEPT !.irq = "no"]]
             /\ IF killed[p] /\ pc[p] = "user"
                THEN Goto(p, "exit") /\ UNCHANGED yielding
                ELSE /\ yielding' = [yielding EXCEPT ![p] = "yield"]
                     /\ UNCHANGED pc

\* A timer interrupt; the gate clears the interrupt flag.
timer(c) ==
    /\ Up
    /\ cpu[c].ief /\ cpu[c].irq = "no"
    /\ LET r == [cpu[c] EXCEPT !.ief = FALSE]
       IN  IF c = BootCPU
           THEN /\ cpu' = [cpu EXCEPT ![c] = [r EXCEPT !.irq = "timer"]]
                /\ UNCHANGED <<pc, yielding>>
           ELSE trap_end(c, r)
    /\ UNCHANGED <<proc, locks, ticks, intena, np, nap, panicked>>

\* acquire(&tickslock); ticks++
trap_tick(c) ==
    /\ Up
    /\ cpu[c].irq = "timer"
    /\ tickslock = NoCPU
    /\ tickslock' = c
    /\ ticks' = (ticks + 1) % UINT
    /\ cpu' = [cpu EXCEPT ![c] = [pushcli(@) EXCEPT !.irq = "tick"]]
    /\ UNCHANGED <<proc, ptable_lock, thread, panicked>>

\* The slots wakeup1(ch) makes RUNNABLE.
Sleepers(ch) == {p \in Slot : state[p] = "SLEEPING" /\ chan[p] = ch}

wakeup1(ch) ==
    state' = [p \in Slot |-> IF p \in Sleepers(ch) THEN "RUNNABLE" ELSE state[p]]

\* wakeup(&ticks); release(&tickslock)
trap_wakeup(c) ==
    /\ Up
    /\ cpu[c].irq = "tick"
    /\ ptable_lock = NoCPU
    /\ wakeup1(TicksChan)
    /\ tickslock' = NoCPU
    /\ trap_end(c, popcli(cpu[c]))
    /\ UNCHANGED <<pid, parent, chan, killed, kstack, nextpid, ptable_lock,
                   ticks, intena, np, nap, panicked>>

yield(c, p) ==
    /\ Up /\ cpu[c].on = p /\ yielding[p] = "yield"
    /\ acquire(c)
    /\ state' = [state EXCEPT ![p] = "RUNNABLE"]
    /\ yielding' = [yielding EXCEPT ![p] = "sched"]
    /\ UNCHANGED <<pid, parent, chan, killed, kstack, nextpid, ticks, pc,
                   intena, np, nap, panicked>>

\* yield() releases ptable.lock; trap() tests killed once more and returns.
yield_return(c, p) ==
    /\ Up /\ cpu[c].on = p /\ yielding[p] = "yielded"
    /\ yielding' = [yielding EXCEPT ![p] = "no"]
    /\ ptable_lock' = NoCPU
    /\ LET r == popcli(Returned(c, p))
       IN  IF killed[p] /\ pc[p] = "user"
           THEN Goto(p, "exit") /\ cpu' = [cpu EXCEPT ![c] = r]
           ELSE UNCHANGED pc /\ cpu' = [cpu EXCEPT ![c] = [r EXCEPT !.ief = TRUE]]
    /\ Forget(p)
    /\ UNCHANGED <<proc, tickslock, ticks, np, nap, panicked>>
-----------------------------------------------------------------------------
(* System calls *)

\* trap() of a system call: a killed process exits instead of making it.
Enter(p, l) == Goto(p, IF killed[p] THEN "exit" ELSE l)

\* init only forks and waits (src/init.c).
May(p, call) == call \in (IF p = initproc THEN {"fork", "wait"} ELSE Calls)

syscall(c, p) ==
    /\ At(c, p, "user")
    /\ \E call \in {"fork", "exit", "wait"} : May(p, call) /\ Enter(p, call)
    /\ UNCHANGED <<proc, locks, ticks, cpu, yielding, intena, np, nap, panicked>>

\* After the system call trap() tests killed again.
sysret(c, p) ==
    /\ At(c, p, "sysret")
    /\ Enter(p, "user")
    /\ UNCHANGED <<proc, locks, ticks, cpu, yielding, intena, np, nap, panicked>>

\* The default case of trap(): the process misbehaved, and exits.
fault(c, p) ==
    /\ At(c, p, "user")
    /\ May(p, "fault")
    /\ killed' = [killed EXCEPT ![p] = TRUE]
    /\ Goto(p, "exit")
    /\ UNCHANGED <<state, pid, parent, chan, kstack, nextpid, locks, ticks, cpu,
                   yielding, intena, np, nap, panicked>>

\* Mutant: a process that sleeps is not woken.
kill_leaves_asleep(c, p, x) ==
    /\ At(c, p, "user")
    /\ May(p, "kill")
    /\ IF killed[p]
       THEN Goto(p, "exit") /\ UNCHANGED <<killed, cpu, locks>>
       ELSE /\ section(c)
            /\ killed' = [q \in Slot |-> pid[q] = x \/ killed[q]]
            /\ Goto(p, "sysret")
    /\ UNCHANGED <<state, pid, parent, chan, kstack, nextpid, ticks, yielding,
                   intena, np, nap, panicked>>

\* kill(x): any slot with that pid, in use or not, is marked killed.
kill(c, p, x) ==
    /\ At(c, p, "user")
    /\ May(p, "kill")
    /\ IF killed[p]
       THEN Goto(p, "exit") /\ UNCHANGED <<state, killed, cpu, locks>>
       ELSE /\ section(c)
            /\ LET S == First({q \in Slot : pid[q] = x})
               IN  /\ killed' = [q \in Slot |-> q \in S \/ killed[q]]
                   /\ state' = [q \in Slot |->
                        IF q \in S /\ state[q] = "SLEEPING" THEN "RUNNABLE"
                        ELSE state[q]]
            /\ Goto(p, "sysret")
    /\ UNCHANGED <<pid, parent, chan, kstack, nextpid, ticks, yielding, intena,
                   np, nap, panicked>>
-----------------------------------------------------------------------------
(* fork() *)

Unused == {q \in Slot : state[q] = "UNUSED"}

\* The locked part of allocproc().
allocproc(c, p) ==
    /\ At(c, p, "fork")
    /\ section(c)
    /\ IF Unused = {} \/ nextpid > MAXPID
       THEN Goto(p, "sysret") /\ UNCHANGED <<state, pid, nextpid, np>>
       ELSE \E q \in First(Unused) :
                /\ state' = [state EXCEPT ![q] = "EMBRYO"]
                /\ pid' = [pid EXCEPT ![q] = nextpid]
                /\ nextpid' = nextpid + 1
                /\ np' = [np EXCEPT ![p] = q]
                /\ Goto(p, "fork_mem")
    /\ UNCHANGED <<parent, chan, killed, kstack, ticks, yielding, intena, nap,
                   panicked>>

\* kalloc() of the stack or copyuvm() fails: the slot is given back, without
\* ptable.lock and with the rest of it as it is.
fork_fails(c, p) ==
    /\ At(c, p, "fork_mem")
    /\ state' = [state EXCEPT ![np[p]] = "UNUSED"]
    /\ np' = [np EXCEPT ![p] = None]
    /\ Goto(p, "sysret")
    /\ UNCHANGED <<pid, parent, chan, killed, kstack, nextpid, locks, ticks, cpu,
                   yielding, intena, nap, panicked>>

fork_copies(c, p) ==
    /\ At(c, p, "fork_mem")
    /\ kstack' = [kstack EXCEPT ![np[p]] = TRUE]
    /\ parent' = [parent EXCEPT ![np[p]] = p]
    /\ pc' = [pc EXCEPT ![p] = "fork_run", ![np[p]] = "forkret"]
    /\ UNCHANGED <<state, pid, chan, killed, nextpid, locks, ticks, cpu,
                   yielding, intena, np, nap, panicked>>

fork_run(c, p) ==
    /\ At(c, p, "fork_run")
    /\ section(c)
    /\ state' = [state EXCEPT ![np[p]] = "RUNNABLE"]
    /\ np' = [np EXCEPT ![p] = None]
    /\ Goto(p, "sysret")
    /\ UNCHANGED <<pid, parent, chan, killed, kstack, nextpid, ticks, yielding,
                   intena, nap, panicked>>

\* The child's first run: release ptable.lock, and to user space.
forkret(c, p) ==
    /\ At(c, p, "forkret")
    /\ ptable_lock' = NoCPU
    /\ cpu' = [cpu EXCEPT ![c] = [popcli(@) EXCEPT !.ief = TRUE]]
    /\ Goto(p, "user")
    /\ UNCHANGED <<proc, tickslock, ticks, yielding, intena, np, nap, panicked>>
-----------------------------------------------------------------------------
(* exit() and wait() *)

Children(p) == {q \in Slot : parent[q] = p}
Zombies(p) == {q \in Children(p) : state[q] = "ZOMBIE"}

\* Mutant: nobody is woken.
Woken_nobody(p) == {}

\* wakeup1() of the parent, and of init if it is handed a zombie.
Woken(p) == Sleepers(parent[p]) \cup
            (IF Zombies(p) = {} THEN {} ELSE Sleepers(initproc))

\* Mutants: ZOMBIE without the lock; the children keep their parent.
exit_unlocked(c, p) ==
    /\ At(c, p, "exit")
    /\ state' = [q \in Slot |-> IF q = p THEN "ZOMBIE"
                                ELSE IF q \in Woken(p) THEN "RUNNABLE"
                                ELSE state[q]]
    /\ parent' = [q \in Slot |-> IF q \in Children(p) THEN initproc
                                 ELSE parent[q]]
    /\ Goto(p, "sched_exit")
    /\ UNCHANGED <<pid, chan, killed, kstack, nextpid, locks, ticks, cpu,
                   yielding, intena, np, nap, panicked>>

exit_keeps_children(c, p) ==
    /\ At(c, p, "exit")
    /\ acquire(c)
    /\ state' = [q \in Slot |-> IF q = p THEN "ZOMBIE"
                                ELSE IF q \in Woken(p) THEN "RUNNABLE"
                                ELSE state[q]]
    /\ Goto(p, "sched_exit")
    /\ UNCHANGED <<parent, panicked, pid, chan, killed, kstack, nextpid, ticks,
                   yielding, intena, np, nap>>

\* The part of exit() after the files are closed.
exit(c, p) ==
    /\ At(c, p, "exit")
    /\ IF p = initproc
       THEN panicked' = "init exiting" /\ UNCHANGED <<state, parent, pc, cpu, locks>>
       ELSE /\ acquire(c)
            /\ state' = [q \in Slot |-> IF q = p THEN "ZOMBIE"
                                        ELSE IF q \in Woken(p) THEN "RUNNABLE"
                                        ELSE state[q]]
            /\ parent' = [q \in Slot |-> IF q \in Children(p) THEN initproc
                                         ELSE parent[q]]
            /\ Goto(p, "sched_exit")
            /\ UNCHANGED panicked
    /\ UNCHANGED <<pid, chan, killed, kstack, nextpid, ticks, yielding, intena,
                   np, nap>>

\* A pass of the loop of wait() that finds a zombie.
Reap(q) ==
    /\ kstack' = [kstack EXCEPT ![q] = FALSE]
    /\ pid' = [pid EXCEPT ![q] = 0]
    /\ parent' = [parent EXCEPT ![q] = None]
    /\ killed' = [killed EXCEPT ![q] = FALSE]
    /\ state' = [state EXCEPT ![q] = "UNUSED"]

wait_reap(p) ==
    /\ Zombies(p) # {}
    /\ \E q \in First(Zombies(p)) : Reap(q)
    /\ chan' = [chan EXCEPT ![p] = None]
    /\ Goto(p, "sysret")

wait_fails(p) ==
    /\ Zombies(p) = {}
    /\ Children(p) = {} \/ killed[p]
    /\ chan' = [chan EXCEPT ![p] = None]
    /\ Goto(p, "sysret")
    /\ UNCHANGED <<state, pid, parent, killed, kstack>>

wait_sleeps(p) ==
    /\ Zombies(p) = {}
    /\ Children(p) # {} /\ ~killed[p]
    /\ chan' = [chan EXCEPT ![p] = p]
    /\ state' = [state EXCEPT ![p] = "SLEEPING"]
    /\ Goto(p, "sched_wait")
    /\ UNCHANGED <<pid, parent, killed, kstack>>

\* wait() from its acquire(&ptable.lock) to its release() or its sleep().
wait(c, p) ==
    /\ At(c, p, "wait")
    /\ \/ section(c) /\ (wait_reap(p) \/ wait_fails(p))
       \/ acquire(c) /\ wait_sleeps(p)
    /\ UNCHANGED <<nextpid, ticks, yielding, intena, np, nap, panicked>>

\* sleep() returns into the loop, with ptable.lock held.
wait_again(c, p) ==
    /\ At(c, p, "waited")
    /\ \/ /\ wait_reap(p) \/ wait_fails(p)
          /\ ptable_lock' = NoCPU
          /\ cpu' = [cpu EXCEPT ![c] = popcli(Returned(c, p))]
       \/ /\ wait_sleeps(p)
          /\ cpu' = [cpu EXCEPT ![c] = Returned(c, p)]
          /\ UNCHANGED ptable_lock
    /\ Forget(p)
    /\ UNCHANGED <<nextpid, tickslock, ticks, yielding, np, nap,
                   panicked>>
-----------------------------------------------------------------------------
(* sys_sleep() *)

sys_sleep(c, p, n) ==
    /\ At(c, p, "user")
    /\ May(p, "sleep")
    /\ Enter(p, "sys_sleep")
    /\ nap' = [nap EXCEPT ![p].n = n]
    /\ UNCHANGED <<proc, locks, ticks, cpu, yielding, intena, np, panicked>>

\* acquire(&tickslock), before the loop or at the end of sleep().
sleep_acquire(c, p) ==
    /\ At(c, p, "sys_sleep") \/ At(c, p, "relock")
    /\ tickslock = NoCPU
    /\ tickslock' = c
    /\ cpu' = [cpu EXCEPT ![c] = pushcli(@)]
    /\ nap' = IF pc[p] = "sys_sleep" THEN [nap EXCEPT ![p].ticks0 = ticks] ELSE nap
    /\ Goto(p, "while_ticks")
    /\ UNCHANGED <<proc, ptable_lock, ticks, yielding, intena, np, panicked>>

\* ticks - ticks0 in unsigned arithmetic.
Elapsed(p) == (ticks - nap[p].ticks0) % UINT

\* Mutant: tickslock is released before ptable.lock is taken.
while_ticks_unlocks(c, p) ==
    /\ At(c, p, "while_ticks")
    /\ tickslock' = NoCPU
    /\ Goto(p, IF Elapsed(p) >= nap[p].n \/ killed[p] THEN "sysret" ELSE "sleep")
    /\ UNCHANGED <<proc, cpu, ptable_lock, ticks, yielding, intena, np, nap,
                   panicked>>

while_ticks(c, p) ==
    /\ At(c, p, "while_ticks")
    /\ IF Elapsed(p) >= nap[p].n \/ killed[p]
       THEN /\ tickslock' = NoCPU
            /\ cpu' = [cpu EXCEPT ![c] = popcli(@)]
            /\ Goto(p, "sysret")
       ELSE Goto(p, "sleep") /\ UNCHANGED <<tickslock, cpu>>
    /\ UNCHANGED <<proc, ptable_lock, ticks, yielding, intena, np, nap, panicked>>

\* sleep(&ticks, &tickslock) up to sched(): acquire(&ptable.lock) and then
\* release(&tickslock).
sleep(c, p) ==
    /\ At(c, p, "sleep")
    /\ ptable_lock = NoCPU
    /\ ptable_lock' = c
    /\ tickslock' = NoCPU
    /\ cpu' = [cpu EXCEPT ![c] = popcli(pushcli(@))]
    /\ chan' = [chan EXCEPT ![p] = TicksChan]
    /\ state' = [state EXCEPT ![p] = "SLEEPING"]
    /\ Goto(p, "sched_sleep")
    /\ UNCHANGED <<pid, parent, killed, kstack, nextpid, ticks, yielding, intena,
                   np, nap, panicked>>

slept(c, p) ==
    /\ At(c, p, "slept")
    /\ chan' = [chan EXCEPT ![p] = None]
    /\ ptable_lock' = NoCPU
    /\ cpu' = [cpu EXCEPT ![c] = popcli(Returned(c, p))]
    /\ Goto(p, "relock")
    /\ Forget(p)
    /\ UNCHANGED <<state, pid, parent, killed, kstack, nextpid, tickslock, ticks,
                   yielding, np, nap, panicked>>
-----------------------------------------------------------------------------
\* panic() never returns, and the other CPUs stop.
halted == ~Up /\ UNCHANGED vars

scheduler(c) ==
    \/ sti(c) \/ scheduler_acquire(c) \/ scheduler_swtch(c)
    \/ scheduler_release(c)

trap(c) == timer(c) \/ trap_tick(c) \/ trap_wakeup(c)

\* Giving up the CPU, and coming back to an interrupted thread.
Switch(c, p) == sched(c, p) \/ yield(c, p) \/ yield_return(c, p)

\* What the kernel thread of p does on c.
Thread(c, p) ==
    \/ sysret(c, p)
    \/ allocproc(c, p) \/ fork_fails(c, p) \/ fork_copies(c, p)
    \/ fork_run(c, p) \/ forkret(c, p)
    \/ exit(c, p)
    \/ wait(c, p) \/ wait_again(c, p)
    \/ sleep_acquire(c, p) \/ while_ticks(c, p) \/ sleep(c, p) \/ slept(c, p)

\* What the program of p does on c.
User(c, p) ==
    \/ syscall(c, p)
    \/ fault(c, p)
    \/ \E x \in Victims : kill(c, p, x)
    \/ \E n \in 0..MAXSLEEP : sys_sleep(c, p, n)

Next ==
    \/ \E c \in CPU : scheduler(c) \/ trap(c)
    \/ \E c \in CPU, p \in Slot : Switch(c, p) \/ Thread(c, p) \/ User(c, p)
    \/ halted

Spec == Init /\ [][Next]_vars

\* A timer interrupt stays pending until it is taken and its handler runs to
\* its end; between two of them the interrupted code gets on, be it the
\* scheduler or a kernel thread; init.c always comes back to wait().
InitWaits(c) == syscall(c, initproc) /\ pc'[initproc] = "wait"

Fairness ==
    \A c \in CPU :
        /\ SF_vars(timer(c))
        /\ WF_vars(trap_tick(c) \/ trap_wakeup(c) \/ \E p \in Slot : Switch(c, p))
        /\ SF_vars(scheduler(c))
        /\ \A p \in Slot : SF_vars(Thread(c, p))
        /\ SF_vars(InitWaits(c))

FairSpec == Spec /\ Fairness
-----------------------------------------------------------------------------
(* Properties *)

\* No lost wakeup in sys_sleep(): if a sleeper's time is over, counted in ticks
\* since it came and modulo the width of ticks, the timer interrupt that will
\* wake it is in progress.
NoLostTick ==
    \A p \in Slot : state[p] = "SLEEPING" /\ chan[p] = TicksChan =>
        \/ (ticks - nap[p].ticks0) % UINT < nap[p].n
        \/ \E c \in CPU : cpu[c].irq = "tick"

\* No child is lost.  The parent of a process (other than init) is a process
\* that can still wait() for it: exit() gives the children of a process to init
\* in the same critical section in which it becomes a zombie.  And no wakeup in
\* wait() is lost: a process asleep there has children, none of them a zombie,
\* and is not killed.
NoLostChild ==
    /\ \A p \in Slot \ {initproc} : state[p] \notin {"UNUSED", "EMBRYO"} =>
           /\ parent[p] # None
           /\ state[parent[p]] \notin {"UNUSED", "EMBRYO", "ZOMBIE"}
    /\ \A p \in Slot : state[p] = "SLEEPING" /\ chan[p] = p =>
           Children(p) # {} /\ Zombies(p) = {} /\ ~killed[p]

\* A context switch is safe.  A CPU runs on the kernel stack of a process only
\* if the stack is allocated and no other CPU runs on it: exit(), yield() and
\* sleep() hold ptable.lock until swtch() has left the stack, so that neither
\* another scheduler() nor the kfree() in the parent's wait() can reach it
\* before.  None of the panics of sched() ("sched ptable.lock", "sched locks",
\* "sched running", "sched interruptible") is reached, and no CPU comes back to
\* a process that exited ("zombie exit"): the only way to stop the machine here
\* is to make init exit.  And intena "is a property of this kernel thread, not
\* this CPU": a system call that slept runs on with interrupts enabled and no
\* lock held, whatever CPU it comes back on, and so does user code.
SwitchSafe ==
    /\ TypeOK
    /\ \A c, d \in CPU : cpu[c].on = cpu[d].on /\ cpu[c].on # None => c = d
    /\ \A c \in CPU : cpu[c].on # None => kstack[cpu[c].on] /\ pc[cpu[c].on] # "dead"
    /\ panicked \in {"no", "init exiting"}
    /\ \A c \in CPU, p \in Slot :
           /\ Runs(c, p)
           /\ pc[p] \in {"user", "sysret", "fork", "fork_mem", "fork_run", "wait",
                         "sys_sleep", "relock"}
           => cpu[c].ief /\ cpu[c].ncli = 0

\* "Wake process from sleep if necessary": a killed process is not asleep.
KilledIsAwake == \A p \in Slot : killed[p] => state[p] # "SLEEPING"

\* "Kill the process with the given pid": no other process is killed, so a
\* process does not start its life killed.
BornAlive ==
    [][\A p \in Slot : state[p] = "UNUSED" /\ state'[p] = "EMBRYO" => ~killed'[p]]_vars

\* Every zombie that init inherited is reaped.
OrphanReaped ==
    \A p \in Slot : state[p] = "ZOMBIE" /\ parent[p] = initproc
                       ~> state[p] = "UNUSED" \/ ~Up

\* A killed process exits, asleep, in the kernel or in user space.
KilledExits ==
    \A p \in Slot : killed[p] /\ state[p] \in {"SLEEPING", "RUNNABLE", "RUNNING"}
                       ~> state[p] \in {"ZOMBIE", "UNUSED"} \/ ~Up
=============================================================================
