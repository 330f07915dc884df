-------------------------- MODULE ProcSwitchProofs --------------------------
(***************************************************************************)
(* The inductive invariant of module Proc behind the theorems of           *)
(* ProcProofs, for any number of CPUs and process slots, and the proofs    *)
(* that the steps of a process on its CPU preserve it.                     *)
(*                                                                         *)
(* SwitchInv says which code holds ptable.lock and tickslock, and what the *)
(* interrupt flag, ncli, the process states and the resume points of the   *)
(* threads are there.  A step of one CPU disturbs it only at that CPU and  *)
(* at the process it runs (LocalStep), so there is one lemma per step of   *)
(* the code.                                                               *)
(***************************************************************************)
EXTENDS Proc, TLAPS

(* The inductive invariant *)

\* Where a kernel thread runs with interrupts enabled and no lock held.
Open == {"user", "sysret", "fork", "fork_mem", "fork_run", "wait", "sys_sleep",
         "relock"}

Forking == {"fork_mem", "fork_run"}

\* Thread p has, or will find when it is switched to, ptable.lock held.
Locked(p) ==
    \/ yielding[p] \in {"sched", "yielded"}
    \/ /\ yielding[p] = "no"
       /\ pc[p] \in {"sched_exit", "dead", "sched_wait", "waited", "sched_sleep",
                     "slept", "forkret"}

HasPtable(c) ==
    IF cpu[c].on = None THEN cpu[c].loop = "scan" ELSE Locked(cpu[c].on)

HasTicks(c) ==
    \/ cpu[c].irq = "tick"
    \/ cpu[c].on # None /\ pc[cpu[c].on] \in {"while_ticks", "sleep"}

\* The state of a process whose stack a CPU is on: RUNNING, but between the
\* assignment to p->state and the swtch() of sched().
OnState(p) ==
    IF yielding[p] = "sched" THEN "RUNNABLE"
    ELSE IF yielding[p] # "no" THEN "RUNNING"
    ELSE IF pc[p] = "sched_exit" THEN "ZOMBIE"
    ELSE IF pc[p] \in {"sched_wait", "sched_sleep"} THEN "SLEEPING"
    ELSE "RUNNING"

\* A CPU on the stack of p.
OnOK(c, p) ==
    /\ cpu[c].loop = "scan"
    /\ pc[p] # "dead"
    /\ state[p] = OnState(p)
    /\ cpu[c].irq # "no" \/ cpu[c].ief =>
           yielding[p] = "no" /\ pc[p] \in Open \cup {"exit"}
    /\ yielding[p] = "no" /\ pc[p] \in Open /\ cpu[c].irq = "no" => cpu[c].ief
    /\ pc[p] \in {"while_ticks", "sleep", "sched_wait", "sched_sleep"} => cpu[c].intena

\* The locks of a CPU are the ones the code it runs has taken, ncli counts
\* them, and interrupts are off while it has one.
CpuOK(c) ==
    /\ ptable_lock = c <=> HasPtable(c)
    /\ tickslock = c <=> HasTicks(c)
    /\ cpu[c].ncli = (IF ptable_lock = c THEN 1 ELSE 0) + (IF tickslock = c THEN 1 ELSE 0)
    /\ cpu[c].ief => cpu[c].ncli = 0 /\ cpu[c].irq = "no"
    /\ cpu[c].irq = "tick" => ~cpu[c].intena
    /\ cpu[c].on = None /\ cpu[c].irq # "no" => cpu[c].loop # "scan"
    /\ cpu[c].on # None => OnOK(c, cpu[c].on)

Alone == \A c, d \in CPU : cpu[c].on = cpu[d].on /\ cpu[c].on # None => c = d

\* A process that no CPU runs is at a point where it can be resumed, with
\* ptable.lock held, or it has ended or not begun.
Parked(p) ==
    \/ /\ state[p] = "RUNNABLE"
       /\ \/ yielding[p] = "yielded"
          \/ yielding[p] = "no" /\ pc[p] \in {"waited", "slept", "forkret"}
    \/ state[p] = "SLEEPING" /\ yielding[p] = "no" /\ pc[p] \in {"waited", "slept"}
    \/ state[p] = "ZOMBIE" /\ yielding[p] = "no" /\ pc[p] = "dead"
    \/ /\ state[p] \in {"UNUSED", "EMBRYO"}
       /\ yielding[p] = "no" /\ pc[p] \in {"dead", "forkret"}

Off(p) == \A c \in CPU : cpu[c].on # p

SlotOK(p) ==
    /\ state[p] \notin {"UNUSED", "EMBRYO"} => kstack[p]
    /\ yielding[p] # "no" => pc[p] \in Open \cup {"exit"}
    /\ yielding[p] = "no" /\ pc[p] \in {"waited", "slept"} => intena[p]
    /\ Off(p) => Parked(p)

\* The slot that fork() fills is nobody else's.
ForkInv ==
    /\ \A p \in Slot : pc[p] \in Forking => np[p] \in Slot /\ state[np[p]] = "EMBRYO"
    /\ \A p \in Slot : pc[p] = "fork_run" => kstack[np[p]] /\ pc[np[p]] = "forkret"
    /\ \A p, q \in Slot : pc[p] \in Forking /\ pc[q] \in Forking /\ np[p] = np[q] => p = q

SwitchInv ==
    /\ TypeOK
    /\ \A c \in CPU : CpuOK(c)
    /\ Alone
    /\ \A p \in Slot : SlotOK(p)
    /\ ForkInv
    /\ panicked \in {"no", "init exiting"}
-----------------------------------------------------------------------------
(* The CPU's record *)

CpuRec == [proc : Slot \cup {None}, ncli : Nat, intena : BOOLEAN, ief : BOOLEAN,
           on : Slot \cup {None}, loop : {"sti", "acquire", "scan"},
           scan : 1..(NPROC + 1), irq : {"no", "timer", "tick"}]

\* No slot is None.
LEMMA NoneIsNoSlot == None \notin Slot /\ initproc \in Slot /\ TicksChan \notin Slot
  BY ProcAssumption DEF Slot, None, initproc, TicksChan

\* What pushcli() does.
LEMMA Pushcli ==
    ASSUME NEW r \in CpuRec
    PROVE  /\ pushcli(r) \in CpuRec
           /\ pushcli(r).ncli = r.ncli + 1
           /\ ~pushcli(r).ief
           /\ r.ncli = 0 => pushcli(r).intena = r.ief
           /\ r.ncli # 0 => pushcli(r).intena = r.intena
           /\ pushcli(r).on = r.on /\ pushcli(r).loop = r.loop /\ pushcli(r).irq = r.irq
           /\ pushcli(r).proc = r.proc /\ pushcli(r).scan = r.scan
  <1> DEFINE i == IF r.ncli = 0 THEN r.ief ELSE r.intena
  <1>1. pushcli(r) = [r EXCEPT !.ncli = r.ncli + 1, !.ief = FALSE, !.intena = i]
    BY Zenon DEF pushcli
  <1>2. /\ r.ncli \in Nat /\ r.ief \in BOOLEAN /\ r.intena \in BOOLEAN
        /\ r.on \in Slot \cup {None} /\ r.proc \in Slot \cup {None}
        /\ r.loop \in {"sti", "acquire", "scan"} /\ r.scan \in 1..(NPROC + 1)
        /\ r.irq \in {"no", "timer", "tick"}
    BY Zenon DEF CpuRec
  <1>3. i \in BOOLEAN
    BY <1>2, Zenon
  <1>4. /\ r.ncli = 0 => i = r.ief
        /\ r.ncli # 0 => i = r.intena
    OBVIOUS
  <1> HIDE DEF i
  <1>5. pushcli(r) = [proc |-> r.proc, ncli |-> r.ncli + 1, intena |-> i, ief |-> FALSE,
                      on |-> r.on, loop |-> r.loop, scan |-> r.scan, irq |-> r.irq]
    BY <1>1, Zenon DEF CpuRec
  <1>6. pushcli(r) \in CpuRec
    BY <1>2, <1>3, <1>5 DEF CpuRec
  <1> QED
    BY <1>4, <1>5, <1>6

\* What popcli() does.
LEMMA Popcli ==
    ASSUME NEW r \in CpuRec, r.ncli > 0
    PROVE  /\ popcli(r) \in CpuRec
           /\ popcli(r).ncli = r.ncli - 1
           /\ r.ncli # 1 => popcli(r).ief = r.ief
           /\ r.ncli = 1 => (popcli(r).ief <=> r.ief \/ r.intena)
           /\ popcli(r).intena = r.intena
           /\ popcli(r).on = r.on /\ popcli(r).loop = r.loop /\ popcli(r).irq = r.irq
           /\ popcli(r).proc = r.proc /\ popcli(r).scan = r.scan
  <1> DEFINE i == r.ief \/ (r.ncli = 1 /\ r.intena)
  <1>1. popcli(r) = [r EXCEPT !.ncli = r.ncli - 1, !.ief = i]
    BY Zenon DEF popcli
  <1>2. /\ r.ncli \in Nat /\ r.ief \in BOOLEAN /\ r.intena \in BOOLEAN
        /\ r.on \in Slot \cup {None} /\ r.proc \in Slot \cup {None}
        /\ r.loop \in {"sti", "acquire", "scan"} /\ r.scan \in 1..(NPROC + 1)
        /\ r.irq \in {"no", "timer", "tick"}
    BY Zenon DEF CpuRec
  <1>3. i \in BOOLEAN
    OBVIOUS
  <1>4. /\ r.ncli # 1 => i = r.ief
        /\ r.ncli = 1 => (i <=> r.ief \/ r.intena)
    BY <1>2, Zenon
  <1> HIDE DEF i
  <1>5. popcli(r) = [proc |-> r.proc, ncli |-> r.ncli - 1, intena |-> r.intena, ief |-> i,
                      on |-> r.on, loop |-> r.loop, scan |-> r.scan, irq |-> r.irq]
    BY <1>1, Zenon DEF CpuRec
  <1>6. popcli(r) \in CpuRec
    BY <1>2, <1>3, <1>5 DEF CpuRec
  <1> QED
    BY <1>4, <1>5, <1>6
-----------------------------------------------------------------------------
(* What a step of one CPU leaves alone *)

\* What a step of CPU c may do to the process q that c does not run.
Moves(c, q) ==
    /\ yielding'[q] = yielding[q] /\ intena'[q] = intena[q]
    /\ \/ state'[q] = state[q] /\ pc'[q] = pc[q] /\ kstack'[q] = kstack[q]
       \/ /\ ptable_lock \in {NoCPU, c}
          /\ state[q] = "SLEEPING" /\ state'[q] = "RUNNABLE"
          /\ pc'[q] = pc[q] /\ kstack'[q] = kstack[q]
       \/ /\ ptable_lock \in {NoCPU, c}
          /\ state[q] = "ZOMBIE" /\ state'[q] = "UNUSED" /\ pc'[q] = pc[q]
       \/ /\ state[q] \in {"UNUSED", "EMBRYO"} /\ state'[q] \in {"UNUSED", "EMBRYO"}
          /\ pc'[q] \in {pc[q], "forkret"}
       \/ /\ state[q] = "EMBRYO" /\ state'[q] = "RUNNABLE"
          /\ pc[q] = "forkret" /\ pc'[q] = "forkret" /\ kstack'[q]

\* A step of CPU c on, from or to the stack of p (None: the scheduler's).
Local(c, p) ==
    /\ \A d \in CPU \ {c} : /\ cpu'[d] = cpu[d]
                            /\ ptable_lock' = d <=> ptable_lock = d
                            /\ tickslock' = d <=> tickslock = d
                            /\ p # None => cpu[d].on # p
    /\ cpu[c].on \in {p, None} /\ cpu'[c].on \in {p, None}
    /\ \A q \in Slot \ {p} : Moves(c, q)

\* A process that a CPU runs is RUNNING unless the CPU has ptable.lock.
LEMMA OnRunning ==
    ASSUME SwitchInv, NEW d \in CPU, cpu[d].on # None
    PROVE  /\ cpu[d].on \in Slot
           /\ state[cpu[d].on] \in {"RUNNABLE", "RUNNING", "SLEEPING", "ZOMBIE"}
           /\ ptable_lock # d => state[cpu[d].on] = "RUNNING"
  <1>1. cpu[d].on \in Slot
    BY Zenon DEF SwitchInv, TypeOK
  <1>2. state[cpu[d].on] = OnState(cpu[d].on) /\ (ptable_lock = d <=> Locked(cpu[d].on))
    BY Zenon DEF SwitchInv, CpuOK, OnOK, HasPtable
  <1>3. ~Locked(cpu[d].on) => OnState(cpu[d].on) = "RUNNING"
    BY <1>1, Zenon DEF Locked, OnState
  <1>4. OnState(cpu[d].on) \in {"RUNNABLE", "RUNNING", "SLEEPING", "ZOMBIE"}
    BY Zenon DEF OnState
  <1> QED
    BY <1>1, <1>2, <1>3, <1>4, Zenon

\* The other CPUs do not notice.
LEMMA OtherCpu ==
    ASSUME SwitchInv, NEW c \in CPU, NEW p \in Slot \cup {None}, Local(c, p),
           NEW d \in CPU \ {c}
    PROVE  CpuOK(d)'
  <1> DEFINE q == cpu[d].on
  <1>1. /\ cpu'[d] = cpu[d]
        /\ ptable_lock' = d <=> ptable_lock = d
        /\ tickslock' = d <=> tickslock = d
        /\ p # None => q # p
    BY Zenon DEF Local
  <1>2. CpuOK(d)
    BY Zenon DEF SwitchInv
  <1>3. CASE q = None
    BY <1>1, <1>2, <1>3, Zenon DEF CpuOK, HasPtable, HasTicks, None
  <1>4. CASE q # None
    <2>1. q \in Slot \ {p}
      BY <1>1, <1>4, OnRunning, Zenon
    <2>2. Moves(c, q)
      BY <2>1, Zenon DEF Local
    <2>3. yielding'[q] = yielding[q] /\ state'[q] = state[q] /\ pc'[q] = pc[q]
      <3>1. CASE ptable_lock \in {NoCPU, c}
        <4>1. ptable_lock # d
          BY <3>1, ProcAssumption, Zenon
        <4> QED
          BY <4>1, <1>4, <2>2, OnRunning, Zenon DEF Moves
      <3>2. CASE ptable_lock \notin {NoCPU, c}
        BY <3>2, <1>4, <2>2, OnRunning, Zenon DEF Moves
      <3> QED
        BY <3>1, <3>2, Zenon
    <2>4. OnOK(d, q) /\ (ptable_lock = d <=> Locked(q))
      BY <1>2, <1>4, Zenon DEF CpuOK, HasPtable
    <2>5. OnOK(d, q)'
      BY <1>1, <2>3, <2>4, Zenon DEF OnOK, OnState
    <2>6. Locked(q)' <=> Locked(q)
      BY <1>1, <2>3, Zenon DEF Locked
    <2>7. HasPtable(d)' <=> Locked(q)
      BY <1>1, <1>4, <2>6, Zenon DEF HasPtable
    <2>8. HasTicks(d)' <=> HasTicks(d)
      BY <1>1, <2>3, Zenon DEF HasTicks
    <2> QED
      BY <1>1, <1>2, <1>4, <2>4, <2>5, <2>7, <2>8, Zenon DEF CpuOK
  <1> QED
    BY <1>3, <1>4, Zenon

\* Nor do the processes that c does not run, but for what Moves says.
LEMMA OtherSlot ==
    ASSUME SwitchInv, NEW c \in CPU, NEW p \in Slot \cup {None}, Local(c, p),
           NEW q \in Slot \ {p}
    PROVE  SlotOK(q)'
  <1>1. Moves(c, q) /\ SlotOK(q)
    BY Zenon DEF Local, SwitchInv
  <1>2. Off(q)' <=> Off(q)
    <2>1. \A d \in CPU \ {c} : cpu'[d].on = cpu[d].on
      BY Zenon DEF Local
    <2>2. cpu[c].on # q /\ cpu'[c].on # q
      BY NoneIsNoSlot, Zenon DEF Local
    <2> QED
      BY <2>1, <2>2, Zenon DEF Off
  <1>3. state[q] \in {"UNUSED", "EMBRYO"} => Off(q)
    BY OnRunning, NoneIsNoSlot, Zenon DEF Off
  <1>4. state[q] = "ZOMBIE" /\ ptable_lock \in {NoCPU, c} => Off(q)
    <2>1. cpu[c].on # q
      BY NoneIsNoSlot, Zenon DEF Local
    <2> QED
      BY <2>1, OnRunning, NoneIsNoSlot, ProcAssumption, Zenon DEF Off
  <1>5. Off(q) => Parked(q)
    BY <1>1, Zenon DEF SlotOK
  <1>6. (Off(q) => Parked(q))'
    BY <1>1, <1>2, <1>3, <1>4, <1>5, Zenon DEF Moves, Parked
  <1> QED
    BY <1>1, <1>3, <1>4, <1>5, <1>6, Zenon DEF SlotOK, Moves, Parked, Open

\* So the invariant is preserved when c and p are as they should be.
LEMMA LocalStep ==
    ASSUME SwitchInv, NEW c \in CPU, NEW p \in Slot \cup {None}, Local(c, p),
           TypeOK', CpuOK(c)', p # None => SlotOK(p)', ForkInv',
           panicked' \in {"no", "init exiting"}
    PROVE  SwitchInv'
  <1>1. \A d \in CPU : CpuOK(d)'
    BY OtherCpu, Zenon
  <1>2. ASSUME NEW q \in Slot PROVE SlotOK(q)'
    <2>1. CASE q = p
      <3>1. p # None
        BY <2>1, NoneIsNoSlot, Zenon
      <3> QED
        BY <2>1, <3>1, Zenon DEF SlotOK, Off, Parked
    <2>2. CASE q # p
      BY <2>2, OtherSlot, Zenon
    <2> QED
      BY <2>1, <2>2, Zenon
  <1>3. Alone'
    <2>1. Alone /\ \A d \in CPU : cpu[d].on \in Slot \cup {None}
      BY Zenon DEF SwitchInv, TypeOK
    <2>2. \A d \in CPU \ {c} : cpu'[d].on = cpu[d].on /\ (p # None => cpu[d].on # p)
      BY Zenon DEF Local
    <2>3. cpu'[c].on \in {p, None}
      BY Zenon DEF Local
    <2> QED
      BY <2>1, <2>2, <2>3, Zenon DEF Alone
  <1> QED
    BY <1>1, <1>2, <1>3, Zenon DEF SwitchInv
-----------------------------------------------------------------------------
(* Steps of a kernel thread *)

\* What the type invariant says of the CPUs.
LEMMA CpuType ==
    ASSUME TypeOK
    PROVE  cpu \in [CPU -> CpuRec]
  BY Zenon DEF TypeOK, CpuRec

\* What it says of the others.
LEMMA Types ==
    ASSUME SwitchInv
    PROVE  /\ state \in [Slot -> States] /\ pid \in [Slot -> Nat]
           /\ parent \in [Slot -> Slot \cup {None}]
           /\ chan \in [Slot -> Slot \cup {None, TicksChan}]
           /\ killed \in [Slot -> BOOLEAN] /\ kstack \in [Slot -> BOOLEAN]
           /\ nextpid \in Nat \ {0}
           /\ ptable_lock \in CPU \cup {NoCPU} /\ tickslock \in CPU \cup {NoCPU}
           /\ ticks \in 0..(UINT - 1)
           /\ cpu \in [CPU -> CpuRec]
           /\ pc \in [Slot -> PCs]
           /\ yielding \in [Slot -> {"no", "yield", "sched", "yielded"}]
           /\ intena \in [Slot -> BOOLEAN] /\ np \in [Slot -> Slot \cup {None}]
           /\ nap \in [Slot -> [ticks0 : 0..(UINT - 1), n : 0..MAXSLEEP]]
  <1>1. TypeOK
    BY Zenon DEF SwitchInv
  <1> QED
    BY <1>1, Zenon DEF TypeOK, CpuRec

\* A thread goes on.
LEMMA Moved ==
    ASSUME SwitchInv, NEW p \in Slot, NEW l \in PCs, pc' = [pc EXCEPT ![p] = l]
    PROVE  pc' \in [Slot -> PCs] /\ pc'[p] = l /\ \A q \in Slot \ {p} : pc'[q] = pc[q]
  BY Types, Zenon

\* A step that keeps every variable or its type keeps the type invariant.
LEMMA TypeNext ==
    ASSUME TypeOK,
           state' = state \/ state' \in [Slot -> States],
           pid' = pid \/ pid' \in [Slot -> Nat],
           parent' = parent \/ parent' \in [Slot -> Slot \cup {None}],
           chan' = chan \/ chan' \in [Slot -> Slot \cup {None, TicksChan}],
           killed' = killed \/ killed' \in [Slot -> BOOLEAN],
           kstack' = kstack \/ kstack' \in [Slot -> BOOLEAN],
           nextpid' = nextpid \/ nextpid' \in Nat \ {0},
           ptable_lock' = ptable_lock \/ ptable_lock' \in CPU \cup {NoCPU},
           tickslock' = tickslock \/ tickslock' \in CPU \cup {NoCPU},
           ticks' = ticks \/ ticks' \in 0..(UINT - 1),
           cpu' = cpu \/ cpu' \in [CPU -> CpuRec],
           pc' = pc \/ pc' \in [Slot -> PCs],
           yielding' = yielding \/ yielding' \in [Slot -> {"no", "yield", "sched", "yielded"}],
           intena' = intena \/ intena' \in [Slot -> BOOLEAN],
           np' = np \/ np' \in [Slot -> Slot \cup {None}],
           nap' = nap \/ nap' \in [Slot -> [ticks0 : 0..(UINT - 1), n : 0..MAXSLEEP]]
    PROVE  TypeOK'
  <1>1. cpu' \in [CPU -> CpuRec]
    BY CpuType, Zenon
  <1>2. /\ state' \in [Slot -> States]
        /\ pid' \in [Slot -> Nat]
        /\ parent' \in [Slot -> Slot \cup {None}]
        /\ chan' \in [Slot -> Slot \cup {None, TicksChan}]
    BY Zenon DEF TypeOK
  <1>3. killed' \in [Slot -> BOOLEAN]
    BY Zenon DEF TypeOK
  <1>4. kstack' \in [Slot -> BOOLEAN]
    BY Zenon DEF TypeOK
  <1>5. /\ nextpid' \in Nat \ {0}
        /\ ptable_lock' \in CPU \cup {NoCPU}
        /\ tickslock' \in CPU \cup {NoCPU}
        /\ ticks' \in 0..(UINT - 1)
    BY Zenon DEF TypeOK
  <1>6. /\ pc' \in [Slot -> PCs]
        /\ yielding' \in [Slot -> {"no", "yield", "sched", "yielded"}]
    BY Zenon DEF TypeOK
  <1>7. intena' \in [Slot -> BOOLEAN]
    BY Zenon DEF TypeOK
  <1>8. np' \in [Slot -> Slot \cup {None}]
    BY Zenon DEF TypeOK
  <1>9. nap' \in [Slot -> [ticks0 : 0..(UINT - 1), n : 0..MAXSLEEP]]
    BY Zenon DEF TypeOK
  <1> QED
    BY <1>1, <1>2, <1>3, <1>4, <1>5, <1>6, <1>7, <1>8, <1>9, Zenon DEF TypeOK, CpuRec

\* An assignment to the record of one CPU.
LEMMA CpuUpdate ==
    ASSUME TypeOK, NEW c \in CPU, NEW r \in CpuRec, cpu' = [cpu EXCEPT ![c] = r]
    PROVE  /\ cpu' \in [CPU -> CpuRec]
           /\ cpu'[c] = r
           /\ \A d \in CPU \ {c} : cpu'[d] = cpu[d]
  BY CpuType, Zenon

\* The CPU that runs p.
LEMMA ThreadFacts ==
    ASSUME SwitchInv, NEW c \in CPU, NEW p \in Slot, cpu[c].on = p
    PROVE  /\ cpu[c] \in CpuRec /\ p # None
           /\ OnOK(c, p) /\ SlotOK(p)
           /\ ptable_lock = c <=> Locked(p)
           /\ tickslock = c <=> HasTicks(c)
           /\ \A d \in CPU \ {c} : cpu[d].on # p
  <1>1. cpu[c] \in CpuRec /\ p # None
    BY CpuType, NoneIsNoSlot, Zenon DEF SwitchInv
  <1>2. CpuOK(c) /\ SlotOK(p) /\ Alone
    BY Zenon DEF SwitchInv
  <1> QED
    BY <1>1, <1>2, Zenon DEF CpuOK, HasPtable, Alone

\* fork()'s slots when no slot is taken or given back.
LEMMA ForkFrame ==
    ASSUME SwitchInv, np' = np,
           \A q \in Slot : pc'[q] \in Forking => pc'[q] = pc[q],
           \A q \in Slot : state[q] = "EMBRYO" =>
               state'[q] = "EMBRYO" /\ kstack'[q] = kstack[q] /\ pc'[q] = pc[q]
    PROVE  ForkInv'
  <1>1. ForkInv
    BY Zenon DEF SwitchInv
  <1> QED
    BY <1>1 DEF ForkInv, Forking

\* A step of p between two places where it has no lock.
LEMMA OpenStep ==
    ASSUME SwitchInv, NEW c \in CPU, NEW p \in Slot, Runs(c, p), pc[p] \in Open,
           cpu'[c].on = cpu[c].on, cpu'[c].loop = cpu[c].loop,
           cpu'[c].irq = cpu[c].irq, cpu'[c].ncli = cpu[c].ncli,
           cpu'[c].ief = cpu[c].ief,
           \A d \in CPU \ {c} : cpu'[d] = cpu[d],
           UNCHANGED <<locks, panicked>>,
           yielding'[p] = yielding[p], intena'[p] = intena[p],
           state'[p] = state[p], kstack'[p] = kstack[p],
           pc'[p] \in Open \cup {"exit"},
           \A q \in Slot \ {p} : Moves(c, q),
           TypeOK', ForkInv'
    PROVE  SwitchInv'
  <1> USE DEF locks, Runs
  <1>1. /\ cpu[c].on = p /\ p # None /\ OnOK(c, p) /\ SlotOK(p) /\ CpuOK(c)
        /\ \A d \in CPU \ {c} : cpu[d].on # p
    BY ThreadFacts, Zenon DEF SwitchInv
  <1>2. Local(c, p)
    BY <1>1, Zenon DEF Local
  <1>3. state[p] = "RUNNING" /\ cpu[c].ief
    BY <1>1, Zenon DEF OnOK, OnState, Open
  <1>4. OnOK(c, p)'
    BY <1>1, <1>3, Zenon DEF OnOK, OnState, Open
  <1>5. ~HasPtable(c) /\ ~HasPtable(c)' /\ ~HasTicks(c) /\ ~HasTicks(c)'
    BY <1>1, Zenon DEF HasPtable, HasTicks, Locked, Open
  <1>6. CpuOK(c)'
    BY <1>1, <1>4, <1>5, Zenon DEF CpuOK
  <1>7. SlotOK(p)'
    BY <1>1, <1>3, Zenon DEF SlotOK, Off, Open
  <1>8. panicked' \in {"no", "init exiting"}
    BY Zenon DEF SwitchInv
  <1> QED
    BY <1>1, <1>2, <1>6, <1>7, <1>8, LocalStep, Zenon

\* A critical section of ptable.lock leaves the CPU as it was.
LEMMA SectionCpu ==
    ASSUME SwitchInv, NEW c \in CPU, NEW p \in Slot, Runs(c, p), pc[p] \in Open,
           section(c)
    PROVE  /\ cpu' \in [CPU -> CpuRec]
           /\ cpu'[c].on = cpu[c].on /\ cpu'[c].loop = cpu[c].loop
           /\ cpu'[c].irq = cpu[c].irq /\ cpu'[c].ncli = cpu[c].ncli
           /\ cpu'[c].ief = cpu[c].ief
           /\ \A d \in CPU \ {c} : cpu'[d] = cpu[d]
           /\ ptable_lock = NoCPU /\ UNCHANGED locks
  <1>1. cpu[c] \in CpuRec /\ OnOK(c, p) /\ CpuOK(c) /\ TypeOK
    BY ThreadFacts, Zenon DEF SwitchInv, Runs
  <1>2. cpu[c].ief /\ cpu[c].ncli = 0 /\ cpu[c].ief \in BOOLEAN
    BY <1>1, Zenon DEF OnOK, CpuOK, Runs, CpuRec
  <1> DEFINE r == pushcli(cpu[c])
  <1>3. /\ r \in CpuRec /\ r.ncli = 1
        /\ r.on = cpu[c].on /\ r.loop = cpu[c].loop /\ r.irq = cpu[c].irq
    BY <1>1, <1>2, Pushcli
  <1>4. r.intena = cpu[c].ief
    BY <1>1, <1>2, Pushcli, Zenon
  <1> HIDE DEF r
  <1>5. /\ popcli(r) \in CpuRec /\ popcli(r).ncli = 0 /\ (popcli(r).ief <=> r.ief \/ r.intena)
        /\ popcli(r).on = r.on /\ popcli(r).loop = r.loop /\ popcli(r).irq = r.irq
    BY <1>3, Popcli
  <1>6. popcli(r).ief = cpu[c].ief
    <2>1. popcli(r).ief \in BOOLEAN
      BY <1>5, Zenon DEF CpuRec
    <2>2. r.intena
      BY <1>2, <1>4, Zenon
    <2> QED
      BY <1>2, <1>5, <2>1, <2>2, Zenon
  <1>7. cpu' = [cpu EXCEPT ![c] = popcli(r)]
    BY Zenon DEF section, r
  <1> QED
    BY <1>1, <1>2, <1>3, <1>5, <1>6, <1>7, CpuUpdate, Zenon DEF section

\* Entry and exit of a system call, and a fault in user code (src/trap.c): the
\* process stays on its CPU, with interrupts enabled and no lock.
LEMMA StepSyscall ==
    ASSUME SwitchInv, NEW c \in CPU, NEW p \in Slot,
           syscall(c, p) \/ sysret(c, p) \/ fault(c, p)
             \/ \E n \in 0..MAXSLEEP : sys_sleep(c, p, n)
    PROVE  SwitchInv'
  <1> DEFINE L == {"user", "fork", "exit", "wait", "sys_sleep"}
  <1>1. /\ Runs(c, p) /\ pc[p] \in {"user", "sysret"}
        /\ \E l \in L : pc' = [pc EXCEPT ![p] = l]
    BY Zenon DEF syscall, sysret, fault, sys_sleep, At, Enter, Goto
  <1>2. UNCHANGED <<state, pid, parent, chan, kstack, nextpid, locks, ticks, cpu,
                    yielding, intena, np, panicked>>
    BY Zenon DEF syscall, sysret, fault, sys_sleep, proc
  <1>3. killed' \in [Slot -> BOOLEAN]
    <2>1. killed' = killed \/ killed' = [killed EXCEPT ![p] = TRUE]
      BY Zenon DEF syscall, sysret, fault, sys_sleep, proc
    <2> QED
      BY <2>1, Zenon DEF SwitchInv, TypeOK
  <1>4. nap' \in [Slot -> [ticks0 : 0..(UINT - 1), n : 0..MAXSLEEP]]
    <2>1. nap' = nap \/ \E n \in 0..MAXSLEEP : nap' = [nap EXCEPT ![p] = [nap[p] EXCEPT !.n = n]]
      BY Zenon DEF syscall, sysret, fault, sys_sleep
    <2>2. nap[p] \in [ticks0 : 0..(UINT - 1), n : 0..MAXSLEEP]
      BY Zenon DEF SwitchInv, TypeOK
    <2>3. \A n \in 0..MAXSLEEP : [nap[p] EXCEPT !.n = n] \in [ticks0 : 0..(UINT - 1), n : 0..MAXSLEEP]
      BY <2>2, Zenon
    <2> QED
      BY <2>1, <2>3, Types, Zenon
  <1>5. /\ pc' \in [Slot -> PCs] /\ pc'[p] \in L
        /\ \A q \in Slot \ {p} : pc'[q] = pc[q]
    <2>1. L \subseteq PCs
      BY Zenon DEF PCs
    <2> QED
      BY <1>1, <2>1, Moved, Zenon
  <1>6. TypeOK'
    BY <1>2, <1>3, <1>4, <1>5, TypeNext, Zenon DEF SwitchInv, locks
  <1>7. state[p] # "EMBRYO"
    BY <1>1, ThreadFacts, Zenon DEF Runs, OnOK, OnState
  <1>8. ForkInv'
    BY <1>2, <1>5, <1>7, ForkFrame, Zenon DEF Forking
  <1>9. \A q \in Slot \ {p} : Moves(c, q)
    BY <1>2, <1>5, Zenon DEF Moves
  <1> QED
    BY <1>1, <1>2, <1>5, <1>6, <1>8, <1>9, OpenStep, Zenon DEF Open

\* kill() in its critical section of ptable.lock: at most it makes one sleeping
\* process RUNNABLE.
LEMMA StepKill ==
    ASSUME SwitchInv, NEW c \in CPU, NEW p \in Slot, NEW x \in Victims, kill(c, p, x)
    PROVE  SwitchInv'
  <1> DEFINE S == First({q \in Slot : pid[q] = x})
  <1>1. /\ Runs(c, p) /\ pc[p] = "user"
        /\ UNCHANGED <<pid, parent, chan, kstack, nextpid, ticks, yielding, intena,
                       np, nap, panicked>>
    BY Zenon DEF kill, At
  <1>2. state[p] = "RUNNING" /\ pc[p] \in Open
    BY <1>1, ThreadFacts, Zenon DEF Runs, OnOK, OnState, Open
  <1>3. /\ pc' \in [Slot -> PCs] /\ pc'[p] \in {"exit", "sysret"}
        /\ \A q \in Slot \ {p} : pc'[q] = pc[q]
    <2>1. \E l \in {"exit", "sysret"} : pc' = [pc EXCEPT ![p] = l]
      BY Zenon DEF kill, Goto
    <2>2. {"exit", "sysret"} \subseteq PCs
      BY Zenon DEF PCs
    <2> QED
      BY <2>1, <2>2, Moved, Zenon
  <1>4. CASE killed[p]
    <2>1. UNCHANGED <<state, killed, cpu, locks>>
      BY <1>4, Zenon DEF kill
    <2>2. TypeOK'
      BY <1>1, <1>3, <2>1, TypeNext, Zenon DEF SwitchInv, locks
    <2>3. ForkInv'
      BY <1>1, <1>2, <1>3, <2>1, ForkFrame, Zenon DEF Forking
    <2>4. \A q \in Slot \ {p} : Moves(c, q)
      BY <1>1, <1>3, <2>1, Zenon DEF Moves
    <2> QED
      BY <1>1, <1>2, <1>3, <2>1, <2>2, <2>3, <2>4, OpenStep, Zenon DEF Open
  <1>5. CASE ~killed[p]
    <2>1. /\ section(c)
          /\ killed' = [q \in Slot |-> q \in S \/ killed[q]]
          /\ state' = [q \in Slot |-> IF q \in S /\ state[q] = "SLEEPING" THEN "RUNNABLE"
                                      ELSE state[q]]
      BY <1>5, Zenon DEF kill
    <2> HIDE DEF S
    <2>2. killed' \in [Slot -> BOOLEAN]
      BY <2>1, Types, Zenon
    <2>3. /\ state' \in [Slot -> States]
          /\ \A q \in Slot : \/ state'[q] = state[q]
                             \/ state[q] = "SLEEPING" /\ state'[q] = "RUNNABLE"
      BY <2>1, Types, Zenon DEF States
    <2>4. /\ cpu' \in [CPU -> CpuRec]
          /\ cpu'[c].on = cpu[c].on /\ cpu'[c].loop = cpu[c].loop
          /\ cpu'[c].irq = cpu[c].irq /\ cpu'[c].ncli = cpu[c].ncli
          /\ cpu'[c].ief = cpu[c].ief
          /\ \A d \in CPU \ {c} : cpu'[d] = cpu[d]
          /\ ptable_lock = NoCPU /\ UNCHANGED locks
      BY <1>1, <1>2, <2>1, SectionCpu, Zenon
    <2>5. TypeOK'
      BY <1>1, <1>3, <2>2, <2>3, <2>4, TypeNext, Zenon DEF SwitchInv, locks
    <2>6. ForkInv'
      BY <1>1, <1>2, <1>3, <2>3, ForkFrame, Zenon DEF Forking
    <2>7. \A q \in Slot \ {p} : Moves(c, q)
      BY <1>1, <1>3, <2>3, <2>4, Zenon DEF Moves
    <2>8. state'[p] = state[p]
      BY <1>2, <2>3, Zenon
    <2> QED
      BY <1>1, <1>2, <1>3, <2>4, <2>5, <2>6, <2>7, <2>8, OpenStep, Zenon DEF Open
  <1> QED
    BY <1>4, <1>5, Zenon

\* allocproc() in fork(): an UNUSED slot becomes this process's EMBRYO.
LEMMA StepAllocproc ==
    ASSUME SwitchInv, NEW c \in CPU, NEW p \in Slot, allocproc(c, p)
    PROVE  SwitchInv'
  <1>1. /\ Runs(c, p) /\ pc[p] = "fork" /\ section(c)
        /\ UNCHANGED <<parent, chan, killed, kstack, ticks, yielding, intena, nap,
                       panicked>>
    BY Zenon DEF allocproc, At
  <1>2. state[p] = "RUNNING" /\ pc[p] \in Open
    BY <1>1, ThreadFacts, Zenon DEF Runs, OnOK, OnState, Open
  <1>3. /\ cpu' \in [CPU -> CpuRec]
        /\ cpu'[c].on = cpu[c].on /\ cpu'[c].loop = cpu[c].loop
        /\ cpu'[c].irq = cpu[c].irq /\ cpu'[c].ncli = cpu[c].ncli
        /\ cpu'[c].ief = cpu[c].ief
        /\ \A d \in CPU \ {c} : cpu'[d] = cpu[d]
        /\ ptable_lock = NoCPU /\ UNCHANGED locks
    BY <1>1, <1>2, SectionCpu, Zenon
  <1>4. CASE Unused = {} \/ nextpid > MAXPID
    <2>1. pc' = [pc EXCEPT ![p] = "sysret"] /\ UNCHANGED <<state, pid, nextpid, np>>
      BY <1>4, Zenon DEF allocproc, Goto
    <2>2. pc' \in [Slot -> PCs] /\ pc'[p] = "sysret" /\ \A q \in Slot \ {p} : pc'[q] = pc[q]
      BY <2>1, Moved, Zenon DEF PCs
    <2>3. TypeOK'
      BY <1>1, <1>3, <2>1, <2>2, TypeNext, Zenon DEF SwitchInv, locks
    <2>4. ForkInv'
      BY <1>1, <1>2, <2>1, <2>2, ForkFrame, Zenon DEF Forking
    <2>5. \A q \in Slot \ {p} : Moves(c, q)
      BY <1>1, <2>1, <2>2, Zenon DEF Moves
    <2> QED
      BY <1>1, <1>2, <1>3, <2>1, <2>2, <2>3, <2>4, <2>5, OpenStep, Zenon DEF Open
  <1>5. CASE ~(Unused = {} \/ nextpid > MAXPID)
    <2>1. PICK n \in First(Unused) :
              /\ state' = [state EXCEPT ![n] = "EMBRYO"]
              /\ pid' = [pid EXCEPT ![n] = nextpid]
              /\ nextpid' = nextpid + 1
              /\ np' = [np EXCEPT ![p] = n]
              /\ Goto(p, "fork_mem")
      BY <1>5, Zenon DEF allocproc
    <2>2. n \in Slot /\ state[n] = "UNUSED" /\ n # p
      BY <1>2, Zenon DEF First, Unused
    <2>3. pc' \in [Slot -> PCs] /\ pc'[p] = "fork_mem" /\ \A q \in Slot \ {p} : pc'[q] = pc[q]
      BY <2>1, Moved, Zenon DEF PCs, Goto
    <2>4. /\ state' \in [Slot -> States] /\ state'[n] = "EMBRYO"
          /\ \A q \in Slot \ {n} : state'[q] = state[q]
      BY <2>1, <2>2, Types, Zenon DEF States
    <2>5. np' \in [Slot -> Slot \cup {None}] /\ np'[p] = n /\ \A q \in Slot \ {p} : np'[q] = np[q]
      BY <2>1, <2>2, Types, Zenon
    <2>6. pid' \in [Slot -> Nat] /\ nextpid' \in Nat \ {0}
      BY <2>1, <2>2, Types
    <2>7. TypeOK'
      BY <1>1, <1>3, <2>3, <2>4, <2>5, <2>6, TypeNext, Zenon DEF SwitchInv, locks
    <2>8. ForkInv
      BY Zenon DEF SwitchInv
    <2>9. ForkInv'
      BY <1>1, <1>2, <2>2, <2>3, <2>4, <2>5, <2>8 DEF ForkInv, Forking
    <2>10. \A q \in Slot \ {p} : Moves(c, q)
      BY <1>1, <2>2, <2>3, <2>4, Zenon DEF Moves
    <2>11. state'[p] = state[p]
      BY <2>2, <2>4, Zenon
    <2> QED
      BY <1>1, <1>2, <1>3, <2>3, <2>7, <2>9, <2>10, <2>11, OpenStep, Zenon DEF Open
  <1> QED
    BY <1>4, <1>5, Zenon

\* fork() gives the slot back when memory runs out.
LEMMA StepForkFails ==
    ASSUME SwitchInv, NEW c \in CPU, NEW p \in Slot, fork_fails(c, p)
    PROVE  SwitchInv'
  <1> DEFINE n == np[p]
  <1>1. /\ Runs(c, p) /\ pc[p] = "fork_mem"
        /\ state' = [state EXCEPT ![n] = "UNUSED"]
        /\ np' = [np EXCEPT ![p] = None]
        /\ pc' = [pc EXCEPT ![p] = "sysret"]
        /\ UNCHANGED <<pid, parent, chan, killed, kstack, nextpid, locks, ticks, cpu,
                       yielding, intena, nap, panicked>>
    BY Zenon DEF fork_fails, At, Goto
  <1>2. state[p] = "RUNNING" /\ pc[p] \in Open
    BY <1>1, ThreadFacts, Zenon DEF Runs, OnOK, OnState, Open
  <1>3. ForkInv
    BY Zenon DEF SwitchInv
  <1>4. n \in Slot /\ state[n] = "EMBRYO" /\ n # p
    BY <1>1, <1>2, <1>3, Zenon DEF ForkInv, Forking
  <1> HIDE DEF n
  <1>5. pc' \in [Slot -> PCs] /\ pc'[p] = "sysret" /\ \A q \in Slot \ {p} : pc'[q] = pc[q]
    BY <1>1, Moved, Zenon DEF PCs
  <1>6. /\ state' \in [Slot -> States] /\ state'[n] = "UNUSED"
        /\ \A q \in Slot \ {n} : state'[q] = state[q]
    BY <1>1, <1>4, Types, Zenon DEF States
  <1>7. np' \in [Slot -> Slot \cup {None}] /\ \A q \in Slot \ {p} : np'[q] = np[q]
    BY <1>1, Types, Zenon
  <1>8. TypeOK'
    BY <1>1, <1>5, <1>6, <1>7, TypeNext, Zenon DEF SwitchInv, locks
  <1>9. ForkInv'
    BY <1>1, <1>3, <1>4, <1>5, <1>6, <1>7 DEF ForkInv, Forking, n
  <1>10. \A q \in Slot \ {p} : Moves(c, q)
    BY <1>1, <1>4, <1>5, <1>6, Zenon DEF Moves
  <1>11. state'[p] = state[p]
    BY <1>4, <1>6, Zenon
  <1> QED
    BY <1>1, <1>2, <1>5, <1>8, <1>9, <1>10, <1>11, OpenStep, Zenon DEF Open

\* fork() fills the slot: stack, parent and the context that begins in forkret().
LEMMA StepForkCopies ==
    ASSUME SwitchInv, NEW c \in CPU, NEW p \in Slot, fork_copies(c, p)
    PROVE  SwitchInv'
  <1> DEFINE n == np[p]
  <1>1. /\ Runs(c, p) /\ pc[p] = "fork_mem"
        /\ kstack' = [kstack EXCEPT ![n] = TRUE]
        /\ parent' = [parent EXCEPT ![n] = p]
        /\ pc' = [pc EXCEPT ![p] = "fork_run", ![n] = "forkret"]
        /\ UNCHANGED <<state, pid, chan, killed, nextpid, locks, ticks, cpu,
                       yielding, intena, np, nap, panicked>>
    BY Zenon DEF fork_copies, At
  <1>2. state[p] = "RUNNING" /\ pc[p] \in Open
    BY <1>1, ThreadFacts, Zenon DEF Runs, OnOK, OnState, Open
  <1>3. ForkInv
    BY Zenon DEF SwitchInv
  <1>4. n \in Slot /\ state[n] = "EMBRYO" /\ n # p
    BY <1>1, <1>2, <1>3, Zenon DEF ForkInv, Forking
  <1> HIDE DEF n
  <1>5. /\ pc' \in [Slot -> PCs] /\ pc'[p] = "fork_run" /\ pc'[n] = "forkret"
        /\ \A q \in Slot \ {p, n} : pc'[q] = pc[q]
    BY <1>1, <1>4, Types, Zenon DEF PCs
  <1>6. /\ kstack' \in [Slot -> BOOLEAN] /\ kstack'[n]
        /\ \A q \in Slot \ {n} : kstack'[q] = kstack[q]
    BY <1>1, <1>4, Types, Zenon
  <1>7. parent' \in [Slot -> Slot \cup {None}]
    BY <1>1, <1>4, Types, Zenon
  <1>8. TypeOK'
    BY <1>1, <1>5, <1>6, <1>7, TypeNext, Zenon DEF SwitchInv, locks
  <1>9. ForkInv'
    <2>1. \A q \in Slot : pc'[q] \in Forking => pc[q] \in Forking
      BY <1>1, <1>5, Zenon DEF Forking
    <2>2. \A q \in Slot \ {p} : pc'[q] \in Forking => np[q] # n
      BY <1>1, <1>3, <2>1, Zenon DEF ForkInv, Forking, n
    <2>3. \A q \in Slot : pc'[q] = "fork_run" => kstack'[np[q]] /\ pc'[np[q]] = "forkret"
      BY <1>1, <1>3, <1>4, <1>5, <1>6, <2>1, <2>2 DEF ForkInv, Forking, n
    <2> QED
      BY <1>1, <1>3, <2>1, <2>3, Zenon DEF ForkInv
  <1>10. \A q \in Slot \ {p} : Moves(c, q)
    BY <1>1, <1>4, <1>5, <1>6, Zenon DEF Moves
  <1>11. kstack'[p] = kstack[p]
    BY <1>4, <1>6, Zenon
  <1> QED
    BY <1>1, <1>2, <1>5, <1>8, <1>9, <1>10, <1>11, OpenStep, Zenon DEF Open

\* fork() makes the child RUNNABLE under ptable.lock; nobody runs on its stack.
LEMMA StepForkRun ==
    ASSUME SwitchInv, NEW c \in CPU, NEW p \in Slot, fork_run(c, p)
    PROVE  SwitchInv'
  <1> DEFINE n == np[p]
  <1>1. /\ Runs(c, p) /\ pc[p] = "fork_run" /\ section(c)
        /\ state' = [state EXCEPT ![n] = "RUNNABLE"]
        /\ np' = [np EXCEPT ![p] = None]
        /\ pc' = [pc EXCEPT ![p] = "sysret"]
        /\ UNCHANGED <<pid, parent, chan, killed, kstack, nextpid, ticks, yielding,
                       intena, nap, panicked>>
    BY Zenon DEF fork_run, At, Goto
  <1>2. state[p] = "RUNNING" /\ pc[p] \in Open
    BY <1>1, ThreadFacts, Zenon DEF Runs, OnOK, OnState, Open
  <1>3. ForkInv
    BY Zenon DEF SwitchInv
  <1>4. n \in Slot /\ state[n] = "EMBRYO" /\ n # p /\ kstack[n] /\ pc[n] = "forkret"
    BY <1>1, <1>2, <1>3, Zenon DEF ForkInv, Forking
  <1>5. /\ cpu' \in [CPU -> CpuRec]
        /\ cpu'[c].on = cpu[c].on /\ cpu'[c].loop = cpu[c].loop
        /\ cpu'[c].irq = cpu[c].irq /\ cpu'[c].ncli = cpu[c].ncli
        /\ cpu'[c].ief = cpu[c].ief
        /\ \A d \in CPU \ {c} : cpu'[d] = cpu[d]
        /\ ptable_lock = NoCPU /\ UNCHANGED locks
    BY <1>1, <1>2, SectionCpu, Zenon
  <1> HIDE DEF n
  <1>6. pc' \in [Slot -> PCs] /\ pc'[p] = "sysret" /\ \A q \in Slot \ {p} : pc'[q] = pc[q]
    BY <1>1, Moved, Zenon DEF PCs
  <1>7. /\ state' \in [Slot -> States] /\ state'[n] = "RUNNABLE"
        /\ \A q \in Slot \ {n} : state'[q] = state[q]
    BY <1>1, <1>4, Types, Zenon DEF States
  <1>8. np' \in [Slot -> Slot \cup {None}] /\ \A q \in Slot \ {p} : np'[q] = np[q]
    BY <1>1, Types, Zenon
  <1>9. TypeOK'
    BY <1>1, <1>5, <1>6, <1>7, <1>8, TypeNext, Zenon DEF SwitchInv, locks
  <1>10. ForkInv'
    BY <1>1, <1>3, <1>4, <1>6, <1>7, <1>8 DEF ForkInv, Forking, n
  <1>11. \A q \in Slot \ {p} : Moves(c, q)
    BY <1>1, <1>4, <1>6, <1>7, Zenon DEF Moves
  <1>12. state'[p] = state[p]
    BY <1>4, <1>7, Zenon
  <1> QED
    BY <1>1, <1>2, <1>5, <1>6, <1>9, <1>10, <1>11, <1>12, OpenStep, Zenon DEF Open

\* What wait() does to the table when it does not sleep.
LEMMA WaitEnds ==
    ASSUME SwitchInv, NEW p \in Slot, wait_reap(p) \/ wait_fails(p)
    PROVE  /\ state' \in [Slot -> States] /\ pid' \in [Slot -> Nat]
           /\ parent' \in [Slot -> Slot \cup {None}]
           /\ killed' \in [Slot -> BOOLEAN] /\ kstack' \in [Slot -> BOOLEAN]
           /\ chan' \in [Slot -> Slot \cup {None, TicksChan}]
           /\ pc' \in [Slot -> PCs] /\ pc'[p] = "sysret"
           /\ \A q \in Slot \ {p} : pc'[q] = pc[q]
           /\ \A q \in Slot : \/ state'[q] = state[q] /\ kstack'[q] = kstack[q]
                              \/ state[q] = "ZOMBIE" /\ state'[q] = "UNUSED"
  <1>1. pc' \in [Slot -> PCs] /\ pc'[p] = "sysret" /\ \A q \in Slot \ {p} : pc'[q] = pc[q]
    BY Moved, Zenon DEF wait_reap, wait_fails, Goto, PCs
  <1>2. chan' \in [Slot -> Slot \cup {None, TicksChan}]
    <2>1. chan' = [chan EXCEPT ![p] = None]
      BY Zenon DEF wait_reap, wait_fails
    <2> QED
      BY <2>1, Types, Zenon
  <1>3. CASE wait_reap(p)
    <2>1. PICK z \in First(Zombies(p)) : Reap(z)
      BY <1>3, Zenon DEF wait_reap
    <2>2. z \in Slot /\ state[z] = "ZOMBIE"
      BY Zenon DEF First, Zombies, Children
    <2>3. state' \in [Slot -> States] /\ pid' \in [Slot -> Nat]
      BY <2>1, <2>2, Types, Zenon DEF Reap, States
    <2>4. parent' \in [Slot -> Slot \cup {None}]
      BY <2>1, <2>2, Types, Zenon DEF Reap
    <2>5. killed' \in [Slot -> BOOLEAN]
      BY <2>1, <2>2, Types, Zenon DEF Reap
    <2>6. kstack' \in [Slot -> BOOLEAN]
      BY <2>1, <2>2, Types, Zenon DEF Reap
    <2>7. \A q \in Slot : \/ state'[q] = state[q] /\ kstack'[q] = kstack[q]
                          \/ state[q] = "ZOMBIE" /\ state'[q] = "UNUSED"
      BY <2>1, <2>2, Types, Zenon DEF Reap
    <2> QED
      BY <1>1, <1>2, <2>3, <2>4, <2>5, <2>6, <2>7, Zenon
  <1>4. CASE wait_fails(p)
    <2>1. UNCHANGED <<state, pid, parent, killed, kstack>>
      BY <1>4, Zenon DEF wait_fails
    <2> QED
      BY <1>1, <1>2, <2>1, Types, Zenon
  <1> QED
    BY <1>3, <1>4, Zenon

\* wait() that takes and releases ptable.lock: the zombie whose stack it frees
\* is on no CPU, because no other CPU has the lock.
LEMMA StepWaitEnds ==
    ASSUME SwitchInv, NEW c \in CPU, NEW p \in Slot, At(c, p, "wait"),
           section(c), wait_reap(p) \/ wait_fails(p),
           UNCHANGED <<nextpid, ticks, yielding, intena, np, nap, panicked>>
    PROVE  SwitchInv'
  <1>1. Runs(c, p) /\ pc[p] = "wait"
    BY Zenon DEF At
  <1>2. state[p] = "RUNNING" /\ pc[p] \in Open
    BY <1>1, ThreadFacts, Zenon DEF Runs, OnOK, OnState, Open
  <1>3. /\ cpu' \in [CPU -> CpuRec]
        /\ cpu'[c].on = cpu[c].on /\ cpu'[c].loop = cpu[c].loop
        /\ cpu'[c].irq = cpu[c].irq /\ cpu'[c].ncli = cpu[c].ncli
        /\ cpu'[c].ief = cpu[c].ief
        /\ \A d \in CPU \ {c} : cpu'[d] = cpu[d]
        /\ ptable_lock = NoCPU /\ UNCHANGED locks
    BY <1>1, <1>2, SectionCpu, Zenon
  <1>4. TypeOK'
    BY <1>3, WaitEnds, TypeNext, Zenon DEF SwitchInv, locks
  <1>5. ForkInv'
    BY <1>1, <1>2, WaitEnds, ForkFrame, Zenon DEF Forking
  <1>6. \A q \in Slot \ {p} : Moves(c, q)
    BY <1>3, WaitEnds, Zenon DEF Moves
  <1>7. state'[p] = state[p] /\ kstack'[p] = kstack[p]
    BY <1>2, WaitEnds, Zenon
  <1>8. pc'[p] = "sysret"
    BY WaitEnds, Zenon
  <1> QED
    BY <1>1, <1>2, <1>3, <1>4, <1>5, <1>6, <1>7, <1>8, OpenStep, Zenon DEF Open

\* Thread p takes ptable.lock on its way to sched().
LEMMA AcquireStep ==
    ASSUME SwitchInv, NEW c \in CPU, NEW p \in Slot,
           cpu[c].on = p, cpu[c].irq = "no", ~Locked(p), ~HasTicks(c), acquire(c),
           Locked(p)', pc'[p] \in Open \cup {"exit", "sched_exit", "sched_wait"},
           state'[p] = OnState(p)', kstack'[p] = kstack[p], intena'[p] = intena[p],
           state[p] \notin {"UNUSED", "EMBRYO"},
           pc'[p] = "sched_wait" => cpu[c].ief,
           yielding'[p] # "no" => pc'[p] \in Open \cup {"exit"},
           \A q \in Slot \ {p} : Moves(c, q),
           TypeOK', ForkInv', panicked' = panicked
    PROVE  SwitchInv'
  <1>1. /\ cpu[c] \in CpuRec /\ p # None /\ OnOK(c, p) /\ SlotOK(p) /\ CpuOK(c) /\ TypeOK
        /\ \A d \in CPU \ {c} : cpu[d].on # p
    BY ThreadFacts, Zenon DEF SwitchInv
  <1>2. /\ ptable_lock = NoCPU /\ ptable_lock' = c /\ tickslock' = tickslock
        /\ cpu' = [cpu EXCEPT ![c] = pushcli(cpu[c])]
    BY Zenon DEF acquire
  <1>3. ptable_lock # c /\ tickslock # c /\ cpu[c].ncli = 0
    BY <1>1, <1>2, ProcAssumption DEF CpuOK
  <1>4. /\ pushcli(cpu[c]) \in CpuRec /\ pushcli(cpu[c]).ncli = 1 /\ ~pushcli(cpu[c]).ief
        /\ pushcli(cpu[c]).on = p /\ pushcli(cpu[c]).loop = cpu[c].loop
        /\ pushcli(cpu[c]).irq = "no"
    BY <1>1, <1>3, Pushcli
  <1>5. pushcli(cpu[c]).intena = cpu[c].ief
    BY <1>1, <1>3, Pushcli, Zenon
  <1>6. cpu'[c] = pushcli(cpu[c]) /\ \A d \in CPU \ {c} : cpu'[d] = cpu[d]
    BY <1>1, <1>2, <1>4, CpuUpdate, Zenon
  <1>7. /\ cpu'[c].ncli = 1 /\ ~cpu'[c].ief /\ cpu'[c].on = p
        /\ cpu'[c].loop = "scan" /\ cpu'[c].irq = "no"
    BY <1>1, <1>4, <1>6, Zenon DEF OnOK
  <1>8. pc'[p] = "sched_wait" => cpu'[c].intena
    BY <1>5, <1>6, Zenon
  <1>9. Local(c, p)
    BY <1>1, <1>2, <1>3, <1>6, <1>7, ProcAssumption, Zenon DEF Local
  <1>10. OnOK(c, p)'
    BY <1>7, <1>8, Zenon DEF OnOK, Open, Locked
  <1>11. HasPtable(c)' /\ ~HasTicks(c)'
    BY <1>1, <1>7, Zenon DEF HasPtable, HasTicks, Open
  <1>12. CpuOK(c)'
    BY <1>1, <1>2, <1>3, <1>7, <1>10, <1>11 DEF CpuOK
  <1>13. SlotOK(p)'
    BY <1>1, <1>7, Zenon DEF SlotOK, Off, Open
  <1>14. panicked' \in {"no", "init exiting"}
    BY Zenon DEF SwitchInv
  <1> QED
    BY <1>1, <1>9, <1>12, <1>13, <1>14, LocalStep, Zenon

\* yield() up to sched(): ptable.lock is taken before p->state changes.
LEMMA StepYield ==
    ASSUME SwitchInv, NEW c \in CPU, NEW p \in Slot, yield(c, p)
    PROVE  SwitchInv'
  <1>1. /\ cpu[c].on = p /\ yielding[p] = "yield" /\ acquire(c)
        /\ state' = [state EXCEPT ![p] = "RUNNABLE"]
        /\ yielding' = [yielding EXCEPT ![p] = "sched"]
        /\ UNCHANGED <<pid, parent, chan, killed, kstack, nextpid, ticks, pc,
                       intena, np, nap, panicked>>
    BY Zenon DEF yield
  <1>2. /\ cpu[c] \in CpuRec /\ OnOK(c, p) /\ SlotOK(p) /\ TypeOK
    BY <1>1, ThreadFacts, Zenon DEF SwitchInv
  <1>3. state[p] = "RUNNING" /\ cpu[c].irq = "no" /\ pc[p] \in Open \cup {"exit"}
    BY <1>1, <1>2, Zenon DEF OnOK, OnState, SlotOK
  <1>4. ~Locked(p) /\ ~HasTicks(c)
    BY <1>1, <1>3, Zenon DEF Locked, HasTicks, Open
  <1>5. /\ state' \in [Slot -> States] /\ state'[p] = "RUNNABLE"
        /\ \A q \in Slot \ {p} : state'[q] = state[q]
    BY <1>1, Types, Zenon DEF States
  <1>6. /\ yielding' \in [Slot -> {"no", "yield", "sched", "yielded"}] /\ yielding'[p] = "sched"
        /\ \A q \in Slot \ {p} : yielding'[q] = yielding[q]
    BY <1>1, Types, Zenon
  <1>7. /\ cpu' \in [CPU -> CpuRec] /\ ptable_lock' = c /\ tickslock' = tickslock
    BY <1>1, <1>2, Pushcli, CpuUpdate, Zenon DEF acquire
  <1>8. TypeOK'
    BY <1>1, <1>2, <1>5, <1>6, <1>7, TypeNext, Zenon
  <1>9. ForkInv'
    BY <1>1, <1>3, <1>5, ForkFrame, Zenon
  <1>10. \A q \in Slot \ {p} : Moves(c, q)
    BY <1>1, <1>5, <1>6, Zenon DEF Moves
  <1>11. Locked(p)' /\ state'[p] = OnState(p)'
    BY <1>5, <1>6, Zenon DEF Locked, OnState
  <1>12. pc'[p] \in Open \cup {"exit"} /\ pc'[p] # "sched_wait"
    BY <1>1, <1>3, Zenon DEF Open
  <1> QED
    BY <1>1, <1>3, <1>4, <1>8, <1>9, <1>10, <1>11, <1>12, AcquireStep, Zenon

\* exit(): the process is a ZOMBIE, and keeps ptable.lock into sched().
LEMMA StepExit ==
    ASSUME SwitchInv, NEW c \in CPU, NEW p \in Slot, exit(c, p)
    PROVE  SwitchInv'
  <1>1. /\ cpu[c].on = p /\ cpu[c].irq = "no" /\ yielding[p] = "no" /\ pc[p] = "exit"
        /\ UNCHANGED <<pid, chan, killed, kstack, nextpid, ticks, yielding, intena,
                       np, nap>>
    BY Zenon DEF exit, At, Runs
  <1>2. /\ cpu[c] \in CpuRec /\ OnOK(c, p) /\ SlotOK(p) /\ TypeOK
    BY <1>1, ThreadFacts, Zenon DEF SwitchInv
  <1>3. state[p] = "RUNNING"
    BY <1>1, <1>2, Zenon DEF OnOK, OnState
  <1>4. CASE p = initproc
    <2>1. panicked' = "init exiting" /\ UNCHANGED <<state, parent, pc, cpu, locks>>
      BY <1>4, Zenon DEF exit
    <2>2. TypeOK'
      BY <1>1, <1>2, <2>1, TypeNext, Zenon DEF locks
    <2>3. ForkInv'
      BY <1>1, <2>1, ForkFrame, Zenon
    <2>4. CpuOK(c) /\ \A d \in CPU \ {c} : cpu[d].on # p
      BY <1>1, ThreadFacts, Zenon DEF SwitchInv
    <2>5. Local(c, p)
      BY <1>1, <2>1, <2>4, Zenon DEF Local, Moves, locks
    <2>6. CpuOK(c)'
      BY <1>1, <2>1, <2>4, Zenon DEF CpuOK, HasPtable, HasTicks, Locked, OnOK, OnState, locks
    <2>7. SlotOK(p)'
      BY <1>1, <1>2, <2>1, Zenon DEF SlotOK, Off, Parked
    <2> QED
      BY <2>1, <2>2, <2>3, <2>5, <2>6, <2>7, LocalStep, Zenon
  <1>5. CASE p # initproc
    <2> DEFINE W == Woken(p)
               K == Children(p)
    <2>1. /\ acquire(c)
          /\ state' = [q \in Slot |-> IF q = p THEN "ZOMBIE"
                                      ELSE IF q \in W THEN "RUNNABLE" ELSE state[q]]
          /\ parent' = [q \in Slot |-> IF q \in K THEN initproc ELSE parent[q]]
          /\ pc' = [pc EXCEPT ![p] = "sched_exit"]
          /\ panicked' = panicked
      BY <1>5, Zenon DEF exit, Goto
    <2>2. \A q \in W : state[q] = "SLEEPING"
      BY Zenon DEF Woken, Sleepers
    <2> HIDE DEF W, K
    <2>3. /\ state' \in [Slot -> States] /\ state'[p] = "ZOMBIE"
          /\ \A q \in Slot \ {p} : \/ state'[q] = state[q]
                                   \/ state[q] = "SLEEPING" /\ state'[q] = "RUNNABLE"
      BY <2>1, <2>2, Types, Zenon DEF States
    <2>4. parent' \in [Slot -> Slot \cup {None}]
      BY <2>1, NoneIsNoSlot, Types, Zenon
    <2>5. pc' \in [Slot -> PCs] /\ pc'[p] = "sched_exit" /\ \A q \in Slot \ {p} : pc'[q] = pc[q]
      BY <2>1, Moved, Zenon DEF PCs
    <2>6. /\ cpu' \in [CPU -> CpuRec] /\ ptable_lock = NoCPU /\ ptable_lock' = c
          /\ tickslock' = tickslock
      BY <1>2, <2>1, Pushcli, CpuUpdate, Zenon DEF acquire
    <2>7. TypeOK'
      BY <1>1, <1>2, <2>3, <2>4, <2>5, <2>6, TypeNext, Zenon
    <2>8. ForkInv'
      BY <1>1, <1>3, <2>3, <2>5, ForkFrame, Zenon DEF Forking
    <2>9. \A q \in Slot \ {p} : Moves(c, q)
      BY <1>1, <2>3, <2>5, <2>6, Zenon DEF Moves
    <2>10. ~Locked(p) /\ ~HasTicks(c)
      BY <1>1, Zenon DEF Locked, HasTicks
    <2>11. Locked(p)' /\ state'[p] = OnState(p)'
      BY <1>1, <2>3, <2>5, Zenon DEF Locked, OnState
    <2> QED
      BY <1>1, <1>3, <2>1, <2>5, <2>7, <2>8, <2>9, <2>10, <2>11, AcquireStep, Zenon
  <1> QED
    BY <1>4, <1>5, Zenon

\* wait() that goes to sleep() keeps ptable.lock into sched().
LEMMA StepWaitSleeps ==
    ASSUME SwitchInv, NEW c \in CPU, NEW p \in Slot, At(c, p, "wait"),
           acquire(c), wait_sleeps(p),
           UNCHANGED <<nextpid, ticks, yielding, intena, np, nap, panicked>>
    PROVE  SwitchInv'
  <1>1. /\ cpu[c].on = p /\ cpu[c].irq = "no" /\ yielding[p] = "no" /\ pc[p] = "wait"
        /\ chan' = [chan EXCEPT ![p] = p]
        /\ state' = [state EXCEPT ![p] = "SLEEPING"]
        /\ pc' = [pc EXCEPT ![p] = "sched_wait"]
        /\ UNCHANGED <<pid, parent, killed, kstack>>
    BY Zenon DEF At, Runs, wait_sleeps, Goto
  <1>2. /\ cpu[c] \in CpuRec /\ OnOK(c, p) /\ SlotOK(p) /\ TypeOK
    BY <1>1, ThreadFacts, Zenon DEF SwitchInv
  <1>3. state[p] = "RUNNING" /\ cpu[c].ief
    BY <1>1, <1>2, Zenon DEF OnOK, OnState, Open
  <1>4. ~Locked(p) /\ ~HasTicks(c)
    BY <1>1, Zenon DEF Locked, HasTicks
  <1>5. /\ state' \in [Slot -> States] /\ state'[p] = "SLEEPING"
        /\ \A q \in Slot \ {p} : state'[q] = state[q]
    BY <1>1, Types, Zenon DEF States
  <1>6. pc' \in [Slot -> PCs] /\ pc'[p] = "sched_wait" /\ \A q \in Slot \ {p} : pc'[q] = pc[q]
    BY <1>1, Moved, Zenon DEF PCs
  <1>7. /\ cpu' \in [CPU -> CpuRec] /\ ptable_lock' = c /\ tickslock' = tickslock
    BY <1>1, <1>2, Pushcli, CpuUpdate, Zenon DEF acquire
  <1>8. chan' \in [Slot -> Slot \cup {None, TicksChan}]
    BY <1>1, Types, Zenon
  <1>9. TypeOK'
    BY <1>1, <1>2, <1>5, <1>6, <1>7, <1>8, TypeNext, Zenon
  <1>10. ForkInv'
    BY <1>1, <1>3, <1>5, <1>6, ForkFrame, Zenon DEF Forking
  <1>11. \A q \in Slot \ {p} : Moves(c, q)
    BY <1>1, <1>5, <1>6, Zenon DEF Moves
  <1>12. Locked(p)' /\ state'[p] = OnState(p)'
    BY <1>1, <1>5, <1>6, Zenon DEF Locked, OnState
  <1> QED
    BY <1>1, <1>3, <1>4, <1>6, <1>9, <1>10, <1>11, <1>12, AcquireStep, Zenon

\* sched(): its four tests do not fail, and the lock passes to scheduler().
LEMMA StepSched ==
    ASSUME SwitchInv, NEW c \in CPU, NEW p \in Slot, sched(c, p)
    PROVE  SwitchInv'
  <1>1. /\ cpu[c].on = p /\ cpu[c].irq = "no" /\ InSched(p)
        /\ UNCHANGED <<proc, locks, ticks, np, nap>>
    BY Zenon DEF sched
  <1>2. /\ cpu[c] \in CpuRec /\ p # None /\ OnOK(c, p) /\ SlotOK(p) /\ CpuOK(c) /\ TypeOK
        /\ (ptable_lock = c <=> Locked(p))
        /\ \A d \in CPU \ {c} : cpu[d].on # p
    BY <1>1, ThreadFacts, Zenon DEF SwitchInv
  <1>3. DOMAIN Resumes = {"sched_exit", "sched_wait", "sched_sleep"}
    BY Zenon DEF Resumes
  <1>4. \/ yielding[p] = "sched" /\ pc[p] \in Open \cup {"exit"} /\ state[p] = "RUNNABLE"
        \/ yielding[p] = "no" /\ pc[p] = "sched_exit" /\ state[p] = "ZOMBIE"
        \/ yielding[p] = "no" /\ pc[p] \in {"sched_wait", "sched_sleep"} /\ state[p] = "SLEEPING"
    BY <1>1, <1>2, <1>3, Zenon DEF InSched, OnOK, OnState, SlotOK
  <1>5. ptable_lock = c /\ ~HasTicks(c)
    BY <1>1, <1>2, <1>4, Zenon DEF Locked, HasTicks, Open
  <1>6. cpu[c].ncli = 1 /\ ~cpu[c].ief
    BY <1>2, <1>5 DEF CpuOK
  <1>7. state[p] # "RUNNING"
    BY <1>4, Zenon
  <1>8. /\ intena' = [intena EXCEPT ![p] = cpu[c].intena]
        /\ cpu' = [cpu EXCEPT ![c].on = None, ![c].proc = None]
        /\ IF yielding[p] = "sched"
           THEN yielding' = [yielding EXCEPT ![p] = "yielded"] /\ UNCHANGED pc
           ELSE pc' = [pc EXCEPT ![p] = Resumes[pc[p]]] /\ UNCHANGED yielding
        /\ panicked' = panicked
    BY <1>5, <1>6, <1>7, Zenon DEF sched, Goto
  <1> DEFINE r == [cpu[c] EXCEPT !.on = None, !.proc = None]
  <1>9. /\ r \in CpuRec /\ r.on = None /\ r.loop = cpu[c].loop /\ r.irq = cpu[c].irq
        /\ r.ncli = cpu[c].ncli
    BY <1>2, Zenon DEF CpuRec
  <1>10. r.ief = cpu[c].ief
    BY <1>2, Zenon DEF CpuRec
  <1>11. cpu' = [cpu EXCEPT ![c] = r]
    BY <1>8, Zenon
  <1> HIDE DEF r
  <1>12. cpu' \in [CPU -> CpuRec] /\ cpu'[c] = r /\ \A d \in CPU \ {c} : cpu'[d] = cpu[d]
    BY <1>2, <1>9, <1>11, CpuUpdate, Zenon
  <1>13. /\ cpu'[c].on = None /\ cpu'[c].loop = "scan" /\ cpu'[c].irq = "no"
         /\ cpu'[c].ncli = 1 /\ ~cpu'[c].ief
    BY <1>1, <1>2, <1>6, <1>9, <1>10, <1>12, Zenon DEF OnOK
  <1>14. cpu[c].intena \in BOOLEAN
    BY <1>2, Zenon DEF CpuRec
  <1>15. /\ intena' \in [Slot -> BOOLEAN] /\ intena'[p] = cpu[c].intena
         /\ \A q \in Slot \ {p} : intena'[q] = intena[q]
    BY <1>8, <1>14, Types, Zenon
  <1>16. /\ yielding' \in [Slot -> {"no", "yield", "sched", "yielded"}]
         /\ yielding[p] = "sched" => yielding'[p] = "yielded"
         /\ yielding[p] = "no" => yielding'[p] = "no"
         /\ \A q \in Slot \ {p} : yielding'[q] = yielding[q]
    BY <1>8, Types, Zenon
  <1>17. /\ pc' \in [Slot -> PCs]
         /\ yielding[p] = "sched" => pc'[p] = pc[p]
         /\ yielding[p] = "no" /\ pc[p] = "sched_exit" => pc'[p] = "dead"
         /\ yielding[p] = "no" /\ pc[p] \in {"sched_wait", "sched_sleep"} =>
                pc'[p] \in {"waited", "slept"}
         /\ \A q \in Slot \ {p} : pc'[q] = pc[q]
    <2>1. CASE yielding[p] = "sched"
      BY <1>8, <2>1, Types, Zenon
    <2>2. CASE yielding[p] # "sched"
      <3>1. pc[p] = "sched_exit" => Resumes[pc[p]] = "dead"
        BY DEF Resumes
      <3>2. pc[p] \in {"sched_wait", "sched_sleep"} => Resumes[pc[p]] \in {"waited", "slept"}
        BY DEF Resumes
      <3>3. Resumes[pc[p]] \in PCs
        BY <1>4, <2>2, <3>1, <3>2, Zenon DEF PCs
      <3> QED
        BY <1>8, <2>2, <3>1, <3>2, <3>3, Moved, Zenon
    <2> QED
      BY <2>1, <2>2, Zenon
  <1>18. UNCHANGED <<state, pid, parent, chan, killed, kstack, nextpid>>
    BY <1>1, Zenon DEF proc
  <1>19. TypeOK'
    BY <1>1, <1>2, <1>12, <1>15, <1>16, <1>17, <1>18, TypeNext, Zenon DEF locks
  <1>20. \A q \in Slot : pc'[q] \in Forking => pc'[q] = pc[q]
    BY <1>4, <1>17, Zenon DEF Forking
  <1>21. ForkInv'
    BY <1>1, <1>4, <1>17, <1>18, <1>20, ForkFrame, Zenon
  <1>22. Local(c, p)
    BY <1>1, <1>2, <1>12, <1>13, <1>15, <1>16, <1>17, <1>18, Zenon DEF Local, Moves, locks
  <1>23. CpuOK(c)'
    BY <1>1, <1>2, <1>5, <1>13 DEF CpuOK, HasPtable, HasTicks, locks
  <1>24. yielding[p] = "no" /\ pc[p] \in {"sched_wait", "sched_sleep"} => intena'[p]
    BY <1>2, <1>15, Zenon DEF OnOK
  <1>25. SlotOK(p)'
    BY <1>2, <1>4, <1>16, <1>17, <1>18, <1>24, Zenon DEF SlotOK, Parked, Open
  <1>26. panicked' \in {"no", "init exiting"}
    BY <1>8, Zenon DEF SwitchInv
  <1> QED
    BY <1>2, <1>19, <1>21, <1>22, <1>23, <1>25, <1>26, LocalStep, Zenon

\* Thread p, switched to, releases ptable.lock; r is the record of its CPU.
LEMMA ReleaseStep ==
    ASSUME SwitchInv, NEW c \in CPU, NEW p \in Slot, NEW r \in CpuRec,
           cpu[c].on = p, Locked(p), state[p] = "RUNNING",
           ptable_lock' = NoCPU, tickslock' = tickslock,
           cpu' = [cpu EXCEPT ![c] = r],
           r.on = p, r.loop = cpu[c].loop, r.irq = cpu[c].irq, r.ncli = cpu[c].ncli - 1,
           yielding'[p] = "no", pc'[p] \in Open \cup {"exit"},
           pc'[p] \in Open => r.ief,
           state'[p] = state[p], kstack'[p] = kstack[p],
           \A q \in Slot \ {p} : Moves(c, q),
           TypeOK', ForkInv', panicked' = panicked
    PROVE  SwitchInv'
  <1>1. /\ p # None /\ OnOK(c, p) /\ SlotOK(p) /\ CpuOK(c) /\ TypeOK
        /\ ptable_lock = c
        /\ \A d \in CPU \ {c} : cpu[d].on # p
    BY ThreadFacts, Zenon DEF SwitchInv
  <1>2. pc[p] \notin {"while_ticks", "sleep"}
    BY <1>1, Zenon DEF Locked, SlotOK, Open
  <1>3. cpu[c].irq = "no"
    BY <1>1, Zenon DEF OnOK, Locked, Open
  <1>4. ~HasTicks(c) /\ tickslock # c /\ cpu[c].ncli = 1
    BY <1>1, <1>2, <1>3 DEF HasTicks, CpuOK
  <1>5. cpu'[c] = r /\ \A d \in CPU \ {c} : cpu'[d] = cpu[d]
    BY <1>1, CpuUpdate, Zenon
  <1>6. /\ cpu'[c].on = p /\ cpu'[c].loop = "scan" /\ cpu'[c].irq = "no" /\ cpu'[c].ncli = 0
        /\ pc'[p] \in Open => cpu'[c].ief
    BY <1>1, <1>3, <1>4, <1>5 DEF OnOK
  <1>7. Local(c, p)
    BY <1>1, <1>5, <1>6, ProcAssumption, Zenon DEF Local
  <1>8. OnOK(c, p)'
    BY <1>6, Zenon DEF OnOK, OnState, Open
  <1>9. ~HasPtable(c)' /\ ~HasTicks(c)'
    BY <1>1, <1>6, Zenon DEF HasPtable, HasTicks, Locked, Open
  <1>10. CpuOK(c)'
    BY <1>1, <1>4, <1>6, <1>8, <1>9, ProcAssumption DEF CpuOK
  <1>11. SlotOK(p)'
    BY <1>1, <1>6, Zenon DEF SlotOK, Off, Open
  <1>12. panicked' \in {"no", "init exiting"}
    BY Zenon DEF SwitchInv
  <1> QED
    BY <1>1, <1>7, <1>10, <1>11, <1>12, LocalStep, Zenon

\* sched() returns on c: the record, before and after release().
LEMMA ReturnedRec ==
    ASSUME SwitchInv, NEW c \in CPU, NEW p \in Slot, cpu[c].on = p, Locked(p)
    PROVE  LET r == Returned(c, p)
           IN  /\ r \in CpuRec /\ r.on = p /\ r.loop = cpu[c].loop /\ r.irq = cpu[c].irq
               /\ r.ncli = cpu[c].ncli /\ r.ief = cpu[c].ief /\ r.intena = intena[p]
               /\ popcli(r) \in CpuRec /\ popcli(r).on = p
               /\ popcli(r).loop = cpu[c].loop /\ popcli(r).irq = cpu[c].irq
               /\ popcli(r).ncli = cpu[c].ncli - 1
               /\ intena[p] => popcli(r).ief
  <1> DEFINE r == Returned(c, p)
  <1>1. cpu[c] \in CpuRec /\ OnOK(c, p) /\ SlotOK(p) /\ CpuOK(c) /\ ptable_lock = c
    BY ThreadFacts, Zenon DEF SwitchInv
  <1>2. intena[p] \in BOOLEAN
    BY Types, Zenon
  <1>3. /\ r \in CpuRec /\ r.on = p /\ r.loop = cpu[c].loop /\ r.irq = cpu[c].irq
        /\ r.ncli = cpu[c].ncli
    BY <1>1, <1>2, Zenon DEF Returned, CpuRec
  <1>4. r.ief = cpu[c].ief
    BY <1>1, Zenon DEF Returned, CpuRec
  <1>5. r.intena = intena[p]
    BY <1>1, Zenon DEF Returned, CpuRec
  <1>6. pc[p] \notin {"while_ticks", "sleep"} /\ cpu[c].irq = "no"
    BY <1>1, Zenon DEF Locked, SlotOK, OnOK, Open
  <1>7. cpu[c].ncli = 1
    BY <1>1, <1>6 DEF CpuOK, HasTicks
  <1> HIDE DEF r
  <1>8. /\ popcli(r) \in CpuRec /\ popcli(r).on = p
        /\ popcli(r).loop = cpu[c].loop /\ popcli(r).irq = cpu[c].irq
        /\ popcli(r).ncli = cpu[c].ncli - 1
    BY <1>3, <1>7, Popcli
  <1>9. popcli(r).ief <=> r.ief \/ r.intena
    BY <1>3, <1>7, Popcli
  <1> QED
    BY <1>3, <1>4, <1>5, <1>8, <1>9, Zenon DEF r

\* yield() comes back from sched(), maybe on another CPU, and releases
\* ptable.lock.
LEMMA StepYieldReturn ==
    ASSUME SwitchInv, NEW c \in CPU, NEW p \in Slot, yield_return(c, p)
    PROVE  SwitchInv'
  <1> DEFINE r == popcli(Returned(c, p))
             e == [r EXCEPT !.ief = TRUE]
  <1>1. /\ cpu[c].on = p /\ yielding[p] = "yielded"
        /\ yielding' = [yielding EXCEPT ![p] = "no"]
        /\ ptable_lock' = NoCPU
        /\ intena' = [intena EXCEPT ![p] = FALSE]
        /\ UNCHANGED <<proc, tickslock, ticks, np, nap, panicked>>
    BY Zenon DEF yield_return, Forget
  <1>2. \/ pc[p] = "user" /\ pc' = [pc EXCEPT ![p] = "exit"] /\ cpu' = [cpu EXCEPT ![c] = r]
        \/ UNCHANGED pc /\ cpu' = [cpu EXCEPT ![c] = e]
    BY Zenon DEF yield_return, Goto
  <1>3. Locked(p) /\ state[p] = "RUNNING" /\ pc[p] \in Open \cup {"exit"} /\ TypeOK
    BY <1>1, ThreadFacts, Zenon DEF Locked, OnOK, OnState, SlotOK, SwitchInv
  <1>4. /\ r \in CpuRec /\ r.on = p /\ r.loop = cpu[c].loop /\ r.irq = cpu[c].irq
        /\ r.ncli = cpu[c].ncli - 1
    BY <1>1, <1>3, ReturnedRec, Zenon
  <1> HIDE DEF r
  <1>5. /\ e \in CpuRec /\ e.on = p /\ e.loop = cpu[c].loop /\ e.irq = cpu[c].irq
        /\ e.ncli = cpu[c].ncli - 1 /\ e.ief
    BY <1>4, Zenon DEF CpuRec
  <1> HIDE DEF e
  <1>6. UNCHANGED <<state, pid, parent, chan, killed, kstack, nextpid>>
    BY <1>1, Zenon DEF proc
  <1>7. /\ yielding' \in [Slot -> {"no", "yield", "sched", "yielded"}] /\ yielding'[p] = "no"
        /\ \A q \in Slot \ {p} : yielding'[q] = yielding[q]
    BY <1>1, Types, Zenon
  <1>8. intena' \in [Slot -> BOOLEAN] /\ \A q \in Slot \ {p} : intena'[q] = intena[q]
    BY <1>1, Types, Zenon
  <1>9. /\ pc' \in [Slot -> PCs] /\ \A q \in Slot \ {p} : pc'[q] = pc[q]
        /\ pc'[p] \in {pc[p], "exit"}
    BY <1>2, Moved, Types, Zenon DEF PCs
  <1>10. cpu' \in [CPU -> CpuRec]
    BY <1>2, <1>3, <1>4, <1>5, CpuUpdate, Zenon
  <1>11. TypeOK'
    BY <1>1, <1>3, <1>6, <1>7, <1>8, <1>9, <1>10, TypeNext, Zenon
  <1>12. \A q \in Slot : pc'[q] \in Forking => pc'[q] = pc[q]
    BY <1>9, Zenon DEF Forking
  <1>13. ForkInv'
    BY <1>1, <1>3, <1>6, <1>9, <1>12, ForkFrame, Zenon
  <1>14. \A q \in Slot \ {p} : Moves(c, q)
    BY <1>6, <1>7, <1>8, <1>9, Zenon DEF Moves
  <1>15. CASE pc[p] = "user" /\ pc' = [pc EXCEPT ![p] = "exit"] /\ cpu' = [cpu EXCEPT ![c] = r]
    <2>1. pc'[p] \in Open \cup {"exit"}
      BY <1>15, Types, Zenon DEF Open
    <2>2. pc'[p] \in Open => r.ief
      BY <1>15, Types, Zenon DEF Open
    <2>3. /\ cpu[c].on = p /\ ptable_lock' = NoCPU /\ tickslock' = tickslock
          /\ cpu' = [cpu EXCEPT ![c] = r] /\ panicked' = panicked /\ yielding'[p] = "no"
          /\ state'[p] = state[p] /\ kstack'[p] = kstack[p]
      BY <1>1, <1>6, <1>7, <1>15, Zenon
    <2> QED
      BY <1>3, <1>4, <1>11, <1>13, <1>14, <2>1, <2>2, <2>3, ReleaseStep, Zenon
  <1>16. CASE UNCHANGED pc /\ cpu' = [cpu EXCEPT ![c] = e]
    BY <1>1, <1>3, <1>5, <1>6, <1>7, <1>11, <1>13, <1>14, <1>16, ReleaseStep, Zenon
  <1> QED
    BY <1>2, <1>15, <1>16, Zenon

\* The first run of a child releases the ptable.lock that scheduler() took.
LEMMA StepForkret ==
    ASSUME SwitchInv, NEW c \in CPU, NEW p \in Slot, forkret(c, p)
    PROVE  SwitchInv'
  <1> DEFINE r == popcli(cpu[c])
             e == [r EXCEPT !.ief = TRUE]
  <1>1. /\ cpu[c].on = p /\ cpu[c].irq = "no" /\ yielding[p] = "no" /\ pc[p] = "forkret"
        /\ ptable_lock' = NoCPU
        /\ cpu' = [cpu EXCEPT ![c] = e]
        /\ pc' = [pc EXCEPT ![p] = "user"]
        /\ UNCHANGED <<proc, tickslock, ticks, yielding, intena, np, nap, panicked>>
    BY Zenon DEF forkret, At, Runs, Goto
  <1>2. /\ Locked(p) /\ state[p] = "RUNNING" /\ TypeOK /\ cpu[c] \in CpuRec
        /\ CpuOK(c) /\ ptable_lock = c
    BY <1>1, ThreadFacts, Zenon DEF Locked, OnOK, OnState, SwitchInv
  <1>3. cpu[c].ncli = 1
    BY <1>1, <1>2 DEF CpuOK, HasTicks
  <1>4. /\ r \in CpuRec /\ r.on = p /\ r.loop = cpu[c].loop /\ r.irq = cpu[c].irq
        /\ r.ncli = cpu[c].ncli - 1
    BY <1>1, <1>2, <1>3, Popcli
  <1> HIDE DEF r
  <1>5. /\ e \in CpuRec /\ e.on = p /\ e.loop = cpu[c].loop /\ e.irq = cpu[c].irq
        /\ e.ncli = cpu[c].ncli - 1 /\ e.ief
    BY <1>4, Zenon DEF CpuRec
  <1> HIDE DEF e
  <1>6. UNCHANGED <<state, pid, parent, chan, killed, kstack, nextpid>>
    BY <1>1, Zenon DEF proc
  <1>7. pc' \in [Slot -> PCs] /\ pc'[p] = "user" /\ \A q \in Slot \ {p} : pc'[q] = pc[q]
    BY <1>1, Moved, Zenon DEF PCs
  <1>8. cpu' \in [CPU -> CpuRec]
    BY <1>1, <1>2, <1>5, CpuUpdate, Zenon
  <1>9. TypeOK'
    BY <1>1, <1>2, <1>6, <1>7, <1>8, TypeNext, Zenon
  <1>10. ForkInv'
    BY <1>1, <1>2, <1>6, <1>7, ForkFrame, Zenon DEF Forking
  <1>11. \A q \in Slot \ {p} : Moves(c, q)
    BY <1>1, <1>6, <1>7, Zenon DEF Moves
  <1>12. pc'[p] \in Open \cup {"exit"}
    BY <1>7, Zenon DEF Open
  <1> QED
    BY <1>1, <1>2, <1>5, <1>6, <1>9, <1>10, <1>11, <1>12, ReleaseStep, Zenon

\* sleep() on &ticks comes back from sched(), maybe on another CPU.
LEMMA StepSlept ==
    ASSUME SwitchInv, NEW c \in CPU, NEW p \in Slot, slept(c, p)
    PROVE  SwitchInv'
  <1> DEFINE r == popcli(Returned(c, p))
  <1>1. /\ cpu[c].on = p /\ cpu[c].irq = "no" /\ yielding[p] = "no" /\ pc[p] = "slept"
        /\ chan' = [chan EXCEPT ![p] = None]
        /\ ptable_lock' = NoCPU
        /\ cpu' = [cpu EXCEPT ![c] = r]
        /\ pc' = [pc EXCEPT ![p] = "relock"]
        /\ intena' = [intena EXCEPT ![p] = FALSE]
        /\ UNCHANGED <<state, pid, parent, killed, kstack, nextpid, tickslock, ticks,
                       yielding, np, nap, panicked>>
    BY Zenon DEF slept, At, Runs, Goto, Forget
  <1>2. Locked(p) /\ state[p] = "RUNNING" /\ TypeOK
    BY <1>1, ThreadFacts, Zenon DEF Locked, OnOK, OnState, SwitchInv
  <1>3. intena[p]
    BY <1>1, ThreadFacts, Zenon DEF SlotOK
  <1>4. /\ r \in CpuRec /\ r.on = p /\ r.loop = cpu[c].loop /\ r.irq = cpu[c].irq
        /\ r.ncli = cpu[c].ncli - 1 /\ r.ief
    BY <1>1, <1>2, <1>3, ReturnedRec, Zenon
  <1> HIDE DEF r
  <1>5. pc' \in [Slot -> PCs] /\ pc'[p] = "relock" /\ \A q \in Slot \ {p} : pc'[q] = pc[q]
    BY <1>1, Moved, Zenon DEF PCs
  <1>6. intena' \in [Slot -> BOOLEAN] /\ \A q \in Slot \ {p} : intena'[q] = intena[q]
    BY <1>1, Types, Zenon
  <1>7. chan' \in [Slot -> Slot \cup {None, TicksChan}]
    BY <1>1, Types, Zenon
  <1>8. cpu' \in [CPU -> CpuRec]
    BY <1>1, <1>2, <1>4, CpuUpdate, Zenon
  <1>9. TypeOK'
    BY <1>1, <1>2, <1>5, <1>6, <1>7, <1>8, TypeNext, Zenon
  <1>10. ForkInv'
    BY <1>1, <1>2, <1>5, ForkFrame, Zenon DEF Forking
  <1>11. \A q \in Slot \ {p} : Moves(c, q)
    BY <1>1, <1>5, <1>6, Zenon DEF Moves
  <1>12. pc'[p] \in Open \cup {"exit"}
    BY <1>5, Zenon DEF Open
  <1> QED
    BY <1>1, <1>2, <1>4, <1>9, <1>10, <1>11, <1>12, ReleaseStep, Zenon

\* wait() comes back from sleep() with ptable.lock, and goes round its loop.
LEMMA StepWaitAgain ==
    ASSUME SwitchInv, NEW c \in CPU, NEW p \in Slot, wait_again(c, p)
    PROVE  SwitchInv'
  <1>1. /\ cpu[c].on = p /\ cpu[c].irq = "no" /\ yielding[p] = "no" /\ pc[p] = "waited"
        /\ intena' = [intena EXCEPT ![p] = FALSE]
        /\ UNCHANGED <<nextpid, tickslock, ticks, yielding, np, nap, panicked>>
    BY Zenon DEF wait_again, At, Runs, Forget
  <1>2. /\ Locked(p) /\ state[p] = "RUNNING" /\ TypeOK /\ p # None
        /\ OnOK(c, p) /\ SlotOK(p) /\ CpuOK(c) /\ ptable_lock = c
        /\ \A d \in CPU \ {c} : cpu[d].on # p
    BY <1>1, ThreadFacts, Zenon DEF Locked, OnOK, OnState, SwitchInv
  <1>3. intena[p]
    BY <1>1, <1>2, Zenon DEF SlotOK
  <1>4. intena' \in [Slot -> BOOLEAN] /\ \A q \in Slot \ {p} : intena'[q] = intena[q]
    BY <1>1, Types, Zenon
  <1>5. CASE /\ wait_reap(p) \/ wait_fails(p)
             /\ ptable_lock' = NoCPU
             /\ cpu' = [cpu EXCEPT ![c] = popcli(Returned(c, p))]
    <2> DEFINE r == popcli(Returned(c, p))
    <2>1. /\ r \in CpuRec /\ r.on = p /\ r.loop = cpu[c].loop /\ r.irq = cpu[c].irq
          /\ r.ncli = cpu[c].ncli - 1 /\ r.ief
      BY <1>1, <1>2, <1>3, ReturnedRec, Zenon
    <2>2. cpu' = [cpu EXCEPT ![c] = r] /\ ptable_lock' = NoCPU
      BY <1>5, Zenon
    <2>3. wait_reap(p) \/ wait_fails(p)
      BY <1>5, Zenon
    <2> HIDE DEF r
    <2>4. cpu' \in [CPU -> CpuRec]
      BY <1>2, <2>1, <2>2, CpuUpdate, Zenon
    <2>5. TypeOK'
      BY <1>1, <1>2, <1>4, <2>2, <2>3, <2>4, WaitEnds, TypeNext, Zenon
    <2>6. ForkInv'
      BY <1>1, <1>2, <2>3, WaitEnds, ForkFrame DEF Forking
    <2>7. \A q \in Slot \ {p} : Moves(c, q)
      BY <1>1, <1>2, <1>4, <2>3, WaitEnds DEF Moves
    <2>8. state'[p] = state[p] /\ kstack'[p] = kstack[p]
      BY <1>2, <2>3, WaitEnds, Zenon
    <2>9. pc'[p] \in Open \cup {"exit"}
      BY <2>3, WaitEnds, Zenon DEF Open
    <2> QED
      BY <1>1, <1>2, <2>1, <2>2, <2>5, <2>6, <2>7, <2>8, <2>9, ReleaseStep, Zenon
  <1>6. CASE /\ wait_sleeps(p)
             /\ cpu' = [cpu EXCEPT ![c] = Returned(c, p)]
             /\ UNCHANGED ptable_lock
    <2> DEFINE r == Returned(c, p)
    <2>1. /\ r \in CpuRec /\ r.on = p /\ r.loop = cpu[c].loop /\ r.irq = cpu[c].irq
          /\ r.ncli = cpu[c].ncli /\ r.ief = cpu[c].ief /\ r.intena = intena[p]
      BY <1>1, <1>2, ReturnedRec, Zenon
    <2>2. cpu' = [cpu EXCEPT ![c] = r] /\ ptable_lock' = ptable_lock
      BY <1>6, Zenon
    <2>3. /\ chan' = [chan EXCEPT ![p] = p]
          /\ state' = [state EXCEPT ![p] = "SLEEPING"]
          /\ pc' = [pc EXCEPT ![p] = "sched_wait"]
          /\ UNCHANGED <<pid, parent, killed, kstack>>
      BY <1>6, Zenon DEF wait_sleeps, Goto
    <2> HIDE DEF r
    <2>4. /\ cpu' \in [CPU -> CpuRec] /\ cpu'[c] = r
          /\ \A d \in CPU \ {c} : cpu'[d] = cpu[d]
      BY <1>2, <2>1, <2>2, CpuUpdate, Zenon
    <2>5. /\ state' \in [Slot -> States] /\ state'[p] = "SLEEPING"
          /\ \A q \in Slot \ {p} : state'[q] = state[q]
      BY <2>3, Types, Zenon DEF States
    <2>6. pc' \in [Slot -> PCs] /\ pc'[p] = "sched_wait" /\ \A q \in Slot \ {p} : pc'[q] = pc[q]
      BY <2>3, Moved, Zenon DEF PCs
    <2>7. chan' \in [Slot -> Slot \cup {None, TicksChan}]
      BY <2>3, Types, Zenon
    <2>8. TypeOK'
      BY <1>1, <1>2, <1>4, <2>2, <2>3, <2>4, <2>5, <2>6, <2>7, TypeNext, Zenon
    <2>9. ForkInv'
      BY <1>1, <1>2, <2>3, <2>5, <2>6, ForkFrame, Zenon DEF Forking
    <2>10. Local(c, p)
      BY <1>1, <1>2, <1>4, <2>1, <2>2, <2>3, <2>4, <2>5, <2>6, Zenon DEF Local, Moves
    <2>11. cpu[c].ncli = 1 /\ ~cpu[c].ief /\ tickslock # c
      BY <1>1, <1>2 DEF CpuOK, HasTicks
    <2>12. /\ cpu'[c].on = p /\ cpu'[c].loop = "scan" /\ cpu'[c].irq = "no"
           /\ cpu'[c].ncli = 1 /\ ~cpu'[c].ief /\ cpu'[c].intena
      BY <1>1, <1>2, <1>3, <2>1, <2>4, <2>11, Zenon DEF OnOK
    <2>13. OnOK(c, p)'
      BY <1>1, <2>5, <2>6, <2>12, Zenon DEF OnOK, OnState, Open
    <2>14. HasPtable(c)' /\ ~HasTicks(c)'
      BY <1>1, <1>2, <2>6, <2>12, Zenon DEF HasPtable, HasTicks, Locked
    <2>15. CpuOK(c)'
      BY <1>1, <1>2, <2>2, <2>11, <2>12, <2>13, <2>14, Zenon DEF CpuOK
    <2>16. SlotOK(p)'
      BY <1>1, <1>2, <2>3, <2>6, <2>12, Zenon DEF SlotOK, Off
    <2>17. panicked' \in {"no", "init exiting"}
      BY <1>1, Zenon DEF SwitchInv
    <2> QED
      BY <1>2, <2>8, <2>9, <2>10, <2>15, <2>16, <2>17, LocalStep, Zenon
  <1> QED
    BY <1>5, <1>6, Zenon DEF wait_again

\* sys_sleep() takes tickslock.
LEMMA StepSleepAcquire ==
    ASSUME SwitchInv, NEW c \in CPU, NEW p \in Slot, sleep_acquire(c, p)
    PROVE  SwitchInv'
  <1> DEFINE r == pushcli(cpu[c])
  <1>1. /\ cpu[c].on = p /\ cpu[c].irq = "no" /\ yielding[p] = "no" /\ pc[p] \in Open
        /\ tickslock = NoCPU /\ tickslock' = c
        /\ cpu' = [cpu EXCEPT ![c] = r]
        /\ pc' = [pc EXCEPT ![p] = "while_ticks"]
        /\ UNCHANGED <<proc, ptable_lock, ticks, yielding, intena, np, panicked>>
    BY Zenon DEF sleep_acquire, At, Runs, Goto, Open
  <1>2. /\ state[p] = "RUNNING" /\ TypeOK /\ p # None /\ cpu[c] \in CpuRec /\ cpu[c].ief
        /\ OnOK(c, p) /\ SlotOK(p) /\ CpuOK(c) /\ ~Locked(p) /\ ptable_lock # c
        /\ \A d \in CPU \ {c} : cpu[d].on # p
    BY <1>1, ThreadFacts, Zenon DEF Locked, OnOK, OnState, SwitchInv, Open
  <1>3. cpu[c].ncli = 0 /\ tickslock # c
    BY <1>1, <1>2, ProcAssumption, Zenon DEF CpuOK
  <1>4. /\ r \in CpuRec /\ r.on = p /\ r.loop = cpu[c].loop /\ r.irq = cpu[c].irq
        /\ r.ncli = 1 /\ ~r.ief
    BY <1>1, <1>2, <1>3, Pushcli
  <1>5. r.intena
    BY <1>2, <1>3, Pushcli, Zenon
  <1> HIDE DEF r
  <1>6. /\ cpu' \in [CPU -> CpuRec] /\ cpu'[c] = r
        /\ \A d \in CPU \ {c} : cpu'[d] = cpu[d]
    BY <1>1, <1>2, <1>4, CpuUpdate, Zenon
  <1>7. pc' \in [Slot -> PCs] /\ pc'[p] = "while_ticks" /\ \A q \in Slot \ {p} : pc'[q] = pc[q]
    BY <1>1, Moved, Zenon DEF PCs
  <1>8. UNCHANGED <<state, pid, parent, chan, killed, kstack, nextpid>>
    BY <1>1, Zenon DEF proc
  <1>9. nap' \in [Slot -> [ticks0 : 0..(UINT - 1), n : 0..MAXSLEEP]]
    <2>1. nap' = nap \/ nap' = [nap EXCEPT ![p] = [nap[p] EXCEPT !.ticks0 = ticks]]
      BY Zenon DEF sleep_acquire
    <2>2. nap[p] \in [ticks0 : 0..(UINT - 1), n : 0..MAXSLEEP] /\ ticks \in 0..(UINT - 1)
      BY Types, Zenon
    <2>3. [nap[p] EXCEPT !.ticks0 = ticks] \in [ticks0 : 0..(UINT - 1), n : 0..MAXSLEEP]
      BY <2>2, Zenon
    <2> QED
      BY <2>1, <2>3, Types, Zenon
  <1>10. TypeOK'
    BY <1>1, <1>2, <1>6, <1>7, <1>8, <1>9, TypeNext, Zenon
  <1>11. ForkInv'
    BY <1>1, <1>2, <1>7, <1>8, ForkFrame, Zenon DEF Forking
  <1>12. Local(c, p)
    BY <1>1, <1>2, <1>3, <1>4, <1>6, <1>7, <1>8, ProcAssumption, Zenon DEF Local, Moves
  <1>13. /\ cpu'[c].on = p /\ cpu'[c].loop = "scan" /\ cpu'[c].irq = "no"
         /\ cpu'[c].ncli = 1 /\ ~cpu'[c].ief /\ cpu'[c].intena
    BY <1>1, <1>2, <1>4, <1>5, <1>6, Zenon DEF OnOK
  <1>14. OnOK(c, p)'
    BY <1>1, <1>2, <1>7, <1>8, <1>13, Zenon DEF OnOK, OnState, Open
  <1>15. ~HasPtable(c)' /\ HasTicks(c)'
    BY <1>1, <1>2, <1>7, <1>13, Zenon DEF HasPtable, HasTicks, Locked
  <1>16. CpuOK(c)'
    BY <1>1, <1>2, <1>13, <1>14, <1>15 DEF CpuOK
  <1>17. SlotOK(p)'
    BY <1>1, <1>2, <1>7, <1>8, <1>13, Zenon DEF SlotOK, Off
  <1>18. panicked' \in {"no", "init exiting"}
    BY <1>1, Zenon DEF SwitchInv
  <1> QED
    BY <1>2, <1>10, <1>11, <1>12, <1>16, <1>17, <1>18, LocalStep, Zenon

\* The test of the loop of sys_sleep(), under tickslock.
LEMMA StepWhileTicks ==
    ASSUME SwitchInv, NEW c \in CPU, NEW p \in Slot, while_ticks(c, p)
    PROVE  SwitchInv'
  <1> DEFINE r == popcli(cpu[c])
  <1>1. /\ cpu[c].on = p /\ cpu[c].irq = "no" /\ yielding[p] = "no" /\ pc[p] = "while_ticks"
        /\ UNCHANGED <<proc, ptable_lock, ticks, yielding, intena, np, nap, panicked>>
    BY Zenon DEF while_ticks, At, Runs
  <1>2. \/ /\ tickslock' = NoCPU /\ cpu' = [cpu EXCEPT ![c] = r]
           /\ pc' = [pc EXCEPT ![p] = "sysret"]
        \/ pc' = [pc EXCEPT ![p] = "sleep"] /\ UNCHANGED <<tickslock, cpu>>
    BY Zenon DEF while_ticks, Goto
  <1>3. /\ state[p] = "RUNNING" /\ TypeOK /\ p # None /\ cpu[c] \in CpuRec /\ cpu[c].intena
        /\ OnOK(c, p) /\ SlotOK(p) /\ CpuOK(c) /\ ~Locked(p) /\ ptable_lock # c
        /\ tickslock = c
        /\ \A d \in CPU \ {c} : cpu[d].on # p
    BY <1>1, ThreadFacts, Zenon DEF Locked, OnOK, OnState, SwitchInv, HasTicks
  <1>4. cpu[c].ncli = 1 /\ ~cpu[c].ief
    BY <1>3 DEF CpuOK
  <1>5. /\ r \in CpuRec /\ r.on = p /\ r.loop = cpu[c].loop /\ r.irq = cpu[c].irq
        /\ r.ncli = 0
    BY <1>1, <1>3, <1>4, Popcli
  <1>6. r.ief
    BY <1>3, <1>4, Popcli
  <1> HIDE DEF r
  <1>7. UNCHANGED <<state, pid, parent, chan, killed, kstack, nextpid>>
    BY <1>1, Zenon DEF proc
  <1>8. panicked' \in {"no", "init exiting"}
    BY <1>1, Zenon DEF SwitchInv
  <1>9. CASE /\ tickslock' = NoCPU /\ cpu' = [cpu EXCEPT ![c] = r]
             /\ pc' = [pc EXCEPT ![p] = "sysret"]
    <2>1. /\ cpu' \in [CPU -> CpuRec] /\ cpu'[c] = r
          /\ \A d \in CPU \ {c} : cpu'[d] = cpu[d]
      BY <1>3, <1>5, <1>9, CpuUpdate, Zenon
    <2>2. pc' \in [Slot -> PCs] /\ pc'[p] = "sysret" /\ \A q \in Slot \ {p} : pc'[q] = pc[q]
      BY <1>9, Moved, Zenon DEF PCs
    <2>3. tickslock' = NoCPU
      BY <1>9, Zenon
    <2>4. TypeOK'
      BY <1>1, <1>3, <1>7, <2>1, <2>2, <2>3, TypeNext, Zenon
    <2>5. ForkInv'
      BY <1>1, <1>3, <1>7, <2>2, ForkFrame, Zenon DEF Forking
    <2>6. Local(c, p)
      BY <1>1, <1>3, <1>5, <1>7, <2>1, <2>2, <2>3, ProcAssumption, Zenon DEF Local, Moves
    <2>7. /\ cpu'[c].on = p /\ cpu'[c].loop = "scan" /\ cpu'[c].irq = "no"
          /\ cpu'[c].ncli = 0 /\ cpu'[c].ief
      BY <1>1, <1>3, <1>5, <1>6, <2>1, Zenon DEF OnOK
    <2>8. OnOK(c, p)'
      BY <1>1, <1>3, <1>7, <2>2, <2>7, Zenon DEF OnOK, OnState, Open
    <2>9. ~HasPtable(c)' /\ ~HasTicks(c)'
      BY <1>1, <1>3, <2>2, <2>7, Zenon DEF HasPtable, HasTicks, Locked
    <2>10. CpuOK(c)'
      BY <1>1, <1>3, <2>3, <2>7, <2>8, <2>9, ProcAssumption DEF CpuOK
    <2>11. SlotOK(p)'
      BY <1>1, <1>3, <1>7, <2>2, <2>7, Zenon DEF SlotOK, Off
    <2> QED
      BY <1>3, <1>8, <2>4, <2>5, <2>6, <2>10, <2>11, LocalStep, Zenon
  <1>10. CASE pc' = [pc EXCEPT ![p] = "sleep"] /\ UNCHANGED <<tickslock, cpu>>
    <2>1. pc' \in [Slot -> PCs] /\ pc'[p] = "sleep" /\ \A q \in Slot \ {p} : pc'[q] = pc[q]
      BY <1>10, Moved, Zenon DEF PCs
    <2>2. tickslock' = tickslock /\ cpu' = cpu
      BY <1>10, Zenon
    <2>3. TypeOK'
      BY <1>1, <1>3, <1>7, <2>1, <2>2, TypeNext, Zenon
    <2>4. ForkInv'
      BY <1>1, <1>3, <1>7, <2>1, ForkFrame, Zenon DEF Forking
    <2>5. Local(c, p)
      BY <1>1, <1>3, <1>7, <2>1, <2>2, Zenon DEF Local, Moves
    <2>6. OnOK(c, p)'
      BY <1>1, <1>3, <1>4, <1>7, <2>1, <2>2, Zenon DEF OnOK, OnState, Open
    <2>7. ~HasPtable(c)' /\ HasTicks(c)'
      BY <1>1, <1>3, <2>1, <2>2, Zenon DEF HasPtable, HasTicks, Locked
    <2>8. CpuOK(c)'
      BY <1>1, <1>3, <1>4, <2>2, <2>6, <2>7, Zenon DEF CpuOK
    <2>9. SlotOK(p)'
      BY <1>1, <1>3, <1>7, <2>1, <2>2, Zenon DEF SlotOK, Off
    <2> QED
      BY <1>3, <1>8, <2>3, <2>4, <2>5, <2>8, <2>9, LocalStep, Zenon
  <1> QED
    BY <1>2, <1>9, <1>10, Zenon

\* sleep(&ticks, &tickslock): ptable.lock is taken before tickslock is released.
LEMMA StepSleep ==
    ASSUME SwitchInv, NEW c \in CPU, NEW p \in Slot, sleep(c, p)
    PROVE  SwitchInv'
  <1> DEFINE u == pushcli(cpu[c])
             r == popcli(u)
  <1>1. /\ cpu[c].on = p /\ cpu[c].irq = "no" /\ yielding[p] = "no" /\ pc[p] = "sleep"
        /\ ptable_lock = NoCPU /\ ptable_lock' = c /\ tickslock' = NoCPU
        /\ cpu' = [cpu EXCEPT ![c] = r]
        /\ chan' = [chan EXCEPT ![p] = TicksChan]
        /\ state' = [state EXCEPT ![p] = "SLEEPING"]
        /\ pc' = [pc EXCEPT ![p] = "sched_sleep"]
        /\ UNCHANGED <<pid, parent, killed, kstack, nextpid, ticks, yielding, intena,
                       np, nap, panicked>>
    BY Zenon DEF sleep, At, Runs, Goto
  <1>2. /\ state[p] = "RUNNING" /\ TypeOK /\ p # None /\ cpu[c] \in CpuRec /\ cpu[c].intena
        /\ OnOK(c, p) /\ SlotOK(p) /\ CpuOK(c) /\ tickslock = c
        /\ \A d \in CPU \ {c} : cpu[d].on # p
    BY <1>1, ThreadFacts, Zenon DEF OnOK, OnState, SwitchInv, HasTicks
  <1>3. cpu[c].ncli = 1
    BY <1>1, <1>2, ProcAssumption DEF CpuOK
  <1>4. /\ u \in CpuRec /\ u.on = p /\ u.loop = cpu[c].loop /\ u.irq = cpu[c].irq
        /\ u.ncli = 2 /\ ~u.ief
    BY <1>1, <1>2, <1>3, Pushcli
  <1>5. u.intena
    <2>1. cpu[c].ncli # 0
      BY <1>3
    <2> QED
      BY <1>2, <2>1, Pushcli, Zenon
  <1> HIDE DEF u
  <1>6. /\ r \in CpuRec /\ r.on = p /\ r.loop = cpu[c].loop /\ r.irq = cpu[c].irq
        /\ r.ncli = 1
    BY <1>4, Popcli
  <1>7. ~r.ief /\ r.intena
    <2>1. u.ncli # 1 /\ u.ncli > 0
      BY <1>4
    <2> QED
      BY <1>4, <1>5, <2>1, Popcli, Zenon
  <1> HIDE DEF r
  <1>8. /\ cpu' \in [CPU -> CpuRec] /\ cpu'[c] = r
        /\ \A d \in CPU \ {c} : cpu'[d] = cpu[d]
    BY <1>1, <1>2, <1>6, CpuUpdate, Zenon
  <1>9. pc' \in [Slot -> PCs] /\ pc'[p] = "sched_sleep" /\ \A q \in Slot \ {p} : pc'[q] = pc[q]
    BY <1>1, Moved, Zenon DEF PCs
  <1>10. /\ state' \in [Slot -> States] /\ state'[p] = "SLEEPING"
         /\ \A q \in Slot \ {p} : state'[q] = state[q]
    BY <1>1, Types, Zenon DEF States
  <1>11. chan' \in [Slot -> Slot \cup {None, TicksChan}]
    BY <1>1, Types, Zenon
  <1>12. TypeOK'
    BY <1>1, <1>2, <1>8, <1>9, <1>10, <1>11, TypeNext, Zenon
  <1>13. ForkInv'
    BY <1>1, <1>2, <1>9, <1>10, ForkFrame, Zenon DEF Forking
  <1>14. Local(c, p)
    BY <1>1, <1>2, <1>6, <1>8, <1>9, <1>10, ProcAssumption, Zenon DEF Local, Moves
  <1>15. /\ cpu'[c].on = p /\ cpu'[c].loop = "scan" /\ cpu'[c].irq = "no"
         /\ cpu'[c].ncli = 1 /\ ~cpu'[c].ief /\ cpu'[c].intena
    BY <1>1, <1>2, <1>6, <1>7, <1>8, Zenon DEF OnOK
  <1>16. OnOK(c, p)'
    BY <1>1, <1>9, <1>10, <1>15, Zenon DEF OnOK, OnState, Open
  <1>17. HasPtable(c)' /\ ~HasTicks(c)'
    BY <1>1, <1>2, <1>9, <1>15, Zenon DEF HasPtable, HasTicks, Locked
  <1>18. CpuOK(c)'
    BY <1>1, <1>2, <1>15, <1>16, <1>17, ProcAssumption DEF CpuOK
  <1>19. SlotOK(p)'
    BY <1>1, <1>2, <1>9, <1>15, Zenon DEF SlotOK, Off
  <1>20. panicked' \in {"no", "init exiting"}
    BY <1>1, Zenon DEF SwitchInv
  <1> QED
    BY <1>2, <1>12, <1>13, <1>14, <1>18, <1>19, <1>20, LocalStep, Zenon
=============================================================================
