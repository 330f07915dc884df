----------------------------- MODULE ProcProofs -----------------------------
(***************************************************************************)
(* Proofs about module Proc, for any number of CPUs and process slots:     *)
(* context switches are safe (SwitchSafe), and neither a wakeup of         *)
(* sys_sleep() (NoLostTick) nor a child or a wakeup of wait()              *)
(* (NoLostChild) is lost.  The first part ends the proof of SwitchInv with *)
(* the steps of the scheduler and of the interrupts.                       *)
(***************************************************************************)
EXTENDS ProcSwitchProofs

(* Steps of scheduler() and trap() *)

\* A step that CPU c takes on the stack of scheduler(), in its loop or in a
\* trap(), and that leaves it with the record r.
Idle(c, r) ==
    /\ cpu[c].on = None /\ r.on = None /\ cpu' = [cpu EXCEPT ![c] = r]
    /\ ptable_lock' = ptable_lock \/ {ptable_lock, ptable_lock'} \subseteq {c, NoCPU}
    /\ tickslock' = tickslock \/ {tickslock, tickslock'} \subseteq {c, NoCPU}
    /\ ptable_lock' = c <=> r.loop = "scan"
    /\ tickslock' = c <=> r.irq = "tick"
    /\ r.ncli = (IF ptable_lock' = c THEN 1 ELSE 0) + (IF tickslock' = c THEN 1 ELSE 0)
    /\ r.ief => r.ncli = 0 /\ r.irq = "no"
    /\ r.irq = "tick" => ~r.intena
    /\ r.irq # "no" => r.loop # "scan"

\* At most it wakes processes.
Wakes(c) ==
    /\ state' \in [Slot -> States]
    /\ \A q \in Slot : \/ state'[q] = state[q]
                       \/ /\ ptable_lock \in {NoCPU, c}
                          /\ state[q] = "SLEEPING" /\ state'[q] = "RUNNABLE"
    /\ UNCHANGED <<pid, parent, chan, killed, kstack, nextpid, intena, np, nap, panicked>>

\* Such a step preserves the invariant.
LEMMA IdleStep ==
    ASSUME SwitchInv, NEW c \in CPU, NEW r \in CpuRec, Idle(c, r), Wakes(c),
           UNCHANGED <<pc, yielding>>, ticks' \in 0..(UINT - 1)
    PROVE  SwitchInv'
  <1>1. TypeOK /\ cpu[c] \in CpuRec
    BY Types, Zenon DEF SwitchInv
  <1>2. /\ cpu' \in [CPU -> CpuRec] /\ cpu'[c] = r
        /\ \A d \in CPU \ {c} : cpu'[d] = cpu[d]
    BY <1>1, CpuUpdate, Zenon DEF Idle
  <1>3. TypeOK'
    <2>1. ptable_lock' \in CPU \cup {NoCPU} /\ tickslock' \in CPU \cup {NoCPU}
      BY Types, Zenon DEF Idle
    <2> QED
      BY <1>1, <1>2, <2>1, TypeNext, Zenon DEF Wakes
  <1>4. Local(c, None)
    <2>1. ASSUME NEW d \in CPU \ {c}
          PROVE  (ptable_lock' = d <=> ptable_lock = d) /\ (tickslock' = d <=> tickslock = d)
      BY ProcAssumption, Zenon DEF Idle
    <2>2. \A q \in Slot \ {None} : Moves(c, q)
      BY Zenon DEF Moves, Wakes
    <2> QED
      BY <1>2, <2>1, <2>2, Zenon DEF Local, Idle
  <1>5. ForkInv'
    BY ForkFrame, Zenon DEF Wakes
  <1>6. /\ HasPtable(c)' <=> r.loop = "scan"
        /\ HasTicks(c)' <=> r.irq = "tick"
    BY <1>2, Zenon DEF HasPtable, HasTicks, None, Idle
  <1>7. CpuOK(c)'
    BY <1>2, <1>6, Zenon DEF CpuOK, None, Idle
  <1>8. panicked' \in {"no", "init exiting"}
    BY Zenon DEF SwitchInv, Wakes
  <1> QED
    BY <1>3, <1>4, <1>5, <1>7, <1>8, LocalStep, Zenon

\* What a CPU on the stack of scheduler() has.
LEMMA IdleFacts ==
    ASSUME SwitchInv, NEW c \in CPU, cpu[c].on = None
    PROVE  /\ cpu[c] \in CpuRec
           /\ ptable_lock = c <=> cpu[c].loop = "scan"
           /\ tickslock = c <=> cpu[c].irq = "tick"
           /\ cpu[c].ncli = (IF ptable_lock = c THEN 1 ELSE 0) + (IF tickslock = c THEN 1 ELSE 0)
           /\ cpu[c].ief => cpu[c].ncli = 0 /\ cpu[c].irq = "no"
           /\ cpu[c].irq = "tick" => ~cpu[c].intena
           /\ cpu[c].irq # "no" => cpu[c].loop # "scan"
           /\ NoCPU # c
  BY Types, ProcAssumption, Zenon DEF SwitchInv, CpuOK, HasPtable, HasTicks

\* The loop of scheduler(), but for swtch().
LEMMA StepScheduler ==
    ASSUME SwitchInv, NEW c \in CPU,
           sti(c) \/ scheduler_acquire(c) \/ scheduler_release(c)
    PROVE  SwitchInv'
  <1>1. cpu[c].on = None
    BY Zenon DEF sti, scheduler_acquire, scheduler_release
  <1>2. tickslock' = tickslock /\ ticks' \in 0..(UINT - 1) /\ UNCHANGED <<pc, yielding>>
    BY Types, Zenon DEF sti, scheduler_acquire, scheduler_release, locks, thread
  <1>3. Wakes(c)
    BY Types, Zenon DEF sti, scheduler_acquire, scheduler_release, proc, thread, Wakes
  <1>4. CASE sti(c)
    <2> DEFINE r == [cpu[c] EXCEPT !.loop = "acquire", !.ief = TRUE]
    <2>1. /\ cpu' = [cpu EXCEPT ![c] = r] /\ ptable_lock' = ptable_lock
          /\ cpu[c].irq = "no" /\ cpu[c].loop = "sti"
      BY <1>4, Zenon DEF sti, locks
    <2>2. /\ r \in CpuRec /\ r.on = None /\ r.irq = "no" /\ r.loop = "acquire"
          /\ r.ncli = cpu[c].ncli
      <3>1. cpu[c] \in CpuRec
        BY <1>1, IdleFacts, Zenon
      <3>2. r \in CpuRec /\ r.loop = "acquire"
        BY <3>1, Zenon DEF CpuRec
      <3>3. r.on = cpu[c].on /\ r.irq = cpu[c].irq /\ r.ncli = cpu[c].ncli
        BY <3>1, Zenon DEF CpuRec
      <3> QED
        BY <1>1, <2>1, <3>2, <3>3, Zenon
    <2> HIDE DEF r
    <2>3. /\ ptable_lock' # c /\ tickslock' # c /\ r.ncli = 0
      BY <1>1, <1>2, <2>1, <2>2, IdleFacts
    <2>4. Idle(c, r)
      BY <1>1, <1>2, <2>1, <2>2, <2>3 DEF Idle
    <2> QED
      BY <1>2, <1>3, <2>2, <2>4, IdleStep, Zenon
  <1>5. CASE scheduler_acquire(c)
    <2> DEFINE u == pushcli(cpu[c])
               r == [u EXCEPT !.loop = "scan"]
    <2>1. /\ cpu[c].irq = "no" /\ ptable_lock = NoCPU /\ ptable_lock' = c
          /\ cpu' = [cpu EXCEPT ![c] = r]
          /\ cpu[c].loop = "acquire"
      BY <1>5, Zenon DEF scheduler_acquire
    <2>2. cpu[c].ncli = 0 /\ tickslock # c
      BY <1>1, <2>1, IdleFacts
    <2>3. /\ u \in CpuRec /\ u.on = None /\ u.irq = "no" /\ u.ncli = 1 /\ ~u.ief
      BY <1>1, <2>1, <2>2, IdleFacts, Pushcli
    <2> HIDE DEF u
    <2>4. /\ r \in CpuRec /\ r.on = None /\ r.irq = "no" /\ r.loop = "scan"
          /\ r.ncli = 1 /\ ~r.ief
      BY <2>3, Zenon DEF CpuRec
    <2> HIDE DEF r
    <2>5. Idle(c, r)
      BY <1>1, <1>2, <2>1, <2>2, <2>4 DEF Idle
    <2> QED
      BY <1>2, <1>3, <2>4, <2>5, IdleStep, Zenon
  <1>6. CASE scheduler_release(c)
    <2> DEFINE u == popcli(cpu[c])
               r == [u EXCEPT !.loop = "sti", !.scan = 1]
    <2>1. /\ ptable_lock' = NoCPU
          /\ cpu' = [cpu EXCEPT ![c] = r]
          /\ cpu[c].loop = "scan"
      BY <1>6, Zenon DEF scheduler_release
    <2>2. cpu[c].ncli = 1 /\ tickslock # c /\ cpu[c].irq = "no" /\ ptable_lock = c
      BY <1>1, <2>1, IdleFacts DEF CpuRec
    <2>3. /\ u \in CpuRec /\ u.on = None /\ u.irq = "no" /\ u.ncli = 0
      BY <1>1, <2>2, IdleFacts, Popcli
    <2> HIDE DEF u
    <2>4. /\ r \in CpuRec /\ r.on = None /\ r.irq = "no" /\ r.loop = "sti"
          /\ r.ncli = 0
      <3>1. 1 \in 1..(NPROC + 1)
        BY ProcAssumption
      <3> QED
        BY <2>3, <3>1, Zenon DEF CpuRec
    <2> HIDE DEF r
    <2>5. ptable_lock' # c
      BY <2>1, ProcAssumption, Zenon
    <2>6. Idle(c, r)
      BY <1>1, <1>2, <2>1, <2>2, <2>4, <2>5 DEF Idle
    <2> QED
      BY <1>2, <1>3, <2>4, <2>6, IdleStep, Zenon
  <1> QED
    BY <1>4, <1>5, <1>6, Zenon

\* scheduler() switches to a RUNNABLE process: no CPU is on its stack, and it goes
\* on at a place where the code expects ptable.lock to be held.
LEMMA StepSwtch ==
    ASSUME SwitchInv, NEW c \in CPU, scheduler_swtch(c)
    PROVE  SwitchInv'
  <1>1. /\ cpu[c].on = None /\ cpu[c].loop = "scan"
        /\ UNCHANGED <<pid, parent, chan, killed, kstack, nextpid, ptable_lock, tickslock,
                       ticks, pc, yielding, intena, np, nap, panicked>>
    BY Zenon DEF scheduler_swtch, locks, thread
  <1>2. PICK p \in Slot : /\ state[p] = "RUNNABLE"
                          /\ state' = [state EXCEPT ![p] = "RUNNING"]
                          /\ cpu' = [cpu EXCEPT ![c].proc = p, ![c].on = p, ![c].scan = p + 1]
    BY Zenon DEF scheduler_swtch, First, Scanned
  <1> DEFINE r == [cpu[c] EXCEPT !.proc = p, !.on = p, !.scan = p + 1]
  <1>3. /\ cpu[c] \in CpuRec /\ ptable_lock = c /\ tickslock # c /\ cpu[c].irq = "no"
        /\ cpu[c].ncli = 1 /\ ~cpu[c].ief /\ CpuOK(c) /\ p # None /\ SlotOK(p) /\ TypeOK
    <2>1. CpuOK(c) /\ SlotOK(p) /\ TypeOK /\ p # None
      BY NoneIsNoSlot, Zenon DEF SwitchInv
    <2>2. /\ cpu[c] \in CpuRec /\ ptable_lock = c /\ tickslock # c /\ cpu[c].irq = "no"
          /\ cpu[c].ncli = 1
      BY <1>1, IdleFacts DEF CpuRec
    <2>3. ~cpu[c].ief
      BY <1>1, <2>2, IdleFacts
    <2> QED
      BY <2>1, <2>2, <2>3, Zenon
  <1>4. /\ r \in CpuRec /\ r.on = p /\ r.loop = "scan" /\ r.irq = "no" /\ r.ncli = 1 /\ ~r.ief
    <2>1. p + 1 \in 1..(NPROC + 1)
      BY ProcAssumption DEF Slot
    <2> QED
      BY <1>1, <1>3, <2>1, Zenon DEF CpuRec
  <1>5. cpu' = [cpu EXCEPT ![c] = r]
    BY <1>2, Zenon
  <1> HIDE DEF r
  <1>6. /\ cpu' \in [CPU -> CpuRec] /\ cpu'[c] = r
        /\ \A d \in CPU \ {c} : cpu'[d] = cpu[d]
    BY <1>3, <1>4, <1>5, CpuUpdate, Zenon
  <1>7. /\ state' \in [Slot -> States] /\ state'[p] = "RUNNING"
        /\ \A q \in Slot \ {p} : state'[q] = state[q]
    BY <1>2, Types, Zenon DEF States
  <1>8. \A d \in CPU : cpu[d].on # p
    <2>1. ASSUME NEW d \in CPU, cpu[d].on = p PROVE FALSE
      <3>1. ptable_lock # d
        BY <1>1, <1>3, <2>1, Zenon
      <3> QED
        BY <1>2, <1>3, <2>1, <3>1, OnRunning, Zenon
    <2> QED
      BY <2>1, Zenon
  <1>9. \/ yielding[p] = "yielded"
        \/ yielding[p] = "no" /\ pc[p] \in {"waited", "slept", "forkret"}
    BY <1>2, <1>3, <1>8, Zenon DEF SlotOK, Off, Parked
  <1>10. TypeOK'
    BY <1>1, <1>3, <1>6, <1>7, TypeNext, Zenon
  <1>11. ForkInv'
    BY <1>1, <1>2, <1>7, ForkFrame, Zenon
  <1>12. Local(c, p)
    BY <1>1, <1>4, <1>6, <1>7, <1>8, Zenon DEF Local, Moves
  <1>13. /\ cpu'[c].on = p /\ cpu'[c].loop = "scan" /\ cpu'[c].irq = "no"
         /\ cpu'[c].ncli = 1 /\ ~cpu'[c].ief
    BY <1>4, <1>6, Zenon
  <1>14. pc[p] \notin {"dead", "while_ticks", "sleep", "sched_wait", "sched_sleep"}
    BY <1>3, <1>9, Zenon DEF SlotOK, Open
  <1>15. OnOK(c, p)'
    BY <1>1, <1>7, <1>9, <1>13, <1>14, Zenon DEF OnOK, OnState, Open
  <1>16. HasPtable(c)' /\ ~HasTicks(c)'
    BY <1>1, <1>3, <1>9, <1>13, <1>14, Zenon DEF HasPtable, HasTicks, Locked
  <1>17. CpuOK(c)'
    BY <1>1, <1>3, <1>13, <1>15, <1>16, Zenon DEF CpuOK
  <1>18. SlotOK(p)'
    BY <1>1, <1>2, <1>3, <1>7, <1>13, Zenon DEF SlotOK, Off
  <1>19. panicked' \in {"no", "init exiting"}
    BY <1>1, Zenon DEF SwitchInv
  <1> QED
    BY <1>3, <1>10, <1>11, <1>12, <1>17, <1>18, <1>19, LocalStep, Zenon

\* A step of trap() on the stack of p, that leaves the CPU with the record r.
\* At the end of trap() the process goes to exit() or to yield().
Trapped(c, p, r) ==
    /\ cpu[c].on = p /\ cpu' = [cpu EXCEPT ![c] = r]
    /\ yielding[p] = "no" /\ pc[p] \in Open \cup {"exit"}
    /\ r.on = p /\ r.loop = "scan" /\ ~r.ief
    /\ ptable_lock # c /\ ptable_lock' = ptable_lock
    /\ tickslock' = tickslock \/ {tickslock, tickslock'} \subseteq {c, NoCPU}
    /\ tickslock' = c <=> r.irq = "tick"
    /\ r.ncli = (IF tickslock' = c THEN 1 ELSE 0)
    /\ r.irq = "tick" => ~r.intena
    /\ \/ r.irq # "no" /\ UNCHANGED <<pc, yielding>>
       \/ r.irq = "no" /\ pc' = [pc EXCEPT ![p] = "exit"] /\ yielding' = yielding
       \/ r.irq = "no" /\ yielding' = [yielding EXCEPT ![p] = "yield"] /\ pc' = pc

\* Such a step preserves the invariant.
LEMMA TrappedStep ==
    ASSUME SwitchInv, NEW c \in CPU, NEW p \in Slot, NEW r \in CpuRec, Trapped(c, p, r),
           Wakes(c), ticks' \in 0..(UINT - 1)
    PROVE  SwitchInv'
  <1>1. /\ cpu[c].on = p /\ cpu' = [cpu EXCEPT ![c] = r]
        /\ yielding[p] = "no" /\ pc[p] \in Open \cup {"exit"} /\ ptable_lock # c
    BY Zenon DEF Trapped
  <1>2. /\ TypeOK /\ p # None /\ cpu[c] \in CpuRec /\ OnOK(c, p) /\ SlotOK(p) /\ CpuOK(c)
        /\ \A d \in CPU \ {c} : cpu[d].on # p
    BY <1>1, ThreadFacts, Zenon DEF SwitchInv
  <1>3. state[p] = "RUNNING" /\ state'[p] = "RUNNING" /\ kstack'[p] = kstack[p]
    BY <1>1, <1>2, Zenon DEF OnOK, OnState, Open, Wakes
  <1>4. /\ cpu' \in [CPU -> CpuRec] /\ cpu'[c] = r
        /\ \A d \in CPU \ {c} : cpu'[d] = cpu[d]
    BY <1>1, <1>2, CpuUpdate, Zenon
  <1>5. /\ pc' \in [Slot -> PCs] /\ \A q \in Slot \ {p} : pc'[q] = pc[q]
        /\ pc'[p] \in {pc[p], "exit"}
    <2>1. pc' = pc \/ pc' = [pc EXCEPT ![p] = "exit"]
      BY Zenon DEF Trapped
    <2> QED
      BY <2>1, Types, Moved, Zenon DEF PCs
  <1>6. /\ yielding' \in [Slot -> {"no", "yield", "sched", "yielded"}]
        /\ \A q \in Slot \ {p} : yielding'[q] = yielding[q]
        /\ yielding'[p] \in {"no", "yield"}
    <2>1. yielding' = yielding \/ yielding' = [yielding EXCEPT ![p] = "yield"]
      BY Zenon DEF Trapped
    <2>2. CASE yielding' = yielding
      BY <1>1, <2>2, Types, Zenon
    <2>3. CASE yielding' = [yielding EXCEPT ![p] = "yield"]
      BY <2>3, Types, Zenon
    <2> QED
      BY <2>1, <2>2, <2>3, Zenon
  <1>7. /\ r.irq = "no" /\ yielding'[p] = "no" => pc'[p] = "exit"
        /\ r.irq # "no" => yielding'[p] = "no"
    <2>1. CASE r.irq # "no" /\ UNCHANGED <<pc, yielding>>
      BY <1>1, <2>1, Zenon
    <2>2. CASE pc' = [pc EXCEPT ![p] = "exit"] /\ yielding' = yielding
      BY <1>1, <2>2, Moved, Zenon DEF PCs
    <2>3. CASE yielding' = [yielding EXCEPT ![p] = "yield"] /\ pc' = pc /\ r.irq = "no"
      BY <2>3, Types, Zenon
    <2> QED
      BY <2>1, <2>2, <2>3, Zenon DEF Trapped
  <1>8. TypeOK'
    <2>1. tickslock' \in CPU \cup {NoCPU} /\ ptable_lock' = ptable_lock
      BY Types, Zenon DEF Trapped
    <2> QED
      BY <1>2, <1>4, <1>5, <1>6, <2>1, TypeNext, Zenon DEF Wakes
  <1>9. ForkInv'
    <2>1. \A q \in Slot : pc'[q] \in Forking => pc'[q] = pc[q]
      BY <1>5, Zenon DEF Forking
    <2>2. \A q \in Slot : state[q] = "EMBRYO" =>
              state'[q] = "EMBRYO" /\ kstack'[q] = kstack[q] /\ pc'[q] = pc[q]
      BY <1>3, <1>5, Zenon DEF Wakes
    <2>3. np' = np
      BY Zenon DEF Wakes
    <2> QED
      BY <2>1, <2>2, <2>3, ForkFrame, Zenon
  <1>10. Local(c, p)
    <2>1. ASSUME NEW d \in CPU \ {c}
          PROVE  (ptable_lock' = d <=> ptable_lock = d) /\ (tickslock' = d <=> tickslock = d)
      BY ProcAssumption, Zenon DEF Trapped
    <2>2. \A q \in Slot \ {p} : Moves(c, q)
      BY <1>5, <1>6, Zenon DEF Moves, Wakes
    <2>3. r.on = p
      BY Zenon DEF Trapped
    <2> QED
      BY <1>1, <1>2, <1>4, <2>1, <2>2, <2>3, Zenon DEF Local
  <1>11. /\ cpu'[c].on = p /\ cpu'[c].loop = "scan" /\ cpu'[c].irq = r.irq
         /\ ~cpu'[c].ief /\ cpu'[c].ncli = r.ncli
    BY <1>4, Zenon DEF Trapped
  <1>12. OnOK(c, p)'
    <2>1. pc'[p] \in Open \cup {"exit"}
      BY <1>1, <1>5, Zenon
    <2> QED
      BY <1>3, <1>6, <1>7, <1>11, <2>1, Zenon DEF OnOK, OnState, Open
  <1>13. ~HasPtable(c)' /\ (HasTicks(c)' <=> r.irq = "tick")
    BY <1>1, <1>2, <1>5, <1>6, <1>11, Zenon DEF HasPtable, HasTicks, Locked, Open
  <1>14. CpuOK(c)'
    <2>1. /\ ptable_lock' # c /\ (tickslock' = c <=> r.irq = "tick")
          /\ r.ncli = (IF tickslock' = c THEN 1 ELSE 0)
      BY Zenon DEF Trapped
    <2>2. cpu'[c].irq = "tick" => ~cpu'[c].intena
      BY <1>4, Zenon DEF Trapped
    <2> QED
      BY <1>2, <1>11, <1>12, <1>13, <2>1, <2>2 DEF CpuOK
  <1>15. SlotOK(p)'
    <2>1. kstack[p]
      BY <1>2, <1>3, Zenon DEF SlotOK
    <2> QED
      BY <1>1, <1>3, <1>5, <1>6, <1>11, <2>1, Zenon DEF SlotOK, Off, Open
  <1>16. panicked' \in {"no", "init exiting"}
    BY Zenon DEF SwitchInv, Wakes
  <1> QED
    BY <1>2, <1>8, <1>9, <1>10, <1>14, <1>15, <1>16, LocalStep, Zenon

\* The end of trap(), with the record u: interrupts are off, no lock is held.
LEMMA TrapEnd ==
    ASSUME SwitchInv, NEW c \in CPU, NEW u \in CpuRec, trap_end(c, u), Wakes(c),
           ticks' \in 0..(UINT - 1),
           u.on = cpu[c].on, u.loop = cpu[c].loop, u.ncli = 0, ~u.ief,
           cpu[c].on = None => cpu[c].loop # "scan",
           cpu[c].on # None => yielding[cpu[c].on] = "no" /\ pc[cpu[c].on] \in Open \cup {"exit"},
           ptable_lock # c, ptable_lock' = ptable_lock,
           tickslock' # c, tickslock' = tickslock \/ {tickslock, tickslock'} \subseteq {c, NoCPU}
    PROVE  SwitchInv'
  <1>1. CASE cpu[c].on = None
    <2> DEFINE r == [u EXCEPT !.irq = "no", !.ief = TRUE]
    <2>1. cpu' = [cpu EXCEPT ![c] = r] /\ UNCHANGED <<pc, yielding>>
      BY <1>1, Zenon DEF trap_end
    <2>2. /\ r \in CpuRec /\ r.on = None /\ r.irq = "no" /\ r.loop = cpu[c].loop
          /\ r.ncli = 0
      BY <1>1, Zenon DEF CpuRec
    <2> HIDE DEF r
    <2>3. Idle(c, r)
      BY <1>1, <2>1, <2>2 DEF Idle
    <2> QED
      BY <2>1, <2>2, <2>3, IdleStep, Zenon
  <1>2. CASE cpu[c].on # None
    <2> DEFINE p == cpu[c].on
               r == [u EXCEPT !.irq = "no"]
    <2>1. p \in Slot /\ OnOK(c, p)
      BY <1>2, OnRunning, ThreadFacts, Zenon
    <2>2. /\ cpu' = [cpu EXCEPT ![c] = r]
          /\ \/ pc' = [pc EXCEPT ![p] = "exit"] /\ yielding' = yielding
             \/ yielding' = [yielding EXCEPT ![p] = "yield"] /\ pc' = pc
      BY <1>2, Zenon DEF trap_end, Goto
    <2>3. /\ r \in CpuRec /\ r.on = p /\ r.irq = "no" /\ r.loop = "scan"
          /\ r.ncli = 0 /\ ~r.ief
      BY <1>2, <2>1, Zenon DEF CpuRec, OnOK
    <2>4. yielding[p] = "no" /\ pc[p] \in Open \cup {"exit"}
      BY <1>2, Zenon
    <2> HIDE DEF r
    <2>5. Trapped(c, p, r)
      BY <1>2, <2>2, <2>3, <2>4, Zenon DEF Trapped
    <2> QED
      BY <2>1, <2>3, <2>5, TrappedStep, Zenon
  <1> QED
    BY <1>1, <1>2, Zenon

\* What holds of a CPU in trap() or interrupted.
LEMMA TrapFacts ==
    ASSUME SwitchInv, NEW c \in CPU, cpu[c].ief \/ cpu[c].irq # "no"
    PROVE  /\ cpu[c] \in CpuRec /\ ptable_lock # c
           /\ tickslock = c <=> cpu[c].irq = "tick"
           /\ cpu[c].ncli = (IF tickslock = c THEN 1 ELSE 0)
           /\ cpu[c].irq = "tick" => ~cpu[c].intena
           /\ cpu[c].irq # "no" => ~cpu[c].ief
           /\ cpu[c].on = None => cpu[c].loop # "scan"
           /\ cpu[c].on # None => /\ yielding[cpu[c].on] = "no"
                                  /\ pc[cpu[c].on] \in Open \cup {"exit"}
                                  /\ cpu[c].loop = "scan"
  <1>1. cpu[c] \in CpuRec /\ CpuOK(c)
    BY Types, Zenon DEF SwitchInv
  <1>2. CASE cpu[c].on = None
    <2>1. ptable_lock # c
      <3>1. cpu[c].ief => ptable_lock # c
        BY <1>1, ProcAssumption DEF CpuOK
      <3> QED
        BY <1>1, <1>2, <3>1, Zenon DEF CpuOK, HasPtable
    <2> QED
      BY <1>1, <1>2, <2>1 DEF CpuOK, HasPtable, HasTicks
  <1>3. CASE cpu[c].on # None
    <2>1. OnOK(c, cpu[c].on)
      BY <1>1, <1>3, Zenon DEF CpuOK
    <2>2. /\ yielding[cpu[c].on] = "no" /\ pc[cpu[c].on] \in Open \cup {"exit"}
          /\ cpu[c].loop = "scan"
      BY <2>1, Zenon DEF OnOK
    <2>3. ptable_lock # c /\ (tickslock = c <=> cpu[c].irq = "tick")
      BY <1>1, <1>3, <2>2, Zenon DEF CpuOK, HasPtable, HasTicks, Locked, Open
    <2> QED
      BY <1>1, <1>3, <2>2, <2>3 DEF CpuOK
  <1> QED
    BY <1>2, <1>3, Zenon

\* The interrupt gate, and the end of trap() on a CPU other than the boot CPU.
LEMMA StepTimer ==
    ASSUME SwitchInv, NEW c \in CPU, timer(c)
    PROVE  SwitchInv'
  <1> DEFINE u == [cpu[c] EXCEPT !.ief = FALSE]
  <1>1. /\ cpu[c].ief /\ cpu[c].irq = "no" /\ UNCHANGED <<ptable_lock, tickslock, ticks>>
        /\ Wakes(c)
    BY Types, Zenon DEF timer, locks, proc, Wakes
  <1>2. /\ ptable_lock # c /\ tickslock # c /\ cpu[c].ncli = 0 /\ cpu[c] \in CpuRec
        /\ cpu[c].on = None => cpu[c].loop # "scan"
        /\ cpu[c].on # None => /\ yielding[cpu[c].on] = "no"
                               /\ pc[cpu[c].on] \in Open \cup {"exit"}
                               /\ cpu[c].loop = "scan"
    BY <1>1, TrapFacts, Zenon
  <1>3. ticks' \in 0..(UINT - 1)
    BY <1>1, Types, Zenon
  <1>4. /\ u \in CpuRec /\ u.on = cpu[c].on /\ u.loop = cpu[c].loop /\ u.ncli = 0 /\ ~u.ief
    BY <1>2, Zenon DEF CpuRec
  <1>5. CASE trap_end(c, u)
    <2> HIDE DEF u
    <2> QED
      BY <1>1, <1>2, <1>3, <1>4, <1>5, TrapEnd, Zenon
  <1>6. CASE cpu' = [cpu EXCEPT ![c] = [u EXCEPT !.irq = "timer"]] /\ UNCHANGED <<pc, yielding>>
    <2> DEFINE r == [u EXCEPT !.irq = "timer"]
    <2> HIDE DEF u
    <2>1. /\ r \in CpuRec /\ r.on = cpu[c].on /\ r.loop = cpu[c].loop /\ r.ncli = 0 /\ ~r.ief
          /\ r.irq = "timer" /\ cpu' = [cpu EXCEPT ![c] = r]
      BY <1>4, <1>6, Zenon DEF CpuRec
    <2> HIDE DEF r
    <2>2. CASE cpu[c].on = None
      <3>1. Idle(c, r)
        BY <1>1, <1>2, <2>1, <2>2 DEF Idle
      <3> QED
        BY <1>1, <1>3, <1>6, <2>1, <3>1, IdleStep, Zenon
    <2>3. CASE cpu[c].on # None
      <3>1. cpu[c].on \in Slot
        BY <2>3, OnRunning, Zenon
      <3>2. Trapped(c, cpu[c].on, r)
        BY <1>1, <1>2, <1>6, <2>1, <2>3, Zenon DEF Trapped
      <3> QED
        BY <1>1, <1>3, <2>1, <3>1, <3>2, TrappedStep, Zenon
    <2> QED
      BY <2>2, <2>3, Zenon
  <1> QED
    BY <1>5, <1>6, Zenon DEF timer

\* The boot CPU takes tickslock in trap() and counts the tick.
LEMMA StepTick ==
    ASSUME SwitchInv, NEW c \in CPU, trap_tick(c)
    PROVE  SwitchInv'
  <1> DEFINE u == pushcli(cpu[c])
             r == [u EXCEPT !.irq = "tick"]
  <1>1. /\ cpu[c].irq = "timer" /\ tickslock = NoCPU /\ tickslock' = c
        /\ ptable_lock' = ptable_lock /\ UNCHANGED <<pc, yielding>>
        /\ cpu' = [cpu EXCEPT ![c] = r] /\ Wakes(c)
    BY Types, Zenon DEF trap_tick, proc, thread, Wakes
  <1>2. /\ ptable_lock # c /\ tickslock # c /\ cpu[c].ncli = 0 /\ cpu[c] \in CpuRec
        /\ cpu[c].on = None => cpu[c].loop # "scan"
        /\ cpu[c].on # None => /\ yielding[cpu[c].on] = "no"
                               /\ pc[cpu[c].on] \in Open \cup {"exit"}
                               /\ cpu[c].loop = "scan"
        /\ ~cpu[c].ief
    BY <1>1, TrapFacts, ProcAssumption, Zenon
  <1>3. ticks' \in 0..(UINT - 1)
    BY Types, ProcAssumption DEF trap_tick
  <1>4. /\ u \in CpuRec /\ u.on = cpu[c].on /\ u.loop = cpu[c].loop /\ u.ncli = 1 /\ ~u.ief
    BY <1>2, Pushcli
  <1>5. ~u.intena
    BY <1>2, Pushcli, Zenon
  <1> HIDE DEF u
  <1>6. /\ r \in CpuRec /\ r.on = cpu[c].on /\ r.loop = cpu[c].loop /\ r.ncli = 1 /\ ~r.ief
        /\ r.irq = "tick" /\ ~r.intena
    BY <1>4, <1>5, Zenon DEF CpuRec
  <1> HIDE DEF r
  <1>7. CASE cpu[c].on = None
    <2>1. Idle(c, r)
      BY <1>1, <1>2, <1>6, <1>7 DEF Idle
    <2> QED
      BY <1>1, <1>3, <1>6, <2>1, IdleStep, Zenon
  <1>8. CASE cpu[c].on # None
    <2>1. cpu[c].on \in Slot
      BY <1>8, OnRunning
    <2>2. Trapped(c, cpu[c].on, r)
      BY <1>1, <1>2, <1>6, <1>8, Zenon DEF Trapped
    <2> QED
      BY <1>1, <1>3, <1>6, <2>1, <2>2, TrappedStep, Zenon
  <1> QED
    BY <1>7, <1>8

\* It wakes the processes that sleep on &ticks, and releases tickslock.
LEMMA StepWakeup ==
    ASSUME SwitchInv, NEW c \in CPU, trap_wakeup(c)
    PROVE  SwitchInv'
  <1> DEFINE u == popcli(cpu[c])
  <1>1. /\ cpu[c].irq = "tick" /\ ptable_lock = NoCPU /\ tickslock' = NoCPU
        /\ ptable_lock' = ptable_lock /\ ticks' = ticks /\ trap_end(c, u)
    BY Zenon DEF trap_wakeup
  <1>2. Wakes(c)
    BY <1>1, Types, Zenon DEF trap_wakeup, wakeup1, Sleepers, States, Wakes
  <1>3. /\ ptable_lock # c /\ tickslock = c /\ cpu[c].ncli = 1 /\ cpu[c] \in CpuRec
        /\ cpu[c].on = None => cpu[c].loop # "scan"
        /\ cpu[c].on # None => yielding[cpu[c].on] = "no" /\ pc[cpu[c].on] \in Open \cup {"exit"}
        /\ ~cpu[c].ief /\ ~cpu[c].intena /\ tickslock' # c
    BY <1>1, TrapFacts, ProcAssumption, Zenon
  <1>4. ticks' \in 0..(UINT - 1)
    BY <1>1, Types, Zenon
  <1>5. /\ u \in CpuRec /\ u.on = cpu[c].on /\ u.loop = cpu[c].loop /\ u.ncli = 0
    BY <1>3, Popcli
  <1>6. ~u.ief
    BY <1>3, Popcli
  <1> HIDE DEF u
  <1> QED
    BY <1>1, <1>2, <1>3, <1>4, <1>5, <1>6, TrapEnd, Zenon
-----------------------------------------------------------------------------
(* SwitchSafe *)

\* userinit() and the entry of every CPU into scheduler() establish the
\* invariant.
LEMMA SwitchInit == Init => SwitchInv
  <1> SUFFICES ASSUME Init PROVE SwitchInv
    OBVIOUS
  <1>1. TypeOK
    <2> DEFINE r == [proc |-> None, ncli |-> 0, intena |-> FALSE, ief |-> FALSE,
                     on |-> None, loop |-> "sti", scan |-> 1, irq |-> "no"]
    <2>1. r \in CpuRec
      BY ProcAssumption DEF CpuRec
    <2>2. cpu \in [CPU -> CpuRec]
      BY <2>1, Zenon DEF Init
    <2>3. kstack \in [Slot -> BOOLEAN] /\ killed \in [Slot -> BOOLEAN] /\ intena \in [Slot -> BOOLEAN]
      BY Zenon DEF Init
    <2>4. /\ nextpid \in Nat \ {0} /\ ticks \in 0..(UINT - 1)
          /\ nap \in [Slot -> [ticks0 : 0..(UINT - 1), n : 0..MAXSLEEP]]
          /\ pid \in [Slot -> Nat]
      BY ProcAssumption DEF Init
    <2>5. /\ state \in [Slot -> States] /\ parent \in [Slot -> Slot \cup {None}]
          /\ chan \in [Slot -> Slot \cup {None, TicksChan}]
          /\ np \in [Slot -> Slot \cup {None}]
          /\ ptable_lock \in CPU \cup {NoCPU} /\ tickslock \in CPU \cup {NoCPU}
          /\ pc \in [Slot -> PCs] /\ yielding \in [Slot -> {"no", "yield", "sched", "yielded"}]
      BY Zenon DEF Init, States, PCs
    <2> QED
      BY <2>2, <2>3, <2>4, <2>5, Zenon DEF TypeOK, CpuRec
  <1>2. ASSUME NEW c \in CPU PROVE CpuOK(c)
    BY ProcAssumption DEF Init, CpuOK, HasPtable, HasTicks
  <1>3. Alone
    BY Zenon DEF Init, Alone
  <1>4. ASSUME NEW p \in Slot PROVE SlotOK(p)
    BY Zenon DEF Init, SlotOK, Off, Parked, Open
  <1>5. ForkInv
    BY Zenon DEF Init, ForkInv, Forking
  <1> QED
    BY <1>1, <1>2, <1>3, <1>4, <1>5, Zenon DEF SwitchInv, Init

\* Every step of a CPU in scheduler() or in trap() preserves it, and every step
\* of a kernel thread or of a program.
LEMMA SwitchNext == SwitchInv /\ [Next]_vars => SwitchInv'
  <1> SUFFICES ASSUME SwitchInv, [Next]_vars PROVE SwitchInv'
    OBVIOUS
  <1>1. ASSUME NEW c \in CPU, scheduler(c) \/ trap(c) PROVE SwitchInv'
    BY <1>1, StepScheduler, StepSwtch, StepTimer, StepTick, StepWakeup, Zenon DEF scheduler, trap
  <1>2. ASSUME NEW c \in CPU, NEW p \in Slot, Switch(c, p) PROVE SwitchInv'
    BY <1>2, StepSched, StepYield, StepYieldReturn, Zenon DEF Switch
  <1>3. ASSUME NEW c \in CPU, NEW p \in Slot, Thread(c, p) PROVE SwitchInv'
    <2>1. CASE wait(c, p)
      <3>1. /\ At(c, p, "wait")
            /\ UNCHANGED <<nextpid, ticks, yielding, intena, np, nap, panicked>>
        BY <2>1, Zenon DEF wait
      <3>2. CASE section(c) /\ (wait_reap(p) \/ wait_fails(p))
        BY <3>1, <3>2, StepWaitEnds, Zenon
      <3>3. CASE acquire(c) /\ wait_sleeps(p)
        BY <3>1, <3>3, StepWaitSleeps, Zenon
      <3> QED
        BY <2>1, <3>2, <3>3, Zenon DEF wait
    <2>2. CASE sysret(c, p)
      BY <2>2, StepSyscall, Zenon
    <2>3. CASE allocproc(c, p) \/ fork_fails(c, p) \/ fork_copies(c, p) \/ fork_run(c, p)
      BY <2>3, StepAllocproc, StepForkFails, StepForkCopies, StepForkRun, Zenon
    <2>4. CASE forkret(c, p) \/ exit(c, p) \/ wait_again(c, p)
      BY <2>4, StepForkret, StepExit, StepWaitAgain, Zenon
    <2>5. CASE sleep_acquire(c, p) \/ while_ticks(c, p) \/ sleep(c, p) \/ slept(c, p)
      BY <2>5, StepSleepAcquire, StepWhileTicks, StepSleep, StepSlept, Zenon
    <2> QED
      BY <1>3, <2>1, <2>2, <2>3, <2>4, <2>5, Zenon DEF Thread
  <1>4. ASSUME NEW c \in CPU, NEW p \in Slot, User(c, p) PROVE SwitchInv'
    BY <1>4, StepSyscall, StepKill, Zenon DEF User
  <1>5. CASE UNCHANGED vars
    <2> USE <1>5 DEF vars, proc, locks, thread
    <2>1. TypeOK'
      BY TypeNext, Zenon DEF SwitchInv
    <2>2. ASSUME NEW c \in CPU PROVE CpuOK(c)'
      <3>1. (HasPtable(c)' <=> HasPtable(c)) /\ (HasTicks(c)' <=> HasTicks(c))
        BY Zenon DEF HasPtable, HasTicks, Locked
      <3>2. OnOK(c, cpu[c].on) => OnOK(c, cpu[c].on)'
        BY Zenon DEF OnOK, OnState
      <3>3. CpuOK(c) /\ cpu' = cpu /\ ptable_lock' = ptable_lock /\ tickslock' = tickslock
        BY Zenon DEF SwitchInv
      <3> QED
        BY <3>1, <3>2, <3>3, Zenon DEF CpuOK
    <2>3. Alone' /\ ForkInv'
      BY Zenon DEF SwitchInv, Alone, ForkInv
    <2>4. \A p \in Slot : SlotOK(p)'
      BY Zenon DEF SwitchInv, SlotOK, Off, Parked
    <2> QED
      BY <2>1, <2>2, <2>3, <2>4, Zenon DEF SwitchInv
  <1>6. CASE Next
    <2>1. CASE halted
      BY <1>5, <2>1, Zenon DEF halted
    <2> QED
      BY <1>1, <1>2, <1>3, <1>4, <1>6, <2>1, Zenon DEF Next
  <1> QED
    BY <1>5, <1>6, Zenon

\* The invariant holds in every reachable state, for any number of CPUs and of
\* process slots.
THEOREM SwitchInvHolds == Spec => []SwitchInv
  BY SwitchInit, SwitchNext, PTL DEF Spec

\* It implies the property: a CPU is on the stack of a process only if no other
\* CPU is and the stack is allocated, sched() never panics, and a thread that is
\* not in a critical section runs with interrupts enabled.
LEMMA SwitchImplies == SwitchInv => SwitchSafe
  <1> SUFFICES ASSUME SwitchInv PROVE SwitchSafe
    OBVIOUS
  <1>1. ASSUME NEW c \in CPU, cpu[c].on # None
        PROVE  kstack[cpu[c].on] /\ pc[cpu[c].on] # "dead"
    <2>1. /\ cpu[c].on \in Slot
          /\ state[cpu[c].on] \in {"RUNNABLE", "RUNNING", "SLEEPING", "ZOMBIE"}
      BY <1>1, OnRunning, Zenon
    <2>2. OnOK(c, cpu[c].on) /\ SlotOK(cpu[c].on)
      BY <2>1, ThreadFacts, Zenon
    <2> QED
      BY <2>1, <2>2, Zenon DEF OnOK, SlotOK
  <1>2. ASSUME NEW c \in CPU, NEW p \in Slot, Runs(c, p), pc[p] \in Open
        PROVE  cpu[c].ief /\ cpu[c].ncli = 0
    <2>1. OnOK(c, p) /\ CpuOK(c)
      BY <1>2, ThreadFacts, Zenon DEF Runs, SwitchInv
    <2>2. cpu[c].ief
      BY <1>2, <2>1, Zenon DEF OnOK, Runs
    <2> QED
      BY <2>1, <2>2, Zenon DEF CpuOK
  <1> QED
    BY <1>1, <1>2, Zenon DEF SwitchSafe, SwitchInv, Alone, Open

\* Context switches are safe (SwitchSafe, src/proc.c): ptable.lock is held from
\* the change of p->state in yield(), sleep() or exit() until scheduler() is back
\* on its own stack, so no two CPUs run on one kernel stack and wait() frees none
\* that is in use; the tests of sched() never fail; and intena returns with the
\* thread, not with the CPU.
THEOREM SwitchIsSafe == Spec => []SwitchSafe
  BY SwitchInvHolds, SwitchImplies, PTL
-----------------------------------------------------------------------------
(* NoLostTick *)

\* A process that found in while(ticks - ticks0 < n) that it has to sleep keeps
\* tickslock until it is SLEEPING, so its time does not end in between.
TickInv ==
    /\ \A p \in Slot : pc[p] = "sleep" => Elapsed(p) < nap[p].n
    /\ NoLostTick

\* A step of CPU c that has nothing to do with sys_sleep().
Quiet(c) ==
    /\ cpu[c].irq # "tick" /\ \A d \in CPU \ {c} : cpu'[d] = cpu[d]
    /\ UNCHANGED <<ticks, nap>>
    /\ \A p \in Slot : pc'[p] = "sleep" => pc[p] = "sleep"
    /\ \A p \in Slot : state'[p] = "SLEEPING" /\ chan'[p] = TicksChan =>
                           state[p] = "SLEEPING" /\ chan[p] = TicksChan

\* Such a step does not end the time of a sleeper, nor the interrupt that will
\* wake it.
LEMMA QuietKeeps ==
    ASSUME TickInv, NEW c \in CPU, Quiet(c)
    PROVE  TickInv'
  <1>1. \A p \in Slot : Elapsed(p)' = Elapsed(p) /\ nap'[p].n = nap[p].n
    BY Zenon DEF Elapsed, Quiet
  <1>2. (\E d \in CPU : cpu[d].irq = "tick") => \E d \in CPU : cpu'[d].irq = "tick"
    BY Zenon DEF Quiet
  <1>3. \A p \in Slot : pc[p] = "sleep" => Elapsed(p) < nap[p].n
    BY Zenon DEF TickInv
  <1>4. NoLostTick
    BY Zenon DEF TickInv
  <1>5. (\A p \in Slot : pc[p] = "sleep" => Elapsed(p) < nap[p].n)'
    BY <1>1, <1>3, Zenon DEF Quiet
  <1>6. NoLostTick'
    BY <1>1, <1>2, <1>4, Zenon DEF Quiet, NoLostTick, Elapsed
  <1> QED
    BY <1>5, <1>6, Zenon DEF TickInv

\* The time a process has slept is a number.
LEMMA ElapsedType ==
    ASSUME SwitchInv, NEW p \in Slot
    PROVE  Elapsed(p) \in Int /\ nap[p].n \in Int
  <1>1. /\ ticks \in 0..(UINT - 1)
        /\ nap[p] \in [ticks0 : 0..(UINT - 1), n : 0..MAXSLEEP]
    BY Types, Zenon
  <1>2. ticks \in Int /\ nap[p].ticks0 \in Int /\ nap[p].n \in Int
    BY <1>1, ProcAssumption
  <1> QED
    BY <1>2, ProcAssumption DEF Elapsed

\* A thread that is about to sleep() on &ticks has tickslock.
LEMMA SleepHasTicks ==
    ASSUME SwitchInv, NEW p \in Slot, pc[p] = "sleep"
    PROVE  \E c \in CPU : tickslock = c /\ cpu[c].on = p
  <1>1. SlotOK(p)
    BY Zenon DEF SwitchInv
  <1>2. ~Off(p)
    BY <1>1, Zenon DEF SlotOK, Parked, Open
  <1>3. PICK c \in CPU : cpu[c].on = p
    BY <1>2, Zenon DEF Off
  <1>4. tickslock = c
    BY <1>3, ThreadFacts, Zenon DEF HasTicks
  <1> QED
    BY <1>3, <1>4, Zenon

\* sched() and yield() leave a process where it was, or where it resumes, or
\* on its way to exit().
LEMMA SwitchMoves ==
    ASSUME NEW c \in CPU, NEW p \in Slot, Switch(c, p)
    PROVE  pc' = pc \/ \E l \in {"dead", "waited", "slept", "exit"} : pc' = [pc EXCEPT ![p] = l]
  <1>1. CASE sched(c, p)
    <2>1. pc' = pc \/ (pc[p] \in DOMAIN Resumes /\ pc' = [pc EXCEPT ![p] = Resumes[pc[p]]])
      BY <1>1, Zenon DEF sched, InSched, Goto
    <2>2. \A l \in DOMAIN Resumes : Resumes[l] \in {"dead", "waited", "slept"}
      BY DEF Resumes
    <2> QED
      BY <2>1, <2>2, Zenon
  <1>2. CASE yield(c, p)
    BY <1>2, Zenon DEF yield
  <1>3. CASE yield_return(c, p)
    BY <1>3, Zenon DEF yield_return, Goto
  <1> QED
    BY <1>1, <1>2, <1>3, Zenon DEF Switch

\* The steps of scheduler(), of context switches and of the interrupt gate.
LEMMA QuietSwitch ==
    ASSUME SwitchInv, NEW c \in CPU,
           \/ scheduler(c) \/ timer(c)
           \/ \E p \in Slot : Switch(c, p)
    PROVE  Quiet(c)
  <1>1. CASE sti(c) \/ scheduler_acquire(c) \/ scheduler_release(c)
    <2>1. cpu[c].on = None /\ (cpu[c].loop = "scan" \/ cpu[c].irq = "no")
      BY <1>1, Zenon DEF sti, scheduler_acquire, scheduler_release
    <2>2. cpu[c].irq # "tick"
      BY <2>1, IdleFacts, Zenon
    <2>3. \E r : cpu' = [cpu EXCEPT ![c] = r]
      BY <1>1, Zenon DEF sti, scheduler_acquire, scheduler_release
    <2>4. UNCHANGED <<ticks, nap, pc, state, chan>>
      BY <1>1, Zenon DEF sti, scheduler_acquire, scheduler_release, proc, thread
    <2> QED
      BY <2>2, <2>3, <2>4, Types, Zenon DEF Quiet
  <1>2. CASE scheduler_swtch(c)
    <2>1. cpu[c].on = None /\ cpu[c].loop = "scan"
      BY <1>2, Zenon DEF scheduler_swtch
    <2>2. cpu[c].irq # "tick"
      BY <2>1, IdleFacts, Zenon
    <2>3. PICK p \in Slot : /\ state' = [state EXCEPT ![p] = "RUNNING"]
                            /\ cpu' = [cpu EXCEPT ![c].proc = p, ![c].on = p, ![c].scan = p + 1]
      BY <1>2, Zenon DEF scheduler_swtch, First, Scanned
    <2>4. UNCHANGED <<ticks, nap, pc, chan>>
      BY <1>2, Zenon DEF scheduler_swtch, thread
    <2> QED
      BY <2>2, <2>3, <2>4, Types, Zenon DEF Quiet
  <1>3. CASE timer(c)
    <2>1. cpu[c].irq = "no" /\ UNCHANGED <<state, chan, ticks, nap>>
      BY <1>3, Zenon DEF timer, proc
    <2>2. \E r : cpu' = [cpu EXCEPT ![c] = r]
      BY <1>3, Zenon DEF timer, trap_end
    <2>3. pc' = pc \/ \E p \in Slot : pc' = [pc EXCEPT ![p] = "exit"]
      <3>1. cpu[c].on \in Slot \cup {None} /\ cpu[c] \in CpuRec
        BY Types, Zenon DEF CpuRec
      <3>2. [cpu[c] EXCEPT !.ief = FALSE].on = cpu[c].on
        BY <3>1, Zenon DEF CpuRec
      <3> QED
        BY <1>3, <3>1, <3>2, Zenon DEF timer, trap_end, Goto
    <2> QED
      BY <2>1, <2>2, <2>3, Types, Zenon DEF Quiet
  <1>4. ASSUME NEW p \in Slot, Switch(c, p) PROVE Quiet(c)
    <2>1. cpu[c].on = p
      BY <1>4, Zenon DEF Switch, sched, yield, yield_return
    <2>2. cpu[c].irq # "tick"
      <3>1. CASE sched(c, p)
        BY <3>1, Zenon DEF sched
      <3>2. CASE yielding[p] # "no"
        BY <2>1, <3>2, ThreadFacts, Zenon DEF OnOK
      <3> QED
        BY <1>4, <3>1, <3>2, Zenon DEF Switch, yield, yield_return
    <2>3. cpu' = cpu \/ \E r : cpu' = [cpu EXCEPT ![c] = r]
      <3>1. CASE sched(c, p)
        BY <3>1 DEF sched
      <3>2. CASE yield(c, p)
        BY <3>2, Zenon DEF yield, acquire
      <3>3. CASE yield_return(c, p)
        BY <3>3, Zenon DEF yield_return
      <3> QED
        BY <1>4, <3>1, <3>2, <3>3, Zenon DEF Switch
    <2>4. UNCHANGED <<ticks, nap, chan>>
      BY <1>4, Zenon DEF Switch, sched, yield, yield_return, proc
    <2>5. state' = state \/ state' = [state EXCEPT ![p] = "RUNNABLE"]
      BY <1>4, Zenon DEF Switch, sched, yield, yield_return, proc
    <2>6. pc' = pc \/ \E l \in {"dead", "waited", "slept", "exit"} : pc' = [pc EXCEPT ![p] = l]
      BY <1>4, SwitchMoves, Zenon
    <2> QED
      BY <2>2, <2>3, <2>4, <2>5, <2>6, Types, Zenon DEF Quiet
  <1> QED
    BY <1>1, <1>2, <1>3, <1>4, Zenon DEF scheduler

\* The system calls other than sleep().
LEMMA QuietCall ==
    ASSUME SwitchInv, NEW c \in CPU, NEW p \in Slot,
           \/ syscall(c, p) \/ sysret(c, p) \/ fault(c, p) \/ forkret(c, p) \/ slept(c, p)
           \/ allocproc(c, p) \/ fork_fails(c, p) \/ fork_copies(c, p) \/ fork_run(c, p)
           \/ exit(c, p) \/ wait(c, p) \/ wait_again(c, p)
           \/ \E x \in Victims : kill(c, p, x)
    PROVE  Quiet(c)
  <1>1. Runs(c, p) /\ UNCHANGED <<ticks, nap>>
    BY Zenon DEF syscall, sysret, fault, forkret, slept, allocproc, fork_fails, fork_copies,
           fork_run, exit, wait, wait_again, kill, At
  <1>2. cpu[c].irq # "tick" /\ cpu[c].on = p
    BY <1>1, Zenon DEF Runs
  <1>3. cpu' = cpu \/ \E r : cpu' = [cpu EXCEPT ![c] = r]
    BY Zenon DEF syscall, sysret, fault, forkret, slept, allocproc, fork_fails, fork_copies,
           fork_run, exit, wait, wait_again, kill, section, acquire
  <1>4. \A q \in Slot : pc'[q] = "sleep" => pc[q] = "sleep"
    <2> DEFINE L == {"user", "sysret", "fork", "fork_mem", "fork_run", "exit", "wait",
                     "sched_exit", "sched_wait", "relock"}
    <2>1. CASE fork_copies(c, p)
      BY <2>1, Types, Zenon DEF fork_copies
    <2>2. CASE ~fork_copies(c, p)
      <3>1. pc' = pc \/ \E l \in L : pc' = [pc EXCEPT ![p] = l]
        <4>1. CASE syscall(c, p) \/ sysret(c, p) \/ fault(c, p) \/ forkret(c, p) \/ slept(c, p)
          BY <4>1, Zenon DEF syscall, sysret, fault, forkret, slept, Enter, Goto
        <4>2. CASE allocproc(c, p) \/ fork_fails(c, p) \/ fork_run(c, p)
          BY <4>2, Zenon DEF allocproc, fork_fails, fork_run, Goto
        <4>3. CASE exit(c, p) \/ \E x \in Victims : kill(c, p, x)
          BY <4>3, Zenon DEF exit, kill, Goto
        <4>4. CASE wait(c, p) \/ wait_again(c, p)
          BY <4>4, Zenon DEF wait, wait_again, wait_reap, wait_fails, wait_sleeps, Goto
        <4> QED
          BY <2>2, <4>1, <4>2, <4>3, <4>4, Zenon
      <3> QED
        BY <3>1, Types, Zenon
    <2> QED
      BY <2>1, <2>2, Zenon
  <1>5. \A q \in Slot : state'[q] = "SLEEPING" /\ chan'[q] = TicksChan =>
                            state[q] = "SLEEPING" /\ chan[q] = TicksChan
    <2>1. CASE syscall(c, p) \/ sysret(c, p) \/ fault(c, p) \/ forkret(c, p) \/ fork_copies(c, p)
      BY <2>1, Zenon DEF syscall, sysret, fault, forkret, fork_copies, proc
    <2>2. CASE allocproc(c, p) \/ fork_fails(c, p) \/ fork_run(c, p)
      <3>1. chan' = chan
        BY <2>2, Zenon DEF allocproc, fork_fails, fork_run
      <3>2. \/ state' = state
            \/ \E q, s : s # "SLEEPING" /\ state' = [state EXCEPT ![q] = s]
        BY <2>2, Zenon DEF allocproc, fork_fails, fork_run
      <3> QED
        BY <3>1, <3>2, Types, Zenon
    <2>3. CASE exit(c, p) \/ \E x \in Victims : kill(c, p, x)
      <3>1. chan' = chan
        BY <2>3, Zenon DEF exit, kill
      <3>2. \A q \in Slot : state'[q] = "SLEEPING" => state[q] = "SLEEPING"
        BY <2>3, Zenon DEF exit, kill
      <3> QED
        BY <3>1, <3>2, Zenon
    <2>4. CASE slept(c, p)
      BY <2>4, Types DEF slept, None, TicksChan
    <2>5. CASE wait(c, p) \/ wait_again(c, p)
      <3>1. CASE wait_reap(p)
        <4>1. PICK q \in Slot : state' = [state EXCEPT ![q] = "UNUSED"]
          BY <3>1, Zenon DEF wait_reap, Reap, First, Zombies, Children
        <4>2. chan' = [chan EXCEPT ![p] = None]
          BY <3>1, Zenon DEF wait_reap
        <4> QED
          BY <4>1, <4>2, Types DEF None, TicksChan
      <3>2. CASE wait_fails(p)
        BY <3>2, Types DEF wait_fails, None, TicksChan
      <3>3. CASE wait_sleeps(p)
        BY <3>3, Types, NoneIsNoSlot, Zenon DEF wait_sleeps
      <3> QED
        BY <2>5, <3>1, <3>2, <3>3, Zenon DEF wait, wait_again
    <2> QED
      BY <2>1, <2>2, <2>3, <2>4, <2>5, Zenon
  <1>6. \A d \in CPU \ {c} : cpu'[d] = cpu[d]
    BY <1>3, Types, Zenon
  <1> QED
    BY <1>1, <1>2, <1>4, <1>5, <1>6, Zenon DEF Quiet

\* The steps of sys_sleep(), and the timer interrupt.
LEMMA TickSteps ==
    ASSUME SwitchInv, TickInv, NEW c \in CPU,
           \/ trap_tick(c) \/ trap_wakeup(c)
           \/ \E p \in Slot : \/ sleep_acquire(c, p) \/ while_ticks(c, p) \/ sleep(c, p)
                              \/ \E n \in 0..MAXSLEEP : sys_sleep(c, p, n)
    PROVE  TickInv'
  <1>1. CASE trap_tick(c)
    <2>1. tickslock = NoCPU /\ UNCHANGED pc
      BY <1>1, Zenon DEF trap_tick, thread
    <2>2. \A p \in Slot : pc'[p] # "sleep"
      BY <2>1, SleepHasTicks, ProcAssumption, Zenon
    <2>3. cpu'[c].irq = "tick"
      <3>1. cpu[c] \in CpuRec /\ pushcli(cpu[c]) \in CpuRec
        BY Types, Pushcli, Zenon
      <3>2. [pushcli(cpu[c]) EXCEPT !.irq = "tick"].irq = "tick"
        BY <3>1, Zenon DEF CpuRec
      <3> QED
        BY <1>1, <3>2, Types, Zenon DEF trap_tick
    <2> QED
      BY <2>2, <2>3, Zenon DEF TickInv, NoLostTick
  <1>2. CASE trap_wakeup(c)
    <2>1. /\ chan' = chan /\ UNCHANGED <<ticks, nap>> /\ wakeup1(TicksChan)
      BY <1>2, Zenon DEF trap_wakeup
    <2>2. pc' = pc \/ \E p \in Slot : pc' = [pc EXCEPT ![p] = "exit"]
      <3>1. cpu[c].irq = "tick"
        BY <1>2, Zenon DEF trap_wakeup
      <3>2. cpu[c] \in CpuRec /\ cpu[c].on \in Slot \cup {None} /\ cpu[c].ncli > 0
        BY <3>1, TrapFacts DEF CpuRec
      <3>3. popcli(cpu[c]).on = cpu[c].on
        BY <3>2, Popcli, Zenon
      <3> QED
        BY <1>2, <3>2, <3>3, Zenon DEF trap_wakeup, trap_end, Goto
    <2>3. \A p \in Slot : pc'[p] = "sleep" => pc[p] = "sleep"
      BY <2>2, Types, Zenon
    <2>4. \A p \in Slot : ~(state'[p] = "SLEEPING" /\ chan'[p] = TicksChan)
      BY <2>1, Zenon DEF wakeup1, Sleepers
    <2>5. (\A p \in Slot : pc[p] = "sleep" => Elapsed(p) < nap[p].n)'
      BY <2>1, <2>3, Zenon DEF TickInv, Elapsed
    <2> QED
      BY <2>4, <2>5, Zenon DEF TickInv, NoLostTick
  <1>3. ASSUME NEW p \in Slot,
               sleep_acquire(c, p) \/ \E n \in 0..MAXSLEEP : sys_sleep(c, p, n)
        PROVE  TickInv'
    <2>1. /\ Runs(c, p) /\ pc[p] \in Open /\ UNCHANGED <<state, chan, ticks>>
      BY <1>3, Zenon DEF sleep_acquire, sys_sleep, At, proc, Open
    <2>2. state[p] = "RUNNING" /\ cpu[c] \in CpuRec
      BY <2>1, ThreadFacts, Zenon DEF OnOK, OnState, Open, Runs
    <2>3. \A q \in Slot \ {p} : nap'[q] = nap[q]
      BY <1>3, Types DEF sleep_acquire, sys_sleep
    <2>4. /\ \A q \in Slot \ {p} : pc'[q] = pc[q]
          /\ pc'[p] # "sleep"
      BY <1>3, Types DEF sleep_acquire, sys_sleep, Enter, Goto
    <2>5. \A q \in Slot \ {p} : Elapsed(q)' = Elapsed(q)
      BY <2>1, <2>3, Zenon DEF Elapsed
    <2>6. \A d \in CPU : cpu'[d].irq = cpu[d].irq
      BY <1>3, <2>2, Pushcli, Types, Zenon DEF sleep_acquire, sys_sleep
    <2>7. (\A q \in Slot : pc[q] = "sleep" => Elapsed(q) < nap[q].n)'
      BY <2>3, <2>4, <2>5, Zenon DEF TickInv
    <2>8. NoLostTick'
      BY <2>1, <2>2, <2>3, <2>5, <2>6, Zenon DEF TickInv, NoLostTick, Elapsed
    <2> QED
      BY <2>7, <2>8, Zenon DEF TickInv
  <1>4. ASSUME NEW p \in Slot, while_ticks(c, p) PROVE TickInv'
    <2>1. /\ Runs(c, p) /\ UNCHANGED <<state, chan, ticks, nap>>
          /\ \/ Elapsed(p) < nap[p].n /\ pc' = [pc EXCEPT ![p] = "sleep"]
             \/ pc' = [pc EXCEPT ![p] = "sysret"]
          /\ cpu' = cpu \/ \E r : cpu' = [cpu EXCEPT ![c] = r]
      <3>1. Runs(c, p) /\ UNCHANGED <<state, chan, ticks, nap>>
        BY <1>4, Zenon DEF while_ticks, At, proc
      <3>2. CASE Elapsed(p) >= nap[p].n \/ killed[p]
        <4>1. pc' = [pc EXCEPT ![p] = "sysret"] /\ cpu' = [cpu EXCEPT ![c] = popcli(@)]
          BY <1>4, <3>2, Zenon DEF while_ticks, Goto
        <4> QED
          BY <3>1, <4>1, Zenon
      <3>3. CASE ~(Elapsed(p) >= nap[p].n \/ killed[p])
        <4>1. pc' = [pc EXCEPT ![p] = "sleep"] /\ cpu' = cpu
          BY <1>4, <3>3, Zenon DEF while_ticks, Goto
        <4>2. Elapsed(p) < nap[p].n
          BY <3>3, ElapsedType
        <4> QED
          BY <3>1, <4>1, <4>2, Zenon
      <3> QED
        BY <3>2, <3>3, Zenon
    <2>2. \A q \in Slot : Elapsed(q)' = Elapsed(q)
      BY <2>1, Zenon DEF Elapsed
    <2>3. (\A q \in Slot : pc[q] = "sleep" => Elapsed(q) < nap[q].n)'
      BY <2>1, <2>2, Types DEF TickInv
    <2>4. \A d \in CPU : cpu[d].irq = "tick" => cpu'[d].irq = "tick"
      BY <2>1, Types, Zenon DEF Runs
    <2>5. NoLostTick'
      BY <2>1, <2>2, <2>4, Zenon DEF TickInv, NoLostTick, Elapsed
    <2> QED
      BY <2>3, <2>5 DEF TickInv
  <1>5. ASSUME NEW p \in Slot, sleep(c, p) PROVE TickInv'
    <2>1. /\ Runs(c, p) /\ pc[p] = "sleep" /\ UNCHANGED <<ticks, nap>>
          /\ pc' = [pc EXCEPT ![p] = "sched_sleep"]
          /\ state' = [state EXCEPT ![p] = "SLEEPING"] /\ chan' = [chan EXCEPT ![p] = TicksChan]
          /\ \E r : cpu' = [cpu EXCEPT ![c] = r]
      BY <1>5, Zenon DEF sleep, At, Goto
    <2>2. \A q \in Slot : Elapsed(q)' = Elapsed(q)
      BY <2>1, Zenon DEF Elapsed
    <2>3. (\A q \in Slot : pc[q] = "sleep" => Elapsed(q) < nap[q].n)'
      BY <2>1, <2>2, Types, Zenon DEF TickInv
    <2>4. \A d \in CPU : cpu[d].irq = "tick" => cpu'[d].irq = "tick"
      BY <2>1, Types, Zenon DEF Runs
    <2>5. Elapsed(p) < nap[p].n
      BY <2>1, Zenon DEF TickInv
    <2>6. NoLostTick'
      BY <2>1, <2>2, <2>4, <2>5, Types, Zenon DEF TickInv, NoLostTick, Elapsed
    <2> QED
      BY <2>3, <2>6 DEF TickInv
  <1> QED
    BY <1>1, <1>2, <1>3, <1>4, <1>5, Zenon

\* The invariant is inductive, given SwitchInv.
LEMMA TickNext == SwitchInv /\ TickInv /\ [Next]_vars => TickInv'
  <1> SUFFICES ASSUME SwitchInv, TickInv, [Next]_vars PROVE TickInv'
    OBVIOUS
  <1>1. CASE UNCHANGED vars
    <2>1. UNCHANGED <<cpu, ticks, nap, pc, state, chan>>
      BY <1>1, Zenon DEF vars, proc, thread
    <2>2. \A q \in Slot : Elapsed(q)' = Elapsed(q)
      BY <2>1, Zenon DEF Elapsed
    <2> QED
      BY <2>1, <2>2, Zenon DEF TickInv, NoLostTick, Elapsed
  <1>2. ASSUME NEW c \in CPU, scheduler(c) \/ trap(c) PROVE TickInv'
    BY <1>2, QuietSwitch, QuietKeeps, TickSteps, Zenon DEF trap
  <1>3. ASSUME NEW c \in CPU, NEW p \in Slot, Switch(c, p) \/ Thread(c, p) \/ User(c, p)
        PROVE  TickInv'
    <2>1. CASE Switch(c, p)
      BY <2>1, QuietSwitch, QuietKeeps, Zenon
    <2>2. CASE \/ sleep_acquire(c, p) \/ while_ticks(c, p) \/ sleep(c, p)
               \/ \E n \in 0..MAXSLEEP : sys_sleep(c, p, n)
      BY <2>2, TickSteps, Zenon
    <2>3. CASE \/ syscall(c, p) \/ sysret(c, p) \/ fault(c, p) \/ forkret(c, p) \/ slept(c, p)
               \/ allocproc(c, p) \/ fork_fails(c, p) \/ fork_copies(c, p) \/ fork_run(c, p)
               \/ exit(c, p) \/ wait(c, p) \/ wait_again(c, p)
               \/ \E x \in Victims : kill(c, p, x)
      BY <2>3, QuietCall, QuietKeeps, Zenon
    <2> QED
      BY <1>3, <2>1, <2>2, <2>3, Zenon DEF Thread, User
  <1> QED
    BY <1>1, <1>2, <1>3, Zenon DEF Next, halted

\* No wakeup of sys_sleep() is lost (NoLostTick, src/sysproc.c and the timer case
\* of src/trap.c): tickslock is held from the test of ticks until the process is
\* SLEEPING under ptable.lock, and ticks only changes under tickslock in an
\* interrupt that goes on to wakeup(&ticks).
THEOREM TicksWake == Spec => []NoLostTick
  <1>1. Init => TickInv
    BY Zenon DEF Init, TickInv, NoLostTick, None, TicksChan
  <1>2. SwitchInv /\ TickInv /\ [Next]_vars => TickInv'
    BY TickNext, Zenon
  <1>3. TickInv => NoLostTick
    BY Zenon DEF TickInv
  <1> QED
    BY <1>1, <1>2, <1>3, SwitchInvHolds, PTL DEF Spec
-----------------------------------------------------------------------------
(* NoLostChild *)

Living == {"SLEEPING", "RUNNABLE", "RUNNING"}

\* init lives and has no parent, nobody is its own parent, and the slot that
\* fork() fills has no parent until it is this process.
FamilyInv ==
    /\ state[initproc] \in Living /\ parent[initproc] = None
    /\ \A p \in Slot : parent[p] # p
    /\ \A p \in Slot : state[p] = "UNUSED" => parent[p] = None
    /\ \A p \in Slot : pc[p] = "fork_mem" => parent[np[p]] = None
    /\ \A p \in Slot : pc[p] = "fork_run" => parent[np[p]] = p
    /\ NoLostChild

\* A step that neither makes nor ends a process, nor begins a wait().
SameFamily ==
    /\ UNCHANGED <<parent, np>>
    /\ \A q \in Slot : pc'[q] \in Forking => pc'[q] = pc[q]
    /\ \A q \in Slot : state'[q] = state[q] \/ {state[q], state'[q]} \subseteq Living
    /\ \A q \in Slot : state'[q] = "SLEEPING" /\ chan'[q] = q =>
           state[q] = "SLEEPING" /\ chan[q] = q /\ (killed'[q] => killed[q])

\* Such a step leaves parents and children as they were.
LEMMA SameFamilyKeeps ==
    ASSUME SwitchInv, FamilyInv, SameFamily
    PROVE  FamilyInv'
  <1>1. state'[initproc] \in Living /\ parent'[initproc] = None
    BY NoneIsNoSlot, Zenon DEF FamilyInv, SameFamily
  <1>2. \A p \in Slot : parent'[p] # p /\ (state'[p] = "UNUSED" => parent'[p] = None)
    BY DEF FamilyInv, SameFamily, Living
  <1>3. \A p \in Slot : /\ pc'[p] = "fork_mem" => parent'[np'[p]] = None
                        /\ pc'[p] = "fork_run" => parent'[np'[p]] = p
    BY DEF FamilyInv, SameFamily, Forking
  <1>4. ASSUME NEW p \in Slot \ {initproc}, state'[p] \notin {"UNUSED", "EMBRYO"}
        PROVE  parent'[p] # None /\ state'[parent'[p]] \notin {"UNUSED", "EMBRYO", "ZOMBIE"}
    <2>1. state[p] \notin {"UNUSED", "EMBRYO"}
      BY <1>4, Zenon DEF SameFamily, Living
    <2>2. parent[p] # None /\ state[parent[p]] \notin {"UNUSED", "EMBRYO", "ZOMBIE"}
      BY <2>1, Zenon DEF FamilyInv, NoLostChild
    <2>3. parent[p] \in Slot
      BY <2>2, Types, Zenon
    <2> QED
      BY <2>2, <2>3, Zenon DEF SameFamily, Living
  <1>5. ASSUME NEW p \in Slot, state'[p] = "SLEEPING", chan'[p] = p
        PROVE  Children(p)' # {} /\ Zombies(p)' = {} /\ ~killed'[p]
    <2>1. Children(p) # {} /\ Zombies(p) = {} /\ ~killed[p] /\ ~killed'[p]
      BY <1>5, Zenon DEF FamilyInv, NoLostChild, SameFamily
    <2>2. Children(p)' = Children(p)
      BY Zenon DEF Children, SameFamily
    <2>3. \A q \in Slot : state'[q] = "ZOMBIE" => state[q] = "ZOMBIE"
      BY Zenon DEF SameFamily, Living
    <2> QED
      BY <2>1, <2>2, <2>3, Zenon DEF Zombies, Children
  <1>6. NoLostChild'
    BY <1>4, <1>5, Zenon DEF NoLostChild
  <1> QED
    BY <1>1, <1>2, <1>3, <1>6, Zenon DEF FamilyInv

\* The scheduler, the interrupts and the context switches are such steps.
LEMMA SameSwitch ==
    ASSUME SwitchInv, NEW c \in CPU,
           scheduler(c) \/ trap(c) \/ \E p \in Slot : Switch(c, p)
    PROVE  SameFamily
  <1>1. CASE sti(c) \/ scheduler_acquire(c) \/ scheduler_release(c)
    BY <1>1, Zenon DEF sti, scheduler_acquire, scheduler_release, proc, thread, SameFamily
  <1>2. CASE scheduler_swtch(c)
    <2>1. PICK p \in Slot : state[p] = "RUNNABLE" /\ state' = [state EXCEPT ![p] = "RUNNING"]
      BY <1>2, Zenon DEF scheduler_swtch, First, Scanned
    <2>2. UNCHANGED <<parent, np, pc, chan, killed>>
      BY <1>2, Zenon DEF scheduler_swtch, thread
    <2> QED
      BY <2>1, <2>2, Types, Zenon DEF SameFamily, Living
  <1>3. CASE trap(c)
    <2>1. pc' = pc \/ \E p \in Slot : pc' = [pc EXCEPT ![p] = "exit"]
      <3>1. CASE trap_tick(c)
        BY <3>1, Zenon DEF trap_tick, thread
      <3>2. CASE timer(c)
        <4>1. cpu[c].on \in Slot \cup {None} /\ cpu[c] \in CpuRec
          BY Types, Zenon DEF CpuRec
        <4>2. [cpu[c] EXCEPT !.ief = FALSE].on = cpu[c].on
          BY <4>1, Zenon DEF CpuRec
        <4> QED
          BY <3>2, <4>1, <4>2, Zenon DEF timer, trap_end, Goto
      <3>3. CASE trap_wakeup(c)
        <4>1. cpu[c].irq = "tick"
          BY <3>3, Zenon DEF trap_wakeup
        <4>2. cpu[c] \in CpuRec /\ cpu[c].on \in Slot \cup {None} /\ cpu[c].ncli > 0
          BY <4>1, TrapFacts DEF CpuRec
        <4>3. popcli(cpu[c]).on = cpu[c].on
          BY <4>2, Popcli, Zenon
        <4> QED
          BY <3>3, <4>2, <4>3, Zenon DEF trap_wakeup, trap_end, Goto
      <3> QED
        BY <1>3, <3>1, <3>2, <3>3, Zenon DEF trap
    <2>2. \A q \in Slot : pc'[q] \in Forking => pc'[q] = pc[q]
      BY <2>1, Types, Zenon DEF Forking
    <2>3. UNCHANGED <<parent, np, chan, killed>>
      BY <1>3, Zenon DEF trap, timer, trap_tick, trap_wakeup, proc, thread
    <2>4. \A q \in Slot : state'[q] = state[q] \/ (state[q] = "SLEEPING" /\ state'[q] = "RUNNABLE")
      <3>1. state' = state \/ wakeup1(TicksChan)
        BY <1>3, Zenon DEF trap, timer, trap_tick, trap_wakeup, proc
      <3> QED
        BY <3>1, Types, Zenon DEF wakeup1, Sleepers, States
    <2>5. /\ \A q \in Slot : state'[q] = state[q] \/ {state[q], state'[q]} \subseteq Living
          /\ \A q \in Slot : state'[q] = "SLEEPING" => state[q] = "SLEEPING"
      BY <2>4, Zenon DEF Living
    <2> QED
      BY <2>2, <2>3, <2>5, Zenon DEF SameFamily
  <1>4. ASSUME NEW p \in Slot, Switch(c, p) PROVE SameFamily
    <2>1. UNCHANGED <<parent, np, chan, killed>>
      BY <1>4, Zenon DEF Switch, sched, yield, yield_return, proc
    <2>2. pc' = pc \/ \E l \in {"dead", "waited", "slept", "exit"} : pc' = [pc EXCEPT ![p] = l]
      BY <1>4, SwitchMoves, Zenon
    <2>3. state' = state \/ (state[p] = "RUNNING" /\ state' = [state EXCEPT ![p] = "RUNNABLE"])
      <3>1. CASE yield(c, p)
        <4>1. cpu[c].on = p /\ yielding[p] = "yield"
          BY <3>1, Zenon DEF yield
        <4>2. state[p] = "RUNNING"
          BY <4>1, ThreadFacts, Zenon DEF OnOK, OnState
        <4> QED
          BY <3>1, <4>2, Zenon DEF yield
      <3> QED
        BY <1>4, <3>1, Zenon DEF Switch, sched, yield_return, proc
    <2>4. \A q \in Slot : pc'[q] \in Forking => pc'[q] = pc[q]
      BY <2>2, Types, Zenon DEF Forking
    <2>5. /\ \A q \in Slot : state'[q] = state[q] \/ {state[q], state'[q]} \subseteq Living
          /\ \A q \in Slot : state'[q] = "SLEEPING" => state[q] = "SLEEPING"
      BY <2>3, Types, Zenon DEF Living
    <2> QED
      BY <2>1, <2>4, <2>5, Zenon DEF SameFamily
  <1> QED
    BY <1>1, <1>2, <1>3, <1>4, Zenon DEF scheduler

\* So are the system calls that do not touch the family.
LEMMA SameCall ==
    ASSUME SwitchInv, NEW c \in CPU, NEW p \in Slot,
           \/ syscall(c, p) \/ sysret(c, p) \/ fault(c, p) \/ forkret(c, p)
           \/ sleep_acquire(c, p) \/ while_ticks(c, p) \/ sleep(c, p) \/ slept(c, p)
           \/ \E x \in Victims : kill(c, p, x)
           \/ \E n \in 0..MAXSLEEP : sys_sleep(c, p, n)
    PROVE  SameFamily
  <1>1. Runs(c, p) /\ UNCHANGED <<parent, np>>
    BY Zenon DEF syscall, sysret, fault, forkret, sleep_acquire, while_ticks, sleep, slept, kill,
           sys_sleep, At, proc
  <1>2. pc[p] \notin {"sched_exit", "sched_wait", "sched_sleep"}
    BY Zenon DEF syscall, sysret, fault, forkret, sleep_acquire, while_ticks, sleep, slept, kill,
           sys_sleep, At
  <1>3. state[p] = "RUNNING"
    BY <1>1, <1>2, ThreadFacts, Zenon DEF Runs, OnOK, OnState
  <1>4. \A q \in Slot : pc'[q] \in Forking => pc'[q] = pc[q]
    <2> DEFINE L == {"user", "sysret", "fork", "exit", "wait", "relock", "sys_sleep",
                     "while_ticks", "sleep", "sched_sleep"}
    <2>1. \E l \in L : pc' = [pc EXCEPT ![p] = l]
      <3>1. CASE syscall(c, p) \/ sysret(c, p) \/ fault(c, p) \/ forkret(c, p)
        BY <3>1, Zenon DEF syscall, sysret, fault, forkret, Enter, Goto
      <3>2. CASE \/ sleep_acquire(c, p) \/ while_ticks(c, p) \/ sleep(c, p) \/ slept(c, p)
                 \/ \E n \in 0..MAXSLEEP : sys_sleep(c, p, n)
        BY <3>2, Zenon DEF sleep_acquire, while_ticks, sleep, slept, sys_sleep, Enter, Goto
      <3>3. CASE \E x \in Victims : kill(c, p, x)
        BY <3>3, Zenon DEF kill, Goto
      <3> QED
        BY <3>1, <3>2, <3>3, Zenon
    <2> QED
      BY <2>1, Types, Zenon DEF Forking
  <1>5. CASE \/ syscall(c, p) \/ sysret(c, p) \/ forkret(c, p)
             \/ sleep_acquire(c, p) \/ while_ticks(c, p)
             \/ \E n \in 0..MAXSLEEP : sys_sleep(c, p, n)
    <2>1. UNCHANGED <<state, chan, killed>>
      BY <1>5, Zenon DEF syscall, sysret, forkret, sleep_acquire, while_ticks, sys_sleep, proc
    <2> QED
      BY <1>1, <1>4, <2>1, Zenon DEF SameFamily
  <1>6. CASE fault(c, p)
    <2>1. UNCHANGED <<state, chan>> /\ \A q \in Slot \ {p} : killed'[q] = killed[q]
      BY <1>6, Types, Zenon DEF fault
    <2> QED
      BY <1>1, <1>3, <1>4, <2>1, Zenon DEF SameFamily
  <1>7. CASE slept(c, p)
    <2>1. UNCHANGED <<state, killed>> /\ \A q \in Slot \ {p} : chan'[q] = chan[q]
      BY <1>7, Types, Zenon DEF slept
    <2> QED
      BY <1>1, <1>3, <1>4, <2>1, Zenon DEF SameFamily
  <1>8. CASE sleep(c, p)
    <2>1. /\ killed' = killed /\ \A q \in Slot \ {p} : chan'[q] = chan[q] /\ state'[q] = state[q]
          /\ state'[p] = "SLEEPING" /\ chan'[p] = TicksChan
      BY <1>8, Types, Zenon DEF sleep
    <2>2. chan'[p] # p
      BY <2>1, NoneIsNoSlot, Zenon
    <2> QED
      BY <1>1, <1>3, <1>4, <2>1, <2>2, Zenon DEF SameFamily, Living
  <1>9. ASSUME NEW x \in Victims, kill(c, p, x) PROVE SameFamily
    <2>1. chan' = chan
      BY <1>9, Zenon DEF kill
    <2> DEFINE S == First({q \in Slot : pid[q] = x})
    <2>0. \/ UNCHANGED <<state, killed>>
          \/ /\ killed' = [q \in Slot |-> q \in S \/ killed[q]]
             /\ state' = [q \in Slot |-> IF q \in S /\ state[q] = "SLEEPING" THEN "RUNNABLE"
                                         ELSE state[q]]
      BY <1>9, Zenon DEF kill
    <2> HIDE DEF S
    <2>2. \A q \in Slot : state'[q] = state[q] \/ (state[q] = "SLEEPING" /\ state'[q] = "RUNNABLE")
      BY <2>0, Types, Zenon DEF States
    <2>3. ASSUME NEW q \in Slot, state'[q] = "SLEEPING", killed'[q]
          PROVE  killed[q]
      <3>1. UNCHANGED <<state, killed>> \/ q \notin S
        BY <2>0, <2>3
      <3> QED
        BY <2>0, <2>3, <3>1, Zenon
    <2>4. /\ \A q \in Slot : state'[q] = state[q] \/ {state[q], state'[q]} \subseteq Living
          /\ \A q \in Slot : state'[q] = "SLEEPING" => state[q] = "SLEEPING"
      BY <2>2, Zenon DEF Living
    <2> QED
      BY <1>1, <1>4, <2>1, <2>3, <2>4, Zenon DEF SameFamily
  <1> QED
    BY <1>5, <1>6, <1>7, <1>8, <1>9, Zenon

\* FamilyInv with the types: init has a slot and lives, and the parent of a
\* slot, if any, is another slot.
LEMMA FamilyRoot ==
    ASSUME SwitchInv, FamilyInv
    PROVE  /\ initproc \in Slot /\ state[initproc] \in Living /\ parent[initproc] = None
           /\ \A q \in Slot : parent[q] # q /\ parent[q] \in Slot \cup {None}
           /\ \A q \in Slot : state[q] = "UNUSED" => parent[q] = None
  <1>1. initproc \in Slot /\ \A q \in Slot : parent[q] \in Slot \cup {None}
    BY NoneIsNoSlot, Types, Zenon
  <1> QED
    BY <1>1, Zenon DEF FamilyInv

\* What FamilyInv and ForkInv say of the slots that fork() fills.
LEMMA FamilyFork ==
    ASSUME SwitchInv, FamilyInv
    PROVE  /\ \A q \in Slot : pc[q] \in Forking => np[q] \in Slot /\ state[np[q]] = "EMBRYO"
           /\ \A q \in Slot : pc[q] = "fork_mem" => parent[np[q]] = None
           /\ \A q \in Slot : pc[q] = "fork_run" => parent[np[q]] = q
           /\ \A q, s \in Slot : pc[q] \in Forking /\ pc[s] \in Forking /\ np[q] = np[s] => q = s
  <1>1. /\ \A q \in Slot : pc[q] \in Forking => np[q] \in Slot /\ state[np[q]] = "EMBRYO"
        /\ \A q, s \in Slot : pc[q] \in Forking /\ pc[s] \in Forking /\ np[q] = np[s] => q = s
    BY Zenon DEF SwitchInv, ForkInv
  <1> QED
    BY <1>1, Zenon DEF FamilyInv

\* The parent of a process other than init is a living process.
LEMMA FamilyParent ==
    ASSUME SwitchInv, FamilyInv
    PROVE  \A q \in Slot \ {initproc} : state[q] \notin {"UNUSED", "EMBRYO"} =>
               parent[q] \in Slot /\ state[parent[q]] \in Living
  <1>1. ASSUME NEW q \in Slot \ {initproc}, state[q] \notin {"UNUSED", "EMBRYO"}
        PROVE  parent[q] \in Slot /\ state[parent[q]] \in Living
    <2>1. parent[q] # None /\ state[parent[q]] \notin {"UNUSED", "EMBRYO", "ZOMBIE"}
      BY <1>1, Zenon DEF FamilyInv, NoLostChild
    <2>2. parent[q] \in Slot
      BY <2>1, FamilyRoot, Zenon
    <2>3. state[parent[q]] \in States
      BY <2>2, Types, Zenon
    <2> QED
      BY <2>1, <2>2, <2>3, Zenon DEF States, Living
  <1> QED
    BY <1>1, Zenon

\* A process asleep in wait() has not been killed, and has children, no zombies.
LEMMA FamilySleep ==
    ASSUME FamilyInv
    PROVE  \A q \in Slot : state[q] = "SLEEPING" /\ chan[q] = q =>
               /\ ~killed[q]
               /\ \E s \in Slot : parent[s] = q
               /\ \A s \in Slot : parent[s] = q => state[s] # "ZOMBIE"
  <1>1. ASSUME NEW q \in Slot, state[q] = "SLEEPING", chan[q] = q
        PROVE  ~killed[q] /\ Children(q) # {} /\ Zombies(q) = {}
    BY <1>1, Zenon DEF FamilyInv, NoLostChild
  <1>2. ASSUME NEW q \in Slot, Children(q) # {}, Zombies(q) = {}
        PROVE  /\ \E s \in Slot : parent[s] = q
               /\ \A s \in Slot : parent[s] = q => state[s] # "ZOMBIE"
    BY <1>2, Zenon DEF Children, Zombies
  <1> QED
    BY <1>1, <1>2, Zenon

\* The converse: FamilyInv in terms of single slots.
LEMMA FamilyIs ==
    ASSUME state'[initproc] \in Living, parent'[initproc] = None,
           \A q \in Slot : parent'[q] # q,
           \A q \in Slot : state'[q] = "UNUSED" => parent'[q] = None,
           \A q \in Slot : pc'[q] = "fork_mem" => parent'[np'[q]] = None,
           \A q \in Slot : pc'[q] = "fork_run" => parent'[np'[q]] = q,
           \A q \in Slot \ {initproc} : state'[q] \notin {"UNUSED", "EMBRYO"} =>
               parent'[q] \in Slot /\ state'[parent'[q]] \in Living,
           \A q \in Slot : state'[q] = "SLEEPING" /\ chan'[q] = q =>
               /\ ~killed'[q]
               /\ \E s \in Slot : parent'[s] = q
               /\ \A s \in Slot : parent'[s] = q => state'[s] # "ZOMBIE"
    PROVE  FamilyInv'
  <1>1. ASSUME NEW q \in Slot \ {initproc}, state'[q] \notin {"UNUSED", "EMBRYO"}
        PROVE  parent'[q] # None /\ state'[parent'[q]] \notin {"UNUSED", "EMBRYO", "ZOMBIE"}
    BY <1>1, NoneIsNoSlot, Zenon DEF Living
  <1>2. ASSUME NEW q \in Slot, state'[q] = "SLEEPING", chan'[q] = q
        PROVE  Children(q)' # {} /\ Zombies(q)' = {} /\ ~killed'[q]
    BY <1>2 DEF Children, Zombies
  <1>3. NoLostChild'
    BY <1>1, <1>2, Zenon DEF NoLostChild
  <1> QED
    BY <1>3, Zenon DEF FamilyInv

\* A thread that runs outside sched() is RUNNING.
LEMMA RunsRunning ==
    ASSUME SwitchInv, NEW c \in CPU, NEW p \in Slot, Runs(c, p),
           pc[p] \in Open \cup {"exit", "waited"}
    PROVE  state[p] = "RUNNING"
  BY ThreadFacts DEF Runs, OnOK, OnState, Open

\* fork() finds a slot that is nobody's parent and has none.
LEMMA FamilyAllocproc ==
    ASSUME SwitchInv, FamilyInv, NEW c \in CPU, NEW p \in Slot, allocproc(c, p)
    PROVE  FamilyInv'
  <1>1. /\ Runs(c, p) /\ pc[p] = "fork" /\ UNCHANGED <<parent, chan, killed>>
    BY Zenon DEF allocproc, At
  <1>2. CASE pc' = [pc EXCEPT ![p] = "sysret"] /\ UNCHANGED <<state, np>>
    <2>1. \A q \in Slot : pc'[q] \in Forking => pc'[q] = pc[q]
      BY <1>2, Types, Zenon DEF Forking
    <2>2. SameFamily
      BY <1>1, <1>2, <2>1, Zenon DEF SameFamily
    <2> QED
      BY <2>2, SameFamilyKeeps, Zenon
  <1>3. ASSUME NEW n \in Slot, state[n] = "UNUSED",
               state' = [state EXCEPT ![n] = "EMBRYO"],
               np' = [np EXCEPT ![p] = n], pc' = [pc EXCEPT ![p] = "fork_mem"]
        PROVE  FamilyInv'
    <2>1. /\ state'[n] = "EMBRYO" /\ \A q \in Slot \ {n} : state'[q] = state[q]
          /\ np'[p] = n /\ \A q \in Slot \ {p} : np'[q] = np[q]
          /\ pc'[p] = "fork_mem" /\ \A q \in Slot \ {p} : pc'[q] = pc[q]
      BY <1>3, Types, Zenon
    <2>2. state'[initproc] \in Living /\ parent'[initproc] = None
      BY <1>1, <1>3, <2>1, FamilyRoot, Zenon DEF Living
    <2>3. \A q \in Slot : parent'[q] # q /\ (state'[q] = "UNUSED" => parent'[q] = None)
      BY <1>1, <2>1, FamilyRoot
    <2>4. \A q \in Slot : pc'[q] = "fork_mem" => parent'[np'[q]] = None
      BY <1>1, <1>3, <2>1, FamilyRoot, FamilyFork DEF Forking
    <2>5. \A q \in Slot : pc'[q] = "fork_run" => parent'[np'[q]] = q
      BY <1>1, <2>1, FamilyFork
    <2>6. \A q \in Slot \ {initproc} : state'[q] \notin {"UNUSED", "EMBRYO"} =>
              parent'[q] \in Slot /\ state'[parent'[q]] \in Living
      BY <1>1, <1>3, <2>1, FamilyParent DEF Living
    <2>7. \A q \in Slot : state'[q] = "SLEEPING" /\ chan'[q] = q =>
              /\ ~killed'[q]
              /\ \E s \in Slot : parent'[s] = q
              /\ \A s \in Slot : parent'[s] = q => state'[s] # "ZOMBIE"
      BY <1>1, <2>1, FamilySleep
    <2> QED
      BY <2>2, <2>3, <2>4, <2>5, <2>6, <2>7, FamilyIs, Zenon
  <1> QED
    BY <1>2, <1>3, Zenon DEF allocproc, Goto, First, Unused

\* fork() gives the slot back: it never had a parent.
LEMMA FamilyForkFails ==
    ASSUME SwitchInv, FamilyInv, NEW c \in CPU, NEW p \in Slot, fork_fails(c, p)
    PROVE  FamilyInv'
  <1> DEFINE n == np[p]
  <1>1. /\ Runs(c, p) /\ pc[p] = "fork_mem" /\ UNCHANGED <<parent, chan, killed>>
        /\ state' = [state EXCEPT ![n] = "UNUSED"] /\ np' = [np EXCEPT ![p] = None]
        /\ pc' = [pc EXCEPT ![p] = "sysret"]
    BY Zenon DEF fork_fails, At, Goto
  <1>2. n \in Slot /\ state[n] = "EMBRYO" /\ parent[n] = None
    BY <1>1, FamilyFork, Zenon DEF Forking
  <1>3. /\ state'[n] = "UNUSED" /\ \A q \in Slot \ {n} : state'[q] = state[q]
        /\ \A q \in Slot \ {p} : np'[q] = np[q]
        /\ pc'[p] = "sysret" /\ \A q \in Slot \ {p} : pc'[q] = pc[q]
    BY <1>1, <1>2, Types, Zenon
  <1> HIDE DEF n
  <1>4. state'[initproc] \in Living /\ parent'[initproc] = None
    BY <1>1, <1>2, <1>3, FamilyRoot, Zenon DEF Living
  <1>5. \A q \in Slot : parent'[q] # q /\ (state'[q] = "UNUSED" => parent'[q] = None)
    BY <1>1, <1>2, <1>3, FamilyRoot
  <1>6. \A q \in Slot : /\ pc'[q] = "fork_mem" => parent'[np'[q]] = None
                        /\ pc'[q] = "fork_run" => parent'[np'[q]] = q
    BY <1>1, <1>3, FamilyFork
  <1>7. \A q \in Slot \ {initproc} : state'[q] \notin {"UNUSED", "EMBRYO"} =>
            parent'[q] \in Slot /\ state'[parent'[q]] \in Living
    BY <1>1, <1>2, <1>3, FamilyParent DEF Living
  <1>8. \A q \in Slot : state'[q] = "SLEEPING" /\ chan'[q] = q =>
            /\ ~killed'[q]
            /\ \E s \in Slot : parent'[s] = q
            /\ \A s \in Slot : parent'[s] = q => state'[s] # "ZOMBIE"
    BY <1>1, <1>3, FamilySleep
  <1> QED
    BY <1>4, <1>5, <1>6, <1>7, <1>8, FamilyIs, Zenon

\* fork() makes the process the parent of the slot.
LEMMA FamilyForkCopies ==
    ASSUME SwitchInv, FamilyInv, NEW c \in CPU, NEW p \in Slot, fork_copies(c, p)
    PROVE  FamilyInv'
  <1> DEFINE n == np[p]
  <1>1. /\ Runs(c, p) /\ pc[p] = "fork_mem" /\ UNCHANGED <<state, np, chan, killed>>
        /\ parent' = [parent EXCEPT ![n] = p]
        /\ pc' = [pc EXCEPT ![p] = "fork_run", ![n] = "forkret"]
    BY Zenon DEF fork_copies, At
  <1>2. n \in Slot /\ state[n] = "EMBRYO" /\ parent[n] = None
    BY <1>1, FamilyFork, Zenon DEF Forking
  <1>3. state[p] = "RUNNING" /\ n # p
    BY <1>1, <1>2, RunsRunning, Zenon DEF Open
  <1>4. /\ parent'[n] = p /\ \A q \in Slot \ {n} : parent'[q] = parent[q]
        /\ pc'[p] = "fork_run" /\ pc'[n] = "forkret" /\ \A q \in Slot \ {p, n} : pc'[q] = pc[q]
    BY <1>1, <1>2, <1>3, Types, Zenon
  <1>5. \A q \in Slot \ {p} : pc[q] \in Forking => np[q] \in Slot \ {n}
    BY <1>1, FamilyFork, Zenon DEF Forking
  <1>6. state'[initproc] \in Living /\ parent'[initproc] = None
    BY <1>1, <1>2, <1>4, FamilyRoot DEF Living
  <1>7. \A q \in Slot : parent'[q] # q /\ (state'[q] = "UNUSED" => parent'[q] = None)
    BY <1>1, <1>2, <1>3, <1>4, FamilyRoot
  <1>8. \A q \in Slot : pc'[q] = "fork_mem" => parent'[np'[q]] = None
    BY <1>1, <1>3, <1>4, <1>5, FamilyFork DEF Forking
  <1>9. \A q \in Slot : pc'[q] = "fork_run" => parent'[np'[q]] = q
    BY <1>1, <1>3, <1>4, <1>5, FamilyFork DEF Forking
  <1>10. \A q \in Slot \ {initproc} : state'[q] \notin {"UNUSED", "EMBRYO"} =>
             parent'[q] \in Slot /\ state'[parent'[q]] \in Living
    BY <1>1, <1>2, <1>4, FamilyParent, Zenon
  <1>11. \A q \in Slot : state'[q] = "SLEEPING" /\ chan'[q] = q =>
             /\ ~killed'[q]
             /\ \E s \in Slot : parent'[s] = q
             /\ \A s \in Slot : parent'[s] = q => state'[s] # "ZOMBIE"
    BY <1>1, <1>2, <1>3, <1>4, FamilySleep, NoneIsNoSlot
  <1> QED
    BY <1>6, <1>7, <1>8, <1>9, <1>10, <1>11, FamilyIs, Zenon

\* The child is RUNNABLE, and its parent is RUNNING.
LEMMA FamilyForkRun ==
    ASSUME SwitchInv, FamilyInv, NEW c \in CPU, NEW p \in Slot, fork_run(c, p)
    PROVE  FamilyInv'
  <1> DEFINE n == np[p]
  <1>1. /\ Runs(c, p) /\ pc[p] = "fork_run" /\ UNCHANGED <<parent, chan, killed>>
        /\ state' = [state EXCEPT ![n] = "RUNNABLE"] /\ np' = [np EXCEPT ![p] = None]
        /\ pc' = [pc EXCEPT ![p] = "sysret"]
    BY Zenon DEF fork_run, At, Goto
  <1>2. n \in Slot /\ state[n] = "EMBRYO" /\ parent[n] = p
    BY <1>1, FamilyFork, Zenon DEF Forking
  <1>3. /\ state'[n] = "RUNNABLE" /\ \A q \in Slot \ {n} : state'[q] = state[q]
        /\ \A q \in Slot \ {p} : np'[q] = np[q]
        /\ pc'[p] = "sysret" /\ \A q \in Slot \ {p} : pc'[q] = pc[q]
    BY <1>1, <1>2, Types, Zenon
  <1> HIDE DEF n
  <1>4. state[p] = "RUNNING" /\ n # p
    BY <1>1, <1>2, RunsRunning, Zenon DEF Open
  <1>5. state'[initproc] \in Living /\ parent'[initproc] = None
    BY <1>1, <1>2, <1>3, FamilyRoot, Zenon DEF Living
  <1>6. \A q \in Slot : parent'[q] # q /\ (state'[q] = "UNUSED" => parent'[q] = None)
    BY <1>1, <1>2, <1>3, FamilyRoot
  <1>7. \A q \in Slot : /\ pc'[q] = "fork_mem" => parent'[np'[q]] = None
                        /\ pc'[q] = "fork_run" => parent'[np'[q]] = q
    BY <1>1, <1>3, FamilyFork
  <1>8. \A q \in Slot \ {initproc} : state'[q] \notin {"UNUSED", "EMBRYO"} =>
            parent'[q] \in Slot /\ state'[parent'[q]] \in Living
    BY <1>1, <1>2, <1>3, <1>4, FamilyParent DEF Living
  <1>9. \A q \in Slot : state'[q] = "SLEEPING" /\ chan'[q] = q =>
            /\ ~killed'[q]
            /\ \E s \in Slot : parent'[s] = q
            /\ \A s \in Slot : parent'[s] = q => state'[s] # "ZOMBIE"
    BY <1>1, <1>3, FamilySleep
  <1> QED
    BY <1>5, <1>6, <1>7, <1>8, <1>9, FamilyIs, Zenon

\* exit() gives the children to init and wakes whoever waits for them, under
\* one ptable.lock.
LEMMA FamilyExit ==
    ASSUME SwitchInv, FamilyInv, NEW c \in CPU, NEW p \in Slot, exit(c, p)
    PROVE  FamilyInv'
  <1>1. /\ Runs(c, p) /\ pc[p] = "exit" /\ UNCHANGED <<chan, killed, np>>
    BY Zenon DEF exit, At
  <1>2. CASE p = initproc
    <2>1. UNCHANGED <<state, parent, pc>>
      BY <1>2, Zenon DEF exit
    <2>2. SameFamily
      BY <1>1, <2>1, Zenon DEF SameFamily
    <2> QED
      BY <2>2, SameFamilyKeeps, Zenon
  <1>3. CASE p # initproc
    <2>1. /\ state' = [q \in Slot |-> IF q = p THEN "ZOMBIE"
                                      ELSE IF q \in Woken(p) THEN "RUNNABLE" ELSE state[q]]
          /\ parent' = [q \in Slot |-> IF q \in Children(p) THEN initproc ELSE parent[q]]
          /\ pc' = [pc EXCEPT ![p] = "sched_exit"]
      BY <1>3, Zenon DEF exit, Goto
    <2>2. state[p] = "RUNNING"
      BY <1>1, RunsRunning, Zenon
    <2>3. /\ state'[p] = "ZOMBIE"
          /\ \A q \in Slot \ {p} : \/ state'[q] = state[q] /\ q \notin Woken(p)
                                   \/ state[q] = "SLEEPING" /\ state'[q] = "RUNNABLE"
      BY <2>1, Zenon DEF Woken, Sleepers
    <2>4. /\ \A q \in Slot : parent[q] = p => parent'[q] = initproc
          /\ \A q \in Slot : parent[q] # p => parent'[q] = parent[q]
      BY <2>1, Zenon DEF Children
    <2>5. /\ pc'[p] = "sched_exit" /\ \A q \in Slot \ {p} : pc'[q] = pc[q]
      BY <2>1, Types, Zenon
    <2>6. /\ \A q \in Slot : state[q] = "SLEEPING" /\ chan[q] = parent[p] => q \in Woken(p)
          /\ \A q, s \in Slot : /\ state[q] = "SLEEPING" /\ chan[q] = initproc
                                /\ parent[s] = p /\ state[s] = "ZOMBIE"
                                => q \in Woken(p)
      BY Zenon DEF Woken, Sleepers, Zombies, Children
    <2>7. p # None /\ initproc \in Slot
      BY NoneIsNoSlot, Zenon
    <2>8. state'[initproc] \in Living /\ parent'[initproc] = None
      BY <1>3, <2>3, <2>4, <2>7, FamilyRoot, Zenon DEF Living
    <2>9. \A q \in Slot : parent'[q] # q
      BY <2>4, <2>7, FamilyRoot
    <2>10. \A q \in Slot : state'[q] = "UNUSED" => parent'[q] = None
      BY <2>3, <2>4, <2>7, FamilyRoot
    <2>11. ASSUME NEW q \in Slot, pc'[q] = "fork_mem" PROVE parent'[np'[q]] = None
      <3>1. pc[q] = "fork_mem"
        BY <2>5, <2>11, Zenon
      <3>2. np[q] \in Slot /\ parent[np[q]] = None
        BY <3>1, FamilyFork, Zenon DEF Forking
      <3> QED
        BY <1>1, <2>4, <2>7, <3>2, Zenon
    <2>12. ASSUME NEW q \in Slot, pc'[q] = "fork_run" PROVE parent'[np'[q]] = q
      <3>1. q # p /\ pc[q] = "fork_run"
        BY <2>5, <2>12, Zenon
      <3>2. np[q] \in Slot /\ parent[np[q]] = q
        BY <3>1, FamilyFork, Zenon DEF Forking
      <3> QED
        BY <1>1, <2>4, <3>1, <3>2, Zenon
    <2>13. ASSUME NEW q \in Slot \ {initproc}, state'[q] \notin {"UNUSED", "EMBRYO"}
           PROVE  parent'[q] \in Slot /\ state'[parent'[q]] \in Living
      <3>1. state[q] \notin {"UNUSED", "EMBRYO"}
        BY <2>2, <2>3, <2>13, Zenon
      <3>2. parent[q] \in Slot /\ state[parent[q]] \in Living
        BY <3>1, FamilyParent, Zenon
      <3>3. CASE parent[q] = p
        BY <2>4, <2>7, <2>8, <3>3, Zenon
      <3>4. CASE parent[q] # p
        BY <2>3, <2>4, <3>2, <3>4, Zenon DEF Living
      <3> QED
        BY <3>3, <3>4, Zenon
    <2>14. ASSUME NEW q \in Slot, state'[q] = "SLEEPING", chan'[q] = q
           PROVE  /\ ~killed'[q]
                  /\ \E s \in Slot : parent'[s] = q
                  /\ \A s \in Slot : parent'[s] = q => state'[s] # "ZOMBIE"
      <3>1. q # p /\ state[q] = "SLEEPING" /\ chan[q] = q /\ q \notin Woken(p)
        BY <1>1, <2>3, <2>14, Zenon
      <3>2. /\ ~killed[q]
            /\ \E s \in Slot : parent[s] = q
            /\ \A s \in Slot : parent[s] = q => state[s] # "ZOMBIE"
        BY <3>1, FamilySleep, Zenon
      <3>3. \E s \in Slot : parent'[s] = q
        BY <2>4, <3>1, <3>2, Zenon
      <3>4. ASSUME NEW s \in Slot, parent'[s] = q, state'[s] = "ZOMBIE" PROVE FALSE
        <4>1. CASE s = p
          <5>1. parent[p] # p
            BY FamilyRoot, Zenon
          <5>2. parent[p] = q
            BY <2>4, <3>4, <4>1, <5>1, Zenon
          <5> QED
            BY <2>6, <3>1, <5>2, Zenon
        <4>2. CASE s # p /\ parent[s] = p
          <5>1. q = initproc /\ state[s] = "ZOMBIE"
            BY <2>3, <2>4, <3>4, <4>2, Zenon
          <5> QED
            BY <2>6, <3>1, <4>2, <5>1, Zenon
        <4>3. CASE s # p /\ parent[s] # p
          BY <2>3, <2>4, <3>2, <3>4, <4>3, Zenon
        <4> QED
          BY <4>1, <4>2, <4>3, Zenon
      <3> QED
        BY <1>1, <3>2, <3>3, <3>4, Zenon
    <2> QED
      BY <2>8, <2>9, <2>10, <2>11, <2>12, <2>13, <2>14, FamilyIs, Zenon
  <1> QED
    BY <1>2, <1>3, Zenon

\* A pass of the loop of wait() that reaps a zombie, fails or sleeps.
LEMMA FamilyWait ==
    ASSUME SwitchInv, FamilyInv, NEW c \in CPU, NEW p \in Slot,
           Runs(c, p), pc[p] \in {"wait", "waited"}, UNCHANGED np,
           wait_reap(p) \/ wait_fails(p) \/ wait_sleeps(p)
    PROVE  FamilyInv'
  <1>1. state[p] = "RUNNING" /\ p # None
    BY RunsRunning, NoneIsNoSlot, Zenon DEF Open
  <1>2. /\ \A q \in Slot : pc'[q] \in Forking => pc'[q] = pc[q]
        /\ \A q \in Slot \ {p} : chan'[q] = chan[q]
    BY Types, Zenon DEF wait_reap, wait_fails, wait_sleeps, Goto, Forking
  <1>3. CASE wait_fails(p)
    <2>1. UNCHANGED <<state, parent, killed>>
      BY <1>3, Zenon DEF wait_fails
    <2>2. SameFamily
      BY <1>1, <1>2, <2>1, Zenon DEF SameFamily
    <2> QED
      BY <2>2, SameFamilyKeeps, Zenon
  <1>4. CASE wait_sleeps(p)
    <2>1. /\ UNCHANGED <<parent, killed>> /\ state' = [state EXCEPT ![p] = "SLEEPING"]
          /\ Zombies(p) = {} /\ Children(p) # {} /\ ~killed[p]
      BY <1>4, Zenon DEF wait_sleeps
    <2>2. state'[p] = "SLEEPING" /\ \A q \in Slot \ {p} : state'[q] = state[q]
      BY <2>1, Types, Zenon
    <2>3. /\ \E s \in Slot : parent[s] = p
          /\ \A s \in Slot : parent[s] = p => state[s] # "ZOMBIE"
      BY <2>1, Zenon DEF Zombies, Children
    <2>4. state'[initproc] \in Living /\ parent'[initproc] = None
      BY <2>1, <2>2, FamilyRoot, Zenon DEF Living
    <2>5. \A q \in Slot : parent'[q] # q /\ (state'[q] = "UNUSED" => parent'[q] = None)
      BY <2>1, <2>2, FamilyRoot
    <2>6. \A q \in Slot : /\ pc'[q] = "fork_mem" => parent'[np'[q]] = None
                          /\ pc'[q] = "fork_run" => parent'[np'[q]] = q
      BY <1>2, <2>1, FamilyFork, Zenon DEF Forking
    <2>7. ASSUME NEW q \in Slot \ {initproc}, state'[q] \notin {"UNUSED", "EMBRYO"}
          PROVE  parent'[q] \in Slot /\ state'[parent'[q]] \in Living
      <3>1. state[q] \notin {"UNUSED", "EMBRYO"}
        BY <1>1, <2>2, <2>7, Zenon
      <3>2. parent[q] \in Slot /\ state[parent[q]] \in Living
        BY <3>1, FamilyParent, Zenon
      <3>3. state'[parent[q]] \in Living
        BY <2>2, <3>2, Zenon DEF Living
      <3> QED
        BY <2>1, <3>2, <3>3, Zenon
    <2>8. ASSUME NEW q \in Slot, state'[q] = "SLEEPING", chan'[q] = q
          PROVE  /\ ~killed'[q]
                 /\ \E s \in Slot : parent'[s] = q
                 /\ \A s \in Slot : parent'[s] = q => state'[s] # "ZOMBIE"
      <3>1. \A s \in Slot : state[s] # "ZOMBIE" => state'[s] # "ZOMBIE"
        BY <2>2, Zenon
      <3>2. CASE q = p
        BY <2>1, <2>3, <3>1, <3>2, Zenon
      <3>3. CASE q # p
        <4>1. state[q] = "SLEEPING" /\ chan[q] = q
          BY <1>2, <2>2, <2>8, <3>3, Zenon
        <4>2. /\ ~killed[q]
              /\ \E s \in Slot : parent[s] = q
              /\ \A s \in Slot : parent[s] = q => state[s] # "ZOMBIE"
          BY <4>1, FamilySleep, Zenon
        <4> QED
          BY <2>1, <3>1, <4>2, Zenon
      <3> QED
        BY <3>2, <3>3, Zenon
    <2> QED
      BY <2>4, <2>5, <2>6, <2>7, <2>8, FamilyIs, Zenon
  <1>5. CASE wait_reap(p)
    <2>1. PICK z \in Slot : state[z] = "ZOMBIE" /\ parent[z] = p /\ Reap(z)
      BY <1>5, Zenon DEF wait_reap, First, Zombies, Children
    <2>2. /\ state'[z] = "UNUSED" /\ \A q \in Slot \ {z} : state'[q] = state[q]
          /\ parent'[z] = None /\ \A q \in Slot \ {z} : parent'[q] = parent[q]
      BY <2>1, Types, Zenon DEF Reap
    <2>3. ~killed'[z] /\ \A q \in Slot \ {z} : killed'[q] = killed[q]
      BY <2>1, Types, Zenon DEF Reap
    <2>4. z # p /\ z # initproc
      BY <1>1, <2>1, FamilyRoot, Zenon DEF Living
    <2>5. state'[initproc] \in Living /\ parent'[initproc] = None
      BY <2>2, <2>4, FamilyRoot, Zenon
    <2>6. ASSUME NEW q \in Slot PROVE parent'[q] # q /\ (state'[q] = "UNUSED" => parent'[q] = None)
      <3>1. parent[q] # q /\ (state[q] = "UNUSED" => parent[q] = None)
        BY FamilyRoot, Zenon
      <3>2. CASE q = z
        BY <2>2, <3>2, NoneIsNoSlot, Zenon
      <3>3. CASE q # z
        BY <2>2, <3>1, <3>3, Zenon
      <3> QED
        BY <3>2, <3>3, Zenon
    <2>7. \A q \in Slot : pc'[q] \in Forking => np[q] \in Slot \ {z}
      BY <1>2, <2>1, FamilyFork, Zenon
    <2>8. ASSUME NEW q \in Slot
          PROVE  /\ pc'[q] = "fork_mem" => parent'[np'[q]] = None
                 /\ pc'[q] = "fork_run" => parent'[np'[q]] = q
      <3>1. pc'[q] \in Forking => pc'[q] = pc[q] /\ np[q] \in Slot \ {z}
        BY <1>2, <2>7, Zenon
      <3>2. pc'[q] \in Forking => parent'[np'[q]] = parent[np[q]]
        BY <2>2, <3>1, Zenon
      <3>3. /\ pc[q] = "fork_mem" => parent[np[q]] = None
            /\ pc[q] = "fork_run" => parent[np[q]] = q
        BY FamilyFork, Zenon
      <3> QED
        BY <3>1, <3>2, <3>3, Zenon DEF Forking
    <2>9. ASSUME NEW q \in Slot \ {initproc}, state'[q] \notin {"UNUSED", "EMBRYO"}
          PROVE  parent'[q] \in Slot /\ state'[parent'[q]] \in Living
      <3>1. q \in Slot \ {z} /\ state'[q] = state[q] /\ parent'[q] = parent[q]
        BY <2>2, <2>9, Zenon
      <3>2. parent[q] \in Slot /\ state[parent[q]] \in Living
        BY <2>9, <3>1, FamilyParent, Zenon
      <3>3. parent[q] # z
        BY <2>1, <3>2, Zenon DEF Living
      <3> QED
        BY <2>2, <3>1, <3>2, <3>3, Zenon
    <2>10. ASSUME NEW q \in Slot, state'[q] = "SLEEPING", chan'[q] = q
           PROVE  /\ ~killed'[q]
                  /\ \E s \in Slot : parent'[s] = q
                  /\ \A s \in Slot : parent'[s] = q => state'[s] # "ZOMBIE"
      <3>1. q # p /\ q # z
        BY <1>1, <2>2, <2>4, <2>10, Zenon
      <3>2. /\ ~killed[q]
            /\ \E s \in Slot : parent[s] = q
            /\ \A s \in Slot : parent[s] = q => state[s] # "ZOMBIE"
        BY <1>2, <2>2, <2>10, <3>1, FamilySleep, Zenon
      <3> QED
        BY <2>1, <2>2, <2>3, <3>1, <3>2, Zenon
    <2> QED
      BY <2>5, <2>6, <2>8, <2>9, <2>10, FamilyIs, Zenon
  <1> QED
    BY <1>3, <1>4, <1>5, Zenon

\* The invariant is inductive, given SwitchInv.
LEMMA FamilyNext == SwitchInv /\ FamilyInv /\ [Next]_vars => FamilyInv'
  <1> SUFFICES ASSUME SwitchInv, FamilyInv, [Next]_vars PROVE FamilyInv'
    OBVIOUS
  <1>1. CASE UNCHANGED vars
    <2>1. SameFamily
      BY <1>1, Zenon DEF vars, proc, thread, SameFamily
    <2> QED
      BY <2>1, SameFamilyKeeps, Zenon
  <1>2. ASSUME NEW c \in CPU, scheduler(c) \/ trap(c) PROVE FamilyInv'
    BY <1>2, SameSwitch, SameFamilyKeeps, Zenon
  <1>3. ASSUME NEW c \in CPU, NEW p \in Slot, Switch(c, p) \/ Thread(c, p) \/ User(c, p)
        PROVE  FamilyInv'
    <2>1. CASE Switch(c, p)
      BY <2>1, SameSwitch, SameFamilyKeeps, Zenon
    <2>2. CASE allocproc(c, p) \/ fork_fails(c, p) \/ fork_copies(c, p) \/ fork_run(c, p)
      BY <2>2, FamilyAllocproc, FamilyForkFails, FamilyForkCopies, FamilyForkRun, Zenon
    <2>3. CASE exit(c, p)
      BY <2>3, FamilyExit, Zenon
    <2>4. CASE wait(c, p) \/ wait_again(c, p)
      <3>1. /\ Runs(c, p) /\ pc[p] \in {"wait", "waited"} /\ UNCHANGED np
            /\ wait_reap(p) \/ wait_fails(p) \/ wait_sleeps(p)
        BY <2>4, Zenon DEF wait, wait_again, At
      <3> QED
        BY <3>1, FamilyWait, Zenon
    <2>5. CASE \/ syscall(c, p) \/ sysret(c, p) \/ fault(c, p) \/ forkret(c, p)
               \/ sleep_acquire(c, p) \/ while_ticks(c, p) \/ sleep(c, p) \/ slept(c, p)
               \/ \E x \in Victims : kill(c, p, x)
               \/ \E n \in 0..MAXSLEEP : sys_sleep(c, p, n)
      BY <2>5, SameCall, SameFamilyKeeps, Zenon
    <2> QED
      BY <1>3, <2>1, <2>2, <2>3, <2>4, <2>5, Zenon DEF Thread, User
  <1> QED
    BY <1>1, <1>2, <1>3, Zenon DEF Next, halted

\* No child and no wakeup of wait() is lost (NoLostChild, src/proc.c): the
\* children of a process that exits are init's before anybody can see it as a
\* zombie, and a process asleep in wait() has a child, none of its children is a
\* zombie, and it is not killed.
THEOREM ChildrenKept == Spec => []NoLostChild
  <1>1. Init => FamilyInv
    <2> SUFFICES ASSUME Init PROVE FamilyInv
      OBVIOUS
    <2>1. /\ state[initproc] = "RUNNABLE" /\ parent[initproc] = None
          /\ \A p \in Slot : parent[p] = None /\ pc[p] = "forkret" /\ state[p] # "SLEEPING"
          /\ \A p \in Slot \ {initproc} : state[p] = "UNUSED"
      BY NoneIsNoSlot, Zenon DEF Init
    <2>2. NoLostChild
      BY <2>1, Zenon DEF NoLostChild
    <2> QED
      BY <2>1, <2>2, NoneIsNoSlot, Zenon DEF FamilyInv, Living
  <1>2. SwitchInv /\ FamilyInv /\ [Next]_vars => FamilyInv'
    BY FamilyNext, Zenon
  <1>3. FamilyInv => NoLostChild
    BY Zenon DEF FamilyInv
  <1> QED
    BY <1>1, <1>2, <1>3, SwitchInvHolds, PTL DEF Spec
=============================================================================
