----------------------------- MODULE SleepLock -----------------------------
(***************************************************************************)
(* The sleep-locks of src/sleeplock.c: long-term locks whose waiters give  *)
(* up the CPU.  A spinlock lk protects the two fields of the lock; a       *)
(* waiter passes lk to sleep(), which releases it under ptable.lock, and a *)
(* kill() may wake it before the lock is free.                             *)
(***************************************************************************)
EXTENDS Naturals

CONSTANTS
    Proc,   \* processes, which stand for their pids too
    NoProc  \* pid 0

ASSUME SleepLockAssumption == NoProc \notin Proc

VARIABLES
    lk,      \* the process that holds the spinlock lk->lk
    locked,  \* lk->locked
    pid,     \* lk->pid
    pc       \* where each process is

vars == <<lk, locked, pid, pc>>

PCs == {"out", "while", "sleep", "sleeping", "relock", "in", "wakeup"}

TypeOK ==
    /\ lk \in Proc \cup {NoProc}
    /\ locked \in BOOLEAN
    /\ pid \in Proc \cup {NoProc}
    /\ pc \in [Proc -> PCs]

\* initsleeplock()
Init ==
    /\ lk = NoProc
    /\ locked = FALSE
    /\ pid = NoProc
    /\ pc = [p \in Proc |-> "out"]

acquire(p) == lk = NoProc /\ lk' = p

release(p) == lk = p /\ lk' = NoProc
-----------------------------------------------------------------------------
(* acquiresleep() *)

acquiresleep(p) ==
    /\ pc[p] = "out"
    /\ acquire(p)
    /\ pc' = [pc EXCEPT ![p] = "while"]
    /\ UNCHANGED <<locked, pid>>

\* Mutant: a process that was woken does not test locked again.
take_untested(p) ==
    /\ pc[p] = "while"
    /\ locked' = TRUE
    /\ pid' = p
    /\ release(p)
    /\ pc' = [pc EXCEPT ![p] = "in"]

\* The loop ends: the lock is free.
take(p) ==
    /\ pc[p] = "while"
    /\ ~locked
    /\ locked' = TRUE
    /\ pid' = p
    /\ release(p)
    /\ pc' = [pc EXCEPT ![p] = "in"]

\* The test of the loop succeeds.
test(p) ==
    /\ pc[p] = "while"
    /\ locked
    /\ pc' = [pc EXCEPT ![p] = "sleep"]
    /\ UNCHANGED <<lk, locked, pid>>

\* sleep(lk, &lk->lk) up to sched(), under ptable.lock.
sleep(p) ==
    /\ pc[p] = "sleep"
    /\ release(p)
    /\ pc' = [pc EXCEPT ![p] = "sleeping"]
    /\ UNCHANGED <<locked, pid>>

\* kill() makes a sleeping process runnable.
kill(p) ==
    /\ pc[p] = "sleeping"
    /\ pc' = [pc EXCEPT ![p] = "relock"]
    /\ UNCHANGED <<lk, locked, pid>>

\* The end of sleep().
relock(p) ==
    /\ pc[p] = "relock"
    /\ acquire(p)
    /\ pc' = [pc EXCEPT ![p] = "while"]
    /\ UNCHANGED <<locked, pid>>
-----------------------------------------------------------------------------
(* releasesleep() and holdingsleep() *)

releasesleep(p) ==
    /\ pc[p] = "in"
    /\ acquire(p)
    /\ locked' = FALSE
    /\ pid' = NoProc
    /\ pc' = [pc EXCEPT ![p] = "wakeup"]

\* Mutant: nobody is woken.
wakeup_nobody(p) ==
    /\ pc[p] = "wakeup"
    /\ release(p)
    /\ pc' = [pc EXCEPT ![p] = "out"]
    /\ UNCHANGED <<locked, pid>>

\* wakeup(lk) under ptable.lock, and release(&lk->lk).
wakeup(p) ==
    /\ pc[p] = "wakeup"
    /\ release(p)
    /\ pc' = [q \in Proc |-> IF q = p THEN "out"
                             ELSE IF pc[q] = "sleeping" THEN "relock" ELSE pc[q]]
    /\ UNCHANGED <<locked, pid>>

\* What holdingsleep() returns to p, which runs it under lk.
holdingsleep(p) == locked /\ pid = p
-----------------------------------------------------------------------------
Kernel(p) ==
    \/ take(p) \/ test(p) \/ sleep(p) \/ relock(p) \/ releasesleep(p)
    \/ wakeup(p)

Next == \E p \in Proc : acquiresleep(p) \/ kill(p) \/ Kernel(p)

Spec == Init /\ [][Next]_vars

\* A process that can run does run; one that spins for lk gets it at last,
\* and every section that holds the lock is finite.
Fairness ==
    \A p \in Proc : WF_vars(Kernel(p)) /\ SF_vars(relock(p) \/ releasesleep(p))

FairSpec == Spec /\ Fairness
-----------------------------------------------------------------------------
(* Properties *)

Owners == {p \in Proc : pc[p] = "in"}

Abs == INSTANCE Mutex WITH
    owner <- IF Owners = {} THEN NoProc ELSE CHOOSE p \in Owners : TRUE

\* acquiresleep() and releasesleep() implement a lock: it passes from one
\* owner to the next only through its release.
IsMutex == Abs!MSpec

\* holdingsleep(), which bwrite(), brelse() and iderw() panic on, answers yes
\* to the owner and to nobody else, whenever lk lets it run.
HoldingExact ==
    lk = NoProc => \A p \in Proc : holdingsleep(p) <=> p \in Owners

\* No lost wakeup: while a process sleeps the lock is held, or its last owner
\* is about to call wakeup().
SleeperHasOwner ==
    (\E p \in Proc : pc[p] = "sleeping") =>
        \E q \in Proc : pc[q] \in {"in", "wakeup"}

\* A process that waits in acquiresleep() is always woken again.
SleeperWakes == \A p \in Proc : pc[p] = "sleeping" ~> pc[p] # "sleeping"
=============================================================================
