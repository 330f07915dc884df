-------------------------- MODULE SleepLockProofs --------------------------
(***************************************************************************)
(* Proofs about SleepLock, for any set of processes.                       *)
(***************************************************************************)
EXTENDS SleepLock, TLAPS

\* The spinlock is held exactly in the sections the code holds it in.
SpinInv == \A p \in Proc : lk = p <=> pc[p] \in {"while", "sleep", "wakeup"}

\* The two fields of the lock name the process that is past acquiresleep().
OwnerInv ==
    /\ \A p \in Proc : pc[p] = "in" <=> pid = p
    /\ locked <=> pid # NoProc

\* The test of acquiresleep() still holds when the process goes to sleep, and
\* while it sleeps the owner has still to call wakeup().
SleeperInv ==
    /\ \A p \in Proc : pc[p] = "sleep" => locked
    /\ (\E p \in Proc : pc[p] = "sleeping") =>
           locked \/ \E q \in Proc : pc[q] = "wakeup"

\* The inductive invariant of the sleep-lock: what acquiresleep() and
\* releasesleep() keep true between any two of their steps.
SleepLockInv == TypeOK /\ SpinInv /\ OwnerInv /\ SleeperInv

-----------------------------------------------------------------------------
\* initsleeplock() establishes the invariant.
LEMMA InvInit == Init => SleepLockInv
BY SleepLockAssumption
   DEF Init, SleepLockInv, TypeOK, PCs, SpinInv, OwnerInv, SleeperInv

\* Every step of acquiresleep(), releasesleep() and kill() keeps it.
LEMMA InvStep == SleepLockInv /\ [Next]_vars => SleepLockInv'
<1> SUFFICES ASSUME SleepLockInv, [Next]_vars
             PROVE  SleepLockInv'
    OBVIOUS
<1> USE SleepLockAssumption
        DEF SleepLockInv, TypeOK, PCs, SpinInv, OwnerInv, SleeperInv
<1>1. CASE UNCHANGED vars
    BY <1>1 DEF vars
<1>2. ASSUME NEW p \in Proc, acquiresleep(p)
      PROVE  SleepLockInv'
    BY <1>2 DEF acquiresleep, acquire
<1>3. ASSUME NEW p \in Proc, take(p)
      PROVE  SleepLockInv'
    BY <1>3 DEF take, release
<1>4. ASSUME NEW p \in Proc, test(p)
      PROVE  SleepLockInv'
    BY <1>4 DEF test
<1>5. ASSUME NEW p \in Proc, sleep(p)
      PROVE  SleepLockInv'
    BY <1>5 DEF sleep, release
<1>6. ASSUME NEW p \in Proc, kill(p)
      PROVE  SleepLockInv'
    BY <1>6 DEF kill
<1>7. ASSUME NEW p \in Proc, relock(p)
      PROVE  SleepLockInv'
    BY <1>7 DEF relock, acquire
<1>8. ASSUME NEW p \in Proc, releasesleep(p)
      PROVE  SleepLockInv'
    BY <1>8 DEF releasesleep, acquire
<1>9. ASSUME NEW p \in Proc, wakeup(p)
      PROVE  SleepLockInv'
    BY <1>9 DEF wakeup, release
<1> QED
    BY <1>1, <1>2, <1>3, <1>4, <1>5, <1>6, <1>7, <1>8, <1>9 DEF Next, Kernel

\* The sleep-lock always satisfies its inductive invariant.
THEOREM SleepLockInvariant == Spec => []SleepLockInv
BY InvInit, InvStep, PTL DEF Spec

\* holdingsleep() tells the owner from every other process.
THEOREM HoldingIsExact == Spec => []HoldingExact
<1>1. SleepLockInv => HoldingExact
    BY SleepLockAssumption
       DEF SleepLockInv, OwnerInv, HoldingExact, holdingsleep, Owners
<1> QED
    BY <1>1, SleepLockInvariant, PTL

\* acquiresleep() never sleeps through the wakeup() of the lock's release.
THEOREM NoSleeperForgotten == Spec => []SleeperHasOwner
<1>1. SleepLockInv => SleeperHasOwner
    BY SleepLockAssumption
       DEF SleepLockInv, TypeOK, OwnerInv, SleeperInv, SleeperHasOwner
<1> QED
    BY <1>1, SleepLockInvariant, PTL
-----------------------------------------------------------------------------
(* The sleep-lock implements Mutex. *)

\* Under the invariant the abstract owner is the pid the lock records.
LEMMA OwnerIsPid ==
    SleepLockInv => pid = IF Owners = {} THEN NoProc ELSE CHOOSE p \in Owners : TRUE
<1> SUFFICES ASSUME SleepLockInv
             PROVE  pid = IF Owners = {} THEN NoProc ELSE CHOOSE p \in Owners : TRUE
    OBVIOUS
<1>1. CASE pid = NoProc
    BY <1>1, SleepLockAssumption DEF SleepLockInv, OwnerInv, Owners
<1>2. CASE pid \in Proc
    <2>1. Owners = {pid}
        BY <1>2 DEF SleepLockInv, OwnerInv, Owners
    <2> QED
        BY <2>1
<1> QED
    BY <1>1, <1>2 DEF SleepLockInv, TypeOK

\* The lock passes from owner to owner only through releasesleep().
THEOREM SleepLockImplementsMutex == Spec => IsMutex
<1> DEFINE owner == IF Owners = {} THEN NoProc ELSE CHOOSE p \in Owners : TRUE
<1>1. Init => Abs!MInit
    BY DEF Init, Abs!MInit, Owners
<1>2. SleepLockInv /\ SleepLockInv' /\ [Next]_vars => [Abs!MNext]_owner
    <2> SUFFICES ASSUME SleepLockInv, SleepLockInv', [Next]_vars
                 PROVE  [Abs!MNext]_owner
        OBVIOUS
    <2>1. owner = pid
        BY OwnerIsPid
    <2>2. owner' = pid'
        <3>1. CASE pid' = NoProc
            BY <3>1, SleepLockAssumption DEF SleepLockInv, OwnerInv, Owners
        <3>2. CASE pid' \in Proc
            <4>1. Owners' = {pid'}
                BY <3>2 DEF SleepLockInv, OwnerInv, Owners
            <4> QED
                BY <4>1
        <3> QED
            BY <3>1, <3>2 DEF SleepLockInv, TypeOK
    <2> HIDE DEF owner
    <2>3. ASSUME NEW p \in Proc, take(p)
          PROVE  Abs!MAcquire(p)
        <3>1. pid = NoProc /\ pid' = p
            BY <2>3 DEF take, SleepLockInv, OwnerInv
        <3> QED
            BY <2>1, <2>2, <3>1 DEF Abs!MAcquire, owner
    <2>4. ASSUME NEW p \in Proc, releasesleep(p)
          PROVE  Abs!MRelease(p)
        <3>1. pid = p /\ pid' = NoProc
            BY <2>4 DEF releasesleep, SleepLockInv, OwnerInv
        <3> QED
            BY <2>1, <2>2, <3>1 DEF Abs!MRelease, owner
    <2>5. CASE UNCHANGED pid
        BY <2>1, <2>2, <2>5
    <2>6. UNCHANGED pid \/ \E p \in Proc : take(p) \/ releasesleep(p)
        BY DEF Next, Kernel, acquiresleep, test, sleep, kill, relock, wakeup, vars
    <2> QED
        BY <2>3, <2>4, <2>5, <2>6 DEF Abs!MNext
<1> QED
    BY <1>1, <1>2, SleepLockInvariant, PTL DEF Spec, IsMutex, Abs!MSpec
=============================================================================
