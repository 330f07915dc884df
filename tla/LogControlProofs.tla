-------------------------- MODULE LogControlProofs --------------------------
(***************************************************************************)
(* The inductive invariant of Log, and the steps of its proof that concern *)
(* who is where (types, calls, commits, buffers held) and the space in the *)
(* log: for every number of processes and blocks, every log size and       *)
(* reservation with RoomInLog.                                             *)
(***************************************************************************)
EXTENDS Log, FiniteSetTheorems, TLAPS

Committing(p) == pc[p] \in {"write_log", "write_head", "install_trans",
                            "clear_head", "committed"}

Injective(s) == \A i, j \in 1..Len(s) : s[i] = s[j] => i = j

\* Who is where: outstanding counts the calls in progress, and a commit is
\* made by one process, with no call in progress.
ControlInv ==
    /\ outstanding = Cardinality(InOps)
    /\ committing <=> \E p \in Proc : Committing(p)
    /\ \A p, q \in Proc : Committing(p) /\ Committing(q) => p = q
    /\ committing => \A p \in Proc : ~InOp(p)
    /\ boot # "up" => \A p \in Proc : pc[p] = "out"

HeldInv ==
    /\ \A p \in Proc : held[p] # NoBlock <=> pc[p] \in {"modified", "log_write"}
    /\ \A p, q \in Proc : held[p] = held[q] /\ held[p] # NoBlock => p = q

\* The blocks that the calls in progress may still add to the log.
Credits == {c \in Proc \X (1..OPBLOCKS) :
                InOp(c[1]) /\ c[2] > Cardinality(wrote[c[1]])}

LogBound == LOGSIZE - (MAXOPBLOCKS - OPBLOCKS)

SpaceInv ==
    /\ Len(lh) + Cardinality(Credits) <= LogBound
    /\ Len(dhead) <= LogBound
    /\ \A p \in Proc :
        /\ IsFiniteSet(wrote[p])
        /\ \A b \in wrote[p] : InOp(p) /\ Logged(lh, b)
        /\ Cardinality(wrote[p]) <= OPBLOCKS
        /\ held[p] # NoBlock =>
            held[p] \in wrote[p] \/ Cardinality(wrote[p]) < OPBLOCKS

\* Only a logged and pinned buffer, or one being modified, differs from its
\* home block.
CacheInv ==
    /\ Injective(lh)
    /\ Injective(dhead)
    /\ \A b \in dirty : Logged(lh, b)
    /\ \A b \in Block :
        cache[b] # home[b] => b \in dirty \/ \E p \in Proc : held[p] = b

\* What the disk holds at each step of commit().
CommitInv ==
    /\ boot = "up" /\ dhead # <<>> =>
        \E p \in Proc : pc[p] \in {"install_trans", "clear_head"}
    /\ boot = "up" /\ ~committing /\ outstanding = 0 => lh = <<>>
    /\ \A p \in Proc :
        /\ pc[p] \in {"write_log", "install_trans"} => tail \in 1..Len(lh)
        /\ pc[p] = "write_log" => \A i \in 1..(tail - 1) : dlog[i] = cache[lh[i]]
        /\ pc[p] = "write_head" =>
            /\ tail = 1
            /\ lh # <<>>
            /\ \A i \in 1..Len(lh) : dlog[i] = cache[lh[i]]
        /\ pc[p] = "install_trans" =>
            /\ dhead = lh
            /\ \A i \in 1..Len(lh) : dlog[i] = cache[lh[i]]
            /\ \A i \in 1..(tail - 1) : lh[i] \notin dirty
        /\ pc[p] = "clear_head" => \A i \in 1..Len(dhead) :
                                        dlog[i] = home[dhead[i]]
        /\ pc[p] \in {"clear_head", "committed"} => lh = <<>>

\* The same for recover_from_log().
BootInv ==
    /\ boot # "up" => cache = home /\ dirty = {}
    /\ boot = "read_head" => lh = <<>> /\ tail = 1
    /\ boot = "install_trans" =>
        /\ lh = dhead
        /\ tail \in 1..Len(lh)
        /\ \A i \in 1..(tail - 1) : home[lh[i]] = dlog[i]
    /\ boot = "clear_head" =>
        /\ lh = <<>>
        /\ \A i \in 1..Len(dhead) : dlog[i] = home[dhead[i]]

\* The inductive invariant.
LogInv ==
    /\ TypeOK
    /\ ControlInv
    /\ HeldInv
    /\ SpaceInv
    /\ CacheInv
    /\ CommitInv
    /\ BootInv
    /\ NoPanic
    /\ SleeperHasWaker
-----------------------------------------------------------------------------
USE LogAssumption

\* The arithmetic of the constants.
LEMMA Bound ==
    ASSUME RoomInLog
    PROVE  LogBound \in Int /\ LogBound < LOGSIZE /\ LogBound < NLOG - 1
BY DEF RoomInLog, LogBound

LEMMA FiniteCredits ==
    ASSUME NEW C \in SUBSET (Proc \X (1..OPBLOCKS))
    PROVE  IsFiniteSet(C) /\ Cardinality(C) \in Nat
<1>1. IsFiniteSet(1..OPBLOCKS)
  BY FS_Interval
<1>2. IsFiniteSet(Proc \X (1..OPBLOCKS))
  BY <1>1, FS_Product
<1> QED BY <1>2, FS_Subset, FS_CardinalityType

LEMMA CreditsFinite ==
    IsFiniteSet(Credits) /\ Cardinality(Credits) \in Nat
BY FiniteCredits DEF Credits

\* A log block that is read or written exists.
LEMMA TailInLog ==
    ASSUME RoomInLog, LogInv, tail \in 1..Len(lh)
    PROVE  tail \in 1..(NLOG - 1) /\ lh[tail] \in Block /\ dlog[tail] \in Val
<1>1. Len(lh) < NLOG - 1
  BY CreditsFinite, Bound DEF LogInv, SpaceInv, TypeOK
<1> QED BY <1>1 DEF LogInv, TypeOK

LEMMA InOpsFinite ==
    IsFiniteSet(InOps) /\ Cardinality(InOps) \in Nat
<1>1. InOps \in SUBSET Proc
  BY DEF InOps
<1> QED BY <1>1, FS_Subset, FS_CardinalityType

LEMMA InOpPositive ==
    ASSUME ControlInv, NEW p \in Proc, InOp(p)
    PROVE  outstanding >= 1
<1>1. InOps # {}
  BY DEF InOps
<1> QED BY <1>1, InOpsFinite, FS_EmptySet DEF ControlInv

LEMMA TypeStep ==
    ASSUME RoomInLog, LogInv, Next
    PROVE  TypeOK'
<1> USE DEF LogInv, TypeOK, PCs, disk, bufs
<1>0. <<>> \in Seq(Block)
  OBVIOUS
<1>1. ASSUME NEW p \in Proc, begin_op(p) PROVE TypeOK'
  <2>1. CASE committing \/ ~HasSpace
    BY <1>1, <2>1, Zenon DEF begin_op
  <2>2. CASE ~(committing \/ ~HasSpace)
    BY <1>1, <2>2 DEF begin_op
  <2> QED BY <2>1, <2>2
<1>2. ASSUME NEW p \in Proc, end_op(p) PROVE TypeOK'
  <2>1. outstanding - 1 \in Nat
    BY <1>2, InOpPositive DEF end_op, InOp
  <2>2. wrote' \in [Proc -> SUBSET Block]
    BY <1>2 DEF end_op
  <2>3. CASE committing
    BY <1>2, <2>1, <2>2, <2>3 DEF end_op
  <2>4. CASE ~committing
    BY ZenonT(30), <1>2, <2>1, <2>2, <2>4 DEF end_op, wakeup
  <2> QED BY <2>3, <2>4
<1>3. ASSUME NEW p \in Proc, end_commit(p) PROVE TypeOK'
  BY Zenon, <1>3 DEF end_commit, wakeup
<1>4. ASSUME NEW p \in Proc, log_write_checks(p) PROVE TypeOK'
  BY Zenon, <1>4 DEF log_write_checks
<1>5. ASSUME NEW p \in Proc, log_write(p) PROVE TypeOK'
  <2>1. held[p] \in Block
    BY <1>5 DEF log_write, HeldInv
  <2>2. lh' \in Seq(Block)
    BY <1>5, <2>1 DEF log_write
  <2> QED BY <1>5, <2>1, <2>2 DEF log_write
<1>6. ASSUME NEW p \in Proc, write_log(p) PROVE TypeOK'
  <2>1. tail \in 1..Len(lh)
    BY <1>6 DEF write_log, CommitInv
  <2>2. lh[tail] \in Block
    BY <2>1
  <2>3. dlog' \in [1..(NLOG - 1) -> Val]
    BY Zenon, <1>6, <2>2 DEF write_log
  <2> QED BY <1>6, <2>1, <2>3 DEF write_log
<1>7. ASSUME NEW p \in Proc, commit_head(p) PROVE TypeOK'
  BY <1>7 DEF commit_head, write_head
<1>8. ASSUME NEW p \in Proc, commit_install(p) PROVE TypeOK'
  <2>1. tail \in 1..Len(lh)
    BY <1>8 DEF commit_install, CommitInv
  <2>2. lh[tail] \in Block /\ dlog[tail] \in Val
    BY <2>1, TailInLog, Zenon
  <2>3. /\ home' \in [Block -> Val] /\ cache' \in [Block -> Val]
        /\ dirty' \in SUBSET Block
    BY <1>8, <2>2 DEF commit_install, install_block
  <2>4. lh' \in Seq(Block) /\ tail' \in Nat
    <3>1. CASE tail < Len(lh)
      BY <1>8, <3>1 DEF commit_install
    <3>2. CASE ~(tail < Len(lh))
      BY <1>0, <1>8, <3>2 DEF commit_install
    <3> QED BY <3>1, <3>2
  <2> QED BY <1>8, <2>3, <2>4, Zenon DEF commit_install, install_block
<1>9. ASSUME NEW p \in Proc, clear_head(p) PROVE TypeOK'
  BY <1>9 DEF clear_head, write_head
<1>10. ASSUME NEW p \in Proc, NEW b \in Block, NEW v \in Val, modify(p, b, v)
       PROVE  TypeOK'
  BY <1>10 DEF modify
<1>11. ASSUME NEW b \in Block, recycle(b) PROVE TypeOK'
  BY <1>11 DEF recycle
<1>12. CASE read_head
  BY <1>12 DEF read_head
<1>13. CASE recover_install
  <2>1. tail \in 1..Len(lh)
    BY <1>13 DEF recover_install, BootInv
  <2>2. lh[tail] \in Block /\ dlog[tail] \in Val
    BY <2>1, TailInLog
  <2>3. /\ home' \in [Block -> Val] /\ cache' \in [Block -> Val]
        /\ dirty' \in SUBSET Block
    BY <1>13, <2>2 DEF recover_install, install_block
  <2>4. lh' \in Seq(Block) /\ tail' \in Nat
    <3>1. CASE tail < Len(lh)
      BY <1>13, <3>1 DEF recover_install
    <3>2. CASE ~(tail < Len(lh))
      BY <1>0, <1>13, <3>2 DEF recover_install
    <3> QED BY <3>1, <3>2
  <2> QED BY <1>13, <2>3, <2>4, Zenon DEF recover_install, install_block
<1>14. CASE recover_clear
  BY <1>14 DEF recover_clear, write_head
<1>15. CASE crash
  <2>1. wrote' \in [Proc -> SUBSET Block]
    BY <1>15 DEF crash
  <2> QED BY Zenon, <1>0, <1>15, <2>1 DEF crash
<1> QED
  BY Zenon, <1>1, <1>2, <1>3, <1>4, <1>5, <1>6, <1>7, <1>8, <1>9, <1>10, <1>11, <1>12,
     <1>13, <1>14, <1>15
  DEF Next, Step, commit, recover_from_log

\* A step that moves p within its call, or outside of it, keeps the count.
LEMMA SameInOps ==
    ASSUME TypeOK, ControlInv, NEW p \in Proc, NEW l \in PCs,
           pc' = [pc EXCEPT ![p] = l],
           InOp(p) <=> l \in {"op", "modified", "log_write"},
           UNCHANGED outstanding
    PROVE  outstanding' = Cardinality(InOps')
<1>1. InOps' = InOps
  BY DEF InOps, InOp, TypeOK
<1> QED BY <1>1 DEF ControlInv

LEMMA ControlStep ==
    ASSUME LogInv, Next
    PROVE  ControlInv'
<1> USE DEF Running, TypeOK, InOp, Committing, disk, bufs
<1>0. TypeOK /\ ControlInv
  BY DEF LogInv
<1>1. ASSUME NEW p \in Proc, begin_op(p) PROVE ControlInv'
  <2>1. CASE committing \/ ~HasSpace
    <3>1. outstanding' = Cardinality(InOps')
      BY <1>0, <1>1, <2>1, SameInOps, Zenon DEF begin_op, PCs
    <3> QED BY <1>0, <1>1, <2>1, <3>1 DEF begin_op, ControlInv
  <2>2. CASE ~committing /\ HasSpace
    <3>1. InOps' = InOps \cup {p} /\ p \notin InOps
      BY <1>0, <1>1, <2>2 DEF begin_op, InOps
    <3>2. outstanding' = Cardinality(InOps')
      BY Zenon, <1>0, <1>1, <2>2, <3>1, InOpsFinite, FS_AddElement
      DEF begin_op, ControlInv
    <3> QED BY <1>0, <1>1, <2>2, <3>2 DEF begin_op, ControlInv
  <2> QED BY <2>1, <2>2
<1>2. ASSUME NEW p \in Proc, end_op(p) PROVE ControlInv'
  <2>1. ~committing
    BY <1>0, <1>2 DEF end_op, ControlInv
  <2>2. InOps' = InOps \ {p} /\ p \in InOps
    BY <1>0, <1>2, <2>1 DEF end_op, InOps, wakeup
  <2>3. outstanding' = Cardinality(InOps')
    BY Zenon, <1>0, <1>2, <2>2, InOpsFinite, FS_RemoveElement DEF end_op, ControlInv
  <2>4. CASE outstanding = 1
    <3>1. InOps' = {}
      <4>1. Cardinality(InOps') = 0
        BY <1>2, <2>3, <2>4 DEF end_op
      <4>2. IsFiniteSet(InOps')
        BY <2>2, InOpsFinite, FS_RemoveElement
      <4> QED BY <4>1, <4>2, FS_EmptySet
    <3> QED BY <1>0, <1>2, <2>1, <2>3, <2>4, <3>1
            DEF end_op, ControlInv, InOps
  <2>5. CASE outstanding # 1
    BY ZenonT(30), <1>0, <1>2, <2>1, <2>3, <2>5 DEF end_op, ControlInv, wakeup
  <2> QED BY <2>4, <2>5
<1>3. ASSUME NEW p \in Proc, end_commit(p) PROVE ControlInv'
  <2>1. InOps' = InOps
    BY <1>0, <1>3 DEF end_commit, wakeup, InOps
  <2> QED BY <1>0, <1>3, <2>1 DEF end_commit, wakeup, ControlInv
<1>4. ASSUME NEW p \in Proc, NEW l \in PCs, pc' = [pc EXCEPT ![p] = l],
             InOp(p) <=> l \in {"op", "modified", "log_write"},
             Committing(p) <=> l \in {"write_log", "write_head",
                 "install_trans", "clear_head", "committed"},
             boot = "up", UNCHANGED <<outstanding, committing, boot>>
      PROVE  ControlInv'
  <2>1. outstanding' = Cardinality(InOps')
    BY Zenon, <1>0, <1>4, SameInOps
  <2> QED BY <1>0, <1>4, <2>1 DEF ControlInv
<1>5. ASSUME UNCHANGED <<pc, outstanding, committing>>,
             boot = "up" => boot' = "up"
      PROVE  ControlInv'
  BY <1>0, <1>5 DEF ControlInv, InOps
<1>6. ASSUME NEW p \in Proc, log_write_checks(p) PROVE ControlInv'
  BY <1>0, <1>4, <1>5, <1>6 DEF log_write_checks, PCs
<1>7. ASSUME NEW p \in Proc, log_write(p) PROVE ControlInv'
  BY Zenon, <1>0, <1>4, <1>7 DEF log_write, PCs
<1>8. ASSUME NEW p \in Proc, write_log(p) PROVE ControlInv'
  BY <1>0, <1>4, <1>5, <1>8, Zenon DEF write_log, PCs
<1>9. ASSUME NEW p \in Proc, commit_head(p) PROVE ControlInv'
  BY Zenon, <1>0, <1>4, <1>9 DEF commit_head, PCs
<1>10. ASSUME NEW p \in Proc, commit_install(p) PROVE ControlInv'
  BY <1>0, <1>4, <1>5, <1>10, Zenon DEF commit_install, PCs
<1>11. ASSUME NEW p \in Proc, clear_head(p) PROVE ControlInv'
  BY Zenon, <1>0, <1>4, <1>11 DEF clear_head, PCs
<1>12. ASSUME NEW p \in Proc, NEW b \in Block, NEW v \in Val, modify(p, b, v)
       PROVE  ControlInv'
  BY Zenon, <1>0, <1>4, <1>12 DEF modify, PCs
<1>13. ASSUME NEW b \in Block, recycle(b) PROVE ControlInv'
  BY <1>5, <1>13, Zenon DEF recycle
<1>14. CASE recover_from_log
  BY <1>5, <1>14 DEF recover_from_log, read_head, recover_install, recover_clear
<1>15. CASE crash
  <2>1. InOps' = {}
    BY <1>15 DEF crash, InOps
  <2> QED BY Zenon, <1>15, <2>1, FS_EmptySet DEF crash, ControlInv, InOps
<1> QED
  BY <1>1, <1>2, <1>3, <1>6, <1>7, <1>8, <1>9, <1>10, <1>11, <1>12, <1>13,
     <1>14, <1>15
  DEF Next, Step, commit

LEMMA HeldStep ==
    ASSUME LogInv, Next
    PROVE  HeldInv'
<1> USE DEF Running, TypeOK, HeldInv, disk, bufs
<1>0. TypeOK /\ ControlInv /\ HeldInv
  BY DEF LogInv
<1>1. ASSUME NEW p \in Proc, begin_op(p) PROVE HeldInv'
  BY Zenon, <1>0, <1>1 DEF begin_op
<1>2. ASSUME NEW p \in Proc, end_op(p) PROVE HeldInv'
  BY <1>0, <1>2 DEF end_op, wakeup
<1>3. ASSUME NEW p \in Proc, end_commit(p) PROVE HeldInv'
  BY <1>0, <1>3 DEF end_commit, wakeup
<1>4. ASSUME NEW p \in Proc, log_write_checks(p) PROVE HeldInv'
  BY <1>0, <1>4 DEF log_write_checks
<1>5. ASSUME NEW p \in Proc, log_write(p) PROVE HeldInv'
  BY <1>0, <1>5 DEF log_write
<1>6. ASSUME NEW p \in Proc, commit(p) PROVE HeldInv'
  <2>1. held' = held
    BY <1>6, Zenon DEF commit, write_log, commit_head, commit_install, install_block,
                       clear_head
  <2>2. /\ pc[p] \notin {"modified", "log_write"} /\ pc'[p] \notin {"modified", "log_write"}
        /\ \A q \in Proc \ {p} : pc'[q] = pc[q]
    <3>1. CASE write_log(p)
      BY <1>0, <3>1, Zenon DEF write_log
    <3>2. CASE commit_head(p)
      BY <1>0, <3>2, Zenon DEF commit_head
    <3>3. CASE commit_install(p)
      BY <1>0, <3>3, Zenon DEF commit_install
    <3>4. CASE clear_head(p)
      BY <1>0, <3>4, Zenon DEF clear_head
    <3> QED BY <1>6, <3>1, <3>2, <3>3, <3>4, Zenon DEF commit
  <2> QED BY <1>0, <2>1, <2>2, Zenon
<1>7. ASSUME NEW p \in Proc, NEW b \in Block, NEW v \in Val, modify(p, b, v)
      PROVE  HeldInv'
  BY <1>0, <1>7 DEF modify
<1>8. ASSUME NEW b \in Block, recycle(b) PROVE HeldInv'
  BY <1>0, <1>8 DEF recycle
<1>9. CASE recover_from_log
  BY <1>0, <1>9 DEF recover_from_log, read_head, recover_install,
                    install_block, recover_clear
<1>10. CASE crash
  BY <1>10 DEF crash
<1> QED
  BY <1>1, <1>2, <1>3, <1>4, <1>5, <1>6, <1>7, <1>8, <1>9, <1>10, Zenon DEF Next, Step

-----------------------------------------------------------------------------
(* The space in the log *)

\* The credits depend on pc and wrote only.
LEMMA FewerCredits ==
    ASSUME \A p \in Proc : InOp(p)' => InOp(p), UNCHANGED wrote
    PROVE  Cardinality(Credits') <= Cardinality(Credits)
<1>1. Credits' \in SUBSET Credits
  BY DEF Credits
<1> QED BY <1>1, CreditsFinite, FS_Subset

LEMMA Shares ==
    ASSUME NEW k \in Nat, NEW m \in Nat, NEW o \in 0..m
    PROVE  /\ k * m \in Nat
           /\ k * o \in Nat
           /\ (k + 1) * o <= (k + 1) * m - (m - o)
<1>1. k * (m - o) >= 0 /\ k * m \in Nat /\ k * o \in Nat
  OBVIOUS
<1>2. (k + 1) * m - (k + 1) * o = k * (m - o) + (m - o)
  OBVIOUS
<1> QED BY <1>1, <1>2

\* The calls that begin_op() has admitted find room for OPBLOCKS blocks each.
LEMMA AdmittedFits ==
    ASSUME LogInv, NEW p \in Proc, begin_op(p), ~committing, HasSpace
    PROVE  Len(lh) + Cardinality(Credits') <= LogBound
<1> DEFINE S == InOps \cup {p}
<1>1. IsFiniteSet(S) /\ Cardinality(S) = outstanding + 1
  <2>1. p \notin InOps
    BY DEF begin_op, InOps, InOp
  <2> QED BY <2>1, InOpsFinite, FS_AddElement, Zenon DEF LogInv, ControlInv
<1>2. IsFiniteSet(1..OPBLOCKS) /\ Cardinality(1..OPBLOCKS) = OPBLOCKS
  BY FS_Interval
<1>3. /\ IsFiniteSet(S \X (1..OPBLOCKS))
      /\ Cardinality(S \X (1..OPBLOCKS)) = (outstanding + 1) * OPBLOCKS
  BY ZenonT(30), <1>1, <1>2, FS_Product
<1>4. Credits' \in SUBSET (S \X (1..OPBLOCKS))
  BY DEF Credits, InOps, InOp, begin_op, LogInv, TypeOK
<1>5. Cardinality(Credits') <= (outstanding + 1) * OPBLOCKS
  BY <1>3, <1>4, FS_Subset
<1>6. /\ outstanding \in Nat
      /\ Len(lh) \in Nat
      /\ Cardinality(Credits') \in Nat
  BY <1>3, <1>4, FS_Subset, FS_CardinalityType DEF LogInv, TypeOK
<1>7. (outstanding + 1) * OPBLOCKS
        <= (outstanding + 1) * MAXOPBLOCKS - (MAXOPBLOCKS - OPBLOCKS)
  BY <1>6, Shares
<1>8. (outstanding + 1) * OPBLOCKS \in Nat
  BY <1>6, Shares
<1>9. (outstanding + 1) * MAXOPBLOCKS \in Nat
  BY <1>6, Shares
<1> QED BY <1>5, <1>6, <1>7, <1>8, <1>9 DEF HasSpace, LogBound

\* A call that logs a new block spends one of its credits.
LEMMA CreditSpent ==
    ASSUME LogInv, NEW p \in Proc, log_write(p)
    PROVE  /\ IsFiniteSet(wrote'[p])
           /\ Cardinality(wrote'[p]) <= OPBLOCKS
           /\ Cardinality(Credits') <= Cardinality(Credits)
           /\ ~Logged(lh, held[p]) =>
                Cardinality(Credits') <= Cardinality(Credits) - 1
<1> DEFINE b == held[p]
<1> DEFINE c == <<p, Cardinality(wrote[p]) + 1>>
<1>1. wrote' = [wrote EXCEPT ![p] = @ \cup {b}] /\ InOp(p)
  BY DEF log_write, InOp
<1>2. /\ IsFiniteSet(wrote[p])
      /\ Cardinality(wrote[p]) \in Nat
      /\ Cardinality(wrote[p]) <= OPBLOCKS
      /\ b \in wrote[p] \/ Cardinality(wrote[p]) < OPBLOCKS
  BY FS_CardinalityType, Zenon DEF LogInv, SpaceInv, HeldInv, log_write
<1>3. /\ IsFiniteSet(wrote[p] \cup {b})
      /\ Cardinality(wrote[p] \cup {b}) =
           IF b \in wrote[p] THEN Cardinality(wrote[p])
                             ELSE Cardinality(wrote[p]) + 1
  BY Zenon, <1>2, FS_AddElement
<1>4. wrote'[p] = wrote[p] \cup {b}
  BY <1>1 DEF LogInv, TypeOK
<1>5. \A q \in Proc : InOp(q)' <=> InOp(q)
  BY DEF log_write, InOp, LogInv, TypeOK
<1>6. Credits' \in SUBSET Credits
  BY <1>1, <1>2, <1>3, <1>4, <1>5 DEF Credits, LogInv, TypeOK
<1>7. Cardinality(Credits') <= Cardinality(Credits)
  BY <1>6, CreditsFinite, FS_Subset
<1>8. ASSUME ~Logged(lh, b)
      PROVE  Cardinality(Credits') <= Cardinality(Credits) - 1
  <2>1. b \notin wrote[p]
    BY <1>8 DEF LogInv, SpaceInv
  <2>2. c \in Credits
    BY <1>1, <1>2, <2>1 DEF Credits
  <2>3. c \notin Credits'
    <3>1. Cardinality(wrote'[p]) = Cardinality(wrote[p]) + 1
      BY <1>3, <1>4, <2>1
    <3>2. ~(c[2] > Cardinality(wrote'[p])) /\ c[1] = p
      BY <3>1, <1>2
    <3> HIDE DEF c
    <3> QED BY <3>2 DEF Credits
  <2>4. Credits' \in SUBSET (Credits \ {c})
    BY <1>6, <2>3
  <2>5. IsFiniteSet(Credits \ {c}) /\
        Cardinality(Credits \ {c}) = Cardinality(Credits) - 1
    BY <2>2, CreditsFinite, FS_RemoveElement
  <2> QED BY <2>4, <2>5, FS_Subset
<1> QED BY <1>2, <1>3, <1>4, <1>7, <1>8

\* What log_write() appends stays in the log, in a new place.
LEMMA AppendLogged ==
    ASSUME NEW s \in Seq(Block), NEW b \in Block
    PROVE  /\ Len(Append(s, b)) = Len(s) + 1
           /\ \A i \in 1..Len(s) : Append(s, b)[i] = s[i]
           /\ Append(s, b)[Len(s) + 1] = b
           /\ \A x : Logged(Append(s, b), x) <=> Logged(s, x) \/ x = b
<1>1. /\ Len(Append(s, b)) = Len(s) + 1
      /\ \A i \in 1..Len(s) : Append(s, b)[i] = s[i]
      /\ Append(s, b)[Len(s) + 1] = b
      /\ Len(s) \in Nat
  OBVIOUS
<1> QED BY <1>1 DEF Logged

LEMMA EmptyLog == Len(<<>>) = 0 /\ \A b : ~Logged(<<>>, b)
BY DEF Logged

\* A step that leaves the log and what each call wrote alone keeps the space,
\* if a buffer it takes is one that its call may still log.
LEMMA SpaceKept ==
    ASSUME RoomInLog, TypeOK, SpaceInv, UNCHANGED <<lh, dhead, wrote>>,
           \A p \in Proc : InOp(p)' <=> InOp(p),
           \A p \in Proc : held'[p] # NoBlock =>
               held'[p] \in wrote[p] \/ Cardinality(wrote[p]) < OPBLOCKS
    PROVE  SpaceInv'
<1>1. Cardinality(Credits') <= Cardinality(Credits)
  BY FewerCredits, Zenon
<1>2. Cardinality(Credits') \in Nat
  BY FiniteCredits, Zenon DEF Credits
<1>3. Len(lh) \in Nat /\ Len(lh) + Cardinality(Credits) <= LogBound
  <2>1. lh \in Seq(Block)
    BY Zenon DEF TypeOK
  <2>2. Len(lh) + Cardinality(Credits) <= LogBound
    BY Zenon DEF SpaceInv
  <2> QED BY <2>1, <2>2
<1>4. Len(lh') + Cardinality(Credits') <= LogBound
  <2>1. lh' = lh
    OBVIOUS
  <2> QED BY <1>1, <1>2, <1>3, <2>1, CreditsFinite, Bound
<1>5. \A b : Logged(lh, b)' <=> Logged(lh, b)
  BY Zenon
<1> QED BY <1>4, <1>5, Zenon DEF SpaceInv

LEMMA SpaceStep ==
    ASSUME RoomInLog, LogInv, Next
    PROVE  SpaceInv'
<1> USE DEF Running, disk, bufs
<1>0. TypeOK /\ ControlInv /\ HeldInv /\ SpaceInv
  BY Zenon DEF LogInv
<1>a. /\ Cardinality(Credits) \in Nat /\ Cardinality(Credits') \in Nat
      /\ LogBound \in Int /\ Len(lh) \in Nat /\ Len(dhead) \in Nat
  <2>1. Cardinality(Credits') \in Nat
    BY FiniteCredits DEF Credits
  <2> QED BY <2>1, Bound, CreditsFinite DEF LogInv, TypeOK
<1>b. Len(lh) + Cardinality(Credits) <= LogBound /\ Len(dhead) <= LogBound
  BY <1>0, Zenon DEF SpaceInv
<1>c. \A q \in Proc : held[q] # NoBlock =>
          held[q] \in wrote[q] \/ Cardinality(wrote[q]) < OPBLOCKS
  BY <1>0, Zenon DEF SpaceInv
<1>1. ASSUME NEW p \in Proc, begin_op(p) PROVE SpaceInv'
  <2>1. CASE committing \/ ~HasSpace
    <3>1. \A q \in Proc : InOp(q)' <=> InOp(q)
      BY <1>0, <1>1, <2>1, Zenon DEF begin_op, InOp, TypeOK
    <3>2. UNCHANGED <<lh, dhead, wrote, held>>
      BY <1>1, Zenon DEF begin_op
    <3> QED BY <1>0, <1>c, <3>1, <3>2, SpaceKept, Zenon
  <2>2. CASE ~committing /\ HasSpace
    <3>1. Len(lh) + Cardinality(Credits') <= LogBound
      BY <1>1, <2>2, AdmittedFits
    <3> QED BY <1>0, <1>1, <2>2, <3>1, Zenon DEF begin_op, SpaceInv, InOp, TypeOK
  <2> QED BY <2>1, <2>2
<1>2. ASSUME NEW p \in Proc, end_op(p) PROVE SpaceInv'
  <2>0. ~committing
    BY <1>0, <1>2 DEF end_op, ControlInv, InOp
  <2>1. Credits' \in SUBSET Credits
    <3>1. \A q \in Proc : InOp(q)' => InOp(q) /\ q # p
      BY <1>0, <1>2, <2>0, Zenon DEF end_op, wakeup, InOp, TypeOK
    <3>2. \A q \in Proc : q # p => wrote'[q] = wrote[q]
      BY <1>0, <1>2 DEF end_op, TypeOK
    <3> QED BY <3>1, <3>2, Zenon DEF Credits
  <2>2. Cardinality(Credits') <= Cardinality(Credits)
    BY <2>1, CreditsFinite, FS_Subset
  <2>3. IsFiniteSet({}) /\ Cardinality({}) = 0
    BY FS_EmptySet
  <2>4. \A q \in Proc \ {p} : InOp(q) => InOp(q)'
    BY <1>0, <1>2, Zenon DEF end_op, wakeup, InOp, TypeOK
  <2>5. held[p] = NoBlock
    BY <1>0, <1>2, Zenon DEF end_op, HeldInv
  <2>6. /\ UNCHANGED <<lh, dhead, held>> /\ wrote'[p] = {}
        /\ \A q \in Proc \ {p} : wrote'[q] = wrote[q]
    BY <1>0, <1>2, Zenon DEF end_op, TypeOK
  <2>7. Len(lh') + Cardinality(Credits') <= LogBound /\ Len(dhead') <= LogBound
    BY <1>a, <1>b, <2>2, <2>6
  <2>8. 0 <= OPBLOCKS
    OBVIOUS
  <2>9. ASSUME NEW q \in Proc
        PROVE  /\ IsFiniteSet(wrote'[q])
               /\ \A b \in wrote'[q] : InOp(q)' /\ Logged(lh, b)'
               /\ Cardinality(wrote'[q]) <= OPBLOCKS
               /\ held'[q] # NoBlock =>
                      held'[q] \in wrote'[q] \/ Cardinality(wrote'[q]) < OPBLOCKS
    <3>1. CASE q = p
      BY <2>3, <2>5, <2>6, <2>8, <3>1, Zenon
    <3>2. CASE q # p
      BY <1>0, <2>4, <2>6, <3>2, Zenon DEF SpaceInv
    <3> QED BY <3>1, <3>2, Zenon
  <2> QED BY <2>7, <2>9, Zenon DEF SpaceInv
<1>3. ASSUME NEW p \in Proc, end_commit(p) PROVE SpaceInv'
  <2>1. \A q \in Proc : InOp(q)' <=> InOp(q)
    BY <1>0, <1>3, Zenon DEF end_commit, wakeup, InOp, TypeOK
  <2>2. UNCHANGED <<lh, dhead, wrote, held>>
    BY <1>3, Zenon DEF end_commit
  <2> QED BY <1>0, <1>c, <2>1, <2>2, SpaceKept, Zenon
<1>4. ASSUME NEW p \in Proc, log_write_checks(p) PROVE SpaceInv'
  <2>1. \A q \in Proc : InOp(q)' <=> InOp(q)
    BY <1>0, <1>4, Zenon DEF log_write_checks, InOp, TypeOK
  <2>2. UNCHANGED <<lh, dhead, wrote, held>>
    BY <1>4, Zenon DEF log_write_checks
  <2> QED BY <1>0, <1>c, <2>1, <2>2, SpaceKept, Zenon
<1>5. ASSUME NEW p \in Proc, log_write(p) PROVE SpaceInv'
  <2>1. held[p] \in Block
    BY <1>0, <1>5, Zenon DEF log_write, HeldInv, TypeOK
  <2>2. \A q \in Proc : InOp(q)' <=> InOp(q)
    BY <1>0, <1>5, Zenon DEF log_write, InOp, TypeOK
  <2>3. \A b : Logged(lh', b) <=> Logged(lh, b) \/ b = held[p]
    BY <1>0, <1>5, <2>1, AppendLogged, ZenonT(30) DEF log_write, TypeOK
  <2>4. Len(lh') + Cardinality(Credits') <= LogBound
    <3>1. Len(lh) + Cardinality(Credits) <= LogBound
      BY <1>0, Zenon DEF SpaceInv
    <3>2. CASE Logged(lh, held[p])
      <4>1. Cardinality(Credits') <= Cardinality(Credits)
        BY <1>5, CreditSpent
      <4>2. lh' = lh
        BY <1>5, <3>2 DEF log_write
      <4> QED BY <1>a, <3>1, <4>1, <4>2
    <3>3. CASE ~Logged(lh, held[p])
      <4>1. Len(lh') = Len(lh) + 1
        BY <1>0, <1>5, <2>1, <3>3, AppendLogged, Zenon DEF log_write, TypeOK
      <4>2. Cardinality(Credits') <= Cardinality(Credits) - 1
        BY <1>5, <3>3, CreditSpent, Zenon
      <4> QED BY <1>a, <3>1, <4>1, <4>2
    <3> QED BY <3>2, <3>3
  <2>5. ASSUME NEW q \in Proc
        PROVE  /\ IsFiniteSet(wrote'[q])
               /\ Cardinality(wrote'[q]) <= OPBLOCKS
    BY Zenon, <1>0, <1>5, <2>5, CreditSpent DEF log_write, SpaceInv, TypeOK
  <2>6. ASSUME NEW q \in Proc, NEW b \in wrote'[q]
        PROVE  InOp(q)' /\ Logged(lh, b)'
    BY <1>0, <1>5, <2>2, <2>3, <2>6, Zenon DEF log_write, SpaceInv, TypeOK, InOp
  <2>7. ASSUME NEW q \in Proc, held'[q] # NoBlock
        PROVE  held'[q] \in wrote'[q] \/ Cardinality(wrote'[q]) < OPBLOCKS
    BY <1>0, <1>5, <2>7, Zenon DEF log_write, SpaceInv, TypeOK
  <2> QED BY Zenon, <1>0, <1>5, <2>4, <2>5, <2>6, <2>7 DEF log_write, SpaceInv
<1>6. ASSUME NEW p \in Proc, commit(p) PROVE SpaceInv'
  <2>1. \A q \in Proc : ~InOp(q) /\ ~InOp(q)'
    BY <1>0, <1>6, Zenon DEF commit, write_log, commit_head, commit_install, clear_head,
                      InOp, TypeOK, ControlInv, Committing
  <2>2. Cardinality(Credits') <= Cardinality(Credits)
    BY <1>6, <2>1, FewerCredits, Zenon
    DEF commit, write_log, commit_head, commit_install, clear_head
  <2>3. Len(lh') <= Len(lh) /\ Len(dhead') <= LogBound /\ Len(lh') \in Nat
    <3>1. CASE write_log(p)
      <4>1. lh' = lh /\ dhead' = dhead
        BY <3>1 DEF write_log
      <4> QED BY <1>a, <1>b, <4>1
    <3>2. CASE commit_head(p) \/ clear_head(p)
      <4>1. Len(lh) <= LogBound
        BY <1>a, <1>b
      <4>2. lh' = lh /\ dhead' = lh
        BY <3>2 DEF commit_head, clear_head, write_head
      <4> QED BY <1>a, <4>1, <4>2
    <3>3. CASE commit_install(p)
      <4>1. (lh' = lh \/ lh' = <<>>) /\ dhead' = dhead
        BY <3>3 DEF commit_install, install_block
      <4> QED BY <1>a, <1>b, <4>1, EmptyLog
    <3> QED BY <1>6, <3>1, <3>2, <3>3 DEF commit
  <2>4. UNCHANGED <<wrote, held>>
    BY <1>6, Zenon DEF commit, write_log, commit_head, commit_install, clear_head,
                install_block
  <2>5. \A q \in Proc :
          /\ \A b : b \notin wrote'[q]
          /\ IsFiniteSet(wrote'[q]) /\ Cardinality(wrote'[q]) <= OPBLOCKS
          /\ held'[q] # NoBlock =>
                held'[q] \in wrote'[q] \/ Cardinality(wrote'[q]) < OPBLOCKS
    BY <1>0, <2>1, <2>4, Zenon DEF SpaceInv
  <2>6. Len(lh') + Cardinality(Credits') <= LogBound
    BY <1>a, <1>b, <2>2, <2>3
  <2> QED BY Zenon, <2>3, <2>5, <2>6 DEF SpaceInv
<1>7. ASSUME NEW p \in Proc, NEW b \in Block, NEW v \in Val, modify(p, b, v)
      PROVE  SpaceInv'
  <2>1. \A q \in Proc : InOp(q)' <=> InOp(q)
    BY <1>0, <1>7, Zenon DEF modify, InOp, TypeOK
  <2>2. UNCHANGED <<lh, dhead, wrote>>
    BY <1>7, Zenon DEF modify
  <2>3. /\ b \in wrote[p] \/ Cardinality(wrote[p]) < OPBLOCKS
        /\ held'[p] = b /\ \A q \in Proc \ {p} : held'[q] = held[q]
    BY <1>0, <1>7, Zenon DEF modify, TypeOK
  <2>4. \A q \in Proc : held'[q] # NoBlock =>
            held'[q] \in wrote[q] \/ Cardinality(wrote[q]) < OPBLOCKS
    BY <1>c, <2>3, Zenon
  <2> QED BY <1>0, <2>1, <2>2, <2>4, SpaceKept, Zenon
<1>8. ASSUME NEW b \in Block, recycle(b) PROVE SpaceInv'
  <2>1. \A q \in Proc : InOp(q)' <=> InOp(q)
    BY <1>8, Zenon DEF recycle, InOp
  <2>2. UNCHANGED <<lh, dhead, wrote, held>>
    BY <1>8, Zenon DEF recycle
  <2> QED BY <1>0, <1>c, <2>1, <2>2, SpaceKept, Zenon
<1>9. CASE recover_from_log
  <2>1. /\ \A q \in Proc : ~InOp(q) /\ ~InOp(q)'
        /\ UNCHANGED <<wrote, held>>
    BY <1>0, <1>9, Zenon DEF recover_from_log, read_head, recover_install,
                      recover_clear, install_block, InOp, ControlInv
  <2>2. Cardinality(Credits') = 0
    <3>1. Credits' = {}
      BY <2>1 DEF Credits
    <3> QED BY <3>1, FS_EmptySet
  <2>3. Len(lh') <= LogBound /\ Len(dhead') <= LogBound /\ Len(lh') \in Nat
    <3>1. lh' \in {lh, dhead, <<>>} /\ dhead' \in {lh, dhead}
      BY <1>9, Zenon DEF recover_from_log, read_head, recover_install, recover_clear,
                         install_block, write_head
    <3>2. Len(lh) <= LogBound /\ Len(dhead) <= LogBound /\ 0 <= LogBound
      BY <1>a, <1>b
    <3> QED BY <1>a, <3>1, <3>2, EmptyLog, Zenon
  <2>4. \A q \in Proc :
          /\ \A b : b \notin wrote'[q]
          /\ IsFiniteSet(wrote'[q]) /\ Cardinality(wrote'[q]) <= OPBLOCKS
          /\ held'[q] # NoBlock =>
                held'[q] \in wrote'[q] \/ Cardinality(wrote'[q]) < OPBLOCKS
    BY <1>0, <2>1, Zenon DEF SpaceInv
  <2>5. Len(lh') + Cardinality(Credits') <= LogBound
    BY <1>a, <2>2, <2>3
  <2> QED BY Zenon, <2>3, <2>4, <2>5 DEF SpaceInv
<1>10. CASE crash
  <2>1. \A q \in Proc : ~InOp(q)'
    BY <1>10 DEF crash, InOp
  <2>2. Cardinality(Credits') = 0
    <3>1. Credits' = {}
      BY <2>1 DEF Credits
    <3> QED BY <3>1, FS_EmptySet
  <2>3. /\ lh' = <<>> /\ dhead' = dhead
        /\ \A q \in Proc : wrote'[q] = {} /\ held'[q] = NoBlock
    BY <1>10, Zenon DEF crash
  <2>4. Len(lh') + Cardinality(Credits') <= LogBound /\ Len(dhead') <= LogBound
    BY <1>a, <1>b, <2>2, <2>3, EmptyLog
  <2>5. IsFiniteSet({}) /\ Cardinality({}) <= OPBLOCKS
    BY FS_EmptySet
  <2> QED BY <2>3, <2>4, <2>5, Zenon DEF SpaceInv
<1> QED
  BY <1>1, <1>2, <1>3, <1>4, <1>5, <1>6, <1>7, <1>8, <1>9, <1>10 DEF Next, Step
=============================================================================
