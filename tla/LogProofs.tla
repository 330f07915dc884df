----------------------------- MODULE LogProofs -----------------------------
(***************************************************************************)
(* The rest of the proof that LogInv is inductive (what is in the cache    *)
(* and on the disk at each step of commit() and of recovery), the safety   *)
(* theorems, and the proof that the log implements AtomicDisk.  Crash      *)
(* atomicity comes down to one fact: the only step that changes Recovered  *)
(* is the write of a non-empty header, and it changes it to the cache.     *)
(***************************************************************************)
EXTENDS LogControlProofs

USE LogAssumption

LEMMA AppendInjective ==
    ASSUME NEW s \in Seq(Block), NEW b \in Block, Injective(s), ~Logged(s, b)
    PROVE  Injective(Append(s, b))
<1> SUFFICES ASSUME NEW i \in 1..(Len(s) + 1), NEW j \in 1..(Len(s) + 1),
                    Append(s, b)[i] = Append(s, b)[j]
             PROVE  i = j
  BY AppendLogged DEF Injective
<1>1. Len(s) \in Nat
  OBVIOUS
<1>2. CASE i \in 1..Len(s) /\ j \in 1..Len(s)
  BY <1>2, AppendLogged DEF Injective
<1>3. CASE i = Len(s) + 1 /\ j \in 1..Len(s)
  BY <1>1, <1>3, AppendLogged DEF Logged
<1>4. CASE j = Len(s) + 1 /\ i \in 1..Len(s)
  BY <1>1, <1>4, AppendLogged DEF Logged
<1> QED BY <1>1, <1>2, <1>3, <1>4

\* No buffer is held while the log is committed, or before the system is up.
LEMMA NothingHeld ==
    ASSUME LogInv, committing \/ boot # "up"
    PROVE  \A p \in Proc : held[p] = NoBlock
BY DEF LogInv, ControlInv, HeldInv, InOp

LEMMA CacheStep ==
    ASSUME LogInv, Next
    PROVE  CacheInv'
<1> USE DEF Running, disk, bufs
<1>0. TypeOK /\ ControlInv /\ HeldInv /\ CacheInv /\ CommitInv /\ BootInv
  BY DEF LogInv
<1>1. ASSUME NEW p \in Proc, begin_op(p) PROVE CacheInv'
  BY <1>0, <1>1 DEF begin_op, CacheInv
<1>2. ASSUME NEW p \in Proc, end_op(p) PROVE CacheInv'
  BY <1>0, <1>2 DEF end_op, CacheInv
<1>3. ASSUME NEW p \in Proc, end_commit(p) PROVE CacheInv'
  BY <1>0, <1>3 DEF end_commit, CacheInv
<1>4. ASSUME NEW p \in Proc, log_write_checks(p) PROVE CacheInv'
  BY <1>0, <1>4 DEF log_write_checks, CacheInv
<1>5. ASSUME NEW p \in Proc, log_write(p) PROVE CacheInv'
  <2>1. held[p] \in Block
    BY <1>0, <1>5 DEF log_write, HeldInv, TypeOK
  <2>2. Injective(lh')
    BY <1>0, <1>5, <2>1, AppendInjective DEF log_write, TypeOK, CacheInv
  <2>3. \A b : Logged(lh', b) <=> Logged(lh, b) \/ b = held[p]
    BY <1>0, <1>5, <2>1, AppendLogged DEF log_write, TypeOK
  <2> QED BY <1>0, <1>5, <2>2, <2>3 DEF log_write, CacheInv, TypeOK
<1>6. ASSUME NEW p \in Proc, write_log(p) PROVE CacheInv'
  BY <1>0, <1>6 DEF write_log, CacheInv
<1>7. ASSUME NEW p \in Proc, commit_head(p) PROVE CacheInv'
  BY <1>0, <1>7 DEF commit_head, write_head, CacheInv
<1>8. ASSUME NEW p \in Proc, commit_install(p) PROVE CacheInv'
  <2>1. tail \in 1..Len(lh) /\ lh[tail] \in Block
    BY <1>0, <1>8 DEF commit_install, CommitInv, TypeOK
  <2>2. \A b \in Block : cache'[b] # home'[b] =>
            b \in dirty' \/ \E q \in Proc : held'[q] = b
    BY <1>0, <1>8, <2>1 DEF commit_install, install_block, CacheInv, TypeOK
  <2>3. CASE tail < Len(lh)
    BY <1>0, <1>8, <2>2, <2>3 DEF commit_install, install_block, CacheInv
  <2>4. CASE ~(tail < Len(lh))
    <3>1. tail = Len(lh)
      BY <2>1, <2>4 DEF TypeOK
    <3>2. dirty' = {}
      BY <1>0, <1>8, <2>1, <3>1
      DEF commit_install, install_block, CacheInv, CommitInv, Logged, TypeOK
    <3>3. lh' = <<>> /\ dhead' = dhead
      BY <1>8, <2>4 DEF commit_install, install_block
    <3> QED BY <1>0, <2>2, <3>2, <3>3, EmptyLog DEF CacheInv, Injective
  <2> QED BY <2>3, <2>4
<1>9. ASSUME NEW p \in Proc, clear_head(p) PROVE CacheInv'
  BY <1>0, <1>9 DEF clear_head, write_head, CacheInv
<1>10. ASSUME NEW p \in Proc, NEW b \in Block, NEW v \in Val, modify(p, b, v)
       PROVE  CacheInv'
  <2>1. held[p] = NoBlock
    BY Zenon, <1>0, <1>10 DEF modify, HeldInv
  <2> QED BY <1>0, <1>10, <2>1 DEF modify, CacheInv, TypeOK
<1>11. ASSUME NEW b \in Block, recycle(b) PROVE CacheInv'
  BY <1>0, <1>11 DEF recycle, CacheInv, TypeOK
<1>12. CASE read_head
  BY <1>0, <1>12 DEF read_head, CacheInv, BootInv
<1>13. CASE recover_install
  <2>1. tail \in 1..Len(lh) /\ lh[tail] \in Block /\ cache = home
    BY <1>0, <1>13 DEF recover_install, BootInv, TypeOK
  <2>2. cache' = home' /\ dirty' = {}
    BY <1>0, <1>13, <2>1 DEF recover_install, install_block, BootInv
  <2>3. dhead' = dhead /\ (lh' = lh \/ lh' = <<>>)
    BY <1>13 DEF recover_install, install_block
  <2>4. Injective(lh')
    BY <1>0, <2>3, EmptyLog DEF CacheInv, Injective
  <2> QED BY <1>0, <2>2, <2>3, <2>4 DEF CacheInv
<1>14. CASE recover_clear
  BY <1>0, <1>14 DEF recover_clear, write_head, CacheInv
<1>15. CASE crash
  BY <1>0, <1>15, EmptyLog DEF crash, CacheInv, Injective
<1> QED
  BY <1>1, <1>2, <1>3, <1>4, <1>5, <1>6, <1>7, <1>8, <1>9, <1>10, <1>11, <1>12,
     <1>13, <1>14, <1>15
  DEF Next, Step, commit, recover_from_log

LEMMA CommitStep ==
    ASSUME RoomInLog, LogInv, Next
    PROVE  CommitInv'
<1> USE DEF Running, disk, bufs
<1>0. /\ TypeOK /\ ControlInv /\ HeldInv /\ CacheInv /\ CommitInv /\ BootInv
      /\ Len(lh) \in Nat
  BY DEF LogInv, TypeOK
<1>1. ASSUME NEW p \in Proc, begin_op(p) PROVE CommitInv'
  <2>1. CASE committing \/ ~HasSpace
    BY <1>0, <1>1, <2>1 DEF begin_op, CommitInv, TypeOK
  <2>2. CASE ~committing /\ HasSpace
    BY <1>0, <1>1, <2>2 DEF begin_op, CommitInv, TypeOK
  <2> QED BY <2>1, <2>2
<1>2. ASSUME NEW p \in Proc, end_op(p) PROVE CommitInv'
  <2>1. ~committing /\ \A q \in Proc : ~Committing(q)
    BY <1>0, <1>2 DEF end_op, ControlInv, InOp
  <2>2. dhead = <<>>
    BY <1>0, <1>2, <2>1, Zenon DEF end_op, CommitInv, Committing
  <2>3. CASE outstanding = 1
    BY <1>0, <1>2, <2>1, <2>2, <2>3 DEF end_op, CommitInv, TypeOK, Committing
  <2>4. CASE outstanding # 1
    <3>1. outstanding' # 0
      BY <1>0, <1>2, <2>4 DEF end_op, TypeOK
    <3>2. \A q \in Proc : ~Committing(q)'
      BY <1>0, <1>2, <2>1, <2>4, Zenon DEF end_op, wakeup, Committing, TypeOK
    <3> QED BY <1>0, <1>2, <2>2, <3>1, <3>2, Zenon DEF end_op, CommitInv, Committing
  <2> QED BY <2>3, <2>4
<1>3. ASSUME NEW p \in Proc, end_commit(p) PROVE CommitInv'
  <2>1. \A q \in Proc : Committing(q) => q = p
    BY <1>0, <1>3 DEF end_commit, ControlInv, Committing
  <2>2. dhead = <<>> /\ lh = <<>>
    BY Zenon, <1>0, <1>3, <2>1 DEF end_commit, CommitInv, Committing
  <2>3. \A q \in Proc : ~Committing(q)'
    BY <1>0, <1>3, <2>1 DEF end_commit, wakeup, Committing, TypeOK
  <2> QED BY <1>3, <2>2, <2>3 DEF end_commit, CommitInv, Committing
<1>4. ASSUME NEW p \in Proc, log_write_checks(p) PROVE CommitInv'
  BY <1>0, <1>4 DEF log_write_checks, CommitInv, TypeOK
<1>5. ASSUME NEW p \in Proc, log_write(p) PROVE CommitInv'
  <2>1. ~committing /\ outstanding > 0 /\ \A q \in Proc : ~Committing(q)
    BY <1>0, <1>5, InOpPositive DEF log_write, ControlInv, InOp, TypeOK
  <2>2. \A q \in Proc : ~Committing(q)'
    BY <1>0, <1>5, <2>1 DEF log_write, Committing, TypeOK
  <2> QED BY <1>0, <1>5, <2>1, <2>2 DEF log_write, CommitInv, Committing
<1>6. ASSUME NEW p \in Proc, write_log(p) PROVE CommitInv'
  <2>1. tail \in 1..Len(lh) /\ tail \in 1..(NLOG - 1)
    BY <1>0, <1>6, TailInLog DEF write_log, CommitInv
  <2>2. \A q \in Proc : Committing(q) => q = p
    BY <1>0, <1>6 DEF write_log, ControlInv, Committing
  <2>3. dhead = <<>> /\ committing
    BY <1>0, <1>6, <2>2, Zenon DEF write_log, CommitInv, Committing, ControlInv
  <2>4. \A i \in 1..tail : dlog'[i] = cache[lh[i]]
    BY <1>0, <1>6, <2>1 DEF write_log, CommitInv, TypeOK
  <2>5. CASE tail < Len(lh)
    BY <1>0, <1>6, <2>1, <2>2, <2>3, <2>4, <2>5
    DEF write_log, CommitInv, Committing, TypeOK
  <2>6. CASE ~(tail < Len(lh))
    BY <1>0, <1>6, <2>1, <2>2, <2>3, <2>4, <2>6
    DEF write_log, CommitInv, Committing, TypeOK
  <2> QED BY <2>5, <2>6
<1>7. ASSUME NEW p \in Proc, commit_head(p) PROVE CommitInv'
  <2>1. \A q \in Proc : Committing(q) => q = p
    BY <1>0, <1>7 DEF commit_head, ControlInv, Committing
  <2> QED BY <1>0, <1>7, <2>1
          DEF commit_head, write_head, CommitInv, Committing, TypeOK
<1>8. ASSUME NEW p \in Proc, commit_install(p) PROVE CommitInv'
  <2>1. /\ tail \in 1..Len(lh) /\ lh[tail] \in Block
        /\ dhead = lh /\ pc[p] = "install_trans" /\ boot = "up"
        /\ \A i \in 1..Len(lh) : dlog[i] = cache[lh[i]]
        /\ \A i \in 1..(tail - 1) : lh[i] \notin dirty
    BY <1>0, <1>8 DEF commit_install, CommitInv, TypeOK
  <2>2. \A q \in Proc : Committing(q) => q = p
    BY <1>0, <2>1, Zenon DEF ControlInv, Committing
  <2>3. cache' = cache
    BY <1>0, <1>8, <2>1 DEF commit_install, install_block, TypeOK
  <2>4. \A i \in 1..tail : lh[i] \notin dirty'
    BY <1>0, <1>8, <2>1 DEF commit_install, install_block, TypeOK
  <2>5. committing
    BY <1>0, <2>1 DEF ControlInv, Committing
  <2>6. CASE tail < Len(lh)
    BY <1>0, <1>8, <2>1, <2>2, <2>3, <2>4, <2>6
    DEF commit_install, install_block, CommitInv, Committing, TypeOK
  <2>7. CASE ~(tail < Len(lh))
    <3>1. \A i \in 1..Len(dhead) : dlog[i] = home'[dhead[i]]
      <4> SUFFICES ASSUME NEW i \in 1..Len(lh) PROVE home'[lh[i]] = cache[lh[i]]
        BY Zenon, <2>1
      <4>1. CASE i = tail
        BY <1>0, <1>8, <2>1, <4>1, Zenon DEF commit_install, install_block, TypeOK
      <4>2. CASE i # tail
        <5>1. i \in 1..(tail - 1) /\ lh[i] \in Block
          BY <1>0, <2>1, <2>7, <4>2 DEF TypeOK
        <5>2. lh[i] # lh[tail]
          BY <1>0, <2>1, <4>2 DEF CacheInv, Injective
        <5>3. cache[lh[i]] = home[lh[i]]
          BY <1>0, <2>1, <2>5, <5>1, NothingHeld DEF CacheInv
        <5> QED BY <1>0, <1>8, <5>1, <5>2, <5>3, Zenon
                DEF commit_install, install_block, TypeOK
      <4> QED BY <4>1, <4>2
    <3> QED BY <1>0, <1>8, <2>1, <2>2, <2>5, <2>7, <3>1
            DEF commit_install, install_block, CommitInv, Committing, TypeOK
  <2> QED BY <2>6, <2>7
<1>9. ASSUME NEW p \in Proc, clear_head(p) PROVE CommitInv'
  <2>1. \A q \in Proc : Committing(q) => q = p
    BY <1>0, <1>9 DEF clear_head, ControlInv, Committing
  <2> QED BY <1>0, <1>9, <2>1, Zenon
          DEF clear_head, write_head, CommitInv, Committing, TypeOK
<1>10. ASSUME NEW p \in Proc, NEW b \in Block, NEW v \in Val, modify(p, b, v)
       PROVE  CommitInv'
  <2>1. \A q \in Proc : ~Committing(q)
    BY <1>0, <1>10 DEF modify, ControlInv, InOp
  <2> QED BY <1>0, <1>10, <2>1, Zenon DEF modify, CommitInv, Committing, TypeOK
<1>11. ASSUME NEW b \in Block, recycle(b) PROVE CommitInv'
  <2>1. cache' = cache
    BY <1>0, <1>11 DEF recycle, CacheInv, TypeOK
  <2> QED BY <1>0, <1>11, <2>1, ZenonT(30) DEF recycle, CommitInv
<1>12. CASE recover_from_log
  <2>1. \A q \in Proc : pc[q] = "out" /\ pc'[q] = "out"
    BY <1>0, <1>12 DEF recover_from_log, read_head, recover_install,
                       recover_clear, ControlInv
  <2> QED BY <1>0, <1>12, <2>1, Zenon
          DEF recover_from_log, read_head, recover_install, recover_clear,
              write_head, CommitInv, BootInv
<1>13. CASE crash
  BY <1>13 DEF crash, CommitInv
<1> QED
  BY <1>1, <1>2, <1>3, <1>4, <1>5, <1>6, <1>7, <1>8, <1>9, <1>10, <1>11, <1>12,
     <1>13
  DEF Next, Step, commit

LEMMA BootStep ==
    ASSUME RoomInLog, LogInv, Next
    PROVE  BootInv'
<1> USE DEF Running, disk, bufs
<1>0. TypeOK /\ ControlInv /\ CacheInv /\ BootInv /\ Len(lh) \in Nat
  BY DEF LogInv, TypeOK
<1>1. ASSUME boot = "up", boot' = "up" PROVE BootInv'
  BY <1>1, Zenon DEF BootInv
<1>2. CASE \E p \in Proc : begin_op(p) \/ Step(p)
  BY Zenon, <1>1, <1>2
  DEF begin_op, Step, end_op, log_write_checks, log_write, commit, write_log,
      commit_head, commit_install, clear_head, end_commit
<1>3. CASE \E p \in Proc, b \in Block, v \in Val : modify(p, b, v)
  BY Zenon, <1>1, <1>3 DEF modify
<1>4. CASE \E b \in Block : recycle(b)
  BY <1>1, <1>4, Zenon DEF recycle
<1>5. CASE read_head
  <2>1. Len(dhead) \in Nat /\ (dhead # <<>> => Len(dhead) >= 1)
    BY <1>0 DEF TypeOK
  <2> QED BY <1>0, <1>5, <2>1, EmptyLog DEF read_head, BootInv
<1>6. CASE recover_install
  <2>1. /\ lh = dhead /\ cache = home /\ dirty = {}
        /\ tail \in 1..Len(lh) /\ lh[tail] \in Block
        /\ \A i \in 1..(tail - 1) : home[lh[i]] = dlog[i]
    BY <1>0, <1>6 DEF recover_install, BootInv, TypeOK
  <2>2. cache' = home' /\ dirty' = {} /\ dlog' = dlog /\ dhead' = dhead
    BY <1>6, <2>1 DEF recover_install, install_block
  <2>3. \A i \in 1..tail : home'[lh[i]] = dlog[i]
    <3> SUFFICES ASSUME NEW i \in 1..tail PROVE home'[lh[i]] = dlog[i]
      OBVIOUS
    <3>1. lh[i] \in Block /\ (lh[i] = lh[tail] => i = tail)
      BY <1>0, <2>1 DEF CacheInv, Injective, TypeOK
    <3>2. i # tail => home[lh[i]] = dlog[i]
      BY <2>1
    <3> QED BY <1>0, <1>6, <2>1, <3>1, <3>2, Zenon
            DEF recover_install, install_block, TypeOK
  <2>4. CASE tail < Len(lh)
    BY <1>0, <1>6, <2>1, <2>2, <2>3, <2>4 DEF recover_install, BootInv
  <2>5. CASE ~(tail < Len(lh))
    BY <1>0, <1>6, <2>1, <2>2, <2>3, <2>5 DEF recover_install, BootInv
  <2> QED BY <2>4, <2>5
<1>7. CASE recover_clear
  BY <1>7 DEF recover_clear, BootInv
<1>8. CASE crash
  BY <1>8 DEF crash, BootInv
<1> QED
  BY <1>2, <1>3, <1>4, <1>5, <1>6, <1>7, <1>8 DEF Next, recover_from_log

\* The reservation keeps log_write() away from its panics.
LEMMA PanicStep ==
    ASSUME RoomInLog, LogInv, Next
    PROVE  NoPanic'
<1> USE DEF Running, NoPanic, disk, bufs
<1>0. NoPanic /\ TypeOK /\ ControlInv
  BY DEF LogInv
<1>1. ASSUME NEW p \in Proc, end_op(p) PROVE NoPanic'
  <2>1. ~committing
    BY <1>0, <1>1 DEF end_op, ControlInv, InOp
  <2> QED BY <1>0, <1>1, <2>1 DEF end_op
<1>2. ASSUME NEW p \in Proc, log_write_checks(p) PROVE NoPanic'
  <2>1. outstanding >= 1
    BY <1>0, <1>2, InOpPositive DEF log_write_checks, InOp
  <2>2. Len(lh) < LOGSIZE /\ Len(lh) + 1 < NLOG
    BY CreditsFinite, Bound DEF LogInv, SpaceInv, TypeOK
  <2> QED BY <1>0, <1>2, <2>1, <2>2 DEF log_write_checks, TypeOK
<1>3. CASE UNCHANGED panicked
  BY <1>0, <1>3
<1> QED
  BY Zenon, <1>1, <1>2, <1>3
  DEF Next, Step, commit, recover_from_log, begin_op, log_write, write_log,
      commit_head, commit_install, clear_head, end_commit, modify, recycle,
      read_head, recover_install, recover_clear, crash

\* A process goes to sleep only if another one is in a call or commits: when
\* none is, the log is empty and there is space.
LEMMA SleeperStep ==
    ASSUME LogInv, Next
    PROVE  SleeperHasWaker'
<1> USE DEF Running, SleeperHasWaker, disk, bufs
<1>0. SleeperHasWaker /\ TypeOK /\ ControlInv
  BY DEF LogInv
<1>1. ASSUME NEW p \in Proc, begin_op(p) PROVE SleeperHasWaker'
  <2>1. CASE committing
    BY <1>1, <2>1 DEF begin_op
  <2>2. CASE ~committing /\ ~HasSpace
    <3>1. outstanding # 0
      BY <1>1, <2>2, EmptyLog DEF begin_op, LogInv, CommitInv, HasSpace
    <3> QED BY <1>0, <1>1, <2>2, <3>1 DEF begin_op, TypeOK
  <2>3. CASE ~committing /\ HasSpace
    BY <1>0, <1>1, <2>3 DEF begin_op, TypeOK
  <2> QED BY <2>1, <2>2, <2>3
<1>2. ASSUME NEW p \in Proc, end_op(p) PROVE SleeperHasWaker'
  <2>1. ~committing
    BY <1>0, <1>2 DEF end_op, ControlInv, InOp
  <2>2. CASE outstanding = 1
    BY <1>2, <2>1, <2>2 DEF end_op
  <2>3. CASE outstanding # 1
    BY <1>0, <1>2, <2>1, <2>3, Zenon DEF end_op, wakeup, TypeOK
  <2> QED BY <2>2, <2>3
<1>3. ASSUME NEW p \in Proc, end_commit(p) PROVE SleeperHasWaker'
  BY <1>0, <1>3 DEF end_commit, wakeup, TypeOK
<1>4. ASSUME UNCHANGED <<outstanding, committing>>,
             \A p \in Proc : pc'[p] = "sleep" => pc[p] = "sleep"
      PROVE  SleeperHasWaker'
  BY <1>0, <1>4
<1>5. ASSUME NEW p \in Proc, log_write_checks(p) \/ log_write(p) \/ commit(p)
      PROVE  SleeperHasWaker'
  BY <1>0, <1>4, <1>5, Zenon
  DEF log_write_checks, log_write, commit, write_log, commit_head,
      commit_install, clear_head, TypeOK
<1>6. ASSUME NEW p \in Proc, NEW b \in Block, NEW v \in Val, modify(p, b, v)
      PROVE  SleeperHasWaker'
  BY <1>0, <1>4, <1>6, Zenon DEF modify, TypeOK
<1>7. ASSUME NEW b \in Block, recycle(b) PROVE SleeperHasWaker'
  BY Zenon, <1>4, <1>7 DEF recycle
<1>8. CASE recover_from_log
  BY Zenon, <1>4, <1>8 DEF recover_from_log, read_head, recover_install, recover_clear
<1>9. CASE crash
  BY <1>9 DEF crash
<1> QED
  BY <1>1, <1>2, <1>3, <1>5, <1>6, <1>7, <1>8, <1>9 DEF Next, Step

LEMMA LogInvInit ==
    ASSUME RoomInLog, Init
    PROVE  LogInv
<1>1. <<>> \in Seq(Block)
  OBVIOUS
<1>2. NLOG - 1 \in Nat
  BY Bound DEF RoomInLog, LogBound
<1>3. wrote \in [Proc -> SUBSET Block] /\ \A p \in Proc : wrote[p] = {}
  BY DEF Init
<1>4. TypeOK
  BY Zenon, <1>1, <1>3 DEF Init, TypeOK, PCs
<1>5. InOps = {} /\ Credits = {}
  BY DEF Init, InOps, InOp, Credits
<1>6. ControlInv
  BY Zenon, <1>5, FS_EmptySet DEF Init, ControlInv, Committing, InOps
<1>7. LogBound >= 0
  BY DEF LogBound
<1>8. SpaceInv
  BY <1>3, <1>5, <1>7, FS_EmptySet, EmptyLog DEF Init, SpaceInv
<1>9. HeldInv /\ CommitInv /\ BootInv /\ NoPanic /\ SleeperHasWaker
  BY Zenon DEF Init, HeldInv, CommitInv, BootInv, NoPanic, SleeperHasWaker
<1>10. CacheInv
  BY EmptyLog DEF Init, CacheInv, Injective
<1> QED BY <1>4, <1>6, <1>8, <1>9, <1>10 DEF LogInv

LEMMA LogInvStep ==
    ASSUME RoomInLog, LogInv, [Next]_vars
    PROVE  LogInv'
<1>1. CASE Next
  <2>1. TypeOK' /\ ControlInv' /\ HeldInv'
    BY <1>1, TypeStep, ControlStep, HeldStep
  <2>2. SpaceInv' /\ CacheInv' /\ CommitInv'
    BY <1>1, SpaceStep, CacheStep, CommitStep
  <2>3. BootInv' /\ NoPanic' /\ SleeperHasWaker'
    BY <1>1, BootStep, PanicStep, SleeperStep
  <2> QED BY <2>1, <2>2, <2>3 DEF LogInv
<1>2. CASE UNCHANGED vars
  <2> USE <1>2 DEF vars, InOps, InOp, Committing, Logged
  <2>1. TypeOK' /\ ControlInv' /\ HeldInv'
    BY Zenon DEF LogInv, TypeOK, ControlInv, HeldInv
  <2>2. SpaceInv'
    BY Zenon DEF LogInv, SpaceInv, Credits
  <2>3. CacheInv'
    BY Zenon DEF LogInv, CacheInv, Injective
  <2>4. CommitInv'
    BY Zenon DEF LogInv, CommitInv
  <2>5. BootInv' /\ NoPanic' /\ SleeperHasWaker'
    BY Zenon DEF LogInv, BootInv, NoPanic, SleeperHasWaker
  <2> QED BY <2>1, <2>2, <2>3, <2>4, <2>5 DEF LogInv
<1> QED BY <1>1, <1>2

\* The inductive invariant holds for every system in which the log has room
\* for what the calls write.
THEOREM LogInvariant ==
    ASSUME RoomInLog
    PROVE  Spec => []LogInv
<1>1. Init => LogInv
  BY LogInvInit
<1>2. LogInv /\ [Next]_vars => LogInv'
  BY LogInvStep
<1> QED BY <1>1, <1>2, PTL DEF Spec

\* The state of log.c keeps its types.
THEOREM TypeCorrect ==
    ASSUME RoomInLog
    PROVE  Spec => []TypeOK
<1>1. LogInv => TypeOK
  BY DEF LogInv
<1> QED BY <1>1, LogInvariant, PTL

\* No call admitted by begin_op() reaches a panic of log_write() or end_op().
THEOREM PanicFree ==
    ASSUME RoomInLog
    PROVE  Spec => []NoPanic
<1>1. LogInv => NoPanic
  BY DEF LogInv
<1> QED BY <1>1, LogInvariant, PTL

\* A process asleep in begin_op() has a call or a commit to wait for.
THEOREM NoLostWakeup ==
    ASSUME RoomInLog
    PROVE  Spec => []SleeperHasWaker
<1>1. LogInv => SleeperHasWaker
  BY DEF LogInv
<1> QED BY <1>1, LogInvariant, PTL
-----------------------------------------------------------------------------
(* The log implements AtomicDisk *)

\* Recovery would put log block i to the i-th block the header names.
LEMMA RecoveredLogged ==
    ASSUME LogInv, NEW i \in 1..Len(dhead)
    PROVE  dhead[i] \in Block /\ Recovered[dhead[i]] = dlog[i]
<1>1. dhead[i] \in Block /\ Logged(dhead, dhead[i])
  BY DEF LogInv, TypeOK, Logged
<1>2. \A j \in 1..Len(dhead) : dhead[j] = dhead[i] => j = i
  BY Zenon DEF LogInv, CacheInv, Injective
<1>3. (CHOOSE j \in 1..Len(dhead) : dhead[j] = dhead[i]) = i
  BY <1>2
<1> QED BY Zenon, <1>1, <1>3 DEF Recovered

LEMMA RecoveredHome ==
    ASSUME NEW b \in Block, ~Logged(dhead, b)
    PROVE  Recovered[b] = home[b]
BY DEF Recovered

LEMMA RecoveredEmpty ==
    ASSUME LogInv, dhead = <<>>
    PROVE  Recovered = home
<1>1. \A b : ~Logged(dhead, b)
  BY EmptyLog
<1> QED BY <1>1 DEF Recovered, LogInv, TypeOK

\* Between the two write_head() the home blocks catch up with the log.
LEMMA RecoveredInstalled ==
    ASSUME LogInv, \A i \in 1..Len(dhead) : dlog[i] = home[dhead[i]]
    PROVE  Recovered = home
<1> SUFFICES ASSUME NEW b \in Block PROVE Recovered[b] = home[b]
  BY Zenon DEF Recovered, LogInv, TypeOK
<1>1. CASE Logged(dhead, b)
  BY <1>1, RecoveredLogged DEF Logged
<1> QED BY <1>1, RecoveredHome

\* Installing one block that the header names changes nothing recoverable.
LEMMA InstallKeepsRecovered ==
    ASSUME LogInv, lh = dhead, tail \in 1..Len(lh), install_block
    PROVE  Recovered' = Recovered
<1>1. Logged(dhead, lh[tail])
  BY DEF Logged
<1>2. \A b \in Block : ~Logged(dhead, b) => home'[b] = home[b]
  BY <1>1, Zenon DEF install_block, LogInv, TypeOK
<1>3. dhead' = dhead /\ dlog' = dlog
  BY DEF install_block
<1> QED BY <1>2, <1>3 DEF Recovered, Logged

LEMMA RefinementInit ==
    ASSUME RoomInLog, Init
    PROVE  Abs!AInit
<1>1. LogInv
  BY LogInvInit
<1>2. Recovered = home
  BY <1>1, RecoveredEmpty DEF Init
<1>3. InOps = {}
  BY DEF Init, InOps, InOp
<1> QED BY <1>2, <1>3 DEF Init, Abs!AInit, Current

LEMMA RefinementStep ==
    ASSUME RoomInLog, LogInv, LogInv', Next
    PROVE  Abs!ANext \/ UNCHANGED Abs!avars
<1> USE DEF Running, disk, bufs
<1>0. TypeOK /\ ControlInv /\ CacheInv /\ CommitInv /\ BootInv
  BY DEF LogInv
<1>1. ASSUME UNCHANGED disk PROVE Recovered' = Recovered
  BY <1>1 DEF Recovered, Logged
<1>2. ASSUME UNCHANGED <<disk, cache, boot, pc>> PROVE UNCHANGED Abs!avars
  BY <1>1, <1>2 DEF Abs!avars, Current, InOps, InOp
<1>3. ASSUME NEW p \in Proc, begin_op(p)
      PROVE  Abs!ABegin(p) \/ UNCHANGED Abs!avars
  <2>1. Recovered' = Recovered /\ Current' = Current
    BY <1>1, <1>3 DEF begin_op, Current
  <2>2. CASE committing \/ ~HasSpace
    <3>1. InOps' = InOps
      BY <1>0, <1>3, <2>2, Zenon DEF begin_op, InOps, InOp, TypeOK
    <3> QED BY <2>1, <3>1 DEF Abs!avars
  <2>3. CASE ~committing /\ HasSpace
    <3>1. InOps' = InOps \cup {p} /\ p \notin InOps
      BY <1>0, <1>3, <2>3 DEF begin_op, InOps, InOp, TypeOK
    <3> QED BY <2>1, <3>1 DEF Abs!ABegin
  <2> QED BY <2>2, <2>3
<1>4. ASSUME NEW p \in Proc, end_op(p) PROVE Abs!AEnd(p)
  <2>1. Recovered' = Recovered /\ Current' = Current
    BY <1>1, <1>4 DEF end_op, Current
  <2>2. ~committing
    BY <1>0, <1>4 DEF end_op, ControlInv, InOp
  <2>3. InOps' = InOps \ {p} /\ p \in InOps
    BY <1>0, <1>4, <2>2, Zenon DEF end_op, wakeup, InOps, InOp, TypeOK
  <2> QED BY <2>1, <2>3 DEF Abs!AEnd
<1>5. ASSUME NEW p \in Proc, end_commit(p) \/ log_write_checks(p) \/ log_write(p)
      PROVE  UNCHANGED Abs!avars
  <2>1. Recovered' = Recovered /\ Current' = Current
    BY <1>1, <1>5, Zenon DEF end_commit, log_write_checks, log_write, Current
  <2>2. InOps' = InOps
    BY <1>0, <1>5, Zenon
    DEF end_commit, wakeup, log_write_checks, log_write, InOps, InOp, TypeOK
  <2> QED BY <2>1, <2>2 DEF Abs!avars
<1>6. ASSUME NEW p \in Proc, commit(p) PROVE InOps = {} /\ InOps' = {}
  BY <1>0, <1>6, Zenon
  DEF commit, write_log, commit_head, commit_install, clear_head, ControlInv,
      Committing, InOps, InOp, TypeOK
<1>7. ASSUME NEW p \in Proc, write_log(p) PROVE UNCHANGED Abs!avars
  <2>1. dhead = <<>>
    BY Zenon, <1>0, <1>7 DEF write_log, CommitInv, ControlInv, Committing
  <2>2. Recovered' = Recovered
    <3>1. Recovered = home
      BY <2>1, RecoveredEmpty
    <3>2. \A b : ~Logged(dhead', b)
      BY Zenon, <1>7, <2>1, EmptyLog DEF write_log
    <3>3. Recovered' = home'
      BY <3>2, LogInv', Zenon DEF Recovered, LogInv, TypeOK
    <3> QED BY Zenon, <1>7, <3>1, <3>3 DEF write_log
  <2> QED BY Zenon, <1>6, <1>7, <2>2 DEF write_log, commit, Current, Abs!avars
<1>8. ASSUME NEW p \in Proc, commit_head(p) PROVE Abs!ACommit
  <2>1. /\ \A i \in 1..Len(lh) : dlog[i] = cache[lh[i]]
        /\ dhead' = lh /\ UNCHANGED <<home, dlog, cache, boot>> /\ boot = "up"
        /\ committing
    BY Zenon, <1>0, <1>8 DEF commit_head, write_head, CommitInv, ControlInv, Committing
  <2>2. Recovered' = cache
    <3> SUFFICES ASSUME NEW b \in Block PROVE Recovered'[b] = cache[b]
      BY Zenon, <1>0 DEF Recovered, TypeOK
    <3>1. CASE Logged(dhead', b)
      <4>1. PICK i \in 1..Len(lh) : lh[i] = b
        BY <2>1, <3>1, Zenon DEF Logged
      <4>2. (CHOOSE j \in 1..Len(lh) : lh[j] = b) \in 1..Len(lh)
            /\ lh[CHOOSE j \in 1..Len(lh) : lh[j] = b] = b
        BY <4>1
      <4> QED BY Zenon, <2>1, <3>1, <4>2 DEF Recovered
    <3>2. CASE ~Logged(dhead', b)
      <4>1. Recovered'[b] = home[b]
        BY <2>1, <3>2, Zenon DEF Recovered
      <4>2. b \notin dirty /\ \A q \in Proc : held[q] # b
        BY <1>0, <2>1, <3>2, NothingHeld, Zenon DEF CacheInv
      <4> QED BY <1>0, <4>1, <4>2, Zenon DEF CacheInv
    <3> QED BY <3>1, <3>2
  <2> QED BY Zenon, <1>6, <1>8, <2>1, <2>2 DEF commit, Current, Abs!ACommit
<1>9. ASSUME NEW p \in Proc, commit_install(p) PROVE UNCHANGED Abs!avars
  <2>1. /\ lh = dhead /\ tail \in 1..Len(lh) /\ lh[tail] \in Block
        /\ dlog[tail] = cache[lh[tail]]
    BY <1>0, <1>9 DEF commit_install, CommitInv, TypeOK
  <2>2. Recovered' = Recovered
    BY Zenon, <1>9, <2>1, InstallKeepsRecovered DEF commit_install
  <2>3. cache' = cache
    BY <1>0, <1>9, <2>1, Zenon DEF commit_install, install_block, TypeOK
  <2> QED BY Zenon, <1>6, <1>9, <2>2, <2>3
          DEF commit, commit_install, Current, Abs!avars
<1>10. ASSUME NEW p \in Proc, clear_head(p) PROVE UNCHANGED Abs!avars
  <2>1. /\ \A i \in 1..Len(dhead) : dlog[i] = home[dhead[i]]
        /\ dhead' = <<>> /\ home' = home
    BY Zenon, <1>0, <1>10 DEF clear_head, write_head, CommitInv
  <2>2. Recovered = home
    BY <2>1, RecoveredInstalled
  <2>3. Recovered' = home'
    BY Zenon, <2>1, EmptyLog, LogInv' DEF Recovered, LogInv, TypeOK
  <2> QED BY Zenon, <1>6, <1>10, <2>1, <2>2, <2>3
          DEF commit, clear_head, Current, Abs!avars
<1>11. ASSUME NEW p \in Proc, NEW b \in Block, NEW v \in Val, modify(p, b, v)
       PROVE  Abs!AWrite(p, b, v)
  <2>1. Recovered' = Recovered
    BY <1>1, <1>11, Zenon DEF modify
  <2>2. InOps' = InOps /\ p \in InOps
    BY <1>0, <1>11, Zenon DEF modify, InOps, InOp, TypeOK
  <2> QED BY Zenon, <1>11, <2>1, <2>2 DEF modify, Current, Abs!AWrite
<1>12. ASSUME NEW b \in Block, recycle(b) PROVE UNCHANGED Abs!avars
  <2>1. cache' = cache
    BY <1>0, <1>12, Zenon DEF recycle, CacheInv, TypeOK
  <2> QED BY Zenon, <1>2, <1>12, <2>1 DEF recycle
<1>13. CASE read_head
  <2>1. Recovered' = Recovered
    BY <1>1, <1>13 DEF read_head
  <2> QED BY <1>13, <2>1 DEF read_head, Current, Abs!avars, InOps, InOp
<1>14. CASE recover_install
  <2>1. Recovered' = Recovered
    BY <1>0, <1>14, InstallKeepsRecovered, Zenon DEF recover_install, BootInv
  <2> QED BY <1>14, <2>1 DEF recover_install, Current, Abs!avars, InOps, InOp
<1>15. CASE recover_clear
  <2>1. /\ \A i \in 1..Len(dhead) : dlog[i] = home[dhead[i]]
        /\ dhead' = <<>> /\ cache = home /\ UNCHANGED <<home, cache, pc>>
    BY <1>0, <1>15, Zenon DEF recover_clear, write_head, BootInv
  <2>2. Recovered = home
    BY <2>1, RecoveredInstalled
  <2>3. Recovered' = home'
    BY Zenon, <2>1, EmptyLog, LogInv' DEF Recovered, LogInv, TypeOK
  <2> QED BY <1>15, <2>1, <2>2, <2>3, Zenon
          DEF recover_clear, Current, Abs!avars, InOps, InOp
<1>16. CASE crash
  <2>1. Recovered' = Recovered
    BY <1>1, <1>16 DEF crash
  <2>2. InOps' = {}
    BY <1>16 DEF crash, InOps, InOp
  <2>3. Current' = Recovered
    BY <1>16, <2>1 DEF crash, Current
  <2>4. Abs!ACrash
    BY <2>1, <2>2, <2>3 DEF Abs!ACrash
  <2> QED BY <2>4 DEF Abs!ANext
<1> QED
  BY <1>3, <1>4, <1>5, <1>7, <1>8, <1>9, <1>10, <1>11, <1>12, <1>13, <1>14, Zenon,
     <1>15, <1>16
  DEF Next, Step, commit, recover_from_log, Abs!ANext

\* Crash atomicity for every system: each behaviour of log.c, crashes
\* included, is a behaviour of the atomic disk.
THEOREM LogImplementsAtomicDisk ==
    ASSUME RoomInLog
    PROVE  Spec => CrashAtomic
<1>1. Init => Abs!AInit
  BY RefinementInit
<1>2. LogInv /\ LogInv' /\ [Next]_vars => [Abs!ANext]_(Abs!avars)
  <2> SUFFICES ASSUME LogInv, LogInv', [Next]_vars
               PROVE  Abs!ANext \/ UNCHANGED Abs!avars
    OBVIOUS
  <2>1. CASE Next
    BY <2>1, RefinementStep
  <2>2. CASE UNCHANGED vars
    BY Zenon, <2>2 DEF vars, Abs!avars, Recovered, Current, InOps, InOp, Logged
  <2> QED BY <2>1, <2>2
<1> QED BY <1>1, <1>2, LogInvariant, PTL DEF Spec, CrashAtomic, Abs!ASpec

\* end_op()'s promise of durability, for every system.
THEOREM Durability ==
    ASSUME RoomInLog
    PROVE  Spec => []DurableWhenIdle
<1>1. ASSUME LogInv PROVE DurableWhenIdle
  <2> SUFFICES ASSUME boot = "up", outstanding = 0, ~committing
               PROVE  Recovered = cache
    BY DEF DurableWhenIdle
  <2>1. \A p \in Proc : ~InOp(p)
    BY <1>1, InOpPositive DEF LogInv
  <2>2. lh = <<>> /\ dhead = <<>>
    BY <1>1, Zenon DEF LogInv, CommitInv, ControlInv, Committing
  <2>3. \A b \in Block : b \notin dirty /\ \A p \in Proc : held[p] # b
    BY Zenon, <1>1, <2>1, <2>2, EmptyLog DEF LogInv, CacheInv, HeldInv, InOp
  <2>4. \A b \in Block : cache[b] = home[b]
    BY <1>1, <2>3, Zenon DEF LogInv, CacheInv
  <2>5. cache = home
    BY <1>1, <2>4 DEF LogInv, TypeOK
  <2> QED BY <1>1, <2>2, <2>5, RecoveredEmpty
<1> QED BY <1>1, LogInvariant, PTL

\* The write-ahead rule, for every system: only the two loops of
\* install_trans() write home blocks, and both write what the header names.
THEOREM WriteAheadRule ==
    ASSUME RoomInLog
    PROVE  Spec => WriteAhead
<1>1. ASSUME LogInv, [Next]_vars
      PROVE  [\A b \in Block : home'[b] # home[b] => Logged(dhead, b)]_vars
  <2> USE DEF disk
  <2>1. ASSUME install_block, lh = dhead, tail \in 1..Len(lh)
        PROVE  \A b \in Block : home'[b] # home[b] => Logged(dhead, b)
    BY Zenon, <1>1, <2>1 DEF install_block, Logged, LogInv, TypeOK
  <2>2. ASSUME NEW p \in Proc, commit_install(p)
        PROVE  \A b \in Block : home'[b] # home[b] => Logged(dhead, b)
    BY Zenon, <1>1, <2>1, <2>2 DEF commit_install, LogInv, CommitInv
  <2>3. CASE recover_install
    BY <1>1, <2>1, <2>3, Zenon DEF recover_install, LogInv, BootInv
  <2>4. ASSUME NEW p \in Proc,
               begin_op(p) \/ end_op(p) \/ log_write_checks(p) \/ log_write(p)
                 \/ write_log(p) \/ commit_head(p) \/ clear_head(p)
                 \/ end_commit(p)
        PROVE  home' = home
    BY Zenon, <2>4 DEF begin_op, end_op, log_write_checks, log_write, write_log,
                commit_head, clear_head, end_commit
  <2>5. ASSUME NEW p \in Proc, NEW b \in Block, NEW v \in Val, modify(p, b, v)
        PROVE  home' = home
    BY Zenon, <2>5 DEF modify
  <2>6. ASSUME NEW b \in Block, recycle(b) PROVE home' = home
    BY <2>6, Zenon DEF recycle
  <2>7. CASE read_head \/ recover_clear \/ crash
    BY Zenon, <2>7 DEF read_head, recover_clear, crash
  <2>8. CASE UNCHANGED vars
    BY <2>8 DEF vars
  <2> QED BY <1>1, <2>2, <2>3, <2>4, <2>5, <2>6, <2>7, <2>8, Zenon
          DEF Next, Step, commit, recover_from_log
<1> QED BY <1>1, LogInvariant, PTL DEF Spec, WriteAhead
=============================================================================
