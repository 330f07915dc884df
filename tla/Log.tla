-------------------------------- MODULE Log --------------------------------
(***************************************************************************)
(* The write-ahead log of src/log.c: concurrent file system calls between  *)
(* begin_op() and end_op(), group commit by the last of them, installation *)
(* of the committed blocks, crashes at any step and recovery at boot.      *)
(*                                                                         *)
(* The disk is three variables: the home blocks, the log blocks and the    *)
(* log header (one sector, written atomically).  A crash keeps exactly     *)
(* these.  The buffer cache is cache[b], what bread(b) would return, and   *)
(* dirty, the buffers B_DIRTY pins.  Code under log.lock is one step.      *)
(***************************************************************************)
EXTENDS Naturals, Sequences, FiniteSets

CONSTANTS
    Proc,         \* processes that make file system calls
    Block,        \* home blocks (the log's own blocks are not among them)
    Val,          \* contents of a block
    Zero,         \* the contents mkfs gives the log blocks
    NoBlock,
    MAXOPBLOCKS,  \* param.h: what begin_op() reserves for a call
    LOGSIZE,      \* param.h: what begin_op() shares out
    NLOG,         \* sb.nlog: blocks of the on-disk log, the header included
    OPBLOCKS      \* the most blocks a call really writes

ASSUME LogAssumption ==
    /\ IsFiniteSet(Proc)
    /\ NoBlock \notin Block
    /\ Zero \in Val
    /\ MAXOPBLOCKS \in Nat \ {0}
    /\ LOGSIZE \in Nat
    /\ MAXOPBLOCKS <= LOGSIZE
    /\ NLOG \in Nat
    /\ OPBLOCKS \in 0..MAXOPBLOCKS

VARIABLES
    home,         \* disk: the blocks at their home locations
    dlog,         \* disk: the log blocks
    dhead,        \* disk: the header's block numbers, <<>> when n is 0
    cache,        \* memory: the contents of each block as bread() gives it
    dirty,        \* memory: blocks whose buffer has B_DIRTY set
    lh,           \* log.lh
    outstanding,  \* log.outstanding
    committing,   \* log.committing
    pc,           \* where each process is in begin_op ... end_op
    held,         \* the buffer a process has modified and not yet logged
    wrote,        \* the blocks the current call of a process has logged
    tail,         \* the loop variable of write_log() and install_trans()
    boot,         \* where initlog() is, "up" once it returned
    panicked      \* some panic() was called

disk == <<home, dlog, dhead>>
bufs == <<cache, dirty, held>>
vars == <<home, dlog, dhead, cache, dirty, lh, outstanding, committing, pc,
          held, wrote, tail, boot, panicked>>

PCs == {"out", "begin", "sleep", "op", "modified", "log_write", "write_log",
        "write_head", "install_trans", "clear_head", "committed"}

InOp(p) == pc[p] \in {"op", "modified", "log_write"}

InOps == {p \in Proc : InOp(p)}

Logged(s, b) == \E i \in 1..Len(s) : s[i] = b

TypeOK ==
    /\ home \in [Block -> Val]
    /\ dlog \in [1..(NLOG - 1) -> Val]
    /\ dhead \in Seq(Block)
    /\ cache \in [Block -> Val]
    /\ dirty \in SUBSET Block
    /\ lh \in Seq(Block)
    /\ outstanding \in Nat
    /\ committing \in BOOLEAN
    /\ pc \in [Proc -> PCs]
    /\ held \in [Proc -> Block \cup {NoBlock}]
    /\ wrote \in [Proc -> SUBSET Block]
    /\ tail \in Nat
    /\ boot \in {"read_head", "install_trans", "clear_head", "up"}
    /\ panicked \in BOOLEAN

\* The machine is about to run initlog() on the image mkfs wrote, whose log
\* is empty.
Init ==
    /\ home \in [Block -> Val]
    /\ dlog = [i \in 1..(NLOG - 1) |-> Zero]
    /\ dhead = <<>>
    /\ cache = home
    /\ dirty = {}
    /\ lh = <<>>
    /\ outstanding = 0
    /\ committing = FALSE
    /\ pc = [p \in Proc |-> "out"]
    /\ held = [p \in Proc |-> NoBlock]
    /\ wrote = [p \in Proc |-> {}]
    /\ tail = 1
    /\ boot = "read_head"
    /\ panicked = FALSE
Running == boot = "up" /\ ~panicked
-----------------------------------------------------------------------------
(* begin_op() and end_op() *)

\* Mutant: the calls already admitted are not counted.
HasSpace_own_only == Len(lh) + MAXOPBLOCKS <= LOGSIZE

HasSpace == Len(lh) + (outstanding + 1) * MAXOPBLOCKS <= LOGSIZE

\* sleep(&log, &log.lock), or an admitted call.
begin_op(p) ==
    /\ Running
    /\ pc[p] \in {"out", "begin"}
    /\ IF committing \/ ~HasSpace
       THEN /\ pc' = [pc EXCEPT ![p] = "sleep"]
            /\ UNCHANGED outstanding
       ELSE /\ pc' = [pc EXCEPT ![p] = "op"]
            /\ outstanding' = outstanding + 1
    /\ UNCHANGED <<disk, bufs, lh, committing, wrote, tail, boot, panicked>>

\* wakeup(&log) by p, which goes on at l: every sleeper tries again.
wakeup(p, l) ==
    pc' = [q \in Proc |-> IF q = p THEN l
                          ELSE IF pc[q] = "sleep" THEN "begin" ELSE pc[q]]

end_op(p) ==
    /\ Running
    /\ pc[p] = "op"
    /\ outstanding' = outstanding - 1
    /\ wrote' = [wrote EXCEPT ![p] = {}]
    /\ IF committing
       THEN panicked' = TRUE /\ UNCHANGED <<pc, committing, tail>>
       ELSE /\ UNCHANGED panicked
            /\ IF outstanding = 1
               THEN /\ committing' = TRUE
                    /\ tail' = 1
                    /\ pc' = [pc EXCEPT ![p] =
                                IF lh = <<>> THEN "committed" ELSE "write_log"]
               ELSE wakeup(p, "out") /\ UNCHANGED <<committing, tail>>
    /\ UNCHANGED <<disk, bufs, lh, boot>>

\* Mutants: the end of a commit wakes nobody; it leaves log.committing set.
end_commit_no_wakeup(p) ==
    /\ Running
    /\ pc[p] = "committed"
    /\ committing' = FALSE
    /\ pc' = [pc EXCEPT ![p] = "out"]
    /\ UNCHANGED <<disk, bufs, lh, outstanding, wrote, tail, boot, panicked>>

\* The end of end_op() for the process that committed.
end_commit(p) ==
    /\ Running
    /\ pc[p] = "committed"
    /\ committing' = FALSE
    /\ wakeup(p, "out")
    /\ UNCHANGED <<disk, bufs, lh, outstanding, wrote, tail, boot, panicked>>
-----------------------------------------------------------------------------
(* log_write() and its callers *)

\* bread(b), then a change of b->data, by a call that keeps to OPBLOCKS.
modify(p, b, v) ==
    /\ Running
    /\ pc[p] = "op"
    /\ \A q \in Proc : held[q] # b
    /\ b \in wrote[p] \/ Cardinality(wrote[p]) < OPBLOCKS
    /\ cache' = [cache EXCEPT ![b] = v]
    /\ held' = [held EXCEPT ![p] = b]
    /\ pc' = [pc EXCEPT ![p] = "modified"]
    /\ UNCHANGED <<disk, dirty, lh, outstanding, committing, wrote, tail, boot,
                   panicked>>

\* The two tests of log_write(), made before log.lock is taken.
log_write_checks(p) ==
    /\ Running
    /\ pc[p] = "modified"
    /\ IF Len(lh) >= LOGSIZE \/ Len(lh) + 1 >= NLOG \/ outstanding < 1
       THEN panicked' = TRUE /\ UNCHANGED pc
       ELSE pc' = [pc EXCEPT ![p] = "log_write"] /\ UNCHANGED panicked
    /\ UNCHANGED <<disk, bufs, lh, outstanding, committing, wrote, tail, boot>>

\* Mutant: the buffer is not pinned.
log_write_no_pin(p) ==
    /\ Running
    /\ pc[p] = "log_write"
    /\ lh' = IF Logged(lh, held[p]) THEN lh ELSE Append(lh, held[p])
    /\ wrote' = [wrote EXCEPT ![p] = @ \cup {held[p]}]
    /\ held' = [held EXCEPT ![p] = NoBlock]
    /\ pc' = [pc EXCEPT ![p] = "op"]
    /\ UNCHANGED <<disk, cache, dirty, outstanding, committing, tail, boot,
                   panicked>>

\* The rest of log_write(), under log.lock, and the caller's brelse().
log_write(p) ==
    /\ Running
    /\ pc[p] = "log_write"
    /\ lh' = IF Logged(lh, held[p]) THEN lh ELSE Append(lh, held[p])
    /\ dirty' = dirty \cup {held[p]}
    /\ wrote' = [wrote EXCEPT ![p] = @ \cup {held[p]}]
    /\ held' = [held EXCEPT ![p] = NoBlock]
    /\ pc' = [pc EXCEPT ![p] = "op"]
    /\ UNCHANGED <<disk, cache, outstanding, committing, tail, boot, panicked>>

\* bget() recycles a buffer that is neither held nor dirty: the next bread()
\* of its block reads the disk again.
recycle(b) ==
    /\ Running
    /\ b \notin dirty
    /\ \A p \in Proc : held[p] # b
    /\ cache' = [cache EXCEPT ![b] = home[b]]
    /\ UNCHANGED <<disk, dirty, held, lh, outstanding, committing, pc, wrote,
                   tail, boot, panicked>>
-----------------------------------------------------------------------------
(* commit() *)

write_log(p) ==
    /\ Running
    /\ pc[p] = "write_log"
    /\ dlog' = [dlog EXCEPT ![tail] = cache[lh[tail]]]
    /\ IF tail < Len(lh)
       THEN tail' = tail + 1 /\ UNCHANGED pc
       ELSE tail' = 1 /\ pc' = [pc EXCEPT ![p] = "write_head"]
    /\ UNCHANGED <<home, dhead, bufs, lh, outstanding, committing, wrote, boot,
                   panicked>>

\* write_head(): the header sector becomes a copy of log.lh.
write_head == dhead' = lh

commit_head(p) ==
    /\ Running
    /\ pc[p] = "write_head"
    /\ write_head
    /\ pc' = [pc EXCEPT ![p] = "install_trans"]
    /\ UNCHANGED <<home, dlog, bufs, lh, outstanding, committing, wrote, tail,
                   boot, panicked>>

\* One iteration of install_trans(): the log block goes home through its
\* buffer, whose B_DIRTY the completed write clears.
install_block ==
    /\ home' = [home EXCEPT ![lh[tail]] = dlog[tail]]
    /\ cache' = [cache EXCEPT ![lh[tail]] = dlog[tail]]
    /\ dirty' = dirty \ {lh[tail]}
    /\ UNCHANGED <<dlog, dhead, held>>

\* Mutant: the last block is not installed.
commit_install_short(p) ==
    /\ Running
    /\ pc[p] = "install_trans"
    /\ IF tail < Len(lh)
       THEN install_block /\ tail' = tail + 1 /\ UNCHANGED <<pc, lh>>
       ELSE /\ tail' = 1 /\ lh' = <<>>
            /\ pc' = [pc EXCEPT ![p] = "clear_head"]
            /\ UNCHANGED <<disk, bufs>>
    /\ UNCHANGED <<outstanding, committing, wrote, boot, panicked>>

\* The last iteration is followed by log.lh.n = 0.
commit_install(p) ==
    /\ Running
    /\ pc[p] = "install_trans"
    /\ install_block
    /\ IF tail < Len(lh)
       THEN tail' = tail + 1 /\ UNCHANGED <<pc, lh>>
       ELSE tail' = 1 /\ lh' = <<>> /\ pc' = [pc EXCEPT ![p] = "clear_head"]
    /\ UNCHANGED <<outstanding, committing, wrote, boot, panicked>>

clear_head(p) ==
    /\ Running
    /\ pc[p] = "clear_head"
    /\ write_head
    /\ pc' = [pc EXCEPT ![p] = "committed"]
    /\ UNCHANGED <<home, dlog, bufs, lh, outstanding, committing, wrote, tail,
                   boot, panicked>>
-----------------------------------------------------------------------------
(* initlog() -> recover_from_log() *)

read_head ==
    /\ boot = "read_head"
    /\ lh' = dhead
    /\ boot' = IF dhead = <<>> THEN "clear_head" ELSE "install_trans"
    /\ UNCHANGED <<disk, bufs, outstanding, committing, pc, wrote, tail,
                   panicked>>

recover_install ==
    /\ boot = "install_trans"
    /\ install_block
    /\ IF tail < Len(lh)
       THEN tail' = tail + 1 /\ UNCHANGED <<boot, lh>>
       ELSE tail' = 1 /\ lh' = <<>> /\ boot' = "clear_head"
    /\ UNCHANGED <<outstanding, committing, pc, wrote, panicked>>

recover_clear ==
    /\ boot = "clear_head"
    /\ write_head
    /\ boot' = "up"
    /\ UNCHANGED <<home, dlog, bufs, lh, outstanding, committing, pc, wrote,
                   tail, panicked>>

\* The machine stops and restarts: memory is lost, the disk stays.
crash ==
    /\ cache' = home
    /\ dirty' = {}
    /\ lh' = <<>>
    /\ outstanding' = 0
    /\ committing' = FALSE
    /\ pc' = [p \in Proc |-> "out"]
    /\ held' = [p \in Proc |-> NoBlock]
    /\ wrote' = [p \in Proc |-> {}]
    /\ tail' = 1
    /\ boot' = "read_head"
    /\ panicked' = FALSE
    /\ UNCHANGED disk
-----------------------------------------------------------------------------
commit(p) ==
    write_log(p) \/ commit_head(p) \/ commit_install(p) \/ clear_head(p)

\* What a process does once it is inside a file system call.
Step(p) ==
    \/ end_op(p) \/ log_write_checks(p) \/ log_write(p)
    \/ commit(p) \/ end_commit(p)

recover_from_log == read_head \/ recover_install \/ recover_clear

Next ==
    \/ \E p \in Proc : begin_op(p) \/ Step(p)
    \/ \E p \in Proc, b \in Block, v \in Val : modify(p, b, v)
    \/ \E b \in Block : recycle(b)
    \/ recover_from_log
    \/ crash

Spec == Init /\ [][Next]_vars

\* Kernel code that can run does run, and a file system call writes a bounded
\* number of times and then ends.  New calls and crashes need not happen.
Fairness ==
    \A p \in Proc :
        /\ WF_vars(Step(p))
        /\ SF_vars(end_op(p))
        /\ WF_vars(pc[p] = "begin" /\ begin_op(p))

FairSpec == Spec /\ Fairness
-----------------------------------------------------------------------------
(* Properties *)

\* What recovery would leave on the disk after a crash in this state.
Recovered ==
    [b \in Block |->
        IF Logged(dhead, b)
        THEN dlog[CHOOSE i \in 1..Len(dhead) : dhead[i] = b]
        ELSE home[b]]

Current == IF boot = "up" THEN cache ELSE Recovered

Abs == INSTANCE AtomicDisk WITH
    durable <- Recovered,
    current <- Current,
    active <- InOps

\* Crash atomicity: begin_op/log_write/end_op, commit and recovery implement
\* a disk whose durable contents change only by whole groups of finished
\* calls, whatever the step at which the machine stops, recovery included.
CrashAtomic == Abs!ASpec

\* end_op()'s promise: once the last call of a group has returned from
\* end_op(), everything written so far survives a crash.
DurableWhenIdle ==
    boot = "up" /\ outstanding = 0 /\ ~committing => Recovered = cache

\* Enough room for calls that write OPBLOCKS blocks, a rewrite when the log is
\* at its fullest included (log_write() tests lh.n before it looks for b).
RoomInLog ==
    /\ OPBLOCKS < MAXOPBLOCKS
    /\ LOGSIZE - (MAXOPBLOCKS - OPBLOCKS) < NLOG - 1

\* Neither panic of log_write() ("too big a transaction", "log_write outside
\* of trans") nor that of end_op() ("log.committing") can be reached: the
\* space begin_op() reserves is enough although log_write() tests lh.n
\* without the lock.
NoPanic == ~panicked

\* No lost wakeup in begin_op(): whenever a process sleeps on &log there is a
\* call or a commit in progress that will wake it up.
SleeperHasWaker ==
    (\E p \in Proc : pc[p] = "sleep") => committing \/ outstanding > 0

\* The write-ahead rule: a home block is overwritten only while the header
\* on the disk names it, so that a crash in the middle can redo the write.
WriteAhead == [][\A b \in Block : home'[b] # home[b] => Logged(dhead, b)]_vars

\* A commit ends and a process that sleeps in begin_op() is woken up.
SleeperWakes ==
    /\ committing ~> ~committing
    /\ \A p \in Proc : pc[p] = "sleep" ~> pc[p] # "sleep"
=============================================================================
