------------------------------ MODULE BufCache ------------------------------
(***************************************************************************)
(* The buffer cache (src/bio.c) over the disk driver (src/ide.c): several  *)
(* processes get, change, write and release the cached copies of disk      *)
(* blocks, while one controller works through the queue of requests and    *)
(* interrupts.  What runs under bcache.lock, or under idelock, is one      *)
(* step.  The sleep-lock of a buffer is the lock that SleepLock.tla shows  *)
(* it to be.                                                               *)
(***************************************************************************)
EXTENDS Naturals, Sequences, FiniteSets

CONSTANTS
    Proc, NoProc,
    Buf,      \* the buffers of bcache.buf
    NoBuf,
    Block,    \* block numbers
    NoBlock,  \* the block number of a buffer that was never used
    Value,    \* contents of a block
    MAXPIN,   \* bound: blocks the log keeps modified in the cache
    Outcome   \* how the controller may end a command: TRUE, or FALSE (IDE_ERR)

ASSUME BufCacheAssumption ==
    /\ NoProc \notin Proc /\ IsFiniteSet(Proc)
    /\ NoBlock \notin Block
    /\ NoBuf \notin Buf /\ IsFiniteSet(Buf)
    /\ Value # {}
    /\ MAXPIN \in Nat
    /\ TRUE \in Outcome /\ Outcome \subseteq BOOLEAN

VARIABLES
    buf,       \* the struct buf of each buffer: its fields but the links
    lru,       \* the list from bcache.head, the most recently used first
    idequeue,  \* the requests, the one the controller works on first
    command,   \* the controller: the last command, and its progress
    disk,      \* the blocks on the disk
    pc, my,    \* where each process is, and the buffer it works with
    panicked

vars == <<buf, lru, idequeue, command, disk, pc, my, panicked>>

PCs == {"out", "bget", "bread", "iderw", "asleep", "awake", "in", "brelse"}

TypeOK ==
    /\ buf \in [Buf -> [blockno : Block \cup {NoBlock}, valid : BOOLEAN,
                        dirty : BOOLEAN, refcnt : Nat, data : Value,
                        lock : Proc \cup {NoProc}]]
    /\ lru \in Seq(Buf) /\ Len(lru) = Cardinality(Buf)
    /\ {lru[i] : i \in DOMAIN lru} = Buf
    /\ idequeue \in Seq(Buf)
    /\ command \in [at : {"idle", "busy", "irq"}, write : BOOLEAN,
                    blockno : Block \cup {NoBlock}, data : Value, ok : BOOLEAN]
    /\ disk \in [Block -> Value]
    /\ pc \in [Proc -> PCs]
    /\ my \in [Proc -> Buf \cup {NoBuf}]
    /\ panicked \in BOOLEAN

zero == CHOOSE v \in Value : TRUE

NoCommand == [at |-> "idle", write |-> FALSE, blockno |-> NoBlock,
              data |-> zero, ok |-> TRUE]

\* binit() links every buffer into the list once; which order is no matter.
Linked ==
    CHOOSE s \in [1..Cardinality(Buf) -> Buf] :
        \A i, j \in DOMAIN s : s[i] = s[j] => i = j

\* binit(): the buffers are all zero.
Init ==
    /\ buf = [b \in Buf |-> [blockno |-> NoBlock, valid |-> FALSE,
                             dirty |-> FALSE, refcnt |-> 0, data |-> zero,
                             lock |-> NoProc]]
    /\ lru = Linked
    /\ idequeue = <<>>
    /\ command = NoCommand
    /\ disk \in [Block -> Value]
    /\ pc = [p \in Proc |-> "out"]
    /\ my = [p \in Proc |-> NoBuf]
    /\ panicked = FALSE

\* A process takes steps until a panic stops the machine.
at(p, l) == pc[p] = l /\ ~panicked

goto(p, l) == pc' = [pc EXCEPT ![p] = l]

Cached(k) == {b \in Buf : buf[b].blockno = k}

Pinned == {b \in Buf : buf[b].dirty}
-----------------------------------------------------------------------------
(* bread() *)

\* bget() finds the block in the cache.
bget_cached(p, k) ==
    /\ at(p, "out")
    /\ \E b \in Cached(k) :
           /\ buf' = [buf EXCEPT ![b].refcnt = @ + 1]
           /\ my' = [my EXCEPT ![p] = b]
    /\ goto(p, "bget")
    /\ UNCHANGED <<lru, idequeue, command, disk, panicked>>

\* Mutant: the log's modified blocks count as unused.
Unused_dirty(b) == buf[b].refcnt = 0

Unused(b) == buf[b].refcnt = 0 /\ ~buf[b].dirty

\* Mutant: a recycled buffer keeps its flags.
bget_recycle_flags(p, k) ==
    /\ at(p, "out")
    /\ Cached(k) = {}
    /\ \E i \in 1..Len(lru) :
           /\ Unused(lru[i])
           /\ \A j \in i+1..Len(lru) : ~Unused(lru[j])
           /\ buf' = [buf EXCEPT ![lru[i]] = [@ EXCEPT !.blockno = k,
                                                       !.refcnt = 1]]
           /\ my' = [my EXCEPT ![p] = lru[i]]
    /\ goto(p, "bget")
    /\ UNCHANGED <<lru, idequeue, command, disk, panicked>>

\* bget() recycles the unused buffer nearest to the tail of the list.
bget_recycle(p, k) ==
    /\ at(p, "out")
    /\ Cached(k) = {}
    /\ \E i \in 1..Len(lru) :
           /\ Unused(lru[i])
           /\ \A j \in i+1..Len(lru) : ~Unused(lru[j])
           /\ buf' = [buf EXCEPT ![lru[i]] = [@ EXCEPT !.blockno = k,
                         !.valid = FALSE, !.dirty = FALSE, !.refcnt = 1]]
           /\ my' = [my EXCEPT ![p] = lru[i]]
    /\ goto(p, "bget")
    /\ UNCHANGED <<lru, idequeue, command, disk, panicked>>

\* panic("bget: no buffers")
bget_panic(p, k) ==
    /\ at(p, "out")
    /\ Cached(k) = {}
    /\ \A b \in Buf : ~Unused(b)
    /\ panicked' = TRUE
    /\ UNCHANGED <<buf, lru, idequeue, command, disk, pc, my>>

\* The end of bget(): acquiresleep(&b->lock).
acquiresleep(p) ==
    /\ at(p, "bget")
    /\ buf[my[p]].lock = NoProc
    /\ buf' = [buf EXCEPT ![my[p]].lock = p]
    /\ goto(p, "bread")
    /\ UNCHANGED <<lru, idequeue, command, disk, my, panicked>>

\* The test of bread().
bread(p) ==
    /\ at(p, "bread")
    /\ goto(p, IF buf[my[p]].valid THEN "in" ELSE "iderw")
    /\ UNCHANGED <<buf, lru, idequeue, command, disk, my, panicked>>
-----------------------------------------------------------------------------
(* What the holder of a buffer does with it: a change is always followed,  *)
(* before brelse(), by log_write() or by bwrite().                         *)

\* A change, and the B_DIRTY of log_write().
log_write(p) ==
    /\ at(p, "in")
    /\ buf[my[p]].dirty \/ Cardinality(Pinned) < MAXPIN
    /\ \E v \in Value : buf' = [buf EXCEPT ![my[p]].data = v,
                                           ![my[p]].dirty = TRUE]
    /\ UNCHANGED <<lru, idequeue, command, disk, pc, my, panicked>>

\* A change, and bwrite() up to iderw(); with the data as it is, this is
\* install_trans() writing a block of the log home.
bwrite(p) ==
    /\ at(p, "in")
    /\ \E v \in Value : buf' = [buf EXCEPT ![my[p]].data = v,
                                           ![my[p]].dirty = TRUE]
    /\ goto(p, "iderw")
    /\ UNCHANGED <<lru, idequeue, command, disk, my, panicked>>

\* brelse() up to releasesleep().
brelse(p) ==
    /\ at(p, "in")
    /\ buf' = [buf EXCEPT ![my[p]].lock = NoProc]
    /\ goto(p, "brelse")
    /\ UNCHANGED <<lru, idequeue, command, disk, my, panicked>>

\* b is unlinked and becomes bcache.head.next.
ToFront(b) ==
    LET i == CHOOSE i \in DOMAIN lru : lru[i] = b
    IN  [j \in DOMAIN lru |-> IF j = 1 THEN b
                             ELSE IF j <= i THEN lru[j - 1] ELSE lru[j]]

\* The rest of brelse(), under bcache.lock.
brelse_unref(p) ==
    /\ at(p, "brelse")
    /\ buf' = [buf EXCEPT ![my[p]].refcnt = @ - 1]
    /\ lru' = IF buf[my[p]].refcnt = 1 THEN ToFront(my[p]) ELSE lru
    /\ my' = [my EXCEPT ![p] = NoBuf]
    /\ goto(p, "out")
    /\ UNCHANGED <<idequeue, command, disk, panicked>>
-----------------------------------------------------------------------------
(* iderw(), and the interrupt *)

\* The controller gets a command, with the data when it is a write.
idestart(b) ==
    command' = [at |-> "busy", write |-> buf[b].dirty,
                blockno |-> buf[b].blockno, data |-> buf[b].data,
                ok |-> TRUE]

\* iderw() up to its sleep(), under idelock, or the panic "nothing to do".
iderw(p) ==
    /\ at(p, "iderw")
    /\ IF buf[my[p]].valid /\ ~buf[my[p]].dirty
       THEN panicked' = TRUE /\ UNCHANGED <<idequeue, command, pc>>
       ELSE /\ idequeue' = Append(idequeue, my[p])
            /\ IF idequeue = <<>> THEN idestart(my[p]) ELSE UNCHANGED command
            /\ goto(p, "asleep")
            /\ UNCHANGED panicked
    /\ UNCHANGED <<buf, lru, disk, my>>

\* kill() makes the process runnable before its request is done.
kill(p) ==
    /\ at(p, "asleep")
    /\ goto(p, "awake")
    /\ UNCHANGED <<buf, lru, idequeue, command, disk, my, panicked>>

\* Mutant: iderw() sleeps once and returns.
iderw_while_once(p) ==
    /\ at(p, "awake")
    /\ goto(p, "in")
    /\ UNCHANGED <<buf, lru, idequeue, command, disk, my, panicked>>

\* The loop of iderw() after sleep(): asleep again, or return.
iderw_while(p) ==
    /\ at(p, "awake")
    /\ goto(p, IF buf[my[p]].valid /\ ~buf[my[p]].dirty THEN "in" ELSE "asleep")
    /\ UNCHANGED <<buf, lru, idequeue, command, disk, my, panicked>>

\* The controller ends its command and interrupts.  A command that fails
\* neither writes the disk nor has data to read.
controller ==
    /\ command.at = "busy" /\ ~panicked
    /\ \E ok \in Outcome :
           /\ command' = [command EXCEPT !.at = "irq", !.ok = ok,
                             !.data = IF ok /\ ~command.write
                                      THEN disk[command.blockno] ELSE @]
           /\ disk' = IF command.write /\ ok
                      THEN [disk EXCEPT ![command.blockno] = command.data]
                      ELSE disk
    /\ UNCHANGED <<buf, lru, idequeue, pc, my, panicked>>

\* An interrupt with no request in the queue.
ideintr_empty ==
    /\ idequeue = <<>> /\ ~panicked
    /\ UNCHANGED vars

\* The buffer after its request: a read that failed leaves its data alone.
Synced(b) ==
    [buf[b] EXCEPT !.valid = TRUE, !.dirty = FALSE,
                   !.data = IF ~buf[b].dirty /\ command.ok THEN command.data ELSE @]

\* Mutant: the next request is not started.
ideintr_stops ==
    LET b == Head(idequeue)
    IN  /\ command.at = "irq" /\ ~panicked
        /\ idequeue # <<>>
        /\ idequeue' = Tail(idequeue)
        /\ buf' = [buf EXCEPT ![b] = Synced(b)]
        /\ pc' = [p \in Proc |-> IF pc[p] = "asleep" /\ my[p] = b THEN "awake"
                                 ELSE pc[p]]
        /\ command' = NoCommand
        /\ UNCHANGED <<lru, disk, my, panicked>>

\* ideintr(): the first request is done, its process wakes, the next starts.
ideintr ==
    LET b == Head(idequeue)
    IN  /\ command.at = "irq" /\ ~panicked
        /\ idequeue # <<>>
        /\ idequeue' = Tail(idequeue)
        /\ buf' = [buf EXCEPT ![b] = Synced(b)]
        /\ pc' = [p \in Proc |-> IF pc[p] = "asleep" /\ my[p] = b THEN "awake"
                                 ELSE pc[p]]
        /\ IF Tail(idequeue) # <<>> THEN idestart(idequeue[2])
           ELSE command' = NoCommand
        /\ UNCHANGED <<lru, disk, my, panicked>>
-----------------------------------------------------------------------------
halted == panicked /\ UNCHANGED vars

\* The steps of a process inside bread(), bwrite() and brelse().
Call(p) ==
    \/ acquiresleep(p) \/ bread(p) \/ iderw(p) \/ iderw_while(p)
    \/ brelse_unref(p)

Next ==
    \/ \E p \in Proc, k \in Block :
           bget_cached(p, k) \/ bget_recycle(p, k) \/ bget_panic(p, k)
    \/ \E p \in Proc :
           Call(p) \/ log_write(p) \/ bwrite(p) \/ brelse(p) \/ kill(p)
    \/ controller
    \/ ideintr
    \/ ideintr_empty
    \/ halted

Spec == Init /\ [][Next]_vars

\* A process that can run runs on, and the controller ends its commands.
\* What a process does with a buffer it has is up to it.
Fairness ==
    /\ \A p \in Proc : WF_vars(Call(p))
    /\ WF_vars(controller)
    /\ WF_vars(ideintr)

FairSpec == Spec /\ Fairness
-----------------------------------------------------------------------------
(* Properties *)

Valid(k) == {b \in Cached(k) : buf[b].valid}

Contents == [k \in Block |->
    IF Valid(k) = {} THEN disk[k]
    ELSE buf[CHOOSE b \in Valid(k) : TRUE].data]

Holders == [k \in Block |->
    IF Valid(k) = {} THEN NoProc ELSE buf[CHOOSE b \in Valid(k) : TRUE].lock]

Abs == INSTANCE BlockStore WITH content <- Contents, holder <- Holders

\* bread(), bwrite() and brelse() give the file system blocks with one content
\* each: what a process reads is what the last holder of the block left in
\* it, whatever was evicted, re-read or written behind in between.
OneContent == Abs!SSpec

\* A block has at most one buffer, and refcnt counts the processes between
\* bget() and the end of brelse(), so that bget() never recycles a buffer that
\* somebody has, waits for or is about to release.  "Return a locked buf with
\* the contents of the indicated block": the data of a buffer that is valid and
\* clean is what the disk has, so that bread() may return it and bget() may
\* recycle it.
CacheExact ==
    /\ TypeOK
    /\ \A k \in Block : Cardinality(Cached(k)) <= 1
    /\ \A b \in Buf :
           /\ buf[b].refcnt = Cardinality({p \in Proc : my[p] = b})
           /\ buf[b].valid /\ ~buf[b].dirty => disk[buf[b].blockno] = buf[b].data

\* When the write of bwrite() ends, the block on the disk has the new data.
BwriteWrites ==
    [][\A p \in Proc : pc[p] = "awake" /\ pc'[p] = "in" =>
           disk'[buf[my[p]].blockno] = buf[my[p]].data]_vars

\* Every request for the disk is served, and its process returns, unless
\* bget() panics for another one: no wakeup of ideintr() is lost, and the
\* request behind the one that ended is started.
RequestsEnd ==
    \A p \in Proc : pc[p] \in {"iderw", "asleep", "awake"} ~>
                      (pc[p] = "in" \/ panicked)
=============================================================================
