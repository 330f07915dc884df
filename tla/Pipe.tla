-------------------------------- MODULE Pipe --------------------------------
(***************************************************************************)
(* A pipe (src/pipe.c), the two open files that are its ends (filedup()    *)
(* and fileclose() of src/file.c) and the processes that share them.  The  *)
(* loops of pipewrite() and piperead() run under p->lock; what another     *)
(* process can do between two of their steps is kill().                    *)
(***************************************************************************)
EXTENDS Integers, Sequences, FiniteSets

CONSTANTS
    Proc, NoProc,
    Parent,    \* the process that called pipe()
    Value,     \* bytes
    PIPESIZE,
    UINT,      \* 2^32, the modulus of nread and nwrite
    MAXCOUNT,  \* bound: the size of a read()
    Texts,     \* bound: what the processes write()
    Victims    \* the processes somebody kills

ASSUME PipeAssumption ==
    /\ NoProc \notin Proc /\ Parent \in Proc /\ Victims \subseteq Proc
    /\ IsFiniteSet(Proc) /\ Value # {}
    /\ PIPESIZE \in Nat \ {0} /\ MAXCOUNT \in Nat \ {0}
    /\ UINT \in Nat /\ UINT > PIPESIZE /\ UINT % PIPESIZE = 0
    /\ Texts \subseteq Seq(Value) /\ <<>> \notin Texts

VARIABLES
    lock,       \* p->lock
    data, nread, nwrite, readopen, writeopen,
    freed,      \* kfree() was called on the pipe
    ref,        \* f->ref of the two ends
    fds,        \* the ends each process has open
    killed,
    pc, n, todo,  \* of each process: place, size of its read, rest of its write
    got         \* what the last read() returned, until the next call

pipe == <<data, nread, nwrite, readopen, writeopen, freed>>
vars == <<lock, pipe, ref, fds, killed, pc, n, todo, got>>

End == {"read", "write"}

PCs == {"out", "reading", "r_sleep", "r_asleep", "r_relock",
        "writing", "w_sleep", "w_asleep", "w_relock", "close read", "close write"}

TypeOK ==
    /\ lock \in Proc \cup {NoProc}
    /\ data \in [0..PIPESIZE-1 -> Value]
    /\ nread \in 0..UINT-1 /\ nwrite \in 0..UINT-1
    /\ readopen \in BOOLEAN /\ writeopen \in BOOLEAN /\ freed \in BOOLEAN
    /\ ref \in [End -> 0..Cardinality(Proc)]
    /\ fds \in [Proc -> SUBSET End]
    /\ killed \in [Proc -> BOOLEAN]
    /\ pc \in [Proc -> PCs]
    /\ n \in [Proc -> 0..MAXCOUNT]
    /\ todo \in [Proc -> Seq(Value)]
    /\ got \in Seq(Value) /\ Len(got) <= MAXCOUNT

\* After pipealloc() and the fdalloc()s of sys_pipe().
Init ==
    /\ lock = NoProc
    /\ data = [i \in 0..PIPESIZE-1 |-> CHOOSE v \in Value : TRUE]
    /\ nread = 0 /\ nwrite = 0
    /\ readopen = TRUE /\ writeopen = TRUE /\ freed = FALSE
    /\ ref = [e \in End |-> 1]
    /\ fds = [p \in Proc |-> IF p = Parent THEN End ELSE {}]
    /\ killed = [p \in Proc |-> FALSE]
    /\ pc = [p \in Proc |-> "out"]
    /\ n = [p \in Proc |-> 0]
    /\ todo = [p \in Proc |-> <<>>]
    /\ got = <<>>

acquire(p) == lock = NoProc /\ lock' = p

release(p) == lock = p /\ lock' = NoProc

goto(p, l) == pc' = [pc EXCEPT ![p] = l]

\* wakeup(chan): the processes at sleep go on to the end of sleep(), and p
\* itself to l.
wakeup(asleep, awake, p, l) ==
    pc' = [q \in Proc |-> IF q = p THEN l
                          ELSE IF pc[q] = asleep THEN awake ELSE pc[q]]

Count == (nwrite - nread) % UINT

\* Mutant: the test for a full pipe is off by one.
Space_plus == PIPESIZE + 1 - Count

\* What the loop of pipewrite() stores before nwrite == nread + PIPESIZE.
Space == PIPESIZE - Count

Min(a, b) == IF a < b THEN a ELSE b

Bytes == [i \in 1..Count |-> data[(nread + i - 1) % PIPESIZE]]
-----------------------------------------------------------------------------
(* pipewrite() *)

pipewrite(p) ==
    /\ pc[p] = "out" /\ ~killed[p]
    /\ "write" \in fds[p]
    /\ acquire(p)
    /\ \E s \in Texts : todo' = [todo EXCEPT ![p] = s]
    /\ goto(p, "writing")
    /\ got' = <<>>
    /\ UNCHANGED <<pipe, ref, fds, killed, n>>

\* k bytes of p's write go into the ring.
store(p, k) ==
    /\ data' = [i \in 0..PIPESIZE-1 |->
                  IF \E j \in 1..k : (nwrite + j - 1) % PIPESIZE = i
                  THEN todo[p][CHOOSE j \in 1..k :
                          /\ (nwrite + j - 1) % PIPESIZE = i
                          /\ \A m \in j+1..k : (nwrite + m - 1) % PIPESIZE # i]
                  ELSE data[i]]
    /\ nwrite' = (nwrite + k) % UINT
    /\ UNCHANGED <<nread, readopen, writeopen, freed>>

\* All bytes fit: wakeup(&p->nread) and return n.
pipewrite_all(p) ==
    /\ pc[p] = "writing"
    /\ Len(todo[p]) <= Space
    /\ store(p, Len(todo[p]))
    /\ todo' = [todo EXCEPT ![p] = <<>>]
    /\ wakeup("r_asleep", "r_relock", p, "out")
    /\ release(p)
    /\ UNCHANGED <<ref, fds, killed, n, got>>

\* The pipe fills up, and there is no reader or the writer is killed:
\* return -1.
pipewrite_fails(p) ==
    /\ pc[p] = "writing"
    /\ Len(todo[p]) > Space
    /\ ~readopen \/ killed[p]
    /\ store(p, Space)
    /\ todo' = [todo EXCEPT ![p] = <<>>]
    /\ goto(p, "out")
    /\ release(p)
    /\ UNCHANGED <<ref, fds, killed, n, got>>

\* Mutant: the writer fills the pipe and sleeps without waking the reader.
pipewrite_full_silent(p) ==
    /\ pc[p] = "writing"
    /\ Len(todo[p]) > Space
    /\ readopen /\ ~killed[p]
    /\ store(p, Space)
    /\ todo' = [todo EXCEPT ![p] = SubSeq(@, Space + 1, Len(@))]
    /\ goto(p, "w_sleep")
    /\ UNCHANGED <<lock, ref, fds, killed, n, got>>

\* The pipe fills up: wakeup(&p->nread) and on to sleep().
pipewrite_full(p) ==
    /\ pc[p] = "writing"
    /\ Len(todo[p]) > Space
    /\ readopen /\ ~killed[p]
    /\ store(p, Space)
    /\ todo' = [todo EXCEPT ![p] = SubSeq(@, Space + 1, Len(@))]
    /\ wakeup("r_asleep", "r_relock", p, "w_sleep")
    /\ UNCHANGED <<lock, ref, fds, killed, n, got>>
-----------------------------------------------------------------------------
(* piperead() *)

piperead(p) ==
    /\ pc[p] = "out" /\ ~killed[p]
    /\ "read" \in fds[p]
    /\ acquire(p)
    /\ \E k \in 1..MAXCOUNT : n' = [n EXCEPT ![p] = k]
    /\ goto(p, "reading")
    /\ got' = <<>>
    /\ UNCHANGED <<pipe, ref, fds, killed, todo>>

\* Mutant: an empty pipe is the end of the file only for a killed process.
Waits_always == nread = nwrite

\* The condition of the loop: nothing to read yet.
Waits == nread = nwrite /\ writeopen

piperead_killed(p) ==
    /\ pc[p] = "reading"
    /\ Waits
    /\ killed[p]
    /\ n' = [n EXCEPT ![p] = 0]
    /\ goto(p, "out")
    /\ release(p)
    /\ UNCHANGED <<pipe, ref, fds, killed, todo, got>>

piperead_empty(p) ==
    /\ pc[p] = "reading"
    /\ Waits
    /\ ~killed[p]
    /\ goto(p, "r_sleep")
    /\ UNCHANGED <<lock, pipe, ref, fds, killed, n, todo, got>>

\* The copy (of nothing, at the end of the file), and wakeup(&p->nwrite).
piperead_copy(p) ==
    /\ pc[p] = "reading"
    /\ ~Waits
    /\ LET k == Min(n[p], Count)
       IN  got' = SubSeq(Bytes, 1, k) /\ nread' = (nread + k) % UINT
    /\ n' = [n EXCEPT ![p] = 0]
    /\ wakeup("w_asleep", "w_relock", p, "out")
    /\ release(p)
    /\ UNCHANGED <<data, nwrite, readopen, writeopen, freed, ref, fds, killed, todo>>
-----------------------------------------------------------------------------
(* sleep() and kill() *)

\* sleep(chan, &p->lock), under ptable.lock.
sleep(p) ==
    /\ pc[p] \in {"r_sleep", "w_sleep"}
    /\ goto(p, IF pc[p] = "r_sleep" THEN "r_asleep" ELSE "w_asleep")
    /\ release(p)
    /\ UNCHANGED <<pipe, ref, fds, killed, n, todo, got>>

\* The end of sleep(), back to the loop.
relock(p) ==
    /\ pc[p] \in {"r_relock", "w_relock"}
    /\ acquire(p)
    /\ goto(p, IF pc[p] = "r_relock" THEN "reading" ELSE "writing")
    /\ UNCHANGED <<pipe, ref, fds, killed, n, todo, got>>

kill(p) ==
    /\ p \in Victims /\ ~killed[p]
    /\ killed' = [killed EXCEPT ![p] = TRUE]
    /\ goto(p, CASE pc[p] = "r_asleep" -> "r_relock"
                 [] pc[p] = "w_asleep" -> "w_relock"
                 [] OTHER -> pc[p])
    /\ UNCHANGED <<lock, pipe, ref, fds, n, todo, got>>
-----------------------------------------------------------------------------
(* The ends of the pipe *)

\* fork(): the child q gets p's open files, each through filedup().
filedup(p, q) ==
    /\ pc[p] = "out" /\ ~killed[p] /\ fds[p] # {}
    /\ pc[q] = "out" /\ ~killed[q] /\ fds[q] = {}
    /\ fds' = [fds EXCEPT ![q] = fds[p]]
    /\ ref' = [e \in End |-> IF e \in fds[p] THEN ref[e] + 1 ELSE ref[e]]
    /\ UNCHANGED <<lock, pipe, killed, pc, n, todo, got>>

\* fileclose(), from sys_close() or exit(), up to pipeclose().
fileclose(p, e) ==
    /\ pc[p] = "out"
    /\ e \in fds[p]
    /\ fds' = [fds EXCEPT ![p] = @ \ {e}]
    /\ ref' = [ref EXCEPT ![e] = @ - 1]
    /\ goto(p, IF ref[e] > 1 THEN "out"
               ELSE IF e = "read" THEN "close read" ELSE "close write")
    /\ UNCHANGED <<lock, pipe, killed, n, todo, got>>

\* Mutant: the pipe is freed with its write end.
pipeclose_write_frees(p) ==
    /\ pc[p] = "close write"
    /\ lock = NoProc
    /\ writeopen' = FALSE
    /\ freed' = TRUE
    /\ wakeup("r_asleep", "r_relock", p, "out")
    /\ UNCHANGED <<lock, data, nread, nwrite, readopen, ref, fds, killed, n,
                   todo, got>>

\* pipeclose(p, 1)
pipeclose_write(p) ==
    /\ pc[p] = "close write"
    /\ lock = NoProc
    /\ writeopen' = FALSE
    /\ freed' = ~readopen
    /\ wakeup("r_asleep", "r_relock", p, "out")
    /\ UNCHANGED <<lock, data, nread, nwrite, readopen, ref, fds, killed, n,
                   todo, got>>

\* pipeclose(p, 0)
pipeclose_read(p) ==
    /\ pc[p] = "close read"
    /\ lock = NoProc
    /\ readopen' = FALSE
    /\ freed' = ~writeopen
    /\ wakeup("w_asleep", "w_relock", p, "out")
    /\ UNCHANGED <<lock, data, nread, nwrite, writeopen, ref, fds, killed, n,
                   todo, got>>
-----------------------------------------------------------------------------
Locked(p) ==
    \/ pipewrite_all(p) \/ pipewrite_fails(p) \/ pipewrite_full(p)
    \/ piperead_killed(p) \/ piperead_empty(p) \/ piperead_copy(p)
    \/ sleep(p)

Locking(p) == relock(p) \/ pipeclose_write(p) \/ pipeclose_read(p)

Next ==
    \/ \E p \in Proc :
          pipewrite(p) \/ piperead(p) \/ Locked(p) \/ Locking(p) \/ kill(p)
    \/ \E p, q \in Proc : filedup(p, q)
    \/ \E p \in Proc, e \in End : fileclose(p, e)

Spec == Init /\ [][Next]_vars

\* A process in the kernel runs on, and gets p->lock at last.
Fairness == \A p \in Proc : WF_vars(Locked(p)) /\ SF_vars(Locking(p))

FairSpec == Spec /\ Fairness
-----------------------------------------------------------------------------
(* Properties *)

Abs == INSTANCE Fifo WITH queue <- Bytes, CAPACITY <- PIPESIZE

\* pipewrite() and piperead() implement a bounded queue of bytes, over the
\* wraparound of the ring and of the 32-bit counters: no byte is lost,
\* repeated, overwritten or overtaken, and the bytes of one write stay in
\* order.
IsFifo == Abs!FSpec

\* The page of the pipe is freed by the second pipeclose(), when no process is
\* inside pipewrite(), piperead() or pipeclose() any more or can enter them.
FreedIsUnused ==
    /\ TypeOK
    /\ freed => \A p \in Proc : fds[p] = {} /\ pc[p] = "out"

\* "DOC: pipe-empty": piperead() sleeps while the pipe is empty, so that no
\* reader is left asleep when there are bytes for it or no writer is left.
ReaderSleepsOnEmpty ==
    \A p \in Proc : pc[p] = "r_asleep" => nread = nwrite /\ writeopen

\* Nobody sleeps without a reason.  As long as nobody is killed the above holds:
\* every write that ends or that fills the pipe, and every close, wakes the
\* readers.  "DOC: pipewrite-full": pipewrite() sleeps while the pipe is full,
\* so that no writer is left asleep when there is room or no reader is left.
SleepersMustWait ==
    /\ (\A p \in Proc : ~killed[p]) => ReaderSleepsOnEmpty
    /\ \A p \in Proc : pc[p] = "w_asleep" =>
           nwrite = (nread + PIPESIZE) % UINT /\ readopen

\* Why the above hold: who may be inside which function.  The process that
\* dropped the last reference to an end is the only one in pipeclose() for it,
\* and the flags of the pipe change there.
Has(e) == {p \in Proc : e \in fds[p]}
Closing(e) == {p \in Proc : pc[p] = IF e = "read" THEN "close read" ELSE "close write"}
RefsInv == \A e \in End : ref[e] = Cardinality(Has(e))
InsideInv ==
    \A p \in Proc :
        /\ pc[p] \in {"reading", "r_sleep", "r_asleep", "r_relock"} => p \in Has("read")
        /\ pc[p] \in {"writing", "w_sleep", "w_asleep", "w_relock"} => p \in Has("write")
ClosingInv == \A e \in End : \A p \in Closing(e) : Has(e) = {} /\ Closing(e) = {p}
OpenInv ==
    /\ readopen <=> Has("read") \cup Closing("read") # {}
    /\ writeopen <=> Has("write") \cup Closing("write") # {}
    /\ freed <=> ~readopen /\ ~writeopen
EndsInv == RefsInv /\ InsideInv /\ ClosingInv /\ OpenInv

\* The lock is held in the loops, up to the end of sleep(); the ring is never
\* over-full; and whoever is on the way to sleep, or asleep, has reason to be.
LockInv ==
    \A p \in Proc : lock = p <=> pc[p] \in {"reading", "r_sleep", "writing", "w_sleep"}
FullInv == \A p \in Proc : pc[p] \in {"w_sleep", "w_asleep"} => Space = 0 /\ readopen
EmptyInv ==
    (\A p \in Proc : ~killed[p]) =>
        \A p \in Proc : pc[p] \in {"r_sleep", "r_asleep"} => Waits
RingInv == Count <= PIPESIZE /\ LockInv /\ FullInv /\ EmptyInv

\* Only a process inside pipewrite() has bytes left to write.
IdleInv ==
    \A p \in Proc :
        todo[p] # <<>> => pc[p] \in {"writing", "w_sleep", "w_asleep", "w_relock"}

PipeInv == TypeOK /\ EndsInv /\ RingInv /\ IdleInv

\* When the last process at the other end has gone, every reader returns with
\* what is left or with the end of the file, and every writer with an error.
CloseReleases ==
    \A p \in Proc :
        /\ ~writeopen /\ pc[p] \in {"reading", "r_sleep", "r_asleep"} ~> pc[p] = "out"
        /\ ~readopen /\ pc[p] \in {"writing", "w_sleep", "w_asleep"} ~> pc[p] = "out"
=============================================================================
