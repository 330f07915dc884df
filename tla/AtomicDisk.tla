----------------------------- MODULE AtomicDisk -----------------------------
(***************************************************************************)
(* What the logging layer (src/log.c) promises to the file system above it *)
(* : file system calls run concurrently and update blocks in memory; the   *)
(* disk moves from one state to the next only as a whole, and only to a    *)
(* state in which no call is half done; a crash loses the calls since then *)
(* and nothing else.                                                       *)
(***************************************************************************)
CONSTANTS Proc, Block, Val

VARIABLES
    durable,  \* the contents a crash now would leave
    current,  \* the contents the running calls see
    active    \* the calls between begin_op() and end_op()

avars == <<durable, current, active>>

AInit ==
    /\ durable \in [Block -> Val]
    /\ current = durable
    /\ active = {}

ABegin(p) ==
    /\ p \notin active
    /\ active' = active \cup {p}
    /\ UNCHANGED <<durable, current>>

AWrite(p, b, v) ==
    /\ p \in active
    /\ current' = [current EXCEPT ![b] = v]
    /\ UNCHANGED <<durable, active>>

AEnd(p) ==
    /\ p \in active
    /\ active' = active \ {p}
    /\ UNCHANGED <<durable, current>>

\* The only step that changes what is durable: all finished calls at once,
\* and never while some call has done only a part of its writes.
ACommit ==
    /\ active = {}
    /\ durable' = current
    /\ UNCHANGED <<current, active>>

ACrash ==
    /\ current' = durable
    /\ active' = {}
    /\ UNCHANGED durable

ANext ==
    \/ \E p \in Proc :
        \/ ABegin(p)
        \/ AEnd(p)
        \/ \E b \in Block, v \in Val : AWrite(p, b, v)
    \/ ACommit
    \/ ACrash

ASpec == AInit /\ [][ANext]_avars
=============================================================================
