-------------------------------- MODULE Fifo --------------------------------
(***************************************************************************)
(* What a pipe promises (src/pipe.c): a bounded queue of bytes.  A write   *)
(* goes to its end in one or more pieces, in order, or is given up; a read *)
(* takes some bytes from its front.                                        *)
(***************************************************************************)
EXTENDS Naturals, Sequences

CONSTANTS Proc, CAPACITY

VARIABLES
    queue,  \* the bytes in the pipe
    todo,   \* what each write() has still to put in
    got     \* what the last read() returned, until the next call

fvars == <<queue, todo, got>>

FInit == queue = <<>> /\ todo = [p \in Proc |-> <<>>] /\ got = <<>>

Begin(p) ==
    /\ todo[p] = <<>>
    /\ todo' = [todo EXCEPT ![p] = todo'[p]]
    /\ got' = <<>>
    /\ UNCHANGED queue

\* A piece goes in; what is left is written later, or never.
Put(p) ==
    /\ \E k \in 0..Len(todo[p]) :
           /\ queue' = queue \o SubSeq(todo[p], 1, k)
           /\ todo' \in {[todo EXCEPT ![p] = SubSeq(@, k + 1, Len(@))],
                         [todo EXCEPT ![p] = <<>>]}
    /\ Len(queue') <= CAPACITY
    /\ UNCHANGED got

Get ==
    /\ \E k \in 0..Len(queue) :
           /\ got' = SubSeq(queue, 1, k)
           /\ queue' = SubSeq(queue, k + 1, Len(queue))
    /\ UNCHANGED todo

FNext == Get \/ \E p \in Proc : Begin(p) \/ Put(p)

FSpec == FInit /\ [][FNext]_fvars
=============================================================================
