----------------------------- MODULE BlockStore -----------------------------
(***************************************************************************)
(* What the buffer cache promises the file system (src/bio.c): every block *)
(* has one content, which only the process that has the block may read or  *)
(* change, one process at a time.  Nothing else is visible: no copies, no  *)
(* eviction, no disk.                                                      *)
(***************************************************************************)
CONSTANTS Proc, NoProc, Block, Value

VARIABLES content, holder

svars == <<content, holder>>

SInit ==
    /\ content \in [Block -> Value]
    /\ holder = [k \in Block |-> NoProc]

\* bread() returns.
Get(p, k) ==
    /\ holder[k] = NoProc
    /\ holder' = [holder EXCEPT ![k] = p]
    /\ UNCHANGED content

\* The holder changes the block.
Put(p, k) ==
    /\ holder[k] = p
    /\ \E v \in Value : content' = [content EXCEPT ![k] = v]
    /\ UNCHANGED holder

\* brelse() gives the block back.
Drop(p, k) ==
    /\ holder[k] = p
    /\ holder' = [holder EXCEPT ![k] = NoProc]
    /\ UNCHANGED content

SNext == \E p \in Proc, k \in Block : Get(p, k) \/ Put(p, k) \/ Drop(p, k)

SSpec == SInit /\ [][SNext]_svars
=============================================================================
