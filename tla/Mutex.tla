-------------------------------- MODULE Mutex --------------------------------
(* What a lock promises (src/sleeplock.c): it has one owner at a time, and   *)
(* only the owner gives it up.                                               *)
CONSTANTS Proc, NoProc

VARIABLE owner

MInit == owner = NoProc

MAcquire(p) == owner = NoProc /\ owner' = p

MRelease(p) == owner = p /\ owner' = NoProc

MNext == \E p \in Proc : MAcquire(p) \/ MRelease(p)

MSpec == MInit /\ [][MNext]_owner
=============================================================================
