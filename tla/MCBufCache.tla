----------------------------- MODULE MCBufCache -----------------------------
(* Small instances of BufCache for TLC. *)
EXTENDS BufCache

CONSTANTS p1, p2, b1, b2, k1, k2, k3
=============================================================================
