------------------------------- MODULE MCLog -------------------------------
(* A small instance of Log for TLC, with the invariant that is proved of it. *)
EXTENDS LogProofs
=============================================================================
