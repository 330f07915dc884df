-------------------------------- MODULE MCVm --------------------------------
(* Small instances of Vm for TLC. *)
EXTENDS Vm

CONSTANTS s1, s2

SmallDeltas == {-1, 1, 3}
=============================================================================
