-------------------------- MODULE MCAtomicFlagGuard --------------------------
(* A few guards and flags for TLC. *)
EXTENDS AtomicFlagGuard

CONSTANTS g1, g2, g3, f1, f2

MCGuards == {g1, g2, g3}
MCFlags  == {f1, f2}

=============================================================================
