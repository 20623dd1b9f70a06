--------------------------- MODULE MCSeqLockQueue ---------------------------
(* A queue of two slots for TLC.  Readers write nothing that others read, so *)
(* that one of them has every behaviour that a reader can have.              *)
EXTENDS SeqLockQueue

CONSTANT r1

MCReaders == {r1}
MCWords   == 1..2

=============================================================================
