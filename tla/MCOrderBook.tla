---------------------------- MODULE MCOrderBook ----------------------------
(* Small order books for TLC. *)
EXTENDS OrderBookProperties

\* Orders on either side of one lot, and of three, which sweep a book of three;
\* and blank ones.
MCVolumes == {-3, -1, 0, 1, 3}

\* Orders of one lot and blank ones.
MCUnitVolumes == -1..1

\* Shifts to either side: by nothing, by part of a book of length 3, and by
\* all of it.
MCShifts == -3..3

\* Shifts that move volume out of memory or leave a copy of it behind.
MCShiftByOne == {-1, 1}

=============================================================================
