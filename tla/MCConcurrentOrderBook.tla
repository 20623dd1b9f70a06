------------------------ MODULE MCConcurrentOrderBook ------------------------
(* Small shared order books for TLC. *)
EXTENDS ConcurrentOrderBookProperties

CONSTANTS w1, w2, r1

MCOneWriter  == {w1}
MCTwoWriters == {w1, w2}
MCNoThreads  == {}
MCOneReader  == {r1}

\* A buyer and a seller.
MCVolumes == {-1, 1}

\* A purchase that may clear a bucket and rest there.
MCLargePurchase == {-2, 1}

MCShifts  == {-1, 1}
MCNoShift == {}

MCBothQueries == {"bestBidAsk", "volumeAtPrice"}
MCQuotes      == {"bestBidAsk"}
MCVolumeReads == {"volumeAtPrice"}

=============================================================================
