-------------------- MODULE ConcurrentOrderBookProperties --------------------
(***************************************************************************)
(* What threads that share an order book may rely on.                        *)
(***************************************************************************)
EXTENDS ConcurrentOrderBook

InsideLock(w) == writer[w].pc \in {"open", "store", "unlock"}

\* At most one thread is between the lock and the unlock of processOrder or
\* shiftBook, and the flag tells whether one is (OrderBook.hpp:165-180,
\* 231-266).
OneWriter ==
    /\ \A v, w \in Writers : InsideLock(v) /\ InsideLock(w) => v = w
    /\ modifyLock <=> \E w \in Writers : InsideLock(w)

\* Calls of processOrder and shiftBook by several threads have the effect and
\* the answers of the same calls made one after the other, in the order in
\* which they hold the lock, as OrderBook describes them.
Linearizable == Core!AnyClientSpec

\* Every call of processOrder and shiftBook returns.
WritersReturn ==
    \A w \in Writers : writer[w].pc # "idle" ~> writer[w].pc = "idle"

Returns(r, pc) == reader[r].pc = pc /\ reader'[r].pc = "idle"

\* A quote is the best bid and the best offer that the book had together,
\* before or after the calls that overlap with the query: the odd version
\* invalidates reads while the book is manipulated (OrderBook.hpp:165-166).
QuoteNotTorn ==
    [][\A r \in Readers : Returns(r, "checkQuote") =>
          <<reader[r].bestBid, reader[r].bestOffer>> \in reader[r].possible]_vars

\* The same of both queries: nor is the volume at a price one that the book
\* holds only in the middle of a call (OrderBook.hpp:165-166).
QueriesNotTorn ==
    [][\A r \in Readers :
          /\ Returns(r, "checkQuote") =>
                <<reader[r].bestBid, reader[r].bestOffer>> \in reader[r].possible
          /\ Returns(r, "checkVolume") => reader[r].volume \in reader[r].possible]_vars

\* bestBidAsk returns, if the writers pause (readme.md:195 and 208-210).
QuoteReturns ==
    \A r \in Readers : reader[r].pc = "checkQuote" ~> reader[r].pc = "idle"

\* volumeAtPrice of a book that has been written to returns, if the writers
\* pause, also when writers interrupt it before (readme.md:195, 207).  Of a book
\* that was never written to it does not: the loop takes version 0 for odd.
VolumeReturnsOnceWritten ==
    \A r \in Readers :
       reader[r].pc = "checkVolume" /\ versionCounter > 0 ~> reader[r].pc = "idle"

=============================================================================
