------------------------ MODULE OrderBookProperties ------------------------
(***************************************************************************)
(* What the order book promises: its type invariant, the invariants listed   *)
(* in readme.md ("invariants") and checked by __invariantsCheck, and what a   *)
(* single call may and may never do to the book.                             *)
(***************************************************************************)
EXTENDS OrderBook

Stats == (0..UIntMax) \cup {None}

Books == [basePrice : 0..UIntMax,
          bestBid : Stats, lowestBid : Stats,
          bestOffer : Stats, highestOffer : Stats,
          memSpan : [Cells -> Int]]

Responses == [marginalPrice : 0..UIntMax, filledVolume : Int,
              revenue : Int, error : {0, 1}]

Calls ==
    {[op |-> "construct"]}
    \cup [op : {"limit", "withdraw", "market"}, volume : Volumes,
          price : Prices \cup {0}, response : Responses]
    \cup [op : {"shift"}, shiftBy : Shifts, done : BOOLEAN]

\* The data members keep their types: in particular every stat is empty or an
\* unsigned price, memSpan never grows, and an answer's error code is 0 or 1.
TypeOK ==
    /\ book \in Books
    /\ versionCounter \in {0, 1}
    /\ call \in Calls

-----------------------------------------------------------------------------
(* The self-check of the class.                                             *)

HasNoVolume(b, first, last) == \A i \in first..last : b.memSpan[i] = 0

ValueOrZero(stat) == IF stat = None THEN 0 ELSE stat

InvalidStat(b, stat) == stat # None /\ VolumeAt(b, stat) = 0

\* __invariantsCheck finds nothing to complain about: one conjunct for each
\* of the codes it adds up, in their order.
InvariantsCheck(b) ==
    LET bids     == b.bestBid # None /\ b.lowestBid # None
        offers   == b.bestOffer # None /\ b.highestOffer # None
        index(p) == p - b.basePrice
    IN  /\ bids => \A i \in (index(b.bestBid) + 1)..(BookLength - 1) : b.memSpan[i] >= 0
        /\ bids => HasNoVolume(b, 0, index(b.lowestBid) - 1)
        /\ offers => HasNoVolume(b, index(b.highestOffer) + 1, BookLength - 1)
        /\ offers => \A i \in 0..(index(b.bestOffer) - 1) : b.memSpan[i] <= 0
        /\ b.bestBid # None /\ b.bestOffer # None => b.bestBid < b.bestOffer
        /\ b.bestBid = None <=> b.lowestBid = None
        /\ b.bestOffer = None <=> b.highestOffer = None
        /\ ValueOrZero(b.bestBid) >= ValueOrZero(b.lowestBid)
        /\ ValueOrZero(b.bestOffer) <= ValueOrZero(b.highestOffer)
        /\ \A stat \in {b.lowestBid, b.bestBid, b.bestOffer, b.highestOffer} :
              ~InvalidStat(b, stat)

\* After every call the class's own debugging check finds nothing to report
\* (OrderBook.hpp:468-559, readme.md:197-203).
InvariantsCheckPasses == InvariantsCheck(book)

-----------------------------------------------------------------------------
(* The stats against the volume they summarise.                             *)

Bids(b)   == {p \in Window(b) : VolumeAt(b, p) < 0}
Offers(b) == {p \in Window(b) : VolumeAt(b, p) > 0}

\* {low, high} are the extremes of prices, or both empty when prices is.
AreExtremes(low, high, prices) ==
    IF low = None \/ high = None
    THEN low = None /\ high = None /\ prices = {}
    ELSE {low, high} \subseteq prices /\ \A p \in prices : low <= p /\ p <= high

ExactStats(b) == /\ AreExtremes(b.lowestBid, b.bestBid, Bids(b))
                 /\ AreExtremes(b.bestOffer, b.highestOffer, Offers(b))

NotCrossed(b) == \A p \in Bids(b), q \in Offers(b) : p < q

\* The four stats are at all times exactly the extreme prices with demand and
\* with supply (readme.md:194): stronger than the self-check, which does not
\* notice volume on a side whose stats are empty.
StatsExact == ExactStats(book)

\* No demand at or above any supply: the book never stays crossed
\* (readme.md:198-202).
Uncrossed == NotCrossed(book)

-----------------------------------------------------------------------------
(* What one call does to the book.                                          *)

TotalVolume(b) == MapThenSumSet(LAMBDA p : VolumeAt(b, p), Window(b))
TotalValue(b)  == MapThenSumSet(LAMBDA p : p * VolumeAt(b, p), Window(b))

Accepted(c) == c.op \in {"limit", "withdraw", "market"} /\ c.response.error = 0

\* The volume a call owes the book, and its worth at the prices traded.
OwedVolume(c) ==
    CASE c.op = "limit"    -> c.volume
      [] c.op = "market"   -> c.response.filledVolume
      [] c.op = "withdraw" -> -c.response.filledVolume

OwedValue(c) ==
    CASE c.op = "limit"    -> c.response.revenue
                                + (c.volume - c.response.filledVolume) * c.price
      [] c.op = "market"   -> c.response.revenue
      [] c.op = "withdraw" -> -c.response.filledVolume * c.price

\* No volume is created or lost: an accepted limit order changes the signed
\* volume in the book by exactly its own volume (what it fills plus what it
\* rests), a market order by what it reports as filled, a withdrawal by what
\* it reports as withdrawn.
VolumeConserved ==
    [][Accepted(call') => TotalVolume(book') = TotalVolume(book) + OwedVolume(call')]_vars

\* The reported revenue is the worth, bucket by bucket, of the volume that
\* left the book: sum of price * volume over the prices actually traded.
RevenueMatchesTrades ==
    [][Accepted(call') => TotalValue(book') = TotalValue(book) + OwedValue(call')]_vars

\* The prices at which a call took volume from the side it trades against.
Traded(b, c, volume) ==
    {p \in Window(b) : IF volume < 0 THEN /\ VolumeAt(b, p) > 0
                                          /\ VolumeAt(c, p) < VolumeAt(b, p)
                                     ELSE /\ VolumeAt(b, p) < 0
                                          /\ VolumeAt(c, p) > VolumeAt(b, p)}

Better(volume, p, q) == IF volume < 0 THEN p < q ELSE p > q

\* The prices an order of this volume can trade at.
Facing(b, volume) == IF volume < 0 THEN Offers(b) ELSE Bids(b)

Trades(c) == c.op \in {"limit", "market"} /\ c.volume # 0

\* Price priority: an order takes volume at a price only when every better
\* price on that side has been emptied, and the reported marginal price is
\* the worst price it traded at.
BestPricesFirst ==
    [][Trades(call') =>
         LET volume == call'.volume
             traded == Traded(book, book', volume)
         IN  /\ \A p \in traded, q \in Facing(book, volume) :
                    Better(volume, q, p) => q \notin Facing(book', volume)
             /\ traded # {} =>
                    /\ call'.response.marginalPrice \in traded
                    /\ \A p \in traded : ~Better(volume, call'.response.marginalPrice, p)]_vars

\* A market order, and a limit order whose price crosses the book, is left
\* partly unfilled only when the other side has run out.
FillsWhileLiquidityLasts ==
    [][/\ Trades(call') /\ Accepted(call')
       /\ call'.op = "limit" => CrossesBook(book, call'.volume, call'.price)
       /\ call'.response.filledVolume # call'.volume
       => Facing(book', call'.volume) = {}]_vars

\* An order with volume is refused with error 1 exactly when its price is out
\* of the range of the book, and then the other three entries of the answer are
\* 0 and the book is as it was (readme.md:217).  The range runs one price past
\* the last bucket (OrderBook.hpp:270): an order there is let in.
RefusedOutOfRange ==
    \A volume \in Volumes \ {0}, price \in Prices :
        \A result \in {ProcessOrder(book, Order(volume, price), BlankOrder, BlankOrder),
                       ProcessOrder(book, BlankOrder, Order(volume, price), BlankOrder)} :
            /\ (result.response.error = 1) =
                  (price \notin book.basePrice..(book.basePrice + BookLength))
            /\ result.response.error = 1 =>
                 /\ result.book = book
                 /\ result.response = [marginalPrice |-> 0, filledVolume |-> 0,
                                       revenue |-> 0, error |-> 1]

\* Withdrawing what a limit order has just rested in full leaves the book,
\* stats included, exactly as it was before the order.
AddThenWithdrawRestores ==
    \A volume \in Volumes, price \in Prices \ {book.basePrice + BookLength} :
        \A added \in {ProcessOrder(book, Order(volume, price), BlankOrder, BlankOrder)} :
            \A withdrawn \in {ProcessOrder(added.book, BlankOrder, Order(volume, price),
                                          BlankOrder)} :
                added.response.error = 0 /\ ~CrossesBook(book, volume, price) =>
                  /\ withdrawn.book = book
                  /\ withdrawn.response.filledVolume = volume

\* Volume at a price, none outside the window of the book.
Depth(b, price) == IF price \in Window(b) THEN VolumeAt(b, price) ELSE 0

\* A shift moves the window and nothing else: no price gains or loses volume
\* and the stats stay (readme.md:211).
ShiftKeepsVolumes ==
    [][call'.op = "shift" =>
         /\ \A p \in Window(book) \cup Window(book') : Depth(book', p) = Depth(book, p)
         /\ \A stat \in {"bestBid", "lowestBid", "bestOffer", "highestOffer"} :
               book'[stat] = book[stat]]_vars

\* A shift is refused only when it would turn the base price negative or
\* leave volume outside the window (readme.md:211), and a refused shift
\* changes nothing but the version.
ShiftRefusedForCause ==
    [][call'.op = "shift" /\ ~call'.done =>
         /\ book' = book
         /\ \/ book.basePrice + call'.shiftBy < 0
            \/ \E p \in Bids(book) \cup Offers(book) :
                  p \notin Window([book EXCEPT !.basePrice = @ + call'.shiftBy])]_vars

\* No call writes memory past the span ("to avoid out of bounds memory
\* access", OrderBook.hpp:355).
WritesInsideSpan ==
    [][book'.memSpan[BookLength] = book.memSpan[BookLength]]_vars

-----------------------------------------------------------------------------
(* The market the book stands for.                                          *)

\* What the market is to hear of a call: nothing of shifts and of orders that
\* are refused or blank.
PlacedOrder(c) ==
    IF Accepted(c) /\ c.volume # 0
    THEN [kind |-> c.op, volume |-> c.volume, price |-> c.price]
    ELSE [kind |-> "none", volume |-> 0, price |-> 0]

AsMarket == INSTANCE MarketBook WITH
                MarketPrices <- Prices,
                OrderVolumes <- Volumes,
                order        <- PlacedOrder(call),
                resting      <- [p \in Prices |-> Depth(book, p)]

\* The book implements the market: whatever the buckets, the stats and the
\* searches do, every accepted order changes the volume at the prices as that
\* same order would in an ideal market, and a call that is refused or only
\* moves the window changes none.
ImplementsMarket == AsMarket!MarketSpec

=============================================================================
