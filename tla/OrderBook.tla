----------------------------- MODULE OrderBook -----------------------------
(***************************************************************************)
(* The order book (src/production/OrderBook.hpp) at the grain of its two    *)
(* writing operations, processOrder and shiftBook, which run under           *)
(* modifyLock.  A book is a record of the class's data members; every        *)
(* private handler is an operator from a book and an order to the book it    *)
(* leaves and the orderResponse it returns, and processOrder composes them.  *)
(*                                                                         *)
(* An empty std::optional is None = -1, which is also what the code's        *)
(* value_or(-1) makes of it.  The cells 0..BookLength-1 of memSpan are the   *)
(* buckets of the span; cell BookLength is the memory one past its end,      *)
(* which priceInRange lets orders reach.                                     *)
(***************************************************************************)
EXTENDS OrderBookBucket, FiniteSetsExt

CONSTANTS
    BookLength,    \* template parameter bookLength_
    IntMax,        \* largest std::int32_t; prices are std::uint32_t
    EntryMax,      \* largest resting volume a bucket may hold (entryType_)
    BasePrices,    \* base prices the book may be constructed with
    StrayVolumes,  \* what the memory one past the span may hold
    Prices,        \* prices that clients name in orders
    Volumes,       \* volumes that clients name in orders
    Shifts         \* arguments that clients pass to shiftBook

None    == -1
UIntMax == 2 * IntMax + 1

ASSUME BookLengthAssumption == BookLength \in Nat \ {0}
ASSUME IntMaxAssumption     == IntMax \in Nat /\ BookLength <= IntMax
ASSUME EntryMaxAssumption   == EntryMax \in Nat
ASSUME BasePricesAssumption == BasePrices \subseteq 0..UIntMax
ASSUME StrayAssumption      == StrayVolumes \subseteq -EntryMax..EntryMax
ASSUME ClientAssumption     == /\ Prices \subseteq 0..UIntMax
                               /\ Volumes \subseteq Int
                               /\ Shifts \subseteq Int

VARIABLES
    book,            \* the data members of the orderBook object
    versionCounter,  \* versionCounter modulo 2: readers test its parity
    call             \* the last call of processOrder or shiftBook and its answer

vars == <<book, versionCounter, call>>

-----------------------------------------------------------------------------
(* Conversions between the two 32-bit price types.                          *)

\* A std::uint32_t stored in a std::int32_t.
Int32(price) == IF price > IntMax THEN price - (UIntMax + 1) ELSE price

\* The result of arithmetic on std::uint32_t.
UInt32(n) == n % (UIntMax + 1)

-----------------------------------------------------------------------------
(* Memory and prices.                                                       *)

Cells == 0..BookLength
Span  == 0..(BookLength - 1)

VolumeAt(b, price) == b.memSpan[price - b.basePrice]

\* The prices the book has buckets for.
Window(b) == b.basePrice..(b.basePrice + BookLength - 1)

\* Faulty: the last bucket of the book is refused.
PriceInRangeShort(b, price) ==
    /\ price < UInt32(b.basePrice + BookLength - 1)
    /\ price >= b.basePrice

PriceInRange(b, price) ==
    /\ price <= UInt32(b.basePrice + BookLength)
    /\ price >= b.basePrice

\* Faulty: the end price itself is not searched.
FindLiquidBucketShort(b, startPrice, endPrice) ==
    LET last   == IF Int32(endPrice) >= 0 THEN endPrice ELSE startPrice
        liquid == {p \in (startPrice..last) \cup (last..startPrice) :
                       VolumeAt(b, p) # 0 /\ (p # last \/ p = startPrice)}
    IN  CASE liquid = {}                          -> None
          [] liquid # {} /\ startPrice <= last    -> Min(liquid)
          [] OTHER                                -> Max(liquid)

\* The first price with volume on the way from startPrice to endPrice, both
\* included; a negative endPrice asks about startPrice alone.
FindLiquidBucket(b, startPrice, endPrice) ==
    LET last   == IF Int32(endPrice) >= 0 THEN endPrice ELSE startPrice
        liquid == {p \in (startPrice..last) \cup (last..startPrice) :
                       VolumeAt(b, p) # 0}
    IN  CASE liquid = {}                          -> None
          [] liquid # {} /\ startPrice <= last    -> Min(liquid)
          [] OTHER                                -> Max(liquid)

-----------------------------------------------------------------------------
(* Filling an order from the opposite side of the book.                     *)

\* What is left of an order before the loop of runThroughBook.
SweepStart(memSpan, openVol) ==
    [memSpan |-> memSpan, openVol |-> openVol,
     orderRevenue |-> 0, transactionIndex |-> 0]

\* Faulty: revenue counts bucket indices where it should count prices.
FillAtIndex(run, index, basePrice) ==
    LET filled == ConsumeLiquidity(run.memSpan[index], -run.openVol)
    IN  [memSpan          |-> [run.memSpan EXCEPT ![index] = @ - filled],
         openVol          |-> run.openVol + filled,
         orderRevenue     |-> run.orderRevenue - filled * index,
         transactionIndex |-> IF filled # 0 THEN index ELSE run.transactionIndex]

\* One iteration of the loop, at bucket index.
FillFromBucket(run, index, basePrice) ==
    LET filled == ConsumeLiquidity(run.memSpan[index], -run.openVol)
    IN  [memSpan          |-> [run.memSpan EXCEPT ![index] = @ - filled],
         openVol          |-> run.openVol + filled,
         orderRevenue     |-> run.orderRevenue - filled * (index + basePrice),
         transactionIndex |-> IF filled # 0 THEN index ELSE run.transactionIndex]

\* A loop that has stopped stays as it is.
SweepStep(run, index, basePrice) ==
    IF run.openVol # 0 /\ index >= 0 THEN FillFromBucket(run, index, basePrice)
                                     ELSE run

\* The loop as the sequence of its states: Sweep(...)[k] is the state after k
\* iterations.
Sweep(memSpan, basePrice, openVol, startIndex, increment, iterations) ==
    LET run[k \in 0..iterations] ==
          IF k = 0 THEN SweepStart(memSpan, openVol)
          ELSE SweepStep(run[k - 1], startIndex + increment * (k - 1), basePrice)
    IN  run

\* A negative endPrice makes a dummy run, which takes nothing.  An order sweeps
\* from the best price of the other side to endPrice.
DummyRun(endPrice) == Int32(endPrice) < 0

\* Faulty: the bucket at the end price is left out.
IterationsShort(distance) == IF distance < 0 THEN 0 ELSE distance

Iterations(distance) == IF distance < 0 THEN 0 ELSE distance + 1

\* Faulty: the loop starts at the worst price and runs to the best.
SweepFromFarEnd(b, volume, endPrice) ==
    LET buyOrder   == volume < 0
        startPrice == IF buyOrder THEN b.bestOffer ELSE b.bestBid
        iterations == Iterations(IF buyOrder THEN endPrice - startPrice
                                             ELSE startPrice - endPrice)
    IN  IF DummyRun(endPrice) THEN SweepStart(b.memSpan, 0)
        ELSE Sweep(b.memSpan, b.basePrice, volume, endPrice - b.basePrice,
                   IF buyOrder THEN -1 ELSE 1, iterations)[iterations]

SweepBook(b, volume, endPrice) ==
    LET buyOrder   == volume < 0
        startPrice == IF buyOrder THEN b.bestOffer ELSE b.bestBid
        iterations == Iterations(IF buyOrder THEN endPrice - startPrice
                                             ELSE startPrice - endPrice)
    IN  IF DummyRun(endPrice) THEN SweepStart(b.memSpan, 0)
        ELSE Sweep(b.memSpan, b.basePrice, volume, startPrice - b.basePrice,
                   IF buyOrder THEN 1 ELSE -1, iterations)[iterations]

\* Faulty: the far end of a side that has run out is not cleared.
RefreshBestOnly(b, buyOrder, endPrice) ==
    [b EXCEPT !.bestOffer = IF buyOrder /\ @ # None THEN FindLiquidBucket(b, @, endPrice)
                                                    ELSE @,
              !.bestBid   = IF ~buyOrder /\ @ # None THEN FindLiquidBucket(b, @, endPrice)
                                                     ELSE @]

\* The best price on the side a run has taken from is looked up again, and
\* the far end of a side left without a best price is cleared.
RefreshBest(b, buyOrder, endPrice) ==
    LET bestOffer == IF buyOrder /\ b.bestOffer # None
                     THEN FindLiquidBucket(b, b.bestOffer, endPrice)
                     ELSE b.bestOffer
        bestBid   == IF ~buyOrder /\ b.bestBid # None
                     THEN FindLiquidBucket(b, b.bestBid, endPrice)
                     ELSE b.bestBid
    IN  [b EXCEPT !.bestOffer    = bestOffer,
                  !.highestOffer = IF bestOffer # None THEN b.highestOffer ELSE None,
                  !.bestBid      = bestBid,
                  !.lowestBid    = IF bestBid # None THEN b.lowestBid ELSE None]

RunThroughBook(b, volume, endPrice) ==
    LET run       == SweepBook(b, volume, endPrice)
        lastPrice == CASE DummyRun(endPrice)                  -> None
                       [] ~DummyRun(endPrice) /\ volume < 0   -> b.highestOffer
                       [] OTHER                               -> b.lowestBid
    IN  [book     |-> RefreshBest([b EXCEPT !.memSpan = run.memSpan],
                                  volume < 0, lastPrice),
         response |-> [marginalPrice |-> IF DummyRun(endPrice) THEN 0
                                         ELSE b.basePrice + run.transactionIndex,
                       filledVolume  |-> IF DummyRun(endPrice) THEN 0
                                         ELSE volume - run.openVol,
                       revenue       |-> run.orderRevenue,
                       error         |-> 0]]

-----------------------------------------------------------------------------
(* The three handlers and processOrder.                                     *)

\* A limit order above, a withdrawal below: what differs is the handler.
Order(volume, price) == [orderVolume |-> volume, orderPrice |-> price]
BlankOrder           == Order(0, 0)

\* The stat with the price of newly rested liquidity taken into account.
Lower(stat, price)  == IF stat = None \/ stat > price THEN price ELSE stat
Higher(stat, price) == IF stat = None \/ stat < price THEN price ELSE stat

\* Faulty: sell orders are never found to cross the book.
BuyCrossesBook(b, volume, price) ==
    volume < 0 /\ b.bestOffer # None /\ price >= b.bestOffer

CrossesBook(b, volume, price) ==
    \/ volume < 0 /\ b.bestOffer # None /\ price >= b.bestOffer
    \/ volume > 0 /\ b.bestBid # None /\ price <= b.bestBid

\* Faulty: the volume replaces what the bucket held.
SetBucket(b, price, volume) == [b EXCEPT !.memSpan[price - b.basePrice] = volume]

AddToBucket(b, price, volume) ==
    [b EXCEPT !.memSpan[price - b.basePrice] = AddLiquidity(@, volume)]

\* The bucket at price and the stats after the unfilled rest of an order has
\* been entered.
RestLiquidity(b, volume, price) ==
    LET added == AddToBucket(b, price, volume)
    IN  CASE volume < 0 -> [added EXCEPT !.lowestBid = Lower(@, price),
                                         !.bestBid   = Higher(@, price)]
          [] volume > 0 -> [added EXCEPT !.highestOffer = Higher(@, price),
                                         !.bestOffer    = Lower(@, price)]
          [] OTHER      -> added

HandleNewLimitOrder(b, order) ==
    LET inRange  == order.orderVolume = 0 \/ PriceInRange(b, order.orderPrice)
        price    == IF inRange THEN order.orderPrice ELSE b.basePrice
        volume   == IF inRange THEN order.orderVolume ELSE 0
        endPrice == CASE ~CrossesBook(b, volume, price)               -> None
                      [] CrossesBook(b, volume, price) /\ volume < 0  -> b.highestOffer
                      [] OTHER                                        -> b.lowestBid
        filled   == RunThroughBook(b, volume, endPrice)
        unfilled == volume - filled.response.filledVolume
    IN  [book     |-> IF volume = 0 THEN filled.book
                      ELSE RestLiquidity(filled.book, unfilled, price),
         response |-> [filled.response EXCEPT !.error = IF inRange THEN 0 ELSE 1]]

\* stat after the bucket at price ran dry; endPrice is where the search for
\* its successor ends.  (value() of an empty optional would terminate the
\* program: the invariant StatsExact rules it out.)
Successor(b, stat, price, exhausted, endPrice) ==
    IF stat # None /\ stat = price /\ exhausted
    THEN FindLiquidBucket(b, price, endPrice)
    ELSE stat

\* Faulty: only the best prices are refreshed.
RefreshBestStats(b, price, exhausted) ==
    [b EXCEPT !.bestBid   = Successor(b, @, price, exhausted, b.lowestBid),
              !.bestOffer = Successor(b, @, price, exhausted, b.highestOffer)]

\* The four stats are refreshed in this order, each seeing the ones before.
RefreshStats(b, price, exhausted) ==
    LET bestBid      == Successor(b, b.bestBid, price, exhausted, b.lowestBid)
        lowestBid    == Successor(b, b.lowestBid, price, exhausted, bestBid)
        bestOffer    == Successor(b, b.bestOffer, price, exhausted, b.highestOffer)
        highestOffer == Successor(b, b.highestOffer, price, exhausted, bestOffer)
    IN  [b EXCEPT !.bestBid = bestBid, !.lowestBid = lowestBid,
                  !.bestOffer = bestOffer, !.highestOffer = highestOffer]

\* The book with amount taken out of the bucket at price.
TakeFromBucket(b, price, amount) == [b EXCEPT !.memSpan[price - b.basePrice] = @ - amount]

HandleWithdrawLimitOrder(b, order) ==
    LET hasVolume == order.orderVolume # 0
        inRange   == ~hasVolume \/ PriceInRange(b, order.orderPrice)
        price     == IF inRange THEN order.orderPrice ELSE b.basePrice
        volume    == IF inRange THEN order.orderVolume ELSE 0
        withdrawn == IF hasVolume THEN ConsumeLiquidity(VolumeAt(b, price), volume)
                                  ELSE 0
        taken     == IF hasVolume THEN TakeFromBucket(b, price, withdrawn) ELSE b
        exhausted == ~hasVolume \/ VolumeAt(taken, price) = 0
    IN  [book     |-> RefreshStats(taken, price, exhausted),
         response |-> [marginalPrice |-> 0, filledVolume |-> withdrawn,
                       revenue |-> 0, error |-> IF inRange THEN 0 ELSE 1]]

HandleMarketOrder(b, order) ==
    RunThroughBook(b, order.orderVolume,
                   CASE order.orderVolume = 0 -> None
                     [] order.orderVolume < 0 -> b.highestOffer
                     [] OTHER                 -> b.lowestBid)

\* Auxil::add_to_tuple.
AddResponses(r, s) == [field \in DOMAIN r |-> r[field] + s[field]]

\* Faulty: the limit order also goes to the withdrawal handler.
ProcessOrderTwice(b, limitOrder, withdrawal, marketOrder) ==
    LET limit    == HandleNewLimitOrder(b, limitOrder)
        withdraw == HandleWithdrawLimitOrder(limit.book, limitOrder)
        market   == HandleMarketOrder(withdraw.book, marketOrder)
    IN  [book     |-> market.book,
         response |-> AddResponses(AddResponses(limit.response, withdraw.response),
                                   market.response)]

\* processOrder runs all three handlers, on blank orders for the two types
\* the message is not of.
ProcessOrder(b, limitOrder, withdrawal, marketOrder) ==
    LET limit    == HandleNewLimitOrder(b, limitOrder)
        withdraw == HandleWithdrawLimitOrder(limit.book, withdrawal)
        market   == HandleMarketOrder(withdraw.book, marketOrder)
    IN  [book     |-> market.book,
         response |-> AddResponses(AddResponses(limit.response, withdraw.response),
                                   market.response)]

-----------------------------------------------------------------------------
(* shiftBook.                                                               *)

\* Faulty: volume moves the wrong way.
ShiftCellsAway(memSpan, n) ==
    [i \in Cells |-> IF i \in Span /\ i - n \in Span /\ n \in -BookLength..BookLength
                     THEN memSpan[i - n] ELSE memSpan[i]]

\* Faulty: the memory past the span is moved into.
ShiftCellsPast(memSpan, n) ==
    [i \in Cells |-> IF i + n \in Span /\ n \in -BookLength..BookLength
                     THEN memSpan[i + n] ELSE memSpan[i]]

\* std::shift_left (n > 0) and std::shift_right (n < 0) over the span: a cell
\* nothing is moved into keeps the volume it had, and a distance of the whole
\* span or more moves nothing.
ShiftCells(memSpan, n) ==
    [i \in Cells |-> IF i \in Span /\ i + n \in Span /\ n \in -BookLength..BookLength
                     THEN memSpan[i + n] ELSE memSpan[i]]

NoVolume(b) == b.bestBid = None /\ b.bestOffer = None

FreeBucketsTop(b) ==
    LET highest == CASE b.highestOffer # None -> b.highestOffer
                     [] b.highestOffer = None /\ b.bestBid # None -> b.bestBid
                     [] OTHER -> b.basePrice
    IN  b.basePrice + BookLength - highest

\* Faulty: one bucket too few.
FreeBucketsBottomShort(b) ==
    LET lowest == CASE b.lowestBid # None -> b.lowestBid
                    [] b.lowestBid = None /\ b.bestOffer # None -> b.bestOffer
                    [] OTHER -> b.basePrice + BookLength
    IN  lowest - b.basePrice - 1

FreeBucketsBottom(b) ==
    LET lowest == CASE b.lowestBid # None -> b.lowestBid
                    [] b.lowestBid = None /\ b.bestOffer # None -> b.bestOffer
                    [] OTHER -> b.basePrice + BookLength
    IN  lowest - b.basePrice

\* Whether volume stays in the book: also when there is none.
RoomToShift(b, shiftBy) ==
    \/ shiftBy >= 0 /\ FreeBucketsBottom(b) >= shiftBy
    \/ shiftBy < 0 /\ FreeBucketsTop(b) >= -shiftBy
    \/ NoVolume(b)

\* posBasePrice, which shiftBook looks up before it takes the lock.
PosBasePrice(b, shiftBy) == Int32(b.basePrice) + shiftBy >= 0

ShiftPossible(b, shiftBy) == RoomToShift(b, shiftBy) /\ PosBasePrice(b, shiftBy)

\* Faulty: the base price moves, the volume does not.
ShiftedBase(b, shiftBy) ==
    [b EXCEPT !.basePrice = IF ShiftPossible(b, shiftBy) THEN UInt32(@ + shiftBy) ELSE @]

ShiftedBook(b, shiftBy) ==
    [b EXCEPT !.basePrice = IF ShiftPossible(b, shiftBy) THEN UInt32(@ + shiftBy) ELSE @,
              !.memSpan   = IF ShiftPossible(b, shiftBy) /\ ~NoVolume(b)
                            THEN ShiftCells(@, shiftBy) ELSE @]

-----------------------------------------------------------------------------
(* The callers' operations.  Both writers hold modifyLock from their first   *)
(* write to their last, so a call is one step here.                          *)

\* entryType_ does not overflow: the bound on resting volume.
FitsEntryType(b) == \A i \in Cells : b.memSpan[i] \in -EntryMax..EntryMax

EmptyBook(basePrice, strayVolume) ==
    [basePrice |-> basePrice, bestBid |-> None, lowestBid |-> None,
     bestOffer |-> None, highestOffer |-> None,
     memSpan |-> [i \in Cells |-> IF i \in Span THEN 0 ELSE strayVolume]]

Init ==
    /\ \E basePrice \in BasePrices, strayVolume \in StrayVolumes :
           book = EmptyBook(basePrice, strayVolume)
    /\ versionCounter = 0
    /\ call = [op |-> "construct"]

\* processOrder increments versionCounter twice.
Processed(op, volume, price, result) ==
    /\ book' = result.book
    /\ versionCounter' = versionCounter
    /\ call' = [op |-> op, volume |-> volume, price |-> price,
                response |-> result.response]

AddLimitOrder(volume, price) ==
    LET result == ProcessOrder(book, Order(volume, price), BlankOrder, BlankOrder)
    IN  /\ FitsEntryType(result.book)
        /\ Processed("limit", volume, price, result)

WithdrawLimitOrder(volume, price) ==
    Processed("withdraw", volume, price,
              ProcessOrder(book, BlankOrder, Order(volume, price), BlankOrder))

MarketOrder(volume) ==
    Processed("market", volume, 0,
              ProcessOrder(book, BlankOrder, BlankOrder, Order(volume, 0)))

\* shiftBook increments versionCounter once, whether it shifts or not.
ShiftBook(shiftBy) ==
    /\ book' = ShiftedBook(book, shiftBy)
    /\ versionCounter' = (versionCounter + 1) % 2
    /\ call' = [op |-> "shift", shiftBy |-> shiftBy,
                done |-> ShiftPossible(book, shiftBy)]

\* Any client: whatever volumes, prices and shifts, in any order.
AnyClientNext ==
    \/ \E volume \in Volumes, price \in Prices :
          \/ AddLimitOrder(volume, price)
          \/ WithdrawLimitOrder(volume, price)
    \/ \E volume \in Volumes : MarketOrder(volume)
    \/ \E shiftBy \in Shifts : ShiftBook(shiftBy)

AnyClientSpec == Init /\ [][AnyClientNext]_vars

-----------------------------------------------------------------------------
(* Clients that stay clear of three defects of the code, which the clients   *)
(* of AnyClientSpec run into: an order does not name the one price past the   *)
(* book that priceInRange lets in, prices fit a std::int32_t, and a shift is  *)
(* only asked for when it is refused or the buckets it drops and leaves       *)
(* behind hold no volume.                                                   *)

SignedPrices(basePrice) == basePrice + BookLength <= IntMax

PastTheBook(price) == price = book.basePrice + BookLength

OuterBucketsEmpty(b, n) ==
    \A i \in Span : (i < n \/ i >= BookLength - n) => b.memSpan[i] = 0

SafeShift(shiftBy) ==
    /\ SignedPrices(book.basePrice + shiftBy)
    /\ ShiftPossible(book, shiftBy) =>
          OuterBucketsEmpty(book, IF shiftBy >= 0 THEN shiftBy ELSE -shiftBy)

Next ==
    \/ \E volume \in Volumes, price \in Prices :
          /\ ~PastTheBook(price)
          /\ \/ AddLimitOrder(volume, price)
             \/ WithdrawLimitOrder(volume, price)
    \/ \E volume \in Volumes : MarketOrder(volume)
    \/ \E shiftBy \in Shifts : SafeShift(shiftBy) /\ ShiftBook(shiftBy)

SignedInit == Init /\ SignedPrices(book.basePrice)

Spec == SignedInit /\ [][Next]_vars

=============================================================================
