------------------------ MODULE OrderBookStepProofs ------------------------
(***************************************************************************)
(* Proofs about what a single call does to the order book: when it is         *)
(* refused, what a shift leaves alone, that an order is not left open while   *)
(* there is something to trade with, that it takes the best prices first, and *)
(* what it adds to the totals of the book; and, from these, that the book     *)
(* implements an ideal market.  They start from the coherence of the book,    *)
(* which OrderBookProofs shows to be invariant.                               *)
(***************************************************************************)
EXTENDS OrderBookProofs

USE BookLengthAssumption, IntMaxAssumption DEF None, UIntMax

Refusal == [NoResponse EXCEPT !.error = 1]

-----------------------------------------------------------------------------
(* Refused orders.                                                          *)

InRange(b, p) == p \in b.basePrice..(b.basePrice + BookLength)

\* What an order with volume has to be answered.
RefusedUnlessInRange(b, p, result) ==
    /\ (result.response.error = 1) = (p \notin b.basePrice..(b.basePrice + BookLength))
    /\ result.response.error = 1 => result.book = b /\ result.response = Refusal

LEMMA RefusalIsError == Refusal.error = 1
BY DEF Refusal, NoResponse

\* priceInRange lets in the window and the price past it.
LEMMA InRangeOrPast ==
  ASSUME NEW b, Coherent(b), NEW p \in 0..UIntMax
  PROVE  /\ PriceInRange(b, p) <=> InRange(b, p)
         /\ p # b.basePrice + BookLength => (InRange(b, p) <=> p \in Window(b))
<1>1. /\ b.basePrice \in Int /\ b.basePrice + BookLength \in 0..UIntMax
  BY DEF Coherent, Books, SignedPrices
<1>2. UInt32(b.basePrice + BookLength) = b.basePrice + BookLength
  BY <1>1, NoWrap
<1>3. p \in Int /\ BookLength \in Int
  BY BookLengthAssumption
<1>4. InRange(b, p) <=> b.basePrice <= p /\ p <= b.basePrice + BookLength
  BY <1>1, <1>3 DEF InRange
<1>5. p \in Window(b) <=> b.basePrice <= p /\ p < b.basePrice + BookLength
  BY <1>1, <1>3 DEF Window
<1> QED BY <1>1, <1>2, <1>3, <1>4, <1>5 DEF PriceInRange

\* An order in range is accepted, also at the price past the window, where the
\* book need not stay coherent.
LEMMA LimitOrderAccepted ==
  ASSUME NEW b, NEW volume, NEW p, PriceInRange(b, p)
  PROVE  ProcessOrder(b, Order(volume, p), BlankOrder, BlankOrder).response.error = 0
<1> DEFINE limit    == HandleNewLimitOrder(b, Order(volume, p))
           withdraw == HandleWithdrawLimitOrder(limit.book, BlankOrder)
           market   == HandleMarketOrder(withdraw.book, BlankOrder)
<1>1. limit.response.error = 0
      /\ DOMAIN limit.response = {"marginalPrice", "filledVolume", "revenue", "error"}
  BY DEF HandleNewLimitOrder, RunThroughBook, Order
<1>2. withdraw.response.error = 0
      /\ DOMAIN withdraw.response = {"marginalPrice", "filledVolume", "revenue", "error"}
  BY DEF HandleWithdrawLimitOrder, BlankOrder, Order
<1>3. market.response.error = 0
      /\ DOMAIN market.response = {"marginalPrice", "filledVolume", "revenue", "error"}
  BY DEF HandleMarketOrder, RunThroughBook, BlankOrder, Order
<1>4. ProcessOrder(b, Order(volume, p), BlankOrder, BlankOrder).response =
        AddResponses(AddResponses(limit.response, withdraw.response), market.response)
  BY DEF ProcessOrder
<1> HIDE DEF limit, withdraw, market
<1> QED BY <1>1, <1>2, <1>3, <1>4 DEF AddResponses

LEMMA WithdrawalAccepted ==
  ASSUME NEW b, Coherent(b), NEW volume, NEW p, PriceInRange(b, p)
  PROVE  ProcessOrder(b, BlankOrder, Order(volume, p), BlankOrder).response.error = 0
<1> DEFINE limit    == HandleNewLimitOrder(b, BlankOrder)
           withdraw == HandleWithdrawLimitOrder(limit.book, Order(volume, p))
           market   == HandleMarketOrder(withdraw.book, BlankOrder)
<1>1. limit.response.error = 0
      /\ DOMAIN limit.response = {"marginalPrice", "filledVolume", "revenue", "error"}
      /\ limit.book = b
  BY BlankLimitOrder DEF NoResponse
<1>2. withdraw.response.error = 0
      /\ DOMAIN withdraw.response = {"marginalPrice", "filledVolume", "revenue", "error"}
  BY <1>1 DEF HandleWithdrawLimitOrder, Order
<1>3. market.response.error = 0
      /\ DOMAIN market.response = {"marginalPrice", "filledVolume", "revenue", "error"}
  BY DEF HandleMarketOrder, RunThroughBook, BlankOrder, Order
<1>4. ProcessOrder(b, BlankOrder, Order(volume, p), BlankOrder).response =
        AddResponses(AddResponses(limit.response, withdraw.response), market.response)
  BY DEF ProcessOrder
<1> HIDE DEF limit, withdraw, market
<1> QED BY <1>1, <1>2, <1>3, <1>4 DEF AddResponses

LEMMA LimitOrderAnswered ==
  ASSUME NEW b, Coherent(b), NEW volume \in Int, volume # 0, NEW p \in 0..UIntMax
  PROVE  RefusedUnlessInRange(b, p, ProcessOrder(b, Order(volume, p), BlankOrder, BlankOrder))
<1> DEFINE result == ProcessOrder(b, Order(volume, p), BlankOrder, BlankOrder)
           limit  == HandleNewLimitOrder(b, Order(volume, p))
<1>1. CASE ~InRange(b, p)
  <2>1. p # b.basePrice + BookLength
    BY <1>1 DEF Coherent, Books, InRange
  <2>2. result.book = limit.book /\ result.response = limit.response
    BY <2>1, ProcessLimitOrder
  <2>3. limit = [book |-> b, response |-> Refusal]
    BY <1>1, InRangeOrPast, RefusedLimitOrder DEF Refusal
  <2> HIDE DEF limit, result
  <2>4. limit.book = b /\ limit.response = Refusal
    BY <2>3
  <2> QED BY <1>1, <2>2, <2>4, RefusalIsError DEF RefusedUnlessInRange, InRange, result
<1>2. CASE InRange(b, p)
  <2>1. result.response.error = 0
    BY <1>2, InRangeOrPast, LimitOrderAccepted
  <2> HIDE DEF result
  <2> QED BY <1>2, <2>1 DEF RefusedUnlessInRange, InRange, result
<1> QED BY <1>1, <1>2

LEMMA WithdrawalAnswered ==
  ASSUME NEW b, Coherent(b), NEW volume \in Int, volume # 0, NEW p \in 0..UIntMax
  PROVE  RefusedUnlessInRange(b, p, ProcessOrder(b, BlankOrder, Order(volume, p), BlankOrder))
<1> DEFINE result   == ProcessOrder(b, BlankOrder, Order(volume, p), BlankOrder)
           withdraw == HandleWithdrawLimitOrder(b, Order(volume, p))
<1>1. CASE ~InRange(b, p)
  <2>1. p # b.basePrice + BookLength
    BY <1>1 DEF Coherent, Books, InRange
  <2>2. result.book = withdraw.book /\ result.response = withdraw.response
    BY <2>1, ProcessWithdrawal
  <2>3. withdraw = [book |-> b, response |-> Refusal]
    BY <1>1, InRangeOrPast, RefusedWithdrawal DEF Refusal
  <2> HIDE DEF withdraw, result
  <2>4. withdraw.book = b /\ withdraw.response = Refusal
    BY <2>3
  <2> QED BY <1>1, <2>2, <2>4, RefusalIsError DEF RefusedUnlessInRange, InRange, result
<1>2. CASE InRange(b, p)
  <2>1. result.response.error = 0
    BY <1>2, InRangeOrPast, WithdrawalAccepted
  <2> HIDE DEF result
  <2> QED BY <1>2, <2>1 DEF RefusedUnlessInRange, InRange, result
<1> QED BY <1>1, <1>2

\* For the prices disciplined clients name, in range means in the window.
RefusedOutOfBounds(b, p, result) ==
    /\ (result.response.error = 1) = (p \notin Window(b))
    /\ result.response.error = 1 => result.book = b /\ result.response = Refusal

LEMMA LimitOrderRefused ==
  ASSUME NEW b, Coherent(b), NEW volume \in Int, volume # 0, NEW p \in 0..UIntMax,
         p # b.basePrice + BookLength
  PROVE  RefusedOutOfBounds(b, p, ProcessOrder(b, Order(volume, p), BlankOrder, BlankOrder))
BY LimitOrderAnswered, InRangeOrPast DEF RefusedUnlessInRange, RefusedOutOfBounds, InRange

LEMMA WithdrawalRefused ==
  ASSUME NEW b, Coherent(b), NEW volume \in Int, volume # 0, NEW p \in 0..UIntMax,
         p # b.basePrice + BookLength
  PROVE  RefusedOutOfBounds(b, p, ProcessOrder(b, BlankOrder, Order(volume, p), BlankOrder))
BY WithdrawalAnswered, InRangeOrPast DEF RefusedUnlessInRange, RefusedOutOfBounds, InRange

\* In every reachable book an order with volume is refused exactly when its
\* price is below the base price or above the price one past the window, and
\* what is refused changes nothing (readme.md:217, OrderBook.hpp:268-271).  Any
\* price is tried, the one without a bucket that the code lets in included.
THEOREM RefusalsAreExact == Spec => []RefusedOutOfRange
<1>1. IInv => RefusedOutOfRange
  <2> SUFFICES ASSUME Coherent(book), NEW volume \in Volumes \ {0}, NEW price \in Prices,
                      NEW result \in {ProcessOrder(book, Order(volume, price), BlankOrder, BlankOrder),
                                      ProcessOrder(book, BlankOrder, Order(volume, price), BlankOrder)}
               PROVE  RefusedUnlessInRange(book, price, result)
    BY DEF IInv, RefusedOutOfRange, RefusedUnlessInRange, Refusal, NoResponse
  <2>1. volume \in Int /\ volume # 0 /\ price \in 0..UIntMax
    BY ClientAssumption
  <2> QED BY <2>1, LimitOrderAnswered, WithdrawalAnswered
<1> QED BY <1>1, Invariance, PTL

-----------------------------------------------------------------------------
(* Shifts.                                                                  *)

\* A shift of a coherent book that is let through moves the window and leaves
\* the volume at every price, and the stats, as they were (readme.md:211).
THEOREM ShiftsKeepVolumes == Spec => ShiftKeepsVolumes
<1> DEFINE Keeps == call'.op = "shift" =>
              /\ \A p \in Window(book) \cup Window(book') : Depth(book', p) = Depth(book, p)
              /\ \A stat \in {"bestBid", "lowestBid", "bestOffer", "highestOffer"} :
                    book'[stat] = book[stat]
<1>1. IInv /\ [Next]_vars => [Keeps]_vars
  <2> SUFFICES ASSUME IInv, Next, call'.op = "shift"
               PROVE  SameDepth(book, book')
    BY DEF SameDepth
  <2>1. Coherent(book)
    BY DEF IInv
  <2>2. PICK shiftBy \in Shifts : SafeShift(shiftBy) /\ ShiftBook(shiftBy)
    BY DEF Next, AddLimitOrder, WithdrawLimitOrder, MarketOrder, Processed
  <2>3. shiftBy \in Int
    BY ClientAssumption
  <2>4. SameDepth(book, ShiftedBook(book, shiftBy))
    BY <2>1, <2>2, <2>3, ShiftKeeps DEF SafeShift
  <2> QED BY <2>2, <2>4 DEF ShiftBook
<1> QED BY <1>1, Invariance, PTL DEF Spec, ShiftKeepsVolumes

\* A refused shift leaves the book as it is, and would have taken the base
\* price below 0 or the window off a price with volume.
LEMMA ShiftHasCause ==
  ASSUME NEW b, Coherent(b), NEW n \in Int, ~ShiftPossible(b, n)
  PROVE  /\ ShiftedBook(b, n) = b
         /\ \/ b.basePrice + n < 0
            \/ \E p \in Bids(b) \cup Offers(b) : p \notin Window([b EXCEPT !.basePrice = @ + n])
<1>1. /\ b \in Books /\ b.basePrice \in 0..IntMax
      /\ Int32(b.basePrice) = b.basePrice
      /\ \A q \in Window(b) : q \in 0..IntMax
  <2>1. b \in Books /\ SignedPrices(b.basePrice)
    BY DEF Coherent
  <2>2. b.basePrice \in 0..IntMax /\ Int32(b.basePrice) = b.basePrice
    BY <2>1 DEF Books, SignedPrices, Int32
  <2> QED BY <2>1, <2>2, WindowIsSigned
<1>2. ShiftedBook(b, n) = b
  BY <1>1 DEF ShiftedBook, Books
<1>3. CASE ~PosBasePrice(b, n)
  <2>1. b.basePrice + n < 0
    BY <1>1, <1>3 DEF PosBasePrice
  <2> QED BY <1>2, <2>1
<1>4. CASE ~RoomToShift(b, n)
  <2> DEFINE shifted == [b EXCEPT !.basePrice = @ + n]
  <2>1. \A p \in Window(shifted) : b.basePrice + n <= p /\ p < b.basePrice + n + BookLength
    <3>1. shifted.basePrice = b.basePrice + n
      BY <1>1 DEF Books
    <3> HIDE DEF shifted
    <3> QED BY <1>1, <3>1 DEF Window
  <2>2. /\ b.lowestBid # None => b.lowestBid \in Bids(b)
        /\ b.bestBid # None => b.bestBid \in Bids(b)
        /\ b.bestOffer # None => b.bestOffer \in Offers(b)
        /\ b.highestOffer # None => b.highestOffer \in Offers(b)
        /\ b.bestBid = None <=> b.lowestBid = None
        /\ b.bestOffer = None <=> b.highestOffer = None
    BY CoherentBids, CoherentOffers DEF Bids, Offers
  <2> HIDE DEF shifted
  <2>3. CASE n >= 0
    <3>1. ~NoVolume(b) /\ ~(FreeBucketsBottom(b) >= n)
      BY <1>4, <2>3 DEF RoomToShift
    <3>2. PICK p \in Bids(b) \cup Offers(b) : FreeBucketsBottom(b) = p - b.basePrice
      BY <2>2, <3>1 DEF FreeBucketsBottom, NoVolume
    <3>3. p \in 0..IntMax
      BY <1>1 DEF Bids, Offers
    <3>4. p \notin Window(shifted)
      BY <1>1, <2>1, <3>1, <3>2, <3>3
    <3> QED BY <1>2, <3>4 DEF shifted
  <2>4. CASE n < 0
    <3>1. ~NoVolume(b) /\ ~(FreeBucketsTop(b) >= -n)
      BY <1>4, <2>4 DEF RoomToShift
    <3>2. PICK p \in Bids(b) \cup Offers(b) : FreeBucketsTop(b) = b.basePrice + BookLength - p
      BY <2>2, <3>1 DEF FreeBucketsTop, NoVolume
    <3>3. p \in 0..IntMax
      BY <1>1 DEF Bids, Offers
    <3>4. p \notin Window(shifted)
      BY <1>1, <2>1, <3>1, <3>2, <3>3
    <3> QED BY <1>2, <3>4 DEF shifted
  <2> QED BY <2>3, <2>4
<1> QED BY <1>3, <1>4 DEF ShiftPossible

\* Shifts are refused for the two reasons the readme gives, and then change
\* nothing (readme.md:211).
THEOREM ShiftsRefusedForCause == Spec => ShiftRefusedForCause
<1> DEFINE Cause == call'.op = "shift" /\ ~call'.done =>
              /\ book' = book
              /\ \/ book.basePrice + call'.shiftBy < 0
                 \/ \E p \in Bids(book) \cup Offers(book) :
                       p \notin Window([book EXCEPT !.basePrice = @ + call'.shiftBy])
<1>1. IInv /\ [Next]_vars => [Cause]_vars
  <2> SUFFICES ASSUME IInv, Next, call'.op = "shift", ~call'.done PROVE Cause
    OBVIOUS
  <2>1. Coherent(book)
    BY DEF IInv
  <2>2. PICK n \in Shifts : ShiftBook(n)
    BY DEF Next, AddLimitOrder, WithdrawLimitOrder, MarketOrder, Processed
  <2>3. n \in Int
    BY ClientAssumption
  <2>4. call'.shiftBy = n /\ book' = ShiftedBook(book, n) /\ ~ShiftPossible(book, n)
    BY <2>2 DEF ShiftBook
  <2> QED BY <2>1, <2>3, <2>4, ShiftHasCause
<1> QED BY <1>1, Invariance, PTL DEF Spec, ShiftRefusedForCause

-----------------------------------------------------------------------------
(* Orders left open.                                                        *)

LEMMA EmptySides ==
  ASSUME NEW b, Coherent(b)
  PROVE  /\ b.bestOffer = None => Offers(b) = {}
         /\ b.bestBid = None => Bids(b) = {}
<1>1. \A p \in Window(b) : VolumeAt(b, p) \in Int
  BY WindowIsSigned DEF Coherent
<1> QED BY <1>1, CoherentBids, CoherentOffers DEF Offers, Bids

\* An order run to the far end of the side it faces and left open has emptied
\* that side.
LEMMA OpenRun ==
  ASSUME NEW b, Coherent(b), NEW volume \in Int, volume # 0,
         NEW end, end = IF volume < 0 THEN b.highestOffer ELSE b.lowestBid
  PROVE  LET run  == RunThroughBook(b, volume, end)
             open == volume - run.response.filledVolume
         IN  /\ Coherent(run.book) /\ run.response.filledVolume \in Int
             /\ run.book.basePrice = b.basePrice
             /\ open # 0 => IF volume < 0 THEN open < 0 /\ run.book.bestOffer = None
                                          ELSE open > 0 /\ run.book.bestBid = None
<1> DEFINE run  == RunThroughBook(b, volume, end)
           open == volume - run.response.filledVolume
<1>1. CASE end = None
  <2>1. run = [book |-> b, response |-> NoResponse]
    BY <1>1, DummyRunIsNoOp
  <2>2. run.book = b /\ run.response.filledVolume = 0
    BY <2>1 DEF NoResponse
  <2> HIDE DEF run
  <2>3. IF volume < 0 THEN b.bestOffer = None ELSE b.bestBid = None
    BY <1>1, CoherentBids, CoherentOffers
  <2> QED BY <2>2, <2>3 DEF run
<1>2. CASE end # None /\ volume < 0
  <2>1. /\ Coherent(run.book) /\ run.book.basePrice = b.basePrice /\ run.response \in Responses
        /\ open \in Int /\ Toward(open, volume)
        /\ open # 0 => run.book.bestOffer = None
    BY <1>2, RunBuy
  <2> HIDE DEF run
  <2>2. run.response.filledVolume \in Int
    BY <2>1 DEF Responses
  <2> QED BY <1>2, <2>1, <2>2 DEF Toward, run
<1>3. CASE end # None /\ volume > 0
  <2>1. /\ Coherent(run.book) /\ run.book.basePrice = b.basePrice /\ run.response \in Responses
        /\ open \in Int /\ Toward(open, volume)
        /\ open # 0 => run.book.bestBid = None
    BY <1>3, RunSell
  <2> HIDE DEF run
  <2>2. run.response.filledVolume \in Int
    BY <2>1 DEF Responses
  <2> QED BY <1>3, <2>1, <2>2 DEF Toward, run
<1> QED BY <1>1, <1>2, <1>3

LEMMA OpenMarketOrder ==
  ASSUME NEW b, Coherent(b), NEW volume \in Int, volume # 0,
         HandleMarketOrder(b, Order(volume, 0)).response.filledVolume # volume
  PROVE  Facing(HandleMarketOrder(b, Order(volume, 0)).book, volume) = {}
<1> DEFINE end == IF volume < 0 THEN b.highestOffer ELSE b.lowestBid
           run == RunThroughBook(b, volume, end)
<1>1. HandleMarketOrder(b, Order(volume, 0)) = run
  BY DEF HandleMarketOrder, Order
<1>2. /\ Coherent(run.book) /\ run.response.filledVolume \in Int
      /\ volume - run.response.filledVolume # 0 =>
            IF volume < 0 THEN run.book.bestOffer = None ELSE run.book.bestBid = None
  BY OpenRun
<1> HIDE DEF run
<1> QED BY <1>1, <1>2, EmptySides DEF Facing

LEMMA OpenLimitOrder ==
  ASSUME NEW b, Coherent(b), NEW volume \in Int, volume # 0, NEW p \in Window(b),
         CrossesBook(b, volume, p),
         HandleNewLimitOrder(b, Order(volume, p)).response.filledVolume # volume
  PROVE  Facing(HandleNewLimitOrder(b, Order(volume, p)).book, volume) = {}
<1> DEFINE result == HandleNewLimitOrder(b, Order(volume, p))
           end    == IF volume < 0 THEN b.highestOffer ELSE b.lowestBid
           run    == RunThroughBook(b, volume, end)
           open   == volume - run.response.filledVolume
<1>1. p \in 0..UIntMax /\ p # b.basePrice + BookLength
  BY WindowIsSigned DEF Coherent, Books, Window
<1>2. PriceInRange(b, p)
  BY <1>1, InRangeIsWindow
<1>3. /\ result.book = RestLiquidity(run.book, open, p)
      /\ result.response.filledVolume = run.response.filledVolume
  BY <1>2 DEF HandleNewLimitOrder, Order, RunThroughBook
<1>4. /\ Coherent(run.book) /\ run.response.filledVolume \in Int
      /\ open # 0 => IF volume < 0 THEN open < 0 /\ run.book.bestOffer = None
                                   ELSE open > 0 /\ run.book.bestBid = None
  BY OpenRun
<1>5. Coherent(result.book)
  BY <1>1, LimitOrderKeeps DEF Kept
<1> HIDE DEF run, result
<1>6. open \in Int /\ open # 0
  BY <1>3, <1>4 DEF result
<1> HIDE DEF open
<1>7. run.book \in Books
  BY <1>4 DEF Coherent
<1>8. IF volume < 0 THEN result.book.bestOffer = None ELSE result.book.bestBid = None
  <2> DEFINE added == AddToBucket(run.book, p, open)
  <2>1. DOMAIN added = {"basePrice", "bestBid", "lowestBid", "bestOffer", "highestOffer", "memSpan"}
        /\ added.bestOffer = run.book.bestOffer /\ added.bestBid = run.book.bestBid
    BY <1>7 DEF AddToBucket, Books
  <2> HIDE DEF added
  <2>2. CASE volume < 0
    <3>1. open < 0 /\ ~(open > 0) /\ run.book.bestOffer = None
      BY <1>4, <1>6, <2>2
    <3>2. result.book = [added EXCEPT !.lowestBid = Lower(@, p), !.bestBid = Higher(@, p)]
      BY <1>3, <3>1 DEF RestLiquidity, added
    <3> QED BY <2>1, <2>2, <3>1, <3>2
  <2>3. CASE volume > 0
    <3>1. open > 0 /\ ~(open < 0) /\ run.book.bestBid = None
      BY <1>4, <1>6, <2>3
    <3>2. result.book = [added EXCEPT !.highestOffer = Higher(@, p), !.bestOffer = Lower(@, p)]
      BY <1>3, <3>1 DEF RestLiquidity, added
    <3> QED BY <2>1, <2>3, <3>1, <3>2
  <2> QED BY <2>2, <2>3
<1> QED BY <1>5, <1>8, EmptySides DEF Facing, result

\* A market order, or a limit order that crosses the book, is left open only
\* when there is nothing left for it to trade with.
THEOREM OpenOrdersFaceNothing == Spec => FillsWhileLiquidityLasts
<1> DEFINE Fills ==
        /\ Trades(call') /\ Accepted(call')
        /\ call'.op = "limit" => CrossesBook(book, call'.volume, call'.price)
        /\ call'.response.filledVolume # call'.volume
        => Facing(book', call'.volume) = {}
<1>1. IInv /\ [Next]_vars => [Fills]_vars
  <2> SUFFICES ASSUME IInv, Next PROVE Fills
    OBVIOUS
  <2>1. Coherent(book)
    BY DEF IInv
  <2>2. ASSUME NEW volume \in Volumes, NEW price \in Prices, ~PastTheBook(price),
               AddLimitOrder(volume, price)
        PROVE  Fills
    <3> DEFINE result == ProcessOrder(book, Order(volume, price), BlankOrder, BlankOrder)
               limit  == HandleNewLimitOrder(book, Order(volume, price))
    <3>1. volume \in Int /\ price \in 0..UIntMax /\ price # book.basePrice + BookLength
      BY <2>2, ClientAssumption DEF PastTheBook
    <3>2. result.book = limit.book /\ result.response = limit.response
      BY <2>1, <3>1, ProcessLimitOrder
    <3>3. volume # 0 => RefusedOutOfBounds(book, price, result)
      BY <2>1, <3>1, LimitOrderRefused
    <3>4. volume # 0 /\ price \in Window(book) /\ CrossesBook(book, volume, price)
            /\ limit.response.filledVolume # volume => Facing(limit.book, volume) = {}
      BY <2>1, <3>1, OpenLimitOrder
    <3> HIDE DEF result, limit
    <3>5. book' = result.book /\ call' = [op |-> "limit", volume |-> volume, price |-> price,
                                          response |-> result.response]
      BY <2>2 DEF AddLimitOrder, Processed, result
    <3> QED BY <3>2, <3>3, <3>4, <3>5 DEF RefusedOutOfBounds, Trades, Accepted
  <2>3. ASSUME NEW volume \in Volumes, MarketOrder(volume) PROVE Fills
    <3> DEFINE result == ProcessOrder(book, BlankOrder, BlankOrder, Order(volume, 0))
               market == HandleMarketOrder(book, Order(volume, 0))
    <3>1. volume \in Int
      BY ClientAssumption
    <3>2. result.book = market.book /\ result.response = market.response
      BY <2>1, <3>1, ProcessMarketOrder
    <3>3. volume # 0 /\ market.response.filledVolume # volume => Facing(market.book, volume) = {}
      BY <2>1, <3>1, OpenMarketOrder
    <3> HIDE DEF result, market
    <3>4. book' = result.book /\ call' = [op |-> "market", volume |-> volume, price |-> 0,
                                          response |-> result.response]
      BY <2>3 DEF MarketOrder, Processed, result
    <3> QED BY <3>2, <3>3, <3>4 DEF Trades
  <2>4. ASSUME NEW volume \in Volumes, NEW price \in Prices, WithdrawLimitOrder(volume, price)
        PROVE  Fills
    BY <2>4 DEF WithdrawLimitOrder, Processed, Trades
  <2>5. ASSUME NEW shiftBy \in Shifts, ShiftBook(shiftBy) PROVE Fills
    BY <2>5 DEF ShiftBook, Trades
  <2> HIDE DEF Fills
  <2> QED BY <2>2, <2>3, <2>4, <2>5 DEF Next
<1> QED BY <1>1, Invariance, PTL DEF Spec, FillsWhileLiquidityLasts

-----------------------------------------------------------------------------
(* Withdrawing what was just added.                                         *)

\* The stats are a function of the volume: extremes are unique.
LEMMA VolumeDeterminesBook ==
  ASSUME NEW b, Coherent(b), NEW c, Coherent(c),
         c.basePrice = b.basePrice, c.memSpan = b.memSpan
  PROVE  c = b
<1>1. /\ b \in Books /\ c \in Books /\ Window(c) = Window(b)
      /\ \A q \in Window(b) : q \in Int /\ q # None /\ VolumeAt(c, q) = VolumeAt(b, q)
                              /\ VolumeAt(b, q) \in Int
  BY WindowIsSigned DEF Coherent, Window, VolumeAt
<1>2. c.bestBid = b.bestBid /\ c.lowestBid = b.lowestBid
  BY <1>1, CoherentBids
<1>3. c.bestOffer = b.bestOffer /\ c.highestOffer = b.highestOffer
  BY <1>1, CoherentOffers
<1> QED BY <1>1, <1>2, <1>3 DEF Books

\* An order that does not cross the book does not face volume at its price.
LEMMA RestsOnItsSide ==
  ASSUME NEW b, Coherent(b), NEW volume \in Int, NEW p \in Window(b),
         ~CrossesBook(b, volume, p)
  PROVE  /\ volume < 0 => VolumeAt(b, p) <= 0
         /\ volume > 0 => VolumeAt(b, p) >= 0
<1>1. p \in Int /\ VolumeAt(b, p) \in Int /\ \A q \in Window(b) : q \in Int
  BY WindowIsSigned DEF Coherent
<1>2. ASSUME volume < 0, VolumeAt(b, p) > 0 PROVE FALSE
  BY <1>1, <1>2, CoherentOffers DEF CrossesBook
<1>3. ASSUME volume > 0, VolumeAt(b, p) < 0 PROVE FALSE
  BY <1>1, <1>3, CoherentBids DEF CrossesBook
<1> QED BY <1>1, <1>2, <1>3

LEMMA AddedThenWithdrawn ==
  ASSUME NEW b, Coherent(b), NEW volume \in Int, volume # 0, NEW p \in Window(b),
         ~CrossesBook(b, volume, p)
  PROVE  LET added     == HandleNewLimitOrder(b, Order(volume, p)).book
             withdrawn == HandleWithdrawLimitOrder(added, Order(volume, p))
         IN  withdrawn.book = b /\ withdrawn.response.filledVolume = volume
<1> DEFINE added     == HandleNewLimitOrder(b, Order(volume, p)).book
           withdrawn == HandleWithdrawLimitOrder(added, Order(volume, p))
           x         == VolumeAt(b, p) + volume
<1>1. /\ b \in Books /\ b.basePrice \in Nat /\ b.memSpan \in [Cells -> Int]
      /\ p \in 0..UIntMax /\ p # b.basePrice + BookLength
      /\ p - b.basePrice \in Cells /\ VolumeAt(b, p) \in Int /\ x \in Int
  <2>1. b \in Books /\ SignedPrices(b.basePrice)
    BY DEF Coherent
  <2>2. p \in 0..IntMax /\ p - b.basePrice \in Span /\ VolumeAt(b, p) \in Int
    BY <2>1, WindowIsSigned
  <2>3. b.basePrice \in Nat /\ b.memSpan \in [Cells -> Int]
    BY <2>1 DEF Books
  <2>4. p \in 0..UIntMax /\ p # b.basePrice + BookLength
    BY <2>2, <2>3, IntMaxAssumption, BookLengthAssumption DEF UIntMax, Span
  <2> QED BY <2>1, <2>2, <2>3, <2>4, BookLengthAssumption, SMTT(30) DEF Cells, Span
<1>2. PriceInRange(b, p)
  BY <1>1, InRangeIsWindow
<1>3. RunThroughBook(b, volume, None) = [book |-> b, response |-> NoResponse]
  BY DummyRunIsNoOp
<1>4. added = RestLiquidity(b, volume, p)
  BY <1>2, <1>3 DEF HandleNewLimitOrder, Order, NoResponse
<1>5. /\ Coherent(added) /\ added.basePrice = b.basePrice
  BY <1>1, LimitOrderKeeps DEF Kept
<1>6. added.memSpan = [b.memSpan EXCEPT ![p - b.basePrice] = x]
  <2> DEFINE rested == AddToBucket(b, p, volume)
  <2>1. /\ DOMAIN rested = {"basePrice", "bestBid", "lowestBid", "bestOffer", "highestOffer", "memSpan"}
        /\ rested.memSpan = [b.memSpan EXCEPT ![p - b.basePrice] = x]
    BY <1>1 DEF AddToBucket, AddLiquidity, VolumeAt, Books
  <2> HIDE DEF rested, added, x
  <2>2. CASE volume < 0
    <3>1. volume < 0 /\ ~(volume > 0)
      BY <2>2
    <3>2. added = [rested EXCEPT !.lowestBid = Lower(@, p), !.bestBid = Higher(@, p)]
      BY <1>4, <3>1 DEF RestLiquidity, rested
    <3> QED BY <2>1, <3>2
  <2>3. CASE volume > 0
    <3>1. volume > 0 /\ ~(volume < 0)
      BY <2>3
    <3>2. added = [rested EXCEPT !.highestOffer = Higher(@, p), !.bestOffer = Lower(@, p)]
      BY <1>4, <3>1 DEF RestLiquidity, rested
    <3> QED BY <2>1, <3>2
  <2> QED BY <2>2, <2>3
<1> HIDE DEF added
<1>7. /\ VolumeAt(added, p) = x /\ added \in Books
      /\ p \in Window(added) /\ p # added.basePrice + BookLength
  BY <1>1, <1>5, <1>6 DEF VolumeAt, Coherent, Window
<1>8. ConsumeLiquidity(x, volume) = volume
  BY <1>1, RestsOnItsSide
  DEF ConsumeLiquidity, LiquidityMatch, SufficientLiquidity, IsNegative
<1>9. Coherent(withdrawn.book) /\ withdrawn.book.basePrice = added.basePrice
  BY <1>1, <1>5, <1>7, WithdrawKeeps DEF Kept
<1>10. PriceInRange(added, p)
  BY <1>1, <1>5, <1>7, InRangeIsWindow
<1> DEFINE taken == TakeFromBucket(added, p, volume)
<1>11. withdrawn.response.filledVolume = volume
       /\ withdrawn.book = RefreshStats(taken, p, VolumeAt(taken, p) = 0)
  <2> HIDE DEF x, taken
  <2> QED BY <1>7, <1>8, <1>10 DEF HandleWithdrawLimitOrder, Order, taken
<1>12. taken.memSpan = b.memSpan
       /\ DOMAIN taken = {"basePrice", "bestBid", "lowestBid", "bestOffer", "highestOffer", "memSpan"}
  <2>1. taken.memSpan = [added.memSpan EXCEPT ![p - b.basePrice] = @ - volume]
        /\ DOMAIN taken = {"basePrice", "bestBid", "lowestBid", "bestOffer", "highestOffer", "memSpan"}
    BY <1>5, <1>7 DEF TakeFromBucket, Books
  <2>2. x - volume = b.memSpan[p - b.basePrice]
    BY <1>1 DEF VolumeAt
  <2> HIDE DEF x, taken
  <2> QED BY <1>1, <1>6, <2>1, <2>2
<1> HIDE DEF taken, withdrawn
<1>13. withdrawn.book.memSpan = b.memSpan
  BY <1>11, <1>12 DEF RefreshStats
<1>14. withdrawn.book = b
  BY <1>5, <1>9, <1>13, VolumeDeterminesBook
<1> QED BY <1>11, <1>14 DEF withdrawn, added

\* A limit order that rests in full can be taken back: the withdrawal returns
\* its volume and leaves the book, stats included, as it was.
THEOREM AddingIsUndone == Spec => []AddThenWithdrawRestores
<1>1. IInv => AddThenWithdrawRestores
  <2> SUFFICES ASSUME IInv, NEW volume \in Volumes,
                      NEW price \in Prices \ {book.basePrice + BookLength}
               PROVE  LET added     == ProcessOrder(book, Order(volume, price),
                                                    BlankOrder, BlankOrder)
                          withdrawn == ProcessOrder(added.book, BlankOrder,
                                                    Order(volume, price), BlankOrder)
                      IN  added.response.error = 0 /\ ~CrossesBook(book, volume, price) =>
                            /\ withdrawn.book = book
                            /\ withdrawn.response.filledVolume = volume
    <3> USE DEF AddThenWithdrawRestores
    <3> QED OBVIOUS
  <2> DEFINE added     == ProcessOrder(book, Order(volume, price), BlankOrder, BlankOrder)
             withdrawn == ProcessOrder(added.book, BlankOrder, Order(volume, price), BlankOrder)
             limit     == HandleNewLimitOrder(book, Order(volume, price))
             withdraw  == HandleWithdrawLimitOrder(added.book, Order(volume, price))
  <2> SUFFICES ASSUME added.response.error = 0, ~CrossesBook(book, volume, price)
               PROVE  withdrawn.book = book /\ withdrawn.response.filledVolume = volume
    OBVIOUS
  <2>1. Coherent(book) /\ volume \in Int /\ price \in 0..UIntMax
        /\ price # book.basePrice + BookLength
    BY ClientAssumption DEF IInv
  <2>2. added.book = limit.book /\ Coherent(added.book) /\ added.book.basePrice = book.basePrice
    BY <2>1, ProcessLimitOrder DEF Kept
  <2>3. withdrawn.book = withdraw.book /\ withdrawn.response = withdraw.response
    <3> DEFINE mid == added.book
    <3>1. Coherent(mid) /\ price # mid.basePrice + BookLength
      BY <2>1, <2>2
    <3> HIDE DEF added, mid
    <3>2. LET result  == ProcessOrder(mid, BlankOrder, Order(volume, price), BlankOrder)
              handled == HandleWithdrawLimitOrder(mid, Order(volume, price))
          IN  result.book = handled.book /\ result.response = handled.response
      BY <2>1, <3>1, ProcessWithdrawal
    <3> QED BY <3>2 DEF mid
  <2>4. CASE volume = 0
    <3>1. RunThroughBook(book, 0, None) = [book |-> book, response |-> NoResponse]
      BY <2>1, DummyRunIsNoOp
    <3>2. limit.book = book
      BY <2>4, <3>1 DEF HandleNewLimitOrder, Order, CrossesBook
    <3> HIDE DEF limit, added
    <3>3. withdraw = [book |-> book, response |-> NoResponse]
      BY <2>1, <2>2, <2>4, <3>2, BlankWithdrawal
    <3> HIDE DEF withdraw, withdrawn
    <3> QED BY <2>3, <2>4, <3>3 DEF NoResponse
  <2>5. CASE volume # 0
    <3>1. RefusedOutOfBounds(book, price, added)
      BY <2>1, <2>5, LimitOrderRefused
    <3>2. price \in Window(book)
      BY <3>1 DEF RefusedOutOfBounds
    <3>3. LET restored == HandleWithdrawLimitOrder(limit.book, Order(volume, price))
          IN  restored.book = book /\ restored.response.filledVolume = volume
      BY <2>1, <2>5, <3>2, AddedThenWithdrawn
    <3> HIDE DEF limit, added
    <3> QED BY <2>2, <2>3, <3>3
  <2> QED BY <2>1, <2>4, <2>5
<1> QED BY <1>1, Invariance, PTL

-----------------------------------------------------------------------------
(* Price priority.                                                          *)

\* Only the better prices empty, and the marginal price the worst traded.
TradedInOrder(b, c, volume, marginal) ==
    LET traded == Traded(b, c, volume)
    IN  /\ \A p \in traded, q \in Facing(b, volume) :
              Better(volume, q, p) => q \notin Facing(c, volume)
        /\ traded # {} => /\ marginal \in traded
                          /\ \A p \in traded : ~Better(volume, marginal, p)

\* runThroughBook leaves what the loop left, and answers from where it stopped.
LEMMA RunLeaves ==
  ASSUME NEW b, Coherent(b), NEW volume \in Int, NEW end, ~DummyRun(end)
  PROVE  LET result == RunThroughBook(b, volume, end)
             run    == SweepBook(b, volume, end)
         IN  /\ result.book.memSpan = run.memSpan
             /\ result.book.basePrice = b.basePrice
             /\ result.response = [marginalPrice |-> b.basePrice + run.transactionIndex,
                                   filledVolume |-> volume - run.openVol,
                                   revenue |-> run.orderRevenue, error |-> 0]
<1> DEFINE run == SweepBook(b, volume, end)
           m   == [b EXCEPT !.memSpan = run.memSpan]
<1>1. /\ m.memSpan = run.memSpan /\ m.basePrice = b.basePrice
      /\ DOMAIN m = {"basePrice", "bestBid", "lowestBid", "bestOffer", "highestOffer", "memSpan"}
  BY DEF Coherent, Books
<1> HIDE DEF m
<1>2. \A buy, last : /\ RefreshBest(m, buy, last).memSpan = m.memSpan
                     /\ RefreshBest(m, buy, last).basePrice = m.basePrice
  BY <1>1 DEF RefreshBest
<1> HIDE DEF run
<1> QED BY <1>1, <1>2 DEF RunThroughBook, run, m

\* Between the extremes of a side lies no volume of the other side.
LEMMA SidesApart ==
  ASSUME NEW b, Coherent(b)
  PROVE  /\ b.bestOffer # None => \A q \in b.bestOffer..b.highestOffer :
                                    q \in Window(b) /\ VolumeAt(b, q) >= 0
         /\ b.bestBid # None => \A q \in b.lowestBid..b.bestBid :
                                  q \in Window(b) /\ VolumeAt(b, q) <= 0
<1>1. /\ b \in Books /\ SignedPrices(b.basePrice) /\ b.basePrice \in Nat
      /\ \A p \in Window(b) : p \in Int /\ VolumeAt(b, p) \in Int
  <2>1. b \in Books /\ SignedPrices(b.basePrice) /\ b.basePrice \in Nat
    BY DEF Coherent, Books
  <2> QED BY <2>1, WindowIsSigned
<1>2. ASSUME b.bestOffer # None, NEW q \in b.bestOffer..b.highestOffer
      PROVE  q \in Window(b) /\ VolumeAt(b, q) >= 0
  <2>1. b.bestOffer \in Offers(b) /\ b.bestOffer \in Window(b) /\ q \in Window(b)
        /\ b.highestOffer \in Window(b)
    BY <1>1, <1>2, CoherentOffers DEF Offers, Window
  <2>2. ASSUME VolumeAt(b, q) < 0 PROVE FALSE
    <3>1. q < b.bestOffer
      BY <2>1, <2>2 DEF Bids, Coherent, NotCrossed
    <3> DEFINE lo == b.bestOffer
               hi == b.highestOffer
    <3>2. lo \in Int /\ hi \in Int /\ q \in Int
      BY <1>1, <2>1
    <3> HIDE DEF lo, hi
    <3>3. q \in lo..hi /\ q < lo
      BY <3>1 DEF lo, hi
    <3> QED BY <3>2, <3>3
  <2> QED BY <1>1, <2>1, <2>2
<1>3. ASSUME b.bestBid # None, NEW q \in b.lowestBid..b.bestBid
      PROVE  q \in Window(b) /\ VolumeAt(b, q) <= 0
  <2>1. b.bestBid \in Bids(b) /\ b.bestBid \in Window(b) /\ b.lowestBid \in Window(b)
        /\ q \in Window(b)
    BY <1>1, <1>3, CoherentBids DEF Bids, Window
  <2>2. ASSUME VolumeAt(b, q) > 0 PROVE FALSE
    <3>1. b.bestBid < q
      BY <2>1, <2>2 DEF Offers, Coherent, NotCrossed
    <3> DEFINE lo == b.lowestBid
               hi == b.bestBid
    <3>2. lo \in Int /\ hi \in Int /\ q \in Int
      BY <1>1, <2>1
    <3> HIDE DEF lo, hi
    <3>3. q \in lo..hi /\ hi < q
      BY <3>1 DEF lo, hi
    <3> QED BY <3>2, <3>3
  <2> QED BY <1>1, <2>1, <2>2
<1> QED BY <1>2, <1>3

\* The run of an order to the far end of the side it faces takes from the best
\* price on, and answers with the last price it took from.
LEMMA RunTradesInOrder ==
  ASSUME NEW b, Coherent(b), NEW volume \in Int, volume # 0,
         NEW end, end = (IF volume < 0 THEN b.highestOffer ELSE b.lowestBid), end # None
  PROVE  LET run == RunThroughBook(b, volume, end)
         IN  TradedInOrder(b, run.book, volume, run.response.marginalPrice)
<1> DEFINE c   == RunThroughBook(b, volume, end).book
           r   == RunThroughBook(b, volume, end).response
           run == SweepBook(b, volume, end)
<1>1. /\ b \in Books /\ SignedPrices(b.basePrice) /\ b.basePrice \in Nat
      /\ \A p \in Window(b) : p \in 0..IntMax /\ Int32(p) = p /\ VolumeAt(b, p) \in Int
  BY WindowIsSigned DEF Coherent, Books
<1> DEFINE low  == IF volume < 0 THEN b.bestOffer ELSE b.lowestBid
           high == IF volume < 0 THEN b.highestOffer ELSE b.bestBid
<1>2. /\ SweptPrices(run, b, volume, low, high) /\ ~DummyRun(end)
      /\ low \in Window(b) /\ high \in Window(b)
      /\ \A p \in Facing(b, volume) : low <= p /\ p <= high
      /\ \A q \in low..high : Faces(volume, VolumeAt(b, q))
  <2>1. CASE volume < 0
    <3>1. SweptPrices(SweepBook(b, volume, b.highestOffer), b, volume, b.bestOffer, b.highestOffer)
      BY <2>1, SweepOffers
    <3> HIDE DEF run
    <3>2. SweptPrices(run, b, volume, low, high)
      BY <2>1, <3>1 DEF run
    <3> QED BY <1>1, <2>1, <3>2, CoherentOffers, SidesApart DEF Facing, Offers, DummyRun, Faces
  <2>2. CASE volume > 0
    <3>1. SweptPrices(SweepBook(b, volume, b.lowestBid), b, volume, b.lowestBid, b.bestBid)
      BY <2>2, SweepBids
    <3> HIDE DEF run
    <3>2. SweptPrices(run, b, volume, low, high)
      BY <2>2, <3>1 DEF run
    <3> QED BY <1>1, <2>2, <3>2, CoherentBids, SidesApart DEF Facing, Bids, DummyRun, Faces
  <2> QED BY <2>1, <2>2
<1>3. /\ c.memSpan = run.memSpan /\ c.basePrice = b.basePrice
      /\ r.marginalPrice = b.basePrice + run.transactionIndex
  <2>1. /\ c.memSpan = run.memSpan /\ c.basePrice = b.basePrice
        /\ r = [marginalPrice |-> b.basePrice + run.transactionIndex,
                filledVolume |-> volume - run.openVol,
                revenue |-> run.orderRevenue, error |-> 0]
    BY <1>2, RunLeaves
  <2> HIDE DEF c, r, run
  <2> QED BY <2>1
<1> HIDE DEF c, r, run, low, high
<1>4. /\ Window(c) = Window(b)
      /\ \A p \in Window(b) : VolumeAt(c, p) = run.memSpan[p - b.basePrice]
  BY <1>3 DEF Window, VolumeAt
<1>5. \A p \in Traded(b, c, volume) : /\ p \in Facing(b, volume) /\ p \in low..high
                                      /\ VolumeAt(c, p) # VolumeAt(b, p)
  BY <1>1, <1>2 DEF Traded, Facing, Offers, Bids
<1>6. ASSUME NEW p \in Traded(b, c, volume), NEW q \in Facing(b, volume), Better(volume, q, p)
      PROVE  q \notin Facing(c, volume)
  <2>1. q \in low..high /\ q \in Window(b)
    BY <1>1, <1>2 DEF Facing, Offers, Bids
  <2>2. run.memSpan[p - b.basePrice] # b.memSpan[p - b.basePrice]
    BY <1>3, <1>5 DEF VolumeAt
  <2>3. run.memSpan[q - b.basePrice] = 0
    BY <1>2, <1>5, <1>6, <2>1, <2>2 DEF SweptPrices, Better
  <2> QED BY <1>4, <2>1, <2>3 DEF Facing, Offers, Bids
<1>7. ASSUME NEW p \in Traded(b, c, volume)
      PROVE  r.marginalPrice \in Traded(b, c, volume) /\ ~Better(volume, r.marginalPrice, p)
  <2>1. run.memSpan[p - b.basePrice] # b.memSpan[p - b.basePrice]
    BY <1>3, <1>5 DEF VolumeAt
  <2>2. PICK q \in low..high : /\ IF volume < 0 THEN p <= q ELSE q <= p
                               /\ run.transactionIndex = q - b.basePrice
                               /\ run.memSpan[q - b.basePrice] # b.memSpan[q - b.basePrice]
    BY <1>2, <1>5, <2>1 DEF SweptPrices
  <2>3. low \in Int /\ high \in Int /\ low..high \subseteq Window(b) /\ q \in Int /\ p \in Int
    BY <1>1, <1>2, <1>5 DEF Window
  <2>4. r.marginalPrice = q
    BY <1>1, <1>3, <2>2, <2>3
  <2>5. q - b.basePrice \in Cells /\ VolumeAt(c, q) # VolumeAt(b, q)
        /\ Toward(VolumeAt(c, q), VolumeAt(b, q)) /\ VolumeAt(c, q) \in Int
    <3>1. q \in Window(b)
      BY <2>3
    <3>2. q - b.basePrice \in Cells
      BY <1>1, <3>1, WindowIsSigned DEF Span, Cells
    <3> QED BY <1>2, <1>3, <2>2, <3>2 DEF SweptPrices, VolumeAt
  <2>6. Faces(volume, VolumeAt(b, q))
    BY <1>2
  <2>7. q \in Traded(b, c, volume)
    BY <1>1, <2>3, <2>5, <2>6 DEF Traded, Toward, Faces
  <2> QED BY <2>2, <2>3, <2>4, <2>7 DEF Better
<1> QED BY <1>6, <1>7 DEF TradedInOrder, c, r

\* What rests changes one bucket.
LEMMA RestsInItsBucket ==
  ASSUME NEW b \in Books, SignedPrices(b.basePrice), NEW u \in Int, NEW p \in Window(b)
  PROVE  LET c == RestLiquidity(b, u, p)
         IN  /\ c.basePrice = b.basePrice
             /\ c.memSpan = [b.memSpan EXCEPT ![p - b.basePrice] = VolumeAt(b, p) + u]
             /\ Window(c) = Window(b)
             /\ VolumeAt(c, p) = VolumeAt(b, p) + u
             /\ \A q \in Window(b) : q # p => VolumeAt(c, q) = VolumeAt(b, q)
<1> DEFINE c     == RestLiquidity(b, u, p)
           added == AddToBucket(b, p, u)
           x     == VolumeAt(b, p) + u
<1>1. /\ b.basePrice \in Nat /\ b.memSpan \in [Cells -> Int]
      /\ \A q \in Window(b) : q \in Int /\ q - b.basePrice \in Cells
      /\ VolumeAt(b, p) \in Int /\ x \in Int
  BY WindowIsSigned, SMTT(30) DEF Books, Span, Cells
<1>2. /\ DOMAIN added = {"basePrice", "bestBid", "lowestBid", "bestOffer", "highestOffer", "memSpan"}
      /\ added.memSpan = [b.memSpan EXCEPT ![p - b.basePrice] = x]
      /\ added.basePrice = b.basePrice
  BY <1>1 DEF AddToBucket, AddLiquidity, VolumeAt, Books
<1> HIDE DEF added, x
<1>3. c.memSpan = added.memSpan /\ c.basePrice = added.basePrice
  <2>1. CASE u < 0
    <3>1. c = [added EXCEPT !.lowestBid = Lower(@, p), !.bestBid = Higher(@, p)]
      BY <2>1 DEF RestLiquidity, added
    <3> QED BY <1>2, <3>1
  <2>2. CASE u > 0
    <3>1. c = [added EXCEPT !.highestOffer = Higher(@, p), !.bestOffer = Lower(@, p)]
      BY <2>2 DEF RestLiquidity, added
    <3> QED BY <1>2, <3>1
  <2>3. CASE u = 0
    BY <2>3 DEF RestLiquidity, added
  <2> QED BY <2>1, <2>2, <2>3
<1> HIDE DEF c
<1>4. Window(c) = Window(b)
  BY <1>2, <1>3 DEF Window
<1>5. \A q \in Window(b) : q # p => q - b.basePrice # p - b.basePrice
  BY <1>1
<1>6. VolumeAt(c, p) = x
  BY <1>1, <1>2, <1>3 DEF VolumeAt
<1>7. \A q \in Window(b) : q # p => VolumeAt(c, q) = VolumeAt(b, q)
  BY <1>1, <1>2, <1>3, <1>5 DEF VolumeAt
<1> QED BY <1>2, <1>3, <1>4, <1>6, <1>7 DEF c, x

\* What rests after a run does not count as trading: it goes where the run has
\* left nothing to trade with.
LEMMA RestingIsNoTrade ==
  ASSUME NEW b \in Books, SignedPrices(b.basePrice),
         NEW c \in Books, c.basePrice = b.basePrice,
         NEW volume \in Int, volume # 0, NEW p \in Window(b), NEW u \in Int,
         Toward(u, volume), NEW marginal,
         TradedInOrder(b, c, volume, marginal),
         u # 0 => /\ ~Faces(volume, VolumeAt(c, p)) \/ VolumeAt(c, p) = 0
                  /\ Toward(VolumeAt(c, p), VolumeAt(b, p))
  PROVE  TradedInOrder(b, RestLiquidity(c, u, p), volume, marginal)
<1> DEFINE d == RestLiquidity(c, u, p)
<1>1. /\ Window(c) = Window(b) /\ SignedPrices(c.basePrice)
      /\ \A q \in Window(b) : VolumeAt(b, q) \in Int /\ VolumeAt(c, q) \in Int
  BY WindowIsSigned DEF Window
<1>2. /\ Window(d) = Window(b) /\ VolumeAt(d, p) = VolumeAt(c, p) + u
      /\ \A q \in Window(b) : q # p => VolumeAt(d, q) = VolumeAt(c, q)
  <2>1. p \in Window(c)
    BY <1>1
  <2>2. /\ Window(d) = Window(c) /\ VolumeAt(d, p) = VolumeAt(c, p) + u
        /\ \A q \in Window(c) : q # p => VolumeAt(d, q) = VolumeAt(c, q)
    BY <1>1, <2>1, RestsInItsBucket
  <2> HIDE DEF d
  <2> QED BY <1>1, <2>2
<1> HIDE DEF d
<1>3. Traded(b, d, volume) = Traded(b, c, volume)
  <2>1. \A q \in Window(b) : q # p => (q \in Traded(b, d, volume) <=> q \in Traded(b, c, volume))
    BY <1>2 DEF Traded
  <2>2. p \in Traded(b, d, volume) <=> p \in Traded(b, c, volume)
    BY <1>1, <1>2 DEF Traded, Toward, Faces
  <2>3. Traded(b, d, volume) \subseteq Window(b) /\ Traded(b, c, volume) \subseteq Window(b)
    BY DEF Traded
  <2> QED BY <2>1, <2>2, <2>3
<1>4. \A q \in Facing(d, volume) : q \in Facing(c, volume)
  <2>1. \A q \in Window(b) : q # p => (q \in Facing(d, volume) => q \in Facing(c, volume))
    BY <1>1, <1>2 DEF Facing, Offers, Bids
  <2>2. p \in Facing(d, volume) => p \in Facing(c, volume)
    BY <1>1, <1>2 DEF Facing, Offers, Bids, Toward, Faces
  <2>3. Facing(d, volume) \subseteq Window(b)
    BY <1>2 DEF Facing, Offers, Bids
  <2> QED BY <2>1, <2>2, <2>3
<1>5. TradedInOrder(b, d, volume, marginal)
  BY <1>3, <1>4 DEF TradedInOrder
<1> QED BY <1>5 DEF d

\* A run to the far end of the side an order faces takes from prices without
\* adding to any, and leaves an order open only with nothing to trade with.
LEMMA RunEmptiesOrFills ==
  ASSUME NEW b, Coherent(b), NEW volume \in Int, volume # 0,
         NEW end, end = (IF volume < 0 THEN b.highestOffer ELSE b.lowestBid), end # None
  PROVE  LET run  == RunThroughBook(b, volume, end)
             open == volume - run.response.filledVolume
         IN  /\ Coherent(run.book) /\ run.book.basePrice = b.basePrice
             /\ open \in Int /\ Toward(open, volume)
             /\ \A p \in Window(b) :
                   /\ Toward(VolumeAt(run.book, p), VolumeAt(b, p))
                   /\ open # 0 => ~Faces(volume, VolumeAt(run.book, p)) \/ VolumeAt(run.book, p) = 0
<1> DEFINE run  == RunThroughBook(b, volume, end)
           c    == run.book
           open == volume - run.response.filledVolume
<1>1. /\ b \in Books /\ SignedPrices(b.basePrice)
      /\ \A p \in Window(b) : p - b.basePrice \in Cells /\ Int32(p) = p /\ p \in 0..IntMax
  BY WindowIsSigned DEF Coherent, Span, Cells
<1>2. /\ Coherent(c) /\ c.basePrice = b.basePrice
      /\ open \in Int /\ Toward(open, volume)
      /\ open # 0 => IF volume < 0 THEN c.bestOffer = None ELSE c.bestBid = None
  <2>1. CASE volume < 0
    BY <2>1, RunBuy
  <2>2. CASE volume > 0
    BY <2>2, RunSell
  <2> QED BY <2>1, <2>2
<1>3. \A p \in Window(b) : Toward(VolumeAt(c, p), VolumeAt(b, p))
  <2> DEFINE swept == SweepBook(b, volume, end)
  <2>1. ~DummyRun(end)
    BY <1>1, CoherentBids, CoherentOffers DEF DummyRun
  <2>2. /\ c.memSpan = swept.memSpan /\ c.basePrice = b.basePrice
        /\ run.response = [marginalPrice |-> b.basePrice + swept.transactionIndex,
                           filledVolume |-> volume - swept.openVol,
                           revenue |-> swept.orderRevenue, error |-> 0]
    BY <2>1, RunLeaves
  <2>3. \A i \in Cells : Toward(swept.memSpan[i], b.memSpan[i])
    <3>1. CASE volume < 0
      BY <3>1, SweepOffers DEF SweptPrices
    <3>2. CASE volume > 0
      BY <3>2, SweepBids DEF SweptPrices
    <3> QED BY <3>1, <3>2
  <2> HIDE DEF c, swept
  <2> QED BY <1>1, <1>2, <2>2, <2>3 DEF VolumeAt
<1> HIDE DEF open, c, run
<1>4. ASSUME NEW p \in Window(b), open # 0
      PROVE  ~Faces(volume, VolumeAt(c, p)) \/ VolumeAt(c, p) = 0
  <2>1. Facing(c, volume) = {} /\ p \in Window(c) /\ VolumeAt(c, p) \in Int
    <3>1. p \in Window(c) /\ c \in Books /\ SignedPrices(c.basePrice)
      BY <1>2 DEF Window, Coherent
    <3> QED BY <1>2, <1>4, <3>1, EmptySides, WindowIsSigned DEF Facing
  <2> QED BY <2>1 DEF Facing, Offers, Bids, Faces
<1> QED BY <1>2, <1>3, <1>4 DEF open, c, run

\* An order that leaves a book as it is has traded nothing.
LEMMA NothingTraded ==
  ASSUME NEW b, Coherent(b), NEW volume \in Int, NEW marginal
  PROVE  TradedInOrder(b, b, volume, marginal)
<1>1. \A p \in Window(b) : VolumeAt(b, p) \in Int
  BY WindowIsSigned DEF Coherent
<1>2. Traded(b, b, volume) = {}
  BY <1>1 DEF Traded
<1> QED BY <1>2 DEF TradedInOrder

LEMMA MarketOrderTradesInOrder ==
  ASSUME NEW b, Coherent(b), NEW volume \in Int, volume # 0
  PROVE  LET result == HandleMarketOrder(b, Order(volume, 0))
         IN  TradedInOrder(b, result.book, volume, result.response.marginalPrice)
<1> DEFINE end == IF volume < 0 THEN b.highestOffer ELSE b.lowestBid
           run == RunThroughBook(b, volume, end)
<1>1. HandleMarketOrder(b, Order(volume, 0)) = run
  BY DEF HandleMarketOrder, Order
<1>2. TradedInOrder(b, run.book, volume, run.response.marginalPrice)
  <2>1. CASE end = None
    <3>1. run = [book |-> b, response |-> NoResponse]
      BY <2>1, DummyRunIsNoOp
    <3>2. \A marginal : TradedInOrder(b, b, volume, marginal)
      BY NothingTraded
    <3> HIDE DEF run
    <3> QED BY <3>1, <3>2
  <2>2. CASE end # None
    BY <2>2, RunTradesInOrder
  <2> QED BY <2>1, <2>2
<1> HIDE DEF run
<1> QED BY <1>1, <1>2

LEMMA LimitOrderTradesInOrder ==
  ASSUME NEW b, Coherent(b), NEW volume \in Int, volume # 0, NEW p \in Window(b)
  PROVE  LET result == HandleNewLimitOrder(b, Order(volume, p))
         IN  TradedInOrder(b, result.book, volume, result.response.marginalPrice)
<1> DEFINE result == HandleNewLimitOrder(b, Order(volume, p))
           end    == IF volume < 0 THEN b.highestOffer ELSE b.lowestBid
           run    == RunThroughBook(b, volume, IF CrossesBook(b, volume, p) THEN end ELSE None)
           open   == volume - run.response.filledVolume
<1>1. /\ b \in Books /\ SignedPrices(b.basePrice)
      /\ p \in 0..UIntMax /\ p # b.basePrice + BookLength
      /\ VolumeAt(b, p) \in Int
  BY WindowIsSigned DEF Coherent, Books, Window
<1>2. PriceInRange(b, p)
  BY <1>1, InRangeIsWindow
<1>3. /\ result.book = RestLiquidity(run.book, open, p)
      /\ result.response.marginalPrice = run.response.marginalPrice
  BY <1>2 DEF HandleNewLimitOrder, Order, RunThroughBook
<1>4. /\ Coherent(run.book) /\ run.book.basePrice = b.basePrice
      /\ open \in Int /\ Toward(open, volume)
      /\ TradedInOrder(b, run.book, volume, run.response.marginalPrice)
      /\ open # 0 => /\ ~Faces(volume, VolumeAt(run.book, p)) \/ VolumeAt(run.book, p) = 0
                     /\ Toward(VolumeAt(run.book, p), VolumeAt(b, p))
  <2>1. CASE ~CrossesBook(b, volume, p)
    <3>1. run = [book |-> b, response |-> NoResponse]
      BY <2>1, DummyRunIsNoOp
    <3> HIDE DEF run
    <3>2. run.book = b /\ run.response.filledVolume = 0
      BY <3>1 DEF NoResponse
    <3>3. open = volume
      BY <3>2
    <3>4. /\ volume < 0 => VolumeAt(b, p) <= 0
          /\ volume > 0 => VolumeAt(b, p) >= 0
      BY <2>1, RestsOnItsSide
    <3> HIDE DEF open
    <3>5. ~Faces(volume, VolumeAt(b, p)) \/ VolumeAt(b, p) = 0
      BY <1>1, <3>4 DEF Faces
    <3>6. Toward(volume, volume) /\ Toward(VolumeAt(b, p), VolumeAt(b, p))
      BY <1>1 DEF Toward
    <3>7. TradedInOrder(b, b, volume, run.response.marginalPrice)
      BY NothingTraded
    <3> QED BY <3>2, <3>3, <3>5, <3>6, <3>7
  <2>2. CASE CrossesBook(b, volume, p)
    <3>1. end # None /\ run = RunThroughBook(b, volume, end)
      BY <2>2, CoherentBids, CoherentOffers DEF CrossesBook
    <3>2. TradedInOrder(b, run.book, volume, run.response.marginalPrice)
      <4> HIDE DEF run
      <4> QED BY <3>1, RunTradesInOrder
    <3>3. /\ Coherent(run.book) /\ run.book.basePrice = b.basePrice
          /\ open \in Int /\ Toward(open, volume)
          /\ \A q \in Window(b) :
                /\ Toward(VolumeAt(run.book, q), VolumeAt(b, q))
                /\ open # 0 => ~Faces(volume, VolumeAt(run.book, q)) \/ VolumeAt(run.book, q) = 0
      <4> HIDE DEF run
      <4> QED BY <3>1, RunEmptiesOrFills
    <3> HIDE DEF run, end, open
    <3> QED BY <3>2, <3>3
  <2> QED BY <2>1, <2>2
<1> HIDE DEF run, open
<1>5. TradedInOrder(b, RestLiquidity(run.book, open, p), volume, run.response.marginalPrice)
  BY <1>1, <1>4, RestingIsNoTrade DEF Coherent
<1> QED BY <1>3, <1>5

\* Orders trade best price first, and the marginal price they are answered
\* with is the worst price they traded at.
THEOREM BetterPricesGoFirst == Spec => BestPricesFirst
<1> DEFINE InOrder == Trades(call') =>
             LET volume == call'.volume
                 traded == Traded(book, book', volume)
             IN  /\ \A p \in traded, q \in Facing(book, volume) :
                        Better(volume, q, p) => q \notin Facing(book', volume)
                 /\ traded # {} =>
                        /\ call'.response.marginalPrice \in traded
                        /\ \A p \in traded : ~Better(volume, call'.response.marginalPrice, p)
<1>1. IInv /\ [Next]_vars => [InOrder]_vars
  <2> SUFFICES ASSUME IInv, Next, Trades(call')
               PROVE  TradedInOrder(book, book', call'.volume, call'.response.marginalPrice)
    BY DEF TradedInOrder
  <2>1. Coherent(book)
    BY DEF IInv
  <2>2. ASSUME NEW volume \in Volumes, NEW price \in Prices, ~PastTheBook(price),
               AddLimitOrder(volume, price)
        PROVE  TradedInOrder(book, book', call'.volume, call'.response.marginalPrice)
    <3> DEFINE result == ProcessOrder(book, Order(volume, price), BlankOrder, BlankOrder)
               limit  == HandleNewLimitOrder(book, Order(volume, price))
    <3>1. volume \in Int /\ price \in 0..UIntMax /\ price # book.basePrice + BookLength
      BY <2>2, ClientAssumption DEF PastTheBook
    <3>2. result.book = limit.book /\ result.response = limit.response
      BY <2>1, <3>1, ProcessLimitOrder
    <3>3. volume # 0 => RefusedOutOfBounds(book, price, result)
      BY <2>1, <3>1, LimitOrderRefused
    <3>4. volume # 0 /\ price \in Window(book) =>
            TradedInOrder(book, limit.book, volume, limit.response.marginalPrice)
      BY <2>1, <3>1, LimitOrderTradesInOrder
    <3> HIDE DEF result, limit
    <3>5. book' = result.book /\ call' = [op |-> "limit", volume |-> volume, price |-> price,
                                          response |-> result.response]
      BY <2>2 DEF AddLimitOrder, Processed, result
    <3>6. volume # 0
      BY <3>5 DEF Trades
    <3>7. CASE price \notin Window(book)
      <4>1. book' = book
        BY <3>3, <3>5, <3>6, <3>7 DEF RefusedOutOfBounds
      <4> QED BY <2>1, <3>1, <3>5, <4>1, NothingTraded
    <3> QED BY <3>2, <3>4, <3>5, <3>6, <3>7
  <2>3. ASSUME NEW volume \in Volumes, MarketOrder(volume)
        PROVE  TradedInOrder(book, book', call'.volume, call'.response.marginalPrice)
    <3> DEFINE result == ProcessOrder(book, BlankOrder, BlankOrder, Order(volume, 0))
               market == HandleMarketOrder(book, Order(volume, 0))
    <3>1. volume \in Int
      BY ClientAssumption
    <3>2. result.book = market.book /\ result.response = market.response
      BY <2>1, <3>1, ProcessMarketOrder
    <3>3. volume # 0 => TradedInOrder(book, market.book, volume, market.response.marginalPrice)
      BY <2>1, <3>1, MarketOrderTradesInOrder
    <3> HIDE DEF result, market
    <3>4. book' = result.book /\ call' = [op |-> "market", volume |-> volume, price |-> 0,
                                          response |-> result.response]
      BY <2>3 DEF MarketOrder, Processed, result
    <3>5. volume # 0
      BY <3>4 DEF Trades
    <3> QED BY <3>2, <3>3, <3>4, <3>5
  <2>4. ASSUME NEW volume \in Volumes, NEW price \in Prices, WithdrawLimitOrder(volume, price)
        PROVE  FALSE
    BY <2>4 DEF WithdrawLimitOrder, Processed, Trades
  <2>5. ASSUME NEW shiftBy \in Shifts, ShiftBook(shiftBy) PROVE FALSE
    BY <2>5 DEF ShiftBook, Trades
  <2> QED BY <2>2, <2>3, <2>4, <2>5 DEF Next
<1> QED BY <1>1, Invariance, PTL DEF Spec, BestPricesFirst

-----------------------------------------------------------------------------
(* What a call does to the totals of the book.                              *)

VolumesOf(b) == [p \in Window(b) |-> VolumeAt(b, p)]
ValuesOf(b)  == [p \in Window(b) |-> p * VolumeAt(b, p)]

\* The totals are sums over the window.
LEMMA TotalsAreTallies ==
  ASSUME NEW b, b.basePrice \in Nat
  PROVE  /\ IsFiniteSet(Window(b))
         /\ \E h : IsTally(h, VolumesOf(b), Window(b)) /\ TotalVolume(b) = h[Window(b)]
         /\ \E h : IsTally(h, ValuesOf(b), Window(b)) /\ TotalValue(b) = h[Window(b)]
<1> DEFINE W == Window(b)
<1>1. IsFiniteSet(W)
  <2>1. b.basePrice \in Int /\ b.basePrice + BookLength - 1 \in Int
    OBVIOUS
  <2> QED BY <2>1, FS_Interval DEF Window
<1>2. \A s \in SUBSET W : s # {} => Some(s) \in W
  BY SomeElement
<1> HIDE DEF W
<1>3. \E h : IsTally(h, VolumesOf(b), W) /\ TotalVolume(b) = h[W]
  <2> DEFINE Recursion(h) ==
        h = [s \in SUBSET W |-> IF s = {} THEN 0
                                ELSE VolumeAt(b, Some(s)) + h[s \ {Some(s)}]]
  <2>1. \A h : Recursion(h) <=> IsTally(h, VolumesOf(b), W)
    <3>1. \A s \in SUBSET W : s # {} => VolumesOf(b)[Some(s)] = VolumeAt(b, Some(s))
      BY <1>2 DEF VolumesOf, W
    <3>2. \A h : [s \in SUBSET W |-> IF s = {} THEN 0
                                     ELSE VolumeAt(b, Some(s)) + h[s \ {Some(s)}]]
               = [s \in SUBSET W |-> IF s = {} THEN 0
                                     ELSE VolumesOf(b)[Some(s)] + h[s \ {Some(s)}]]
      BY <3>1
    <3> QED BY <3>2 DEF IsTally
  <2>2. \E h : Recursion(h)
    BY <1>1, <2>1, TallyExists
  <2>3. TotalVolume(b) = (CHOOSE h : Recursion(h))[W]
    BY DEF TotalVolume, MapThenSumSet, MapThenFoldSet, Some, W
  <2> HIDE DEF Recursion
  <2>4. Recursion(CHOOSE h : Recursion(h))
    BY <2>2
  <2> QED BY <2>1, <2>3, <2>4
<1>4. \E h : IsTally(h, ValuesOf(b), W) /\ TotalValue(b) = h[W]
  <2> DEFINE Recursion(h) ==
        h = [s \in SUBSET W |-> IF s = {} THEN 0
                                ELSE Some(s) * VolumeAt(b, Some(s)) + h[s \ {Some(s)}]]
  <2>1. \A h : Recursion(h) <=> IsTally(h, ValuesOf(b), W)
    <3>1. \A s \in SUBSET W : s # {} => ValuesOf(b)[Some(s)] = Some(s) * VolumeAt(b, Some(s))
      BY <1>2 DEF ValuesOf, W
    <3>2. \A h : [s \in SUBSET W |-> IF s = {} THEN 0
                                     ELSE Some(s) * VolumeAt(b, Some(s)) + h[s \ {Some(s)}]]
               = [s \in SUBSET W |-> IF s = {} THEN 0
                                     ELSE ValuesOf(b)[Some(s)] + h[s \ {Some(s)}]]
      BY <3>1
    <3> QED BY <3>2 DEF IsTally
  <2>2. \E h : Recursion(h)
    BY <1>1, <2>1, TallyExists
  <2>3. TotalValue(b) = (CHOOSE h : Recursion(h))[W]
    BY DEF TotalValue, MapThenSumSet, MapThenFoldSet, Some, W
  <2> HIDE DEF Recursion
  <2>4. Recursion(CHOOSE h : Recursion(h))
    BY <2>2
  <2> QED BY <2>1, <2>3, <2>4
<1> QED BY <1>1, <1>3, <1>4 DEF W

\* A bucket that gains x moves the totals by x and by its worth.
LEMMA TotalsFollow ==
  ASSUME NEW b \in Books, SignedPrices(b.basePrice),
         NEW c \in Books, c.basePrice = b.basePrice,
         NEW p \in Window(b), NEW x \in Int, VolumeAt(c, p) = VolumeAt(b, p) + x,
         \A q \in Window(b) : q # p => VolumeAt(c, q) = VolumeAt(b, q)
  PROVE  /\ TotalVolume(b) \in Int /\ TotalVolume(c) = TotalVolume(b) + x
         /\ TotalValue(b) \in Int /\ TotalValue(c) = TotalValue(b) + p * x
<1> DEFINE W == Window(b)
<1>1. /\ Window(c) = W /\ b.basePrice \in Nat /\ c.basePrice \in Nat
      /\ \A q \in W : q \in Int /\ VolumeAt(b, q) \in Int /\ VolumeAt(c, q) \in Int
      /\ p \in W
  BY WindowIsSigned DEF Window, Books
<1>2. IsFiniteSet(W)
  BY <1>1, TotalsAreTallies
<1> HIDE DEF W
<1>3. TotalVolume(b) \in Int /\ TotalVolume(c) = TotalVolume(b) + x
  <2>1. PICK g : IsTally(g, VolumesOf(b), W) /\ TotalVolume(b) = g[W]
    BY <1>1, TotalsAreTallies DEF W
  <2>2. PICK h : IsTally(h, VolumesOf(c), W) /\ TotalVolume(c) = h[W]
    BY <1>1, TotalsAreTallies
  <2>3. /\ \A q \in W : VolumesOf(b)[q] = VolumeAt(b, q)
        /\ \A q \in W : VolumesOf(c)[q] = VolumeAt(c, q)
    BY <1>1 DEF VolumesOf, W
  <2>4. /\ \A q \in W : VolumesOf(b)[q] \in Int /\ VolumesOf(c)[q] \in Int
        /\ \A q \in W : q # p => VolumesOf(c)[q] = VolumesOf(b)[q]
    BY <1>1, <2>3 DEF W
  <2>5. g[W] \in Int /\ h[W] = g[W] + (VolumesOf(c)[p] - VolumesOf(b)[p])
    BY <1>1, <1>2, <2>1, <2>2, <2>4, TallyChanges
  <2>6. VolumesOf(c)[p] - VolumesOf(b)[p] = x
    BY <1>1, <2>3
  <2> QED BY <2>1, <2>2, <2>5, <2>6
<1>4. TotalValue(b) \in Int /\ TotalValue(c) = TotalValue(b) + p * x
  <2>1. PICK g : IsTally(g, ValuesOf(b), W) /\ TotalValue(b) = g[W]
    BY <1>1, TotalsAreTallies DEF W
  <2>2. PICK h : IsTally(h, ValuesOf(c), W) /\ TotalValue(c) = h[W]
    BY <1>1, TotalsAreTallies
  <2>3. /\ \A q \in W : ValuesOf(b)[q] = q * VolumeAt(b, q)
        /\ \A q \in W : ValuesOf(c)[q] = q * VolumeAt(c, q)
    BY <1>1 DEF ValuesOf, W
  <2>4. /\ \A q \in W : ValuesOf(b)[q] \in Int /\ ValuesOf(c)[q] \in Int
        /\ \A q \in W : q # p => ValuesOf(c)[q] = ValuesOf(b)[q]
    BY <1>1, <2>3 DEF W
  <2>5. g[W] \in Int /\ h[W] = g[W] + (ValuesOf(c)[p] - ValuesOf(b)[p])
    BY <1>1, <1>2, <2>1, <2>2, <2>4, TallyChanges
  <2>6. ValuesOf(c)[p] - ValuesOf(b)[p] = p * x
    <3> DEFINE v == VolumeAt(b, p)
    <3>1. v \in Int /\ p \in Int /\ ValuesOf(b)[p] = p * v /\ ValuesOf(c)[p] = p * (v + x)
      BY <1>1, <2>3
    <3> HIDE DEF v
    <3>2. p * (v + x) = p * v + p * x /\ p * v \in Int /\ p * x \in Int
      BY <3>1
    <3> QED BY <3>1, <3>2
  <2> QED BY <2>1, <2>2, <2>5, <2>6
<1> QED BY <1>3, <1>4

\* The totals are those of the buckets.
LEMMA TotalsOfBuckets ==
  ASSUME NEW b \in Books, SignedPrices(b.basePrice),
         NEW c \in Books, c.basePrice = b.basePrice, c.memSpan = b.memSpan
  PROVE  /\ TotalVolume(b) \in Int /\ TotalVolume(c) = TotalVolume(b)
         /\ TotalValue(b) \in Int /\ TotalValue(c) = TotalValue(b)
<1>1. PICK p : p \in Window(b)
  <2>1. b.basePrice \in Window(b)
    BY DEF Window, Books
  <2> QED BY <2>1
<1> DEFINE x == 0
<1>2. VolumeAt(b, p) \in Int /\ p \in Int
  BY <1>1, WindowIsSigned
<1>3. /\ x \in Int /\ VolumeAt(c, p) = VolumeAt(b, p) + x
      /\ \A q \in Window(b) : q # p => VolumeAt(c, q) = VolumeAt(b, q)
  BY <1>2 DEF VolumeAt
<1> HIDE DEF x
<1>4. /\ TotalVolume(b) \in Int /\ TotalVolume(c) = TotalVolume(b) + x
      /\ TotalValue(b) \in Int /\ TotalValue(c) = TotalValue(b) + p * x
  BY <1>1, <1>3, TotalsFollow
<1>5. p * x = 0 /\ x = 0
  BY <1>2 DEF x
<1> QED BY <1>4, <1>5

\* What a run took went into the order, and its worth into the revenue.
Balanced(b, volume, run) ==
    LET c == [b EXCEPT !.memSpan = run.memSpan]
    IN  /\ run.memSpan \in [Cells -> Int] /\ run.openVol \in Int /\ run.orderRevenue \in Int
        /\ TotalVolume(c) = TotalVolume(b) + (volume - run.openVol)
        /\ TotalValue(c) = TotalValue(b) + run.orderRevenue

LEMMA SweepStepBalances ==
  ASSUME NEW b \in Books, SignedPrices(b.basePrice), NEW volume \in Int,
         NEW run, Balanced(b, volume, run), NEW i \in Span
  PROVE  Balanced(b, volume, SweepStep(run, i, b.basePrice))
<1> DEFINE f   == ConsumeLiquidity(run.memSpan[i], -run.openVol)
           new == SweepStep(run, i, b.basePrice)
           c   == [b EXCEPT !.memSpan = run.memSpan]
           d   == [b EXCEPT !.memSpan = new.memSpan]
           p   == i + b.basePrice
<1>1. /\ i \in Int /\ i >= 0 /\ i \in Cells /\ b.basePrice \in Nat
      /\ p \in Window(b) /\ p \in Int /\ p - b.basePrice = i
  BY SMTT(30) DEF Span, Cells, Books, Window
<1>2. CASE run.openVol = 0
  BY <1>2 DEF SweepStep
<1>3. CASE run.openVol # 0
  <2>1. /\ run.memSpan \in [Cells -> Int] /\ run.memSpan[i] \in Int
        /\ run.openVol \in Int /\ run.orderRevenue \in Int
        /\ f \in Int
    BY <1>1, ConsumeShrinks DEF Balanced
  <2>2. new = [memSpan |-> [run.memSpan EXCEPT ![i] = @ - f],
               openVol |-> run.openVol + f,
               orderRevenue |-> run.orderRevenue - f * p,
               transactionIndex |-> IF f # 0 THEN i ELSE run.transactionIndex]
    BY <1>1, <1>3 DEF SweepStep, FillFromBucket
  <2> HIDE DEF f, new, p
  <2>3. /\ new.memSpan = [run.memSpan EXCEPT ![i] = @ - f]
        /\ new.memSpan \in [Cells -> Int]
        /\ new.openVol = run.openVol + f /\ new.openVol \in Int
        /\ new.orderRevenue = run.orderRevenue - f * p /\ new.orderRevenue \in Int
    BY <1>1, <2>1, <2>2
  <2>4. /\ c \in Books /\ c.basePrice = b.basePrice /\ c.memSpan = run.memSpan
        /\ d \in Books /\ d.basePrice = b.basePrice /\ d.memSpan = new.memSpan
    BY <2>1, <2>3 DEF Books
  <2> HIDE DEF c, d
  <2>5. /\ p \in Window(c) /\ Window(c) = Window(b)
        /\ VolumeAt(d, p) = VolumeAt(c, p) + (-f)
        /\ \A q \in Window(c) : q # p => VolumeAt(d, q) = VolumeAt(c, q)
    <3>1. Window(c) = Window(b)
      BY <2>4 DEF Window
    <3>2. \A q \in Window(b) : q \in Int /\ q - b.basePrice \in Cells
      BY WindowIsSigned DEF Span, Cells
    <3>3. \A q \in Window(b) : q # p => q - b.basePrice # i
      BY <1>1, <3>2
    <3>4. VolumeAt(d, p) = run.memSpan[i] - f /\ VolumeAt(c, p) = run.memSpan[i]
      BY <1>1, <2>1, <2>3, <2>4 DEF VolumeAt
    <3>5. \A q \in Window(b) : q # p => VolumeAt(d, q) = VolumeAt(c, q)
      BY <1>1, <2>1, <2>3, <2>4, <3>2, <3>3 DEF VolumeAt
    <3> QED BY <1>1, <2>1, <3>1, <3>4, <3>5
  <2> DEFINE x == -f
  <2>6. /\ TotalVolume(c) \in Int /\ TotalVolume(d) = TotalVolume(c) + x
        /\ TotalValue(c) \in Int /\ TotalValue(d) = TotalValue(c) + p * x
    <3>1. x \in Int /\ VolumeAt(d, p) = VolumeAt(c, p) + x
      BY <2>1, <2>5
    <3>2. SignedPrices(c.basePrice) /\ d.basePrice = c.basePrice
      BY <2>4
    <3> HIDE DEF x
    <3> QED BY <2>4, <2>5, <3>1, <3>2, TotalsFollow
  <2>7. /\ TotalVolume(c) = TotalVolume(b) + (volume - run.openVol)
        /\ TotalValue(c) = TotalValue(b) + run.orderRevenue
    BY DEF Balanced, c
  <2>8. TotalVolume(b) \in Int /\ TotalValue(b) \in Int
    <3>1. b.memSpan = b.memSpan
      OBVIOUS
    <3> QED BY TotalsOfBuckets
  <2>9. TotalVolume(d) = TotalVolume(b) + (volume - new.openVol)
    BY <2>1, <2>3, <2>6, <2>7, <2>8
  <2>10. TotalValue(d) = TotalValue(b) + new.orderRevenue
    <3> DEFINE w == f * p
    <3>1. p * x = -w /\ w \in Int
      BY <1>1, <2>1
    <3> HIDE DEF w, x
    <3>2. new.orderRevenue = run.orderRevenue - w
      BY <2>3 DEF w
    <3> QED BY <2>1, <2>6, <2>7, <2>8, <3>1, <3>2
  <2>11. Balanced(b, volume, new)
    BY <2>3, <2>9, <2>10 DEF Balanced, d
  <2> QED BY <2>11 DEF new
<1> QED BY <1>2, <1>3

\* The whole loop.
LEMMA SweepBalances ==
  ASSUME NEW b \in Books, SignedPrices(b.basePrice), NEW volume \in Int,
         NEW start \in Int, NEW inc \in Int, NEW n \in Nat,
         \A j \in 0..(n - 1) : start + inc * j \in Span
  PROVE  Balanced(b, volume, Sweep(b.memSpan, b.basePrice, volume, start, inc, n)[n])
<1> DEFINE run  == Sweep(b.memSpan, b.basePrice, volume, start, inc, n)
           Done == {k \in Nat : k <= n => Balanced(b, volume, run[k])}
<1>1. /\ run[0] = SweepStart(b.memSpan, volume)
      /\ \A k \in 0..(n - 1) : run[k + 1] = SweepStep(run[k], start + inc * k, b.basePrice)
  <2>1. run = [k \in 0..n |-> IF k = 0 THEN SweepStart(b.memSpan, volume)
                 ELSE SweepStep(run[k - 1], start + inc * (k - 1), b.basePrice)]
    BY SweepDefined
  <2> HIDE DEF run
  <2>2. \A k \in 0..(n - 1) : k + 1 \in 0..n /\ (k + 1) - 1 = k /\ k + 1 # 0
    OBVIOUS
  <2> QED BY <2>1, <2>2
<1> HIDE DEF run
<1>2. 0 \in Done
  <2> DEFINE first == SweepStart(b.memSpan, volume)
  <2>1. /\ first.memSpan = b.memSpan /\ first.openVol = volume /\ first.orderRevenue = 0
        /\ b.memSpan \in [Cells -> Int] /\ [b EXCEPT !.memSpan = b.memSpan] = b
    BY DEF SweepStart, Books
  <2>2. TotalVolume(b) \in Int /\ TotalValue(b) \in Int
    BY TotalsOfBuckets
  <2> HIDE DEF first
  <2>3. Balanced(b, volume, first)
    BY <2>1, <2>2 DEF Balanced
  <2> QED BY <1>1, <2>3 DEF first
<1>3. ASSUME NEW k \in Done PROVE k + 1 \in Done
  <2>1. CASE k + 1 <= n
    <3>1. k \in 0..(n - 1) /\ Balanced(b, volume, run[k])
      BY <2>1
    <3> DEFINE i == start + inc * k
    <3>2. i \in Span
      BY <3>1
    <3> HIDE DEF i
    <3>3. Balanced(b, volume, SweepStep(run[k], i, b.basePrice))
      BY <3>1, <3>2, SweepStepBalances
    <3> QED BY <1>1, <3>1, <3>3 DEF i
  <2>2. CASE ~(k + 1 <= n)
    BY <2>2
  <2> QED BY <2>1, <2>2
<1>4. Done = Nat
  <2>1. Done \in SUBSET Nat
    OBVIOUS
  <2> HIDE DEF Done
  <2> QED BY <1>2, <1>3, <2>1, NatSetInduction
<1>5. n \in Done
  BY <1>4
<1> QED BY <1>5 DEF run

\* The totals change by this much volume and by this much worth.
Settled(b, c, volume, value) ==
    /\ TotalVolume(c) = TotalVolume(b) + volume
    /\ TotalValue(c) = TotalValue(b) + value

LEMMA NothingSettled ==
  ASSUME NEW b, Coherent(b)
  PROVE  Settled(b, b, 0, 0)
<1>1. b \in Books /\ SignedPrices(b.basePrice)
  BY DEF Coherent
<1>2. TotalVolume(b) \in Int /\ TotalValue(b) \in Int
  BY <1>1, TotalsOfBuckets
<1> QED BY <1>2 DEF Settled

\* A run takes out of the book what it reports as filled, for what it reports
\* as revenue.
LEMMA RunSettles ==
  ASSUME NEW b, Coherent(b), NEW volume \in Int, volume # 0,
         NEW end, end = (IF volume < 0 THEN b.highestOffer ELSE b.lowestBid), end # None
  PROVE  LET run == RunThroughBook(b, volume, end)
         IN  Settled(b, run.book, run.response.filledVolume, run.response.revenue)
<1> DEFINE c   == RunThroughBook(b, volume, end).book
           r   == RunThroughBook(b, volume, end).response
           run == SweepBook(b, volume, end)
           m   == [b EXCEPT !.memSpan = run.memSpan]
<1>1. /\ b \in Books /\ SignedPrices(b.basePrice) /\ b.basePrice \in Nat
      /\ \A q \in Window(b) : q \in 0..IntMax /\ Int32(q) = q /\ q - b.basePrice \in Span
  BY WindowIsSigned DEF Coherent, Books
<1> DEFINE low  == IF volume < 0 THEN b.bestOffer ELSE b.lowestBid
           high == IF volume < 0 THEN b.highestOffer ELSE b.bestBid
           from == IF volume < 0 THEN low ELSE high
           step == IF volume < 0 THEN 1 ELSE -1
           n    == high - low + 1
<1>2. /\ low \in Window(b) /\ high \in Window(b) /\ low <= high /\ ~DummyRun(end)
      /\ low \in Int /\ high \in Int
  <2>1. CASE volume < 0
    BY <1>1, <2>1, CoherentOffers DEF DummyRun
  <2>2. CASE volume > 0
    BY <1>1, <2>2, CoherentBids DEF DummyRun
  <2> QED BY <2>1, <2>2
<1>3. n \in Nat /\ from - b.basePrice \in Int /\ step \in Int
  BY <1>1, <1>2
<1>4. run = Sweep(b.memSpan, b.basePrice, volume, from - b.basePrice, step, n)[n]
  <2>1. CASE volume < 0
    <3>1. /\ run = Sweep(b.memSpan, b.basePrice, volume, b.bestOffer - b.basePrice, 1,
                         Iterations(b.highestOffer - b.bestOffer))
                      [Iterations(b.highestOffer - b.bestOffer)]
          /\ low = b.bestOffer /\ high = b.highestOffer /\ from = low /\ step = 1
      BY <1>2, <2>1 DEF SweepBook
    <3>2. Iterations(high - low) = n
      BY <1>2 DEF Iterations
    <3> HIDE DEF run, low, high, from, step, n
    <3> QED BY <3>1, <3>2
  <2>2. CASE volume > 0
    <3>1. /\ run = Sweep(b.memSpan, b.basePrice, volume, b.bestBid - b.basePrice, -1,
                         Iterations(b.bestBid - b.lowestBid))
                      [Iterations(b.bestBid - b.lowestBid)]
          /\ low = b.lowestBid /\ high = b.bestBid /\ from = high /\ step = -1
      BY <1>2, <2>2 DEF SweepBook
    <3>2. Iterations(high - low) = n
      BY <1>2 DEF Iterations
    <3> HIDE DEF run, low, high, from, step, n
    <3> QED BY <3>1, <3>2
  <2> QED BY <2>1, <2>2
<1>5. \A j \in 0..(n - 1) : (from - b.basePrice) + step * j \in Span
  <2> SUFFICES ASSUME NEW j \in 0..(n - 1) PROVE (from - b.basePrice) + step * j \in Span
    OBVIOUS
  <2>1. CASE volume < 0
    <3>1. low + j \in Window(b)
      BY <1>1, <1>2 DEF Window
    <3>2. (from - b.basePrice) + step * j = (low + j) - b.basePrice
      <4>1. from = low /\ step * j = j
        BY <2>1
      <4> HIDE DEF low, from, step
      <4> QED BY <1>1, <1>2, <4>1
    <3> QED BY <1>1, <3>1, <3>2
  <2>2. CASE volume > 0
    <3>1. high - j \in Window(b)
      BY <1>1, <1>2 DEF Window
    <3>2. (from - b.basePrice) + step * j = (high - j) - b.basePrice
      <4>1. from = high /\ step * j = -j
        BY <2>2
      <4> HIDE DEF high, from, step
      <4> QED BY <1>1, <1>2, <4>1
    <3> QED BY <1>1, <3>1, <3>2
  <2> QED BY <2>1, <2>2
<1>6. Balanced(b, volume, run)
  <2> DEFINE start == from - b.basePrice
  <2>1. /\ start \in Int /\ step \in Int /\ n \in Nat
        /\ \A j \in 0..(n - 1) : start + step * j \in Span
        /\ run = Sweep(b.memSpan, b.basePrice, volume, start, step, n)[n]
    BY <1>3, <1>4, <1>5
  <2>2. b \in Books /\ SignedPrices(b.basePrice)
    BY <1>1
  <2> HIDE DEF run, start, step, n
  <2>3. Balanced(b, volume, Sweep(b.memSpan, b.basePrice, volume, start, step, n)[n])
    BY <2>1, <2>2, SweepBalances
  <2> QED BY <2>1, <2>3
<1>7. /\ c.memSpan = run.memSpan /\ c.basePrice = b.basePrice
      /\ r = [marginalPrice |-> b.basePrice + run.transactionIndex,
              filledVolume |-> volume - run.openVol,
              revenue |-> run.orderRevenue, error |-> 0]
  BY <1>2, RunLeaves
<1>8. c \in Books
  <2>1. Coherent(c)
    BY RunEmptiesOrFills
  <2> QED BY <2>1 DEF Coherent
<1> HIDE DEF c, r, run
<1>9. /\ m \in Books /\ m.memSpan = run.memSpan /\ m.basePrice = b.basePrice
      /\ SignedPrices(m.basePrice)
  BY <1>1, <1>6 DEF Balanced, Books
<1>10. TotalVolume(c) = TotalVolume(m) /\ TotalValue(c) = TotalValue(m)
  <2> HIDE DEF m
  <2> QED BY <1>7, <1>8, <1>9, TotalsOfBuckets
<1>11. /\ TotalVolume(m) = TotalVolume(b) + (volume - run.openVol)
       /\ TotalValue(m) = TotalValue(b) + run.orderRevenue
  BY <1>6 DEF Balanced
<1>12. r.filledVolume = volume - run.openVol /\ r.revenue = run.orderRevenue
  BY <1>7
<1> HIDE DEF m
<1> QED BY <1>10, <1>11, <1>12 DEF Settled, c, r

LEMMA MarketOrderSettles ==
  ASSUME NEW b, Coherent(b), NEW volume \in Int
  PROVE  LET result == HandleMarketOrder(b, Order(volume, 0))
         IN  Settled(b, result.book, result.response.filledVolume, result.response.revenue)
<1> DEFINE end == CASE volume = 0 -> None
                    [] volume < 0 -> b.highestOffer
                    [] OTHER      -> b.lowestBid
           run == RunThroughBook(b, volume, end)
<1>1. HandleMarketOrder(b, Order(volume, 0)) = run
  BY DEF HandleMarketOrder, Order
<1>2. CASE end = None
  <2>1. run = [book |-> b, response |-> NoResponse]
    BY <1>2, DummyRunIsNoOp
  <2> HIDE DEF run
  <2>2. run.book = b /\ run.response.filledVolume = 0 /\ run.response.revenue = 0
    BY <2>1 DEF NoResponse
  <2> QED BY <1>1, <2>2, NothingSettled
<1>3. CASE end # None
  <2>1. volume # 0 /\ end = IF volume < 0 THEN b.highestOffer ELSE b.lowestBid
    BY <1>3
  <2>2. Settled(b, run.book, run.response.filledVolume, run.response.revenue)
    <3> HIDE DEF end
    <3> QED BY <1>3, <2>1, RunSettles
  <2> HIDE DEF run
  <2> QED BY <1>1, <2>2
<1> QED BY <1>2, <1>3

LEMMA LimitOrderSettles ==
  ASSUME NEW b, Coherent(b), NEW volume \in Int, volume # 0, NEW p \in Window(b)
  PROVE  LET result == HandleNewLimitOrder(b, Order(volume, p))
             r      == result.response
         IN  Settled(b, result.book, volume, r.revenue + (volume - r.filledVolume) * p)
<1> DEFINE result == HandleNewLimitOrder(b, Order(volume, p))
           end    == IF volume < 0 THEN b.highestOffer ELSE b.lowestBid
           run    == RunThroughBook(b, volume, IF CrossesBook(b, volume, p) THEN end ELSE None)
           open   == volume - run.response.filledVolume
<1>1. /\ b \in Books /\ SignedPrices(b.basePrice) /\ p \in Int
      /\ p \in 0..UIntMax /\ p # b.basePrice + BookLength
  BY WindowIsSigned, SMTT(30) DEF Coherent, Books, Window
<1>2. PriceInRange(b, p)
  BY <1>1, InRangeIsWindow
<1>3. /\ result.book = RestLiquidity(run.book, open, p)
      /\ result.response.revenue = run.response.revenue
      /\ result.response.filledVolume = run.response.filledVolume
  BY <1>2 DEF HandleNewLimitOrder, Order, RunThroughBook
<1>4. /\ Coherent(run.book) /\ run.book.basePrice = b.basePrice /\ open \in Int
      /\ run.response.filledVolume \in Int /\ run.response.revenue \in Int
      /\ Settled(b, run.book, run.response.filledVolume, run.response.revenue)
  <2>1. CASE ~CrossesBook(b, volume, p)
    <3>1. run = [book |-> b, response |-> NoResponse]
      BY <2>1, DummyRunIsNoOp
    <3> HIDE DEF run
    <3>2. run.book = b /\ run.response.filledVolume = 0 /\ run.response.revenue = 0
      BY <3>1 DEF NoResponse
    <3> QED BY <3>2, NothingSettled
  <2>2. CASE CrossesBook(b, volume, p)
    <3>1. end # None /\ run = RunThroughBook(b, volume, end)
      BY <2>2, CoherentBids, CoherentOffers DEF CrossesBook
    <3>2. Coherent(run.book) /\ run.book.basePrice = b.basePrice /\ run.response \in Responses
      <4>1. CASE volume < 0
        <5>1. end = b.highestOffer
          BY <4>1
        <5> HIDE DEF run, end
        <5> QED BY <3>1, <4>1, <5>1, RunBuy
      <4>2. CASE volume > 0
        <5>1. end = b.lowestBid
          BY <4>2
        <5> HIDE DEF run, end
        <5> QED BY <3>1, <4>2, <5>1, RunSell
      <4> QED BY <4>1, <4>2
    <3>3. Settled(b, run.book, run.response.filledVolume, run.response.revenue)
      <4> HIDE DEF run
      <4> QED BY <3>1, RunSettles
    <3> HIDE DEF run
    <3>4. run.response.filledVolume \in Int /\ run.response.revenue \in Int
      BY <3>2 DEF Responses
    <3> QED BY <3>2, <3>3, <3>4
  <2> QED BY <2>1, <2>2
<1>5. result.book \in Books /\ result.book.basePrice = b.basePrice
  BY <1>1, LimitOrderKeeps DEF Kept, Coherent
<1> HIDE DEF run, result
<1> DEFINE c == run.book
           d == result.book
<1>6. /\ c \in Books /\ SignedPrices(c.basePrice) /\ c.basePrice = b.basePrice
      /\ p \in Window(c) /\ open \in Int /\ d \in Books /\ d.basePrice = c.basePrice
  BY <1>4, <1>5 DEF Coherent, Window
<1> HIDE DEF open
<1>7. /\ VolumeAt(d, p) = VolumeAt(c, p) + open
      /\ \A q \in Window(c) : q # p => VolumeAt(d, q) = VolumeAt(c, q)
  <2>1. d = RestLiquidity(c, open, p)
    BY <1>3
  <2> HIDE DEF c, d
  <2>2. LET rested == RestLiquidity(c, open, p)
        IN  /\ VolumeAt(rested, p) = VolumeAt(c, p) + open
            /\ \A q \in Window(c) : q # p => VolumeAt(rested, q) = VolumeAt(c, q)
    BY <1>6, RestsInItsBucket
  <2> QED BY <2>1, <2>2
<1> HIDE DEF c, d
<1>8. /\ TotalVolume(c) \in Int /\ TotalVolume(d) = TotalVolume(c) + open
      /\ TotalValue(c) \in Int /\ TotalValue(d) = TotalValue(c) + p * open
  BY <1>6, <1>7, TotalsFollow
<1>9. TotalVolume(b) \in Int /\ TotalValue(b) \in Int
  BY <1>1, TotalsOfBuckets
<1>10. TotalVolume(d) = TotalVolume(b) + volume
  BY <1>4, <1>8, <1>9 DEF Settled, open, c
<1>11. TotalValue(d) = TotalValue(b) + (run.response.revenue + (volume - run.response.filledVolume) * p)
  <2>1. p * open = (volume - run.response.filledVolume) * p /\ p * open \in Int
    <3>1. p * open = open * p /\ p * open \in Int
      BY <1>1, <1>6
    <3> QED BY <3>1 DEF open
  <2> DEFINE w == p * open
  <2> HIDE DEF w
  <2>2. TotalValue(d) = TotalValue(b) + (run.response.revenue + w)
    BY <1>4, <1>8, <1>9, <2>1 DEF Settled, c, w
  <2> QED BY <2>1, <2>2 DEF w
<1> QED BY <1>3, <1>10, <1>11 DEF Settled, d, result

\* An accepted withdrawal takes what its answer reports out of its bucket.
LEMMA WithdrawsFromItsBucket ==
  ASSUME NEW b, Coherent(b), NEW volume \in Int, volume # 0, NEW p \in Window(b)
  PROVE  LET result == HandleWithdrawLimitOrder(b, Order(volume, p))
             filled == result.response.filledVolume
             c      == result.book
         IN  /\ filled = ConsumeLiquidity(VolumeAt(b, p), volume) /\ filled \in Int
             /\ Coherent(c) /\ c.basePrice = b.basePrice
             /\ VolumeAt(b, p) \in Int /\ VolumeAt(c, p) = VolumeAt(b, p) + -filled
             /\ \A q \in Window(b) : q # p => VolumeAt(c, q) = VolumeAt(b, q)
<1> DEFINE result == HandleWithdrawLimitOrder(b, Order(volume, p))
           f      == ConsumeLiquidity(VolumeAt(b, p), volume)
           taken  == TakeFromBucket(b, p, f)
           c      == result.book
           y      == VolumeAt(b, p) - f
           x      == -f
<1>1. /\ b \in Books /\ SignedPrices(b.basePrice) /\ p \in Int
      /\ p \in 0..UIntMax /\ p # b.basePrice + BookLength /\ VolumeAt(b, p) \in Int
  BY WindowIsSigned DEF Coherent, Books, Window
<1>2. PriceInRange(b, p)
  BY <1>1, InRangeIsWindow
<1>3. /\ c = RefreshStats(taken, p, VolumeAt(taken, p) = 0)
      /\ result.response.filledVolume = f
  BY <1>2 DEF HandleWithdrawLimitOrder, Order
<1>4. f \in Int /\ y \in Int /\ x \in Int /\ y = VolumeAt(b, p) + x
  <2>1. f \in Int
    BY <1>1, ConsumeShrinks
  <2> HIDE DEF f
  <2> QED BY <1>1, <2>1
<1>5. c \in Books /\ c.basePrice = b.basePrice /\ Coherent(c)
  BY <1>1, WithdrawKeeps DEF Kept, Coherent
<1> HIDE DEF f, c, y, x
<1>6. taken = [b EXCEPT !.memSpan[p - b.basePrice] = y]
  BY <1>1 DEF TakeFromBucket, y, VolumeAt, Books
<1>7. /\ taken \in Books /\ taken.basePrice = b.basePrice
      /\ VolumeAt(taken, p) = y
      /\ \A q \in Window(b) : q # p => VolumeAt(taken, q) = VolumeAt(b, q)
  <2> DEFINE t == [b EXCEPT !.memSpan[p - b.basePrice] = y]
  <2>1. /\ t \in Books /\ t.basePrice = b.basePrice /\ Window(t) = Window(b)
        /\ t.bestBid = b.bestBid /\ t.lowestBid = b.lowestBid
        /\ t.bestOffer = b.bestOffer /\ t.highestOffer = b.highestOffer
        /\ VolumeAt(t, p) = y
        /\ \A q \in Window(b) : q # p => VolumeAt(t, q) = VolumeAt(b, q)
        /\ \A q \in Window(b) : VolumeAt(b, q) \in Int /\ VolumeAt(t, q) \in Int
        /\ t.memSpan[BookLength] = b.memSpan[BookLength]
    <3>1. b \in Books /\ SignedPrices(b.basePrice) /\ p \in Window(b) /\ y \in Int
      BY <1>1, <1>4
    <3> QED BY <3>1, OneBucket, ZenonT(30)
  <2>2. taken = t
    BY <1>6
  <2> HIDE DEF taken, t
  <2> QED BY <2>1, <2>2
<1> HIDE DEF taken
<1>8. c.memSpan = taken.memSpan
  BY <1>3, <1>7 DEF RefreshStats, Books
<1>9. /\ VolumeAt(c, p) = VolumeAt(b, p) + x
      /\ \A q \in Window(b) : q # p => VolumeAt(c, q) = VolumeAt(b, q)
  BY <1>4, <1>5, <1>7, <1>8 DEF VolumeAt
<1> HIDE DEF result
<1> QED BY <1>1, <1>3, <1>4, <1>5, <1>9 DEF f, c, x, result

LEMMA WithdrawalSettles ==
  ASSUME NEW b, Coherent(b), NEW volume \in Int, volume # 0, NEW p \in Window(b)
  PROVE  LET result == HandleWithdrawLimitOrder(b, Order(volume, p))
             filled == result.response.filledVolume
         IN  filled \in Int /\ Settled(b, result.book, -filled, (-filled) * p)
<1> DEFINE c == HandleWithdrawLimitOrder(b, Order(volume, p)).book
           f == HandleWithdrawLimitOrder(b, Order(volume, p)).response.filledVolume
           x == -f
<1>1. /\ f \in Int /\ Coherent(c) /\ c.basePrice = b.basePrice
      /\ VolumeAt(c, p) = VolumeAt(b, p) + x
      /\ \A q \in Window(b) : q # p => VolumeAt(c, q) = VolumeAt(b, q)
  BY WithdrawsFromItsBucket
<1>2. b \in Books /\ SignedPrices(b.basePrice) /\ p \in Int
  BY WindowIsSigned DEF Coherent
<1> HIDE DEF c, f
<1>3. x \in Int /\ c \in Books
  BY <1>1 DEF Coherent
<1> HIDE DEF x
<1>4. /\ TotalVolume(c) = TotalVolume(b) + x
      /\ TotalValue(c) = TotalValue(b) + p * x
  BY <1>1, <1>2, <1>3, TotalsFollow
<1>5. p * x = x * p
  BY <1>2, <1>3
<1>6. Settled(b, c, x, x * p)
  BY <1>4, <1>5 DEF Settled
<1> QED BY <1>1, <1>6 DEF c, f, x

\* An accepted order is owed exactly what its answer says.
LEMMA AcceptedIsSettled ==
  ASSUME IInv, Next, Accepted(call')
  PROVE  Settled(book, book', OwedVolume(call'), OwedValue(call'))
<1>1. Coherent(book)
  BY DEF IInv
<1>2. ASSUME NEW volume \in Volumes, NEW price \in Prices, ~PastTheBook(price),
             AddLimitOrder(volume, price)
      PROVE  Settled(book, book', OwedVolume(call'), OwedValue(call'))
  <2> DEFINE result == ProcessOrder(book, Order(volume, price), BlankOrder, BlankOrder)
             limit  == HandleNewLimitOrder(book, Order(volume, price))
             r      == limit.response
  <2>1. volume \in Int /\ price \in 0..UIntMax /\ price # book.basePrice + BookLength
    BY <1>2, ClientAssumption DEF PastTheBook
  <2>2. result.book = limit.book /\ result.response = limit.response
    BY <1>1, <2>1, ProcessLimitOrder
  <2>3. volume # 0 => RefusedOutOfBounds(book, price, result)
    BY <1>1, <2>1, LimitOrderRefused
  <2>4. volume # 0 /\ price \in Window(book) =>
          Settled(book, limit.book, volume, r.revenue + (volume - r.filledVolume) * price)
    BY <1>1, <2>1, LimitOrderSettles
  <2>5. volume = 0 =>
          Settled(book, limit.book, volume, r.revenue + (volume - r.filledVolume) * price)
    <3> SUFFICES ASSUME volume = 0
                 PROVE  Settled(book, limit.book, volume,
                                r.revenue + (volume - r.filledVolume) * price)
      OBVIOUS
    <3>1. RunThroughBook(book, 0, None) = [book |-> book, response |-> NoResponse]
      BY <1>1, DummyRunIsNoOp
    <3>2. ~CrossesBook(book, 0, price)
      BY DEF CrossesBook
    <3>3. limit = [book |-> book, response |-> [NoResponse EXCEPT !.error = 0]]
      BY <3>1, <3>2 DEF HandleNewLimitOrder, Order
    <3>4. limit.book = book /\ r.revenue = 0 /\ r.filledVolume = 0
      BY <3>3 DEF NoResponse
    <3>5. r.revenue + (volume - r.filledVolume) * price = 0
      BY <2>1, <3>4
    <3> HIDE DEF limit, r
    <3> QED BY <1>1, <3>4, <3>5, NothingSettled
  <2> HIDE DEF result, limit
  <2>6. book' = result.book /\ call' = [op |-> "limit", volume |-> volume, price |-> price,
                                        response |-> result.response]
    BY <1>2 DEF AddLimitOrder, Processed, result
  <2>7. volume # 0 => price \in Window(book)
    BY <2>3, <2>6 DEF RefusedOutOfBounds, Accepted
  <2>8. /\ OwedVolume(call') = volume
        /\ OwedValue(call') = r.revenue + (volume - r.filledVolume) * price
    BY <2>2, <2>6 DEF OwedVolume, OwedValue
  <2> QED BY <2>2, <2>4, <2>5, <2>6, <2>7, <2>8
<1>3. ASSUME NEW volume \in Volumes, NEW price \in Prices, ~PastTheBook(price),
             WithdrawLimitOrder(volume, price)
      PROVE  Settled(book, book', OwedVolume(call'), OwedValue(call'))
  <2> DEFINE result   == ProcessOrder(book, BlankOrder, Order(volume, price), BlankOrder)
             withdraw == HandleWithdrawLimitOrder(book, Order(volume, price))
             f        == withdraw.response.filledVolume
  <2>1. volume \in Int /\ price \in 0..UIntMax /\ price # book.basePrice + BookLength
    BY <1>3, ClientAssumption DEF PastTheBook
  <2>2. result.book = withdraw.book /\ result.response = withdraw.response
    BY <1>1, <2>1, ProcessWithdrawal
  <2>3. volume # 0 => RefusedOutOfBounds(book, price, result)
    BY <1>1, <2>1, WithdrawalRefused
  <2>4. volume # 0 /\ price \in Window(book) =>
          f \in Int /\ Settled(book, withdraw.book, -f, (-f) * price)
    <3> SUFFICES ASSUME volume # 0, price \in Window(book)
                 PROVE  f \in Int /\ Settled(book, withdraw.book, -f, (-f) * price)
      OBVIOUS
    <3> QED BY <1>1, <2>1, WithdrawalSettles
  <2>5. volume = 0 => f \in Int /\ Settled(book, withdraw.book, -f, (-f) * price)
    <3> SUFFICES ASSUME volume = 0
                 PROVE  f \in Int /\ Settled(book, withdraw.book, -f, (-f) * price)
      OBVIOUS
    <3>1. withdraw = [book |-> book, response |-> NoResponse]
      BY <1>1, <2>1, BlankWithdrawal
    <3> HIDE DEF withdraw
    <3>2. withdraw.book = book /\ f = 0
      BY <3>1 DEF NoResponse
    <3> HIDE DEF f
    <3>3. f \in Int
      BY <3>2
    <3> DEFINE g == -f
    <3>4. g \in Int /\ g + f = 0
      BY <3>3
    <3> HIDE DEF g
    <3>5. g = 0
      BY <3>2, <3>4
    <3>6. g * price = 0
      BY <2>1, <3>5
    <3>7. Settled(book, withdraw.book, g, g * price)
      BY <1>1, <3>2, <3>5, <3>6, NothingSettled
    <3> QED BY <3>3, <3>7 DEF g
  <2> HIDE DEF result, withdraw
  <2>6. book' = result.book /\ call' = [op |-> "withdraw", volume |-> volume, price |-> price,
                                        response |-> result.response]
    BY <1>3 DEF WithdrawLimitOrder, Processed, result
  <2>7. volume # 0 => price \in Window(book)
    BY <2>3, <2>6 DEF RefusedOutOfBounds, Accepted
  <2>8. f \in Int /\ Settled(book, withdraw.book, -f, (-f) * price)
    BY <2>4, <2>5, <2>7
  <2>9. /\ call'.op = "withdraw"
        /\ call'.price = price
        /\ call'.response.filledVolume = f
    BY <2>2, <2>6
  <2> HIDE DEF f
  <2>10. OwedVolume(call') = -f /\ OwedValue(call') = -(f * price)
    BY <2>9 DEF OwedVolume, OwedValue
  <2>11. (-f) * price = -(f * price)
    BY <2>1, <2>8
  <2> QED BY <2>2, <2>6, <2>8, <2>10, <2>11
<1>4. ASSUME NEW volume \in Volumes, MarketOrder(volume)
      PROVE  Settled(book, book', OwedVolume(call'), OwedValue(call'))
  <2> DEFINE result == ProcessOrder(book, BlankOrder, BlankOrder, Order(volume, 0))
             market == HandleMarketOrder(book, Order(volume, 0))
  <2>1. volume \in Int
    BY ClientAssumption
  <2>2. result.book = market.book /\ result.response = market.response
    BY <1>1, <2>1, ProcessMarketOrder
  <2>3. Settled(book, market.book, market.response.filledVolume, market.response.revenue)
    BY <1>1, <2>1, MarketOrderSettles
  <2> HIDE DEF result, market
  <2>4. book' = result.book /\ call' = [op |-> "market", volume |-> volume, price |-> 0,
                                        response |-> result.response]
    BY <1>4 DEF MarketOrder, Processed, result
  <2>5. /\ OwedVolume(call') = market.response.filledVolume
        /\ OwedValue(call') = market.response.revenue
    BY <2>2, <2>4 DEF OwedVolume, OwedValue
  <2> QED BY <2>2, <2>3, <2>4, <2>5
<1>5. ASSUME NEW shiftBy \in Shifts, ShiftBook(shiftBy)
      PROVE  Settled(book, book', OwedVolume(call'), OwedValue(call'))
  BY <1>5 DEF ShiftBook, Accepted
<1> QED BY <1>2, <1>3, <1>4, <1>5 DEF Next

\* No call creates or loses volume: the signed volume in the book moves by
\* what the answer reports as filled, rested or withdrawn.
THEOREM VolumeIsConserved == Spec => VolumeConserved
<1>1. IInv /\ [Next]_vars =>
        [Accepted(call') => TotalVolume(book') = TotalVolume(book) + OwedVolume(call')]_vars
  BY AcceptedIsSettled DEF Settled
<1> QED BY <1>1, Invariance, PTL DEF Spec, VolumeConserved

\* The revenue an order is answered with is the worth, price by price, of what
\* it took out of the book.
THEOREM RevenueIsWorth == Spec => RevenueMatchesTrades
<1>1. IInv /\ [Next]_vars =>
        [Accepted(call') => TotalValue(book') = TotalValue(book) + OwedValue(call')]_vars
  BY AcceptedIsSettled DEF Settled
<1> QED BY <1>1, Invariance, PTL DEF Spec, RevenueMatchesTrades

-----------------------------------------------------------------------------
(* The market the book stands for: what the handlers do is what MarketBook   *)
(* says of the volume at the prices.                                         *)

\* Only prices that clients name have volume.
InPrices(b) == \A p \in Window(b) : VolumeAt(b, p) # 0 => p \in Prices

Depths(b, S) == [p \in S |-> Depth(b, p)]

LEMMA DepthIsInt ==
  ASSUME NEW b, Coherent(b)
  PROVE  /\ \A p : Depth(b, p) \in Int
         /\ \A p \in Window(b) : Depth(b, p) = VolumeAt(b, p)
         /\ \A p : p \notin Window(b) => Depth(b, p) = 0
<1>1. \A p \in Window(b) : VolumeAt(b, p) \in Int
  BY WindowIsSigned DEF Coherent
<1> QED BY <1>1 DEF Depth

\* The volume of the whole book is the sum over the prices of the market, with
\* or without those the window does not reach.
LEMMA TotalOfDepths ==
  ASSUME NEW b, Coherent(b), NEW S, IsFiniteSet(S), Window(b) \subseteq S,
         NEW h, IsTally(h, Depths(b, S), S)
  PROVE  IsSum(h, Depths(b, S), S) /\ TotalVolume(b) = h[S]
<1> DEFINE W == Window(b)
<1>1. b.basePrice \in Nat
  BY DEF Coherent, Books
<1>2. PICK g : IsTally(g, VolumesOf(b), W) /\ TotalVolume(b) = g[W]
  BY <1>1, TotalsAreTallies
<1>3. \A p \in S : Depths(b, S)[p] = Depth(b, p)
  BY DEF Depths
<1>4. \A p \in W : VolumesOf(b)[p] = Depths(b, S)[p]
  BY <1>3, DepthIsInt DEF VolumesOf
<1>5. \A p \in S : Depths(b, S)[p] \in Int /\ (p \notin W => Depths(b, S)[p] = 0)
  BY <1>3, DepthIsInt
<1>6. IsFiniteSet(W) /\ W \in SUBSET S
  BY <1>1, TotalsAreTallies
<1> HIDE DEF W
<1> DEFINE f == Depths(b, S)
           v == VolumesOf(b)
<1>7. IsTally(g, v, W) /\ IsTally(h, f, S) /\ \A p \in W : v[p] = f[p]
  BY <1>2, <1>4
<1>8. \A p \in S : f[p] \in Int /\ (p \notin W => f[p] = 0)
  BY <1>5
<1> HIDE DEF f, v
<1>9. IsSum(h, f, S)
  BY <1>7, <1>8, TallyIsSum
<1>10. g[W] = h[W]
  BY <1>6, <1>7, TalliesAgree
<1>11. h[W] = h[S]
  BY <1>6, <1>8, <1>9, SumSkipsZeros
<1> QED BY <1>2, <1>9, <1>10, <1>11 DEF f

\* A run takes from nothing but what the order faces.
LEMMA RunTouchesFacing ==
  ASSUME NEW b, Coherent(b), NEW volume \in Int, volume # 0,
         NEW end, end = (IF volume < 0 THEN b.highestOffer ELSE b.lowestBid), end # None
  PROVE  LET c == RunThroughBook(b, volume, end).book
         IN  \A p \in Window(b) : VolumeAt(c, p) # VolumeAt(b, p) => Faces(volume, VolumeAt(b, p))
<1> DEFINE c    == RunThroughBook(b, volume, end).book
           run  == SweepBook(b, volume, end)
           low  == IF volume < 0 THEN b.bestOffer ELSE b.lowestBid
           high == IF volume < 0 THEN b.highestOffer ELSE b.bestBid
<1>1. /\ b \in Books /\ SignedPrices(b.basePrice) /\ b.basePrice \in Nat
      /\ \A p \in Window(b) : p \in 0..IntMax /\ Int32(p) = p /\ p - b.basePrice \in Cells
  BY WindowIsSigned DEF Coherent, Books, Span, Cells
<1>2. /\ SweptPrices(run, b, volume, low, high) /\ ~DummyRun(end)
      /\ low \in Window(b) /\ high \in Window(b)
      /\ \A q \in low..high : Faces(volume, VolumeAt(b, q))
  <2>1. CASE volume < 0
    <3>1. SweptPrices(SweepBook(b, volume, b.highestOffer), b, volume, b.bestOffer, b.highestOffer)
      BY <2>1, SweepOffers
    <3> HIDE DEF run
    <3>2. SweptPrices(run, b, volume, low, high)
      BY <2>1, <3>1 DEF run
    <3> QED BY <1>1, <2>1, <3>2, CoherentOffers, SidesApart DEF DummyRun, Faces
  <2>2. CASE volume > 0
    <3>1. SweptPrices(SweepBook(b, volume, b.lowestBid), b, volume, b.lowestBid, b.bestBid)
      BY <2>2, SweepBids
    <3> HIDE DEF run
    <3>2. SweptPrices(run, b, volume, low, high)
      BY <2>2, <3>1 DEF run
    <3> QED BY <1>1, <2>2, <3>2, CoherentBids, SidesApart DEF DummyRun, Faces
  <2> QED BY <2>1, <2>2
<1>3. c.memSpan = run.memSpan /\ c.basePrice = b.basePrice
  <2> DEFINE r == RunThroughBook(b, volume, end).response
  <2>1. /\ c.memSpan = run.memSpan /\ c.basePrice = b.basePrice
        /\ r = [marginalPrice |-> b.basePrice + run.transactionIndex,
                filledVolume |-> volume - run.openVol,
                revenue |-> run.orderRevenue, error |-> 0]
    BY <1>2, RunLeaves
  <2> HIDE DEF c, r, run
  <2> QED BY <2>1
<1> HIDE DEF c, run, low, high
<1>4. ASSUME NEW p \in Window(b), VolumeAt(c, p) # VolumeAt(b, p)
      PROVE  Faces(volume, VolumeAt(b, p))
  <2>1. run.memSpan[p - b.basePrice] # b.memSpan[p - b.basePrice] /\ p - b.basePrice \in Cells
    BY <1>1, <1>3, <1>4 DEF VolumeAt
  <2>2. PICK q \in low..high : q - b.basePrice = p - b.basePrice
    BY <1>2, <2>1 DEF SweptPrices
  <2>3. q \in Int /\ p \in Int /\ b.basePrice \in Int
    BY <1>1
  <2>4. q = p
    BY <2>2, <2>3
  <2> QED BY <1>2, <2>2, <2>4
<1> QED BY <1>4 DEF c

\* What MarketBook's sums add up to.
LEMMA OfferedIsTallied ==
  ASSUME NEW volume, NEW U, IsFiniteSet(U), Prices \subseteq U,
         NEW f, \A q \in Prices : f[q] = AsMarket!OnOffer(volume, q),
         NEW h, IsTally(h, f, U), NEW price
  PROVE  AsMarket!LeftFor(volume, price) =
           Max({0, AsMarket!Lots(volume) - h[AsMarket!BetterFor(volume, price)]})
<1> DEFINE B == AsMarket!BetterFor(volume, price)
           e == [q \in B |-> AsMarket!OnOffer(volume, q)]
           Recursion(g) == g = [r \in SUBSET B |-> IF r = {} THEN 0
                                  ELSE AsMarket!OnOffer(volume, Some(r)) + g[r \ {Some(r)}]]
<1>1. B \subseteq Prices /\ IsFiniteSet(B)
  <2>1. B \subseteq Prices
    BY DEF AsMarket!BetterFor
  <2> HIDE DEF B
  <2> QED BY <2>1, FS_Subset
<1>2. AsMarket!LeftFor(volume, price) =
        Max({0, AsMarket!Lots(volume) - (CHOOSE g : Recursion(g))[B]})
  BY DEF AsMarket!LeftFor, AsMarket!MapThenSumSet, AsMarket!MapThenFoldSet,
         AsMarket!Max, Max, Some
<1> HIDE DEF B
<1>3. \A g : Recursion(g) <=> IsTally(g, e, B)
  <2>1. \A r \in SUBSET B : r # {} => e[Some(r)] = AsMarket!OnOffer(volume, Some(r))
    BY SomeElement
  <2> HIDE DEF e
  <2>2. \A g : [r \in SUBSET B |-> IF r = {} THEN 0
                  ELSE AsMarket!OnOffer(volume, Some(r)) + g[r \ {Some(r)}]]
             = [r \in SUBSET B |-> IF r = {} THEN 0 ELSE e[Some(r)] + g[r \ {Some(r)}]]
    BY <2>1
  <2> QED BY <2>2 DEF IsTally
<1>4. \E g : Recursion(g)
  <2> HIDE DEF e, Recursion
  <2> QED BY <1>1, <1>3, TallyExists
<1>5. IsTally(CHOOSE g : Recursion(g), e, B)
  <2> HIDE DEF e, Recursion
  <2> QED BY <1>3, <1>4
<1>6. (CHOOSE g : Recursion(g))[B] = h[B]
  <2> DEFINE g == CHOOSE g : Recursion(g)
  <2>1. \A q \in B : e[q] = f[q]
    BY <1>1
  <2> HIDE DEF e, g, Recursion
  <2>2. IsTally(g, e, B)
    BY <1>5 DEF g
  <2>3. g[B] = h[B]
    BY <1>1, <2>1, <2>2, TalliesAgree
  <2> QED BY <2>3 DEF g
<1> HIDE DEF Recursion
<1> QED BY <1>2, <1>6 DEF B

LEMMA TakenIsTallied ==
  ASSUME NEW volume, IsFiniteSet(Prices), NEW U, Prices \subseteq U,
         NEW f, \A q \in Prices : f[q] = AsMarket!TakenAt(volume, q),
         NEW h, IsTally(h, f, U)
  PROVE  AsMarket!Unfilled(volume) = volume - AsMarket!Toward(volume, h[Prices])
<1> DEFINE e == [q \in Prices |-> AsMarket!TakenAt(volume, q)]
           Recursion(g) == g = [r \in SUBSET Prices |-> IF r = {} THEN 0
                                  ELSE AsMarket!TakenAt(volume, Some(r)) + g[r \ {Some(r)}]]
<1>1. AsMarket!Unfilled(volume) =
        volume - AsMarket!Toward(volume, (CHOOSE g : Recursion(g))[Prices])
  BY DEF AsMarket!Unfilled, AsMarket!MapThenSumSet, AsMarket!MapThenFoldSet, Some
<1>2. \A g : Recursion(g) <=> IsTally(g, e, Prices)
  <2>1. \A r \in SUBSET Prices : r # {} => e[Some(r)] = AsMarket!TakenAt(volume, Some(r))
    BY SomeElement
  <2> HIDE DEF e
  <2>2. \A g : [r \in SUBSET Prices |-> IF r = {} THEN 0
                  ELSE AsMarket!TakenAt(volume, Some(r)) + g[r \ {Some(r)}]]
             = [r \in SUBSET Prices |-> IF r = {} THEN 0 ELSE e[Some(r)] + g[r \ {Some(r)}]]
    BY <2>1
  <2> QED BY <2>2 DEF IsTally
<1>3. \E g : Recursion(g)
  <2> HIDE DEF e, Recursion
  <2> QED BY <1>2, TallyExists
<1>4. IsTally(CHOOSE g : Recursion(g), e, Prices)
  <2> HIDE DEF e, Recursion
  <2> QED BY <1>2, <1>3
<1>5. (CHOOSE g : Recursion(g))[Prices] = h[Prices]
  <2> DEFINE g == CHOOSE g : Recursion(g)
  <2>1. \A q \in Prices : e[q] = f[q]
    OBVIOUS
  <2> HIDE DEF e, g, Recursion
  <2>2. IsTally(g, e, Prices)
    BY <1>4 DEF g
  <2>3. g[Prices] = h[Prices]
    BY <2>1, <2>2, TalliesAgree
  <2> QED BY <2>3 DEF g
<1> HIDE DEF Recursion
<1> QED BY <1>1, <1>5

\* An order that is filled best price first, and left open only with nothing
\* to trade with, takes what the market says it takes.
FilledFrom(b, c, volume, open) ==
    /\ open \in Int /\ Toward(open, volume)
    /\ \A p \in Window(b) :
          /\ Toward(VolumeAt(c, p), VolumeAt(b, p))
          /\ VolumeAt(c, p) # VolumeAt(b, p) => Faces(volume, VolumeAt(b, p))
          /\ open # 0 => ~Faces(volume, VolumeAt(c, p)) \/ VolumeAt(c, p) = 0

LEMMA FilledAsInMarket ==
  ASSUME Coherent(book), InPrices(book), NEW volume \in Int, volume # 0,
         NEW c, Coherent(c), c.basePrice = book.basePrice,
         NEW filled \in Int, TotalVolume(c) = TotalVolume(book) + filled,
         FilledFrom(book, c, volume, volume - filled),
         NEW marginal, TradedInOrder(book, c, volume, marginal)
  PROVE  /\ \A q \in Prices :
               Depth(c, q) = Depth(book, q)
                               + AsMarket!Toward(volume, AsMarket!TakenAt(volume, q))
         /\ AsMarket!Unfilled(volume) = volume - filled
<1> DEFINE W == Window(book)
           U == W \cup Prices
           D(q) == Depth(book, q)
           E(q) == Depth(c, q)
           open == volume - filled
           lots == AsMarket!Lots(volume)
           up == volume < 0
           offered == [q \in U |-> IF up THEN (IF D(q) > 0 THEN D(q) ELSE 0)
                                         ELSE (IF D(q) < 0 THEN -D(q) ELSE 0)]
           taken == [q \in U |-> IF up THEN D(q) - E(q) ELSE E(q) - D(q)]
<1>1. /\ Window(c) = W
      /\ \A q : D(q) \in Int /\ E(q) \in Int
      /\ \A q \in W : D(q) = VolumeAt(book, q) /\ E(q) = VolumeAt(c, q)
      /\ \A q : q \notin W => D(q) = 0 /\ E(q) = 0
  <2>1. Window(c) = W
    BY DEF Window
  <2> QED BY <2>1, DepthIsInt
<1>2. /\ \A q \in Prices : q \in Int
      /\ IsFiniteSet(Prices) /\ IsFiniteSet(U) /\ Prices \subseteq U /\ W \subseteq U
  <2>1. IsFiniteSet(0..UIntMax)
    <3>1. UIntMax \in Int
      OBVIOUS
    <3> QED BY <3>1, FS_Interval
  <2>2. IsFiniteSet(Prices)
    BY <2>1, FS_Subset, ClientAssumption
  <2>3. IsFiniteSet(W)
    BY TotalsAreTallies DEF Coherent, Books
  <2>4. IsFiniteSet(U)
    <3> HIDE DEF W
    <3> QED BY <2>2, <2>3, FS_Union
  <2> QED BY <2>2, <2>4, ClientAssumption
<1>3. \A q : /\ Toward(E(q), D(q))
             /\ E(q) # D(q) => Faces(volume, D(q)) /\ q \in W /\ q \in Prices
             /\ open # 0 => ~Faces(volume, E(q)) \/ E(q) = 0
  <2>1. ASSUME NEW q \in W
        PROVE  /\ Toward(E(q), D(q))
               /\ E(q) # D(q) => Faces(volume, D(q)) /\ q \in Prices
               /\ open # 0 => ~Faces(volume, E(q)) \/ E(q) = 0
    <3>1. /\ Toward(VolumeAt(c, q), VolumeAt(book, q))
          /\ VolumeAt(c, q) # VolumeAt(book, q) => Faces(volume, VolumeAt(book, q))
          /\ open # 0 => ~Faces(volume, VolumeAt(c, q)) \/ VolumeAt(c, q) = 0
      BY DEF FilledFrom
    <3>2. VolumeAt(book, q) # 0 => q \in Prices
      BY DEF InPrices
    <3> HIDE DEF D, E, W, open
    <3>3. D(q) = VolumeAt(book, q) /\ E(q) = VolumeAt(c, q) /\ D(q) \in Int /\ E(q) \in Int
      BY <1>1
    <3>4. D(q) = 0 => E(q) = 0
      BY <3>1, <3>3 DEF Toward
    <3> QED BY <3>1, <3>2, <3>3, <3>4
  <2>2. ASSUME NEW q, q \notin W PROVE D(q) = 0 /\ E(q) = 0
    BY <1>1, <2>2
  <2>3. Toward(0, 0)
    BY DEF Toward
  <2> HIDE DEF D, E, W, open
  <2> QED BY <2>1, <2>2, <2>3
<1>4. \A q \in U : /\ offered[q] = IF up THEN (IF D(q) > 0 THEN D(q) ELSE 0)
                                         ELSE (IF D(q) < 0 THEN -D(q) ELSE 0)
                   /\ taken[q] = IF up THEN D(q) - E(q) ELSE E(q) - D(q)
                   /\ offered[q] \in Int /\ taken[q] \in Int
  <2> HIDE DEF D, E, W
  <2> QED BY <1>1
<1>5. /\ up \in BOOLEAN /\ lots \in Nat /\ lots = (IF up THEN -volume ELSE volume)
      /\ open \in Int /\ open = volume - filled /\ Toward(open, volume)
  BY DEF FilledFrom, AsMarket!Lots, AsMarket!Buys
<1>6. \A q \in Prices : offered[q] = AsMarket!OnOffer(volume, q)
  <2> SUFFICES ASSUME NEW q \in Prices PROVE offered[q] = AsMarket!OnOffer(volume, q)
    OBVIOUS
  <2> DEFINE x == D(q)
  <2>1. AsMarket!OnOffer(volume, q) =
          IF (volume < 0) = (x > 0) THEN (IF x < 0 THEN -x ELSE x) ELSE 0
    BY DEF AsMarket!OnOffer, AsMarket!Lots, AsMarket!Buys
  <2>2. x \in Int /\ offered[q] = IF up THEN (IF x > 0 THEN x ELSE 0)
                                        ELSE (IF x < 0 THEN -x ELSE 0)
    BY <1>1, <1>2, <1>4
  <2> HIDE DEF x, offered
  <2> QED BY <2>1, <2>2
<1> HIDE DEF offered, taken
<1>7. PICK db : IsTally(db, Depths(book, U), U)
  BY <1>2, TallyExists
<1>8. PICK dc : IsTally(dc, Depths(c, U), U)
  BY <1>2, TallyExists
<1>9. PICK o : IsTally(o, offered, U)
  BY <1>2, TallyExists
<1>10. PICK t : IsTally(t, taken, U)
  BY <1>2, TallyExists
<1>11. /\ IsSum(db, Depths(book, U), U) /\ TotalVolume(book) = db[U]
       /\ IsSum(dc, Depths(c, U), U) /\ TotalVolume(c) = dc[U]
       /\ \A q \in U : Depths(book, U)[q] = D(q) /\ Depths(c, U)[q] = E(q)
  BY <1>1, <1>2, <1>7, <1>8, TotalOfDepths DEF Depths
<1>12. IsSum(o, offered, U) /\ IsSum(t, taken, U)
  BY <1>2, <1>4, <1>9, <1>10, TallyIsSum
<1>13. t[U] \in Int /\ t[U] = IF up THEN -filled ELSE filled
  <2>1. t[U] \in Int /\ db[U] \in Int /\ dc[U] \in Int
    BY <1>11, <1>12 DEF IsSum
  <2>2. dc[U] = db[U] + filled
    BY <1>11
  <2> DEFINE d == Depths(book, U)
             e == Depths(c, U)
  <2>3. IsSum(db, d, U) /\ IsSum(dc, e, U)
    BY <1>11
  <2>4. \A q \in U : /\ taken[q] \in Int /\ d[q] \in Int /\ e[q] \in Int
                     /\ taken[q] = IF up THEN d[q] - e[q] ELSE e[q] - d[q]
    BY <1>1, <1>4, <1>11
  <2> HIDE DEF d, e, U, D, E
  <2>5. CASE up
    <3>1. \A q \in U : d[q] = taken[q] + e[q]
      <4> SUFFICES ASSUME NEW q \in U PROVE d[q] = taken[q] + e[q]
        OBVIOUS
      <4> QED BY <2>4, <2>5
    <3>2. db[U] = t[U] + dc[U]
      BY <1>2, <1>12, <2>3, <3>1, SumsAdd
    <3> QED BY <2>1, <2>2, <2>5, <3>2
  <2>6. CASE ~up
    <3>1. \A q \in U : e[q] = taken[q] + d[q]
      <4> SUFFICES ASSUME NEW q \in U PROVE e[q] = taken[q] + d[q]
        OBVIOUS
      <4> QED BY <2>4, <2>6
    <3>2. dc[U] = t[U] + db[U]
      BY <1>2, <1>12, <2>3, <3>1, SumsAdd
    <3>3. t[U] = filled
      BY <2>1, <2>2, <3>2
    <3> QED BY <2>1, <2>6, <3>3
  <2> QED BY <2>5, <2>6
<1>14. t[Prices] = t[U]
  <2>1. \A q \in U : q \notin Prices => taken[q] = 0
    <3> SUFFICES ASSUME NEW q \in U, q \notin Prices PROVE taken[q] = 0
      OBVIOUS
    <3>1. E(q) = D(q)
      BY <1>3
    <3> QED BY <1>1, <1>4, <3>1
  <2> HIDE DEF U
  <2> QED BY <1>2, <1>12, <2>1, SumSkipsZeros
<1>15. TakenInOrder(taken, t[Prices], offered, lots, up, Prices)
  <2>1. ASSUME NEW q \in Prices
        PROVE  /\ D(q) \in Int /\ E(q) \in Int /\ q \in U
               /\ offered[q] = IF up THEN (IF D(q) > 0 THEN D(q) ELSE 0)
                                     ELSE (IF D(q) < 0 THEN -D(q) ELSE 0)
               /\ taken[q] = IF up THEN D(q) - E(q) ELSE E(q) - D(q)
               /\ Toward(E(q), D(q))
               /\ E(q) # D(q) => Faces(volume, D(q)) /\ q \in W
               /\ open # 0 => ~Faces(volume, E(q)) \/ E(q) = 0
    BY <1>1, <1>2, <1>3, <1>4
  <2>2. ASSUME NEW q \in Prices PROVE 0 <= taken[q] /\ taken[q] <= offered[q]
    <3> HIDE DEF D, E, U, W, open
    <3> QED BY <2>1 DEF Toward, Faces
  <2>3. ASSUME NEW q \in Prices, taken[q] # 0, NEW p \in BetterOf(up, q, Prices)
        PROVE  taken[p] = offered[p]
    <3>1. p \in Prices /\ Better(volume, p, q)
      BY DEF BetterOf, Better
    <3>2. E(q) # D(q)
      BY <2>1, <2>3
    <3>3. q \in Traded(book, c, volume)
      <4>1. /\ D(q) = VolumeAt(book, q) /\ E(q) = VolumeAt(c, q) /\ q \in W
            /\ D(q) \in Int /\ E(q) \in Int /\ Toward(E(q), D(q)) /\ Faces(volume, D(q))
        BY <1>1, <2>1, <3>2
      <4> HIDE DEF D, E
      <4> QED BY <3>2, <4>1 DEF Traded, Toward, Faces
    <3>4. CASE offered[p] = 0
      <4>1. 0 <= taken[p] /\ taken[p] <= offered[p] /\ p \in U
        BY <2>1, <2>2, <3>1
      <4>2. taken[p] \in Int
        BY <1>4, <4>1
      <4> QED BY <3>4, <4>1, <4>2
    <3>5. CASE offered[p] # 0
      <4>1. /\ D(p) \in Int /\ E(p) \in Int /\ Toward(E(p), D(p))
            /\ offered[p] = IF up THEN (IF D(p) > 0 THEN D(p) ELSE 0)
                                  ELSE (IF D(p) < 0 THEN -D(p) ELSE 0)
            /\ taken[p] = IF up THEN D(p) - E(p) ELSE E(p) - D(p)
        BY <2>1, <3>1
      <4>2. p \in W /\ IF up THEN D(p) > 0 ELSE D(p) < 0
        <5>1. IF up THEN D(p) > 0 ELSE D(p) < 0
          BY <3>5, <4>1
        <5>2. D(p) # 0
          BY <4>1, <5>1
        <5> QED BY <1>1, <5>1, <5>2
      <4>3. p \in Facing(book, volume)
        BY <1>1, <4>2 DEF Facing, Offers, Bids
      <4>4. p \notin Facing(c, volume)
        BY <3>1, <3>3, <4>3 DEF TradedInOrder
      <4>5. ~ IF up THEN E(p) > 0 ELSE E(p) < 0
        BY <1>1, <4>2, <4>4 DEF Facing, Offers, Bids
      <4> HIDE DEF D, E
      <4>6. E(p) = 0
        BY <4>1, <4>2, <4>5 DEF Toward
      <4> QED BY <4>1, <4>2, <4>6
    <3> QED BY <3>4, <3>5
  <2>4. t[Prices] <= lots
    BY <1>5, <1>13, <1>14 DEF Toward
  <2>5. ASSUME t[Prices] # lots, NEW q \in Prices PROVE taken[q] = offered[q]
    <3>1. open # 0
      BY <1>5, <1>13, <1>14, <2>5
    <3> DEFINE x == D(q)
               y == E(q)
    <3>2. /\ x \in Int /\ y \in Int
          /\ offered[q] = IF up THEN (IF x > 0 THEN x ELSE 0) ELSE (IF x < 0 THEN -x ELSE 0)
          /\ taken[q] = IF up THEN x - y ELSE y - x
          /\ Toward(y, x) /\ (y # x => Faces(volume, x)) /\ (~Faces(volume, y) \/ y = 0)
      BY <2>1, <3>1
    <3> HIDE DEF x, y
    <3> QED BY <3>2 DEF Toward, Faces
  <2> QED BY <2>2, <2>3, <2>4, <2>5 DEF TakenInOrder
<1> HIDE DEF U, W, D, E, open
<1>16. IsSum(o, offered, Prices) /\ IsSum(t, taken, Prices)
  BY <1>2, <1>12 DEF IsSum
<1>17. ASSUME NEW q \in Prices
       PROVE  taken[q] = Min({offered[q], Max({0, lots - o[BetterOf(up, q, Prices)]})})
  <2> DEFINE S == Prices
  <2>1. /\ IsFiniteSet(S) /\ \A p \in S : p \in Int
        /\ up \in BOOLEAN /\ lots \in Nat
        /\ IsSum(o, offered, S) /\ IsSum(t, taken, S)
        /\ TakenInOrder(taken, t[S], offered, lots, up, S)
    BY <1>2, <1>5, <1>15, <1>16
  <2> HIDE DEF S, up, lots
  <2>2. GivesTheRest(taken, offered, o, lots, up, S)
    BY <2>1, BestFirst
  <2> QED BY <2>2 DEF S, GivesTheRest
<1>18. ASSUME NEW q \in Prices PROVE taken[q] = AsMarket!TakenAt(volume, q)
  <2>1. AsMarket!BetterFor(volume, q) = BetterOf(up, q, Prices)
    BY DEF AsMarket!BetterFor, AsMarket!Buys, BetterOf
  <2>2. AsMarket!LeftFor(volume, q) = Max({0, lots - o[BetterOf(up, q, Prices)]})
    <3> HIDE DEF up
    <3> QED BY <1>2, <1>6, <1>9, <2>1, OfferedIsTallied
  <2>3. AsMarket!TakenAt(volume, q) = Min({offered[q], AsMarket!LeftFor(volume, q)})
    BY <1>6 DEF AsMarket!TakenAt, AsMarket!Min, Min
  <2> QED BY <1>17, <2>2, <2>3
<1>19. ASSUME NEW q \in Prices
       PROVE  Depth(c, q) = Depth(book, q)
                              + AsMarket!Toward(volume, AsMarket!TakenAt(volume, q))
  <2>1. AsMarket!Toward(volume, taken[q]) = IF up THEN -taken[q] ELSE taken[q]
    BY DEF AsMarket!Toward, AsMarket!Buys
  <2>2. /\ D(q) \in Int /\ E(q) \in Int
        /\ taken[q] = IF up THEN D(q) - E(q) ELSE E(q) - D(q)
    BY <1>1, <1>2, <1>4
  <2>3. E(q) = D(q) + AsMarket!Toward(volume, taken[q])
    BY <2>1, <2>2
  <2> QED BY <1>18, <2>3 DEF D, E
<1>20. AsMarket!Unfilled(volume) = volume - filled
  <2>1. AsMarket!Unfilled(volume) = volume - AsMarket!Toward(volume, t[Prices])
    BY <1>2, <1>10, <1>18, TakenIsTallied
  <2>2. AsMarket!Toward(volume, t[Prices]) = IF up THEN -t[Prices] ELSE t[Prices]
    BY DEF AsMarket!Toward, AsMarket!Buys
  <2> QED BY <1>13, <1>14, <2>1, <2>2
<1> QED BY <1>19, <1>20

\* What a book b leaves resting at the prices clients name.
Resting(b) == [q \in Prices |-> Depth(b, q)]

LEMMA VolumeStaysInPrices ==
  ASSUME NEW b, Coherent(b), InPrices(b), NEW c, Coherent(c), c.basePrice = b.basePrice,
         \A p \in Window(b) : Toward(VolumeAt(c, p), VolumeAt(b, p))
  PROVE  InPrices(c)
<1>1. Window(c) = Window(b)
  BY DEF Window
<1>2. \A p \in Window(b) : VolumeAt(b, p) \in Int /\ VolumeAt(c, p) \in Int
  BY <1>1, WindowIsSigned DEF Coherent
<1>3. \A p \in Window(b) : VolumeAt(c, p) # 0 => VolumeAt(b, p) # 0
  BY <1>2 DEF Toward
<1> QED BY <1>1, <1>3 DEF InPrices

\* A run through the book takes what the market says it takes, and from
\* nowhere else.
TakesAsMarket(c, volume, filled) ==
    /\ Coherent(c) /\ c.basePrice = book.basePrice /\ InPrices(c)
    /\ filled \in Int
    /\ \A q \in Prices :
          Depth(c, q) = Depth(book, q) + AsMarket!Toward(volume, AsMarket!TakenAt(volume, q))
    /\ AsMarket!Unfilled(volume) = volume - filled

LEMMA RunTakesAsMarket ==
  ASSUME Coherent(book), InPrices(book), NEW volume \in Int, volume # 0,
         NEW end, end = (IF volume < 0 THEN book.highestOffer ELSE book.lowestBid)
  PROVE  LET run == RunThroughBook(book, volume, end)
         IN  TakesAsMarket(run.book, volume, run.response.filledVolume)
<1> DEFINE run    == RunThroughBook(book, volume, end)
           c      == run.book
           filled == run.response.filledVolume
           m      == run.response.marginalPrice
           open   == volume - filled
<1>1. /\ Coherent(c) /\ c.basePrice = book.basePrice /\ filled \in Int
      /\ TotalVolume(c) = TotalVolume(book) + filled
      /\ FilledFrom(book, c, volume, open)
      /\ TradedInOrder(book, c, volume, m)
      /\ InPrices(c)
  <2>1. CASE end = None
    <3>1. run = [book |-> book, response |-> NoResponse]
      BY <2>1, DummyRunIsNoOp
    <3> HIDE DEF run
    <3>2. c = book /\ filled = 0
      BY <3>1 DEF NoResponse
    <3> HIDE DEF c, filled, m
    <3>3. open = volume
      BY <3>2
    <3>4. \A p \in Window(book) : VolumeAt(book, p) \in Int
      BY WindowIsSigned DEF Coherent
    <3>5. \A p \in Window(book) : ~Faces(volume, VolumeAt(book, p)) \/ VolumeAt(book, p) = 0
      <4>1. CASE volume < 0
        <5>1. \A p \in Window(book) : VolumeAt(book, p) <= 0
          BY <2>1, <4>1, CoherentOffers
        <5> QED BY <3>4, <4>1, <5>1 DEF Faces
      <4>2. CASE volume > 0
        <5>1. \A p \in Window(book) : VolumeAt(book, p) >= 0
          BY <2>1, <4>2, CoherentBids
        <5> QED BY <3>4, <4>2, <5>1 DEF Faces
      <4> QED BY <4>1, <4>2
    <3>6. FilledFrom(book, book, volume, volume)
      BY <3>4, <3>5 DEF FilledFrom, Toward
    <3>7. TotalVolume(book) = TotalVolume(book) + 0
      BY NothingSettled DEF Settled
    <3>8. TradedInOrder(book, book, volume, m)
      BY NothingTraded
    <3> HIDE DEF open
    <3> QED BY <3>2, <3>3, <3>6, <3>7, <3>8
  <2>2. CASE end # None
    <3>1. /\ Coherent(c) /\ c.basePrice = book.basePrice
          /\ open \in Int /\ Toward(open, volume)
          /\ \A p \in Window(book) :
                /\ Toward(VolumeAt(c, p), VolumeAt(book, p))
                /\ open # 0 => ~Faces(volume, VolumeAt(c, p)) \/ VolumeAt(c, p) = 0
      BY <2>2, RunEmptiesOrFills
    <3>2. \A p \in Window(book) :
             VolumeAt(c, p) # VolumeAt(book, p) => Faces(volume, VolumeAt(book, p))
      BY <2>2, RunTouchesFacing
    <3>3. Settled(book, c, filled, run.response.revenue)
      BY <2>2, RunSettles
    <3>4. TradedInOrder(book, c, volume, m)
      BY <2>2, RunTradesInOrder
    <3>5. filled \in Int
      BY <2>2, OpenRun
    <3> HIDE DEF run, c, filled, m, open
    <3>6. InPrices(c)
      BY <3>1, VolumeStaysInPrices
    <3>7. FilledFrom(book, c, volume, open)
      BY <3>1, <3>2 DEF FilledFrom
    <3> QED BY <3>1, <3>3, <3>4, <3>5, <3>6, <3>7 DEF Settled
  <2> QED BY <2>1, <2>2
<1> HIDE DEF run, c, filled, m
<1>2. /\ \A q \in Prices :
            Depth(c, q) = Depth(book, q)
                            + AsMarket!Toward(volume, AsMarket!TakenAt(volume, q))
      /\ AsMarket!Unfilled(volume) = volume - filled
  BY <1>1, FilledAsInMarket
<1>3. TakesAsMarket(c, volume, filled)
  BY <1>1, <1>2 DEF TakesAsMarket
<1> QED BY <1>3 DEF run, c, filled

\* A market order is a trade at the market.
LEMMA MarketOrderIsATrade ==
  ASSUME Coherent(book), InPrices(book), NEW volume \in Int
  PROVE  LET c == HandleMarketOrder(book, Order(volume, 0)).book
         IN  /\ InPrices(c)
             /\ volume = 0 => c = book
             /\ volume # 0 => Resting(c) = AsMarket!Taken(volume)
<1> DEFINE c   == HandleMarketOrder(book, Order(volume, 0)).book
           end == CASE volume = 0 -> None
                    [] volume < 0 -> book.highestOffer
                    [] OTHER      -> book.lowestBid
           run == RunThroughBook(book, volume, end)
<1>1. c = run.book
  BY DEF HandleMarketOrder, Order
<1>2. CASE volume = 0
  <2>1. run = [book |-> book, response |-> NoResponse]
    BY <1>2, DummyRunIsNoOp
  <2> HIDE DEF run
  <2> QED BY <1>1, <1>2, <2>1
<1>3. CASE volume # 0
  <2>1. end = IF volume < 0 THEN book.highestOffer ELSE book.lowestBid
    BY <1>3
  <2> HIDE DEF end
  <2>2. TakesAsMarket(run.book, volume, run.response.filledVolume)
    BY <1>3, <2>1, RunTakesAsMarket
  <2> HIDE DEF run
  <2>3. Resting(c) = AsMarket!Taken(volume)
    <3>1. AsMarket!Taken(volume) =
            [q \in Prices |-> [p \in Prices |-> Depth(book, p)][q]
                                + AsMarket!Toward(volume, AsMarket!TakenAt(volume, q))]
      BY DEF AsMarket!Taken
    <3>2. AsMarket!Taken(volume) =
            [q \in Prices |-> Depth(book, q)
                                + AsMarket!Toward(volume, AsMarket!TakenAt(volume, q))]
      BY <3>1
    <3> QED BY <1>1, <2>2, <3>2 DEF TakesAsMarket, Resting
  <2> QED BY <1>1, <1>3, <2>2, <2>3 DEF TakesAsMarket
<1> QED BY <1>2, <1>3

\* An order crosses the book exactly when the market faces it within its limit.
LEMMA CrossingIsWithinLimit ==
  ASSUME Coherent(book), InPrices(book), NEW volume \in Int, volume # 0, NEW price \in Prices
  PROVE  CrossesBook(book, volume, price) <=> AsMarket!WithinLimit(volume, price)
<1> DEFINE D(q) == Depth(book, q)
           W == Window(book)
<1>1. /\ price \in Int /\ \A q \in Prices : q \in Int
      /\ \A q : D(q) \in Int
      /\ \A q \in W : q \in Int /\ D(q) = VolumeAt(book, q) /\ (D(q) # 0 => q \in Prices)
      /\ \A q : D(q) # 0 => q \in W
  <2>1. \A q \in W : q \in Int
    BY WindowIsSigned DEF Coherent
  <2>2. \A q \in Prices : q \in Int
    BY ClientAssumption
  <2> QED BY <2>1, <2>2, DepthIsInt DEF InPrices
<1>2. AsMarket!WithinLimit(volume, price) <=>
        \E q \in Prices : AsMarket!OnOffer(volume, q) > 0 /\ price \notin AsMarket!BetterFor(volume, q)
  BY DEF AsMarket!WithinLimit
<1>3. \A q \in Prices : price \in AsMarket!BetterFor(volume, q) <=>
                          IF volume < 0 THEN price < q ELSE price > q
  BY DEF AsMarket!BetterFor, AsMarket!Buys
<1>4. \A q \in Prices : AsMarket!OnOffer(volume, q) > 0 <=>
                          IF volume < 0 THEN D(q) > 0 ELSE D(q) < 0
  <2> SUFFICES ASSUME NEW q \in Prices
               PROVE  AsMarket!OnOffer(volume, q) > 0 <=>
                        IF volume < 0 THEN D(q) > 0 ELSE D(q) < 0
    OBVIOUS
  <2> DEFINE x == D(q)
  <2>1. AsMarket!OnOffer(volume, q) =
          IF (volume < 0) = (x > 0) THEN (IF x < 0 THEN -x ELSE x) ELSE 0
    BY DEF AsMarket!OnOffer, AsMarket!Lots, AsMarket!Buys
  <2>2. x \in Int
    BY <1>1
  <2> HIDE DEF x
  <2>3. AsMarket!OnOffer(volume, q) > 0 <=> IF volume < 0 THEN x > 0 ELSE x < 0
    BY <2>1, <2>2
  <2> QED BY <2>3 DEF x
<1> HIDE DEF D, W
<1>5. CASE volume < 0
  <2>1. AsMarket!WithinLimit(volume, price) <=> \E q \in Prices : D(q) > 0 /\ price >= q
    BY <1>1, <1>2, <1>3, <1>4, <1>5
  <2>2. CrossesBook(book, volume, price) <=> book.bestOffer # None /\ price >= book.bestOffer
    BY <1>5 DEF CrossesBook
  <2>3. ASSUME book.bestOffer # None, price >= book.bestOffer
        PROVE  \E q \in Prices : D(q) > 0 /\ price >= q
    <3>1. book.bestOffer \in W /\ VolumeAt(book, book.bestOffer) > 0
      BY <2>3, CoherentOffers DEF W
    <3>2. D(book.bestOffer) > 0 /\ book.bestOffer \in Prices
      BY <1>1, <3>1
    <3> QED BY <2>3, <3>2
  <2>4. ASSUME NEW q \in Prices, D(q) > 0, price >= q
        PROVE  book.bestOffer # None /\ price >= book.bestOffer
    <3>1. q \in W /\ VolumeAt(book, q) > 0 /\ q \in Int
      BY <1>1, <2>4
    <3>2. book.bestOffer # None /\ book.bestOffer \in W /\ book.bestOffer <= q
      <4>1. book.bestOffer = None => ~(VolumeAt(book, q) > 0)
        BY <1>1, <3>1, CoherentOffers DEF W
      <4> QED BY <3>1, <4>1, CoherentOffers DEF W
    <3>3. price \in Int /\ book.bestOffer \in Int
      BY <1>1, <3>2
    <3> QED BY <2>4, <3>1, <3>2, <3>3
  <2> QED BY <2>1, <2>2, <2>3, <2>4
<1>6. CASE volume > 0
  <2>1. AsMarket!WithinLimit(volume, price) <=> \E q \in Prices : D(q) < 0 /\ price <= q
    BY <1>1, <1>2, <1>3, <1>4, <1>6
  <2>2. CrossesBook(book, volume, price) <=> book.bestBid # None /\ price <= book.bestBid
    BY <1>6 DEF CrossesBook
  <2>3. ASSUME book.bestBid # None, price <= book.bestBid
        PROVE  \E q \in Prices : D(q) < 0 /\ price <= q
    <3>1. book.bestBid \in W /\ VolumeAt(book, book.bestBid) < 0
      BY <2>3, CoherentBids DEF W
    <3>2. D(book.bestBid) < 0 /\ book.bestBid \in Prices
      BY <1>1, <3>1
    <3> QED BY <2>3, <3>2
  <2>4. ASSUME NEW q \in Prices, D(q) < 0, price <= q
        PROVE  book.bestBid # None /\ price <= book.bestBid
    <3>1. q \in W /\ VolumeAt(book, q) < 0 /\ q \in Int
      BY <1>1, <2>4
    <3>2. book.bestBid # None /\ book.bestBid \in W /\ q <= book.bestBid
      <4>1. book.bestBid = None => ~(VolumeAt(book, q) < 0)
        BY <1>1, <3>1, CoherentBids DEF W
      <4> QED BY <3>1, <4>1, CoherentBids DEF W
    <3>3. price \in Int /\ book.bestBid \in Int
      BY <1>1, <3>2
    <3> QED BY <2>4, <3>1, <3>2, <3>3
  <2> QED BY <2>1, <2>2, <2>3, <2>4
<1> QED BY <1>5, <1>6

\* What an accepted limit order does: a run if it crosses the book, and then
\* the rest into its bucket.
LEMMA LimitOrderRunsThenRests ==
  ASSUME NEW b, Coherent(b), NEW volume \in Int, volume # 0, NEW p \in Window(b)
  PROVE  LET end == IF volume < 0 THEN b.highestOffer ELSE b.lowestBid
             run == RunThroughBook(b, volume, IF CrossesBook(b, volume, p) THEN end ELSE None)
         IN  HandleNewLimitOrder(b, Order(volume, p)).book =
               RestLiquidity(run.book, volume - run.response.filledVolume, p)
<1>1. p \in 0..UIntMax /\ p # b.basePrice + BookLength
  BY WindowIsSigned DEF Coherent, Books, Window
<1>2. PriceInRange(b, p)
  BY <1>1, InRangeIsWindow
<1> QED BY <1>2 DEF HandleNewLimitOrder, Order, RunThroughBook

\* The volume of a book after resting volume u at price p.
LEMMA RestedDepths ==
  ASSUME NEW b, Coherent(b), InPrices(b), NEW u \in Int, NEW p \in Window(b), p \in Prices,
         NEW c, c = RestLiquidity(b, u, p), Coherent(c)
  PROVE  /\ InPrices(c)
         /\ \A q : Depth(c, q) = IF q = p THEN Depth(b, p) + u ELSE Depth(b, q)
<1>1. /\ Window(c) = Window(b) /\ VolumeAt(c, p) = VolumeAt(b, p) + u
      /\ \A q \in Window(b) : q # p => VolumeAt(c, q) = VolumeAt(b, q)
  <2>1. LET d == RestLiquidity(b, u, p)
        IN  /\ d.basePrice = b.basePrice
            /\ d.memSpan = [b.memSpan EXCEPT ![p - b.basePrice] = VolumeAt(b, p) + u]
            /\ Window(d) = Window(b)
            /\ VolumeAt(d, p) = VolumeAt(b, p) + u
            /\ \A q \in Window(b) : q # p => VolumeAt(d, q) = VolumeAt(b, q)
    BY RestsInItsBucket DEF Coherent
  <2> QED BY <2>1
<1>2. InPrices(c)
  BY <1>1 DEF InPrices
<1> QED BY <1>1, <1>2, DepthIsInt

\* A limit order crosses or rests as the market has it.
LEMMA LimitOrderAsInMarket ==
  ASSUME Coherent(book), InPrices(book), NEW volume \in Int, volume # 0,
         NEW price \in Prices, price \in Window(book)
  PROVE  LET c == HandleNewLimitOrder(book, Order(volume, price)).book
         IN  /\ InPrices(c)
             /\ CrossesBook(book, volume, price) =>
                  Resting(c) = [AsMarket!Taken(volume) EXCEPT
                                   ![price] = @ + AsMarket!Unfilled(volume)]
             /\ ~CrossesBook(book, volume, price) =>
                  Resting(c) = [Resting(book) EXCEPT ![price] = @ + volume]
<1> DEFINE c    == HandleNewLimitOrder(book, Order(volume, price)).book
           end  == IF volume < 0 THEN book.highestOffer ELSE book.lowestBid
           run  == RunThroughBook(book, volume, IF CrossesBook(book, volume, price)
                                                THEN end ELSE None)
           d    == run.book
           open == volume - run.response.filledVolume
<1>1. c = RestLiquidity(d, open, price)
  BY LimitOrderRunsThenRests
<1>2. Coherent(c)
  <2>1. price \in 0..UIntMax /\ price # book.basePrice + BookLength
    BY WindowIsSigned DEF Coherent, Books, Window
  <2> QED BY <2>1, LimitOrderKeeps DEF Kept
<1>3. CASE CrossesBook(book, volume, price)
  <2>1. run = RunThroughBook(book, volume, end)
    BY <1>3
  <2>2. TakesAsMarket(d, volume, run.response.filledVolume)
    <3>1. LET r == RunThroughBook(book, volume, end)
          IN  TakesAsMarket(r.book, volume, r.response.filledVolume)
      <4> HIDE DEF run
      <4> QED BY RunTakesAsMarket
    <3> QED BY <2>1, <3>1
  <2> HIDE DEF run, c
  <2>3. /\ Coherent(d) /\ InPrices(d) /\ open \in Int /\ price \in Window(d)
        /\ open = AsMarket!Unfilled(volume)
        /\ \A q \in Prices : Depth(d, q) = Depth(book, q)
                               + AsMarket!Toward(volume, AsMarket!TakenAt(volume, q))
    BY <2>2 DEF TakesAsMarket, Window
  <2> HIDE DEF d, open
  <2>4. /\ InPrices(c)
        /\ \A q : Depth(c, q) = IF q = price THEN Depth(d, price) + open ELSE Depth(d, q)
    BY <1>1, <1>2, <2>3, RestedDepths
  <2> DEFINE T == AsMarket!Taken(volume)
             x == AsMarket!Unfilled(volume)
             e == [T EXCEPT ![price] = @ + x]
  <2>5. T = [q \in Prices |-> Depth(book, q)
                                + AsMarket!Toward(volume, AsMarket!TakenAt(volume, q))]
    <3>1. T = [q \in Prices |-> [p \in Prices |-> Depth(book, p)][q]
                                  + AsMarket!Toward(volume, AsMarket!TakenAt(volume, q))]
      BY DEF AsMarket!Taken
    <3> QED BY <3>1
  <2>6. T = [q \in Prices |-> Depth(d, q)]
    BY <2>3, <2>5
  <2>7. x = open
    BY <2>3
  <2> HIDE DEF T, x
  <2>8. e = [q \in Prices |-> IF q = price THEN Depth(d, q) + open ELSE Depth(d, q)]
    BY <2>6, <2>7
  <2>9. Resting(c) = e
    BY <2>4, <2>8 DEF Resting
  <2> QED BY <1>3, <2>4, <2>9 DEF c, T, x
<1>4. CASE ~CrossesBook(book, volume, price)
  <2>1. run = [book |-> book, response |-> NoResponse]
    BY <1>4, DummyRunIsNoOp
  <2> HIDE DEF run, c
  <2>2. d = book /\ open = volume
    BY <2>1 DEF NoResponse
  <2> HIDE DEF d, open
  <2>3. /\ InPrices(c)
        /\ \A q : Depth(c, q) = IF q = price THEN Depth(book, price) + volume ELSE Depth(book, q)
    BY <1>1, <1>2, <2>2, RestedDepths
  <2>4. Resting(c) = [Resting(book) EXCEPT ![price] = @ + volume]
    BY <2>3 DEF Resting
  <2> QED BY <1>4, <2>3, <2>4 DEF c
<1> QED BY <1>3, <1>4

\* A withdrawal takes no more than rests on its side, as the market has it, or
\* nothing when the price holds the other side.
LEMMA WithdrawalAsInMarket ==
  ASSUME Coherent(book), InPrices(book), NEW volume \in Int, volume # 0,
         NEW price \in Prices, price \in Window(book)
  PROVE  LET c == HandleWithdrawLimitOrder(book, Order(volume, price)).book
             x == Depth(book, price)
         IN  /\ InPrices(c)
             /\ AsMarket!Buys(x) # AsMarket!Buys(volume) => Resting(c) = Resting(book)
             /\ AsMarket!Buys(x) = AsMarket!Buys(volume) =>
                  Resting(c) =
                    [Resting(book) EXCEPT
                        ![price] = x - AsMarket!Toward(volume,
                                         Min({AsMarket!Lots(x), AsMarket!Lots(volume)}))]
<1> DEFINE c == HandleWithdrawLimitOrder(book, Order(volume, price)).book
           f == HandleWithdrawLimitOrder(book, Order(volume, price)).response.filledVolume
           x == Depth(book, price)
           w == AsMarket!Toward(volume, Min({AsMarket!Lots(x), AsMarket!Lots(volume)}))
<1>1. /\ f = ConsumeLiquidity(VolumeAt(book, price), volume) /\ f \in Int
      /\ Coherent(c) /\ c.basePrice = book.basePrice
      /\ VolumeAt(book, price) \in Int /\ VolumeAt(c, price) = VolumeAt(book, price) + -f
      /\ \A q \in Window(book) : q # price => VolumeAt(c, q) = VolumeAt(book, q)
  BY WithdrawsFromItsBucket
<1> HIDE DEF c, f
<1>2. Window(c) = Window(book)
  BY <1>1 DEF Window
<1>3. InPrices(c)
  BY <1>1, <1>2 DEF InPrices
<1>4. x \in Int /\ x = VolumeAt(book, price)
  BY DepthIsInt
<1>5. \A q : Depth(c, q) = IF q = price THEN x - f ELSE Depth(book, q)
  <2> HIDE DEF x
  <2>1. VolumeAt(c, price) = x - f
    BY <1>1, <1>4
  <2> QED BY <1>1, <1>2, <2>1, DepthIsInt
<1> HIDE DEF x
<1>6. f = IF (x < 0) = (volume < 0) THEN w ELSE 0
  <2> DEFINE m == AsMarket!Lots(x)
             n == AsMarket!Lots(volume)
  <2>1. /\ m = (IF x < 0 THEN -x ELSE x) /\ m \in Int
        /\ n = (IF volume < 0 THEN -volume ELSE volume) /\ n \in Int
    BY <1>4 DEF AsMarket!Lots, AsMarket!Buys
  <2>2. w = AsMarket!Toward(volume, Min({m, n}))
    OBVIOUS
  <2> HIDE DEF m, n, w
  <2>3. Min({m, n}) = IF m <= n THEN m ELSE n
    BY <2>1, MinOfTwo
  <2>4. w = IF volume < 0 THEN -(IF m <= n THEN m ELSE n) ELSE IF m <= n THEN m ELSE n
    BY <2>2, <2>3 DEF AsMarket!Toward, AsMarket!Buys
  <2>5. f = CASE ~((x < 0) = (volume < 0)) -> 0
              [] /\ (x < 0) = (volume < 0)
                 /\ IF x < 0 THEN x <= volume ELSE x >= volume -> volume
              [] OTHER -> x
    BY <1>1, <1>4 DEF ConsumeLiquidity, LiquidityMatch, SufficientLiquidity, IsNegative
  <2> QED BY <1>4, <2>1, <2>4, <2>5
<1>7. CASE (x < 0) # (volume < 0)
  <2>0. f = 0
    BY <1>6, <1>7
  <2>1. \A q : Depth(c, q) = Depth(book, q)
    <3>1. Depth(c, price) = Depth(book, price)
      BY <1>4, <1>5, <2>0 DEF x
    <3> QED BY <1>5, <3>1
  <2>2. Resting(c) = Resting(book)
    BY <2>1 DEF Resting
  <2>3. AsMarket!Buys(x) # AsMarket!Buys(volume)
    BY <1>7 DEF AsMarket!Buys
  <2> QED BY <1>3, <2>2, <2>3 DEF c, x
<1>8. CASE (x < 0) = (volume < 0)
  <2>0. f = w
    BY <1>6, <1>8
  <2> HIDE DEF w
  <2>1. Resting(c) = [Resting(book) EXCEPT ![price] = x - w]
    BY <1>5, <2>0 DEF Resting
  <2>2. AsMarket!Buys(x) = AsMarket!Buys(volume)
    BY <1>8 DEF AsMarket!Buys
  <2> QED BY <1>3, <2>1, <2>2 DEF c, w, x
<1> QED BY <1>7, <1>8

\* What each call does to the volume at the prices clients name, as the market
\* does it that was sent the same order.
MarketStep == AsMarket!MarketNext

LEMMA CallOutsideMarket ==
  ASSUME Resting(book') = Resting(book), PlacedOrder(call') = AsMarket!NoOrder
  PROVE  MarketStep
BY DEF MarketStep, AsMarket!MarketNext, AsMarket!NothingPlaced, Resting

\* The order the market is sent for a call of processOrder.
LEMMA CallInMarket ==
  ASSUME NEW op \in {"limit", "withdraw", "market"}, NEW volume, NEW price, NEW result,
         Processed(op, volume, price, result)
  PROVE  /\ volume # 0 /\ result.response.error = 0 =>
               PlacedOrder(call') = AsMarket!Placed(op, volume, price)
         /\ volume = 0 \/ result.response.error # 0 => PlacedOrder(call') = AsMarket!NoOrder
<1>1. call' = [op |-> op, volume |-> volume, price |-> price, response |-> result.response]
  BY DEF Processed
<1>2. call'.op = op /\ call'.volume = volume /\ call'.price = price
      /\ call'.response = result.response
  BY <1>1
<1> QED BY <1>2 DEF PlacedOrder, Accepted, AsMarket!Placed, AsMarket!NoOrder

LEMMA LimitOrderIsAStep ==
  ASSUME Coherent(book), InPrices(book),
         NEW volume \in Volumes, NEW price \in Prices, ~PastTheBook(price),
         AddLimitOrder(volume, price)
  PROVE  InPrices(book') /\ MarketStep
<1> DEFINE result == ProcessOrder(book, Order(volume, price), BlankOrder, BlankOrder)
           limit  == HandleNewLimitOrder(book, Order(volume, price))
<1>1. volume \in Int /\ price \in 0..UIntMax /\ price # book.basePrice + BookLength
  BY ClientAssumption DEF PastTheBook
<1>2. book' = limit.book /\ Processed("limit", volume, price, result)
  <2>1. result.book = limit.book
    BY <1>1, ProcessLimitOrder
  <2> QED BY <2>1 DEF AddLimitOrder, Processed
<1>3. CASE volume = 0
  <2>1. RunThroughBook(book, 0, None) = [book |-> book, response |-> NoResponse]
    BY DummyRunIsNoOp
  <2>2. ~CrossesBook(book, 0, price)
    BY DEF CrossesBook
  <2>3. limit.book = book
    BY <1>3, <2>1, <2>2 DEF HandleNewLimitOrder, Order
  <2> HIDE DEF limit, result
  <2>4. PlacedOrder(call') = AsMarket!NoOrder
    BY <1>2, <1>3, CallInMarket
  <2> QED BY <1>2, <2>3, <2>4, CallOutsideMarket
<1>4. CASE volume # 0 /\ price \notin Window(book)
  <2>1. RefusedOutOfBounds(book, price, result)
    BY <1>1, <1>4, LimitOrderRefused
  <2> HIDE DEF result
  <2>2. result.response.error = 1 /\ result.book = book
    BY <1>4, <2>1 DEF RefusedOutOfBounds
  <2>3. PlacedOrder(call') = AsMarket!NoOrder /\ book' = book
    BY <1>2, <2>2, CallInMarket DEF Processed
  <2> QED BY <2>3, CallOutsideMarket
<1>5. CASE volume # 0 /\ price \in Window(book)
  <2>1. /\ InPrices(limit.book)
        /\ CrossesBook(book, volume, price) =>
             Resting(limit.book) = [AsMarket!Taken(volume) EXCEPT
                                       ![price] = @ + AsMarket!Unfilled(volume)]
        /\ ~CrossesBook(book, volume, price) =>
             Resting(limit.book) = [Resting(book) EXCEPT ![price] = @ + volume]
    BY <1>1, <1>5, LimitOrderAsInMarket
  <2>2. result.response.error = 0
    BY <1>1, <1>5, InRangeIsWindow, LimitOrderAccepted
  <2> HIDE DEF limit, result
  <2>3. PlacedOrder(call') = AsMarket!Placed("limit", volume, price)
    BY <1>2, <1>5, <2>2, CallInMarket
  <2>4. CrossesBook(book, volume, price) <=> AsMarket!WithinLimit(volume, price)
    BY <1>1, <1>5, CrossingIsWithinLimit
  <2>5. CASE CrossesBook(book, volume, price)
    <3>1. Resting(book') = [AsMarket!Taken(volume) EXCEPT
                               ![price] = @ + AsMarket!Unfilled(volume)]
      BY <1>2, <2>1, <2>5
    <3>2. AsMarket!CrossLimit(volume, price)
      BY <2>3, <2>4, <2>5, <3>1 DEF AsMarket!CrossLimit, Resting
    <3> QED BY <1>2, <1>5, <2>1, <3>2 DEF MarketStep, AsMarket!MarketNext
  <2>6. CASE ~CrossesBook(book, volume, price)
    <3>1. Resting(book') = [Resting(book) EXCEPT ![price] = @ + volume]
      BY <1>2, <2>1, <2>6
    <3>2. AsMarket!RestLimit(volume, price)
      BY <2>3, <2>4, <2>6, <3>1 DEF AsMarket!RestLimit, Resting
    <3> QED BY <1>2, <1>5, <2>1, <3>2 DEF MarketStep, AsMarket!MarketNext
  <2> QED BY <2>5, <2>6
<1> QED BY <1>3, <1>4, <1>5

LEMMA WithdrawalIsAStep ==
  ASSUME Coherent(book), InPrices(book),
         NEW volume \in Volumes, NEW price \in Prices, ~PastTheBook(price),
         WithdrawLimitOrder(volume, price)
  PROVE  InPrices(book') /\ MarketStep
<1> DEFINE result   == ProcessOrder(book, BlankOrder, Order(volume, price), BlankOrder)
           withdraw == HandleWithdrawLimitOrder(book, Order(volume, price))
           x        == Depth(book, price)
           w        == AsMarket!Toward(volume, Min({AsMarket!Lots(x), AsMarket!Lots(volume)}))
<1>1. volume \in Int /\ price \in 0..UIntMax /\ price # book.basePrice + BookLength
  BY ClientAssumption DEF PastTheBook
<1>2. book' = withdraw.book /\ Processed("withdraw", volume, price, result)
  <2>1. result.book = withdraw.book
    BY <1>1, ProcessWithdrawal
  <2> QED BY <2>1 DEF WithdrawLimitOrder, Processed
<1>3. CASE volume = 0
  <2>1. withdraw = [book |-> book, response |-> NoResponse]
    BY <1>1, <1>3, BlankWithdrawal
  <2> HIDE DEF withdraw, result
  <2>2. PlacedOrder(call') = AsMarket!NoOrder
    BY <1>2, <1>3, CallInMarket
  <2> QED BY <1>2, <2>1, <2>2, CallOutsideMarket
<1>4. CASE volume # 0 /\ price \notin Window(book)
  <2>1. RefusedOutOfBounds(book, price, result)
    BY <1>1, <1>4, WithdrawalRefused
  <2> HIDE DEF result
  <2>2. result.response.error = 1 /\ result.book = book
    BY <1>4, <2>1 DEF RefusedOutOfBounds
  <2>3. PlacedOrder(call') = AsMarket!NoOrder /\ book' = book
    BY <1>2, <2>2, CallInMarket DEF Processed
  <2> QED BY <2>3, CallOutsideMarket
<1>5. CASE volume # 0 /\ price \in Window(book)
  <2>1. /\ InPrices(withdraw.book)
        /\ AsMarket!Buys(x) # AsMarket!Buys(volume) => Resting(withdraw.book) = Resting(book)
        /\ AsMarket!Buys(x) = AsMarket!Buys(volume) =>
             Resting(withdraw.book) = [Resting(book) EXCEPT ![price] = x - w]
    BY <1>1, <1>5, WithdrawalAsInMarket
  <2>2. result.response.error = 0
    BY <1>1, <1>5, InRangeIsWindow, WithdrawalAccepted
  <2> HIDE DEF withdraw, result
  <2>3. PlacedOrder(call') = AsMarket!Placed("withdraw", volume, price)
    BY <1>2, <1>5, <2>2, CallInMarket
  <2>4. Resting(book)[price] = x
    BY DEF Resting
  <2>5. CASE AsMarket!Buys(x) # AsMarket!Buys(volume)
    <3>1. Resting(book') = Resting(book)
      BY <1>2, <2>1, <2>5
    <3>2. AsMarket!WithdrawNothing(volume, price)
      BY <2>3, <2>4, <2>5, <3>1 DEF AsMarket!WithdrawNothing, Resting
    <3> QED BY <1>2, <1>5, <2>1, <3>2 DEF MarketStep, AsMarket!MarketNext
  <2>6. CASE AsMarket!Buys(x) = AsMarket!Buys(volume)
    <3>1. AsMarket!Withdraw(volume, price) <=>
            /\ PlacedOrder(call') = AsMarket!Placed("withdraw", volume, price)
            /\ AsMarket!Buys(Resting(book)[price]) = AsMarket!Buys(volume)
            /\ Resting(book') =
                 [Resting(book) EXCEPT
                     ![price] = @ - AsMarket!Toward(volume,
                                      Min({AsMarket!Lots(@), AsMarket!Lots(volume)}))]
      BY DEF AsMarket!Withdraw, AsMarket!Min, Min, Resting
    <3>2. AsMarket!Withdraw(volume, price) <=>
            /\ PlacedOrder(call') = AsMarket!Placed("withdraw", volume, price)
            /\ AsMarket!Buys(x) = AsMarket!Buys(volume)
            /\ Resting(book') = [Resting(book) EXCEPT ![price] = x - w]
      BY <2>4, <3>1
    <3> HIDE DEF x, w
    <3>3. AsMarket!Withdraw(volume, price)
      BY <1>2, <2>1, <2>3, <2>6, <3>2
    <3> QED BY <1>2, <1>5, <2>1, <3>3 DEF MarketStep, AsMarket!MarketNext
  <2> QED BY <2>5, <2>6
<1> QED BY <1>3, <1>4, <1>5

LEMMA MarketOrderIsAStep ==
  ASSUME Coherent(book), InPrices(book), NEW volume \in Volumes, MarketOrder(volume)
  PROVE  InPrices(book') /\ MarketStep
<1> DEFINE result == ProcessOrder(book, BlankOrder, BlankOrder, Order(volume, 0))
           market == HandleMarketOrder(book, Order(volume, 0))
<1>1. volume \in Int
  BY ClientAssumption
<1>2. /\ book' = market.book /\ result.response = market.response
      /\ Processed("market", volume, 0, result)
  <2>1. result.book = market.book /\ result.response = market.response
    BY <1>1, ProcessMarketOrder
  <2> QED BY <2>1 DEF MarketOrder, Processed
<1>3. /\ InPrices(market.book)
      /\ volume = 0 => market.book = book
      /\ volume # 0 => Resting(market.book) = AsMarket!Taken(volume)
  BY <1>1, MarketOrderIsATrade
<1>4. market.response.error = 0
  BY DEF HandleMarketOrder, RunThroughBook
<1> HIDE DEF market, result
<1>5. CASE volume = 0
  <2>1. PlacedOrder(call') = AsMarket!NoOrder
    BY <1>2, <1>5, CallInMarket
  <2> QED BY <1>2, <1>3, <1>5, <2>1, CallOutsideMarket
<1>6. CASE volume # 0
  <2>1. PlacedOrder(call') = AsMarket!Placed("market", volume, 0)
    BY <1>2, <1>4, <1>6, CallInMarket
  <2>2. AsMarket!TradeAtMarket(volume)
    BY <1>2, <1>3, <1>6, <2>1 DEF AsMarket!TradeAtMarket, Resting
  <2> QED BY <1>2, <1>3, <1>6, <2>2 DEF MarketStep, AsMarket!MarketNext
<1> QED BY <1>5, <1>6

\* The market does not notice a shift.
LEMMA ShiftIsAStutter ==
  ASSUME Coherent(book), InPrices(book), NEW shiftBy \in Shifts,
         SafeShift(shiftBy), ShiftBook(shiftBy)
  PROVE  InPrices(book') /\ MarketStep
<1> DEFINE c == ShiftedBook(book, shiftBy)
<1>1. shiftBy \in Int
  BY ClientAssumption
<1>2. Coherent(c) /\ SameDepth(book, c)
  BY <1>1, ShiftKeeps DEF SafeShift
<1>3. book' = c /\ PlacedOrder(call') = AsMarket!NoOrder
  BY DEF ShiftBook, PlacedOrder, Accepted, AsMarket!NoOrder, AsMarket!Placed
<1> HIDE DEF c
<1>4. \A p : Depth(c, p) = Depth(book, p)
  BY <1>2, DepthIsInt DEF SameDepth
<1>5. InPrices(c)
  <2> SUFFICES ASSUME NEW p \in Window(c), VolumeAt(c, p) # 0 PROVE p \in Prices
    BY DEF InPrices
  <2>1. Depth(book, p) # 0
    BY <1>2, <1>4, DepthIsInt
  <2>2. p \in Window(book) /\ VolumeAt(book, p) # 0
    BY <2>1, DepthIsInt
  <2> QED BY <2>2 DEF InPrices
<1>6. Resting(c) = Resting(book)
  BY <1>4 DEF Resting
<1> QED BY <1>3, <1>5, <1>6, CallOutsideMarket

\* The book implements the market: whatever the buckets, the stats and the
\* searches do, every order of a disciplined client that is accepted changes the
\* volume at the prices as that order would in an ideal market, and no other
\* call changes any.
THEOREM BookIsAMarket == Spec => ImplementsMarket
<1> DEFINE MInv == IInv /\ InPrices(book)
<1>1. SignedInit => AsMarket!MarketInit /\ MInv
  <2> SUFFICES ASSUME SignedInit PROVE AsMarket!MarketInit /\ MInv
    OBVIOUS
  <2>1. IInv /\ Coherent(book)
    BY InitCoherent DEF IInv
  <2>2. PICK basePrice \in BasePrices, stray \in StrayVolumes : book = EmptyBook(basePrice, stray)
    BY DEF SignedInit, Init
  <2>3. \A i \in Span : book.memSpan[i] = 0
    BY <2>2 DEF EmptyBook, Cells, Span
  <2>4. \A p \in Window(book) : VolumeAt(book, p) = 0
    BY <2>1, <2>3, WindowIsSigned DEF Coherent, VolumeAt
  <2>5. \A p : Depth(book, p) = 0
    BY <2>1, <2>4, DepthIsInt
  <2>6. PlacedOrder(call) = AsMarket!NoOrder
    BY DEF SignedInit, Init, PlacedOrder, Accepted, AsMarket!NoOrder, AsMarket!Placed
  <2> QED BY <2>1, <2>4, <2>5, <2>6 DEF AsMarket!MarketInit, InPrices
<1>2. MInv /\ [Next]_vars => 
        MInv' /\ [AsMarket!MarketNext]_<<PlacedOrder(call), [p \in Prices |-> Depth(book, p)]>>
  <2> SUFFICES ASSUME MInv, [Next]_vars
               PROVE  MInv' /\ [AsMarket!MarketNext]_<<PlacedOrder(call), Resting(book)>>
    BY DEF Resting
  <2>1. IInv' /\ Coherent(book) /\ InPrices(book)
    BY NextKeeps DEF IInv
  <2>2. CASE Next
    <3>1. InPrices(book') /\ MarketStep
      BY <2>1, <2>2, LimitOrderIsAStep, WithdrawalIsAStep, MarketOrderIsAStep, ShiftIsAStutter
         DEF Next
    <3>2. InPrices(book)'
      BY <3>1 DEF InPrices, Resting, Window, VolumeAt, Depth
    <3> QED BY <2>1, <3>1, <3>2 DEF MarketStep
  <2>3. CASE UNCHANGED vars
    <3>1. InPrices(book)' /\ Resting(book)' = Resting(book) /\ PlacedOrder(call)' = PlacedOrder(call)
      BY <2>1, <2>3 DEF vars, InPrices, Resting, Window, VolumeAt, Depth, PlacedOrder, Accepted
    <3> QED BY <2>1, <3>1
  <2> QED BY <2>2, <2>3
<1>3. Spec => []MInv
  BY <1>1, <1>2, PTL DEF Spec
<1> QED BY <1>1, <1>2, <1>3, PTL DEF Spec, ImplementsMarket, AsMarket!MarketSpec

=============================================================================
