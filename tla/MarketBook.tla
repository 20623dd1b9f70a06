----------------------------- MODULE MarketBook -----------------------------
(***************************************************************************)
(* The market an order book keeps, without saying how: the volume resting at *)
(* each price, demand negative and supply positive, and nothing else: no      *)
(* window, no stats, no search.  An order takes from the prices it faces,      *)
(* best first, what the better prices leave it to take; a limit order that    *)
(* faces a price within its limit does so without regard to the limit, and    *)
(* rests what it could not fill.  The last order is part of the state, so that *)
(* who implements the market serves the orders it was sent and no others.     *)
(***************************************************************************)
EXTENDS Integers, FiniteSetsExt

CONSTANTS MarketPrices, OrderVolumes

VARIABLES
    order,   \* the last order placed
    resting  \* the volume at every price

Placed(kind, volume, price) == [kind |-> kind, volume |-> volume, price |-> price]

NoOrder == Placed("none", 0, 0)

\* Buyers send negative volumes.
Buys(volume) == volume < 0

Lots(volume) == IF Buys(volume) THEN -volume ELSE volume

\* Volume an order of this volume can take at price.
OnOffer(volume, price) ==
    IF Buys(volume) = (resting[price] > 0) THEN Lots(resting[price]) ELSE 0

BetterFor(volume, price) ==
    {q \in MarketPrices : IF Buys(volume) THEN q < price ELSE q > price}

\* What the better prices leave of the order, and what price takes of that.
LeftFor(volume, price) ==
    Max({0, Lots(volume) - MapThenSumSet(LAMBDA q : OnOffer(volume, q),
                                         BetterFor(volume, price))})

TakenAt(volume, price) == Min({OnOffer(volume, price), LeftFor(volume, price)})

Toward(volume, lots) == IF Buys(volume) THEN -lots ELSE lots

Unfilled(volume) ==
    volume - Toward(volume, MapThenSumSet(LAMBDA p : TakenAt(volume, p), MarketPrices))

Taken(volume) == [p \in MarketPrices |-> resting[p] + Toward(volume, TakenAt(volume, p))]

WithinLimit(volume, price) ==
    \E q \in MarketPrices : OnOffer(volume, q) > 0 /\ price \notin BetterFor(volume, q)

MarketInit ==
    /\ order = NoOrder
    /\ resting = [p \in MarketPrices |-> 0]

TradeAtMarket(volume) ==
    /\ order' = Placed("market", volume, 0)
    /\ resting' = Taken(volume)

CrossLimit(volume, price) ==
    /\ order' = Placed("limit", volume, price)
    /\ WithinLimit(volume, price)
    /\ resting' = [Taken(volume) EXCEPT ![price] = @ + Unfilled(volume)]

RestLimit(volume, price) ==
    /\ order' = Placed("limit", volume, price)
    /\ ~WithinLimit(volume, price)
    /\ resting' = [resting EXCEPT ![price] = @ + volume]

\* No more is withdrawn than rests at price, and nothing of the other side.
Withdraw(volume, price) ==
    /\ order' = Placed("withdraw", volume, price)
    /\ Buys(resting[price]) = Buys(volume)
    /\ resting' = [resting EXCEPT
                       ![price] = @ - Toward(volume, Min({Lots(@), Lots(volume)}))]

WithdrawNothing(volume, price) ==
    /\ order' = Placed("withdraw", volume, price)
    /\ Buys(resting[price]) # Buys(volume)
    /\ UNCHANGED resting

NothingPlaced ==
    /\ order' = NoOrder
    /\ UNCHANGED resting

MarketNext ==
    \/ NothingPlaced
    \/ \E volume \in OrderVolumes \ {0} :
          \/ TradeAtMarket(volume)
          \/ \E price \in MarketPrices : \/ CrossLimit(volume, price)
                                         \/ RestLimit(volume, price)
                                         \/ Withdraw(volume, price)
                                         \/ WithdrawNothing(volume, price)

MarketSpec == MarketInit /\ [][MarketNext]_<<order, resting>>

=============================================================================
