-------------------------- MODULE OrderBookBucket --------------------------
(***************************************************************************)
(* One price bucket of the order book (src/production/OrderBookBucket.hpp). *)
(* A bucket is its signed volume: negative volume is demand (bids),         *)
(* positive volume is supply (offers).  The bucket's operations are pure:   *)
(* ConsumeLiquidity is the volume that consumeLiquidity() takes out and      *)
(* returns, the bucket that is left is the volume minus it.                  *)
(***************************************************************************)
EXTENDS Integers

\* The sign tests of Auxil::is_negative; a bucket without volume counts as
\* (empty) supply.
IsNegative(n) == n < 0

LiquidityMatch(volume, fillVolume) == IsNegative(volume) = IsNegative(fillVolume)

SufficientLiquidity(volume, fillVolume) ==
    IF IsNegative(volume) THEN volume <= fillVolume ELSE volume >= fillVolume

ConsumeLiquidity(volume, fillVolume) ==
    CASE ~LiquidityMatch(volume, fillVolume)     -> 0
      [] /\ LiquidityMatch(volume, fillVolume)
         /\ SufficientLiquidity(volume, fillVolume)  -> fillVolume
      [] OTHER                                   -> volume

AddLiquidity(volume, addVolume) == volume + addVolume

=============================================================================
