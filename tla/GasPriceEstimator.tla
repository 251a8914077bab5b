------------------------- MODULE GasPriceEstimator -------------------------
(***************************************************************************)
(* The price of a response (src/src/responder/gasPriceEstimator.ts) from   *)
(* the network's price and the blocks left until the deadline.  The curve  *)
(* is an exponential through (MAX_BLOCKS, MAX_GAS_PRICE) and the point of  *)
(* the blocks left and the capped network price, and it is asked for its   *)
(* value at that second point, so only its two defining points matter.     *)
(***************************************************************************)
EXTENDS Integers

CONSTANTS
    MaxGasPrice,    \* MAX_GAS_PRICE
    MaxBlocks,      \* MAX_BLOCKS
    DefaultBlocks   \* MEDIAN_BLOCKS + AVERAGE_TO_MINE

ASSUME EstimatorAssumption ==
    /\ MaxGasPrice \in Nat \ {0}
    /\ MaxBlocks \in Nat /\ DefaultBlocks \in Nat
    /\ MaxBlocks < DefaultBlocks

(* 0 is falsy: with no block left the curve is drawn through its default.   *)
SecondPoint(left) == IF left = 0 THEN DefaultBlocks ELSE left

(* The curve needs two points with different x. *)
EstimateThrows(left) == SecondPoint(left) = MaxBlocks

(* Mutation: 0 stays 0. *)
CappedFromAbove(price) == IF price > MaxGasPrice THEN MaxGasPrice ELSE price

(* A network price of 0 counts as 1, one above the cap as the cap. *)
Capped(price) ==
    IF price = 0 THEN 1 ELSE IF price > MaxGasPrice THEN MaxGasPrice ELSE price

Estimate(price, left) == IF left <= MaxBlocks THEN MaxGasPrice ELSE Capped(price)
=============================================================================
