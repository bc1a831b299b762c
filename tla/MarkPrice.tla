----------------------------- MODULE MarkPrice ------------------------------
(***************************************************************************)
(* The mark price (engine/markprice/engine.go): the spot price times one   *)
(* plus the moving average of the basis, by which the futures price        *)
(* deviates from the spot price.                                           *)
(*                                                                         *)
(* The futures price comes from the feed, the spot price from a loop of    *)
(* its own; each update is atomic under the engine's mutex.                *)
(*                                                                         *)
(* A basis is a whole number of Units, rounded down.  The code divides to  *)
(* sixteen places and then keeps every digit of the average.               *)
(***************************************************************************)
EXTENDS Integers

CONSTANTS
  Unit,      \* a basis of one
  AlphaNum,  \* the weight of the latest basis is AlphaNum / AlphaDen
  AlphaDen

ASSUME UnitAssumption  == Unit \in Nat \ {0}
ASSUME AlphaAssumption == AlphaNum \in Nat /\ AlphaDen \in Nat \ {0} /\ AlphaNum <= AlphaDen

VARIABLES
  prices,  \* lastPrice, indexPrice, emaBasis, markPrice, initialized
  bases    \* history: the lowest and the highest basis averaged so far

pricing == <<prices, bases>>

MarkInit ==
  /\ prices = [last |-> 0, index |-> 0, ema |-> 0, mark |-> 0, initialized |-> FALSE]
  /\ bases  = [low |-> 0, high |-> 0]

-----------------------------------------------------------------------------
Basis(last, index) == ((last - index) * Unit) \div index

\* Mistake: the old average keeps its full weight.
AverageAdding(basis, ema) == (AlphaNum * basis + AlphaDen * ema) \div AlphaDen

Average(basis, ema) == (AlphaNum * basis + (AlphaDen - AlphaNum) * ema) \div AlphaDen

AtBasis(index, basis) == (index * (Unit + basis)) \div Unit

\* The first price of either kind serves as all of them.
Initialize(price) ==
  /\ prices' = [last |-> price, index |-> price, ema |-> 0, mark |-> price,
                initialized |-> TRUE]
  /\ UNCHANGED bases

\* recalculate
Recalculate(last, index) ==
  IF index = 0
  THEN /\ prices' = [prices EXCEPT !.last = last, !.index = index, !.mark = last]
       /\ UNCHANGED bases
  ELSE LET basis == Basis(last, index)
           ema   == Average(basis, prices.ema)
       IN  /\ prices' = [prices EXCEPT !.last = last, !.index = index, !.ema = ema,
                                       !.mark = AtBasis(index, ema)]
           /\ bases' = [low  |-> IF basis < bases.low THEN basis ELSE bases.low,
                        high |-> IF basis > bases.high THEN basis ELSE bases.high]

UpdateLastPrice(price) ==
  IF prices.initialized THEN Recalculate(price, prices.index) ELSE Initialize(price)

UpdateIndexPrice(price) ==
  IF prices.initialized THEN Recalculate(prices.last, price) ELSE Initialize(price)

\* A price that parses is positive in any feed of prices; fetchSpotPrice drops zero.
MarkNext == \E price \in Nat \ {0} : UpdateLastPrice(price) \/ UpdateIndexPrice(price)

MarkSpec == MarkInit /\ [][MarkNext]_pricing

-----------------------------------------------------------------------------
\* "Anti-manipulation": whatever order futures and spot prices come in, the mark
\* price deviates from the spot price no further than the futures price ever has.
MarkWithinSeen ==
  prices.initialized =>
    /\ AtBasis(prices.index, bases.low) <= prices.mark
    /\ prices.mark <= AtBasis(prices.index, bases.high)

=============================================================================
