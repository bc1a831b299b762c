------------------------------ MODULE Clearing ------------------------------
(***************************************************************************)
(* The clearing layer: margin, fees, profit and the risk prices of one     *)
(* position (engine/clearing/clearance.go, engine/position/manager.go and  *)
(* the default tier of engine/fee/calculator.go).                          *)
(*                                                                         *)
(* The code computes in decimals.  Here amounts are integers in a unit     *)
(* small enough for the divisions that occur to come out even; an instance *)
(* chooses its prices accordingly.                                         *)
(***************************************************************************)
EXTENDS Integers

CONSTANTS
  MakerPart,  \* the maker fee is one MakerPart-th of the value traded
  TakerPart,  \* the taker fee is one TakerPart-th of the value traded
  MaintPart,  \* the maintenance rate is one MaintPart-th
  ForceTpROI  \* return on margin at which a profit is taken by force

ASSUME FeeAssumption   == MakerPart \in Nat \ {0} /\ TakerPart \in Nat \ {0}
ASSUME MaintAssumption == MaintPart \in Nat \ {0, 1}
ASSUME RoiAssumption   == ForceTpROI \in Nat

Long  == 1
Short == -1
Sides == {Long, Short}

Active     == "Active"
Closing    == "Closing"
ForceTPing == "ForceTPing"

-----------------------------------------------------------------------------
CalcFee(value, isMaker) ==
  IF isMaker THEN value \div MakerPart ELSE value \div TakerPart

CalcUnrealizedPnL(entry, price, qty, side) == (price - entry) * qty * side

\* Mistake: longs and shorts both pay.
CalcFundingPaid(value, rate, side) == -(value * rate)

\* CalcFundingPayment: at a positive rate longs pay shorts.
CalcFundingPayment(value, rate, side) == value * rate * (-side)

\* The price at which the loss equals the margin.
CalcBankruptcyPrice(entry, lev, side) == entry - side * (entry \div lev)

\* entry * (1 -+ 1/lev) / (1 -+ 1/MaintPart), by side.
CalcLiquidationPrice(entry, lev, side) ==
  (entry * (lev - side) * MaintPart) \div (lev * (MaintPart - side))

CalcForceTpPrice(entry, lev, side) == entry + side * ((entry * ForceTpROI) \div lev)

-----------------------------------------------------------------------------
\* CalcOpen: what a new position costs.
CalcOpen(price, qty, lev, isMaker) ==
  [margin |-> (price * qty) \div lev, fee |-> CalcFee(price * qty, isMaker)]

\* Mistake: the new entry price is the plain mean of the two prices.
CalcIncreaseMean(pos, qty, price) ==
  LET add == (price * qty) \div pos.lev
  IN  [add    |-> add,
       entry  |-> (pos.entry + price) \div 2,
       qty    |-> pos.qty + qty,
       margin |-> pos.margin + add]

\* CalcIncrease: the entry price becomes the weighted average.
CalcIncrease(pos, qty, price) ==
  LET add == (price * qty) \div pos.lev
  IN  [add    |-> add,
       entry  |-> (pos.entry * pos.qty + price * qty) \div (pos.qty + qty),
       qty    |-> pos.qty + qty,
       margin |-> pos.margin + add]

\* Mistake: the whole margin is released by a partial close.
CalcReduceAllMargin(pos, price, tradeQty) ==
  LET qty == IF tradeQty < pos.qty THEN tradeQty ELSE pos.qty
      raw == CalcUnrealizedPnL(pos.entry, price, qty, pos.side)
      fee == CalcFee(qty * price, FALSE)
      due == (pos.funding * qty) \div pos.qty
  IN  [qty |-> qty, margin |-> pos.margin, funding |-> due, fee |-> fee,
       net |-> raw - fee + due, full |-> qty = pos.qty]

\* CalcReduce: a trade against a position closes as much of it as both have,
\* releases that share of the margin and realizes the profit and that share of
\* the funding; the close pays the taker fee whoever made the price.
CalcReduce(pos, price, tradeQty) ==
  LET qty == IF tradeQty < pos.qty THEN tradeQty ELSE pos.qty
      raw == CalcUnrealizedPnL(pos.entry, price, qty, pos.side)
      fee == CalcFee(qty * price, FALSE)
      due == (pos.funding * qty) \div pos.qty
  IN  [qty     |-> qty,
       margin  |-> (pos.margin * qty) \div pos.qty,
       funding |-> due,
       fee     |-> fee,
       net     |-> raw - fee + due,
       full    |-> qty = pos.qty]

=============================================================================
