--------------------------- MODULE MCLiquidation ---------------------------
(* Instances of Liquidation for TLC.                                       *)
EXTENDS Liquidation

Symmetry == Permutations(Users)

\* A long at twofold leverage is liquidated by the second price, and is past its
\* bankruptcy price at the third.
Slump == <<144, 76, 36>>

=============================================================================
