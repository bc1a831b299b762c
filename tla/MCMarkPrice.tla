---------------------------- MODULE MCMarkPrice -----------------------------
(* The flash crash of docs/architecture_en.md:496-499, in hundreds: the spot *)
(* price stays, and the futures price falls by a tenth and stays there.      *)
EXTENDS MarkPrice

Spot    == 600
Crashed == 540

CrashNext == \/ ~prices.initialized /\ UpdateIndexPrice(Spot)
             \/ prices.initialized /\ \E price \in {Spot, Crashed} : UpdateLastPrice(price)

CrashSpec == MarkInit /\ [][CrashNext]_pricing

\* architecture_en.md:498: the mark price follows spot and does not follow a
\* futures flash crash, so liquidation prices of 55000 are not reached.
NotFalselyLiquidated == prices.initialized => prices.mark >= 550

=============================================================================
