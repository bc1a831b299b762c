---------------------------- MODULE MCPriceFeed -----------------------------
(* Instances of PriceFeed for TLC.                                         *)
EXTENDS PriceFeed

\* Periods of 1, 2 and 4 seconds.
Nested == <<1, 2, 4>>
Caches == <<5, 3, 2>>

\* Late, in the same second, in the next, over gaps that are filled and not.
Seconds == {-2, 0, 1, 4, 6}

\* Before it is stopped the feed only loses its connection early on, and it is
\* early that it is stopped and that a spot price comes.
Early == Len(ticks) <= 1

Disturbed == Done' \/ spot'.fetches # spot.fetches \/ feed'.pc = "wait"

Calmer == ~Done /\ Disturbed => Early

=============================================================================
