------------------------------- MODULE Klines -------------------------------
(***************************************************************************)
(* The kline aggregator (engine/pricefeed/kline_aggregator.go).            *)
(*                                                                         *)
(* Every level keeps the bar of the period the last tick fell in, and its  *)
(* closed bars, newest first.  A tick that leaves the period of the lowest *)
(* level closes its bar, which cascades: the bar is merged into the one    *)
(* above, which may close in turn.  Seconds without a tick are filled with *)
(* flat bars that cascade as well, unless they are too many.  Last, the    *)
(* tick is added to the bars of all the higher levels, and those whose     *)
(* period it has left close without cascading.                             *)
(*                                                                         *)
(* OnTrade holds a mutex throughout.  It is cut at its loop over the       *)
(* missing seconds, as fill says.                                          *)
(***************************************************************************)
EXTENDS Integers, Sequences, SequencesExt

CONSTANTS
  Top,        \* number of levels; level 1 is the lowest
  Duration,   \* length of the periods of each level
  MaxCache,   \* closed bars kept for each level
  Persisted,  \* levels whose closed bars are saved
  MaxGap      \* longest gap that is filled

Levels == 1 .. Top

ASSUME LevelAssumption == Top \in Nat \ {0}
ASSUME NestedAssumption ==
  /\ Duration \in [Levels -> Nat \ {0}]
  /\ \A l \in Levels \ {1} : Duration[l] % Duration[l - 1] = 0
ASSUME CacheAssumption == MaxCache \in [Levels -> Nat \ {0}]
ASSUME GapAssumption == MaxGap \in Nat

VARIABLES
  current,  \* the bar of each level that has not closed
  cache,    \* the closed bars of each level, newest first
  rows,     \* table klines: bars by level and start
  fill,     \* where OnTrade has got to
  ticks     \* history: all ticks

klines == <<current, cache, rows, fill, ticks>>

NoBar == [start |-> -1, open |-> 0, high |-> 0, low |-> 0, close |-> 0]

Idle == [pc |-> "idle", price |-> 0, ts |-> 0, open |-> 0, next |-> 0]

KlineInit ==
  /\ current = [l \in Levels |-> NoBar]
  /\ cache   = [l \in Levels |-> <<>>]
  /\ rows    = << >>
  /\ fill    = Idle
  /\ ticks   = <<>>

-----------------------------------------------------------------------------
Higher(a, b) == IF b > a THEN b ELSE a
Lower(a, b)  == IF b < a THEN b ELSE a

\* truncateToInterval
StartOf(l, t) == (t \div Duration[l]) * Duration[l]

NewBar(l, ts, open, price) ==
  [start |-> StartOf(l, ts), open |-> open, close |-> price,
   high |-> Higher(open, price), low |-> Lower(open, price)]

FlatBar(start, price) ==
  [start |-> start, open |-> price, high |-> price, low |-> price, close |-> price]

AddTick(bar, price) ==
  [bar EXCEPT !.high = Higher(@, price), !.low = Lower(@, price), !.close = price]

Merge(bar, child) ==
  [bar EXCEPT !.high = Higher(@, child.high), !.low = Lower(@, child.low),
              !.close = child.close]

\* Upsert of the bars of some levels: a row that is there keeps its opening price.
Upsert(levels, bars) ==
  LET saved == {<<l, bars[l].start>> : l \in levels}
  IN  [key \in DOMAIN rows \cup saved |->
         IF key \notin saved THEN rows[key]
         ELSE IF key \in DOMAIN rows THEN [bars[key[1]] EXCEPT !.open = rows[key].open]
         ELSE bars[key[1]]]

\* cacheBar, for all the levels that close and their bars.
CacheBars(closing, bars) ==
  /\ cache' = [l \in Levels |->
                 IF l \in closing
                 THEN SubSeq(<<bars[l]>> \o cache[l], 1,
                             Lower(Len(cache[l]) + 1, MaxCache[l]))
                 ELSE cache[l]]
  /\ rows' = Upsert(closing \cap Persisted, bars)

-----------------------------------------------------------------------------
(* closeAndCascade: the levels up to which bars close, bars[l] being the    *)
(* bar of l, and what becomes of the bars above them.                       *)

WithBase(bar) == [current EXCEPT ![1] = bar]

\* The bar of l belongs to an earlier period than what is merged into it.
Outlived(bars, l) ==
  bars[l] # NoBar /\ bars[l].start # StartOf(l, bars[l - 1].start)

Closing(bars) == {l \in Levels : \A m \in 2 .. l : Outlived(bars, m)}

OpenAbove(l, child) == [child EXCEPT !.start = StartOf(l, @)]

CloseAndCascade(bar) ==
  LET bars    == WithBase(bar)
      closing == Closing(bars)
  IN  /\ CacheBars(closing, bars)
      /\ current' = [l \in Levels |->
           IF l = 1 \/ l - 1 \notin closing THEN current[l]
           ELSE IF l \in closing \/ bars[l] = NoBar THEN OpenAbove(l, bars[l - 1])
           ELSE Merge(bars[l], bars[l - 1])]

\* Mistake: a new bar opens at its first tick.
FollowAfresh(l, price, ts) ==
  IF current[l] = NoBar \/ current[l].start # StartOf(l, ts)
  THEN NewBar(l, ts, price, price)
  ELSE AddTick(current[l], price)

\* updateAncestors: what becomes of a level above the lowest.
Follow(l, price, ts) ==
  IF current[l] = NoBar THEN NewBar(l, ts, price, price)
  ELSE IF current[l].start # StartOf(l, ts) THEN NewBar(l, ts, current[l].close, price)
  ELSE AddTick(current[l], price)

\* Mistake: a higher level only follows the ticks of its current period.
UpdateSameAncestors(base, price, ts) ==
  /\ UNCHANGED <<cache, rows>>
  /\ current' = [l \in Levels |->
       IF l = 1 THEN base
       ELSE IF current[l] = NoBar \/ current[l].start = StartOf(l, ts)
       THEN Follow(l, price, ts) ELSE current[l]]

\* All of updateAncestors, with the new bar of the lowest level.
UpdateAncestors(base, price, ts) ==
  /\ CacheBars({l \in Levels \ {1} : current[l] # NoBar
                                      /\ current[l].start # StartOf(l, ts)}, current)
  /\ current' = [l \in Levels |-> IF l = 1 THEN base ELSE Follow(l, price, ts)]

-----------------------------------------------------------------------------
(* OnTrade, which the feed calls with a price and its time.                 *)

Record(price, ts) == ticks' = Append(ticks, [price |-> price, ts |-> ts])

\* The first tick of all, and one in the period of the last.
OnTradeHere(price, ts) ==
  /\ fill.pc = "idle"
  /\ current[1] = NoBar \/ current[1].start = StartOf(1, ts)
  /\ UpdateAncestors(IF current[1] = NoBar THEN NewBar(1, ts, price, price)
                     ELSE AddTick(current[1], price), price, ts)
  /\ Record(price, ts)
  /\ UNCHANGED fill

\* Mistake: the current period is filled too.
MissingToo(next, ts) == next <= StartOf(1, ts) /\ StartOf(1, ts) - next <= MaxGap

\* The period that starts at next is filled with a flat bar.
Missing(next, ts) == next < StartOf(1, ts) /\ StartOf(1, ts) - next <= MaxGap

\* Another period: close the bar, and look for a gap to fill.
OnTradeLater(price, ts) ==
  LET next == current[1].start + Duration[1]
  IN  /\ fill.pc = "idle"
      /\ current[1] # NoBar /\ current[1].start # StartOf(1, ts)
      /\ CloseAndCascade(current[1])
      /\ fill' = [pc |-> IF Missing(next, ts) THEN "gap" ELSE "place",
                  price |-> price, ts |-> ts, open |-> current[1].close, next |-> next]
      /\ Record(price, ts)

FillGap ==
  LET next == fill.next + Duration[1]
  IN  /\ fill.pc = "gap"
      /\ CloseAndCascade(FlatBar(fill.next, fill.open))
      /\ fill' = [fill EXCEPT !.next = next,
                              !.pc = IF Missing(next, fill.ts) THEN "gap" ELSE "place"]
      /\ UNCHANGED ticks

PlaceBar ==
  /\ fill.pc = "place"
  /\ UpdateAncestors(NewBar(1, fill.ts, fill.open, fill.price), fill.price, fill.ts)
  /\ fill' = Idle
  /\ UNCHANGED ticks

OnTrade(price, ts) == OnTradeHere(price, ts) \/ OnTradeLater(price, ts)

KlineNext ==
  \/ \E price, ts \in Nat : OnTrade(price, ts)
  \/ FillGap
  \/ PlaceBar

KlineSpec == KlineInit /\ [][KlineNext]_klines

-----------------------------------------------------------------------------
\* All the bars of a level, newest first.
Chart(l) == IF current[l] = NoBar THEN <<>> ELSE <<current[l]>> \o cache[l]

\* "Continuous pricing": whatever comes, ticks out of order and gaps too, each
\* bar of each level opens where the one before it closed, and all levels have
\* closed at the last price.
Continuous ==
  fill.pc = "idle" =>
    \A l \in Levels :
      /\ \A n \in 1 .. Len(Chart(l)) - 1 : Chart(l)[n].open = Chart(l)[n + 1].close
      /\ current[l].close = current[1].close

\* What a bar is, said by ticks: those of its period, and the last one before.
InPeriod(l, start) == {n \in DOMAIN ticks : StartOf(l, ticks[n].ts) = start}
Before(start)      == {n \in DOMAIN ticks : ticks[n].ts < start}

LastPrice(which) == ticks[Max(which)].price

BarByTicks(l, start) ==
  LET in     == InPeriod(l, start)
      open   == IF Before(start) = {} THEN ticks[1].price ELSE LastPrice(Before(start))
      prices == {ticks[n].price : n \in in} \cup {open}
  IN  [start |-> start, open |-> open, high |-> Max(prices), low |-> Min(prices),
       close |-> IF in = {} THEN open ELSE LastPrice(in)]

InOrder == \A n \in 1 .. Len(ticks) - 1 : ticks[n].ts <= ticks[n + 1].ts

\* Ticks n and n + 1 are too far apart to be filled.
TooFar(n) ==
  StartOf(1, ticks[n + 1].ts) - StartOf(1, ticks[n].ts) - Duration[1] > MaxGap

\* As long as ticks come in order, the bars of every level, cached or saved,
\* are those of their ticks; none is there twice, and none is missing but for
\* a gap that is too long.
BarsMatchTicks ==
  fill.pc = "idle" /\ InOrder =>
    /\ \A l \in Levels :
         /\ \A n \in DOMAIN Chart(l) :
              Chart(l)[n] = BarByTicks(l, Chart(l)[n].start)
         /\ \A n \in 1 .. Len(Chart(l)) - 1 :
              \/ Chart(l)[n].start = Chart(l)[n + 1].start + Duration[l]
              \/ /\ Chart(l)[n].start > Chart(l)[n + 1].start
                 /\ \E k \in 1 .. Len(ticks) - 1 :
                      /\ TooFar(k)
                      /\ Chart(l)[n + 1].start <= ticks[k].ts
                      /\ ticks[k + 1].ts < Chart(l)[n].start + Duration[l]
    /\ \A key \in DOMAIN rows : rows[key] = BarByTicks(key[1], key[2])

=============================================================================
