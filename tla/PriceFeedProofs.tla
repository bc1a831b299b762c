-------------------------- MODULE PriceFeedProofs ---------------------------
(***************************************************************************)
(* What holds of the price feed for any levels and durations, prices and   *)
(* times, proved: its charts are continuous, and the mark price stays      *)
(* within what the futures price has deviated from the spot price.         *)
(*                                                                         *)
(* Both are proved of the component alone, KlineSpec and MarkSpec, and     *)
(* carried over to the feed, which implements them.                        *)
(***************************************************************************)
EXTENDS PriceFeed, SequenceTheorems, TLAPS

(* Division.                                                                *)

LEMMA DivBounds ==
  ASSUME NEW a \in Nat, NEW b \in Nat \ {0}
  PROVE  a \div b \in Nat /\ (a \div b) * b <= a /\ a < (a \div b) * b + b
OBVIOUS

LEMMA MultipleAhead ==
  ASSUME NEW x \in Nat, NEW y \in Nat, NEW b \in Nat \ {0}, x < y
  PROVE  x * b + b <= y * b
<1>1. (x + 1) * b <= y * b
  OBVIOUS
<1> QED
  BY <1>1

LEMMA DivUnique ==
  ASSUME NEW a \in Nat, NEW b \in Nat \ {0}, NEW q \in Nat, q * b <= a, a < q * b + b
  PROVE  a \div b = q
<1>1. ~(q < a \div b)
  BY DivBounds, MultipleAhead
<1>2. ~(a \div b < q)
  BY DivBounds, MultipleAhead
<1> QED
  BY <1>1, <1>2, DivBounds

\* Of two whole-numbered weights that add up to d, the rounded average stays
\* between the bounds of what is averaged.
LEMMA AverageBetween ==
  ASSUME NEW a \in Nat, NEW d \in Nat \ {0}, a <= d,
         NEW low \in Int, NEW high \in Int, NEW x \in low .. high, NEW y \in low .. high
  PROVE  (a * x + (d - a) * y) \div d \in low .. high
<1> DEFINE z == a * x + (d - a) * y
<1>1. a * low <= a * x /\ a * x <= a * high
  OBVIOUS
<1>2. (d - a) * low <= (d - a) * y /\ (d - a) * y <= (d - a) * high
  OBVIOUS
<1>3. d * low <= z /\ z <= d * high
  BY <1>1, <1>2
<1>4. z \in Int
  OBVIOUS
<1> HIDE DEF z
<1>5. z \div d \in low .. high
  BY <1>3, <1>4
<1> QED
  BY <1>5 DEF z

-----------------------------------------------------------------------------
(* Mark price.                                                              *)

LEMMA AtBasisGrows ==
  ASSUME NEW index \in Nat \ {0}, NEW b \in Int, NEW c \in Int, b <= c
  PROVE  AtBasis(index, b) <= AtBasis(index, c)
<1> DEFINE x == index * (Unit + b)
           y == index * (Unit + c)
<1>1. x \in Int /\ y \in Int /\ x <= y
  BY UnitAssumption
<1> HIDE DEF x, y
<1>2. x \div Unit <= y \div Unit
  BY <1>1, UnitAssumption
<1> QED
  BY <1>2 DEF AtBasis, x, y

Price == Nat \ {0}

\* The average never leaves the range of what has been averaged, zero, where it
\* starts, included.
MarkInv ==
  /\ prices \in [last : Nat, index : Nat, ema : Int, mark : Int, initialized : BOOLEAN]
  /\ bases \in [low : Int, high : Int]
  /\ bases.low <= 0 /\ 0 <= bases.high
  /\ bases.low <= prices.ema /\ prices.ema <= bases.high
  /\ prices.initialized =>
       /\ prices.last # 0 /\ prices.index # 0
       /\ prices.mark = AtBasis(prices.index, prices.ema)

LEMMA RecalculateKeepsInv ==
  ASSUME MarkInv, prices.initialized, NEW last \in Price, NEW index \in Price,
         Recalculate(last, index)
  PROVE  MarkInv'
<1> DEFINE basis == Basis(last, index)
           ema   == Average(basis, prices.ema)
           low   == IF basis < bases.low THEN basis ELSE bases.low
           high  == IF basis > bases.high THEN basis ELSE bases.high
<1>1. basis \in Int
  <2> DEFINE gap == (last - index) * Unit
  <2>1. gap \in Int
    BY UnitAssumption DEF Price
  <2> HIDE DEF gap
  <2>2. gap \div index \in Int
    BY <2>1 DEF Price
  <2> QED
    BY <2>2 DEF Basis, gap
<1>2. /\ prices' = [prices EXCEPT !.last = last, !.index = index, !.ema = ema,
                                  !.mark = AtBasis(index, ema)]
      /\ bases' = [low |-> low, high |-> high]
  BY DEF Recalculate, Price
<1> HIDE DEF basis
<1>3. low \in Int /\ high \in Int /\ low <= 0 /\ 0 <= high
      /\ basis \in low .. high /\ prices.ema \in low .. high
  BY <1>1 DEF MarkInv
<1> HIDE DEF low, high
<1>4. ema \in low .. high
  BY <1>3, AlphaAssumption, AverageBetween DEF Average
<1> HIDE DEF ema
<1>5. AtBasis(index, ema) \in Int
  <2> DEFINE x == index * (Unit + ema)
  <2>1. x \in Int
    BY <1>3, <1>4, UnitAssumption DEF Price
  <2> HIDE DEF x
  <2>2. x \div Unit \in Int
    BY <2>1, UnitAssumption
  <2> QED
    BY <2>2 DEF AtBasis, x
<1>6. bases'.low = low /\ bases'.high = high /\ bases' \in [low : Int, high : Int]
  BY <1>2, <1>3
<1>7. /\ prices'.last = last /\ prices'.index = index /\ prices'.ema = ema
      /\ prices'.mark = AtBasis(index, ema) /\ prices'.initialized
      /\ prices' \in [last : Nat, index : Nat, ema : Int, mark : Int,
                       initialized : BOOLEAN]
  <2> DEFINE mark == AtBasis(index, ema)
  <2>1. mark \in Int /\ ema \in Int
    BY <1>3, <1>4, <1>5
  <2>2. prices' = [prices EXCEPT !.last = last, !.index = index, !.ema = ema, !.mark = mark]
    BY <1>2
  <2> HIDE DEF mark
  <2>3. prices' = [last |-> last, index |-> index, ema |-> ema, mark |-> mark,
                   initialized |-> TRUE]
    BY <2>2 DEF MarkInv
  <2> QED
    BY <2>1, <2>3 DEF mark, Price
<1>8. prices'.mark = AtBasis(prices'.index, prices'.ema)
  BY <1>7
<1>9. bases'.low <= prices'.ema /\ prices'.ema <= bases'.high
  BY <1>3, <1>4, <1>6, <1>7
<1>10. prices'.last # 0 /\ prices'.index # 0
  BY <1>7 DEF Price
<1>11. bases'.low <= 0 /\ 0 <= bases'.high
  BY <1>3, <1>6
<1> QED
  BY <1>6, <1>7, <1>8, <1>9, <1>10, <1>11 DEF MarkInv

LEMMA InitializeKeepsInv ==
  ASSUME MarkInv, NEW price \in Price, Initialize(price)
  PROVE  MarkInv'
<1>1. AtBasis(price, 0) = price
  BY UnitAssumption DEF AtBasis, Price
<1> QED
  BY <1>1 DEF MarkInv, Initialize, Price

LEMMA MarkInductive == MarkInv /\ [MarkNext]_pricing => MarkInv'
<1> SUFFICES ASSUME MarkInv, [MarkNext]_pricing PROVE MarkInv'
  OBVIOUS
<1>1. ASSUME NEW price \in Price, UpdateLastPrice(price) PROVE MarkInv'
  BY <1>1, RecalculateKeepsInv, InitializeKeepsInv DEF UpdateLastPrice, MarkInv, Price
<1>2. ASSUME NEW price \in Price, UpdateIndexPrice(price) PROVE MarkInv'
  BY <1>2, RecalculateKeepsInv, InitializeKeepsInv DEF UpdateIndexPrice, MarkInv, Price
<1>3. CASE UNCHANGED pricing
  BY <1>3 DEF MarkInv, pricing, AtBasis
<1> QED
  BY <1>1, <1>2, <1>3 DEF MarkNext, Price

\* markprice/engine.go:181: whatever order futures and spot prices come in, the
\* average is of what was seen, and so is the deviation of the mark price.
THEOREM MarkBounded == MarkSpec => []MarkWithinSeen
<1>1. MarkInit => MarkInv
  BY DEF MarkInit, MarkInv
<1>2. MarkInv => MarkWithinSeen
  BY AtBasisGrows DEF MarkInv, MarkWithinSeen
<1> QED
  BY <1>1, <1>2, MarkInductive, PTL DEF MarkSpec

-----------------------------------------------------------------------------
(* Klines: periods.                                                         *)

Instant == Nat

LEMMA StartFits ==
  ASSUME NEW l \in Levels, NEW t \in Instant
  PROVE  StartOf(l, t) \in Nat
<1> DEFINE d == Duration[l]
<1>1. d \in Nat \ {0}
  BY NestedAssumption
<1> HIDE DEF d
<1>2. t \div d \in Nat
  BY <1>1 DEF Instant
<1>3. (t \div d) * d \in Nat
  BY <1>1, <1>2
<1> QED
  BY <1>3 DEF StartOf, d

\* Periods nest: the start of the period below lies in the same period above.
LEMMA PeriodsNest ==
  ASSUME NEW l \in Levels \ {1}, NEW t \in Instant
  PROVE  StartOf(l, StartOf(l - 1, t)) = StartOf(l, t)
<1> DEFINE d == Duration[l - 1]
           e == Duration[l]
           k == e \div d
           q == t \div d
           j == t \div e
<1>1. l - 1 \in Levels
  BY LevelAssumption DEF Levels
<1>2. d \in Nat \ {0} /\ e \in Nat \ {0} /\ e % d = 0
  BY <1>1, NestedAssumption
<1> HIDE DEF d, e
<1>3. k \in Nat /\ e = k * d
  BY <1>2
<1> HIDE DEF k
<1>4. q \in Nat /\ q * d <= t /\ t < q * d + d
  BY <1>2, DivBounds DEF Instant
<1>5. j \in Nat /\ j * e <= t /\ t < j * e + e
  BY <1>2, DivBounds DEF Instant
<1> HIDE DEF q, j
<1>6. j * e = (j * k) * d /\ j * k \in Nat
  BY <1>2, <1>3, <1>5
<1>7. ~(q < j * k)
  <2> SUFFICES ASSUME q < j * k PROVE FALSE
    OBVIOUS
  <2>1. q * d + d <= (j * k) * d
    BY <1>2, <1>4, <1>6, MultipleAhead
  <2> QED
    BY <2>1, <1>2, <1>4, <1>5, <1>6 DEF Instant
<1>8. j * e <= q * d
  <2>1. CASE q = j * k
    BY <2>1, <1>2, <1>4, <1>5, <1>6
  <2>2. CASE j * k < q
    <3>1. (j * k) * d + d <= q * d
      BY <2>2, <1>2, <1>4, <1>6, MultipleAhead
    <3> QED
      BY <3>1, <1>2, <1>4, <1>6
  <2> QED
    BY <2>1, <2>2, <1>4, <1>6, <1>7
<1>9. q * d \in Nat /\ q * d < j * e + e
  BY <1>2, <1>4, <1>5 DEF Instant
<1>10. (q * d) \div e = j
  BY <1>2, <1>5, <1>8, <1>9, DivUnique
<1> QED
  BY <1>10 DEF StartOf, d, e, q, j

-----------------------------------------------------------------------------
(* Klines: charts.                                                          *)

Bars == [start : Int, open : Nat, high : Nat, low : Nat, close : Nat]

Chained(bars) == \A n \in 1 .. Len(bars) - 1 : bars[n].open = bars[n + 1].close

\* The chart goes on, if there is one, with a bar that opens at price.
GoesOn(bars, price) == bars # <<>> => price = bars[1].close

LEMMA Prefix ==
  ASSUME NEW S, NEW s \in Seq(S), NEW n \in 1 .. Len(s)
  PROVE  /\ SubSeq(s, 1, n) \in Seq(S)
         /\ Len(SubSeq(s, 1, n)) = n
         /\ \A i \in 1 .. n : SubSeq(s, 1, n)[i] = s[i]
<1>1. \A i \in 1 .. n : s[i] \in S
  BY ElementOfSeq
<1> QED
  BY <1>1, SubSeqProperties, Z3

LEMMA ChainGrows ==
  ASSUME NEW bars \in Seq(Bars), NEW bar, NEW new \in Seq(Bars),
         Chained(bars), GoesOn(bars, bar.open),
         Len(new) \in 1 .. Len(bars) + 1, new[1] = bar,
         \A n \in 2 .. Len(new) : new[n] = bars[n - 1]
  PROVE  Chained(new)
<1> SUFFICES ASSUME NEW n \in 1 .. Len(new) - 1 PROVE new[n].open = new[n + 1].close
  BY DEF Chained
<1>1. n \in Int /\ n \in 1 .. Len(bars) /\ new[n + 1] = bars[n]
  OBVIOUS
<1>2. CASE n = 1
  <2>1. bars # <<>>
    BY <1>1, <1>2
  <2>2. bar.open = bars[1].close
    BY <2>1 DEF GoesOn
  <2> QED
    BY <1>1, <1>2, <2>2
<1>3. CASE n > 1
  <2>1. n - 1 \in 1 .. Len(bars) - 1 /\ (n - 1) + 1 = n /\ new[n] = bars[n - 1]
    BY <1>1, <1>3
  <2>2. bars[n - 1].open = bars[(n - 1) + 1].close
    BY <2>1 DEF Chained
  <2> QED
    BY <1>1, <2>1, <2>2
<1> QED
  BY <1>1, <1>2, <1>3

LEMMA PushFits ==
  ASSUME NEW bars \in Seq(Bars), NEW bar \in Bars, NEW max \in Nat \ {0},
         Chained(bars), GoesOn(bars, bar.open)
  PROVE  LET new == SubSeq(<<bar>> \o bars, 1, Lower(Len(bars) + 1, max))
         IN  new \in Seq(Bars) /\ new # <<>> /\ new[1] = bar /\ Chained(new)
<1> DEFINE all == <<bar>> \o bars
           len == Lower(Len(bars) + 1, max)
           new == SubSeq(all, 1, len)
<1>1. all \in Seq(Bars) /\ Len(all) = Len(bars) + 1
      /\ all[1] = bar /\ \A n \in 2 .. Len(bars) + 1 : all[n] = bars[n - 1]
  OBVIOUS
<1>2. len \in 1 .. Len(all)
  BY <1>1 DEF Lower
<1> HIDE DEF all, len
<1>3. new \in Seq(Bars) /\ Len(new) = len /\ \A n \in 1 .. len : new[n] = all[n]
  BY <1>1, <1>2, Prefix
<1> HIDE DEF new
<1>4. new # <<>> /\ new[1] = bar /\ Len(new) \in 1 .. Len(bars) + 1
      /\ \A n \in 2 .. Len(new) : new[n] = bars[n - 1]
  BY <1>1, <1>2, <1>3
<1>5. Chained(new)
  BY <1>3, <1>4, ChainGrows
<1> QED
  BY <1>3, <1>4, <1>5 DEF new, all, len

-----------------------------------------------------------------------------
(* Klines: the invariant.                                                   *)

Above == Levels \ {1}

KTypes ==
  /\ current \in [Levels -> Bars]
  /\ cache \in [Levels -> Seq(Bars)]
  /\ fill \in [pc : {"idle", "gap", "place"}, price : Nat, ts : Instant, open : Nat,
               next : Instant]
  /\ \A l \in Levels : Chained(cache[l])

Unused(l)  == current[l] = NoBar /\ cache[l] = <<>>
Started(l) == current[l].start \in Nat /\ GoesOn(cache[l], current[l].open)

\* The higher levels have got as far as the last bar closed, or the last tick.
Upper(last) == \A l \in Above : Started(l) /\ current[l].close = last

\* A bar that has been outlived by the one below is flat: nothing was traded since.
Aligned(bars, last) ==
  \A l \in Above : bars[l].start = StartOf(l, bars[l - 1].start) \/ bars[l - 1].open = last

AlignedAbove(last) ==
  \A l \in Above \ {2} :
    current[l].start = StartOf(l, current[l - 1].start) \/ current[l - 1].open = last

Resting ==
  /\ Started(1)
  /\ Upper(current[1].close)
  /\ Aligned(current, current[1].close)

Filling ==
  /\ current[1].start \in Nat
  /\ cache[1] # <<>> /\ cache[1][1].close = fill.open
  /\ Upper(fill.open)
  /\ AlignedAbove(fill.open)

KInv ==
  /\ KTypes
  /\ \/ fill.pc = "idle" /\ \A l \in Levels : Unused(l)
     \/ fill.pc = "idle" /\ Resting
     \/ fill.pc # "idle" /\ Filling

LEMMA CacheFits ==
  ASSUME KTypes, NEW closing, NEW bars,
         \A l \in closing \cap Levels : bars[l] \in Bars /\ GoesOn(cache[l], bars[l].open),
         CacheBars(closing, bars)
  PROVE  /\ cache' \in [Levels -> Seq(Bars)]
         /\ \A l \in Levels : Chained(cache'[l])
         /\ \A l \in Levels \cap closing : cache'[l] # <<>> /\ cache'[l][1] = bars[l]
         /\ \A l \in Levels \ closing : cache'[l] = cache[l]
<1>1. \A l \in Levels \ closing : cache'[l] = cache[l]
  BY DEF CacheBars
<1>2. ASSUME NEW l \in Levels \cap closing
      PROVE  /\ cache'[l] \in Seq(Bars) /\ Chained(cache'[l])
             /\ cache'[l] # <<>> /\ cache'[l][1] = bars[l]
  <2> DEFINE old == cache[l]
             bar == bars[l]
             max == MaxCache[l]
             new == cache'[l]
  <2>1. new = SubSeq(<<bar>> \o old, 1, Lower(Len(old) + 1, max))
    BY DEF CacheBars
  <2>2. old \in Seq(Bars) /\ Chained(old) /\ bar \in Bars
        /\ GoesOn(old, bar.open) /\ max \in Nat \ {0}
    BY CacheAssumption DEF KTypes
  <2> HIDE DEF old, bar, max, new
  <2>3. new \in Seq(Bars) /\ new # <<>> /\ new[1] = bar /\ Chained(new)
    BY <2>1, <2>2, PushFits
  <2> QED
    BY <2>3 DEF new, bar
<1>3. cache' = [l \in Levels |-> cache'[l]]
  BY DEF CacheBars
<1> QED
  BY <1>1, <1>2, <1>3 DEF KTypes

LEMMA BarOpsFit ==
  ASSUME NEW l \in Levels, NEW bar \in Bars, NEW child \in Bars, NEW ts \in Instant,
         NEW open \in Nat, NEW price \in Nat
  PROVE  /\ NewBar(l, ts, open, price) \in Bars
         /\ NewBar(l, ts, open, price).start = StartOf(l, ts)
         /\ NewBar(l, ts, open, price).open = open
         /\ NewBar(l, ts, open, price).close = price
         /\ AddTick(bar, price) \in Bars
         /\ AddTick(bar, price).start = bar.start
         /\ AddTick(bar, price).open = bar.open
         /\ AddTick(bar, price).close = price
         /\ Merge(bar, child) \in Bars
         /\ Merge(bar, child).start = bar.start
         /\ Merge(bar, child).open = bar.open
         /\ Merge(bar, child).close = child.close
         /\ child.start \in Nat =>
              /\ OpenAbove(l, child) \in Bars
              /\ OpenAbove(l, child).start \in Nat
              /\ OpenAbove(l, child).open = child.open
              /\ OpenAbove(l, child).close = child.close
<1>1. StartOf(l, ts) \in Nat
  BY StartFits
<1>2. child.start \in Nat => StartOf(l, child.start) \in Nat
  BY StartFits DEF Instant
<1>3. \A a, b \in Nat : Higher(a, b) \in Nat /\ Lower(a, b) \in Nat
  BY DEF Higher, Lower
<1>4. /\ NewBar(l, ts, open, price) \in Bars
      /\ NewBar(l, ts, open, price).start = StartOf(l, ts)
      /\ NewBar(l, ts, open, price).open = open
      /\ NewBar(l, ts, open, price).close = price
  <2> DEFINE start == StartOf(l, ts)
             high  == Higher(open, price)
             low   == Lower(open, price)
  <2>1. start \in Nat /\ high \in Nat /\ low \in Nat
    BY <1>1, <1>3
  <2>2. NewBar(l, ts, open, price)
          = [start |-> start, open |-> open, close |-> price, high |-> high, low |-> low]
    BY DEF NewBar
  <2> HIDE DEF start, high, low
  <2>3. /\ NewBar(l, ts, open, price) \in Bars
        /\ NewBar(l, ts, open, price).start = start
        /\ NewBar(l, ts, open, price).open = open
        /\ NewBar(l, ts, open, price).close = price
    BY <2>1, <2>2 DEF Bars
  <2> QED
    BY <2>3 DEF start
<1>5. /\ AddTick(bar, price) \in Bars
      /\ AddTick(bar, price).start = bar.start
      /\ AddTick(bar, price).open = bar.open
      /\ AddTick(bar, price).close = price
  BY <1>3 DEF AddTick, Bars
<1>6. /\ Merge(bar, child) \in Bars
      /\ Merge(bar, child).start = bar.start
      /\ Merge(bar, child).open = bar.open
      /\ Merge(bar, child).close = child.close
  BY <1>3 DEF Merge, Bars
<1>7. child.start \in Nat =>
        /\ OpenAbove(l, child) \in Bars
        /\ OpenAbove(l, child).start \in Nat
        /\ OpenAbove(l, child).open = child.open
        /\ OpenAbove(l, child).close = child.close
  BY <1>2 DEF OpenAbove, Bars
<1> QED
  BY <1>4, <1>5, <1>6, <1>7

\* A bar of the lowest level closes, and what is above it with it.
LEMMA CascadeFits ==
  ASSUME KTypes, NEW bar \in Bars, bar.start \in Nat, GoesOn(cache[1], bar.open),
         Upper(bar.close), Aligned(WithBase(bar), bar.close), CloseAndCascade(bar)
  PROVE  /\ current' \in [Levels -> Bars]
         /\ cache' \in [Levels -> Seq(Bars)]
         /\ \A l \in Levels : Chained(cache'[l])
         /\ current'[1] = current[1]
         /\ cache'[1] # <<>> /\ cache'[1][1] = bar
         /\ Upper(bar.close)'
         /\ AlignedAbove(bar.close)'
<1> DEFINE bars    == WithBase(bar)
           closing == Closing(bars)
           last    == bar.close
<1>1. 1 \in Levels /\ \A l \in Above : l - 1 \in Levels /\ l \in Levels
  BY LevelAssumption DEF Levels, Above
<1>2. bars \in [Levels -> Bars] /\ bars[1] = bar /\ \A l \in Above : bars[l] = current[l]
  BY <1>1 DEF WithBase, KTypes, Above
<1>3. \A l \in Levels : bars[l].start \in Nat /\ bars[l].close = last
  BY <1>2 DEF Upper, Started, Above
<1>4. \A l \in Levels : GoesOn(cache[l], bars[l].open)
  BY <1>2 DEF Upper, Started, Above
<1>5. 1 \in closing /\ closing \subseteq Levels
  BY <1>1 DEF Closing
<1>6. \A l \in Above \cap closing : l - 1 \in closing /\ bars[l - 1].open = last
  <2> SUFFICES ASSUME NEW l \in Above \cap closing
               PROVE  l - 1 \in closing /\ bars[l - 1].open = last
    OBVIOUS
  <2>1. l \in Levels /\ l # 1 /\ l \in Nat /\ l - 1 \in Levels
    BY <1>1 DEF Above, Levels
  <2>2. \A m \in 2 .. l : Outlived(bars, m)
    BY DEF Closing
  <2>3. l - 1 \in closing
    BY <2>1, <2>2 DEF Closing
  <2>4. Outlived(bars, l)
    BY <2>1, <2>2 DEF Levels
  <2>5. bars[l - 1].open = last
    BY <2>1, <2>4 DEF Outlived, Aligned, Above
  <2> QED
    BY <2>3, <2>5
<1>7. CacheBars(closing, bars)
  BY DEF CloseAndCascade
<1>8. /\ cache' \in [Levels -> Seq(Bars)]
      /\ \A l \in Levels : Chained(cache'[l])
      /\ \A l \in Levels \cap closing : cache'[l] # <<>> /\ cache'[l][1] = bars[l]
      /\ \A l \in Levels \ closing : cache'[l] = cache[l]
  <2> HIDE DEF bars, closing
  <2> QED
    BY <1>2, <1>4, <1>7, CacheFits
<1>9. current' = [l \in Levels |->
           IF l = 1 \/ l - 1 \notin closing THEN current[l]
           ELSE IF l \in closing \/ bars[l] = NoBar THEN OpenAbove(l, bars[l - 1])
           ELSE Merge(bars[l], bars[l - 1])]
  BY DEF CloseAndCascade
<1> HIDE DEF bars, closing, last
<1>10. \A l \in Levels : bars[l] # NoBar
  BY <1>3 DEF NoBar
<1>11. ASSUME NEW l \in Above, l - 1 \notin closing
       PROVE  current'[l] = bars[l] /\ l \notin closing
  BY <1>1, <1>2, <1>6, <1>9, <1>11
<1>12. ASSUME NEW l \in Above, l \in closing
       PROVE  /\ current'[l] \in Bars
              /\ current'[l].start \in Nat
              /\ current'[l].open = last /\ current'[l].close = last
  <2>1. l \in Levels /\ l - 1 \in Levels /\ l # 1 /\ l - 1 \in closing
        /\ bars[l - 1].open = last
    BY <1>1, <1>6, <1>12 DEF Above
  <2>2. current'[l] = OpenAbove(l, bars[l - 1])
    BY <1>9, <1>12, <2>1
  <2>3. bars[l - 1] \in Bars /\ bars[l - 1].start \in Nat /\ bars[l - 1].close = last
    BY <1>2, <1>3, <2>1
  <2>4. /\ OpenAbove(l, bars[l - 1]) \in Bars
        /\ OpenAbove(l, bars[l - 1]).start \in Nat
        /\ OpenAbove(l, bars[l - 1]).open = bars[l - 1].open
        /\ OpenAbove(l, bars[l - 1]).close = bars[l - 1].close
    BY <2>1, <2>3, BarOpsFit DEF Instant
  <2> QED
    BY <2>1, <2>2, <2>3, <2>4
<1>13. ASSUME NEW l \in Above, l \notin closing
       PROVE  /\ current'[l] \in Bars
              /\ current'[l].start = bars[l].start
              /\ current'[l].open = bars[l].open /\ current'[l].close = last
  <2>1. CASE l - 1 \notin closing
    BY <1>1, <1>2, <1>3, <1>11, <2>1
  <2>2. CASE l - 1 \in closing
    <3>1. l \in Levels /\ l - 1 \in Levels /\ l # 1
      BY <1>1 DEF Above
    <3>2. current'[l] = Merge(bars[l], bars[l - 1])
      BY <1>9, <1>10, <1>13, <2>2, <3>1
    <3>3. bars[l] \in Bars /\ bars[l - 1] \in Bars /\ bars[l - 1].close = last
      BY <1>2, <1>3, <3>1
    <3>4. /\ Merge(bars[l], bars[l - 1]) \in Bars
          /\ Merge(bars[l], bars[l - 1]).start = bars[l].start
          /\ Merge(bars[l], bars[l - 1]).open = bars[l].open
          /\ Merge(bars[l], bars[l - 1]).close = bars[l - 1].close
      BY <3>1, <3>3, BarOpsFit DEF Instant
    <3> QED
      BY <3>2, <3>3, <3>4
  <2> QED
    BY <2>1, <2>2
<1>14. current'[1] = current[1] /\ current' \in [Levels -> Bars]
  <2>1. current'[1] = current[1]
    BY <1>1, <1>9
  <2>2. \A l \in Levels : current'[l] \in Bars
    BY <1>1, <1>12, <1>13, <2>1 DEF KTypes, Above
  <2> QED
    BY <1>9, <2>1, <2>2
<1>15. Upper(last)'
  <2> SUFFICES ASSUME NEW l \in Above
               PROVE  /\ current'[l].start \in Nat /\ current'[l].close = last
                      /\ GoesOn(cache'[l], current'[l].open)
    BY DEF Upper, Started, last
  <2>1. CASE l \in closing
    <3>1. cache'[l][1] = bars[l] /\ bars[l].close = last
      BY <1>1, <1>3, <1>8, <2>1
    <3> QED
      BY <1>12, <2>1, <3>1 DEF GoesOn
  <2>2. CASE l \notin closing
    <3>1. cache'[l] = cache[l] /\ GoesOn(cache[l], bars[l].open) /\ bars[l].start \in Nat
      BY <1>1, <1>3, <1>4, <1>8, <2>2
    <3> QED
      BY <1>13, <2>2, <3>1
  <2> QED
    BY <2>1, <2>2
<1>16. AlignedAbove(last)'
  <2> SUFFICES ASSUME NEW l \in Above \ {2}
               PROVE  \/ current'[l].start = StartOf(l, current'[l - 1].start)
                      \/ current'[l - 1].open = last
    BY DEF AlignedAbove, StartOf, last
  <2>1. l \in Above /\ l - 1 \in Above
    BY LevelAssumption DEF Above, Levels
  <2>2. CASE l - 1 \in closing
    BY <1>12, <2>1, <2>2
  <2>3. CASE l - 1 \notin closing
    <3>1. current'[l] = bars[l]
      BY <1>11, <2>1, <2>3
    <3>2. current'[l - 1].start = bars[l - 1].start /\ current'[l - 1].open = bars[l - 1].open
      BY <1>13, <2>1, <2>3
    <3>3. bars[l].start = StartOf(l, bars[l - 1].start) \/ bars[l - 1].open = last
      BY <2>1 DEF Aligned, bars, last
    <3> QED
      BY <3>1, <3>2, <3>3
  <2> QED
    BY <2>2, <2>3
<1>17. cache'[1] # <<>> /\ cache'[1][1] = bar
  BY <1>1, <1>2, <1>5, <1>8
<1> QED
  BY <1>8, <1>14, <1>15, <1>16, <1>17 DEF last

LEMMA NewBarFits ==
  ASSUME NEW l \in Levels, NEW ts \in Instant, NEW open \in Nat, NEW price \in Nat
  PROVE  /\ NewBar(l, ts, open, price) \in Bars
         /\ NewBar(l, ts, open, price).start = StartOf(l, ts)
         /\ NewBar(l, ts, open, price).open = open
         /\ NewBar(l, ts, open, price).close = price
<1>1. NoBar \in Bars
  BY DEF NoBar, Bars, Instant
<1> QED
  BY <1>1, BarOpsFit

LEMMA AddTickFits ==
  ASSUME NEW bar \in Bars, NEW price \in Nat
  PROVE  /\ AddTick(bar, price) \in Bars
         /\ AddTick(bar, price).start = bar.start
         /\ AddTick(bar, price).open = bar.open
         /\ AddTick(bar, price).close = price
<1>1. 1 \in Levels /\ 0 \in Instant
  BY LevelAssumption DEF Levels, Instant
<1> QED
  BY <1>1, BarOpsFit

\* The tick reaches all levels, the lowest by a bar of its own.
LEMMA AncestorsFit ==
  ASSUME KTypes, NEW base \in Bars, NEW price \in Nat, NEW ts \in Instant,
         base.start = StartOf(1, ts), base.close = price,
         \A l \in Above : Unused(l) \/ Started(l),
         UpdateAncestors(base, price, ts)
  PROVE  /\ current' \in [Levels -> Bars]
         /\ cache' \in [Levels -> Seq(Bars)]
         /\ \A l \in Levels : Chained(cache'[l])
         /\ current'[1] = base /\ cache'[1] = cache[1]
         /\ Upper(price)' /\ Aligned(current, price)'
<1> DEFINE closing == {l \in Levels \ {1} : current[l] # NoBar
                                            /\ current[l].start # StartOf(l, ts)}
<1>1. 1 \in Levels /\ \A l \in Above : l \in Levels /\ l # 1 /\ l - 1 \in Levels
  BY LevelAssumption DEF Levels, Above
<1>2. \A l \in closing \cap Levels : current[l] \in Bars /\ GoesOn(cache[l], current[l].open)
  BY DEF KTypes, Unused, Started, Above
<1>3. CacheBars(closing, current)
  BY DEF UpdateAncestors
<1>4. /\ cache' \in [Levels -> Seq(Bars)]
      /\ \A l \in Levels : Chained(cache'[l])
      /\ \A l \in Levels \cap closing : cache'[l] # <<>> /\ cache'[l][1] = current[l]
      /\ \A l \in Levels \ closing : cache'[l] = cache[l]
  <2> HIDE DEF closing
  <2> QED
    BY <1>2, <1>3, CacheFits
<1>5. current' = [l \in Levels |-> IF l = 1 THEN base ELSE Follow(l, price, ts)]
  BY DEF UpdateAncestors
<1>6. ASSUME NEW l \in Above
      PROVE  /\ current'[l] \in Bars /\ current'[l].start = StartOf(l, ts)
             /\ current'[l].close = price /\ GoesOn(cache'[l], current'[l].open)
  <2>1. l \in Levels /\ l # 1 /\ current[l] \in Bars /\ current'[l] = Follow(l, price, ts)
    BY <1>1, <1>5 DEF KTypes
  <2>2. CASE current[l] = NoBar
    <3>1. current'[l] = NewBar(l, ts, price, price)
      BY <2>1, <2>2 DEF Follow
    <3>2. cache'[l] = <<>>
      BY <1>4, <2>1, <2>2 DEF Unused, Started, NoBar
    <3>3. /\ NewBar(l, ts, price, price) \in Bars
          /\ NewBar(l, ts, price, price).start = StartOf(l, ts)
          /\ NewBar(l, ts, price, price).close = price
      BY <2>1, NewBarFits
    <3> QED
      BY <3>1, <3>2, <3>3 DEF GoesOn
  <2>3. CASE current[l] # NoBar /\ current[l].start # StartOf(l, ts)
    <3>1. current'[l] = NewBar(l, ts, current[l].close, price)
      BY <2>1, <2>3 DEF Follow
    <3>2. cache'[l][1] = current[l]
      BY <1>4, <2>1, <2>3
    <3>3. current[l].close \in Nat
      BY <2>1 DEF Bars
    <3>4. /\ NewBar(l, ts, current[l].close, price) \in Bars
          /\ NewBar(l, ts, current[l].close, price).start = StartOf(l, ts)
          /\ NewBar(l, ts, current[l].close, price).open = current[l].close
          /\ NewBar(l, ts, current[l].close, price).close = price
      BY <2>1, <3>3, NewBarFits
    <3> QED
      BY <3>1, <3>2, <3>4 DEF GoesOn
  <2>4. CASE current[l] # NoBar /\ current[l].start = StartOf(l, ts)
    <3>1. current'[l] = AddTick(current[l], price)
      BY <2>1, <2>4 DEF Follow
    <3>2. cache'[l] = cache[l] /\ GoesOn(cache[l], current[l].open)
      BY <1>4, <2>1, <2>4 DEF Unused, Started
    <3>3. /\ AddTick(current[l], price) \in Bars
          /\ AddTick(current[l], price).start = current[l].start
          /\ AddTick(current[l], price).open = current[l].open
          /\ AddTick(current[l], price).close = price
      BY <2>1, AddTickFits
    <3> QED
      BY <2>4, <3>1, <3>2, <3>3
  <2> QED
    BY <2>2, <2>3, <2>4
<1>7. current'[1] = base /\ cache'[1] = cache[1]
  BY <1>1, <1>4, <1>5
<1>8. current' \in [Levels -> Bars]
  <2>1. \A l \in Levels : current'[l] \in Bars
    BY <1>6, <1>7 DEF Above
  <2> QED
    BY <1>5, <2>1
<1>9. \A l \in Levels : current'[l].start = StartOf(l, ts) /\ StartOf(l, ts) \in Nat
  BY <1>6, <1>7, StartFits DEF Above
<1>10. Upper(price)'
  BY <1>1, <1>6, <1>9 DEF Upper, Started
<1>11. Aligned(current, price)'
  <2> SUFFICES ASSUME NEW l \in Above
               PROVE  current'[l].start = StartOf(l, current'[l - 1].start)
    BY DEF Aligned, StartOf
  <2>1. current'[l - 1].start = StartOf(l - 1, ts) /\ current'[l].start = StartOf(l, ts)
    BY <1>1, <1>9
  <2> QED
    BY <2>1, PeriodsNest DEF Above
<1> QED
  BY <1>4, <1>7, <1>8, <1>10, <1>11

-----------------------------------------------------------------------------
(* Klines: steps.                                                           *)

LEMMA HereKeepsInv ==
  ASSUME KInv, NEW price \in Nat, NEW ts \in Instant, OnTradeHere(price, ts)
  PROVE  KInv'
<1> DEFINE base == IF current[1] = NoBar THEN NewBar(1, ts, price, price)
                   ELSE AddTick(current[1], price)
<1>1. 1 \in Levels /\ fill.pc = "idle" /\ fill' = fill /\ KTypes
  BY LevelAssumption DEF OnTradeHere, Levels, KInv
<1>2. current[1] \in Bars
  BY <1>1 DEF KTypes
<1>3. (\A l \in Levels : Unused(l)) \/ Resting
  BY <1>1 DEF KInv
<1>4. /\ base \in Bars /\ base.start = StartOf(1, ts) /\ base.close = price
      /\ GoesOn(cache[1], base.open)
  <2>1. CASE current[1] = NoBar
    <3>1. cache[1] = <<>>
      BY <1>1, <1>3, <2>1 DEF Unused, Resting, Started, NoBar
    <3>2. base \in Bars /\ base.start = StartOf(1, ts) /\ base.close = price
      BY <1>1, <2>1, NewBarFits
    <3> QED
      BY <3>1, <3>2 DEF GoesOn
  <2>2. CASE current[1] # NoBar
    <3>1. current[1].start = StartOf(1, ts) /\ Started(1)
      BY <1>1, <1>3, <2>2 DEF OnTradeHere, Unused, Resting
    <3> QED
      BY <1>2, <2>2, <3>1, AddTickFits DEF Started
  <2> QED
    BY <2>1, <2>2
<1>5. \A l \in Above : Unused(l) \/ Started(l)
  BY <1>3 DEF Resting, Upper, Above
<1>6. UpdateAncestors(base, price, ts)
  BY DEF OnTradeHere
<1> HIDE DEF base
<1>7. /\ current' \in [Levels -> Bars]
      /\ cache' \in [Levels -> Seq(Bars)]
      /\ \A l \in Levels : Chained(cache'[l])
      /\ current'[1] = base /\ cache'[1] = cache[1]
      /\ Upper(price)' /\ Aligned(current, price)'
  BY <1>1, <1>4, <1>5, <1>6, AncestorsFit
<1>8. KTypes'
  BY <1>1, <1>7 DEF KTypes
<1>9. Started(1)'
  BY <1>1, <1>4, <1>7, StartFits DEF Started
<1>10. Resting'
  BY <1>4, <1>7, <1>9 DEF Resting, Upper, Aligned
<1> QED
  BY <1>1, <1>8, <1>10 DEF KInv

LEMMA LaterKeepsInv ==
  ASSUME KInv, NEW price \in Nat, NEW ts \in Instant, OnTradeLater(price, ts)
  PROVE  KInv'
<1> PICK bar : bar = current[1]
  OBVIOUS
<1> DEFINE next == bar.start + Duration[1]
<1>1. 1 \in Levels /\ fill.pc = "idle" /\ KTypes /\ bar # NoBar
  BY LevelAssumption DEF OnTradeLater, Levels, KInv
<1>2. Resting
  BY <1>1 DEF KInv, Unused
<1>3. bar \in Bars /\ bar.start \in Nat /\ GoesOn(cache[1], bar.open)
      /\ bar.open \in Nat /\ bar.close \in Nat /\ Upper(bar.close)
  BY <1>1, <1>2 DEF KTypes, Resting, Started, Bars
<1>4. WithBase(bar) = current
  BY <1>1 DEF WithBase, KTypes
<1>5. Aligned(WithBase(bar), bar.close)
  BY <1>2, <1>4 DEF Resting
<1>6. CloseAndCascade(bar)
  BY DEF OnTradeLater
<1>7. /\ current' \in [Levels -> Bars]
      /\ cache' \in [Levels -> Seq(Bars)]
      /\ \A l \in Levels : Chained(cache'[l])
      /\ current'[1] = current[1]
      /\ cache'[1] # <<>> /\ cache'[1][1] = bar
      /\ Upper(bar.close)'
      /\ AlignedAbove(bar.close)'
  BY <1>1, <1>3, <1>5, <1>6, CascadeFits
<1>8. next \in Instant
  BY <1>1, <1>3, NestedAssumption DEF Instant
<1>9. /\ fill'.pc \in {"gap", "place"} /\ fill'.open = bar.close
      /\ fill' \in [pc : {"idle", "gap", "place"}, price : Nat, ts : Instant, open : Nat,
                    next : Instant]
  <2> DEFINE pc == IF Missing(next, ts) THEN "gap" ELSE "place"
  <2>1. fill' = [pc |-> pc, price |-> price, ts |-> ts, open |-> bar.close, next |-> next]
    BY DEF OnTradeLater
  <2>2. pc \in {"gap", "place"}
    OBVIOUS
  <2> HIDE DEF pc, next
  <2> QED
    BY <1>3, <1>8, <2>1, <2>2
<1>10. KTypes'
  BY <1>7, <1>9 DEF KTypes
<1>11. Filling'
  BY <1>3, <1>7, <1>9 DEF Filling, Upper, AlignedAbove
<1> QED
  BY <1>9, <1>10, <1>11 DEF KInv

LEMMA FillGapKeepsInv ==
  ASSUME KInv, FillGap
  PROVE  KInv'
<1> PICK bar : bar = FlatBar(fill.next, fill.open)
  OBVIOUS
<1> DEFINE next == fill.next + Duration[1]
<1>1. 1 \in Levels /\ fill.pc = "gap" /\ KTypes /\ Filling
  BY LevelAssumption DEF FillGap, Levels, KInv
<1>2. bar \in Bars /\ bar.start \in Nat /\ bar.open = fill.open /\ bar.close = fill.open
  BY <1>1 DEF FlatBar, Bars, KTypes, Instant
<1>3. GoesOn(cache[1], bar.open) /\ Upper(bar.close)
  BY <1>1, <1>2 DEF Filling, GoesOn
<1>4. CloseAndCascade(bar)
  BY DEF FillGap
<1>5. Aligned(WithBase(bar), bar.close)
  <2> SUFFICES ASSUME NEW l \in Above
               PROVE  \/ WithBase(bar)[l].start = StartOf(l, WithBase(bar)[l - 1].start)
                      \/ WithBase(bar)[l - 1].open = bar.close
    BY DEF Aligned
  <2>1. l \in Levels /\ l - 1 \in Levels /\ l # 1
    BY LevelAssumption DEF Above, Levels
  <2>2. CASE l = 2
    BY <1>1, <1>2, <2>1, <2>2 DEF WithBase, KTypes
  <2>3. CASE l # 2
    <3>1. l - 1 # 1
      BY <2>1, <2>3, LevelAssumption DEF Levels
    <3>2. WithBase(bar)[l] = current[l] /\ WithBase(bar)[l - 1] = current[l - 1]
      BY <1>1, <2>1, <3>1 DEF WithBase, KTypes
    <3> QED
      BY <1>1, <1>2, <2>3, <3>2 DEF Filling, AlignedAbove
  <2> QED
    BY <2>2, <2>3
<1>6. /\ current' \in [Levels -> Bars]
      /\ cache' \in [Levels -> Seq(Bars)]
      /\ \A l \in Levels : Chained(cache'[l])
      /\ current'[1] = current[1]
      /\ cache'[1] # <<>> /\ cache'[1][1] = bar
      /\ Upper(bar.close)'
      /\ AlignedAbove(bar.close)'
  BY <1>1, <1>2, <1>3, <1>4, <1>5, CascadeFits
<1>7. next \in Instant
  BY <1>1, NestedAssumption DEF Instant, KTypes
<1>8. /\ fill'.pc \in {"gap", "place"} /\ fill'.open = fill.open
      /\ fill' \in [pc : {"idle", "gap", "place"}, price : Nat, ts : Instant, open : Nat,
                    next : Instant]
  <2> DEFINE pc == IF Missing(next, fill.ts) THEN "gap" ELSE "place"
  <2>1. fill' = [fill EXCEPT !.next = next, !.pc = pc]
    BY DEF FillGap
  <2>2. pc \in {"gap", "place"}
    OBVIOUS
  <2> HIDE DEF pc, next
  <2> QED
    BY <1>1, <1>7, <2>1, <2>2 DEF KTypes
<1>9. KTypes'
  BY <1>6, <1>8 DEF KTypes
<1>10. Filling'
  BY <1>1, <1>2, <1>6, <1>8 DEF Filling, Upper, AlignedAbove
<1> QED
  BY <1>8, <1>9, <1>10 DEF KInv

LEMMA PlaceKeepsInv ==
  ASSUME KInv, PlaceBar
  PROVE  KInv'
<1> PICK base, price, ts : /\ base = NewBar(1, fill.ts, fill.open, fill.price)
                           /\ price = fill.price /\ ts = fill.ts
  OBVIOUS
<1>1. 1 \in Levels /\ fill.pc = "place" /\ KTypes /\ Filling /\ fill' = Idle
  BY LevelAssumption DEF PlaceBar, Levels, KInv
<1>2. fill.ts \in Instant /\ fill.open \in Nat /\ fill.price \in Nat /\ current[1] \in Bars
  BY <1>1 DEF KTypes
<1>3. /\ base \in Bars /\ base.start = StartOf(1, fill.ts)
      /\ base.open = fill.open /\ base.close = fill.price
  BY <1>1, <1>2, NewBarFits
<1>4. UpdateAncestors(base, price, ts)
  BY DEF PlaceBar
<1>5. \A l \in Above : Unused(l) \/ Started(l)
  BY <1>1 DEF Filling, Upper
<1>6. /\ current' \in [Levels -> Bars]
      /\ cache' \in [Levels -> Seq(Bars)]
      /\ \A l \in Levels : Chained(cache'[l])
      /\ current'[1] = base /\ cache'[1] = cache[1]
      /\ Upper(price)' /\ Aligned(current, price)'
  BY <1>1, <1>2, <1>3, <1>4, <1>5, AncestorsFit
<1>7. Started(1)'
  BY <1>1, <1>2, <1>3, <1>6, StartFits DEF Started, GoesOn, Filling
<1>8. KTypes'
  BY <1>1, <1>6 DEF KTypes, Idle, Instant
<1>9. Resting'
  BY <1>3, <1>6, <1>7 DEF Resting, Upper, Aligned
<1> QED
  BY <1>1, <1>8, <1>9 DEF KInv, Idle

LEMMA KInductive == KInv /\ [KlineNext]_klines => KInv'
<1> SUFFICES ASSUME KInv, [KlineNext]_klines PROVE KInv'
  OBVIOUS
<1>1. ASSUME NEW price \in Nat, NEW ts \in Nat, OnTrade(price, ts) PROVE KInv'
  BY <1>1, HereKeepsInv, LaterKeepsInv DEF OnTrade, Instant
<1>2. CASE FillGap
  BY <1>2, FillGapKeepsInv
<1>3. CASE PlaceBar
  BY <1>3, PlaceKeepsInv
<1>4. CASE UNCHANGED klines
  BY <1>4 DEF KInv, KTypes, Unused, Started, Upper, Aligned, AlignedAbove, Resting, Filling,
              StartOf, klines
<1> QED
  BY <1>1, <1>2, <1>3, <1>4 DEF KlineNext

LEMMA KlinesStart == KlineInit => KInv
<1> SUFFICES ASSUME KlineInit PROVE KInv
  OBVIOUS
<1>1. NoBar \in Bars
  BY DEF NoBar, Bars
<1>2. current = [l \in Levels |-> NoBar] /\ cache = [l \in Levels |-> <<>>] /\ fill = Idle
  BY DEF KlineInit
<1>3. \A l \in Levels : cache[l] = <<>> /\ cache[l] \in Seq(Bars) /\ Len(cache[l]) = 0
  BY <1>2
<1>4. KTypes
  BY <1>1, <1>2, <1>3 DEF KTypes, Idle, Instant, Chained
<1> QED
  BY <1>2, <1>4 DEF KInv, Unused, Idle

LEMMA ChartsAreChained == KInv => Continuous
<1> SUFFICES ASSUME KInv, fill.pc = "idle", NEW l \in Levels
             PROVE  /\ Chained(Chart(l))
                    /\ current[l].close = current[1].close
  BY DEF Continuous, Chained
<1>1. 1 \in Levels /\ KTypes
  BY LevelAssumption DEF Levels, KInv
<1>2. CASE \A k \in Levels : Unused(k)
  <2>1. current[l] = NoBar /\ current[1] = NoBar
    BY <1>1, <1>2 DEF Unused
  <2>2. Len(Chart(l)) = 0
    BY <2>1 DEF Chart
  <2> QED
    BY <2>1, <2>2 DEF Chained
<1>3. CASE Resting
  <2>1. Started(l) /\ current[l].close = current[1].close
    BY <1>3 DEF Resting, Upper, Above
  <2> DEFINE bar  == current[l]
             bars == cache[l]
             all  == <<bar>> \o bars
  <2>2. /\ bar \in Bars /\ bars \in Seq(Bars) /\ Chained(bars) /\ GoesOn(bars, bar.open)
        /\ Chart(l) = all
    BY <1>1, <2>1 DEF KTypes, Started, Chart, NoBar
  <2> HIDE DEF bar, bars
  <2>3. /\ all \in Seq(Bars) /\ Len(all) = Len(bars) + 1 /\ all[1] = bar
        /\ \A n \in 2 .. Len(all) : all[n] = bars[n - 1]
    BY <2>2
  <2> HIDE DEF all
  <2>4. Len(bars) \in Nat /\ (bars # <<>> <=> Len(bars) # 0)
    BY <2>2
  <2>5. Chained(all)
    BY <2>2, <2>3, <2>4, ChainGrows
  <2> QED
    BY <2>1, <2>2, <2>5
<1> QED
  BY <1>2, <1>3 DEF KInv

\* kline_aggregator.go:82: whatever ticks come, late ones and gaps too, the bars of
\* each level open where the one before closed, and all levels close at one price.
THEOREM ChartsContinue == KlineSpec => []Continuous
<1> QED
  BY KlinesStart, KInductive, ChartsAreChained, PTL DEF KlineSpec

-----------------------------------------------------------------------------
(* The feed.                                                                *)

Places == {"connect", "dial", "dialled", "subscribe", "listen", "read", "wait", "message",
           "mark", "klines", "bars", "ended"}

Feeds == [pc : Places, trades : Int]

Trades == [price : Nat, ts : Nat]

FInv ==
  /\ feed \in Feeds
  /\ ticker.price \in Nat
  /\ feed.pc = "mark" => ticker.price # 0
  /\ ticks \in Seq(Trades)

LEMMA FeedStarts == Init => FInv /\ KlineInit /\ MarkInit
<1> SUFFICES ASSUME Init PROVE FInv /\ KlineInit /\ MarkInit
  OBVIOUS
<1>1. feed \in Feeds /\ feed.pc = "connect"
  BY DEF Init, Feeds, Places
<1>2. ticks \in Seq(Trades)
  BY DEF Init, KlineInit
<1>3. ticker.price \in Nat /\ KlineInit /\ MarkInit
  BY DEF Init
<1> QED
  BY <1>1, <1>2, <1>3 DEF FInv

LEMMA FeedMoves ==
  ASSUME FInv, NEW pc \in Places \ {"mark"}, Goto(pc), UNCHANGED <<ticker, ticks>>
  PROVE  FInv'
<1>1. feed' \in Feeds /\ feed'.pc = pc
  BY DEF Goto, FInv, Feeds
<1> QED
  BY <1>1 DEF FInv

LEMMA FeedCounts ==
  ASSUME feed \in Feeds, NEW pc \in Places, NEW n \in Int,
         feed' = [feed EXCEPT !.pc = pc, !.trades = n]
  PROVE  feed' \in Feeds /\ feed'.pc = pc
BY DEF Feeds

LEMMA TimesFit ==
  ASSUME FInv, NEW ts \in Times
  PROVE  ts \in Nat
<1>1. CASE ticks = <<>>
  BY <1>1, TimeAssumption DEF Times
<1>2. CASE ticks # <<>>
  <2>1. ticks[Len(ticks)] \in Trades
    BY <1>2 DEF FInv
  <2>2. ticks[Len(ticks)].ts \in Nat
    BY <2>1 DEF Trades
  <2> QED
    BY <1>2, <2>2, TimeAssumption DEF Times
<1> QED
  BY <1>1, <1>2

LEMMA TradesAreFit ==
  ASSUME FInv, TellKlines
  PROVE  FInv' /\ KlineNext
<1>1. PICK ts \in Times : OnTrade(ticker.price, ts)
  BY DEF TellKlines
<1>2. ts \in Nat
  BY <1>1, TimesFit
<1>3. ticks' = Append(ticks, [price |-> ticker.price, ts |-> ts])
  BY <1>1 DEF OnTrade, OnTradeHere, OnTradeLater, Record
<1>4. ticks' \in Seq(Trades)
  <2>1. [price |-> ticker.price, ts |-> ts] \in Trades
    BY <1>2 DEF FInv, Trades
  <2> QED
    BY <1>3, <2>1 DEF FInv
<1>5. feed' \in Feeds /\ feed'.pc = "bars" /\ ticker' = ticker
  BY DEF TellKlines, Goto, FInv, Feeds, Places
<1>6. FInv'
  BY <1>4, <1>5 DEF FInv
<1> QED
  BY <1>1, <1>2, <1>6 DEF KlineNext, FInv

LEMMA FeedImplements ==
  FInv /\ [Next]_vars => FInv' /\ [KlineNext]_klines /\ [MarkNext]_pricing
<1> SUFFICES ASSUME FInv, [Next]_vars
             PROVE  FInv' /\ [KlineNext]_klines /\ [MarkNext]_pricing
  OBVIOUS
<1>1. CASE UNCHANGED vars
  BY <1>1 DEF FInv, vars, klines, pricing, connection
<1>2. CASE Connect \/ Dial \/ Know \/ Subscribe \/ Listen \/ ReadClosed \/ Wait
  <2>1. UNCHANGED <<klines, pricing, ticker>>
    BY <1>2 DEF Connect, Dial, Know, Subscribe, Listen, ReadClosed, Wait
  <2>2. \E pc \in Places \ {"mark"} : Goto(pc)
    BY <1>2 DEF Connect, Dial, Know, Subscribe, Listen, ReadClosed, Wait, Fail, Places
  <2> QED
    BY <2>1, <2>2, FeedMoves DEF klines
<1>3. CASE MessageEnds \/ TellMonitor \/ Lose
  <2>1. UNCHANGED <<klines, pricing, ticker>>
    BY <1>3 DEF MessageEnds, TellMonitor, Lose
  <2>2. \E pc \in Places \ {"mark"} : Goto(pc)
    BY <1>3 DEF MessageEnds, TellMonitor, Lose, Fail, Places
  <2> QED
    BY <2>1, <2>2, FeedMoves DEF klines
<1>4. CASE Message \/ PassOver
  <2>1. UNCHANGED <<klines, pricing, ticker>>
    BY <1>4 DEF Message, PassOver
  <2>2. PICK n \in Int : feed' = [feed EXCEPT !.pc = "message", !.trades = n]
    <3>1. CASE Message
      <4>1. 0 .. MaxBatch \subseteq Int
        OBVIOUS
      <4>2. \E n \in 0 .. MaxBatch : feed' = [feed EXCEPT !.pc = "message", !.trades = n]
        BY <3>1 DEF Message
      <4> QED
        BY <4>1, <4>2, Zenon
    <3>2. CASE PassOver
      <4>1. feed.trades - 1 \in Int /\ feed.pc = "message"
        BY <3>2 DEF PassOver, FInv, Feeds
      <4>2. feed' = [feed EXCEPT !.pc = "message", !.trades = feed.trades - 1]
        BY <3>2, <4>1 DEF PassOver, FInv, Feeds
      <4> QED
        BY <4>1, <4>2
    <3> QED
      BY <1>4, <3>1, <3>2
  <2>3. feed' \in Feeds /\ feed'.pc = "message"
    BY <2>2, FeedCounts DEF FInv, Places
  <2> QED
    BY <2>1, <2>3 DEF FInv, klines
<1>5. CASE TakeTrade
  <2>1. UNCHANGED <<klines, pricing>>
    BY <1>5 DEF TakeTrade
  <2>2. PICK price \in Prices : SetPrice(price)
    BY <1>5 DEF TakeTrade
  <2>3. ticker'.price = price /\ price \in Nat \ {0}
    BY <2>2, PriceAssumption DEF SetPrice
  <2>4. feed' = [feed EXCEPT !.pc = "mark", !.trades = feed.trades - 1]
        /\ feed.trades - 1 \in Int
    BY <1>5 DEF TakeTrade, FInv, Feeds
  <2>5. feed' \in Feeds
    BY <2>4, FeedCounts DEF FInv, Places
  <2> QED
    BY <2>1, <2>3, <2>5 DEF FInv, klines
<1>6. CASE TellMarkPrice
  <2>1. UNCHANGED <<klines, ticker>> /\ Goto("klines") /\ feed.pc = "mark"
        /\ UpdateLastPrice(ticker.price)
    BY <1>6 DEF TellMarkPrice
  <2>2. FInv'
    BY <2>1, FeedMoves DEF Places, klines
  <2>3. MarkNext
    BY <2>1 DEF MarkNext, FInv
  <2> QED
    BY <2>1, <2>2, <2>3 DEF klines
<1>7. CASE TellKlines
  BY <1>7, TradesAreFit DEF TellKlines, pricing
<1>8. CASE FillBars
  <2>1. KlineNext /\ UNCHANGED <<pricing, feed, ticker, ticks>>
    BY <1>8 DEF FillBars, FillGap, PlaceBar, KlineNext, connection
  <2> QED
    BY <2>1 DEF FInv, pricing
<1>9. CASE FetchSpotPrice
  <2>1. UNCHANGED <<klines, feed, ticker>>
    BY <1>9 DEF FetchSpotPrice, connection
  <2>2. MarkNext
    BY <1>9, PriceAssumption DEF FetchSpotPrice, MarkNext
  <2> QED
    BY <2>1, <2>2 DEF FInv, klines
<1>10. CASE EndFetching \/ StopFeed \/ CloseKnown \/ StopFetching
  <2>1. UNCHANGED <<klines, pricing, feed, ticker>>
    BY <1>10 DEF EndFetching, StopFeed, CloseKnown, StopFetching, connection
  <2> QED
    BY <2>1 DEF FInv, klines, pricing
<1> QED
  BY <1>1, <1>2, <1>3, <1>4, <1>5, <1>6, <1>7, <1>8, <1>9, <1>10 DEF Next, FeedStep

\* manager.go:191: what the feed does to its klines is what they allow, wherever it
\* loses its connection or is stopped.
THEOREM FeedsKlines == Spec => KlineSpec /\ []Continuous
<1>1. Spec => KlineSpec
  BY FeedStarts, FeedImplements, PTL DEF Spec, KlineSpec
<1> QED
  BY <1>1, ChartsContinue, PTL

\* service_context.go:212: futures and spot prices reach the mark price in any order.
THEOREM FeedsMarkPrice == Spec => MarkSpec /\ []MarkWithinSeen
<1>1. Spec => MarkSpec
  BY FeedStarts, FeedImplements, PTL DEF Spec, MarkSpec
<1> QED
  BY <1>1, MarkBounded, PTL


-----------------------------------------------------------------------------
(* The three stores.                                                        *)

\* Bars whose prices lie in a range.
Between(lo, hi) == {b \in Bars : b.low \in lo .. hi /\ b.high \in lo .. hi /\ b.close \in lo .. hi}

Reach(lo, hi) ==
  /\ \A l \in Levels : current[l] \in Between(lo, hi) \cup {NoBar}
  /\ \A l \in Levels : cache[l] \in Seq(Between(lo, hi))

FillWithin(lo, hi) == fill.pc # "idle" => fill.open \in lo .. hi /\ fill.price \in lo .. hi

LEMMA BetweenWidens ==
  ASSUME NEW lo \in Nat, NEW hi \in Nat, NEW low \in Nat, NEW high \in Nat,
         low <= lo, hi <= high
  PROVE  /\ Between(lo, hi) \subseteq Between(low, high)
         /\ Reach(lo, hi) => Reach(low, high)
         /\ FillWithin(lo, hi) => FillWithin(low, high)
<1>1. Between(lo, hi) \subseteq Between(low, high)
  BY DEF Between
<1>2. Seq(Between(lo, hi)) \subseteq Seq(Between(low, high))
  BY <1>1
<1> QED
  BY <1>1, <1>2 DEF Reach, FillWithin

LEMMA BarsBetween ==
  ASSUME NEW lo \in Nat, NEW hi \in Nat, NEW l \in Levels, NEW ts \in Instant,
         NEW open \in lo .. hi, NEW price \in lo .. hi,
         NEW bar \in Between(lo, hi), NEW child \in Between(lo, hi)
  PROVE  /\ NewBar(l, ts, open, price) \in Between(lo, hi)
         /\ AddTick(bar, price) \in Between(lo, hi)
         /\ Merge(bar, child) \in Between(lo, hi)
         /\ child.start \in Nat => OpenAbove(l, child) \in Between(lo, hi)
<1>1. \A a, b \in lo .. hi : Higher(a, b) \in lo .. hi /\ Lower(a, b) \in lo .. hi
  BY DEF Higher, Lower
<1>2. open \in Nat /\ price \in Nat /\ bar \in Bars /\ child \in Bars
      /\ bar.low \in lo .. hi /\ bar.high \in lo .. hi
      /\ child.low \in lo .. hi /\ child.high \in lo .. hi /\ child.close \in lo .. hi
  BY DEF Between
<1>3. /\ NewBar(l, ts, open, price) \in Bars /\ AddTick(bar, price) \in Bars
      /\ Merge(bar, child) \in Bars
      /\ child.start \in Nat => OpenAbove(l, child) \in Bars
  BY <1>2, BarOpsFit
<1>4. NewBar(l, ts, open, price) \in Between(lo, hi)
  BY <1>1, <1>3 DEF Between, NewBar
<1>5. AddTick(bar, price) \in Between(lo, hi)
  <2>1. /\ AddTick(bar, price).high = Higher(bar.high, price)
        /\ AddTick(bar, price).low = Lower(bar.low, price)
        /\ AddTick(bar, price).close = price
    BY <1>2 DEF AddTick, Bars
  <2> QED
    BY <1>1, <1>2, <1>3, <2>1 DEF Between
<1>6. Merge(bar, child) \in Between(lo, hi)
  <2>1. /\ Merge(bar, child).high = Higher(bar.high, child.high)
        /\ Merge(bar, child).low = Lower(bar.low, child.low)
        /\ Merge(bar, child).close = child.close
    BY <1>2 DEF Merge, Bars
  <2> QED
    BY <1>1, <1>2, <1>3, <2>1 DEF Between
<1>7. child.start \in Nat => OpenAbove(l, child) \in Between(lo, hi)
  <2>1. /\ OpenAbove(l, child).high = child.high
        /\ OpenAbove(l, child).low = child.low
        /\ OpenAbove(l, child).close = child.close
    BY <1>2 DEF OpenAbove, Bars
  <2> QED
    BY <1>2, <1>3, <2>1 DEF Between
<1> QED
  BY <1>4, <1>5, <1>6, <1>7

LEMMA CacheWithin ==
  ASSUME KTypes, NEW S \in SUBSET Bars, NEW closing, NEW bars, CacheBars(closing, bars),
         \A l \in Levels : cache[l] \in Seq(S),
         \A l \in Levels \cap closing : bars[l] \in S
  PROVE  \A l \in Levels : cache'[l] \in Seq(S)
<1> SUFFICES ASSUME NEW l \in Levels PROVE cache'[l] \in Seq(S)
  OBVIOUS
<1>1. CASE l \notin closing
  BY <1>1 DEF CacheBars
<1>2. CASE l \in closing
  <2> DEFINE all == <<bars[l]>> \o cache[l]
             len == Lower(Len(cache[l]) + 1, MaxCache[l])
  <2>1. cache'[l] = SubSeq(all, 1, len)
    BY <1>2 DEF CacheBars
  <2>2. cache[l] \in Seq(S) /\ bars[l] \in S
    BY <1>2
  <2>3. all \in Seq(S) /\ Len(all) = Len(cache[l]) + 1
    BY <2>2
  <2>4. len \in 1 .. Len(all)
    BY <2>2, <2>3, CacheAssumption DEF Lower
  <2> HIDE DEF all, len
  <2> QED
    BY <2>1, <2>3, <2>4, Prefix
<1> QED
  BY <1>1, <1>2

LEMMA CascadeWithin ==
  ASSUME KTypes, NEW lo \in Nat, NEW hi \in Nat, Reach(lo, hi),
         NEW bar \in Between(lo, hi), bar.start \in Nat,
         \A l \in Above : current[l].start \in Nat, CloseAndCascade(bar)
  PROVE  Reach(lo, hi)'
<1> DEFINE bars    == WithBase(bar)
           closing == Closing(bars)
           S       == Between(lo, hi)
<1>1. 1 \in Levels /\ \A l \in Above : l - 1 \in Levels /\ l \in Levels
  BY LevelAssumption DEF Levels, Above
<1>2. bars[1] = bar /\ \A l \in Above : bars[l] = current[l]
  BY <1>1 DEF WithBase, KTypes, Above
<1>3. \A l \in Levels : bars[l] \in S /\ bars[l].start \in Nat
  BY <1>1, <1>2 DEF Reach, Above, NoBar
<1>4. CacheBars(closing, bars)
  BY DEF CloseAndCascade
<1>5. current' = [l \in Levels |->
           IF l = 1 \/ l - 1 \notin closing THEN current[l]
           ELSE IF l \in closing \/ bars[l] = NoBar THEN OpenAbove(l, bars[l - 1])
           ELSE Merge(bars[l], bars[l - 1])]
  BY DEF CloseAndCascade
<1> HIDE DEF bars, closing
<1>6. \A l \in Levels : cache'[l] \in Seq(S)
  BY <1>3, <1>4, CacheWithin DEF Reach, Between
<1>7. ASSUME NEW l \in Levels PROVE current'[l] \in S \cup {NoBar}
  <2>1. CASE l = 1 \/ l - 1 \notin closing
    BY <1>5, <2>1 DEF Reach
  <2>2. CASE l # 1 /\ l - 1 \in closing
    <3>1. l - 1 \in Levels /\ bars[l - 1] \in S /\ bars[l] \in S /\ bars[l - 1].start \in Nat
      BY <1>1, <1>3, <2>2 DEF Above
    <3>2. OpenAbove(l, bars[l - 1]) \in S /\ Merge(bars[l], bars[l - 1]) \in S
      <4>1. lo \in lo .. hi
        BY <3>1 DEF Between
      <4>2. 0 \in Instant
        BY DEF Instant
      <4> QED
        BY <3>1, <4>1, <4>2, BarsBetween
    <3> QED
      BY <1>5, <2>2, <3>2
  <2> QED
    BY <2>1, <2>2
<1> QED
  BY <1>6, <1>7 DEF Reach

LEMMA AncestorsWithin ==
  ASSUME KTypes, NEW lo \in Nat, NEW hi \in Nat, Reach(lo, hi),
         NEW base \in Between(lo, hi), NEW price \in lo .. hi, NEW ts \in Instant,
         UpdateAncestors(base, price, ts)
  PROVE  Reach(lo, hi)'
<1> DEFINE S == Between(lo, hi)
           closing == {l \in Levels \ {1} : current[l] # NoBar
                                            /\ current[l].start # StartOf(l, ts)}
<1>1. \A l \in Levels \cap closing : current[l] \in S
  BY DEF Reach
<1>2. CacheBars(closing, current)
  BY DEF UpdateAncestors
<1>3. current' = [l \in Levels |-> IF l = 1 THEN base ELSE Follow(l, price, ts)]
  BY DEF UpdateAncestors
<1> HIDE DEF closing
<1>4. \A l \in Levels : cache'[l] \in Seq(S)
  BY <1>1, <1>2, CacheWithin DEF Reach, Between
<1>5. ASSUME NEW l \in Levels PROVE current'[l] \in S
  <2>1. CASE l = 1
    BY <1>3, <2>1
  <2>2. CASE l # 1
    <3>1. current'[l] = Follow(l, price, ts)
      BY <1>3, <2>2
    <3>2. NewBar(l, ts, price, price) \in S
      BY BarsBetween
    <3>3. current[l] # NoBar => /\ NewBar(l, ts, current[l].close, price) \in S
                                /\ AddTick(current[l], price) \in S
      <4> SUFFICES ASSUME current[l] # NoBar
                   PROVE  /\ NewBar(l, ts, current[l].close, price) \in S
                          /\ AddTick(current[l], price) \in S
        OBVIOUS
      <4>1. current[l] \in S /\ current[l].close \in lo .. hi
        BY DEF Reach, Between
      <4> QED
        BY <4>1, BarsBetween
    <3> QED
      BY <3>1, <3>2, <3>3 DEF Follow
  <2> QED
    BY <2>1, <2>2
<1> QED
  BY <1>4, <1>5 DEF Reach

\* Where the klines have got to with the last price.
Followed(price) ==
  IF fill.pc = "idle" THEN current[1].start \in Nat /\ current[1].close = price
  ELSE fill.price = price

\* The ticker covers the last price and all bars, those that are still to be
\* filled in too; beyond the mark price and the klines nothing is behind.
SInv ==
  /\ ticker \in [price : Nat, high : Nat, low : Nat]
  /\ ticker.price \in ticker.low .. ticker.high
  /\ Reach(ticker.low, ticker.high) /\ FillWithin(ticker.low, ticker.high)
  /\ ticker.low = 0 => /\ ticker.high = 0 /\ ticks = <<>> /\ fill.pc = "idle"
                       /\ feed.pc \notin {"mark", "klines", "bars"}
                       /\ \A l \in Levels : Unused(l)
  /\ fill.pc # "idle" => feed.pc = "bars"
  /\ feed.pc = "klines" \/ (feed.pc # "mark" /\ ticks # <<>>) =>
       prices.initialized /\ prices.last = ticker.price
  /\ feed.pc = "bars" => ticks # <<>>
  /\ feed.pc \notin {"mark", "klines"} /\ ticks # <<>> => Followed(ticker.price)

LEMMA NothingReaches ==
  ASSUME NEW lo, NEW hi, \A l \in Levels : current[l] = NoBar /\ cache[l] = <<>>
  PROVE  Reach(lo, hi)
<1> DEFINE S == Between(lo, hi)
<1>1. \A l \in Levels : current[l] \in S \cup {NoBar}
  OBVIOUS
<1> HIDE DEF S
<1>2. <<>> \in Seq(S)
  BY EmptySeq
<1>3. \A l \in Levels : cache[l] \in Seq(S)
  BY <1>2
<1> QED
  BY <1>1, <1>3 DEF Reach, S

LEMMA StoresStart == Init => SInv
<1> SUFFICES ASSUME Init PROVE SInv
  OBVIOUS
<1>1. \A l \in Levels : current[l] = NoBar /\ cache[l] = <<>>
  BY DEF Init, KlineInit
<1>2. Reach(0, 0) /\ \A l \in Levels : Unused(l)
  BY <1>1, NothingReaches DEF Unused
<1>3. ticker = [price |-> 0, high |-> 0, low |-> 0] /\ fill.pc = "idle"
      /\ feed.pc = "connect" /\ ticks = <<>>
  BY DEF Init, KlineInit, Idle
<1> QED
  BY <1>2, <1>3 DEF SInv, FillWithin

\* Steps after which everything but the feed's place is as it was.
LEMMA StoresStay ==
  ASSUME SInv, UNCHANGED <<klines, ticker, prices>>,
         feed'.pc \notin {"mark", "klines", "bars"} \/ feed'.pc = feed.pc,
         feed.pc \notin {"mark", "klines"} \/ feed'.pc = feed.pc,
         feed.pc = "bars" => feed'.pc = "bars" \/ fill.pc = "idle"
  PROVE  SInv'
<1>1. /\ current' = current /\ cache' = cache /\ fill' = fill /\ ticks' = ticks
      /\ ticker' = ticker /\ prices' = prices
  BY DEF klines
<1>2. /\ Reach(ticker.low, ticker.high)' /\ FillWithin(ticker.low, ticker.high)'
      /\ Followed(ticker.price)' = Followed(ticker.price)
      /\ \A l \in Levels : Unused(l)' = Unused(l)
  BY <1>1 DEF SInv, Reach, FillWithin, Followed, Unused
<1> QED
  BY <1>1, <1>2 DEF SInv

LEMMA PricesFollow ==
  ASSUME MarkInv, NEW price \in Price
  PROVE  /\ UpdateLastPrice(price) => prices'.initialized /\ prices'.last = price
         /\ UpdateIndexPrice(price) /\ prices.initialized
              => prices'.initialized /\ prices'.last = prices.last
<1>1. ASSUME prices.initialized, NEW last \in Nat, NEW index \in Price,
             Recalculate(last, index)
      PROVE  prices'.initialized /\ prices'.last = last
  BY <1>1 DEF Recalculate, MarkInv, Price
<1>2. UpdateLastPrice(price) => prices'.initialized /\ prices'.last = price
  BY <1>1 DEF UpdateLastPrice, Initialize, MarkInv, Price
<1>3. UpdateIndexPrice(price) /\ prices.initialized
        => prices'.initialized /\ prices'.last = prices.last
  BY <1>1 DEF UpdateIndexPrice, MarkInv, Price
<1> QED
  BY <1>2, <1>3

\* PriceCache.SetPrice widens the range before anything else learns of the price.
LEMMA PriceTaken ==
  ASSUME SInv, FInv, KInv, TakeTrade
  PROVE  SInv'
<1>1. PICK price \in Prices : SetPrice(price)
  BY DEF TakeTrade
<1>2. price \in Nat \ {0}
  BY PriceAssumption
<1> DEFINE high == IF ticker.high = 0 THEN price ELSE Higher(ticker.high, price)
           low  == IF ticker.low = 0 THEN price ELSE Lower(ticker.low, price)
<1>3. ticker' = [price |-> price, high |-> high, low |-> low]
  BY <1>1 DEF SetPrice
<1>4. /\ high \in Nat /\ low \in Nat \ {0} /\ price \in low .. high
      /\ ticker.high <= high
      /\ ticker.low # 0 => low <= ticker.low
  BY <1>2 DEF SInv, Higher, Lower
<1>5. /\ current' = current /\ cache' = cache /\ fill' = fill /\ ticks' = ticks
      /\ prices' = prices /\ feed'.pc = "mark" /\ feed.pc = "message"
  BY DEF TakeTrade, klines, pricing, FInv, Feeds
<1> HIDE DEF high, low
<1>6. Reach(low, high) /\ FillWithin(low, high)
  <2>1. CASE ticker.low = 0
    <3>1. fill.pc = "idle" /\ \A l \in Levels : current[l] = NoBar /\ cache[l] = <<>>
      BY <2>1 DEF SInv, Unused
    <3> QED
      BY <3>1, NothingReaches DEF FillWithin
  <2>2. CASE ticker.low # 0
    <3>1. /\ ticker.low \in Nat /\ ticker.high \in Nat
          /\ Reach(ticker.low, ticker.high) /\ FillWithin(ticker.low, ticker.high)
      BY DEF SInv
    <3>2. low \in Nat /\ high \in Nat /\ low <= ticker.low /\ ticker.high <= high
      BY <1>4, <2>2
    <3> QED
      BY <3>1, <3>2, BetweenWidens
  <2> QED
    BY <2>1, <2>2
<1>7. Reach(ticker.low, ticker.high)' /\ FillWithin(ticker.low, ticker.high)'
  BY <1>3, <1>5, <1>6 DEF Reach, FillWithin
<1>8. ticker'.price \in ticker'.low .. ticker'.high /\ ticker'.low # 0
      /\ ticker' \in [price : Nat, high : Nat, low : Nat]
  BY <1>2, <1>3, <1>4
<1>9. fill'.pc = "idle"
  BY <1>5 DEF SInv
<1> QED
  BY <1>5, <1>7, <1>8, <1>9 DEF SInv

LEMMA BarsTaken ==
  ASSUME KInv, NEW lo \in Nat, NEW hi \in Nat, Reach(lo, hi), FillWithin(lo, hi)
  PROVE  /\ \A price \in lo .. hi, ts \in Instant :
              OnTrade(price, ts) => /\ Reach(lo, hi)' /\ FillWithin(lo, hi)'
                                    /\ Followed(price)'
         /\ \A price \in lo .. hi :
              (FillGap \/ PlaceBar) /\ price = fill.price
                => Reach(lo, hi)' /\ FillWithin(lo, hi)' /\ Followed(price)'
<1>1. 1 \in Levels /\ KTypes
  BY LevelAssumption DEF Levels, KInv
<1>2. ASSUME NEW price \in lo .. hi, NEW ts \in Instant, OnTradeHere(price, ts)
      PROVE  Reach(lo, hi)' /\ FillWithin(lo, hi)' /\ Followed(price)'
  <2> DEFINE base == IF current[1] = NoBar THEN NewBar(1, ts, price, price)
                     ELSE AddTick(current[1], price)
  <2>1. UpdateAncestors(base, price, ts) /\ fill' = fill /\ fill.pc = "idle"
    BY <1>2 DEF OnTradeHere
  <2>2. base \in Between(lo, hi) /\ base.close = price /\ base.start \in Nat
    <3>1. CASE current[1] = NoBar
      <4>1. base = NewBar(1, ts, price, price)
        BY <3>1
      <4>2. NewBar(1, ts, price, price) \in Between(lo, hi)
        <5>1. FlatBar(0, price) \in Between(lo, hi)
          BY DEF FlatBar, Between, Bars
        <5> QED
          BY <1>1, <5>1, BarsBetween
      <4> QED
        BY <1>1, <4>1, <4>2, NewBarFits, StartFits
    <3>2. CASE current[1] # NoBar
      <4>1. base = AddTick(current[1], price) /\ current[1] \in Between(lo, hi)
        BY <1>1, <3>2 DEF Reach
      <4>2. current[1].start = StartOf(1, ts)
        BY <1>2, <3>2 DEF OnTradeHere
      <4>3. AddTick(current[1], price) \in Between(lo, hi)
        BY <1>1, <1>2, <4>1, BarsBetween
      <4>4. current[1] \in Bars /\ price \in Nat
        BY <4>1 DEF Between
      <4> HIDE DEF base
      <4>5. base.close = price /\ base.start = StartOf(1, ts)
        <5>1. /\ AddTick(current[1], price).close = price
              /\ AddTick(current[1], price).start = current[1].start
          BY <4>4, AddTickFits
        <5> QED
          BY <4>1, <4>2, <5>1
      <4>6. StartOf(1, ts) \in Nat
        BY <1>1, StartFits
      <4> QED
        BY <4>1, <4>3, <4>5, <4>6
    <3> QED
      BY <3>1, <3>2
  <2>3. current'[1] = base
    BY <1>1, <2>1 DEF UpdateAncestors
  <2> HIDE DEF base
  <2>4. Reach(lo, hi)'
    BY <1>1, <1>2, <2>1, <2>2, AncestorsWithin
  <2> QED
    BY <2>1, <2>2, <2>3, <2>4 DEF FillWithin, Followed
<1>3. ASSUME NEW bar \in Between(lo, hi), bar.start \in Nat,
             \A l \in Above : current[l].start \in Nat, CloseAndCascade(bar)
      PROVE  Reach(lo, hi)'
  BY <1>1, <1>3, CascadeWithin
<1>4. ASSUME NEW price \in lo .. hi, NEW ts \in Instant, OnTradeLater(price, ts)
      PROVE  Reach(lo, hi)' /\ FillWithin(lo, hi)' /\ Followed(price)'
  <2>1. Resting /\ current[1] # NoBar
    BY <1>1, <1>4 DEF OnTradeLater, KInv, Unused
  <2>2. current[1] \in Between(lo, hi) /\ current[1].start \in Nat
        /\ \A l \in Above : current[l].start \in Nat
    BY <1>1, <2>1 DEF Reach, Resting, Started, Upper
  <2>3. CloseAndCascade(current[1])
    BY <1>4 DEF OnTradeLater
  <2>4. fill'.pc # "idle" /\ fill'.open = current[1].close /\ fill'.price = price
    BY <1>4 DEF OnTradeLater
  <2>5. Reach(lo, hi)'
    BY <1>3, <2>2, <2>3
  <2> QED
    BY <2>2, <2>4, <2>5 DEF FillWithin, Followed, Between
<1>5. ASSUME FillGap, NEW price \in lo .. hi, price = fill.price
      PROVE  Reach(lo, hi)' /\ FillWithin(lo, hi)' /\ Followed(price)'
  <2>1. Filling /\ fill.pc = "gap" /\ fill.open \in lo .. hi /\ fill.price \in lo .. hi
    BY <1>5 DEF FillGap, KInv, FillWithin
  <2>2. FlatBar(fill.next, fill.open) \in Between(lo, hi)
        /\ FlatBar(fill.next, fill.open).start \in Nat
    BY <1>1, <2>1 DEF FlatBar, Between, Bars, KTypes, Instant
  <2>3. CloseAndCascade(FlatBar(fill.next, fill.open))
    BY <1>5 DEF FillGap
  <2>4. \A l \in Above : current[l].start \in Nat
    BY <2>1 DEF Filling, Upper, Started
  <2>5. fill'.pc # "idle" /\ fill'.open = fill.open /\ fill'.price = fill.price
    BY <1>1, <1>5 DEF FillGap, KTypes
  <2>6. Reach(lo, hi)'
    BY <1>3, <2>2, <2>3, <2>4
  <2> QED
    BY <1>5, <2>1, <2>5, <2>6 DEF FillWithin, Followed
<1>6. ASSUME PlaceBar, NEW price \in lo .. hi, price = fill.price
      PROVE  Reach(lo, hi)' /\ FillWithin(lo, hi)' /\ Followed(price)'
  <2> DEFINE base == NewBar(1, fill.ts, fill.open, fill.price)
  <2>1. fill.pc = "place" /\ fill.open \in lo .. hi /\ fill.price \in lo .. hi
        /\ fill.ts \in Instant /\ fill'.pc = "idle"
    BY <1>1, <1>6 DEF PlaceBar, FillWithin, KTypes, Idle
  <2>2. FlatBar(0, fill.price) \in Between(lo, hi)
    BY <2>1 DEF FlatBar, Between, Bars
  <2>3. base \in Between(lo, hi)
    BY <1>1, <2>1, <2>2, BarsBetween
  <2>4. base.start \in Nat /\ base.close = fill.price
    BY <1>1, <2>1, NewBarFits, StartFits
  <2>5. UpdateAncestors(base, fill.price, fill.ts)
    BY <1>6 DEF PlaceBar
  <2>6. current'[1] = base
    BY <1>1, <2>5 DEF UpdateAncestors
  <2> HIDE DEF base
  <2>7. Reach(lo, hi)'
    BY <1>1, <2>1, <2>3, <2>5, AncestorsWithin
  <2>8. FillWithin(lo, hi)'
    BY <2>1 DEF FillWithin
  <2>9. current'[1].start \in Nat /\ current'[1].close = price
    BY <1>6, <2>4, <2>6
  <2>10. Followed(price)'
    BY <2>1, <2>9 DEF Followed
  <2> QED
    BY <2>7, <2>8, <2>10
<1> QED
  BY <1>2, <1>4, <1>5, <1>6 DEF OnTrade

LEMMA StoresKeptByFeed ==
  ASSUME SInv, FInv, KInv, MarkInv, FeedStep \/ Message \/ Lose
  PROVE  SInv'
<1>1. CASE \/ Connect \/ Dial \/ Know \/ Subscribe \/ Listen \/ ReadClosed \/ Wait
           \/ MessageEnds \/ TellMonitor \/ Lose
  <2>1. UNCHANGED <<klines, ticker, prices>>
    BY <1>1 DEF Connect, Dial, Know, Subscribe, Listen, ReadClosed, Wait, MessageEnds,
                TellMonitor, Lose, pricing
  <2>2. PICK pc : Goto(pc) /\ pc \notin {"mark", "klines", "bars"}
    BY <1>1 DEF Connect, Dial, Know, Subscribe, Listen, ReadClosed, Wait, MessageEnds,
                TellMonitor, Lose, Fail
  <2>3. feed'.pc = pc
    BY <2>2 DEF Goto, FInv, Feeds
  <2>4. /\ feed.pc \notin {"mark", "klines"}
        /\ feed.pc = "bars" => fill.pc = "idle"
    BY <1>1 DEF Connect, Dial, Know, Subscribe, Listen, ReadClosed, Wait, MessageEnds,
                TellMonitor, Lose
  <2> QED
    BY <2>1, <2>2, <2>3, <2>4, StoresStay
<1>2. CASE Message \/ PassOver
  <2>1. UNCHANGED <<klines, ticker, prices>> /\ feed.pc \in {"read", "message"}
    BY <1>2 DEF Message, PassOver, pricing
  <2>2. feed'.pc = "message"
    BY <1>2 DEF Message, PassOver, FInv, Feeds
  <2> QED
    BY <2>1, <2>2, StoresStay
<1>3. CASE TakeTrade
  BY <1>3, PriceTaken
<1>4. CASE TellMarkPrice
  <2>1. feed.pc = "mark" /\ feed'.pc = "klines" /\ UNCHANGED <<klines, ticker>>
        /\ UpdateLastPrice(ticker.price)
    BY <1>4 DEF TellMarkPrice, Goto, FInv, Feeds
  <2>2. ticker.price \in Price
    BY <2>1 DEF FInv, Price
  <2>3. prices'.initialized /\ prices'.last = ticker.price
    BY <2>1, <2>2, PricesFollow
  <2>4. /\ current' = current /\ cache' = cache /\ fill' = fill /\ ticks' = ticks
        /\ ticker' = ticker
    BY <2>1 DEF klines
  <2>5. /\ Reach(ticker.low, ticker.high)' /\ FillWithin(ticker.low, ticker.high)'
    BY <2>4 DEF SInv, Reach, FillWithin
  <2> QED
    BY <2>1, <2>3, <2>4, <2>5 DEF SInv
<1>5. CASE TellKlines \/ FillBars
  <2>1. /\ feed.pc \in {"klines", "bars"} /\ feed'.pc = "bars"
        /\ ticker' = ticker /\ prices' = prices
    BY <1>5 DEF TellKlines, FillBars, Goto, pricing, connection, FInv, Feeds
  <2>2. ticker.low # 0
    BY <2>1 DEF SInv
  <2>3. PICK price, lo, hi : price = ticker.price /\ lo = ticker.low /\ hi = ticker.high
    OBVIOUS
  <2>4. /\ lo \in Nat /\ hi \in Nat /\ price \in lo .. hi
        /\ Reach(lo, hi) /\ FillWithin(lo, hi)
    BY <2>3 DEF SInv
  <2>5. /\ Reach(lo, hi)' /\ FillWithin(lo, hi)' /\ Followed(price)' /\ ticks' # <<>>
    <3>1. CASE TellKlines
      <4>1. PICK ts \in Times : OnTrade(ticker.price, ts)
        BY <3>1 DEF TellKlines
      <4>2. ts \in Instant
        BY <3>1, <4>1, TimesFit DEF Instant
      <4>3. ticks' = Append(ticks, [price |-> ticker.price, ts |-> ts])
        BY <4>1 DEF OnTrade, OnTradeHere, OnTradeLater, Record
      <4>4. ticks' # <<>>
        BY <4>3 DEF FInv
      <4> QED
        BY <2>3, <2>4, <4>1, <4>2, <4>4, BarsTaken
    <3>2. CASE FillBars
      <4>1. (FillGap \/ PlaceBar) /\ fill.pc # "idle" /\ ticks' = ticks
        BY <3>2 DEF FillBars, FillGap, PlaceBar
      <4>2. feed.pc = "bars" /\ ticks # <<>>
        BY <4>1 DEF SInv
      <4>3. price = fill.price
        BY <2>3, <4>1, <4>2 DEF SInv, Followed
      <4> QED
        BY <2>4, <4>1, <4>2, <4>3, BarsTaken
    <3> QED
      BY <1>5, <3>1, <3>2
  <2>6. /\ Reach(ticker.low, ticker.high)' /\ FillWithin(ticker.low, ticker.high)'
        /\ Followed(ticker.price)'
    BY <2>1, <2>3, <2>5 DEF Reach, FillWithin, Followed
  <2>7. prices.initialized /\ prices.last = ticker.price
    BY <2>1 DEF SInv
  <2> QED
    BY <2>1, <2>2, <2>5, <2>6, <2>7 DEF SInv
<1> QED
  BY <1>1, <1>2, <1>3, <1>4, <1>5 DEF FeedStep

LEMMA StoresKept == SInv /\ FInv /\ KInv /\ MarkInv /\ [Next]_vars => SInv'
<1> SUFFICES ASSUME SInv, FInv, KInv, MarkInv, [Next]_vars PROVE SInv'
  OBVIOUS
<1>1. CASE FeedStep \/ Message \/ Lose
  BY <1>1, StoresKeptByFeed
<1>2. CASE UNCHANGED <<klines, ticker, feed, prices>>
  BY <1>2, StoresStay
<1>3. CASE FetchSpotPrice
  <2>1. UNCHANGED <<klines, feed, ticker>>
    BY <1>3 DEF FetchSpotPrice, connection
  <2>2. prices.initialized => prices'.initialized /\ prices'.last = prices.last
    BY <1>3, PricesFollow, PriceAssumption DEF FetchSpotPrice, Price
  <2>3. /\ current' = current /\ cache' = cache /\ fill' = fill /\ ticks' = ticks
        /\ ticker' = ticker /\ feed' = feed
    BY <2>1 DEF klines
  <2>4. /\ Reach(ticker.low, ticker.high)' /\ FillWithin(ticker.low, ticker.high)'
        /\ Followed(ticker.price)' = Followed(ticker.price)
        /\ \A l \in Levels : Unused(l)' = Unused(l)
    BY <2>3 DEF SInv, Reach, FillWithin, Followed, Unused
  <2> QED
    BY <2>2, <2>3, <2>4 DEF SInv
<1>4. CASE EndFetching \/ StopFeed \/ CloseKnown \/ StopFetching \/ UNCHANGED vars
  <2>1. UNCHANGED <<klines, ticker, feed, prices>>
    BY <1>4 DEF EndFetching, StopFeed, CloseKnown, StopFetching, connection, pricing, vars
  <2> QED
    BY <2>1, <1>2
<1> QED
  BY <1>1, <1>3, <1>4 DEF Next

LEMMA StoresMatch ==
  ASSUME SInv, KInv
  PROVE  StoresAgree
<1> SUFFICES ASSUME feed.pc \notin {"mark", "klines", "bars"}, ticks # <<>>
             PROVE  /\ prices.last = ticker.price
                    /\ \A l \in Levels :
                         /\ current[l].close = ticker.price
                         /\ \A n \in DOMAIN Chart(l) :
                              /\ ticker.low <= Chart(l)[n].low
                              /\ Chart(l)[n].high <= ticker.high
  BY DEF StoresAgree
<1>1. prices.last = ticker.price /\ Followed(ticker.price) /\ fill.pc = "idle"
  BY DEF SInv
<1>2. current[1].close = ticker.price
  BY <1>1 DEF Followed
<1>3. Continuous
  BY ChartsAreChained
<1> SUFFICES ASSUME NEW l \in Levels, NEW n \in DOMAIN Chart(l)
             PROVE  ticker.low <= Chart(l)[n].low /\ Chart(l)[n].high <= ticker.high
  BY <1>1, <1>2, <1>3 DEF Continuous
<1> DEFINE S == Between(ticker.low, ticker.high)
<1>4. Chart(l) \in Seq(S)
  <2>1. cache[l] \in Seq(S) /\ current[l] \in S \cup {NoBar}
    BY DEF SInv, Reach
  <2> HIDE DEF S
  <2>2. CASE current[l] = NoBar
    BY <2>2, EmptySeq DEF Chart
  <2>3. CASE current[l] # NoBar
    <3>1. Chart(l) = <<current[l]>> \o cache[l] /\ current[l] \in S
      BY <2>1, <2>3 DEF Chart
    <3> QED
      BY <2>1, <3>1
  <2> QED
    BY <2>2, <2>3
<1>5. Chart(l)[n] \in S
  BY <1>4, ElementOfSeq
<1> QED
  BY <1>5 DEF Between, SInv

\* service_context.go:212: the callback writes one store after the other.  Between trades the
\* price cache, the mark price and the klines have the same last price, and no bar
\* goes beyond the high and low of the ticker, whatever times the trades have.
THEOREM StoresInStep == Spec => []StoresAgree
<1>1. Spec => [](KInv /\ MarkInv)
  <2>1. Spec => KlineSpec /\ MarkSpec
    BY FeedsKlines, FeedsMarkPrice, PTL
  <2>2. MarkInit => MarkInv
    BY DEF MarkInit, MarkInv
  <2> QED
    BY <2>1, <2>2, KlinesStart, KInductive, MarkInductive, PTL DEF KlineSpec, MarkSpec
<1>2. Spec => []FInv
  BY FeedStarts, FeedImplements, PTL DEF Spec
<1> QED
  BY <1>1, <1>2, StoresStart, StoresKept, StoresMatch, PTL DEF Spec
=============================================================================
