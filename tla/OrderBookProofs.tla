--------------------------- MODULE OrderBookProofs ---------------------------
(***************************************************************************)
(* Proofs about OrderBook for every set of prices and quantities and any   *)
(* number of orders.                                                       *)
(***************************************************************************)
EXTENDS OrderBook, CollectionProofs

-----------------------------------------------------------------------------
(* The slices of levels.                                                   *)

SortedOn(s, levels) ==
  \A i, j \in DOMAIN levels :
    i < j => Better(s, levels[i].price, levels[j].price)

\* sort.Search finds a place: all levels before it are better than p and the
\* level there, if any, is not.
LEMMA FirstAtFacts ==
  ASSUME NEW s \in Sides, NEW levels \in Seq(Level), NEW p
  PROVE  /\ FirstAt(s, levels, p) \in 1 .. Len(levels) + 1
         /\ \A j \in 1 .. FirstAt(s, levels, p) - 1 :
              Better(s, levels[j].price, p)
         /\ FirstAt(s, levels, p) \in DOMAIN levels =>
              ~Better(s, levels[FirstAt(s, levels, p)].price, p)
<1> DEFINE T == {i \in 1 .. Len(levels) + 1 :
                   i \in DOMAIN levels => ~Better(s, levels[i].price, p)}
<1>1. Len(levels) \in Nat /\ DOMAIN levels = 1 .. Len(levels)
  BY LenProperties
<1>2. T \subseteq Nat /\ Len(levels) + 1 \in T
  BY <1>1
<1>3. PICK m \in T : \A y \in T : ~(<<y, m>> \in OpToRel(<, Nat))
  BY <1>2, WFMin, NatLessThanWellFounded
<1>4. \A y \in T : ~(y < m)
  BY <1>2, <1>3 DEF OpToRel
<1>5. \A j \in 1 .. m - 1 : Better(s, levels[j].price, p)
  BY <1>1, <1>4
<1>6. \E i \in 1 .. Len(levels) + 1 :
        /\ \A j \in 1 .. i - 1 : Better(s, levels[j].price, p)
        /\ i \in DOMAIN levels => ~Better(s, levels[i].price, p)
  BY <1>5
<1> QED
  BY <1>6 DEF FirstAt

\* R is what is left of levels after levels and orders were taken out of it:
\* f says which level each level of R is.
Thinned(R, levels) ==
  \E f \in [DOMAIN R -> DOMAIN levels] :
    /\ \A k, m \in DOMAIN R : k < m => f[k] < f[m]
    /\ \A k \in DOMAIN R :
         /\ R[k].price = levels[f[k]].price
         /\ R[k].orders # <<>>
         /\ \A n \in DOMAIN R[k].orders :
              \E h \in DOMAIN levels[f[k]].orders :
                R[k].orders[n] = levels[f[k]].orders[h]

NoneEmpty(levels) == \A i \in DOMAIN levels : levels[i].orders # <<>>

\* Nothing taken out, whatever happens to the totals.
LEMMA ThinnedTotal ==
  ASSUME NEW levels \in Seq(Level), NoneEmpty(levels),
         NEW i \in DOMAIN levels, NEW t \in Int
  PROVE  /\ [levels EXCEPT ![i].total = t] \in Seq(Level)
         /\ Thinned([levels EXCEPT ![i].total = t], levels)
<1> DEFINE R == [levels EXCEPT ![i].total = t]
           f == [k \in DOMAIN levels |-> k]
<1>1. Len(levels) \in Nat /\ DOMAIN levels = 1 .. Len(levels)
  BY LenProperties
<1>2. levels[i] \in Level
  BY <1>1, ElementOfSeq
<1>3. [levels[i] EXCEPT !.total = t] \in Level
  BY <1>2 DEF Level
<1>4. R = [levels EXCEPT ![i] = [levels[i] EXCEPT !.total = t]]
  OBVIOUS
<1>5. /\ R \in Seq(Level) /\ DOMAIN R = DOMAIN levels
      /\ \A k \in DOMAIN levels :
           R[k] = IF k = i THEN [levels[i] EXCEPT !.total = t] ELSE levels[k]
  BY <1>1, <1>3, <1>4, ExceptSeq
<1>6. \A k \in DOMAIN levels :
        R[k].price = levels[k].price /\ R[k].orders = levels[k].orders
  BY <1>2, <1>5 DEF Level
<1>7. f \in [DOMAIN R -> DOMAIN levels] /\ \A k \in DOMAIN R : f[k] = k
  BY <1>5
<1> HIDE DEF R, f
<1>8. Thinned(R, levels)
  <2> USE <1>7 DEF Thinned
  <2> WITNESS f \in [DOMAIN R -> DOMAIN levels]
  <2> QED
    BY <1>1, <1>5, <1>6, <1>7 DEF NoneEmpty
<1> QED
  BY <1>5, <1>8 DEF R

\* DropOrder thins the slice and leaves no empty level in it.
LEMMA DropOrderFacts ==
  ASSUME NEW levels \in Seq(Level), NoneEmpty(levels),
         NEW i \in DOMAIN levels, NEW j \in DOMAIN levels[i].orders,
         NEW q \in Int
  PROVE  /\ DropOrder(levels, i, j, q) \in Seq(Level)
         /\ Thinned(DropOrder(levels, i, j, q), levels)
<1> DEFINE rest == RemoveAt(levels[i].orders, j)
<1>1. Len(levels) \in Nat /\ DOMAIN levels = 1 .. Len(levels)
  BY LenProperties
<1>2. \A k \in DOMAIN levels : levels[k] \in Level
  BY <1>1, ElementOfSeq
<1>3. levels[i].orders \in Seq(Ids) /\ j \in 1 .. Len(levels[i].orders)
  BY <1>2, LenProperties DEF Level
<1>4. /\ rest \in Seq(Ids)
      /\ \A n \in DOMAIN rest : \E h \in DOMAIN levels[i].orders :
           rest[n] = levels[i].orders[h]
  <2>1. /\ rest \in Seq(Ids)
        /\ Len(rest) = Len(levels[i].orders) - 1
        /\ \A k \in 1 .. Len(levels[i].orders) - 1 :
             rest[k] = IF k < j THEN levels[i].orders[k]
                                ELSE levels[i].orders[k + 1]
    BY <1>3, RemoveAtFacts
  <2>2. /\ Len(levels[i].orders) \in Nat
        /\ DOMAIN levels[i].orders = 1 .. Len(levels[i].orders)
        /\ DOMAIN rest = 1 .. Len(levels[i].orders) - 1
    BY <1>3, <2>1, LenProperties
  <2>3. ASSUME NEW n \in DOMAIN rest
        PROVE  \E h \in DOMAIN levels[i].orders : rest[n] = levels[i].orders[h]
    <3>1. CASE n < j
      <4>1. n \in DOMAIN levels[i].orders /\ rest[n] = levels[i].orders[n]
        BY <3>1, <2>1, <2>2
      <4> QED
        BY <4>1
    <3>2. CASE ~(n < j)
      <4>1. n \in 1 .. Len(levels[i].orders) - 1
        BY <2>2
      <4>2. /\ n + 1 \in DOMAIN levels[i].orders
            /\ rest[n] = levels[i].orders[n + 1]
        <5> DEFINE l == Len(levels[i].orders)
        <5>1. n + 1 \in 1 .. l
          <6>1. n \in 1 .. l - 1 /\ l \in Nat
            BY <4>1, <2>2
          <6> HIDE DEF l
          <6> QED
            BY <6>1
        <5>2. rest[n] = IF n < j THEN levels[i].orders[n]
                                 ELSE levels[i].orders[n + 1]
          BY <2>1, <4>1
        <5> QED
          BY <2>2, <3>2, <5>1, <5>2
      <4> QED
        BY <4>2
    <3> QED
      BY <3>1, <3>2
  <2> QED
    BY <2>1, <2>3
<1> HIDE DEF rest
<1>5. CASE rest = <<>>
  <2> DEFINE R == RemoveAt(levels, i)
             f == [k \in 1 .. Len(levels) - 1 |-> IF k < i THEN k ELSE k + 1]
  <2>1. /\ R \in Seq(Level) /\ Len(R) = Len(levels) - 1
        /\ \A k \in 1 .. Len(levels) - 1 :
             R[k] = IF k < i THEN levels[k] ELSE levels[k + 1]
    BY <1>1, RemoveAtFacts
  <2>2. DOMAIN R = 1 .. Len(levels) - 1
    BY <2>1, LenProperties
  <2>3. /\ f \in [DOMAIN R -> DOMAIN levels]
        /\ \A k \in DOMAIN R : f[k] = IF k < i THEN k ELSE k + 1
    BY <1>1, <2>2
  <2> HIDE DEF R, f
  <2>4. \A k \in DOMAIN R : R[k] = levels[f[k]]
    BY <2>1, <2>2, <2>3
  <2>5. \A k, m \in DOMAIN R : k < m => f[k] < f[m]
    BY <1>1, <2>2, <2>3
  <2>6. Thinned(R, levels)
    <3> USE <2>3 DEF Thinned
    <3> WITNESS f \in [DOMAIN R -> DOMAIN levels]
    <3> QED
      BY <2>3, <2>4, <2>5 DEF NoneEmpty
  <2> QED
    BY <1>5, <2>1, <2>6 DEF DropOrder, rest, R
<1>6. CASE rest # <<>>
  <2> DEFINE e == [levels[i] EXCEPT !.orders = rest, !.total = levels[i].total - q]
             R == [levels EXCEPT ![i] = e]
             f == [k \in DOMAIN levels |-> k]
  <2>1. /\ e \in Level /\ e.orders = rest /\ e.price = levels[i].price
    <3>1. levels[i] \in Level /\ levels[i].total - q \in Int
      BY <1>2 DEF Level
    <3> QED
      BY <1>4, <3>1 DEF Level
  <2> HIDE DEF e
  <2>2. /\ R \in Seq(Level) /\ DOMAIN R = DOMAIN levels
        /\ \A k \in DOMAIN levels : R[k] = IF k = i THEN e ELSE levels[k]
    BY <1>1, <2>1, ExceptSeq
  <2>3. f \in [DOMAIN R -> DOMAIN levels] /\ \A k \in DOMAIN R : f[k] = k
    BY <2>2
  <2>4. DropOrder(levels, i, j, q) = R
    BY <1>6 DEF DropOrder, rest, e
  <2> HIDE DEF R, f
  <2>5. Thinned(R, levels)
    <3> USE <2>3 DEF Thinned
    <3> WITNESS f \in [DOMAIN R -> DOMAIN levels]
    <3> QED
      BY <1>1, <1>4, <1>6, <2>1, <2>2, <2>3 DEF NoneEmpty
  <2> QED
    BY <2>2, <2>4, <2>5
<1> QED
  BY <1>5, <1>6

\* Taking orders and levels out of a sorted slice leaves it sorted.
LEMMA ThinnedSorted ==
  ASSUME NEW s \in Sides, NEW levels \in Seq(Level), NEW R \in Seq(Level),
         Thinned(R, levels), SortedOn(s, levels)
  PROVE  SortedOn(s, R)
<1>1. PICK f \in [DOMAIN R -> DOMAIN levels] :
        /\ \A k, m \in DOMAIN R : k < m => f[k] < f[m]
        /\ \A k \in DOMAIN R : R[k].price = levels[f[k]].price
  BY DEF Thinned
<1> QED
  BY <1>1 DEF SortedOn

\* R is levels with id put into a level of its price, old or new.
Inserted(s, levels, id, R) ==
  /\ R \in Seq(Level)
  /\ SortedOn(s, R)
  /\ \A k \in DOMAIN R :
       \/ /\ R[k].price = order[id].price
          /\ R[k].orders = <<id>>
       \/ /\ R[k].price = order[id].price
          /\ \E i \in DOMAIN levels :
               /\ R[k].price = levels[i].price
               /\ R[k].orders = Append(levels[i].orders, id)
       \/ \E i \in DOMAIN levels : R[k] = levels[i]

\* insertIntoSide keeps a sorted slice sorted, adds at most one price and puts
\* the order, and nothing else, into a level of its price.
LEMMA InsertFacts ==
  ASSUME NEW s \in Sides, NEW levels \in Seq(Level), SortedOn(s, levels),
         NEW id \in Ids, order[id].price \in Prices, order[id].qty \in Nat,
         NEW R, R = InsertIntoSide(s, levels, id)
  PROVE  Inserted(s, levels, id, R)
<1> SUFFICES
        /\ R \in Seq(Level)
        /\ SortedOn(s, R)
        /\ \A k \in DOMAIN R :
             \/ /\ R[k].price = order[id].price
                /\ R[k].orders = <<id>>
             \/ /\ R[k].price = order[id].price
                /\ \E i \in DOMAIN levels :
                     /\ R[k].price = levels[i].price
                     /\ R[k].orders = Append(levels[i].orders, id)
             \/ \E i \in DOMAIN levels : R[k] = levels[i]
  BY DEF Inserted
<1> DEFINE p == order[id].price
           q == order[id].qty
           i == FirstAt(s, levels, p)
<1>1. Len(levels) \in Nat /\ DOMAIN levels = 1 .. Len(levels)
  BY LenProperties
<1>2. \A k \in DOMAIN levels : levels[k] \in Level
  BY <1>1, ElementOfSeq
<1>3. /\ i \in 1 .. Len(levels) + 1
      /\ \A j \in 1 .. i - 1 : Better(s, levels[j].price, p)
      /\ i \in DOMAIN levels => ~Better(s, levels[i].price, p)
  BY FirstAtFacts
<1>4. p \in Nat /\ \A k \in DOMAIN levels : levels[k].price \in Nat
  BY <1>2, PricesAssumption DEF Level
<1> HIDE DEF i
<1>5. CASE i \in DOMAIN levels /\ levels[i].price = p
  <2> DEFINE e == [levels[i] EXCEPT !.orders = Append(levels[i].orders, id),
                                    !.total  = levels[i].total + q]
  <2>1. /\ e \in Level /\ e.orders = Append(levels[i].orders, id)
        /\ e.price = levels[i].price
    <3>1. levels[i] \in Level /\ levels[i].total + q \in Int
      BY <1>2, <1>5 DEF Level
    <3>2. Append(levels[i].orders, id) \in Seq(Ids)
      BY <3>1, AppendProperties DEF Level
    <3> QED
      BY <3>1, <3>2 DEF Level
  <2>2. R = [levels EXCEPT ![i] = e]
    BY <1>5 DEF InsertIntoSide, i
  <2> HIDE DEF e
  <2>3. /\ R \in Seq(Level) /\ DOMAIN R = DOMAIN levels
        /\ \A k \in DOMAIN levels : R[k] = IF k = i THEN e ELSE levels[k]
    BY <1>1, <1>5, <2>1, <2>2, ExceptSeq
  <2>4. SortedOn(s, R)
    BY <2>1, <2>3 DEF SortedOn
  <2> QED
    BY <1>5, <2>1, <2>3, <2>4
<1>6. CASE ~(i \in DOMAIN levels /\ levels[i].price = p)
  <2> DEFINE e == [price |-> p, orders |-> <<id>>, total |-> q]
  <2>1. e \in Level /\ e.price = p /\ e.orders = <<id>>
    BY DEF Level
  <2>2. R = InsertAt(levels, i, e)
    BY <1>6 DEF InsertIntoSide, i
  <2> HIDE DEF e
  <2>3. /\ R \in Seq(Level) /\ Len(R) = Len(levels) + 1
        /\ \A k \in 1 .. Len(levels) + 1 :
             /\ k < i => R[k] = levels[k]
             /\ k = i => R[k] = e
             /\ k > i => R[k] = levels[k - 1]
    <3>1. i \in 1 .. Len(levels) + 1
      BY <1>3
    <3>2. e \in Level
      BY <2>1
    <3>3. InsertAt(levels, i, e) \in Seq(Level)
      BY <3>1, <3>2, InsertAtFacts
    <3>4. Len(R) = Len(levels) + 1
      BY <2>2, <3>1, <3>2, InsertAtFacts DEF PutIn
    <3>5. \A k \in 1 .. Len(levels) + 1 :
            /\ k < i => R[k] = levels[k]
            /\ k = i => R[k] = e
            /\ k > i => R[k] = levels[k - 1]
      BY <2>2, <3>1, <3>2, InsertAtFacts DEF PutIn
    <3> QED
      BY <2>2, <3>3, <3>4, <3>5
  <2>4. DOMAIN R = 1 .. Len(levels) + 1
    BY <2>3, LenProperties
  <2>5. \A j \in DOMAIN levels : i <= j => Better(s, p, levels[j].price)
    <3> SUFFICES ASSUME NEW j \in DOMAIN levels, i <= j
                 PROVE  Better(s, p, levels[j].price)
      OBVIOUS
    <3>1. i \in DOMAIN levels
      BY <1>1, <1>3
    <3>2. Better(s, p, levels[i].price)
      BY <1>3, <1>4, <1>6, <3>1 DEF Better
    <3>3. CASE j = i
      BY <3>2, <3>3
    <3>4. CASE i < j
      BY <1>4, <3>1, <3>2, <3>4 DEF SortedOn, Better
    <3> QED
      BY <1>1, <1>3, <3>3, <3>4
  <2>6. SortedOn(s, R)
    <3> SUFFICES ASSUME NEW k \in 1 .. Len(levels) + 1,
                        NEW m \in 1 .. Len(levels) + 1, k < m
                 PROVE  Better(s, R[k].price, R[m].price)
      BY <2>4 DEF SortedOn
    <3>1. CASE m < i
      BY <1>1, <1>3, <2>3, <3>1 DEF SortedOn
    <3>2. CASE m = i
      BY <1>1, <1>3, <2>1, <2>3, <3>2
    <3>3. CASE i < m /\ k = i
      <4>1. /\ m - 1 \in DOMAIN levels /\ i <= m - 1
            /\ R[m] = levels[m - 1] /\ R[k] = e
        BY <1>1, <1>3, <2>3, <3>3
      <4> QED
        BY <2>1, <2>5, <4>1
    <3>4. CASE i < m /\ k < i
      <4>1. /\ m - 1 \in DOMAIN levels /\ k \in DOMAIN levels /\ k < m - 1
            /\ R[m] = levels[m - 1] /\ R[k] = levels[k]
        BY <1>1, <1>3, <2>3, <3>4
      <4> QED
        BY <4>1 DEF SortedOn
    <3>5. CASE i < k
      <4>1. /\ m - 1 \in DOMAIN levels /\ k - 1 \in DOMAIN levels /\ k - 1 < m - 1
            /\ R[m] = levels[m - 1] /\ R[k] = levels[k - 1]
        BY <1>1, <1>3, <2>3, <3>5
      <4> QED
        BY <4>1 DEF SortedOn
    <3> QED
      BY <1>3, <3>1, <3>2, <3>3, <3>4, <3>5
  <2>7. \A k \in DOMAIN R :
          R[k] = e \/ \E j \in DOMAIN levels : R[k] = levels[j]
    <3> SUFFICES ASSUME NEW k \in 1 .. Len(levels) + 1, k # i
                 PROVE  \E j \in DOMAIN levels : R[k] = levels[j]
      BY <1>3, <2>3, <2>4
    <3>1. CASE k < i
      <4>1. k \in DOMAIN levels /\ R[k] = levels[k]
        BY <1>1, <1>3, <2>3, <3>1
      <4> QED
        BY <4>1
    <3>2. CASE i < k
      <4>1. k - 1 \in DOMAIN levels /\ R[k] = levels[k - 1]
        BY <1>1, <1>3, <2>3, <3>2
      <4> QED
        BY <4>1
    <3> QED
      BY <1>3, <3>1, <3>2
  <2> QED
    BY <2>1, <2>3, <2>6, <2>7
<1> QED
  BY <1>5, <1>6

\* A slice in which no level is empty is a thinning of itself.
LEMMA ThinnedSelf ==
  ASSUME NEW levels \in Seq(Level), NoneEmpty(levels)
  PROVE  Thinned(levels, levels)
<1> DEFINE f == [k \in DOMAIN levels |-> k]
<1>1. f \in [DOMAIN levels -> DOMAIN levels] /\ \A k \in DOMAIN levels : f[k] = k
  OBVIOUS
<1> HIDE DEF f
<1> USE <1>1 DEF Thinned
<1> WITNESS f \in [DOMAIN levels -> DOMAIN levels]
<1> QED
  BY <1>1 DEF NoneEmpty

-----------------------------------------------------------------------------
(* The inductive invariant.                                                *)

\* Every ID in use has been handed out, so NextOrderID never overwrites one.
Issued ==
  /\ waiting \subseteq 2 .. nextID
  /\ taker # NoOrder => taker <= nextID
  /\ \A n \in DOMAIN trades : trades[n].buy <= nextID /\ trades[n].sell <= nextID

\* The part of LevelsHoldTheirOrders that the other conjuncts rest on.
LevelsOwned ==
  \A s \in Sides : \A i \in DOMAIN book[s] :
    /\ book[s][i].orders # <<>>
    /\ \A j \in DOMAIN book[s][i].orders :
         /\ book[s][i].orders[j] <= nextID
         /\ order[book[s][i].orders[j]].side = s
         /\ order[book[s][i].orders[j]].price = book[s][i].price

IInv ==
  /\ TypeOK
  /\ Issued
  /\ LevelsSorted
  /\ LevelsOwned
  /\ Uncrossed
  /\ TradesWithinLimits

\* The side and the limit of an order never change once it has an ID.
SameTerms ==
  \A id \in Ids : id <= nextID =>
    order'[id].side = order[id].side /\ order'[id].price = order[id].price

\* A step that only takes orders and levels out keeps the book's shape.
LEMMA ThinningStep ==
  ASSUME IInv, SameTerms, nextID' = nextID,
         book' \in [Sides -> Seq(Level)],
         \A s \in Sides : Thinned(book'[s], book[s])
  PROVE  LevelsSorted' /\ LevelsOwned' /\ Uncrossed'
<1>1. \A s \in Sides : book[s] \in Seq(Level) /\ book'[s] \in Seq(Level)
  BY DEF IInv, TypeOK
<1>2. LevelsSorted'
  <2>1. \A s \in Sides : SortedOn(s, book[s])
    BY DEF IInv, LevelsSorted, SortedOn
  <2>2. \A s \in Sides : SortedOn(s, book'[s])
    BY <1>1, <2>1, ThinnedSorted
  <2> QED
    BY <2>2 DEF LevelsSorted, SortedOn
<1>3. ASSUME NEW s \in Sides, NEW k \in DOMAIN book'[s]
      PROVE  \E i \in DOMAIN book[s] :
               /\ book'[s][k].price = book[s][i].price
               /\ book'[s][k].orders # <<>>
               /\ \A n \in DOMAIN book'[s][k].orders :
                    \E h \in DOMAIN book[s][i].orders :
                      book'[s][k].orders[n] = book[s][i].orders[h]
  <2>1. PICK f \in [DOMAIN book'[s] -> DOMAIN book[s]] :
          \A m \in DOMAIN book'[s] :
            /\ book'[s][m].price = book[s][f[m]].price
            /\ book'[s][m].orders # <<>>
            /\ \A n \in DOMAIN book'[s][m].orders :
                 \E h \in DOMAIN book[s][f[m]].orders :
                   book'[s][m].orders[n] = book[s][f[m]].orders[h]
    BY DEF Thinned
  <2>2. f[k] \in DOMAIN book[s]
    BY <2>1
  <2> QED
    BY <2>1, <2>2
<1>4. LevelsOwned'
  <2> SUFFICES ASSUME NEW s \in Sides, NEW k \in DOMAIN book'[s]
               PROVE  /\ book'[s][k].orders # <<>>
                      /\ \A n \in DOMAIN book'[s][k].orders :
                           /\ book'[s][k].orders[n] <= nextID
                           /\ order'[book'[s][k].orders[n]].side = s
                           /\ order'[book'[s][k].orders[n]].price
                                = book'[s][k].price
    BY DEF LevelsOwned
  <2>1. PICK i \in DOMAIN book[s] :
               /\ book'[s][k].price = book[s][i].price
               /\ book'[s][k].orders # <<>>
               /\ \A n \in DOMAIN book'[s][k].orders :
                    \E h \in DOMAIN book[s][i].orders :
                      book'[s][k].orders[n] = book[s][i].orders[h]
    BY <1>3
  <2>2. book[s][i].orders \in Seq(Ids)
    <3>1. book[s][i] \in Level
      BY <1>1, ElementIn
    <3> QED
      BY <3>1 DEF Level
  <2>3. \A h \in DOMAIN book[s][i].orders : book[s][i].orders[h] \in Ids
    BY <2>2, ElementIn
  <2> QED
    BY <2>1, <2>3 DEF IInv, LevelsOwned, SameTerms
<1>5. Uncrossed'
  <2> SUFFICES ASSUME NEW k \in DOMAIN book'[Buy], NEW m \in DOMAIN book'[Sell]
               PROVE  book'[Buy][k].price < book'[Sell][m].price
    BY DEF Uncrossed
  <2>1. PICK i \in DOMAIN book[Buy] : book'[Buy][k].price = book[Buy][i].price
    BY <1>3 DEF Sides
  <2>2. PICK j \in DOMAIN book[Sell] : book'[Sell][m].price = book[Sell][j].price
    BY <1>3 DEF Sides
  <2> QED
    BY <2>1, <2>2 DEF IInv, Uncrossed
<1> QED
  BY <1>2, <1>4, <1>5

\* A step without a trade keeps the limits of the trades there are.
LEMMA NoTradeStep ==
  ASSUME IInv, SameTerms, trades' = trades
  PROVE  TradesWithinLimits'
<1>1. \A n \in DOMAIN trades :
        /\ trades[n].buy \in Ids /\ trades[n].buy <= nextID
        /\ trades[n].sell \in Ids /\ trades[n].sell <= nextID
  <2>1. trades \in Seq(Trade)
    BY DEF IInv, TypeOK
  <2>2. \A n \in DOMAIN trades : trades[n] \in Trade
    BY <2>1, ElementIn
  <2> QED
    BY <2>2 DEF IInv, Issued, Trade
<1> QED
  BY <1>1 DEF IInv, TradesWithinLimits, WithinLimit, SameTerms

-----------------------------------------------------------------------------
(* The steps.                                                              *)

\* A side that is not empty has a best level with an order at its head: the
\* bestLevel.Orders[0] of matchAgainst exists.
LEMMA BestLevel ==
  ASSUME IInv, NEW s \in Sides, book[s] # <<>>
  PROVE  /\ 1 \in DOMAIN book[s]
         /\ book[s][1] \in Level
         /\ book[s][1].orders \in Seq(Ids)
         /\ 1 \in DOMAIN book[s][1].orders
         /\ book[s][1].orders[1] \in Ids
<1>1. book[s] \in Seq(Level)
  BY DEF IInv, TypeOK
<1>2. 1 \in DOMAIN book[s]
  BY <1>1, EmptySeq, LenProperties
<1>3. book[s][1] \in Level /\ book[s][1].orders # <<>>
  BY <1>1, <1>2, ElementIn DEF IInv, LevelsOwned
<1>4. book[s][1].orders \in Seq(Ids)
  BY <1>3 DEF Level
<1>5. 1 \in DOMAIN book[s][1].orders
  BY <1>3, <1>4, EmptySeq, LenProperties
<1> QED
  BY <1>2, <1>3, <1>4, <1>5, ElementIn

\* One turn of matchAgainst keeps the invariant: it takes from the best level
\* only, and trades within the limits of the taker and of the maker.
LEMMA MatchStep ==
  ASSUME IInv, Match
  PROVE  IInv'
<1> DEFINE s     == order[taker].side
           best  == book[-s][1]
           maker == best.orders[1]
           q     == FillQty(order[taker].qty, order[maker].qty)
           dropped == DropOrder(book[-s], 1, 1, q)
           reduced == [book[-s] EXCEPT ![1].total = best.total - q]
           trade == [buy   |-> IF s = Buy THEN taker ELSE maker,
                     sell  |-> IF s = Buy THEN maker ELSE taker,
                     price |-> order[maker].price,
                     qty   |-> q]
<1>1. /\ taker \in Ids /\ taker <= nextID
      /\ order[taker] \in Order
      /\ s \in Sides /\ -s \in Sides /\ -s # s
      /\ book[-s] # <<>>
  <2>1. taker \in Ids /\ taker <= nextID /\ order[taker] \in Order
    BY DEF Match, IInv, TypeOK, Issued
  <2>2. s \in Sides
    BY <2>1 DEF Order
  <2>3. -s \in Sides /\ -s # s
    BY <2>2 DEF Sides, Buy, Sell
  <2>4. book[-s] # <<>>
    BY DEF Match, CanMatch, Opposite
  <2> QED
    BY <2>1, <2>2, <2>3, <2>4
<1>2. /\ 1 \in DOMAIN book[-s]
      /\ best \in Level
      /\ 1 \in DOMAIN best.orders
      /\ maker \in Ids
  BY <1>1, BestLevel
<1>3. /\ maker <= nextID /\ order[maker] \in Order
      /\ order[maker].side = -s /\ order[maker].price = best.price
      /\ maker # taker
  BY <1>1, <1>2 DEF IInv, TypeOK, LevelsOwned
<1>4. /\ q \in Nat /\ q <= order[taker].qty /\ q <= order[maker].qty
  <2> DEFINE x == order[taker].qty
             y == order[maker].qty
  <2>1. x \in Nat /\ y \in Nat
    BY <1>1, <1>3 DEF Order
  <2>2. q = IF x < y THEN x ELSE y
    BY DEF FillQty
  <2> HIDE DEF x, y, q
  <2>3. q \in Nat /\ q <= x /\ q <= y
    BY <2>1, <2>2
  <2> QED
    BY <2>3 DEF x, y
<1>5. /\ nextID' = nextID /\ waiting' = waiting /\ taker' = taker
      /\ clock' = clock
      /\ trades' = Append(trades, trade)
      /\ order' = [order EXCEPT ![taker].qty = @ - q, ![maker].qty = @ - q]
      /\ book' = [book EXCEPT ![-s] =
                    IF order[maker].qty = q THEN dropped ELSE reduced]
      /\ index' = IF order[maker].qty = q THEN index \ {maker} ELSE index
  BY DEF Match, Opposite
<1> HIDE DEF q, dropped, reduced
<1>6. order' \in [Ids -> Order] /\ SameTerms
  <2>1. /\ order \in [Ids -> Order]
        /\ order[taker].qty - q \in Nat
        /\ order[maker].qty - q \in Nat
    <3>1. order \in [Ids -> Order]
      BY DEF IInv, TypeOK
    <3> DEFINE x == order[taker].qty
               y == order[maker].qty
    <3>2. x \in Nat /\ y \in Nat
      BY <1>1, <1>3 DEF Order
    <3>3. q \in Nat /\ q <= x /\ q <= y
      BY <1>4
    <3> HIDE DEF x, y
    <3>4. x - q \in Nat /\ y - q \in Nat
      BY <3>2, <3>3
    <3> QED
      BY <3>1, <3>4 DEF x, y
  <2>2. \A id \in Ids :
          order'[id] = IF id = taker \/ id = maker
                       THEN [order[id] EXCEPT !.qty = order[id].qty - q]
                       ELSE order[id]
    BY <1>1, <1>2, <1>3, <1>5, <2>1
  <2>3. DOMAIN order' = Ids
    BY <1>5, <2>1
  <2>4. order' = [id \in Ids |-> order'[id]]
    BY <1>5, <2>1, <2>3
  <2>5. \A id \in Ids : /\ order'[id] \in Order
                        /\ order'[id].side = order[id].side
                        /\ order'[id].price = order[id].price
    <3> SUFFICES ASSUME NEW id \in Ids
                 PROVE  /\ order'[id] \in Order
                        /\ order'[id].side = order[id].side
                        /\ order'[id].price = order[id].price
      OBVIOUS
    <3>1. order[id] \in Order
      BY <2>1
    <3>2. CASE id = taker \/ id = maker
      <4>1. order'[id] = [order[id] EXCEPT !.qty = order[id].qty - q]
        BY <2>2, <3>2
      <4>2. order[id].qty - q \in Nat
        BY <2>1, <3>2
      <4> QED
        BY <3>1, <4>1, <4>2 DEF Order
    <3>3. CASE ~(id = taker \/ id = maker)
      BY <2>2, <3>1, <3>3
    <3> QED
      BY <3>2, <3>3
  <2> QED
    BY <2>4, <2>5 DEF SameTerms
<1>7. /\ book' \in [Sides -> Seq(Level)]
      /\ \A t \in Sides : Thinned(book'[t], book[t])
  <2>1. \A t \in Sides : book[t] \in Seq(Level) /\ NoneEmpty(book[t])
    BY DEF IInv, TypeOK, LevelsOwned, NoneEmpty
  <2>2. \A t \in Sides : Thinned(book[t], book[t])
    BY <2>1, ThinnedSelf
  <2>3. book'[-s] \in Seq(Level) /\ Thinned(book'[-s], book[-s])
    <3>1. CASE order[maker].qty = q
      <4>1. book'[-s] = dropped
        BY <1>1, <1>5, <3>1 DEF IInv, TypeOK
      <4>2. q \in Int
        BY <1>4
      <4>3. book[-s] \in Seq(Level) /\ NoneEmpty(book[-s])
        BY <1>1, <2>1
      <4>4. 1 \in DOMAIN book[-s] /\ 1 \in DOMAIN book[-s][1].orders
        BY <1>2
      <4> QED
        BY <4>1, <4>2, <4>3, <4>4, DropOrderFacts DEF dropped
    <3>2. CASE order[maker].qty # q
      <4>1. book'[-s] = reduced
        BY <1>1, <1>5, <3>2 DEF IInv, TypeOK
      <4>2. best.total - q \in Int
        BY <1>2, <1>4 DEF Level
      <4> QED
        BY <1>1, <1>2, <2>1, <4>1, <4>2, ThinnedTotal DEF reduced
    <3> QED
      BY <3>1, <3>2
  <2>4. \A t \in Sides : t # -s => book'[t] = book[t]
    BY <1>5 DEF IInv, TypeOK
  <2>5. book' = [t \in Sides |-> book'[t]]
    BY <1>5 DEF IInv, TypeOK
  <2> QED
    BY <2>1, <2>2, <2>3, <2>4, <2>5
<1>8. LevelsSorted' /\ LevelsOwned' /\ Uncrossed'
  BY <1>5, <1>6, <1>7, ThinningStep
<1>9. trades' \in Seq(Trade) /\ trade \in Trade
  <2>1. trade \in Trade
    <3>1. best.price \in Prices
      BY <1>2 DEF Level
    <3> QED
      BY <1>1, <1>2, <1>3, <1>4, <3>1 DEF Trade
  <2> QED
    BY <1>5, <2>1, AppendProperties DEF IInv, TypeOK
<1>10. /\ WithinLimit(order[taker], trade.price)
       /\ WithinLimit(order[maker], trade.price)
  <2>1. best.price \in Nat /\ (order[taker].price # NoLimit => order[taker].price \in Nat)
    BY <1>1, <1>2, PricesAssumption DEF Level, Order
  <2>2. order[taker].price # NoLimit => ~Better(s, best.price, order[taker].price)
    BY DEF Match, CanMatch, Opposite
  <2> QED
    BY <1>1, <1>3, <2>1, <2>2 DEF WithinLimit, Better, Sides, Buy, Sell
<1> HIDE DEF trade
<1>11. /\ trades \in Seq(Trade) /\ DOMAIN trades' = 1 .. Len(trades) + 1
       /\ DOMAIN trades = 1 .. Len(trades) /\ Len(trades) \in Nat
       /\ \A n \in 1 .. Len(trades) : trades'[n] = trades[n]
       /\ trades'[Len(trades) + 1] = trade
  <2>1. trades \in Seq(Trade)
    BY DEF IInv, TypeOK
  <2>2. /\ trades' = Append(trades, trade)
        /\ Len(Append(trades, trade)) = Len(trades) + 1
        /\ \A n \in 1 .. Len(trades) : Append(trades, trade)[n] = trades[n]
        /\ Append(trades, trade)[Len(trades) + 1] = trade
    <3>1. trade \in Trade
      BY <1>9
    <3>2. /\ Len(Append(trades, trade)) = Len(trades) + 1
          /\ \A n \in 1 .. Len(trades) : Append(trades, trade)[n] = trades[n]
          /\ Append(trades, trade)[Len(trades) + 1] = trade
      BY <2>1, <3>1, AppendProperties
    <3> QED
      BY <1>5, <3>2
  <2> QED
    BY <1>9, <2>1, <2>2, LenProperties
<1>12. /\ trade.buy \in {taker, maker} /\ trade.sell \in {taker, maker}
  BY DEF trade
<1>13. \A n \in 1 .. Len(trades) :
         /\ trades[n].buy \in Ids /\ trades[n].buy <= nextID
         /\ trades[n].sell \in Ids /\ trades[n].sell <= nextID
         /\ WithinLimit(order[trades[n].buy], trades[n].price)
         /\ WithinLimit(order[trades[n].sell], trades[n].price)
  <2>1. \A n \in 1 .. Len(trades) : trades[n] \in Trade
    BY <1>11, ElementIn
  <2> QED
    BY <1>11, <2>1 DEF IInv, Issued, TradesWithinLimits, Trade
<1>14. Issued'
  <2>1. \A n \in DOMAIN trades' :
          trades'[n].buy <= nextID /\ trades'[n].sell <= nextID
    <3> SUFFICES ASSUME NEW n \in DOMAIN trades'
                 PROVE  trades'[n].buy <= nextID /\ trades'[n].sell <= nextID
      OBVIOUS
    <3>1. CASE n \in 1 .. Len(trades)
      BY <1>11, <1>13, <3>1
    <3>2. CASE n = Len(trades) + 1
      BY <1>1, <1>3, <1>11, <1>12, <3>2
    <3> QED
      BY <1>11, <3>1, <3>2
  <2> QED
    BY <1>5, <2>1 DEF IInv, Issued
<1>15. TradesWithinLimits'
  <2> SUFFICES ASSUME NEW n \in DOMAIN trades'
               PROVE  /\ WithinLimit(order'[trades'[n].buy], trades'[n].price)
                      /\ WithinLimit(order'[trades'[n].sell], trades'[n].price)
    BY DEF TradesWithinLimits
  <2>1. CASE n \in 1 .. Len(trades)
    BY <1>6, <1>11, <1>13, <2>1 DEF SameTerms, WithinLimit
  <2>2. CASE n = Len(trades) + 1
    <3>1. trades'[n] = trade
      BY <1>11, <2>2
    <3>2. ASSUME NEW id \in {taker, maker}
          PROVE  WithinLimit(order'[id], trade.price)
      <4>1. /\ order'[id].side = order[id].side
            /\ order'[id].price = order[id].price
        BY <1>1, <1>2, <1>3, <1>6 DEF SameTerms
      <4>2. WithinLimit(order[id], trade.price)
        BY <1>10
      <4> QED
        BY <4>1, <4>2 DEF WithinLimit
    <3> QED
      BY <1>12, <3>1, <3>2
  <2> QED
    BY <1>11, <2>1, <2>2
<1>16. TypeOK'
  BY <1>5, <1>6, <1>7, <1>9 DEF IInv, TypeOK
<1> QED
  BY <1>8, <1>14, <1>15, <1>16 DEF IInv

\* Resting the remainder in PlaceLimit keeps the invariant; the book stays
\* uncrossed because the matching loop has ended.
LEMMA RestStep ==
  ASSUME IInv, Rest
  PROVE  IInv'
<1> DEFINE s == order[taker].side
           R == InsertIntoSide(s, book[s], taker)
<1>1. /\ taker \in Ids /\ taker <= nextID /\ order[taker] \in Order
      /\ order[taker].price \in Prices /\ order[taker].qty \in Nat
  <2>1. taker \in Ids /\ taker <= nextID /\ order[taker] \in Order
    BY DEF Rest, IInv, TypeOK, Issued
  <2>2. order[taker].price # NoLimit
    BY DEF Rest
  <2> QED
    BY <2>1, <2>2 DEF Order
<1>2. s \in Sides /\ -s \in Sides /\ -s # s
  BY <1>1 DEF Order, Sides, Buy, Sell
<1>3. /\ nextID' = nextID /\ order' = order /\ waiting' = waiting
      /\ clock' = clock /\ trades' = trades
      /\ taker' = NoOrder /\ index' = index \cup {taker}
      /\ book' = [book EXCEPT ![s] = R]
  BY DEF Rest
<1>4. /\ book[s] \in Seq(Level) /\ SortedOn(s, book[s])
      /\ book[-s] \in Seq(Level)
  BY <1>2 DEF IInv, TypeOK, LevelsSorted, SortedOn
<1> HIDE DEF R
<1>5. /\ R \in Seq(Level) /\ SortedOn(s, R)
      /\ \A k \in DOMAIN R :
           \/ /\ R[k].price = order[taker].price
              /\ R[k].orders = <<taker>>
           \/ /\ R[k].price = order[taker].price
              /\ \E i \in DOMAIN book[s] :
                   /\ R[k].price = book[s][i].price
                   /\ R[k].orders = Append(book[s][i].orders, taker)
           \/ \E i \in DOMAIN book[s] : R[k] = book[s][i]
  <2>1. R = InsertIntoSide(s, book[s], taker)
    BY DEF R
  <2>2. Inserted(s, book[s], taker, R)
    BY <1>1, <1>2, <1>4, <2>1, InsertFacts
  <2> QED
    BY <2>2 DEF Inserted
<1>6. /\ book' \in [Sides -> Seq(Level)] /\ book'[s] = R
      /\ \A t \in Sides : t # s => book'[t] = book[t]
  BY <1>2, <1>3, <1>5 DEF IInv, TypeOK
<1>7. TypeOK'
  BY <1>1, <1>3, <1>6 DEF IInv, TypeOK
<1>8. Issued'
  BY <1>3 DEF IInv, Issued
<1>9. LevelsSorted'
  BY <1>5, <1>6 DEF IInv, LevelsSorted, SortedOn
<1>10. ASSUME NEW k \in DOMAIN R
       PROVE  /\ R[k].orders # <<>>
              /\ \A j \in DOMAIN R[k].orders :
                   /\ R[k].orders[j] <= nextID
                   /\ order[R[k].orders[j]].side = s
                   /\ order[R[k].orders[j]].price = R[k].price
  <2>1. CASE R[k].price = order[taker].price /\ R[k].orders = <<taker>>
    BY <1>1, <2>1
  <2>2. ASSUME R[k].price = order[taker].price,
               NEW i \in DOMAIN book[s],
               R[k].price = book[s][i].price,
               R[k].orders = Append(book[s][i].orders, taker)
        PROVE  /\ R[k].orders # <<>>
               /\ \A j \in DOMAIN R[k].orders :
                    /\ R[k].orders[j] <= nextID
                    /\ order[R[k].orders[j]].side = s
                    /\ order[R[k].orders[j]].price = R[k].price
    <3> DEFINE o == book[s][i].orders
    <3>1. o \in Seq(Ids)
      <4>1. book[s][i] \in Level
        BY <1>4, ElementIn
      <4> QED
        BY <4>1 DEF Level
    <3>2. \A j \in DOMAIN o : /\ o[j] <= nextID /\ order[o[j]].side = s
                              /\ order[o[j]].price = R[k].price
      BY <1>2, <2>2 DEF IInv, LevelsOwned
    <3> HIDE DEF o
    <3>3. /\ Append(o, taker) # <<>> /\ Append(o, taker) \in Seq(Ids)
          /\ Len(Append(o, taker)) = Len(o) + 1
          /\ \A j \in 1 .. Len(o) : Append(o, taker)[j] = o[j]
          /\ Append(o, taker)[Len(o) + 1] = taker
      BY <1>1, <3>1, AppendProperties
    <3>4. /\ DOMAIN Append(o, taker) = 1 .. Len(o) + 1
          /\ DOMAIN o = 1 .. Len(o) /\ Len(o) \in Nat
      BY <3>1, <3>3, LenProperties
    <3>5. \A j \in DOMAIN Append(o, taker) :
            /\ Append(o, taker)[j] <= nextID
            /\ order[Append(o, taker)[j]].side = s
            /\ order[Append(o, taker)[j]].price = R[k].price
      <4> SUFFICES ASSUME NEW j \in 1 .. Len(o) + 1
                   PROVE  /\ Append(o, taker)[j] <= nextID
                          /\ order[Append(o, taker)[j]].side = s
                          /\ order[Append(o, taker)[j]].price = R[k].price
        BY <3>4
      <4>1. CASE j \in 1 .. Len(o)
        BY <3>2, <3>3, <3>4, <4>1
      <4>2. CASE j = Len(o) + 1
        BY <1>1, <2>2, <3>3, <4>2
      <4> QED
        BY <3>4, <4>1, <4>2
    <3> QED
      BY <2>2, <3>3, <3>5 DEF o
  <2>3. CASE \E i \in DOMAIN book[s] : R[k] = book[s][i]
    BY <1>2, <2>3 DEF IInv, LevelsOwned
  <2> QED
    BY <1>5, <2>1, <2>2, <2>3
<1>11. LevelsOwned'
  <2> SUFFICES ASSUME NEW t \in Sides, NEW k \in DOMAIN book'[t]
               PROVE  /\ book'[t][k].orders # <<>>
                      /\ \A j \in DOMAIN book'[t][k].orders :
                           /\ book'[t][k].orders[j] <= nextID
                           /\ order[book'[t][k].orders[j]].side = t
                           /\ order[book'[t][k].orders[j]].price
                                = book'[t][k].price
    BY <1>3 DEF LevelsOwned
  <2>1. CASE t = s
    BY <1>6, <1>10, <2>1
  <2>2. CASE t # s
    BY <1>6, <2>2 DEF IInv, LevelsOwned
  <2> QED
    BY <2>1, <2>2
<1>12. \A k \in DOMAIN R :
         R[k].price = order[taker].price
           \/ \E i \in DOMAIN book[s] : R[k].price = book[s][i].price
  BY <1>5
<1>13. \A m \in DOMAIN book[-s] : Better(s, book[-s][m].price, order[taker].price)
  <2> SUFFICES ASSUME NEW m \in DOMAIN book[-s]
               PROVE  Better(s, book[-s][m].price, order[taker].price)
    OBVIOUS
  <2>1. book[-s] # <<>>
    BY <1>4, LenProperties, EmptySeq
  <2>2. Better(s, book[-s][1].price, order[taker].price)
    BY <1>1, <2>1 DEF Rest, CanMatch, Opposite, NoLimit
  <2>3. /\ 1 \in DOMAIN book[-s] /\ book[-s][1].price \in Nat
        /\ book[-s][m].price \in Nat /\ order[taker].price \in Nat
    <3>1. 1 \in DOMAIN book[-s] /\ book[-s][1] \in Level
      BY <1>2, <2>1, BestLevel
    <3>2. book[-s][m] \in Level
      BY <1>4, ElementIn
    <3> QED
      BY <1>1, <3>1, <3>2, PricesAssumption DEF Level
  <2>4. CASE m = 1
    BY <2>2, <2>4
  <2>5. CASE m # 1
    <3>1. 1 < m
      BY <1>4, <2>5, LenProperties
    <3>2. Better(-s, book[-s][1].price, book[-s][m].price)
      BY <1>2, <2>3, <3>1 DEF IInv, LevelsSorted
    <3> QED
      BY <1>2, <2>2, <2>3, <3>2 DEF Better, Sides, Buy, Sell
  <2> QED
    BY <2>4, <2>5
<1>14. Uncrossed'
  <2> SUFFICES ASSUME NEW i \in DOMAIN book'[Buy], NEW j \in DOMAIN book'[Sell]
               PROVE  book'[Buy][i].price < book'[Sell][j].price
    BY DEF Uncrossed
  <2>1. CASE s = Buy
    <3>1. -s = Sell /\ book'[Buy] = R /\ book'[Sell] = book[Sell]
      BY <1>2, <1>6, <2>1 DEF Buy, Sell, Sides
    <3>2. order[taker].price < book[Sell][j].price
      BY <1>13, <2>1, <3>1 DEF Better
    <3> QED
      BY <1>12, <2>1, <3>1, <3>2 DEF IInv, Uncrossed
  <2>2. CASE s = Sell
    <3>1. -s = Buy /\ book'[Sell] = R /\ book'[Buy] = book[Buy]
      BY <1>2, <1>6, <2>2 DEF Buy, Sell, Sides
    <3>2. book[Buy][i].price < order[taker].price
      BY <1>13, <2>2, <3>1 DEF Better, Buy, Sell
    <3> QED
      BY <1>12, <2>2, <3>1, <3>2 DEF IInv, Uncrossed
  <2> QED
    BY <1>2, <2>1, <2>2 DEF Sides
<1>15. TradesWithinLimits'
  BY <1>3, NoTradeStep DEF SameTerms
<1> QED
  BY <1>7, <1>8, <1>9, <1>11, <1>14, <1>15 DEF IInv

\* Cancel keeps the invariant: removeOrder takes out one order of a level.
LEMMA CancelStep ==
  ASSUME IInv, NEW id \in Ids, Cancel(id)
  PROVE  IInv'
<1> DEFINE s == order[id].side
           R == RemoveOrder(book[s], id)
<1>1. s \in Sides /\ order[id].qty \in Nat
  BY DEF IInv, TypeOK, Order
<1>2. /\ nextID' = nextID /\ order' = order /\ waiting' = waiting
      /\ clock' = clock /\ trades' = trades
      /\ taker' = taker /\ index' = index \ {id}
      /\ book' = [book EXCEPT ![s] = R]
  BY DEF Cancel
<1>3. \A t \in Sides : book[t] \in Seq(Level) /\ NoneEmpty(book[t])
  BY DEF IInv, TypeOK, LevelsOwned, NoneEmpty
<1>4. \A t \in Sides : Thinned(book[t], book[t])
  BY <1>3, ThinnedSelf
<1>5. R \in Seq(Level) /\ Thinned(R, book[s])
  <2>1. CASE \E i \in DOMAIN book[s] : Holds(book[s][i], id)
    <3> DEFINE i == CHOOSE i \in DOMAIN book[s] : Holds(book[s][i], id)
               j == CHOOSE j \in DOMAIN book[s][i].orders :
                      book[s][i].orders[j] = id
    <3>1. i \in DOMAIN book[s] /\ Holds(book[s][i], id)
      BY <2>1
    <3>2. j \in DOMAIN book[s][i].orders
      BY <3>1 DEF Holds
    <3>3. R = DropOrder(book[s], i, j, order[id].qty)
      BY <2>1 DEF RemoveOrder
    <3>4. order[id].qty \in Int /\ book[s] \in Seq(Level) /\ NoneEmpty(book[s])
      BY <1>1, <1>3
    <3> HIDE DEF i, j, R
    <3> QED
      BY <3>1, <3>2, <3>3, <3>4, DropOrderFacts
  <2>2. CASE ~\E i \in DOMAIN book[s] : Holds(book[s][i], id)
    <3>1. R = book[s]
      BY <2>2 DEF RemoveOrder
    <3> QED
      BY <1>1, <1>3, <1>4, <3>1
  <2> QED
    BY <2>1, <2>2
<1> HIDE DEF R
<1>6. /\ book' \in [Sides -> Seq(Level)] /\ book'[s] = R
      /\ \A t \in Sides : t # s => book'[t] = book[t]
  BY <1>1, <1>2, <1>5 DEF IInv, TypeOK
<1>7. \A t \in Sides : Thinned(book'[t], book[t])
  BY <1>4, <1>5, <1>6
<1>8. SameTerms
  BY <1>2 DEF SameTerms
<1>9. TypeOK'
  BY <1>2, <1>6 DEF IInv, TypeOK
<1>10. Issued'
  BY <1>2 DEF IInv, Issued
<1> QED
  BY <1>2, <1>6, <1>7, <1>8, <1>9, <1>10, ThinningStep, NoTradeStep DEF IInv

\* Steps that leave the book and the trades alone.
LEMMA OtherSteps ==
  ASSUME IInv, TypeOK', Issued', SameTerms,
         book' = book, trades' = trades, nextID' >= nextID
  PROVE  IInv'
<1>1. LevelsSorted' /\ Uncrossed'
  BY DEF IInv, LevelsSorted, Uncrossed
<1>2. LevelsOwned'
  <2> SUFFICES ASSUME NEW s \in Sides, NEW i \in DOMAIN book[s],
                      NEW j \in DOMAIN book[s][i].orders
               PROVE  /\ book[s][i].orders[j] <= nextID'
                      /\ order'[book[s][i].orders[j]].side = s
                      /\ order'[book[s][i].orders[j]].price = book[s][i].price
    BY DEF IInv, LevelsOwned
  <2>1. book[s][i].orders[j] \in Ids
    <3>1. book[s][i] \in Level
      BY ElementIn DEF IInv, TypeOK
    <3>2. book[s][i].orders \in Seq(Ids)
      BY <3>1 DEF Level
    <3> QED
      BY <3>2, ElementIn
  <2>2. nextID \in Int /\ nextID' \in Int /\ book[s][i].orders[j] \in Int
    BY <2>1 DEF IInv, TypeOK, Ids
  <2> QED
    BY <2>1, <2>2 DEF IInv, LevelsOwned, SameTerms
<1> QED
  BY <1>1, <1>2, NoTradeStep DEF IInv

\* Every call into the book, and every turn of its loop, keeps the invariant.
LEMMA StepKeepsIInv ==
  ASSUME IInv, [Next]_vars
  PROVE  IInv'
<1>1. ASSUME NEW s \in Sides, NEW p \in Prices \cup {NoLimit},
             NEW q \in Quantities, NewOrder(s, p, q)
      PROVE  IInv'
  <2>1. /\ nextID + 1 \in Ids /\ nextID' = nextID + 1
        /\ order' = [order EXCEPT ![nextID + 1] =
                       [side |-> s, price |-> p, qty |-> q, stamp |-> 0]]
        /\ waiting' = waiting \cup {nextID + 1}
        /\ taker' = taker /\ book' = book /\ index' = index
        /\ clock' = clock /\ trades' = trades
    BY <1>1 DEF NewOrder
  <2>2. [side |-> s, price |-> p, qty |-> q, stamp |-> 0] \in Order
    BY QuantitiesAssumption DEF Order
  <2>3. TypeOK'
    BY <2>1, <2>2, MaxOrdersAssumption DEF IInv, TypeOK, Ids
  <2>4. nextID \in Nat
    BY MaxOrdersAssumption DEF IInv, TypeOK
  <2>5. SameTerms
    BY <2>1, <2>4 DEF SameTerms, IInv, TypeOK, Ids
  <2>6. Issued'
    <3>1. /\ waiting' \subseteq 2 .. nextID'
          /\ taker' # NoOrder => taker' <= nextID'
      BY <2>1, <2>4, MaxOrdersAssumption DEF IInv, TypeOK, Issued, Ids, NoOrder
    <3>2. \A n \in DOMAIN trades :
            /\ trades[n].buy \in Nat /\ trades[n].buy <= nextID
            /\ trades[n].sell \in Nat /\ trades[n].sell <= nextID
      <4>1. \A n \in DOMAIN trades : trades[n] \in Trade
        BY ElementIn DEF IInv, TypeOK
      <4> QED
        BY <4>1, MaxOrdersAssumption DEF IInv, Issued, Trade, Ids
    <3> QED
      BY <2>1, <2>4, <3>1, <3>2 DEF Issued
  <2> QED
    BY <2>1, <2>3, <2>4, <2>5, <2>6, OtherSteps
<1>2. ASSUME NEW id \in Ids, Place(id)
      PROVE  IInv'
  <2>1. /\ id \in waiting /\ taker' = id /\ waiting' = waiting \ {id}
        /\ clock' = clock + 1 /\ order' = [order EXCEPT ![id].stamp = clock + 1]
        /\ nextID' = nextID /\ book' = book /\ index' = index /\ trades' = trades
    BY <1>2 DEF Place
  <2>2. order[id] \in Order /\ clock + 1 \in Nat
    BY DEF IInv, TypeOK
  <2>3. [order[id] EXCEPT !.stamp = clock + 1] \in Order
    BY <2>2 DEF Order
  <2>4. order' = [order EXCEPT ![id] = [order[id] EXCEPT !.stamp = clock + 1]]
    BY <2>1
  <2>5. TypeOK'
    BY <2>1, <2>2, <2>3, <2>4 DEF IInv, TypeOK
  <2>6. SameTerms
    <3> SUFFICES ASSUME NEW o \in Ids
                 PROVE  order'[o].side = order[o].side /\ order'[o].price = order[o].price
      BY DEF SameTerms
    <3>1. CASE o = id
      <4>1. order'[o] = [order[o] EXCEPT !.stamp = clock + 1]
        BY <2>4, <3>1 DEF IInv, TypeOK
      <4> QED
        BY <2>2, <3>1, <4>1 DEF Order
    <3>2. CASE o # id
      BY <2>4, <3>2 DEF IInv, TypeOK
    <3> QED
      BY <3>1, <3>2
  <2>7. Issued'
    BY <2>1 DEF IInv, TypeOK, Issued, Ids
  <2>8. nextID' >= nextID
    BY <2>1 DEF IInv, TypeOK
  <2> QED
    BY <2>1, <2>5, <2>6, <2>7, <2>8, OtherSteps
<1>3. ASSUME NEW id \in Ids, Cancel(id)
      PROVE  IInv'
  BY <1>3, CancelStep
<1>4. CASE Match
  BY <1>4, MatchStep
<1>5. CASE Rest
  BY <1>5, RestStep
<1>6. CASE Return
  <2>1. /\ taker' = NoOrder /\ nextID' = nextID /\ order' = order
        /\ waiting' = waiting /\ book' = book /\ index' = index
        /\ clock' = clock /\ trades' = trades
    BY <1>6 DEF Return
  <2>2. TypeOK' /\ Issued' /\ SameTerms /\ nextID' >= nextID
    BY <2>1 DEF IInv, TypeOK, Issued, SameTerms
  <2> QED
    BY <2>1, <2>2, OtherSteps
<1>7. CASE UNCHANGED vars
  <2>1. /\ taker' = taker /\ nextID' = nextID /\ order' = order
        /\ waiting' = waiting /\ book' = book /\ index' = index
        /\ clock' = clock /\ trades' = trades
    BY <1>7 DEF vars
  <2>2. TypeOK' /\ Issued' /\ SameTerms /\ nextID' >= nextID
    BY <2>1 DEF IInv, TypeOK, Issued, SameTerms
  <2> QED
    BY <2>1, <2>2, OtherSteps
<1> QED
  BY <1>1, <1>2, <1>3, <1>4, <1>5, <1>6, <1>7 DEF Next

\* The empty book that NewBook returns satisfies the invariant.
LEMMA InitIInv == Init => IInv
<1> SUFFICES ASSUME Init
             PROVE  IInv
  OBVIOUS
<1>1. TypeOK
  BY MaxOrdersAssumption, EmptySeq
     DEF Init, TypeOK, Order, Sides, Buy, Sell, NoLimit
<1>2. /\ trades = <<>> /\ DOMAIN trades = {}
      /\ \A s \in Sides : DOMAIN book[s] = {}
  BY DEF Init
<1> QED
  BY <1>1, <1>2 DEF Init, IInv, Issued, LevelsSorted, LevelsOwned, Uncrossed,
                    TradesWithinLimits, Sides

\* The invariant holds in every reachable state of the book.
THEOREM Invariance == Spec => []IInv
  BY InitIInv, StepKeepsIInv, PTL DEF Spec

-----------------------------------------------------------------------------
(* What follows from it.                                                   *)

\* The variables of the book keep their types; in particular no fill takes
\* more from an order than it has left (matchAgainst's decimal.Min).
THEOREM TypeCorrect == Spec => []TypeOK
<1>1. IInv => TypeOK
  BY DEF IInv
<1> QED
  BY <1>1, Invariance, PTL

\* insertIntoSide, removeOrder and matchAgainst keep both slices strictly
\* sorted, so a binary search and a look at element 0 are always right.
THEOREM AlwaysSorted == Spec => []LevelsSorted
<1>1. IInv => LevelsSorted
  BY DEF IInv
<1> QED
  BY <1>1, Invariance, PTL

\* PlaceLimit never leaves a bid at or above an ask.
THEOREM NeverCrossed == Spec => []Uncrossed
<1>1. IInv => Uncrossed
  BY DEF IInv
<1> QED
  BY <1>1, Invariance, PTL

\* matchAgainst never trades through the limit of the taker or of the maker.
THEOREM LimitsRespected == Spec => []TradesWithinLimits
<1>1. IInv => TradesWithinLimits
  BY DEF IInv
<1> QED
  BY <1>1, Invariance, PTL

-----------------------------------------------------------------------------
(* The queues: the index and the queues hold the same orders, a level's    *)
(* total is that of its orders, and the book keeps the promise of          *)
(* PriceTimePriority.                                                      *)

-----------------------------------------------------------------------------
(* What is strengthened.                                                   *)

\* The orders of a queue were stamped in the order they stand in it.
StampsRise(o, ids) ==
  \A j, k \in DOMAIN ids : j < k => o[ids[j]].stamp < o[ids[k]].stamp

\* What the orders of a queue have left.
Remaining(o, ids) == SumFunctionOnSet([id \in Ids |-> o[id].qty], Range(ids))

Queued(levels, id) ==
  \E i \in DOMAIN levels : \E j \in DOMAIN levels[i].orders :
    levels[i].orders[j] = id

\* The index holds what the queues hold.
Indexed ==
  \A id \in Ids : id \in index <=> \E s \in Sides : Queued(book[s], id)

\* An order is in one place: on its way, in its call, or in the book; and in
\* the book it has something left.
Apart ==
  /\ taker \notin waiting
  /\ taker \notin index
  /\ index \cap waiting = {}
  /\ \A id \in index : order[id].qty > 0

\* Nothing in the book is stamped later than the order being matched.
Stamped ==
  /\ \A id \in index : order[id].stamp <= clock
  /\ taker # NoOrder =>
       /\ order[taker].stamp <= clock
       /\ \A id \in index : order[id].stamp < order[taker].stamp

QueuesInOrder ==
  \A s \in Sides : \A i \in DOMAIN book[s] :
    StampsRise(order, book[s][i].orders)

TotalsRight ==
  \A s \in Sides : \A i \in DOMAIN book[s] :
    book[s][i].total = Remaining(order, book[s][i].orders)

QInv ==
  /\ IInv
  /\ Indexed
  /\ Apart
  /\ Stamped
  /\ QueuesInOrder
  /\ TotalsRight

-----------------------------------------------------------------------------
(* What the operations on the slices do to the levels and their queues.    *)

\* R is levels without the ones at the indices in gone, and with those in new.
Swapped(R, levels, gone, new) ==
  /\ \A k \in DOMAIN R :
       R[k] \in new \/ \E m \in DOMAIN levels \ gone : R[k] = levels[m]
  /\ \A m \in DOMAIN levels \ gone : \E k \in DOMAIN R : R[k] = levels[m]
  /\ \A e \in new : \E k \in DOMAIN R : R[k] = e

LEMMA SeqDomain ==
  ASSUME NEW S, NEW s \in Seq(S)
  PROVE  Len(s) \in Nat /\ DOMAIN s = 1 .. Len(s)
  BY LenProperties

\* Replacing one level.
LEMMA ReplaceLevel ==
  ASSUME NEW levels \in Seq(Level), NEW i \in DOMAIN levels, NEW e
  PROVE  Swapped([levels EXCEPT ![i] = e], levels, {i}, {e})
<1> DEFINE R == [levels EXCEPT ![i] = e]
<1>1. /\ DOMAIN R = DOMAIN levels
      /\ \A k \in DOMAIN levels : R[k] = IF k = i THEN e ELSE levels[k]
  OBVIOUS
<1> HIDE DEF R
<1>2. Swapped(R, levels, {i}, {e})
  BY <1>1 DEF Swapped
<1> QED
  BY <1>2 DEF R

\* DropOrder changes one level, or takes it out when it has emptied it.
LEMMA DropOrderSwaps ==
  ASSUME NEW levels \in Seq(Level), NEW i \in DOMAIN levels,
         NEW j \in DOMAIN levels[i].orders, NEW q \in Int,
         NEW rest, rest = RemoveAt(levels[i].orders, j)
  PROVE  Swapped(DropOrder(levels, i, j, q), levels, {i},
                 IF rest = <<>> THEN {}
                 ELSE {[levels[i] EXCEPT !.orders = rest,
                                         !.total = levels[i].total - q]})
<1>1. Len(levels) \in Nat /\ DOMAIN levels = 1 .. Len(levels)
  BY SeqDomain
<1>2. CASE rest = <<>>
  <2> DEFINE R == RemoveAt(levels, i)
  <2>1. /\ R \in Seq(Level) /\ Len(R) = Len(levels) - 1
        /\ \A k \in 1 .. Len(levels) - 1 :
             R[k] = IF k < i THEN levels[k] ELSE levels[k + 1]
    BY <1>1, RemoveAtFacts
  <2>2. DOMAIN R = 1 .. Len(levels) - 1
    BY <2>1, SeqDomain
  <2> HIDE DEF R
  <2>3. ASSUME NEW k \in DOMAIN R
        PROVE  \E m \in DOMAIN levels \ {i} : R[k] = levels[m]
    <3>1. CASE k < i
      BY <1>1, <2>1, <2>2, <3>1
    <3>2. CASE ~(k < i)
      <4>1. k + 1 \in DOMAIN levels \ {i} /\ R[k] = levels[k + 1]
        BY <1>1, <2>1, <2>2, <3>2
      <4> QED
        BY <4>1
    <3> QED
      BY <3>1, <3>2
  <2>4. ASSUME NEW m \in DOMAIN levels \ {i}
        PROVE  \E k \in DOMAIN R : R[k] = levels[m]
    <3>1. CASE m < i
      <4>1. m \in DOMAIN R /\ R[m] = levels[m]
        BY <1>1, <2>1, <2>2, <3>1
      <4> QED
        BY <4>1
    <3>2. CASE ~(m < i)
      <4>1. m - 1 \in DOMAIN R /\ R[m - 1] = levels[m]
        BY <1>1, <2>1, <2>2, <3>2
      <4> QED
        BY <4>1
    <3> QED
      BY <3>1, <3>2
  <2>5. Swapped(R, levels, {i}, {})
    BY <2>3, <2>4 DEF Swapped
  <2> QED
    BY <1>2, <2>5 DEF DropOrder, R
<1>3. CASE rest # <<>>
  <2> DEFINE e == [levels[i] EXCEPT !.orders = rest, !.total = levels[i].total - q]
  <2>1. DropOrder(levels, i, j, q) = [levels EXCEPT ![i] = e]
    BY <1>3 DEF DropOrder
  <2> HIDE DEF e
  <2>2. Swapped(DropOrder(levels, i, j, q), levels, {i}, {e})
    BY <2>1, ReplaceLevel
  <2> QED
    BY <1>3, <2>2 DEF e
<1> QED
  BY <1>2, <1>3

\* insertIntoSide extends the level of the order's price, or adds one.
LEMMA InsertSwaps ==
  ASSUME NEW s \in Sides, NEW levels \in Seq(Level), NEW id \in Ids,
         order[id].price \in Prices, order[id].qty \in Nat
  PROVE  \/ \E i \in DOMAIN levels :
              Swapped(InsertIntoSide(s, levels, id), levels, {i},
                      {[levels[i] EXCEPT !.orders = Append(levels[i].orders, id),
                                         !.total = levels[i].total + order[id].qty]})
         \/ Swapped(InsertIntoSide(s, levels, id), levels, {},
                    {[price |-> order[id].price, orders |-> <<id>>,
                      total |-> order[id].qty]})
<1> DEFINE p == order[id].price
           q == order[id].qty
           i == FirstAt(s, levels, p)
<1>1. Len(levels) \in Nat /\ DOMAIN levels = 1 .. Len(levels)
  BY SeqDomain
<1>2. i \in 1 .. Len(levels) + 1
  BY FirstAtFacts
<1> HIDE DEF i
<1>3. CASE i \in DOMAIN levels /\ levels[i].price = p
  <2> DEFINE e == [levels[i] EXCEPT !.orders = Append(levels[i].orders, id),
                                    !.total  = levels[i].total + q]
  <2>1. InsertIntoSide(s, levels, id) = [levels EXCEPT ![i] = e]
    BY <1>3 DEF InsertIntoSide, i
  <2> HIDE DEF e
  <2>2. Swapped(InsertIntoSide(s, levels, id), levels, {i}, {e})
    BY <1>3, <2>1, ReplaceLevel
  <2> QED
    BY <1>3, <2>2 DEF e
<1>4. CASE ~(i \in DOMAIN levels /\ levels[i].price = p)
  <2> DEFINE e == [price |-> p, orders |-> <<id>>, total |-> q]
             R == InsertAt(levels, i, e)
  <2>1. e \in Level
    BY DEF Level
  <2>2. InsertIntoSide(s, levels, id) = R
    BY <1>4 DEF InsertIntoSide, i
  <2> HIDE DEF e
  <2>3. /\ R \in Seq(Level) /\ Len(R) = Len(levels) + 1
        /\ \A k \in 1 .. Len(levels) + 1 :
             /\ k < i => R[k] = levels[k]
             /\ k = i => R[k] = e
             /\ k > i => R[k] = levels[k - 1]
    BY <1>2, <2>1, InsertAtFacts DEF PutIn
  <2>4. DOMAIN R = 1 .. Len(levels) + 1
    BY <2>3, SeqDomain
  <2> HIDE DEF R
  <2>5. ASSUME NEW k \in DOMAIN R, R[k] # e
        PROVE  \E m \in DOMAIN levels : R[k] = levels[m]
    <3>1. CASE k < i
      <4>1. k \in DOMAIN levels /\ R[k] = levels[k]
        BY <1>1, <1>2, <2>3, <2>4, <3>1
      <4> QED
        BY <4>1
    <3>2. CASE k > i
      <4>1. k - 1 \in DOMAIN levels /\ R[k] = levels[k - 1]
        BY <1>1, <1>2, <2>3, <2>4, <3>2
      <4> QED
        BY <4>1
    <3> QED
      BY <1>2, <2>3, <2>4, <2>5, <3>1, <3>2
  <2>6. ASSUME NEW m \in DOMAIN levels
        PROVE  \E k \in DOMAIN R : R[k] = levels[m]
    <3>1. CASE m < i
      <4>1. m \in DOMAIN R /\ R[m] = levels[m]
        BY <1>1, <2>3, <2>4, <3>1
      <4> QED
        BY <4>1
    <3>2. CASE ~(m < i)
      <4>1. m + 1 \in 1 .. Len(levels) + 1 /\ m + 1 > i /\ (m + 1) - 1 = m
        BY <1>1, <1>2, <3>2
      <4>2. m + 1 \in DOMAIN R /\ R[m + 1] = levels[m]
        BY <2>3, <2>4, <4>1
      <4> QED
        BY <4>2
    <3> QED
      BY <3>1, <3>2
  <2>7. i \in DOMAIN R /\ R[i] = e
    BY <1>2, <2>3, <2>4
  <2>8. Swapped(R, levels, {}, {e})
    BY <2>5, <2>6, <2>7 DEF Swapped
  <2> QED
    BY <2>2, <2>8 DEF e
<1> QED
  BY <1>3, <1>4

\* RemoveAt leaves the other elements, in their order.
LEMMA RemoveAtKeeps ==
  ASSUME NEW S, NEW s \in Seq(S), NEW i \in DOMAIN s,
         NEW r, r = RemoveAt(s, i)
  PROVE  /\ r \in Seq(S)
         /\ \A k \in DOMAIN r : \E h \in DOMAIN s \ {i} : r[k] = s[h]
         /\ \A h \in DOMAIN s \ {i} : \E k \in DOMAIN r : r[k] = s[h]
         /\ \A j, k \in DOMAIN r : j < k =>
              \E g, h \in DOMAIN s : g < h /\ r[j] = s[g] /\ r[k] = s[h]
<1>1. Len(s) \in Nat /\ DOMAIN s = 1 .. Len(s)
  BY SeqDomain
<1>2. /\ r \in Seq(S) /\ Len(r) = Len(s) - 1
      /\ \A k \in 1 .. Len(s) - 1 : r[k] = IF k < i THEN s[k] ELSE s[k + 1]
  BY <1>1, RemoveAtFacts
<1>3. DOMAIN r = 1 .. Len(s) - 1
  BY <1>2, SeqDomain
<1> DEFINE from(k) == IF k < i THEN k ELSE k + 1
<1>4. \A k \in DOMAIN r : from(k) \in DOMAIN s \ {i} /\ r[k] = s[from(k)]
  BY <1>1, <1>2, <1>3
<1>5. \A j, k \in DOMAIN r : j < k => from(j) < from(k)
  BY <1>1, <1>3
<1>6. \A h \in DOMAIN s \ {i} : \E k \in DOMAIN r : h = from(k)
  <2> SUFFICES ASSUME NEW h \in DOMAIN s \ {i}
               PROVE  \E k \in DOMAIN r : h = from(k)
    OBVIOUS
  <2>1. CASE h < i
    <3>1. h \in DOMAIN r /\ from(h) = h
      BY <1>1, <1>3, <2>1
    <3> QED
      BY <3>1
  <2>2. CASE ~(h < i)
    <3>1. h - 1 \in DOMAIN r /\ from(h - 1) = h
      BY <1>1, <1>3, <2>2
    <3> QED
      BY <3>1
  <2> QED
    BY <2>1, <2>2
<1> HIDE DEF from
<1>7. \A h \in DOMAIN s \ {i} : \E k \in DOMAIN r : r[k] = s[h]
  BY <1>4, <1>6
<1>8. ASSUME NEW j \in DOMAIN r, NEW k \in DOMAIN r, j < k
      PROVE  \E g, h \in DOMAIN s : g < h /\ r[j] = s[g] /\ r[k] = s[h]
  BY <1>4, <1>5, <1>8
<1> QED
  BY <1>2, <1>4, <1>7, <1>8

-----------------------------------------------------------------------------
(* The queues.                                                             *)

\* A level of the book has a queue of IDs, and each of them was handed out.
LEMMA QueueType ==
  ASSUME IInv, NEW s \in Sides, NEW i \in DOMAIN book[s]
  PROVE  /\ book[s][i] \in Level
         /\ book[s][i].orders \in Seq(Ids)
         /\ book[s][i].total \in Int
         /\ \A j \in DOMAIN book[s][i].orders : book[s][i].orders[j] \in Ids
<1>1. book[s] \in Seq(Level)
  BY DEF IInv, TypeOK
<1>2. book[s][i] \in Level
  BY <1>1, ElementIn
<1>3. book[s][i].orders \in Seq(Ids) /\ book[s][i].total \in Int
  BY <1>2 DEF Level
<1> QED
  BY <1>2, <1>3, ElementIn

\* An order stands in one place of the book only: its side and its price name
\* the level, and its stamp the position.
LEMMA OnePlace ==
  ASSUME IInv, QueuesInOrder,
         NEW s \in Sides, NEW i \in DOMAIN book[s],
         NEW j \in DOMAIN book[s][i].orders,
         NEW t \in Sides, NEW k \in DOMAIN book[t],
         NEW n \in DOMAIN book[t][k].orders,
         book[s][i].orders[j] = book[t][k].orders[n]
  PROVE  s = t /\ i = k /\ j = n
<1> DEFINE id == book[s][i].orders[j]
<1>1. /\ order[id].side = s /\ order[id].price = book[s][i].price
      /\ order[id].side = t /\ order[id].price = book[t][k].price
  BY DEF IInv, LevelsOwned
<1>2. s = t
  BY <1>1
<1>3. i = k
  <2>1. i \in Nat /\ k \in Nat
    <3>1. book[s] \in Seq(Level) /\ book[t] \in Seq(Level)
      BY DEF IInv, TypeOK
    <3> QED
      BY <3>1, SeqDomain
  <2>2. book[s][i].price \in Nat
    BY QueueType, PricesAssumption DEF Level
  <2>3. ~(i < k) /\ ~(k < i)
    BY <1>1, <1>2, <2>2 DEF IInv, LevelsSorted, Better
  <2> QED
    BY <2>1, <2>3
<1>4. j = n
  <2>1. j \in Nat /\ n \in Nat
    <3>1. book[s][i].orders \in Seq(Ids) /\ book[t][k].orders \in Seq(Ids)
      BY QueueType
    <3> QED
      BY <3>1, SeqDomain
  <2>2. order[id].stamp \in Nat
    <3>1. id \in Ids
      BY QueueType
    <3> QED
      BY <3>1 DEF IInv, TypeOK, Order
  <2>3. StampsRise(order, book[s][i].orders)
    BY DEF QueuesInOrder
  <2>4. ~(j < n) /\ ~(n < j)
    BY <1>2, <1>3, <2>2, <2>3 DEF StampsRise
  <2> QED
    BY <2>1, <2>4
<1> QED
  BY <1>2, <1>3, <1>4

\* The IDs of a queue are finitely many.
LEMMA QueueFinite ==
  ASSUME NEW ids \in Seq(Ids)
  PROVE  IsFiniteSet(Range(ids)) /\ Range(ids) \subseteq Ids
<1>1. Range(ids) \subseteq Ids
  <2>1. \A n \in DOMAIN ids : ids[n] \in Ids
    BY ElementIn
  <2> QED
    BY <2>1 DEF Range
<1>2. IsFiniteSet(Ids)
  BY MaxOrdersAssumption, FS_Interval DEF Ids
<1> QED
  BY <1>1, <1>2, FS_Subset

\* What a queue has left depends on the quantities of its orders only.
LEMMA RemainingSame ==
  ASSUME NEW ids \in Seq(Ids), NEW o, NEW o2,
         \A n \in DOMAIN ids : o[ids[n]].qty = o2[ids[n]].qty
  PROVE  Remaining(o, ids) = Remaining(o2, ids)
<1> DEFINE f  == [id \in Ids |-> o[id].qty]
           f2 == [id \in Ids |-> o2[id].qty]
<1>1. IsFiniteSet(Range(ids)) /\ Range(ids) \subseteq Ids
  BY QueueFinite
<1>2. \A id \in Range(ids) : f[id] = f2[id]
  BY <1>1 DEF Range
<1> HIDE DEF f, f2
<1>3. SumFunctionOnSet(f, Range(ids)) = SumFunctionOnSet(f2, Range(ids))
  BY <1>1, <1>2, SumSame
<1> QED
  BY <1>3 DEF Remaining, f, f2

\* Taking an order out of its level: its ID and its quantity are gone from
\* that side of the book, and nothing else is.
Drops(s, i, j, id, R) ==
  /\ s \in Sides
  /\ i \in DOMAIN book[s]
  /\ j \in DOMAIN book[s][i].orders
  /\ id = book[s][i].orders[j]
  /\ R = DropOrder(book[s], i, j, order[id].qty)

LEMMA DropSide ==
  ASSUME QInv, NEW s, NEW i, NEW j, NEW id, NEW R, Drops(s, i, j, id, R)
  PROVE  /\ \A x \in Ids : Queued(R, x) <=> Queued(book[s], x) /\ x # id
         /\ \A k \in DOMAIN R : /\ StampsRise(order, R[k].orders)
                                /\ R[k].total = Remaining(order, R[k].orders)
<1> USE DEF Drops
<1> DEFINE ids  == book[s][i].orders
           rest == RemoveAt(ids, j)
           q    == order[id].qty
           e    == [book[s][i] EXCEPT !.orders = rest, !.total = book[s][i].total - q]
<1>1. /\ IInv /\ book[s] \in Seq(Level)
      /\ book[s][i] \in Level /\ ids \in Seq(Ids) /\ id \in Ids
      /\ order \in [Ids -> Order] /\ q \in Nat
  <2>1. IInv /\ order \in [Ids -> Order] /\ book[s] \in Seq(Level)
    BY DEF QInv, IInv, TypeOK
  <2>2. book[s][i] \in Level /\ ids \in Seq(Ids) /\ id \in Ids
    BY <2>1, QueueType
  <2> QED
    BY <2>1, <2>2 DEF Order
<1>2. /\ rest \in Seq(Ids)
      /\ \A k \in DOMAIN rest : \E h \in DOMAIN ids \ {j} : rest[k] = ids[h]
      /\ \A h \in DOMAIN ids \ {j} : \E k \in DOMAIN rest : rest[k] = ids[h]
      /\ \A a, b \in DOMAIN rest : a < b =>
           \E g, h \in DOMAIN ids : g < h /\ rest[a] = ids[g] /\ rest[b] = ids[h]
  <2>1. rest = RemoveAt(ids, j) /\ j \in DOMAIN ids
    OBVIOUS
  <2> HIDE DEF rest, ids
  <2> QED
    BY <1>1, <2>1, RemoveAtKeeps
<1>3. Swapped(R, book[s], {i}, IF rest = <<>> THEN {} ELSE {e})
  <2>1. q \in Int /\ rest = RemoveAt(book[s][i].orders, j)
    BY <1>1
  <2> HIDE DEF rest
  <2>2. Swapped(DropOrder(book[s], i, j, q), book[s], {i},
                IF rest = <<>> THEN {}
                ELSE {[book[s][i] EXCEPT !.orders = rest,
                                         !.total = book[s][i].total - q]})
    BY <1>1, <2>1, DropOrderSwaps
  <2> QED
    BY <2>2
<1>4. e.orders = rest /\ e.total = book[s][i].total - q
  BY <1>1 DEF Level
<1>5. \A h \in DOMAIN ids : ids[h] = id => h = j
  BY <1>1, OnePlace DEF QInv
<1>6. \A m \in DOMAIN book[s] : \A h \in DOMAIN book[s][m].orders :
        book[s][m].orders[h] = id => m = i
  BY <1>1, OnePlace DEF QInv
<1> HIDE DEF rest, e, ids
<1>7. ASSUME NEW x \in Ids
      PROVE  Queued(R, x) <=> Queued(book[s], x) /\ x # id
  <2>1. ASSUME Queued(R, x)
        PROVE  Queued(book[s], x) /\ x # id
    <3>1. PICK k \in DOMAIN R : \E n \in DOMAIN R[k].orders : R[k].orders[n] = x
      BY <2>1 DEF Queued
    <3>2. CASE R[k] = e /\ rest # <<>>
      <4>1. PICK h \in DOMAIN ids \ {j} : x = ids[h]
        BY <1>2, <1>4, <3>1, <3>2
      <4> QED
        BY <1>5, <4>1 DEF Queued, ids
    <3>3. ASSUME NEW m \in DOMAIN book[s] \ {i}, R[k] = book[s][m]
          PROVE  Queued(book[s], x) /\ x # id
      BY <1>6, <3>1, <3>3 DEF Queued
    <3> QED
      BY <1>3, <3>2, <3>3 DEF Swapped
  <2>2. ASSUME Queued(book[s], x), x # id
        PROVE  Queued(R, x)
    <3>0. PICK m \in DOMAIN book[s] :
            \E h \in DOMAIN book[s][m].orders : book[s][m].orders[h] = x
      BY <2>2 DEF Queued
    <3>1. PICK h \in DOMAIN book[s][m].orders : book[s][m].orders[h] = x
      BY <3>0
    <3>2. CASE m = i
      <4>1. h \in DOMAIN ids \ {j} /\ ids[h] = x
        BY <2>2, <3>1, <3>2 DEF ids
      <4>2. PICK k \in DOMAIN rest : rest[k] = x
        BY <1>2, <4>1
      <4>3. rest # <<>>
        BY <1>2, <4>2, EmptySeq, SeqDomain
      <4>4. PICK n \in DOMAIN R : R[n] = e
        BY <1>3, <4>3 DEF Swapped
      <4> QED
        BY <1>4, <4>2, <4>4 DEF Queued
    <3>3. CASE m # i
      <4>1. PICK k \in DOMAIN R : R[k] = book[s][m]
        BY <1>3, <3>3 DEF Swapped
      <4> QED
        BY <3>1, <4>1 DEF Queued
    <3> QED
      BY <3>2, <3>3
  <2> QED
    BY <2>1, <2>2
<1>8. StampsRise(order, rest)
  <2>1. StampsRise(order, ids)
    BY DEF QInv, QueuesInOrder, ids
  <2> QED
    BY <1>2, <2>1 DEF StampsRise
<1>9. book[s][i].total - q = Remaining(order, rest)
  <2> DEFINE f == [x \in Ids |-> order[x].qty]
  <2>1. Range(rest) = Range(ids) \ {id}
    <3>1. \A x \in Range(rest) : x \in Range(ids) \ {id}
      BY <1>2, <1>5 DEF Range
    <3>2. \A x \in Range(ids) \ {id} : x \in Range(rest)
      <4> SUFFICES ASSUME NEW h \in DOMAIN ids, ids[h] # id
                   PROVE  ids[h] \in Range(rest)
        BY DEF Range
      <4>1. h \in DOMAIN ids \ {j}
        BY DEF ids
      <4> QED
        BY <1>2, <4>1 DEF Range
    <3> QED
      BY <3>1, <3>2
  <2>2. IsFiniteSet(Range(ids)) /\ Range(ids) \subseteq Ids /\ id \in Range(ids)
    BY <1>1, QueueFinite DEF Range, ids
  <2>3. (\A x \in Range(ids) : f[x] \in Int) /\ f[id] = q
    BY <1>1, <2>2 DEF Order
  <2> HIDE DEF f
  <2>4. /\ SumFunctionOnSet(f, Range(ids)) = q + SumFunctionOnSet(f, Range(rest))
        /\ SumFunctionOnSet(f, Range(rest)) \in Int
    <3>1. IsFiniteSet(Range(rest)) /\ \A x \in Range(rest) : f[x] \in Int
      BY <2>1, <2>2, <2>3, FS_Subset
    <3>2. SumFunctionOnSet(f, Range(rest)) \in Int
      BY <3>1, SumInt
    <3> QED
      BY <2>1, <2>2, <2>3, <3>2, SumRemove
  <2>5. book[s][i].total = SumFunctionOnSet(f, Range(ids))
    BY DEF QInv, TotalsRight, Remaining, f, ids
  <2>6. Remaining(order, rest) = SumFunctionOnSet(f, Range(rest))
    BY DEF Remaining, f
  <2> QED
    BY <1>1, <2>4, <2>5, <2>6
<1>10. ASSUME NEW k \in DOMAIN R
       PROVE  /\ StampsRise(order, R[k].orders)
              /\ R[k].total = Remaining(order, R[k].orders)
  <2>1. CASE R[k] = e
    BY <1>4, <1>8, <1>9, <2>1
  <2>2. ASSUME NEW m \in DOMAIN book[s], R[k] = book[s][m]
        PROVE  /\ StampsRise(order, R[k].orders)
               /\ R[k].total = Remaining(order, R[k].orders)
    BY <2>2 DEF QInv, QueuesInOrder, TotalsRight
  <2> QED
    BY <1>3, <2>1, <2>2 DEF Swapped
<1> QED
  BY <1>7, <1>10

\* What stands in a queue is in the index, and stamped before the order being
\* matched, which is in no queue.
LEMMA QueuedFacts ==
  ASSUME QInv, NEW s \in Sides, NEW i \in DOMAIN book[s],
         NEW j \in DOMAIN book[s][i].orders
  PROVE  /\ book[s][i].orders[j] \in index
         /\ book[s][i].orders[j] # taker
         /\ book[s][i].orders[j] \notin waiting
         /\ order[book[s][i].orders[j]].side = s
         /\ order[book[s][i].orders[j]].price = book[s][i].price
         /\ order[book[s][i].orders[j]].qty > 0
         /\ taker # NoOrder =>
              order[book[s][i].orders[j]].stamp < order[taker].stamp
<1>1. book[s][i].orders[j] \in Ids
  BY QueueType DEF QInv
<1>2. Queued(book[s], book[s][i].orders[j])
  BY DEF Queued
<1>3. book[s][i].orders[j] \in index
  BY <1>1, <1>2 DEF QInv, Indexed
<1> QED
  BY <1>3 DEF QInv, Apart, Stamped, IInv, LevelsOwned

\* And what is in the index stands in a queue of its side.
LEMMA IndexQueued ==
  ASSUME QInv, NEW id \in index
  PROVE  /\ id \in Ids /\ id <= nextID
         /\ order[id].side \in Sides
         /\ Queued(book[order[id].side], id)
<1>1. id \in Ids
  BY DEF QInv, IInv, TypeOK
<1>2. PICK s \in Sides : Queued(book[s], id)
  BY <1>1 DEF QInv, Indexed
<1> QED
  BY <1>1, <1>2 DEF QInv, IInv, LevelsOwned, Queued

\* A queue that is one longer by an order stamped later than all others.
LEMMA AppendQueue ==
  ASSUME IInv, NEW ids \in Seq(Ids), NEW id \in Ids,
         \A n \in DOMAIN ids : ids[n] # id /\ order[ids[n]].stamp < order[id].stamp,
         StampsRise(order, ids)
  PROVE  /\ \A x : (\E n \in DOMAIN Append(ids, id) : Append(ids, id)[n] = x)
                     <=> x = id \/ \E n \in DOMAIN ids : ids[n] = x
         /\ StampsRise(order, Append(ids, id))
         /\ Remaining(order, Append(ids, id)) = Remaining(order, ids) + order[id].qty
<1> DEFINE r == Append(ids, id)
           f == [x \in Ids |-> order[x].qty]
<1>1. /\ Len(ids) \in Nat /\ DOMAIN ids = 1 .. Len(ids)
      /\ r \in Seq(Ids) /\ Len(r) = Len(ids) + 1
      /\ \A n \in 1 .. Len(ids) : r[n] = ids[n]
      /\ r[Len(ids) + 1] = id
  BY SeqDomain, AppendProperties
<1>2. DOMAIN r = 1 .. Len(ids) + 1
  BY <1>1, SeqDomain
<1> HIDE DEF r
<1>3. \A n \in DOMAIN r : (n \in DOMAIN ids /\ r[n] = ids[n]) \/ n = Len(ids) + 1
  BY <1>1, <1>2
<1>4. /\ \A n \in DOMAIN ids : n \in DOMAIN r /\ r[n] = ids[n]
      /\ Len(ids) + 1 \in DOMAIN r
  BY <1>1, <1>2
<1>5. \A x : (\E n \in DOMAIN r : r[n] = x)
               <=> x = id \/ \E n \in DOMAIN ids : ids[n] = x
  <2> SUFFICES ASSUME NEW x
               PROVE  (\E n \in DOMAIN r : r[n] = x)
                        <=> x = id \/ \E n \in DOMAIN ids : ids[n] = x
    OBVIOUS
  <2>1. ASSUME NEW n \in DOMAIN r, r[n] = x
        PROVE  x = id \/ \E m \in DOMAIN ids : ids[m] = x
    BY <1>1, <1>3, <2>1
  <2>2. CASE x = id
    BY <1>1, <1>4, <2>2
  <2>3. ASSUME NEW n \in DOMAIN ids, ids[n] = x
        PROVE  \E m \in DOMAIN r : r[m] = x
    BY <1>4, <2>3
  <2> QED
    BY <2>1, <2>2, <2>3
<1>6. StampsRise(order, r)
  <2> SUFFICES ASSUME NEW j \in DOMAIN r, NEW k \in DOMAIN r, j < k
               PROVE  order[r[j]].stamp < order[r[k]].stamp
    BY DEF StampsRise
  <2>1. j \in DOMAIN ids /\ r[j] = ids[j]
    BY <1>1, <1>2
  <2>2. CASE k = Len(ids) + 1
    BY <1>1, <2>1, <2>2
  <2>3. CASE k \in DOMAIN ids
    BY <1>4, <2>1, <2>3 DEF StampsRise
  <2> QED
    BY <1>3, <2>2, <2>3
<1>7. Range(r) = Range(ids) \cup {id}
  BY <1>5 DEF Range
<1>8. /\ IsFiniteSet(Range(ids)) /\ id \notin Range(ids)
      /\ Range(ids) \subseteq Ids
      /\ f[id] = order[id].qty
      /\ \A x \in Range(ids) \cup {id} : f[x] \in Int
  <2>1. IsFiniteSet(Range(ids)) /\ Range(ids) \subseteq Ids
    BY QueueFinite
  <2>2. \A x \in Ids : order[x].qty \in Int
    BY DEF IInv, TypeOK, Order
  <2> QED
    BY <2>1, <2>2 DEF Range
<1> HIDE DEF f
<1>9. /\ SumFunctionOnSet(f, Range(ids) \cup {id})
           = f[id] + SumFunctionOnSet(f, Range(ids))
      /\ SumFunctionOnSet(f, Range(ids)) \in Int
  BY <1>8, SumAddElement, SumInt
<1>10. Remaining(order, r) = Remaining(order, ids) + order[id].qty
  <2>1. /\ Remaining(order, r) = SumFunctionOnSet(f, Range(r))
        /\ Remaining(order, ids) = SumFunctionOnSet(f, Range(ids))
    BY DEF Remaining, f
  <2>2. f[id] \in Int
    BY <1>8
  <2> QED
    BY <1>7, <1>8, <1>9, <2>1, <2>2
<1> QED
  BY <1>5, <1>6, <1>10 DEF r

\* The order being matched joins the queue `old` of the level in gone, or an
\* empty queue: level e of R is the one it is in.
Joins(s, R, gone, e, old) ==
  /\ Swapped(R, book[s], gone, {e})
  /\ e.orders = Append(old, taker)
  /\ e.total = Remaining(order, old) + order[taker].qty
  /\ gone \subseteq DOMAIN book[s]
  /\ \A m \in gone : old = book[s][m].orders
  /\ old = <<>> \/ gone # {}
  /\ old \in Seq(Ids)

LEMMA JoinQueue ==
  ASSUME QInv, taker # NoOrder, order[taker].qty \in Nat,
         NEW s \in Sides, NEW R, NEW gone, NEW e, NEW old,
         Joins(s, R, gone, e, old)
  PROVE  /\ \A x \in Ids : Queued(R, x) <=> Queued(book[s], x) \/ x = taker
         /\ \A k \in DOMAIN R : /\ StampsRise(order, R[k].orders)
                                /\ R[k].total = Remaining(order, R[k].orders)
<1> USE DEF Joins
<1>1. /\ \A n \in DOMAIN old :
           old[n] # taker /\ order[old[n]].stamp < order[taker].stamp
      /\ StampsRise(order, old)
      /\ \A x : (\E n \in DOMAIN old : old[n] = x) => Queued(book[s], x)
  <2>1. CASE old = <<>>
    BY <2>1 DEF StampsRise
  <2>2. CASE gone # {}
    <3>1. PICK m \in DOMAIN book[s] : old = book[s][m].orders
      BY <2>2
    <3>2. \A n \in DOMAIN old :
            old[n] # taker /\ order[old[n]].stamp < order[taker].stamp
      BY <3>1, QueuedFacts
    <3> QED
      BY <3>1, <3>2 DEF QInv, QueuesInOrder, Queued
  <2> QED
    BY <2>1, <2>2
<1>2. /\ \A x : (\E n \in DOMAIN e.orders : e.orders[n] = x)
                  <=> x = taker \/ \E n \in DOMAIN old : old[n] = x
      /\ StampsRise(order, e.orders)
      /\ e.total = Remaining(order, e.orders)
  <2>1. IInv /\ taker \in Ids
    BY DEF QInv, IInv, TypeOK
  <2>2. /\ \A x : (\E n \in DOMAIN Append(old, taker) : Append(old, taker)[n] = x)
                    <=> x = taker \/ \E n \in DOMAIN old : old[n] = x
        /\ StampsRise(order, Append(old, taker))
        /\ Remaining(order, Append(old, taker))
             = Remaining(order, old) + order[taker].qty
    BY <1>1, <2>1, AppendQueue
  <2> QED
    BY <2>2
<1>3. ASSUME NEW x \in Ids, Queued(R, x)
      PROVE  Queued(book[s], x) \/ x = taker
  <2>1. PICK k \in DOMAIN R : \E n \in DOMAIN R[k].orders : R[k].orders[n] = x
    BY <1>3 DEF Queued
  <2>2. CASE R[k] = e
    BY <1>1, <1>2, <2>1, <2>2
  <2>3. CASE \E m \in DOMAIN book[s] : R[k] = book[s][m]
    BY <2>1, <2>3 DEF Queued
  <2> QED
    BY <2>2, <2>3 DEF Swapped
<1>4. PICK last \in DOMAIN R : R[last] = e
  BY DEF Swapped
<1>5. ASSUME NEW x \in Ids, Queued(book[s], x)
      PROVE  Queued(R, x)
  <2>1. PICK m \in DOMAIN book[s] :
          \E n \in DOMAIN book[s][m].orders : book[s][m].orders[n] = x
    BY <1>5 DEF Queued
  <2>2. CASE m \in gone
    <3>1. \E n \in DOMAIN e.orders : e.orders[n] = x
      BY <1>2, <2>1, <2>2
    <3> QED
      BY <1>4, <3>1 DEF Queued
  <2>3. CASE m \notin gone
    <3>1. PICK k \in DOMAIN R : R[k] = book[s][m]
      BY <2>3 DEF Swapped
    <3> QED
      BY <2>1, <3>1 DEF Queued
  <2> QED
    BY <2>2, <2>3
<1>6. Queued(R, taker)
  <2>1. \E n \in DOMAIN e.orders : e.orders[n] = taker
    BY <1>2
  <2> QED
    BY <1>4, <2>1 DEF Queued
<1>7. ASSUME NEW k \in DOMAIN R
      PROVE  /\ StampsRise(order, R[k].orders)
             /\ R[k].total = Remaining(order, R[k].orders)
  <2>1. CASE R[k] = e
    BY <1>2, <2>1
  <2>2. ASSUME NEW m \in DOMAIN book[s], R[k] = book[s][m]
        PROVE  /\ StampsRise(order, R[k].orders)
               /\ R[k].total = Remaining(order, R[k].orders)
    BY <2>2 DEF QInv, QueuesInOrder, TotalsRight
  <2> QED
    BY <2>1, <2>2 DEF Swapped
<1> QED
  BY <1>3, <1>5, <1>6, <1>7

\* Resting the order that was matched: it is last in its queue.
LEMMA InsertSide ==
  ASSUME QInv, taker # NoOrder, order[taker].price # NoLimit,
         NEW s \in Sides, s = order[taker].side,
         NEW R, R = InsertIntoSide(s, book[s], taker)
  PROVE  /\ \A x \in Ids : Queued(R, x) <=> Queued(book[s], x) \/ x = taker
         /\ \A k \in DOMAIN R : /\ StampsRise(order, R[k].orders)
                                /\ R[k].total = Remaining(order, R[k].orders)
<1>1. /\ IInv /\ book[s] \in Seq(Level)
      /\ taker \in Ids /\ order[taker] \in Order
      /\ order[taker].price \in Prices /\ order[taker].qty \in Nat
  <2>1. IInv /\ book[s] \in Seq(Level) /\ taker \in Ids /\ order[taker] \in Order
    BY DEF QInv, IInv, TypeOK
  <2> QED
    BY <2>1 DEF Order
<1>2. ASSUME NEW i \in DOMAIN book[s],
             Swapped(R, book[s], {i},
                     {[book[s][i] EXCEPT !.orders = Append(book[s][i].orders, taker),
                                         !.total = book[s][i].total + order[taker].qty]})
      PROVE  /\ \A x \in Ids : Queued(R, x) <=> Queued(book[s], x) \/ x = taker
             /\ \A k \in DOMAIN R : /\ StampsRise(order, R[k].orders)
                                    /\ R[k].total = Remaining(order, R[k].orders)
  <2> DEFINE e == [book[s][i] EXCEPT !.orders = Append(book[s][i].orders, taker),
                                     !.total = book[s][i].total + order[taker].qty]
             old == book[s][i].orders
             gone == {i}
  <2>1. book[s][i] \in Level /\ old \in Seq(Ids)
    BY <1>1, QueueType
  <2>2. e.orders = Append(old, taker)
    BY <2>1 DEF Level
  <2>3. e.total = Remaining(order, old) + order[taker].qty
    BY <2>1 DEF QInv, TotalsRight, Level
  <2>4. Swapped(R, book[s], gone, {e})
    BY <1>2
  <2>5. /\ \A m \in gone : old = book[s][m].orders
        /\ gone # {} /\ gone \in SUBSET (DOMAIN book[s])
    OBVIOUS
  <2> HIDE DEF e, old, gone
  <2>6. Joins(s, R, gone, e, old)
    BY <2>1, <2>2, <2>3, <2>4, <2>5 DEF Joins
  <2> QED
    BY <1>1, <2>6, JoinQueue
<1>3. ASSUME Swapped(R, book[s], {},
                     {[price |-> order[taker].price, orders |-> <<taker>>,
                       total |-> order[taker].qty]})
      PROVE  /\ \A x \in Ids : Queued(R, x) <=> Queued(book[s], x) \/ x = taker
             /\ \A k \in DOMAIN R : /\ StampsRise(order, R[k].orders)
                                    /\ R[k].total = Remaining(order, R[k].orders)
  <2> DEFINE e == [price |-> order[taker].price, orders |-> <<taker>>,
                   total |-> order[taker].qty]
             old == <<>>
             gone == {}
  <2>1. e.orders = Append(old, taker) /\ old \in Seq(Ids)
    OBVIOUS
  <2>2. e.total = Remaining(order, old) + order[taker].qty
    <3>1. Range(<<>>) = {}
      BY DEF Range
    <3>2. Remaining(order, <<>>) = 0
      BY <3>1, SumEmpty DEF Remaining
    <3> QED
      BY <1>1, <3>2
  <2>3. Swapped(R, book[s], gone, {e})
    BY <1>3
  <2>4. /\ \A m \in gone : old = book[s][m].orders
        /\ old = <<>> /\ gone \in SUBSET (DOMAIN book[s])
    OBVIOUS
  <2> HIDE DEF e, old, gone
  <2>5. Joins(s, R, gone, e, old)
    BY <2>1, <2>2, <2>3, <2>4 DEF Joins
  <2> QED
    BY <1>1, <2>5, JoinQueue
<1> QED
  BY <1>1, <1>2, <1>3, InsertSwaps

-----------------------------------------------------------------------------
(* The steps.                                                              *)

\* The queues and the totals after a step are right when they are so for the
\* stamps and quantities before it, and the step changes none of the orders
\* that stay in the book.
LEMMA QueuesStep ==
  ASSUME QInv, TypeOK', Indexed',
         \A s \in Sides : \A k \in DOMAIN book'[s] :
           /\ StampsRise(order, book'[s][k].orders)
           /\ book'[s][k].total = Remaining(order, book'[s][k].orders),
         \A id \in index' : /\ order'[id].stamp = order[id].stamp
                            /\ order'[id].qty = order[id].qty
  PROVE  QueuesInOrder' /\ TotalsRight'
<1> SUFFICES ASSUME NEW s \in Sides, NEW k \in DOMAIN book'[s]
             PROVE  /\ StampsRise(order', book'[s][k].orders)
                    /\ book'[s][k].total = Remaining(order', book'[s][k].orders)
  BY DEF QueuesInOrder, TotalsRight
<1> DEFINE ids == book'[s][k].orders
<1>1. ids \in Seq(Ids)
  <2>1. book'[s] \in Seq(Level)
    BY DEF TypeOK
  <2>2. book'[s][k] \in Level
    BY <2>1, ElementIn
  <2> QED
    BY <2>2 DEF Level
<1>2. \A n \in DOMAIN ids : /\ order'[ids[n]].stamp = order[ids[n]].stamp
                            /\ order'[ids[n]].qty = order[ids[n]].qty
  <2> SUFFICES ASSUME NEW n \in DOMAIN ids
               PROVE  ids[n] \in index'
    OBVIOUS
  <2>1. Queued(book'[s], ids[n])
    BY DEF Queued
  <2>2. ids[n] \in Ids
    BY <1>1, ElementIn
  <2> QED
    BY <2>1, <2>2 DEF Indexed
<1>3. StampsRise(order, ids) /\ book'[s][k].total = Remaining(order, ids)
  OBVIOUS
<1> HIDE DEF ids
<1>4. StampsRise(order', ids)
  BY <1>2, <1>3 DEF StampsRise
<1>5. Remaining(order', ids) = Remaining(order, ids)
  BY <1>1, <1>2, RemainingSame
<1> QED
  BY <1>3, <1>4, <1>5 DEF ids

\* Steps that leave the book and its orders alone.
LEMMA QuietStep ==
  ASSUME QInv, TypeOK', book' = book, index' = index,
         \A id \in index : /\ order'[id].stamp = order[id].stamp
                           /\ order'[id].qty = order[id].qty
  PROVE  Indexed' /\ QueuesInOrder' /\ TotalsRight'
<1>1. Indexed'
  BY DEF QInv, Indexed
<1> QED
  BY <1>1, QueuesStep DEF QInv, QueuesInOrder, TotalsRight

LEMMA NewOrderQInv ==
  ASSUME QInv, IInv', NEW s \in Sides, NEW p \in Prices \cup {NoLimit},
         NEW q \in Quantities, NewOrder(s, p, q)
  PROVE  QInv'
<1>1. /\ nextID + 1 \in Ids
      /\ order' = [order EXCEPT ![nextID + 1] =
                     [side |-> s, price |-> p, qty |-> q, stamp |-> 0]]
      /\ waiting' = waiting \cup {nextID + 1}
      /\ taker' = taker /\ book' = book /\ index' = index /\ clock' = clock
  BY DEF NewOrder
<1>2. nextID \in Nat /\ order \in [Ids -> Order] /\ TypeOK'
  BY MaxOrdersAssumption DEF QInv, IInv, TypeOK
<1>3. nextID + 1 \notin index /\ nextID + 1 # taker
  <2>1. ASSUME nextID + 1 \in index
        PROVE  FALSE
    BY <1>2, <2>1, IndexQueued
  <2>2. taker # NoOrder => taker <= nextID
    BY DEF QInv, IInv, Issued
  <2> QED
    BY <1>2, <2>1, <2>2 DEF NoOrder
<1>4. \A id \in Ids : id # nextID + 1 => order'[id] = order[id]
  BY <1>1, <1>2
<1>5. index \subseteq Ids /\ taker \in Ids \cup {NoOrder}
  BY DEF QInv, IInv, TypeOK
<1>6. Indexed' /\ QueuesInOrder' /\ TotalsRight'
  <2>1. \A id \in index : /\ order'[id].stamp = order[id].stamp
                          /\ order'[id].qty = order[id].qty
    BY <1>3, <1>4, <1>5
  <2> QED
    BY <1>1, <1>2, <2>1, QuietStep
<1>7. Apart'
  BY <1>1, <1>3, <1>4, <1>5 DEF QInv, Apart
<1>8. Stamped'
  BY <1>1, <1>3, <1>4, <1>5 DEF QInv, Stamped
<1> QED
  BY <1>6, <1>7, <1>8 DEF QInv

LEMMA PlaceQInv ==
  ASSUME QInv, IInv', NEW id \in Ids, Place(id)
  PROVE  QInv'
<1>1. /\ taker = NoOrder /\ id \in waiting /\ taker' = id
      /\ waiting' = waiting \ {id} /\ clock' = clock + 1
      /\ order' = [order EXCEPT ![id].stamp = clock + 1]
      /\ book' = book /\ index' = index
  BY DEF Place
<1>2. /\ order \in [Ids -> Order] /\ TypeOK' /\ clock \in Nat
      /\ index \subseteq Ids
  BY DEF QInv, IInv, TypeOK
<1>3. id \notin index
  BY <1>1 DEF QInv, Apart
<1>4. /\ \A o \in Ids : o # id => order'[o] = order[o]
      /\ order'[id].stamp = clock + 1
  <2>1. order' = [order EXCEPT ![id] = [order[id] EXCEPT !.stamp = clock + 1]]
    BY <1>1
  <2>2. order[id] \in Order
    BY <1>2
  <2> QED
    BY <1>2, <2>1, <2>2 DEF Order
<1>5. \A o \in index : order'[o] = order[o]
  BY <1>2, <1>3, <1>4
<1>6. Indexed' /\ QueuesInOrder' /\ TotalsRight'
  BY <1>1, <1>2, <1>5, QuietStep
<1>7. Apart'
  BY <1>1, <1>3, <1>5 DEF QInv, Apart
<1>8. Stamped'
  <2>1. \A o \in index : order[o].stamp <= clock /\ order[o].stamp \in Nat
    BY <1>2 DEF QInv, Stamped, Order
  <2>2. /\ \A o \in index' : order'[o].stamp <= clock'
        /\ \A o \in index' : order'[o].stamp < clock'
    <3> SUFFICES ASSUME NEW o \in index
                 PROVE  order'[o].stamp < clock'
      BY <1>1, <1>2, <1>5, <2>1
    <3>1. order'[o].stamp = order[o].stamp
      BY <1>5
    <3>2. order[o].stamp <= clock /\ order[o].stamp \in Nat
      BY <2>1
    <3> HIDE DEF QInv
    <3> QED
      BY <1>1, <1>2, <3>1, <3>2
  <2>3. order'[taker'].stamp = clock' /\ clock' \in Nat
    BY <1>1, <1>2, <1>4
  <2> QED
    BY <2>2, <2>3 DEF Stamped
<1> QED
  BY <1>6, <1>7, <1>8 DEF QInv

LEMMA ReturnQInv ==
  ASSUME QInv, IInv', Return
  PROVE  QInv'
<1>1. /\ taker' = NoOrder /\ order' = order /\ waiting' = waiting
      /\ book' = book /\ index' = index /\ clock' = clock
  BY DEF Return
<1>2. TypeOK' /\ NoOrder \notin Ids
  BY DEF IInv, NoOrder, Ids
<1>3. waiting \subseteq Ids /\ index \subseteq Ids
  BY DEF QInv, IInv, TypeOK
<1>4. Indexed' /\ QueuesInOrder' /\ TotalsRight'
  BY <1>1, <1>2, QuietStep
<1>5. Apart' /\ Stamped'
  BY <1>1, <1>2, <1>3 DEF QInv, Apart, Stamped
<1> QED
  BY <1>4, <1>5 DEF QInv

LEMMA RestQInv ==
  ASSUME QInv, IInv', Rest
  PROVE  QInv'
<1> DEFINE s == order[taker].side
           R == InsertIntoSide(s, book[s], taker)
<1>1. /\ taker # NoOrder /\ order[taker].price # NoLimit /\ order[taker].qty > 0
      /\ book' = [book EXCEPT ![s] = R] /\ index' = index \cup {taker}
      /\ taker' = NoOrder /\ order' = order /\ waiting' = waiting
      /\ clock' = clock
  BY DEF Rest
<1>2. /\ taker \in Ids /\ s \in Sides /\ TypeOK' /\ NoOrder \notin Ids
      /\ index \subseteq Ids /\ waiting \subseteq Ids
      /\ DOMAIN book = Sides
  BY <1>1 DEF QInv, IInv, TypeOK, Order, NoOrder, Ids
<1>3. /\ \A x \in Ids : Queued(R, x) <=> Queued(book[s], x) \/ x = taker
      /\ \A k \in DOMAIN R : /\ StampsRise(order, R[k].orders)
                             /\ R[k].total = Remaining(order, R[k].orders)
  <2>1. R = InsertIntoSide(s, book[s], taker)
    OBVIOUS
  <2> HIDE DEF R
  <2> QED
    BY <1>1, <1>2, <2>1, InsertSide
<1> HIDE DEF R
<1>4. book'[s] = R /\ \A t \in Sides : t # s => book'[t] = book[t]
  BY <1>1, <1>2
<1>5. Indexed'
  BY <1>1, <1>2, <1>3, <1>4 DEF QInv, Indexed
<1>6. QueuesInOrder' /\ TotalsRight'
  <2>1. \A t \in Sides : \A k \in DOMAIN book'[t] :
           /\ StampsRise(order, book'[t][k].orders)
           /\ book'[t][k].total = Remaining(order, book'[t][k].orders)
    BY <1>3, <1>4 DEF QInv, QueuesInOrder, TotalsRight
  <2> QED
    BY <1>1, <1>2, <1>5, <2>1, QueuesStep
<1>7. Apart' /\ Stamped'
  BY <1>1, <1>2 DEF QInv, Apart, Stamped
<1> QED
  BY <1>5, <1>6, <1>7 DEF QInv

\* removeOrder finds an order that is in the index: it scans the level of the
\* order's price, and that is where the order stands.
LEMMA RemoveFinds ==
  ASSUME QInv, NEW id \in index, NEW s \in Sides, s = order[id].side
  PROVE  \E i \in DOMAIN book[s] : \E j \in DOMAIN book[s][i].orders :
           /\ book[s][i].orders[j] = id
           /\ RemoveOrder(book[s], id) = DropOrder(book[s], i, j, order[id].qty)
<1> DEFINE i == CHOOSE i \in DOMAIN book[s] : Holds(book[s][i], id)
           j == CHOOSE j \in DOMAIN book[s][i].orders : book[s][i].orders[j] = id
<1>1. \E m \in DOMAIN book[s] : Holds(book[s][m], id)
  <2>1. PICK m \in DOMAIN book[s] :
          \E n \in DOMAIN book[s][m].orders : book[s][m].orders[n] = id
    BY IndexQueued DEF Queued
  <2>2. book[s][m].price = order[id].price
    BY <2>1 DEF QInv, IInv, LevelsOwned
  <2> QED
    BY <2>1, <2>2 DEF Holds
<1>2. i \in DOMAIN book[s] /\ Holds(book[s][i], id)
  BY <1>1
<1>3. j \in DOMAIN book[s][i].orders /\ book[s][i].orders[j] = id
  BY <1>2 DEF Holds
<1>4. RemoveOrder(book[s], id) = DropOrder(book[s], i, j, order[id].qty)
  BY <1>1 DEF RemoveOrder
<1> HIDE DEF i, j
<1> QED
  BY <1>2, <1>3, <1>4

LEMMA CancelQInv ==
  ASSUME QInv, IInv', NEW id \in Ids, Cancel(id)
  PROVE  QInv'
<1> DEFINE s == order[id].side
           R == RemoveOrder(book[s], id)
<1>1. /\ taker = NoOrder /\ id \in index
      /\ book' = [book EXCEPT ![s] = R] /\ index' = index \ {id}
      /\ taker' = taker /\ order' = order /\ waiting' = waiting
      /\ clock' = clock
  BY DEF Cancel
<1>2. s \in Sides /\ TypeOK' /\ index \subseteq Ids /\ DOMAIN book = Sides
  BY DEF QInv, IInv, TypeOK, Order
<1>3. /\ \A x \in Ids : Queued(R, x) <=> Queued(book[s], x) /\ x # id
      /\ \A k \in DOMAIN R : /\ StampsRise(order, R[k].orders)
                             /\ R[k].total = Remaining(order, R[k].orders)
  <2>1. PICK i \in DOMAIN book[s] : \E j \in DOMAIN book[s][i].orders :
           /\ book[s][i].orders[j] = id
           /\ R = DropOrder(book[s], i, j, order[id].qty)
    BY <1>1, <1>2, RemoveFinds
  <2>2. PICK j \in DOMAIN book[s][i].orders :
           /\ book[s][i].orders[j] = id
           /\ R = DropOrder(book[s], i, j, order[id].qty)
    BY <2>1
  <2> HIDE DEF R, s
  <2>3. Drops(s, i, j, id, R)
    BY <1>2, <2>2 DEF Drops
  <2> QED
    BY <2>3, DropSide
<1> HIDE DEF R
<1>4. book'[s] = R /\ \A t \in Sides : t # s => book'[t] = book[t]
  BY <1>1, <1>2
<1>5. \A t \in Sides : t # s => ~Queued(book[t], id)
  BY DEF QInv, IInv, LevelsOwned, Queued
<1>6. Indexed'
  BY <1>1, <1>2, <1>3, <1>4, <1>5 DEF QInv, Indexed
<1>7. QueuesInOrder' /\ TotalsRight'
  <2>1. \A t \in Sides : \A k \in DOMAIN book'[t] :
           /\ StampsRise(order, book'[t][k].orders)
           /\ book'[t][k].total = Remaining(order, book'[t][k].orders)
    BY <1>3, <1>4 DEF QInv, QueuesInOrder, TotalsRight
  <2> QED
    BY <1>1, <1>2, <1>6, <2>1, QueuesStep
<1>8. Apart' /\ Stamped'
  BY <1>1, <1>2 DEF QInv, Apart, Stamped
<1> QED
  BY <1>6, <1>7, <1>8 DEF QInv

\* What one turn of matchAgainst does, with the maker and the quantity named.
Meets(s, t, maker, q) ==
  /\ s = order[taker].side
  /\ t = -s
  /\ maker = book[t][1].orders[1]
  /\ q = FillQty(order[taker].qty, order[maker].qty)

LEMMA MatchFacts ==
  ASSUME QInv, Match, NEW s, NEW t, NEW maker, NEW q, Meets(s, t, maker, q)
  PROVE  /\ taker \in Ids /\ s \in Sides /\ t \in Sides /\ t # s
         /\ book[t] # <<>>
         /\ 1 \in DOMAIN book[t]
         /\ 1 \in DOMAIN book[t][1].orders
         /\ maker \in index /\ maker \in Ids /\ maker # taker
         /\ order[maker].side = t /\ order[maker].price = book[t][1].price
         /\ order[taker].qty \in Nat /\ order[maker].qty \in Nat
         /\ q \in Nat /\ q <= order[taker].qty /\ q <= order[maker].qty
         /\ \A id \in Ids : id # taker /\ id # maker => order'[id] = order[id]
         /\ \A id \in Ids :
              /\ order'[id].stamp = order[id].stamp
              /\ order'[id].qty = IF id \in {taker, maker}
                                  THEN order[id].qty - q ELSE order[id].qty
<1> USE DEF Meets
<1>1. /\ order \in [Ids -> Order] /\ taker \in Ids
      /\ order[taker] \in Order /\ book[t] # <<>> /\ IInv
  BY DEF Match, CanMatch, Opposite, QInv, IInv, TypeOK
<1>2. s \in Sides /\ t \in Sides /\ t # s
  BY <1>1 DEF Order, Sides, Buy, Sell
<1>3. 1 \in DOMAIN book[t] /\ 1 \in DOMAIN book[t][1].orders /\ maker \in Ids
  BY <1>1, <1>2, BestLevel
<1>4. /\ maker \in index /\ maker # taker
      /\ order[maker].side = t /\ order[maker].price = book[t][1].price
  <2> HIDE DEF Meets
  <2>1. /\ book[t][1].orders[1] \in index
        /\ book[t][1].orders[1] # taker
        /\ order[book[t][1].orders[1]].side = t
        /\ order[book[t][1].orders[1]].price = book[t][1].price
    BY <1>2, <1>3, QueuedFacts
  <2> QED
    BY <2>1 DEF Meets
<1>5. order[maker] \in Order
  BY <1>1, <1>3
<1>6. /\ order[taker].qty \in Nat /\ order[maker].qty \in Nat
      /\ q \in Nat /\ q <= order[taker].qty /\ q <= order[maker].qty
  <2>1. order[taker].qty \in Nat /\ order[maker].qty \in Nat
    BY <1>1, <1>5 DEF Order
  <2>2. q = IF order[taker].qty < order[maker].qty THEN order[taker].qty
                                                   ELSE order[maker].qty
    BY DEF FillQty
  <2> HIDE DEF Meets
  <2> QED
    BY <2>1, <2>2
<1>7. order' = [order EXCEPT ![taker].qty = @ - q, ![maker].qty = @ - q]
  BY DEF Match, Opposite
<1>8. \A id \in Ids :
         order'[id] = IF id \in {taker, maker}
                      THEN [order[id] EXCEPT !.qty = order[id].qty - q]
                      ELSE order[id]
  BY <1>1, <1>3, <1>4, <1>7
<1>9. ASSUME NEW id \in Ids
      PROVE  /\ order'[id].stamp = order[id].stamp
             /\ order'[id].qty = IF id \in {taker, maker}
                                 THEN order[id].qty - q ELSE order[id].qty
  <2>1. order[id] \in Order
    BY <1>1
  <2>2. CASE id \in {taker, maker}
    BY <1>8, <2>1, <2>2 DEF Order
  <2>3. CASE id \notin {taker, maker}
    BY <1>8, <2>3
  <2> QED
    BY <2>2, <2>3
<1> QED
  BY <1>1, <1>2, <1>3, <1>4, <1>6, <1>8, <1>9

LEMMA MatchQInv ==
  ASSUME QInv, IInv', Match
  PROVE  QInv'
<1>0. PICK s, t, maker, q : Meets(s, t, maker, q)
  BY DEF Meets
<1> DEFINE best    == book[t][1]
           reduced == [best EXCEPT !.total = best.total - q]
           dropped == DropOrder(book[t], 1, 1, q)
<1>1. /\ taker \in Ids /\ t \in Sides
      /\ 1 \in DOMAIN book[t] /\ 1 \in DOMAIN best.orders
      /\ maker \in index /\ maker \in Ids /\ maker # taker
      /\ order[maker].side = t
      /\ order[taker].qty \in Nat /\ order[maker].qty \in Nat
      /\ q \in Nat /\ q <= order[taker].qty /\ q <= order[maker].qty
      /\ \A id \in Ids :
           /\ order'[id].stamp = order[id].stamp
           /\ order'[id].qty = IF id \in {taker, maker}
                               THEN order[id].qty - q ELSE order[id].qty
  BY <1>0, MatchFacts
<1>2. /\ taker' = taker /\ waiting' = waiting /\ clock' = clock
      /\ book' = [book EXCEPT ![t] =
                    IF order[maker].qty = q THEN dropped
                    ELSE [book[t] EXCEPT ![1].total = best.total - q]]
      /\ index' = IF order[maker].qty = q THEN index \ {maker} ELSE index
  BY <1>0 DEF Match, Opposite, Meets
<1>3. TypeOK' /\ index \subseteq Ids /\ taker \notin index /\ DOMAIN book = Sides
      /\ book[t] \in Seq(Level) /\ best \in Level /\ IInv
  BY <1>1, QueueType DEF QInv, IInv, TypeOK, Apart
<1> HIDE DEF dropped, reduced
<1>4. CASE order[maker].qty = q
  <2>1. /\ book'[t] = dropped /\ index' = index \ {maker}
        /\ \A u \in Sides : u # t => book'[u] = book[u]
    BY <1>1, <1>2, <1>3, <1>4
  <2>2. /\ \A x \in Ids : Queued(dropped, x) <=> Queued(book[t], x) /\ x # maker
        /\ \A k \in DOMAIN dropped :
             /\ StampsRise(order, dropped[k].orders)
             /\ dropped[k].total = Remaining(order, dropped[k].orders)
    <3>1. Drops(t, 1, 1, maker, dropped)
      BY <1>0, <1>1, <1>4 DEF Drops, dropped, Meets
    <3> QED
      BY <3>1, DropSide
  <2>3. \A u \in Sides : u # t => ~Queued(book[u], maker)
    BY <1>1 DEF QInv, IInv, LevelsOwned, Queued
  <2>4. Indexed'
    BY <1>1, <1>3, <2>1, <2>2, <2>3 DEF QInv, Indexed
  <2>5. \A id \in index' : /\ order'[id].stamp = order[id].stamp
                           /\ order'[id].qty = order[id].qty
    BY <1>1, <1>3, <2>1
  <2>6. \A u \in Sides : \A k \in DOMAIN book'[u] :
           /\ StampsRise(order, book'[u][k].orders)
           /\ book'[u][k].total = Remaining(order, book'[u][k].orders)
    BY <2>1, <2>2 DEF QInv, QueuesInOrder, TotalsRight
  <2>7. QueuesInOrder' /\ TotalsRight'
    BY <1>3, <2>4, <2>5, <2>6, QueuesStep
  <2>8. Apart' /\ Stamped'
    BY <1>1, <1>2, <1>3, <2>1, <2>5 DEF QInv, Apart, Stamped
  <2> QED
    BY <2>4, <2>7, <2>8 DEF QInv
<1>5. CASE order[maker].qty # q
  <2>1. /\ book'[t] = [book[t] EXCEPT ![1] = reduced] /\ index' = index
        /\ \A u \in Sides : u # t => book'[u] = book[u]
    BY <1>1, <1>2, <1>3, <1>5 DEF reduced
  <2>2. reduced.orders = best.orders /\ reduced.total = best.total - q
    BY <1>3 DEF reduced, Level
  <2>3. /\ \A u \in Sides : DOMAIN book'[u] = DOMAIN book[u]
        /\ \A u \in Sides : \A k \in DOMAIN book[u] :
             book'[u][k].orders = book[u][k].orders
        /\ \A u \in Sides : \A k \in DOMAIN book[u] :
             ~(u = t /\ k = 1) => book'[u][k].total = book[u][k].total
        /\ book'[t][1].total = best.total - q
    BY <1>1, <2>1, <2>2
  <2>4. Indexed'
    BY <2>1, <2>3 DEF QInv, Indexed, Queued
  <2>5. QueuesInOrder'
    <3> SUFFICES ASSUME NEW u \in Sides, NEW k \in DOMAIN book[u]
                 PROVE  StampsRise(order', book[u][k].orders)
      BY <2>3 DEF QueuesInOrder
    <3>1. \A j \in DOMAIN book[u][k].orders : book[u][k].orders[j] \in Ids
      BY <1>3, QueueType
    <3> QED
      BY <1>1, <3>1 DEF QInv, QueuesInOrder, StampsRise
  <2>6. TotalsRight'
    <3> SUFFICES ASSUME NEW u \in Sides, NEW k \in DOMAIN book[u]
                 PROVE  book'[u][k].total = Remaining(order', book[u][k].orders)
      BY <2>3 DEF TotalsRight
    <3> DEFINE ids == book[u][k].orders
    <3>1. /\ ids \in Seq(Ids)
          /\ book[u][k].total = Remaining(order, ids)
          /\ \A j \in DOMAIN ids : ids[j] \in Ids /\ ids[j] # taker
      BY <1>3, QueueType, QueuedFacts DEF QInv, TotalsRight
    <3>2. CASE u = t /\ k = 1
      <4> DEFINE f  == [id \in Ids |-> order[id].qty]
                 f2 == [id \in Ids |-> order'[id].qty]
      <4>1. /\ IsFiniteSet(Range(ids)) /\ Range(ids) \subseteq Ids
            /\ maker \in Range(ids) /\ taker \notin Range(ids)
        <5>1. maker \in Range(ids) /\ taker \notin Range(ids)
          BY <1>0, <1>1, <3>1, <3>2 DEF Range, Meets
        <5> QED
          BY <3>1, <5>1, QueueFinite
      <4>2. /\ \A x \in Range(ids) : f[x] \in Int /\ f2[x] \in Int
            /\ \A x \in Range(ids) \ {maker} : f2[x] = f[x]
            /\ f[maker] \in Int /\ f2[maker] = f[maker] - q
        <5>1. \A x \in Ids : order[x].qty \in Int /\ order'[x].qty \in Int
          <6>1. order \in [Ids -> Order] /\ order' \in [Ids -> Order]
            BY <1>3 DEF IInv, TypeOK
          <6> QED
            BY <6>1 DEF Order
        <5> QED
          BY <1>1, <4>1, <5>1
      <4> HIDE DEF f, f2
      <4>3. SumFunctionOnSet(f2, Range(ids))
              = SumFunctionOnSet(f, Range(ids)) + (f2[maker] - f[maker])
        <5> DEFINE S == Range(ids)
        <5>1. IsFiniteSet(S) /\ maker \in S
          BY <4>1
        <5>2. /\ \A x \in S : f[x] \in Int /\ f2[x] \in Int
              /\ \A x \in S \ {maker} : f2[x] = f[x]
          BY <4>2
        <5> HIDE DEF S
        <5>3. SumFunctionOnSet(f2, S) = SumFunctionOnSet(f, S) + (f2[maker] - f[maker])
          BY <5>1, <5>2, SumUpdate
        <5> QED
          BY <5>3 DEF S
      <4>4. /\ Remaining(order, ids) = SumFunctionOnSet(f, Range(ids))
            /\ Remaining(order', ids) = SumFunctionOnSet(f2, Range(ids))
        BY DEF Remaining, f, f2
      <4>5. SumFunctionOnSet(f, Range(ids)) \in Int
        BY <4>1, <4>2, SumInt
      <4>6. book'[u][k].total = Remaining(order, ids) - q
        BY <2>3, <3>1, <3>2
      <4> QED
        BY <1>1, <4>2, <4>3, <4>4, <4>5, <4>6
    <3>3. CASE ~(u = t /\ k = 1)
      <4>1. \A j \in DOMAIN ids : ids[j] # maker
        <5> SUFFICES ASSUME NEW j \in DOMAIN book[u][k].orders,
                            book[u][k].orders[j] = book[t][1].orders[1]
                     PROVE  u = t /\ k = 1
          BY <1>0, <3>3 DEF Meets
        <5> QED
          BY <1>1, <1>3, OnePlace DEF QInv
      <4>2. \A j \in DOMAIN ids : order[ids[j]].qty = order'[ids[j]].qty
        BY <1>1, <3>1, <4>1
      <4> HIDE DEF ids
      <4>3. Remaining(order, ids) = Remaining(order', ids)
        BY <3>1, <4>2, RemainingSame
      <4> QED
        BY <2>3, <3>1, <3>3, <4>3 DEF ids
    <3> QED
      BY <3>2, <3>3
  <2>7. Apart' /\ Stamped'
    <3>1. order'[maker].qty > 0
      BY <1>1, <1>5
    <3> QED
      BY <1>1, <1>2, <1>3, <2>1, <3>1 DEF QInv, Apart, Stamped
  <2> QED
    BY <2>4, <2>5, <2>6, <2>7 DEF QInv
<1> QED
  BY <1>4, <1>5

\* Every step keeps what was strengthened.
LEMMA StepKeepsQInv ==
  ASSUME QInv, [Next]_vars
  PROVE  QInv'
<1>1. IInv'
  BY StepKeepsIInv DEF QInv
<1>2. CASE UNCHANGED vars
  BY <1>2 DEF vars, QInv, IInv, TypeOK, Issued, LevelsSorted, LevelsOwned,
              Uncrossed, TradesWithinLimits, Indexed, Apart, Stamped,
              QueuesInOrder, TotalsRight
<1> QED
  BY <1>1, <1>2, NewOrderQInv, PlaceQInv, MatchQInv, RestQInv, ReturnQInv,
     CancelQInv DEF Next

LEMMA InitQInv == Init => QInv
<1> SUFFICES ASSUME Init
             PROVE  QInv
  OBVIOUS
<1>1. /\ index = {} /\ waiting = {} /\ taker = NoOrder
      /\ \A s \in Sides : DOMAIN book[s] = {}
  BY DEF Init
<1> QED
  BY <1>1, InitIInv DEF QInv, Indexed, Queued, Apart, Stamped, QueuesInOrder,
                        TotalsRight

\* The strengthened invariant holds in every reachable state of the book.
THEOREM QueueInvariance == Spec => []QInv
  BY InitQInv, StepKeepsQInv, PTL DEF Spec

-----------------------------------------------------------------------------
(* What follows from it.                                                   *)

LEMMA PlacesAre ==
  \A pl : pl \in Places <=>
    \E s \in Sides : \E i \in DOMAIN book[s] :
      \E j \in DOMAIN book[s][i].orders : pl = <<s, i, j>>
  BY DEF Places

LEMMA QInvIndex == QInv => IndexMatchesQueues
<1> SUFFICES ASSUME QInv
             PROVE  IndexMatchesQueues
  OBVIOUS
<1>1. IInv
  BY DEF QInv
<1>2. ASSUME NEW pl \in Places
      PROVE  IdAt(pl) \in index
  <2>1. PICK s \in Sides : \E i \in DOMAIN book[s] :
          \E j \in DOMAIN book[s][i].orders : pl = <<s, i, j>>
    BY PlacesAre
  <2>2. PICK i \in DOMAIN book[s] :
          \E j \in DOMAIN book[s][i].orders : pl = <<s, i, j>>
    BY <2>1
  <2>3. PICK j \in DOMAIN book[s][i].orders : pl = <<s, i, j>>
    BY <2>2
  <2>4. IdAt(pl) = book[s][i].orders[j]
    BY <2>3 DEF IdAt
  <2> QED
    BY <2>4, QueuedFacts
<1>3. ASSUME NEW id \in index
      PROVE  \E pl \in Places : IdAt(pl) = id
  <2>1. PICK s \in Sides : Queued(book[s], id)
    BY IndexQueued
  <2>2. PICK i \in DOMAIN book[s] :
          \E j \in DOMAIN book[s][i].orders : book[s][i].orders[j] = id
    BY <2>1 DEF Queued
  <2>3. PICK j \in DOMAIN book[s][i].orders : book[s][i].orders[j] = id
    BY <2>2
  <2>4. <<s, i, j>> \in Places /\ IdAt(<<s, i, j>>) = id
    BY <2>3, PlacesAre DEF IdAt
  <2> QED
    BY <2>4
<1>4. index = {IdAt(pl) : pl \in Places}
  BY <1>2, <1>3
<1>5. ASSUME NEW p1 \in Places, NEW p2 \in Places, IdAt(p1) = IdAt(p2)
      PROVE  p1 = p2
  <2>1. PICK s \in Sides : \E i \in DOMAIN book[s] :
          \E j \in DOMAIN book[s][i].orders : p1 = <<s, i, j>>
    BY PlacesAre
  <2>2. PICK i \in DOMAIN book[s] :
          \E j \in DOMAIN book[s][i].orders : p1 = <<s, i, j>>
    BY <2>1
  <2>3. PICK j \in DOMAIN book[s][i].orders : p1 = <<s, i, j>>
    BY <2>2
  <2>4. PICK t \in Sides : \E k \in DOMAIN book[t] :
          \E n \in DOMAIN book[t][k].orders : p2 = <<t, k, n>>
    BY PlacesAre
  <2>5. PICK k \in DOMAIN book[t] :
          \E n \in DOMAIN book[t][k].orders : p2 = <<t, k, n>>
    BY <2>4
  <2>6. PICK n \in DOMAIN book[t][k].orders : p2 = <<t, k, n>>
    BY <2>5
  <2>7. book[s][i].orders[j] = book[t][k].orders[n]
    BY <1>5, <2>3, <2>6 DEF IdAt
  <2>8. s = t /\ i = k /\ j = n
    BY <1>1, <2>7, OnePlace DEF QInv
  <2> QED
    BY <2>3, <2>6, <2>8
<1> QED
  BY <1>4, <1>5 DEF IndexMatchesQueues

LEMMA QInvLevels == QInv => LevelsHoldTheirOrders
<1> SUFFICES ASSUME QInv, NEW s \in Sides, NEW i \in DOMAIN book[s]
             PROVE  /\ book[s][i].orders # <<>>
                    /\ book[s][i].total = Remaining(order, book[s][i].orders)
                    /\ \A j \in DOMAIN book[s][i].orders :
                         LET o == order[book[s][i].orders[j]]
                         IN  o.side = s /\ o.price = book[s][i].price /\ o.qty > 0
  BY DEF LevelsHoldTheirOrders, Remaining
<1> QED
  BY QueuedFacts DEF QInv, TotalsRight, IInv, LevelsOwned

\* orderIndex and the queues hold the same orders, each of them once, so that
\* Cancel never misses a resting order and never leaves a phantom behind.
THEOREM IndexExact == Spec => []IndexMatchesQueues
  BY QInvIndex, QueueInvariance, PTL

\* The total that insertIntoSide, matchAgainst and removeOrder keep by adding
\* and subtracting is what the orders of the level have left, and a level
\* holds live orders of its own side and price only.
THEOREM LevelsExact == Spec => []LevelsHoldTheirOrders
  BY QInvLevels, QueueInvariance, PTL

\* One trade changes the order being matched and one order of the book.
LEMMA MatchTouches ==
  ASSUME QInv, Match
  PROVE  \E maker \in index : \A id \in Ids :
           id # taker /\ id # maker => order'[id] = order[id]
<1>1. PICK s, t, maker, q : Meets(s, t, maker, q)
  BY DEF Meets
<1>2. /\ maker \in index
      /\ \A id \in Ids : id # taker /\ id # maker => order'[id] = order[id]
  BY <1>1, MatchFacts
<1> QED
  BY <1>2

\* An order that is filled, cancelled or returned as a market order is never
\* matched again and never comes back to the book.
THEOREM GoneStaysGone == Spec => GoneForGood
<1> DEFINE Gone == \A id \in 2 .. nextID :
              id \notin index \cup waiting \cup {taker} =>
                order'[id] = order[id] /\ id \notin index' \cup waiting' \cup {taker'}
<1>1. ASSUME QInv, [Next]_vars
      PROVE  Gone
  <2> SUFFICES ASSUME NEW id \in 2 .. nextID,
                      id \notin index, id \notin waiting, id # taker
               PROVE  order'[id] = order[id] /\ id \notin index' \cup waiting' \cup {taker'}
    OBVIOUS
  <2>1. /\ nextID \in Nat /\ id \in Ids /\ id # NoOrder /\ id # nextID + 1
        /\ order \in [Ids -> Order]
    BY <1>1, MaxOrdersAssumption DEF QInv, IInv, TypeOK, Ids, NoOrder
  <2>2. ASSUME NEW s \in Sides, NEW p \in Prices \cup {NoLimit},
               NEW q \in Quantities, NewOrder(s, p, q)
        PROVE  order'[id] = order[id] /\ id \notin index' \cup waiting' \cup {taker'}
    BY <2>1, <2>2 DEF NewOrder
  <2>3. ASSUME NEW o \in Ids, Place(o)
        PROVE  order'[id] = order[id] /\ id \notin index' \cup waiting' \cup {taker'}
    BY <2>1, <2>3 DEF Place
  <2>4. ASSUME NEW o \in Ids, Cancel(o)
        PROVE  order'[id] = order[id] /\ id \notin index' \cup waiting' \cup {taker'}
    BY <2>1, <2>4 DEF Cancel
  <2>5. CASE Match
    <3>1. QInv
      BY <1>1
    <3>2. PICK maker \in index : \A o \in Ids :
            o # taker /\ o # maker => order'[o] = order[o]
      BY <2>5, <3>1, MatchTouches
    <3>3. taker' = taker /\ waiting' = waiting /\ index' \subseteq index
      BY <2>5 DEF Match
    <3> QED
      BY <2>1, <3>2, <3>3
  <2>6. CASE Rest
    BY <2>1, <2>6 DEF Rest
  <2>7. CASE Return
    BY <2>1, <2>7 DEF Return
  <2>8. CASE UNCHANGED vars
    BY <2>8 DEF vars
  <2> QED
    BY <1>1, <2>2, <2>3, <2>4, <2>5, <2>6, <2>7, <2>8 DEF Next
<1>2. QInv /\ [Next]_vars => [Gone]_vars
  BY <1>1
<1>3. Spec => [][Gone]_vars
  BY <1>2, QueueInvariance, PTL DEF Spec
<1> QED
  BY <1>3 DEF GoneForGood

-----------------------------------------------------------------------------
(* The book implements the promise of price-time priority: what the index   *)
(* holds is what rests, and each step of the book is one of the promise.    *)

\* Prices and limits are numbers.
LEMMA PriceNumber ==
  /\ \A o \in Order : o.price \in Int
  /\ \A l \in Level : l.price \in Int
<1>1. Prices \cup {NoLimit} \subseteq Int
  BY PricesAssumption DEF NoLimit
<1>2. /\ \A o \in Order : o.price \in Prices \cup {NoLimit}
      /\ \A l \in Level : l.price \in Prices \cup {NoLimit}
  BY DEF Order, Level
<1> QED
  BY <1>1, <1>2

\* An order that the order being matched could meet stands in a queue of the
\* opposite side: not before the best level, and in it not before the head.
LEMMA FacingQueued ==
  ASSUME QInv, NEW t \in Sides, t = -order[taker].side,
         NEW m \in Promise!Facing
  PROVE  /\ book[t] # <<>> /\ 1 \in DOMAIN book[t]
         /\ order[m].side = t
         /\ \E i \in DOMAIN book[t] : \E j \in DOMAIN book[t][i].orders :
              book[t][i].orders[j] = m /\ order[m].price = book[t][i].price
<1>1. m \in index /\ order[m].side = t
  BY DEF Promise!Facing
<1>2. PICK i \in DOMAIN book[t] : \E j \in DOMAIN book[t][i].orders :
        book[t][i].orders[j] = m
  BY <1>1, IndexQueued DEF Queued
<1>3. order[m].price = book[t][i].price
  BY <1>2, QueuedFacts
<1>4. book[t] \in Seq(Level)
  BY DEF QInv, IInv, TypeOK
<1>5. book[t] # <<>> /\ 1 \in DOMAIN book[t]
  BY <1>2, <1>4, SeqDomain
<1> QED
  BY <1>1, <1>2, <1>3, <1>5

\* The head of the best level is ahead of every other order of its side.
LEMMA HeadFirst ==
  ASSUME QInv, Match, NEW s, NEW t, NEW maker, NEW q, Meets(s, t, maker, q)
  PROVE  maker \in Promise!First
<1>1. /\ taker \in Ids /\ s \in Sides /\ t \in Sides /\ t # s
      /\ 1 \in DOMAIN book[t] /\ 1 \in DOMAIN book[t][1].orders
      /\ maker \in index /\ maker \in Ids
      /\ order[maker].side = t /\ order[maker].price = book[t][1].price
  BY MatchFacts
<1>2. /\ s = order[taker].side /\ t = -s /\ maker = book[t][1].orders[1]
      /\ taker # NoOrder
      /\ order[taker].price # NoLimit =>
           ~Better(s, book[t][1].price, order[taker].price)
  BY DEF Meets, Match, CanMatch, Opposite
<1>3. /\ order \in [Ids -> Order] /\ order[taker] \in Order
      /\ order[maker] \in Order
      /\ IInv /\ book[t] \in Seq(Level)
  BY <1>1 DEF QInv, IInv, TypeOK
<1>4. /\ order[taker].price \in Int /\ order[maker].price \in Int
  BY <1>3, PriceNumber
<1>5. maker \in Promise!Acceptable
  <2>1. maker \in Promise!Facing
    BY <1>1, <1>2 DEF Promise!Facing
  <2>2. \/ order[taker].price = 0
        \/ IF order[taker].side = 1 THEN order[maker].price <= order[taker].price
                                    ELSE order[maker].price >= order[taker].price
    <3> DEFINE mine == order[taker].price
               its  == order[maker].price
               side == order[taker].side
    <3>1. mine \in Int /\ its \in Int
      BY <1>4
    <3>2. mine # NoLimit => ~Better(side, its, mine)
      <4>1. book[t][1].price = its /\ s = side
        BY <1>1, <1>2
      <4> QED
        BY <1>2, <4>1
    <3> HIDE DEF mine, its, side
    <3>3. \/ mine = 0
          \/ IF side = 1 THEN its <= mine ELSE its >= mine
      BY <3>1, <3>2 DEF Better, NoLimit, Buy
    <3> QED
      BY <3>3 DEF mine, its, side
  <2> QED
    BY <2>1, <2>2 DEF Promise!Acceptable, Promise!NoLimit, Promise!Buy
<1>6. ASSUME NEW o \in Promise!Facing \ {maker}
      PROVE  Promise!Ahead(maker, o)
  <2>0. o \in Promise!Facing /\ t = -order[taker].side
    BY <1>2
  <2>1. PICK i \in DOMAIN book[t] : \E j \in DOMAIN book[t][i].orders :
          book[t][i].orders[j] = o /\ order[o].price = book[t][i].price
    BY <1>1, <2>0, FacingQueued
  <2>2. PICK j \in DOMAIN book[t][i].orders :
          book[t][i].orders[j] = o /\ order[o].price = book[t][i].price
    BY <2>1
  <2>3. book[t][i].orders \in Seq(Ids) /\ o \in Ids
    BY <1>1, <1>3, <2>2, QueueType
  <2>4. order[o] \in Order /\ order[o].price \in Int
    BY <1>3, <2>3, PriceNumber
  <2>5. CASE i = 1
    <3> DEFINE ids == book[t][1].orders
    <3>1. j > 1 /\ j \in DOMAIN ids /\ 1 \in DOMAIN ids /\ ids[j] = o /\ ids[1] = maker
      <4>1. ids \in Seq(Ids) /\ j \in DOMAIN ids
        BY <2>2, <2>3, <2>5
      <4>2. j \in Nat /\ j >= 1
        BY <4>1, SeqDomain
      <4>3. ids[j] = o /\ ids[1] = maker /\ o # maker
        BY <1>2, <2>2, <2>5
      <4> QED
        BY <1>1, <4>1, <4>2, <4>3
    <3>2. StampsRise(order, ids)
      BY <1>1 DEF QInv, QueuesInOrder
    <3> HIDE DEF ids
    <3>3. order[maker].stamp < order[o].stamp
      <4>1. order[ids[1]].stamp < order[ids[j]].stamp
        BY <3>1, <3>2 DEF StampsRise
      <4> QED
        BY <3>1, <4>1
    <3> QED
      BY <1>1, <2>2, <2>5, <3>3 DEF Promise!Ahead
  <2>6. CASE i # 1
    <3>1. i > 1
      BY <1>3, <2>6, SeqDomain
    <3>2. Better(t, order[maker].price, order[o].price)
      BY <1>1, <1>3, <2>2, <3>1 DEF IInv, LevelsSorted
    <3> QED
      BY <1>1, <1>4, <2>4, <3>2 DEF Better, Buy, Promise!Buy, Promise!Ahead
  <2> QED
    BY <2>5, <2>6
<1> QED
  BY <1>5, <1>6 DEF Promise!First

\* When the loop of matchAgainst ends with something left of the order, there
\* is nothing in the book that its limit lets it trade with.
LEMMA NothingLeftToMeet ==
  ASSUME QInv, taker # NoOrder, ~CanMatch, order[taker].qty > 0
  PROVE  Promise!Acceptable = {}
<1> SUFFICES ASSUME NEW m \in Promise!Acceptable
             PROVE  FALSE
  OBVIOUS
<1>1. taker \in Ids /\ order \in [Ids -> Order] /\ IInv
  BY DEF QInv, IInv, TypeOK
<1>2. order[taker] \in Order
  BY <1>1
<1>3. PICK s \in Sides : s = order[taker].side
  BY <1>2 DEF Order
<1>4. PICK t \in Sides : t = -s /\ t = -order[taker].side
  BY <1>3 DEF Sides, Buy, Sell
<1>5. m \in Promise!Facing
  BY DEF Promise!Acceptable
<1>6. /\ book[t] # <<>> /\ 1 \in DOMAIN book[t] /\ order[m].side = t
  BY <1>3, <1>4, <1>5, FacingQueued
<1>7. PICK i \in DOMAIN book[t] : order[m].price = book[t][i].price
  BY <1>3, <1>4, <1>5, FacingQueued
<1>8. /\ order[taker].price # 0
      /\ Better(s, book[t][1].price, order[taker].price)
  BY <1>3, <1>4, <1>6 DEF CanMatch, Opposite, NoLimit
<1>9. i = 1 \/ Better(t, book[t][1].price, order[m].price)
  <2>1. book[t] \in Seq(Level)
    BY <1>1 DEF IInv, TypeOK
  <2>2. i = 1 \/ i > 1
    BY <2>1, SeqDomain
  <2> QED
    BY <1>1, <1>6, <1>7, <2>2 DEF IInv, LevelsSorted
<1>10. /\ order[taker].price \in Int /\ book[t][1].price \in Int
       /\ order[m].price \in Int
  <2>1. order[taker].price \in Int
    BY <1>2, PriceNumber
  <2>2. book[t][1] \in Level /\ book[t][i] \in Level
    BY <1>1, <1>6, QueueType
  <2> QED
    BY <1>7, <2>1, <2>2, PriceNumber
<1>11. IF s = 1 THEN order[m].price <= order[taker].price
                ELSE order[m].price >= order[taker].price
  BY <1>3, <1>8 DEF Promise!Acceptable, Promise!NoLimit, Promise!Buy
<1>12. s \in {1, -1} /\ t \in {1, -1}
  BY DEF Sides, Buy, Sell
<1> QED
  BY <1>4, <1>7, <1>8, <1>9, <1>10, <1>11, <1>12 DEF Better, Buy

LEMMA MatchTrades ==
  ASSUME QInv, Match
  PROVE  Promise!Trade
<1>1. PICK s, t, maker, q : Meets(s, t, maker, q)
  BY DEF Meets
<1>2. maker \in Promise!First
  BY <1>1, HeadFirst
<1>3. /\ taker \in Ids /\ s \in Sides /\ maker # taker
  BY <1>1, MatchFacts
<1>4. /\ s = order[taker].side
      /\ q = IF order[taker].qty < order[maker].qty
             THEN order[taker].qty ELSE order[maker].qty
      /\ taker # NoOrder /\ order[taker].qty > 0
      /\ trades' = Append(trades,
                     [buy   |-> IF s = Buy THEN taker ELSE maker,
                      sell  |-> IF s = Buy THEN maker ELSE taker,
                      price |-> order[maker].price,
                      qty   |-> q])
      /\ order' = [order EXCEPT ![taker].qty = @ - q, ![maker].qty = @ - q]
      /\ index' = IF order[maker].qty = q THEN index \ {maker} ELSE index
      /\ UNCHANGED <<nextID, waiting, taker, clock>>
  BY <1>1 DEF Match, CanMatch, Opposite, Meets, FillQty
<1>5. PICK buy : buy = IF s = 1 THEN taker ELSE maker
  OBVIOUS
<1>6. /\ buy = IF order[taker].side = 1 THEN taker ELSE maker
      /\ trades' = Append(trades,
                     [buy |-> buy, sell |-> IF buy = taker THEN maker ELSE taker,
                      price |-> order[maker].price, qty |-> q])
  BY <1>3, <1>4, <1>5 DEF Buy
<1>7. q = Promise!MinOf(order[taker].qty, order[maker].qty)
  BY <1>4 DEF Promise!MinOf
<1> QED
  BY <1>2, <1>4, <1>6, <1>7 DEF Promise!Trade, Promise!NoOrder, Promise!Buy, NoOrder

\* Each step of the book is a step of the promise, or leaves it where it is.
LEMMA StepKeepsPromise ==
  ASSUME QInv, [Next]_vars
  PROVE  [Promise!Next]_(Promise!vars)
<1>1. ASSUME NEW s \in Sides, NEW p \in Prices \cup {NoLimit},
             NEW q \in Quantities, NewOrder(s, p, q)
      PROVE  Promise!Submit
  BY <1>1 DEF NewOrder, Promise!Submit, Promise!Ids, Promise!Buy, Promise!Sell,
              Promise!NoLimit, Ids, Sides, Buy, Sell, NoLimit
<1>2. ASSUME NEW id \in Ids, Place(id)
      PROVE  Promise!Arrive
  BY <1>2 DEF Place, Promise!Arrive, Promise!NoOrder, NoOrder
<1>3. ASSUME NEW id \in Ids, Cancel(id)
      PROVE  Promise!Withdraw
  BY <1>3 DEF Cancel, Promise!Withdraw, Promise!NoOrder, NoOrder
<1>4. CASE Match
  BY <1>4, MatchTrades DEF Promise!Next
<1>5. CASE Rest
  <2>1. Promise!Acceptable = {}
    BY <1>5, NothingLeftToMeet DEF Rest
  <2> QED
    BY <1>5, <2>1 DEF Rest, Promise!Settle, Promise!Next, Promise!NoOrder,
                      Promise!NoLimit, NoOrder, NoLimit
<1>6. CASE Return
  <2>1. order[taker].qty = 0 \/ order[taker].qty > 0
    BY <1>6 DEF Return, QInv, IInv, TypeOK, Order
  <2>2. order[taker].qty = 0 \/ Promise!Acceptable = {}
    BY <1>6, <2>1, NothingLeftToMeet DEF Return
  <2> QED
    BY <1>6, <2>1, <2>2 DEF Return, Promise!Settle, Promise!Next, Promise!NoOrder,
                      Promise!NoLimit, NoOrder, NoLimit
<1>7. CASE UNCHANGED vars
  BY <1>7 DEF vars, Promise!vars
<1> QED
  BY <1>1, <1>2, <1>3, <1>4, <1>5, <1>6, <1>7 DEF Next, Promise!Next

\* The book of orderbook.go keeps the promise of price-time priority: it is an
\* implementation of PriceTimePriority, with the index for what rests.
THEOREM KeepsTheOrder == Spec => KeepsPriority
<1>1. Init => Promise!Init
  BY DEF Init, Promise!Init, Promise!Ids, Promise!Buy, Promise!NoLimit,
         Promise!NoOrder, Ids, Buy, NoLimit, NoOrder
<1>2. QInv /\ [Next]_vars => [Promise!Next]_(Promise!vars)
  BY StepKeepsPromise
<1>3. Spec => Promise!Init /\ [][Promise!Next]_(Promise!vars)
  BY <1>1, <1>2, QueueInvariance, PTL DEF Spec
<1> QED
  BY <1>3 DEF KeepsPriority, Promise!Spec
=============================================================================
