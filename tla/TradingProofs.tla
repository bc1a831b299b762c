---------------------------- MODULE TradingProofs ----------------------------
(***************************************************************************)
(* Proofs about Trading, and from "The risk engine" on about Liquidation,  *)
(* which runs between the steps of everything else, for any number of      *)
(* users, threads, prices and calls.                                       *)
(***************************************************************************)
EXTENDS Liquidation, PositionProofs

-----------------------------------------------------------------------------
(* The book: one side of it.                                               *)

\* A side of the book holds orders of side s that have something left.
SideOK(s, r) ==
  /\ r \in Seq(Resting)
  /\ \A n \in DOMAIN r : r[n].side = s /\ r[n].qty > 0

DistinctIDs(r) == \A i, j \in DOMAIN r : r[i].id = r[j].id => i = j

\* Each order of q was in r, perhaps with more left.
From(r, q) ==
  \A n \in DOMAIN q : \E k \in DOMAIN r : /\ r[k].id = q[n].id
                                          /\ r[k].user = q[n].user

\* What the rows ahead of n hold.
Quantified(rows) ==
  /\ rows = [i \in 1 .. Len(rows) |-> rows[i]] /\ Len(rows) \in Nat
  /\ \A i \in 1 .. Len(rows) : rows[i].qty \in Nat \ {0}

LEMMA AheadStep ==
  ASSUME NEW rows, Quantified(rows), NEW n \in 1 .. Len(rows)
  PROVE  /\ Ahead(rows, 1) = 0
         /\ Ahead(rows, n) \in Int
         /\ Ahead(rows, n + 1) = Ahead(rows, n) + rows[n].qty
<1> DEFINE f == [i \in DOMAIN rows |-> rows[i].qty]
<1>1. DOMAIN rows = 1 .. Len(rows) /\ Len(rows) \in Nat
  BY DEF Quantified
<1>2. \A i \in 1 .. n : f[i] \in Int
  BY <1>1 DEF Quantified
<1>3. f[n] = rows[n].qty
  BY <1>1
<1>4. /\ Ahead(rows, 1) = SumFunctionOnSet(f, 1 .. (1 - 1))
      /\ Ahead(rows, n) = SumFunctionOnSet(f, 1 .. (n - 1))
      /\ Ahead(rows, n + 1) = SumFunctionOnSet(f, 1 .. ((n + 1) - 1))
  BY DEF Ahead
<1> HIDE DEF f
<1>5. n \in Nat /\ n # 0 /\ (n + 1) - 1 = n /\ n - 1 \in Nat /\ 1 .. (1 - 1) = {}
  BY <1>1
<1>6. SumFunctionOnSet(f, 1 .. n) = f[n] + SumFunctionOnSet(f, 1 .. (n - 1))
  BY <1>2, <1>5, SumLast
<1>7. SumFunctionOnSet(f, 1 .. (n - 1)) \in Int
  <2>1. IsFiniteSet(1 .. (n - 1)) /\ \A i \in 1 .. (n - 1) : f[i] \in Int
    BY <1>2, <1>5, IndexSets
  <2> QED
    BY <2>1, SumInt
<1>8. SumFunctionOnSet(f, 1 .. (1 - 1)) = 0
  BY <1>5, SumEmpty
<1>9. f[n] \in Int
  BY <1>2, <1>5
<1> QED
  BY <1>3, <1>4, <1>5, <1>6, <1>7, <1>8, <1>9

\* A quantity takes something from every row it reaches.
LEMMA FillFacts ==
  ASSUME NEW rows, Quantified(rows), NEW qty \in Int, NEW n \in Reached(rows, qty)
  PROVE  Fill(rows, qty, n) \in Nat \ {0} /\ Fill(rows, qty, n) <= rows[n].qty
<1>1. n \in 1 .. Len(rows) /\ rows[n].qty \in Nat \ {0} /\ n \in 1 .. n
  BY DEF Reached, Quantified
<1>2. Ahead(rows, n) < qty
  BY <1>1 DEF Reached
<1>3. Ahead(rows, n) \in Int
  BY <1>1, AheadStep
<1> QED
  BY <1>1, <1>2, <1>3 DEF Fill

LEMMA ReachedFacts ==
  ASSUME NEW rows, Quantified(rows), NEW qty \in Int
  PROVE  /\ Cardinality(Reached(rows, qty)) \in Nat
         /\ Reached(rows, qty) = 1 .. Cardinality(Reached(rows, qty))
         /\ Reached(rows, qty) \subseteq 1 .. Len(rows)
<1>1. Reached(rows, qty) \in SUBSET (1 .. Len(rows)) /\ Len(rows) \in Nat
  BY DEF Reached, Quantified
<1>2. \A i \in Reached(rows, qty) : \A j \in 1 .. i : j \in Reached(rows, qty)
  BY <1>1 DEF Reached, Quantified
<1> QED
  BY <1>1, <1>2, Prefix

LEMMA SideQuantified ==
  ASSUME NEW s, NEW r, SideOK(s, r)
  PROVE  /\ r \in Seq(Resting) /\ Quantified(r) /\ DOMAIN r = 1 .. Len(r) /\ Len(r) \in Nat
         /\ \A n \in 1 .. Len(r) : /\ r[n] \in Resting /\ r[n].side = s
                                   /\ r[n].qty \in Nat \ {0}
<1>1. r \in Seq(Resting)
  BY DEF SideOK
<1>2. r = [i \in 1 .. Len(r) |-> r[i]] /\ Len(r) \in Nat /\ DOMAIN r = 1 .. Len(r)
  BY <1>1
<1>3. ASSUME NEW n \in 1 .. Len(r)
      PROVE  r[n] \in Resting /\ r[n].side = s /\ r[n].qty \in Nat \ {0}
  <2>1. r[n] \in Resting
    BY <1>1, ElementOfSeq
  <2>2. r[n].qty \in Nat
    BY <2>1 DEF Resting
  <2>3. r[n].qty > 0 /\ r[n].side = s
    BY <1>2 DEF SideOK
  <2> QED
    BY <2>1, <2>2, <2>3
<1> QED
  BY <1>1, <1>2, <1>3 DEF Quantified

\* A side is a sequence of such orders.
LEMMA SideMade ==
  ASSUME NEW s, NEW k \in Nat, NEW q, q = [n \in 1 .. k |-> q[n]],
         \A n \in 1 .. k : q[n] \in Resting /\ q[n].side = s /\ q[n].qty > 0
  PROVE  SideOK(s, q) /\ Len(q) = k /\ DOMAIN q = 1 .. k
<1>1. q \in Seq(Resting) /\ Len(q) = k /\ DOMAIN q = 1 .. k
  BY SeqDef
<1> QED
  BY <1>1 DEF SideOK

\* The order with another quantity.
LEMMA SameOrder ==
  ASSUME NEW o \in Resting, NEW q \in Nat, NEW p, p = [o EXCEPT !.qty = q]
  PROVE  /\ p \in Resting /\ p.qty = q
         /\ p.id = o.id /\ p.user = o.user /\ p.side = o.side /\ p.price = o.price
BY DEF Resting
\* q is r from its k + 1st element on.
Shifted(r, k, q) == Len(q) = Len(r) - k /\ \A n \in 1 .. Len(q) : q[n] = r[n + k]

\* The rest of a side.
LEMMA OthersFacts ==
  ASSUME NEW s, NEW r, SideOK(s, r), DistinctIDs(r), NEW k \in Nat, k <= Len(r),
         NEW q, q = SubSeq(r, k + 1, Len(r))
  PROVE  SideOK(s, q) /\ DistinctIDs(q) /\ From(r, q) /\ Shifted(r, k, q)
<1> DEFINE l == Len(r) - k
<1>1. /\ r \in Seq(Resting) /\ Len(r) \in Nat /\ DOMAIN r = 1 .. Len(r)
      /\ \A n \in 1 .. Len(r) : r[n] \in Resting /\ r[n].side = s /\ r[n].qty \in Nat \ {0}
  BY SideQuantified
<1>2. l \in Nat /\ k + l = Len(r)
  BY <1>1
<1>3. /\ q \in Seq(Resting) /\ Len(q) = l
      /\ \A n \in 1 .. l : q[n] = r[n + k]
  <2>1. k \in 0 .. Len(r)
    BY <1>1
  <2> QED
    BY <1>1, <2>1, SubSeqTail
<1>4. DOMAIN q = 1 .. l
  BY <1>3
<1> HIDE DEF l
<1>5. \A n \in 1 .. l : n + k \in 1 .. Len(r)
  BY <1>1, <1>2
<1>6. SideOK(s, q)
  BY <1>1, <1>3, <1>4, <1>5 DEF SideOK
<1>7. DistinctIDs(q)
  <2> SUFFICES ASSUME NEW i \in 1 .. l, NEW j \in 1 .. l, q[i].id = q[j].id
               PROVE  i = j
    BY <1>4 DEF DistinctIDs
  <2>1. i + k \in DOMAIN r /\ j + k \in DOMAIN r /\ r[i + k].id = r[j + k].id
    BY <1>1, <1>3, <1>5
  <2>2. i + k = j + k
    BY <2>1 DEF DistinctIDs
  <2> QED
    BY <1>2, <2>2
<1>8. From(r, q)
  BY <1>1, <1>3, <1>4, <1>5 DEF From
<1> QED
  BY <1>2, <1>3, <1>6, <1>7, <1>8 DEF l, Shifted

\* What Matching does to a side: the trades are with orders of that side, and
\* what is left of the side has come from it.
LEMMA MatchingFacts ==
  ASSUME NEW s \in Sides, SideOK(-s, book[-s]), DistinctIDs(book[-s]),
         NEW limit, NEW qty \in Nat \ {0}
  PROVE  LET m == Matching(s, limit, qty)
         IN  /\ SideOK(-s, m.trades)
             /\ m.left \in Nat
             /\ m.left = 0 => m.trades # <<>>
             /\ SideOK(-s, m.rest) /\ DistinctIDs(m.rest) /\ From(book[-s], m.rest)
<1> DEFINE r      == book[-s]
           T      == {n \in Reached(r, qty) : \A i \in 1 .. n : Acceptable(s, limit, r[i].price)}
           k      == Cardinality(T)
           over   == Ahead(r, k + 1) - qty
           others == SubSeq(r, k + 1, Len(r))
           trades == [n \in 1 .. k |-> [r[n] EXCEPT !.qty = Fill(r, qty, n)]]
           left   == IF over < 0 THEN -over ELSE 0
           last   == [r[k] EXCEPT !.qty = over]
           rest   == IF over > 0 THEN <<last>> \o others ELSE others
<1>1. Matching(s, limit, qty) = [trades |-> trades, left |-> left, rest |-> rest]
  BY Zenon DEF Matching
<1>2. /\ Quantified(r) /\ DOMAIN r = 1 .. Len(r) /\ Len(r) \in Nat
      /\ \A n \in 1 .. Len(r) : /\ r[n] \in Resting /\ r[n].side = -s
                                /\ r[n].qty \in Nat \ {0}
  BY SideQuantified
<1>3. SideOK(-s, r) /\ DistinctIDs(r)
  OBVIOUS
<1> HIDE DEF r
<1>4. T \in SUBSET (1 .. Len(r)) /\ \A i \in T : \A j \in 1 .. i : j \in T
  <2>1. /\ Reached(r, qty) \subseteq 1 .. Len(r)
        /\ \A i \in Reached(r, qty) : \A j \in 1 .. i : j \in Reached(r, qty)
    BY <1>2 DEF Reached
  <2>2. \A i \in 1 .. Len(r) : \A j \in 1 .. i : 1 .. j \subseteq 1 .. i
    BY <1>2
  <2> QED
    BY <2>1, <2>2
<1>5. k \in Nat /\ k <= Len(r) /\ T = 1 .. k
  <2> HIDE DEF T
  <2> QED
    BY <1>2, <1>4, Prefix
<1>6. \A n \in 1 .. k : n \in Reached(r, qty)
  BY <1>5
<1> HIDE DEF T, k
<1>7. \A n \in 1 .. k : Fill(r, qty, n) \in Nat \ {0}
  BY <1>2, <1>6, FillFacts
<1>8. SideOK(-s, trades) /\ (k # 0 => trades # <<>>)
  <2>1. \A n \in 1 .. k : trades[n] \in Resting /\ trades[n].side = -s /\ trades[n].qty > 0
    <3> SUFFICES ASSUME NEW n \in 1 .. k
                 PROVE  trades[n] \in Resting /\ trades[n].side = -s /\ trades[n].qty > 0
      OBVIOUS
    <3>1. trades[n] = [r[n] EXCEPT !.qty = Fill(r, qty, n)]
      OBVIOUS
    <3>2. r[n] \in Resting /\ r[n].side = -s /\ Fill(r, qty, n) \in Nat \ {0}
      BY <1>2, <1>5, <1>7
    <3> QED
      BY <3>1, <3>2, SameOrder
  <2>2. trades = [n \in 1 .. k |-> trades[n]]
    OBVIOUS
  <2> HIDE DEF trades
  <2>3. SideOK(-s, trades) /\ Len(trades) = k
    BY <1>5, <2>1, <2>2, SideMade
  <2> QED
    BY <2>3
<1>9. over \in Int
  <2>1. CASE k = 0
    <3>1. Ahead(r, 1) = 0
      <4> DEFINE f == [i \in DOMAIN r |-> r[i].qty]
      <4>1. Ahead(r, 1) = SumFunctionOnSet(f, 1 .. (1 - 1))
        BY DEF Ahead
      <4>2. 1 .. (1 - 1) = {}
        OBVIOUS
      <4> HIDE DEF f
      <4> QED
        BY <4>1, <4>2, SumEmpty
    <3> QED
      BY <2>1, <3>1
  <2>2. CASE k # 0
    <3>1. k \in 1 .. Len(r)
      BY <1>5, <2>2
    <3>2. Ahead(r, k) \in Int /\ Ahead(r, k + 1) = Ahead(r, k) + r[k].qty
      BY <1>2, <3>1, AheadStep
    <3> QED
      BY <1>2, <3>1, <3>2
  <2> QED
    BY <2>1, <2>2
<1>10. left \in Nat
  BY <1>9
<1>11. k = 0 => over < 0 /\ left # 0
  <2>1. Ahead(r, 1) = 0
    <3> DEFINE f == [i \in DOMAIN r |-> r[i].qty]
    <3>1. Ahead(r, 1) = SumFunctionOnSet(f, 1 .. (1 - 1))
      BY DEF Ahead
    <3>2. 1 .. (1 - 1) = {}
      OBVIOUS
    <3> HIDE DEF f
    <3> QED
      BY <3>1, <3>2, SumEmpty
  <2> QED
    BY <2>1
<1>12. /\ SideOK(-s, others) /\ DistinctIDs(others) /\ From(r, others)
       /\ Len(others) = Len(r) - k /\ others \in Seq(Resting)
       /\ \A n \in 1 .. Len(others) : others[n] = r[n + k]
  <2>1. /\ SideOK(-s, others) /\ DistinctIDs(others) /\ From(r, others)
        /\ Shifted(r, k, others)
    BY <1>3, <1>5, OthersFacts
  <2> QED
    BY <2>1 DEF Shifted, SideOK
<1> HIDE DEF over, others, trades, left
<1> DEFINE m == Matching(s, limit, qty)
<1>0. m.trades = trades /\ m.left = left /\ m.rest = rest
  <2> HIDE DEF rest
  <2> QED
    BY <1>1
<1> HIDE DEF m
<1>13. CASE over > 0
  <2>1. k \in 1 .. Len(r) /\ k # 0
    BY <1>5, <1>9, <1>11, <1>13
  <2>2. /\ last \in Resting /\ last.qty = over /\ last.id = r[k].id
        /\ last.user = r[k].user /\ last.side = -s
    BY <1>2, <1>9, <1>13, <2>1, SameOrder
  <2> HIDE DEF last
  <2> DEFINE q == <<last>> \o others
             n == Len(others) + 1
  <2>3. /\ q \in Seq(Resting) /\ Len(q) = n /\ q[1] = last
        /\ \A i \in 1 .. Len(others) : q[i + 1] = others[i]
    BY <1>12, <2>2
  <2>4. n \in Nat /\ n = Len(r) - k + 1 /\ DOMAIN q = 1 .. n
    BY <1>2, <1>5, <1>12, <2>3
  <2> HIDE DEF q, n
  <2>5. \A i \in 1 .. n : /\ q[i].id = r[k + i - 1].id /\ q[i].user = r[k + i - 1].user
                          /\ q[i].side = -s /\ q[i].qty > 0
                          /\ k + i - 1 \in 1 .. Len(r)
    <3> SUFFICES ASSUME NEW i \in 1 .. n
                 PROVE  /\ q[i].id = r[k + i - 1].id /\ q[i].user = r[k + i - 1].user
                        /\ q[i].side = -s /\ q[i].qty > 0
                        /\ k + i - 1 \in 1 .. Len(r)
      OBVIOUS
    <3>1. k + i - 1 \in 1 .. Len(r)
      BY <1>2, <2>1, <2>4
    <3>2. CASE i = 1
      BY <1>9, <1>13, <2>1, <2>2, <2>3, <3>1, <3>2
    <3>3. CASE i # 1
      <4>1. i - 1 \in 1 .. Len(others) /\ (i - 1) + 1 = i /\ (i - 1) + k = k + i - 1
        BY <1>2, <1>5, <1>12, <2>4, <3>3
      <4>2. q[i] = r[k + i - 1]
        BY <1>12, <2>3, <4>1
      <4> QED
        BY <1>2, <3>1, <4>2
    <3> QED
      BY <3>2, <3>3
  <2>6. SideOK(-s, q)
    BY <2>3, <2>4, <2>5 DEF SideOK
  <2>7. DistinctIDs(q)
    <3> SUFFICES ASSUME NEW i \in 1 .. n, NEW j \in 1 .. n, q[i].id = q[j].id
                 PROVE  i = j
      BY <2>4 DEF DistinctIDs
    <3>1. k + i - 1 = k + j - 1
      BY <1>2, <1>3, <2>5 DEF DistinctIDs
    <3> QED
      BY <1>5, <2>4, <3>1
  <2>8. From(r, q)
    BY <1>2, <2>4, <2>5 DEF From
  <2>9. rest = q
    BY <1>13 DEF q
  <2> QED
    BY <1>0, <1>8, <1>10, <1>11, <2>6, <2>7, <2>8, <2>9 DEF r, m
<1>14. CASE ~(over > 0)
  <2>1. rest = others
    BY <1>14
  <2> QED
    BY <1>0, <1>8, <1>10, <1>11, <1>12, <2>1 DEF r, m
<1> QED
  BY <1>13, <1>14
\* Each order of q but o was in r.
FromOr(r, q, o) ==
  \A n \in DOMAIN q : q[n] = o \/ \E k \in DOMAIN r : r[k] = q[n]

LEMMA QueueFacts ==
  ASSUME NEW s, NEW r, SideOK(s, r), DistinctIDs(r),
         NEW o \in Resting, o.side = s, o.qty > 0, \A n \in DOMAIN r : r[n].id # o.id
  PROVE  /\ SideOK(s, Queue(r, o)) /\ DistinctIDs(Queue(r, o)) /\ FromOr(r, Queue(r, o), o)
<1> DEFINE ahead == {i \in DOMAIN r : ~Better(o.side, o.price, r[i].price)}
           c == Cardinality(ahead) + 1
           q == Queue(r, o)
<1>1. /\ r \in Seq(Resting) /\ Len(r) \in Nat /\ DOMAIN r = 1 .. Len(r)
      /\ \A n \in 1 .. Len(r) : r[n] \in Resting /\ r[n].side = s /\ r[n].qty \in Nat \ {0}
  BY SideQuantified
<1>2. c \in 1 .. Len(r) + 1
  <2>1. ahead \in SUBSET (1 .. Len(r)) /\ IsFiniteSet(1 .. Len(r))
    BY <1>1, FS_Interval
  <2>2. Cardinality(1 .. Len(r)) = Len(r)
    BY <1>1, FS_Interval, SMTT(30)
  <2> HIDE DEF ahead
  <2>3. IsFiniteSet(ahead) /\ Cardinality(ahead) <= Len(r)
    BY <2>1, <2>2, FS_Subset
  <2>4. Cardinality(ahead) \in Nat
    BY <2>3, FS_CardinalityType
  <2> QED
    BY <1>1, <2>3, <2>4
<1>3. q = InsertAt(r, c, o)
  BY DEF Queue
<1> HIDE DEF ahead, c, q
<1>4. q \in Seq(Resting) /\ PutIn(q, r, c, o)
  <2>1. r \in Seq(Resting) /\ c \in 1 .. Len(r) + 1 /\ o \in Resting
    BY <1>1, <1>2
  <2>2. InsertAt(r, c, o) \in Seq(Resting) /\ PutIn(InsertAt(r, c, o), r, c, o)
    BY <2>1, InsertAtFacts
  <2> QED
    BY <1>3, <2>2
<1>5. DOMAIN q = 1 .. Len(r) + 1
  BY <1>4 DEF PutIn
<1>6. \A k \in DOMAIN q : /\ k # c => (IF k < c THEN k ELSE k - 1) \in DOMAIN r
                          /\ q[k] = IF k = c THEN o ELSE r[IF k < c THEN k ELSE k - 1]
  BY <1>1, <1>2, <1>4, <1>5 DEF PutIn
<1>7. SideOK(s, q)
  BY <1>1, <1>4, <1>6 DEF SideOK
<1>8. DistinctIDs(q)
  <2> SUFFICES ASSUME NEW i \in DOMAIN q, NEW j \in DOMAIN q, q[i].id = q[j].id
               PROVE  i = j
    BY DEF DistinctIDs
  <2> DEFINE a == IF i < c THEN i ELSE i - 1
             b == IF j < c THEN j ELSE j - 1
  <2>1. CASE i = c \/ j = c
    BY <1>6, <2>1
  <2>2. CASE i # c /\ j # c
    <3>1. a \in DOMAIN r /\ b \in DOMAIN r /\ r[a].id = r[b].id
      BY <1>6, <2>2
    <3>2. a = b
      BY <3>1 DEF DistinctIDs
    <3> QED
      BY <1>2, <1>5, <2>2, <3>2
  <2> QED
    BY <2>1, <2>2
<1>9. FromOr(r, q, o)
  BY <1>6 DEF FromOr
<1> QED
  BY <1>7, <1>8, <1>9 DEF q

LEMMA WithoutFacts ==
  ASSUME NEW s, NEW r, SideOK(s, r), DistinctIDs(r), NEW id
  PROVE  /\ SideOK(s, Without(r, id)) /\ DistinctIDs(Without(r, id))
         /\ From(r, Without(r, id))
         /\ \A n \in DOMAIN Without(r, id) : Without(r, id)[n].id # id
<1> DEFINE at == {n \in DOMAIN r : r[n].id = id}
           c == CHOOSE n \in at : TRUE
           q == Without(r, id)
<1>1. /\ r \in Seq(Resting) /\ Len(r) \in Nat /\ DOMAIN r = 1 .. Len(r)
      /\ \A n \in 1 .. Len(r) : r[n] \in Resting /\ r[n].side = s /\ r[n].qty \in Nat \ {0}
  BY SideQuantified
<1>2. CASE at = {}
  <2>1. q = r
    BY <1>2 DEF Without
  <2>2. \A n \in DOMAIN r : r[n].id # id
    BY <1>2
  <2> HIDE DEF q
  <2> QED
    BY <2>1, <2>2 DEF From, q
<1>3. CASE at # {}
  <2>1. c \in 1 .. Len(r) /\ r[c].id = id
    BY <1>1, <1>3
  <2>2. q = RemoveAt(r, c)
    BY <1>3 DEF Without
  <2> HIDE DEF at, c, q
  <2>3. /\ q \in Seq(Resting) /\ Len(q) = Len(r) - 1
        /\ \A k \in 1 .. Len(r) - 1 : q[k] = IF k < c THEN r[k] ELSE r[k + 1]
    BY <1>1, <2>1, <2>2, RemoveAtFacts
  <2>4. DOMAIN q = 1 .. Len(r) - 1
    BY <1>1, <2>1, <2>3
  <2>5. \A k \in DOMAIN q : /\ (IF k < c THEN k ELSE k + 1) \in DOMAIN r
                            /\ (IF k < c THEN k ELSE k + 1) # c
                            /\ q[k] = r[IF k < c THEN k ELSE k + 1]
    BY <1>1, <2>1, <2>3, <2>4
  <2>6. SideOK(s, q)
    BY <1>1, <2>3, <2>5 DEF SideOK
  <2>7. DistinctIDs(q)
    <3> SUFFICES ASSUME NEW i \in DOMAIN q, NEW j \in DOMAIN q, q[i].id = q[j].id
                 PROVE  i = j
      BY DEF DistinctIDs
    <3> DEFINE a == IF i < c THEN i ELSE i + 1
               b == IF j < c THEN j ELSE j + 1
    <3>1. a \in DOMAIN r /\ b \in DOMAIN r /\ r[a].id = r[b].id
      BY <2>5
    <3>2. a = b
      BY <3>1 DEF DistinctIDs
    <3> QED
      BY <2>1, <2>4, <3>2
  <2>8. From(r, q)
    BY <2>5 DEF From
  <2>9. \A n \in DOMAIN q : q[n].id # id
    BY <1>1, <2>1, <2>5 DEF DistinctIDs
  <2> QED
    BY <2>6, <2>7, <2>8, <2>9 DEF q
<1> QED
  BY <1>2, <1>3
-----------------------------------------------------------------------------
(* Legs: the two sides of each trade.                                      *)

Leg == [side : Sides, user : Traders, qty : Nat \ {0}, price : Nat, id : Nat]

\* Signed quantity of u in the n-th leg, and of anybody.
LegOf(legs, u) ==
  [n \in DOMAIN legs |-> IF legs[n].user = u THEN legs[n].side * legs[n].qty ELSE 0]

Signed(legs) == [n \in DOMAIN legs |-> legs[n].side * legs[n].qty]

LEMMA LegFacts ==
  ASSUME NEW legs \in Seq(Leg), NEW u
  PROVE  /\ Len(legs) \in Nat /\ DOMAIN legs = 1 .. Len(legs)
         /\ IsFiniteSet(1 .. Len(legs))
         /\ LegSum(legs, u) = SumFunctionOnSet(LegOf(legs, u), 1 .. Len(legs))
         /\ \A n \in 1 .. Len(legs) : /\ legs[n] \in Leg
                                      /\ LegOf(legs, u)[n] \in Int
                                      /\ Signed(legs)[n] \in Int
<1>1. Len(legs) \in Nat /\ DOMAIN legs = 1 .. Len(legs)
  OBVIOUS
<1>2. LegSum(legs, u) = SumFunctionOnSet(LegOf(legs, u), 1 .. Len(legs))
  BY <1>1 DEF LegSum, LegOf
<1>3. ASSUME NEW n \in 1 .. Len(legs)
      PROVE  legs[n] \in Leg /\ LegOf(legs, u)[n] \in Int /\ Signed(legs)[n] \in Int
  <2>1. legs[n] \in Leg
    BY ElementOfSeq
  <2>2. legs[n].side \in Int /\ legs[n].qty \in Int
    BY <2>1 DEF Leg, Sides, Long, Short
  <2>3. legs[n].side * legs[n].qty \in Int
    BY <2>2
  <2> QED
    BY <1>1, <2>1, <2>3 DEF LegOf, Signed
<1> QED
  BY <1>1, <1>2, <1>3, FS_Interval

LEMMA LegSumInt == ASSUME NEW legs \in Seq(Leg), NEW u PROVE LegSum(legs, u) \in Int
<1>1. /\ IsFiniteSet(1 .. Len(legs)) /\ \A n \in 1 .. Len(legs) : LegOf(legs, u)[n] \in Int
      /\ LegSum(legs, u) = SumFunctionOnSet(LegOf(legs, u), 1 .. Len(legs))
  BY LegFacts
<1> QED
  BY <1>1, SumInt

LEMMA NoLegs == ASSUME NEW u PROVE LegSum(<<>>, u) = 0
<1>1. <<>> \in Seq(Leg) /\ Len(<<>>) = 0
  OBVIOUS
<1>2. LegSum(<<>>, u) = SumFunctionOnSet(LegOf(<<>>, u), 1 .. 0)
  BY <1>1, LegFacts
<1> QED
  BY <1>2, IndexSets, SumEmpty

\* The first leg and the rest.
LEMMA LegSumHead ==
  ASSUME NEW legs \in Seq(Leg), legs # <<>>, NEW u
  PROVE  /\ Head(legs) \in Leg /\ Tail(legs) \in Seq(Leg)
         /\ LegSum(legs, u)
              = LegSum(Tail(legs), u)
                + IF Head(legs).user = u THEN Head(legs).side * Head(legs).qty ELSE 0
<1> DEFINE f == LegOf(legs, u)
           g == LegOf(Tail(legs), u)
           k == Len(legs)
<1>1. /\ k \in Nat /\ DOMAIN legs = 1 .. k /\ \A n \in 1 .. k : legs[n] \in Leg /\ f[n] \in Int
      /\ LegSum(legs, u) = SumFunctionOnSet(f, 1 .. k)
  BY LegFacts
<1>2. /\ k # 0 /\ Head(legs) = legs[1] /\ Tail(legs) \in Seq(Leg) /\ Len(Tail(legs)) = k - 1
      /\ \A n \in 1 .. k - 1 : Tail(legs)[n] = legs[n + 1]
  <2>1. k # 0
    OBVIOUS
  <2>2. Tail(legs) \in Seq(Leg) /\ Len(Tail(legs)) = k - 1 /\ Head(legs) = legs[1]
    BY HeadTailProperties
  <2>3. \A n \in 1 .. k - 1 : Tail(legs)[n] = legs[n + 1]
    BY HeadTailProperties
  <2> QED
    BY <2>1, <2>2, <2>3
<1>3. /\ LegSum(Tail(legs), u) = SumFunctionOnSet(g, 1 .. (k - 1))
      /\ DOMAIN Tail(legs) = 1 .. (k - 1)
      /\ \A n \in 1 .. k - 1 : g[n] \in Int
  BY <1>2, LegFacts
<1>4. \A n \in 1 .. (k - 1) : g[n] = f[n + 1]
  BY <1>1, <1>2, <1>3 DEF LegOf
<1>5. f[1] = IF Head(legs).user = u THEN Head(legs).side * Head(legs).qty ELSE 0
  BY <1>1, <1>2 DEF LegOf
<1> HIDE DEF f, g, k
<1>6. SumFunctionOnSet(f, 1 .. k) = f[1] + SumFunctionOnSet(g, 1 .. (k - 1))
  BY <1>1, <1>2, <1>4, SumFirst
<1>7. SumFunctionOnSet(g, 1 .. (k - 1)) \in Int /\ f[1] \in Int
  <2>1. k - 1 \in Nat /\ 1 \in 1 .. k
    BY <1>1, <1>2
  <2>2. IsFiniteSet(1 .. (k - 1)) /\ \A n \in 1 .. (k - 1) : g[n] \in Int
    BY <1>3, <2>1, IndexSets
  <2> QED
    BY <1>1, <2>1, <2>2, SumInt
<1>8. Head(legs) \in Leg
  BY <1>1, <1>2
<1>9. LegSum(legs, u) = LegSum(Tail(legs), u) + f[1]
  BY <1>1, <1>3, <1>6, <1>7
<1> QED
  BY <1>2, <1>5, <1>8, <1>9

LEMMA LegSumConcat ==
  ASSUME NEW a \in Seq(Leg), NEW b \in Seq(Leg), NEW u
  PROVE  a \o b \in Seq(Leg) /\ LegSum(a \o b, u) = LegSum(a, u) + LegSum(b, u)
<1> DEFINE c == a \o b
           k == Len(a)
           n == Len(b)
           f == LegOf(a, u)
           g == LegOf(b, u)
           h == LegOf(c, u)
<1>1. /\ k \in Nat /\ DOMAIN a = 1 .. k /\ LegSum(a, u) = SumFunctionOnSet(f, 1 .. k)
      /\ \A i \in 1 .. k : f[i] \in Int
  BY LegFacts
<1>2. /\ n \in Nat /\ DOMAIN b = 1 .. n /\ LegSum(b, u) = SumFunctionOnSet(g, 1 .. n)
      /\ \A i \in 1 .. n : g[i] \in Int
  BY LegFacts
<1>3. /\ c \in Seq(Leg) /\ Len(c) = k + n
      /\ \A i \in 1 .. k : c[i] = a[i]
      /\ \A i \in 1 .. n : c[k + i] = b[i]
  <2>1. /\ c \in Seq(Leg) /\ Len(c) = k + n
        /\ \A i \in 1 .. k + n : c[i] = IF i <= k THEN a[i] ELSE b[i - k]
    BY ConcatProperties
  <2>2. \A i \in 1 .. n : k + i \in 1 .. k + n /\ ~(k + i <= k) /\ (k + i) - k = i
    BY <1>1, <1>2
  <2>3. \A i \in 1 .. k : i \in 1 .. k + n /\ i <= k
    BY <1>1, <1>2
  <2> QED
    BY <2>1, <2>2, <2>3
<1>4. DOMAIN c = 1 .. (k + n) /\ LegSum(c, u) = SumFunctionOnSet(h, 1 .. (k + n))
  BY <1>3, LegFacts
<1>5. Joined(f, k, g, n, h)
  <2>1. \A i \in 1 .. k : i \in DOMAIN c
    BY <1>1, <1>2, <1>4
  <2>2. \A i \in 1 .. n : k + i \in DOMAIN c
    BY <1>1, <1>2, <1>4
  <2> QED
    BY <1>1, <1>2, <1>3, <2>1, <2>2 DEF LegOf, Joined
<1> HIDE DEF c, k, n, f, g, h
<1>6. SumFunctionOnSet(h, 1 .. (k + n))
        = SumFunctionOnSet(f, 1 .. k) + SumFunctionOnSet(g, 1 .. n)
  BY <1>1, <1>2, <1>5, SumConcat
<1> QED
  BY <1>1, <1>2, <1>3, <1>4, <1>6 DEF c
\* What everybody trades in a sequence of legs together.
Balance(legs) == SumFunctionOnSet(Signed(legs), DOMAIN legs)

LEMMA LegTotal ==
  ASSUME NEW legs \in Seq(Leg), NEW g, g = [u \in Traders |-> LegSum(legs, u)]
  PROVE  SumFunctionOnSet(g, Traders) = Balance(legs)
<1> DEFINE S == 1 .. Len(legs)
           f == Signed(legs)
           owner == [n \in S |-> legs[n].user]
           p == Parts(f, S, Traders, owner)
<1>1. /\ DOMAIN legs = S /\ IsFiniteSet(S)
      /\ \A n \in S : legs[n] \in Leg /\ f[n] \in Int
  BY LegFacts
<1>2. \A n \in S : f[n] \in Int /\ owner[n] \in Traders
  BY <1>1 DEF Leg
<1>3. ASSUME NEW u \in Traders PROVE g[u] = p[u]
  <2> DEFINE T == {n \in S : owner[n] = u}
             h == LegOf(legs, u)
  <2>1. T \in SUBSET S /\ \A n \in S : h[n] = IF n \in T THEN f[n] ELSE 0
    BY <1>1 DEF LegOf, Signed
  <2>2. LegSum(legs, u) = SumFunctionOnSet(h, S)
    BY LegFacts
  <2>3. p[u] = SumFunctionOnSet(f, T)
    BY DEF Parts
  <2> HIDE DEF T, h, f, S, p
  <2>4. SumFunctionOnSet(h, S) = SumFunctionOnSet(f, T)
    BY <1>1, <2>1, SumWithin
  <2> QED
    BY <2>2, <2>3, <2>4
<1>4. Balance(legs) = SumFunctionOnSet(f, S)
  BY <1>1 DEF Balance
<1> HIDE DEF f, S, owner
<1>5. SumFunctionOnSet(p, Traders) = SumFunctionOnSet(f, S)
  BY <1>1, <1>2, TradersFinite, SumPartition
<1> HIDE DEF p
<1>6. SumFunctionOnSet(g, Traders) = SumFunctionOnSet(p, Traders)
  BY <1>3, TradersFinite, SumSame
<1> QED
  BY <1>4, <1>5, <1>6

\* The legs of trades are legs, two of each trade that cancel each other out.
LEMMA LegsFacts ==
  ASSUME NEW ts \in Sides, NEW trades, SideOK(ts, trades),
         NEW user \in Traders, NEW s \in Sides, NEW id \in Nat
  PROVE  LET legs == Legs(trades, user, s, id)
         IN  /\ legs \in Seq(Leg) /\ Balance(legs) = 0
             /\ legs = <<>> <=> trades = <<>>
<1> DEFINE k == Len(trades)
           taker(n) == [side |-> -trades[n].side, user |-> user, qty |-> trades[n].qty,
                        price |-> trades[n].price, id |-> id]
           maker(n) == [side |-> trades[n].side, user |-> trades[n].user,
                        qty |-> trades[n].qty, price |-> trades[n].price,
                        id |-> trades[n].id]
           half(n) == (n + 1) \div 2
           buying(n) == n % 2 = 1
           legs == Legs(trades, user, s, id)
<1>1. /\ k \in Nat /\ \A n \in 1 .. k : /\ trades[n] \in Resting /\ trades[n].side = ts
                                        /\ trades[n].qty \in Nat \ {0}
  BY SideQuantified
<1>2. legs = [n \in 1 .. 2 * k |-> IF buying(n) = (s = Long) THEN taker(half(n))
                                                              ELSE maker(half(n))]
  BY Zenon DEF Legs
<1>3. \A n \in 1 .. 2 * k : half(n) \in 1 .. k
  BY <1>1
<1>4. \A n \in 1 .. k : taker(n) \in Leg /\ maker(n) \in Leg
  <2> SUFFICES ASSUME NEW n \in 1 .. k PROVE taker(n) \in Leg /\ maker(n) \in Leg
    OBVIOUS
  <2>1. /\ trades[n].side = ts /\ trades[n].qty \in Nat \ {0} /\ trades[n].user \in Traders
        /\ trades[n].price \in Nat /\ trades[n].id \in Nat /\ -trades[n].side \in Sides
    BY <1>1, SideInt DEF Resting
  <2> QED
    BY <2>1 DEF Leg
<1>5. \A n \in 1 .. k : /\ taker(n).side * taker(n).qty \in Int
                        /\ maker(n).side * maker(n).qty \in Int
                        /\ taker(n).side * taker(n).qty + maker(n).side * maker(n).qty = 0
  <2> SUFFICES ASSUME NEW n \in 1 .. k
               PROVE  /\ taker(n).side * taker(n).qty \in Int
                      /\ maker(n).side * maker(n).qty \in Int
                      /\ taker(n).side * taker(n).qty + maker(n).side * maker(n).qty = 0
    OBVIOUS
  <2>1. taker(n).side = -ts /\ maker(n).side = ts /\ taker(n).qty = maker(n).qty
        /\ taker(n).qty \in Int /\ ts \in {1, -1}
    BY <1>1 DEF Sides, Long, Short
  <2> QED
    BY <2>1
<1> HIDE DEF k, taker, maker, legs
<1>6. \A n \in 1 .. 2 * k : legs[n] \in Leg
  <2> SUFFICES ASSUME NEW n \in 1 .. 2 * k PROVE legs[n] \in Leg
    OBVIOUS
  <2>1. half(n) \in 1 .. k
    BY <1>3
  <2>2. legs[n] = IF buying(n) = (s = Long) THEN taker(half(n)) ELSE maker(half(n))
    BY <1>2
  <2> HIDE DEF half, buying
  <2> QED
    BY <1>4, <2>1, <2>2
<1>7. /\ legs \in Seq(Leg) /\ Len(legs) = 2 * k /\ DOMAIN legs = 1 .. 2 * k
  <2>1. 2 * k \in Nat /\ DOMAIN legs = 1 .. 2 * k /\ legs = [n \in 1 .. 2 * k |-> legs[n]]
    BY <1>1, <1>2
  <2>2. legs \in [1 .. 2 * k -> Leg]
    BY <1>6, <2>1
  <2> QED
    BY <2>1, <2>2, SeqDef
<1> DEFINE f == Signed(legs)
<1>8. \A i \in 1 .. 2 * k : f[i] \in Int
  BY <1>7, LegFacts
<1>9. \A j \in 1 .. k : f[2 * j - 1] + f[2 * j] = 0
  <2> SUFFICES ASSUME NEW j \in 1 .. k PROVE f[2 * j - 1] + f[2 * j] = 0
    OBVIOUS
  <2> DEFINE a == 2 * j - 1
             b == 2 * j
  <2>1. /\ a \in 1 .. 2 * k /\ b \in 1 .. 2 * k /\ half(a) = j /\ half(b) = j
        /\ a % 2 = 1 /\ b % 2 = 0
    BY <1>1
  <2>2. (buying(a) = TRUE) /\ (buying(b) = FALSE)
    BY <2>1
  <2>3. /\ legs[a] = IF s = Long THEN taker(j) ELSE maker(j)
        /\ legs[b] = IF s = Long THEN maker(j) ELSE taker(j)
    <3> HIDE DEF a, b, buying, half
    <3>1. /\ legs[a] = IF buying(a) = (s = Long) THEN taker(j) ELSE maker(j)
          /\ legs[b] = IF buying(b) = (s = Long) THEN taker(j) ELSE maker(j)
      BY <1>2, <2>1
    <3>2. (s = Long) \in BOOLEAN
      OBVIOUS
    <3>3. CASE s = Long
      <4>1. (s = Long) = TRUE /\ (buying(a) = TRUE) /\ (buying(b) = FALSE)
        BY <2>2, <3>3
      <4> QED
        BY <3>1, <3>3, <4>1
    <3>4. CASE s # Long
      <4>1. (s = Long) = FALSE /\ (buying(a) = TRUE) /\ (buying(b) = FALSE)
        BY <2>2, <3>4
      <4> QED
        BY <3>1, <3>4, <4>1
    <3> QED
      BY <3>3, <3>4
  <2>4. f[a] = legs[a].side * legs[a].qty /\ f[b] = legs[b].side * legs[b].qty
    BY <1>7, <2>1 DEF Signed
  <2> HIDE DEF a, b, f
  <2>5. f[a] + f[b] = 0
    BY <1>5, <2>3, <2>4
  <2> QED
    BY <2>5 DEF a, b
<1>10. Balance(legs) = 0
  <2>1. Balance(legs) = SumFunctionOnSet(f, 1 .. 2 * k)
    BY <1>7 DEF Balance
  <2> HIDE DEF f
  <2> QED
    BY <1>1, <1>8, <1>9, <2>1, SumPairs
<1>11. legs = <<>> <=> trades = <<>>
  <2>1. trades \in Seq(Resting)
    BY SideQuantified
  <2>2. trades = <<>> <=> k = 0
    BY <2>1 DEF k
  <2>3. legs = <<>> <=> 2 * k = 0
    BY <1>7
  <2> QED
    BY <1>1, <2>2, <2>3
<1> QED
  BY <1>7, <1>10, <1>11 DEF legs
-----------------------------------------------------------------------------
(* The inductive invariant of the matching engine.                         *)

Call == [pc : Pcs, user : Traders, side : Sides, lev : Nat \ {0}, id : Nat, qty : Nat,
         price : Nat, cost : Nat, pos : Nat, legs : Seq(Leg)]

\* What thread t may be doing once n order IDs have been drawn.
CallOK(t, c, n) ==
  /\ c \in Call /\ c.id <= n
  /\ c.pc \in {"market", "limit", "close"} => c.qty # 0
  /\ c.pc \in {"limit", "resting"} => c.id # 0
  /\ c.pc \in {"limit", "filled", "resting", "cancel", "unfreeze", "uncache"}
       => t \in Threads /\ c.user \in Users
  /\ c.pc \in {"requote", "bid", "ask"}
       => t = Bot /\ c.qty # 0 /\ c.price \in Range(Feed) /\ Spread < c.price
  /\ c.pc \in {"filled", "legs"} => c.legs # <<>>
  /\ c.legs # <<>> => \/ c.pc \in {"filled", "legs", "ask"}
                      \/ t = Feeder /\ c.pc = "idle"

CallsOK ==
  /\ calls = [t \in AllThreads |-> calls[t]]
  /\ \A t \in AllThreads : CallOK(t, calls[t], nextID)

BookGood(b) ==
  /\ b = [s \in Sides |-> b[s]]
  /\ \A s \in Sides : SideOK(s, b[s]) /\ DistinctIDs(b[s])

CachedOK ==
  /\ cached = [i \in DOMAIN cached |-> cached[i]]
  /\ DOMAIN cached \subseteq 1 .. nextID
  /\ \A i \in DOMAIN cached : cached[i] \in [user : Users, cost : Nat, lev : Nat \ {0}]

RestOK ==
  /\ nextID \in Nat /\ quotes \subseteq 1 .. nextID
  /\ fed \in DOMAIN Feed /\ quoted \in Range(Feed) \cup {0}
  /\ matched = [u \in Traders |-> matched[u]]
  /\ \A u \in Traders : matched[u] \in Int

TypeInv == MemOK(mem) /\ CallsOK /\ BookGood(book) /\ CachedOK /\ RestOK

\* The orders that rest in a book, by ID and user.
Standing(b) ==
  UNION {{<<b[s][n].id, b[s][n].user>> : n \in DOMAIN b[s]} : s \in Sides}

\* An order of a real user is cached or about to be; one of the market maker is
\* among the quotes; one that is yet to come or has just been cancelled does
\* not rest.
StandingInv ==
  \A o \in Standing(book) :
    /\ o[1] \in 1 .. nextID
    /\ o[2] \in Users => \/ o[1] \in DOMAIN cached
                         \/ \E t \in Threads : calls[t].pc = "resting" /\ calls[t].id = o[1]
    /\ o[2] = MM => o[1] \in quotes
    /\ \A t \in Threads : calls[t].pc \in {"limit", "unfreeze", "uncache"} => calls[t].id # o[1]

\* The ID of an order that is not cached yet is nobody else's.
FreshInv ==
  \A t \in Threads :
    calls[t].pc \in {"limit", "resting"} =>
      /\ calls[t].id \notin DOMAIN cached
      /\ \A t2 \in Threads \ {t} :
           calls[t2].pc \in {"limit", "resting", "cancel", "unfreeze", "uncache"}
             => calls[t2].id # calls[t].id

\* Who cancels an order gives back what it froze, to whom it froze it from.
CancelInv ==
  \A t \in Threads :
    calls[t].pc \in {"cancel", "unfreeze", "uncache"} /\ calls[t].id \in DOMAIN cached
      => /\ cached[calls[t].id].user = calls[t].user
         /\ cached[calls[t].id].cost = calls[t].cost

\* Cached orders of u whose cost has not been given back, and the calls of u
\* that have frozen a cost.
Owing(ca, cs, u) ==
  {i \in DOMAIN ca : /\ ca[i].user = u
                     /\ \A t \in Threads : cs[t].pc = "uncache" => cs[t].id # i}

PlacingBy(cs, u) ==
  {t \in Threads : cs[t].user = u /\ cs[t].pc \in {"limit", "filled", "resting"}}

CostOf(f, S) == SumFunctionOnSet([x \in S |-> f[x].cost], S)

Owed(ca, cs, u) == CostOf(ca, Owing(ca, cs, u)) + CostOf(cs, PlacingBy(cs, u))

\* What is frozen is owed.
FrozenInv == \A u \in Users : mem.frozen[u] <= Owed(cached, calls, u)

Inv == /\ TypeInv /\ StandingInv /\ FreshInv /\ CancelInv /\ FrozenInv
       /\ PositionsFollowTrades

-----------------------------------------------------------------------------
(* Changes of the state, by part.                                          *)

\* Thread t goes on with call c and no other thread moves.
Goes(t, c) ==
  /\ calls' = [x \in AllThreads |-> calls'[x]]
  /\ calls'[t] = c
  /\ \A x \in AllThreads \ {t} : calls'[x] = calls[x]

LEMMA CallGoes ==
  ASSUME CallsOK, NEW t \in AllThreads, NEW c, calls' = [calls EXCEPT ![t] = c]
  PROVE  Goes(t, c)
BY DEF CallsOK, Goes

LEMMA CallsStep ==
  ASSUME CallsOK, nextID \in Nat, nextID' \in Nat, nextID <= nextID',
         NEW t \in AllThreads, NEW c, CallOK(t, c, nextID'), Goes(t, c)
  PROVE  CallsOK'
<1> SUFFICES ASSUME NEW x \in AllThreads PROVE CallOK(x, calls'[x], nextID')
  BY DEF CallsOK, Goes
<1>1. CASE x = t
  BY <1>1 DEF Goes
<1>2. CASE x # t
  <2>1. calls'[x] = calls[x] /\ CallOK(x, calls[x], nextID)
    BY <1>2 DEF CallsOK, Goes
  <2>2. calls[x].id <= nextID'
    <3>1. calls[x].id \in Nat /\ calls[x].id <= nextID
      BY <2>1 DEF CallOK, Call
    <3> QED
      BY <3>1
  <2> QED
    BY <2>1, <2>2 DEF CallOK
<1> QED
  BY <1>1, <1>2

\* More IDs are drawn and nobody moves.
LEMMA CallsStay ==
  ASSUME CallsOK, nextID \in Nat, nextID' \in Nat, nextID <= nextID', calls' = calls
  PROVE  CallsOK'
<1> SUFFICES ASSUME NEW x \in AllThreads PROVE CallOK(x, calls[x], nextID')
  BY DEF CallsOK
<1>1. CallOK(x, calls[x], nextID)
  BY DEF CallsOK
<1>2. calls[x].id \in Nat /\ calls[x].id <= nextID
  BY <1>1 DEF CallOK, Call
<1>3. calls[x].id <= nextID'
  BY <1>2
<1> QED
  BY <1>1, <1>3 DEF CallOK

LEMMA IdleOK == ASSUME NEW t \in AllThreads, NEW n \in Nat PROVE CallOK(t, Idle, n)
<1>1. Idle \in Call
  <2>1. <<>> \in Seq(Leg)
    OBVIOUS
  <2> QED
    BY <2>1 DEF Idle, Call, Pcs, Traders, Sides, Long, Short, NoLimit
<1> QED
  BY <1>1 DEF CallOK, Idle

LEMMA MemberThreads == Threads \subseteq AllThreads /\ Bot \in AllThreads /\ Feeder \in AllThreads
BY DEF AllThreads

LEMMA ThreadsFinite == IsFiniteSet(Threads) /\ IsFiniteSet(AllThreads)
<1>1. IsFiniteSet(Threads) /\ AllThreads = (Threads \cup {Bot}) \cup {Feeder}
  BY ThreadsAssumption DEF AllThreads
<1> QED
  BY <1>1, FS_AddElement

\* The fields of a call.
LEMMA CallFields ==
  ASSUME CallsOK, NEW t \in AllThreads
  PROVE  /\ CallOK(t, calls[t], nextID) /\ calls[t] \in Call
         /\ calls[t].user \in Traders /\ calls[t].side \in Sides /\ -calls[t].side \in Sides
         /\ calls[t].lev \in Nat \ {0} /\ calls[t].id \in Nat /\ calls[t].qty \in Nat
         /\ calls[t].price \in Nat /\ calls[t].cost \in Nat /\ calls[t].pos \in Nat
         /\ calls[t].legs \in Seq(Leg) /\ calls[t].id <= nextID
<1>1. CallOK(t, calls[t], nextID) /\ calls[t] \in Call
  BY DEF CallsOK, CallOK
<1> QED
  BY <1>1, SideInt DEF Call, CallOK

-----------------------------------------------------------------------------
(* The book as a whole.                                                    *)

LEMMA StandingMember ==
  ASSUME NEW b, NEW o
  PROVE  o \in Standing(b)
           <=> \E s \in Sides : \E n \in DOMAIN b[s] : o = <<b[s][n].id, b[s][n].user>>
BY DEF Standing

LEMMA BookTakes ==
  ASSUME NEW b, BookGood(b), NEW s \in Sides, NEW q, SideOK(s, q), DistinctIDs(q), From(b[s], q)
  PROVE  /\ BookGood([b EXCEPT ![s] = q])
         /\ Standing([b EXCEPT ![s] = q]) \subseteq Standing(b)
<1> DEFINE c == [b EXCEPT ![s] = q]
<1>1. c = [x \in Sides |-> c[x]] /\ c[s] = q /\ \A x \in Sides \ {s} : c[x] = b[x]
  BY DEF BookGood
<1> HIDE DEF c
<1>2. BookGood(c)
  BY <1>1 DEF BookGood
<1>3. ASSUME NEW o \in Standing(c) PROVE o \in Standing(b)
  <2>1. PICK x \in Sides : \E n \in DOMAIN c[x] : o = <<c[x][n].id, c[x][n].user>>
    BY StandingMember
  <2>2. PICK n \in DOMAIN c[x] : o = <<c[x][n].id, c[x][n].user>>
    BY <2>1
  <2>3. CASE x = s
    <3>1. PICK k \in DOMAIN b[s] : b[s][k].id = q[n].id /\ b[s][k].user = q[n].user
      BY <1>1, <2>2, <2>3 DEF From
    <3>2. o = <<b[s][k].id, b[s][k].user>>
      BY <1>1, <2>2, <2>3, <3>1
    <3> QED
      BY <3>1, <3>2, StandingMember
  <2>4. CASE x # s
    BY <1>1, <2>2, <2>4, StandingMember
  <2> QED
    BY <2>3, <2>4
<1> QED
  BY <1>2, <1>3 DEF c

LEMMA BookRests ==
  ASSUME NEW b, BookGood(b), NEW s \in Sides, NEW o \in Resting, o.side = s, o.qty > 0,
         \A p \in Standing(b) : p[1] # o.id
  PROVE  /\ BookGood([b EXCEPT ![s] = Queue(@, o)])
         /\ Standing([b EXCEPT ![s] = Queue(@, o)])
              \subseteq Standing(b) \cup {<<o.id, o.user>>}
<1> DEFINE q == Queue(b[s], o)
           c == [b EXCEPT ![s] = Queue(@, o)]
<1>1. c = [x \in Sides |-> c[x]] /\ c[s] = q /\ \A x \in Sides \ {s} : c[x] = b[x]
  BY DEF BookGood
<1>2. \A n \in DOMAIN b[s] : b[s][n].id # o.id
  <2> SUFFICES ASSUME NEW n \in DOMAIN b[s] PROVE b[s][n].id # o.id
    OBVIOUS
  <2>1. <<b[s][n].id, b[s][n].user>> \in Standing(b)
    BY StandingMember
  <2> QED
    BY <2>1
<1>3. SideOK(s, q) /\ DistinctIDs(q) /\ FromOr(b[s], q, o)
  BY <1>2, QueueFacts DEF BookGood
<1> HIDE DEF c, q
<1>4. BookGood(c)
  BY <1>1, <1>3 DEF BookGood
<1>5. ASSUME NEW p \in Standing(c), p # <<o.id, o.user>> PROVE p \in Standing(b)
  <2>1. PICK x \in Sides : \E n \in DOMAIN c[x] : p = <<c[x][n].id, c[x][n].user>>
    BY StandingMember
  <2>2. PICK n \in DOMAIN c[x] : p = <<c[x][n].id, c[x][n].user>>
    BY <2>1
  <2>3. CASE x = s
    <3>1. PICK k \in DOMAIN b[s] : b[s][k] = q[n]
      BY <1>1, <1>3, <1>5, <2>2, <2>3 DEF FromOr
    <3> QED
      BY <1>1, <2>2, <2>3, <3>1, StandingMember
  <2>4. CASE x # s
    BY <1>1, <2>2, <2>4, StandingMember
  <2> QED
    BY <2>3, <2>4
<1> QED
  BY <1>4, <1>5 DEF c

LEMMA BookWithout ==
  ASSUME BookGood(book), NEW id
  PROVE  /\ BookGood(WithoutOrder(id))
         /\ Standing(WithoutOrder(id)) \subseteq Standing(book)
         /\ \A o \in Standing(WithoutOrder(id)) : o[1] # id
<1> DEFINE c == WithoutOrder(id)
<1>1. c = [s \in Sides |-> Without(book[s], id)]
  BY DEF WithoutOrder
<1>2. ASSUME NEW s \in Sides
      PROVE  /\ SideOK(s, c[s]) /\ DistinctIDs(c[s]) /\ From(book[s], c[s])
             /\ \A n \in DOMAIN c[s] : c[s][n].id # id
  <2>1. SideOK(s, book[s]) /\ DistinctIDs(book[s])
    BY DEF BookGood
  <2>2. c[s] = Without(book[s], id)
    BY <1>1
  <2>3. /\ SideOK(s, Without(book[s], id)) /\ DistinctIDs(Without(book[s], id))
        /\ From(book[s], Without(book[s], id))
        /\ \A n \in DOMAIN Without(book[s], id) : Without(book[s], id)[n].id # id
    BY <2>1, WithoutFacts
  <2> HIDE DEF c
  <2> QED
    BY <2>2, <2>3
<1> HIDE DEF c
<1>3. BookGood(c)
  BY <1>1, <1>2 DEF BookGood
<1>4. ASSUME NEW o \in Standing(c) PROVE o \in Standing(book) /\ o[1] # id
  <2>1. PICK x \in Sides : \E n \in DOMAIN c[x] : o = <<c[x][n].id, c[x][n].user>>
    BY StandingMember
  <2>2. PICK n \in DOMAIN c[x] : o = <<c[x][n].id, c[x][n].user>>
    BY <2>1
  <2>3. PICK k \in DOMAIN book[x] : book[x][k].id = c[x][n].id /\ book[x][k].user = c[x][n].user
    BY <1>2, <2>2 DEF From
  <2>4. o = <<book[x][k].id, book[x][k].user>>
    BY <2>2, <2>3
  <2>5. o \in Standing(book)
    BY <2>3, <2>4, StandingMember
  <2>6. o[1] = c[x][n].id
    BY <2>2
  <2> QED
    BY <1>2, <2>2, <2>5, <2>6
<1> QED
  BY <1>3, <1>4 DEF c

-----------------------------------------------------------------------------
(* Orders, when one thread takes a step.                                   *)

\* The order a thread at one of these works on matters to the others.
OrderPcs == {"limit", "resting", "cancel", "unfreeze", "uncache"}

OrdersInv == StandingInv /\ FreshInv /\ CancelInv

\* No ID is drawn twice.
Draws == nextID \in Nat /\ nextID' \in Nat /\ nextID <= nextID'

\* A thread that works on no order, and an order book where none is new.
LEMMA OrdersQuiet ==
  ASSUME OrdersInv, Draws, NEW t \in AllThreads, NEW c, Goes(t, c),
         t \in Threads => calls[t].pc # "resting" /\ c.pc \notin OrderPcs,
         cached' = cached, quotes' = quotes, Standing(book') \subseteq Standing(book)
  PROVE  OrdersInv'
<1>1. \A x \in Threads : \/ calls'[x] = calls[x]
                         \/ calls[x].pc # "resting" /\ calls'[x].pc \notin OrderPcs
  BY MemberThreads DEF Goes
<1>2. StandingInv'
  <2> SUFFICES ASSUME NEW o \in Standing(book')
               PROVE  /\ o[1] \in 1 .. nextID'
                      /\ o[2] \in Users
                           => \/ o[1] \in DOMAIN cached
                              \/ \E x \in Threads : calls'[x].pc = "resting" /\ calls'[x].id = o[1]
                      /\ o[2] = MM => o[1] \in quotes
                      /\ \A x \in Threads :
                           calls'[x].pc \in {"limit", "unfreeze", "uncache"} => calls'[x].id # o[1]
    BY DEF StandingInv
  <2>1. o \in Standing(book)
    OBVIOUS
  <2>2. o[1] \in 1 .. nextID'
    <3>1. o[1] \in 1 .. nextID
      BY <2>1 DEF OrdersInv, StandingInv
    <3> QED
      BY <3>1 DEF Draws
  <2> QED
    BY <1>1, <2>1, <2>2 DEF OrdersInv, StandingInv, OrderPcs
<1>3. FreshInv'
  BY <1>1 DEF OrdersInv, FreshInv, OrderPcs
<1>4. CancelInv'
  BY <1>1 DEF OrdersInv, CancelInv, OrderPcs
<1> QED
  BY <1>2, <1>3, <1>4 DEF OrdersInv

\* A new limit order, whose ID is new.
LEMMA OrdersPlaced ==
  ASSUME OrdersInv, Draws, CallsOK, CachedOK, NEW t \in Threads, NEW c, Goes(t, c),
         c.pc = "limit", c.id = nextID + 1, nextID' = nextID + 1, calls[t].pc = "idle",
         cached' = cached, quotes' = quotes, book' = book
  PROVE  OrdersInv'
<1>1. \A x \in Threads \ {t} : calls'[x] = calls[x]
  BY MemberThreads DEF Goes
<1>2. calls'[t] = c
  BY DEF Goes
<1>3. \A x \in Threads : calls[x].id \in Nat /\ calls[x].id <= nextID /\ calls[x].id # nextID + 1
  <2> SUFFICES ASSUME NEW x \in Threads
               PROVE  calls[x].id \in Nat /\ calls[x].id <= nextID /\ calls[x].id # nextID + 1
    OBVIOUS
  <2>1. calls[x].id \in Nat /\ calls[x].id <= nextID
    BY MemberThreads, CallFields
  <2> QED
    BY <2>1 DEF Draws
<1>4. StandingInv'
  <2> SUFFICES ASSUME NEW o \in Standing(book)
               PROVE  /\ o[1] \in 1 .. nextID'
                      /\ o[2] \in Users
                           => \/ o[1] \in DOMAIN cached
                              \/ \E x \in Threads : calls'[x].pc = "resting" /\ calls'[x].id = o[1]
                      /\ o[2] = MM => o[1] \in quotes
                      /\ \A x \in Threads :
                           calls'[x].pc \in {"limit", "unfreeze", "uncache"} => calls'[x].id # o[1]
    BY DEF StandingInv
  <2>1. o[1] \in 1 .. nextID
    BY DEF OrdersInv, StandingInv
  <2>2. o[1] \in 1 .. nextID' /\ o[1] # nextID + 1
    BY <2>1 DEF Draws
  <2> QED
    BY <1>1, <1>2, <2>2 DEF OrdersInv, StandingInv
<1>5. FreshInv'
  <2>1. nextID + 1 \notin DOMAIN cached
    BY DEF CachedOK, Draws
  <2> QED
    BY <1>1, <1>2, <1>3, <2>1 DEF OrdersInv, FreshInv
<1>6. CancelInv'
  BY <1>1, <1>2 DEF OrdersInv, CancelInv
<1> QED
  BY <1>4, <1>5, <1>6 DEF OrdersInv

\* What a limit order has left comes to rest; its call is yet to cache it.
LEMMA OrdersRest ==
  ASSUME OrdersInv, Draws, CallsOK, NEW t \in Threads, NEW c, Goes(t, c),
         calls[t].pc = "limit", c.pc = "resting", c.id = calls[t].id,
         cached' = cached, quotes' = quotes, nextID' = nextID,
         NEW o, o[1] = c.id, o[2] \in Users, Standing(book') \subseteq Standing(book) \cup {o}
  PROVE  OrdersInv'
<1>1. \A x \in Threads \ {t} : calls'[x] = calls[x]
  BY MemberThreads DEF Goes
<1>2. calls'[t] = c
  BY DEF Goes
<1>3. StandingInv'
  <2> SUFFICES ASSUME NEW p \in Standing(book')
               PROVE  /\ p[1] \in 1 .. nextID
                      /\ p[2] \in Users
                           => \/ p[1] \in DOMAIN cached
                              \/ \E x \in Threads : calls'[x].pc = "resting" /\ calls'[x].id = p[1]
                      /\ p[2] = MM => p[1] \in quotes
                      /\ \A x \in Threads :
                           calls'[x].pc \in {"limit", "unfreeze", "uncache"} => calls'[x].id # p[1]
    BY DEF StandingInv
  <2>1. CASE p \in Standing(book)
    BY <1>1, <1>2, <2>1 DEF OrdersInv, StandingInv
  <2>2. CASE p = o
    <3>1. p[1] \in 1 .. nextID
      <4>1. /\ calls[t].id \in Nat /\ calls[t].id <= nextID
            /\ CallOK(t, calls[t], nextID)
        BY MemberThreads, CallFields
      <4>2. c.id \in Nat \ {0} /\ c.id <= nextID
        BY <4>1 DEF CallOK
      <4> QED
        BY <2>2, <4>2 DEF Draws
    <3>2. p[2] # MM
      BY <2>2, UsersAssumption
    <3>3. \A x \in Threads \ {t} :
            calls[x].pc \in {"limit", "unfreeze", "uncache"} => calls[x].id # p[1]
      BY <2>2 DEF OrdersInv, FreshInv
    <3> QED
      BY <1>1, <1>2, <2>2, <3>1, <3>2, <3>3
  <2> QED
    BY <2>1, <2>2
<1>4. FreshInv'
  BY <1>1, <1>2 DEF OrdersInv, FreshInv
<1>5. CancelInv'
  BY <1>1, <1>2 DEF OrdersInv, CancelInv
<1> QED
  BY <1>3, <1>4, <1>5 DEF OrdersInv

\* The call caches its order.
LEMMA OrdersCached ==
  ASSUME OrdersInv, NEW t \in Threads, Goes(t, Idle), calls[t].pc = "resting",
         DOMAIN cached' = DOMAIN cached \cup {calls[t].id},
         \A i \in DOMAIN cached : cached'[i] = cached[i],
         quotes' = quotes, nextID' = nextID, book' = book
  PROVE  OrdersInv'
<1>1. \A x \in Threads \ {t} : calls'[x] = calls[x]
  BY MemberThreads DEF Goes
<1>2. calls'[t] = Idle /\ Idle.pc = "idle"
  BY DEF Goes, Idle
<1>3. \A x \in Threads \ {t} : calls[x].pc \in OrderPcs => calls[x].id # calls[t].id
  BY DEF OrdersInv, FreshInv, OrderPcs
<1>4. StandingInv'
  BY <1>1, <1>2 DEF OrdersInv, StandingInv
<1>5. FreshInv'
  BY <1>1, <1>2, <1>3 DEF OrdersInv, FreshInv, OrderPcs
<1>6. CancelInv'
  BY <1>1, <1>2, <1>3 DEF OrdersInv, CancelInv, OrderPcs
<1> QED
  BY <1>4, <1>5, <1>6 DEF OrdersInv

\* A cached order is picked for cancellation.
LEMMA OrdersPicked ==
  ASSUME OrdersInv, NEW t \in Threads, NEW c, Goes(t, c), calls[t].pc = "idle",
         c.pc = "cancel", c.id \in DOMAIN cached,
         c.user = cached[c.id].user, c.cost = cached[c.id].cost,
         cached' = cached, quotes' = quotes, nextID' = nextID, book' = book
  PROVE  OrdersInv'
<1>1. \A x \in Threads \ {t} : calls'[x] = calls[x]
  BY MemberThreads DEF Goes
<1>2. calls'[t] = c
  BY DEF Goes
<1>4. StandingInv'
  BY <1>1, <1>2 DEF OrdersInv, StandingInv
<1>5. FreshInv'
  BY <1>1, <1>2 DEF OrdersInv, FreshInv
<1>6. CancelInv'
  BY <1>1, <1>2 DEF OrdersInv, CancelInv
<1> QED
  BY <1>4, <1>5, <1>6 DEF OrdersInv

\* The order has left the book, or has not been there; its cost is still to be
\* given back, or has been.
LEMMA OrdersCancelled ==
  ASSUME OrdersInv, NEW t \in Threads, NEW c, Goes(t, c), calls[t].pc \in {"cancel", "unfreeze"},
         c.pc \in {"unfreeze", "uncache"}, c.id = calls[t].id, c.user = calls[t].user,
         c.cost = calls[t].cost, Standing(book') \subseteq Standing(book),
         \A o \in Standing(book') : o[1] # c.id,
         cached' = cached, quotes' = quotes, nextID' = nextID
  PROVE  OrdersInv'
<1>1. \A x \in Threads \ {t} : calls'[x] = calls[x]
  BY MemberThreads DEF Goes
<1>2. calls'[t] = c
  BY DEF Goes
<1>4. StandingInv'
  BY <1>1, <1>2 DEF OrdersInv, StandingInv
<1>5. FreshInv'
  BY <1>1, <1>2 DEF OrdersInv, FreshInv
<1>6. CancelInv'
  BY <1>1, <1>2 DEF OrdersInv, CancelInv
<1> QED
  BY <1>4, <1>5, <1>6 DEF OrdersInv

\* A cancelled order leaves the cache.
LEMMA OrdersUncached ==
  ASSUME OrdersInv, NEW t \in Threads, Goes(t, Idle), calls[t].pc = "uncache",
         DOMAIN cached' = DOMAIN cached \ {calls[t].id},
         \A i \in DOMAIN cached' : cached'[i] = cached[i],
         quotes' = quotes, nextID' = nextID, book' = book
  PROVE  OrdersInv'
<1>1. \A x \in Threads \ {t} : calls'[x] = calls[x]
  BY MemberThreads DEF Goes
<1>2. calls'[t] = Idle /\ Idle.pc = "idle"
  BY DEF Goes, Idle
<1>4. StandingInv'
  BY <1>1, <1>2 DEF OrdersInv, StandingInv
<1>5. FreshInv'
  BY <1>1, <1>2 DEF OrdersInv, FreshInv
<1>6. CancelInv'
  BY <1>1, <1>2 DEF OrdersInv, CancelInv
<1> QED
  BY <1>4, <1>5, <1>6 DEF OrdersInv

\* A system account's order has come to rest: a quote is tracked from then on.
LEMMA OrdersOfSystem ==
  ASSUME OrdersInv, Draws, CallsOK, NEW t \in {Bot, Feeder}, NEW c, Goes(t, c),
         NEW o, o[1] = nextID + 1, o[2] \notin Users, o[2] = MM => nextID + 1 \in quotes',
         nextID' = nextID + 1, cached' = cached, quotes \subseteq quotes',
         Standing(book') \subseteq Standing(book) \cup {o}
  PROVE  OrdersInv'
<1>1. \A x \in Threads : calls'[x] = calls[x]
  BY MemberThreads, ThreadsAssumption DEF Goes
<1>2. \A x \in Threads : calls[x].id # nextID + 1
  <2> SUFFICES ASSUME NEW x \in Threads PROVE calls[x].id # nextID + 1
    OBVIOUS
  <2>1. calls[x].id \in Nat /\ calls[x].id <= nextID
    BY MemberThreads, CallFields
  <2> QED
    BY <2>1 DEF Draws
<1>3. StandingInv'
  <2> SUFFICES ASSUME NEW p \in Standing(book')
               PROVE  /\ p[1] \in 1 .. nextID'
                      /\ p[2] \in Users
                           => \/ p[1] \in DOMAIN cached
                              \/ \E x \in Threads : calls[x].pc = "resting" /\ calls[x].id = p[1]
                      /\ p[2] = MM => p[1] \in quotes'
                      /\ \A x \in Threads :
                           calls[x].pc \in {"limit", "unfreeze", "uncache"} => calls[x].id # p[1]
    BY <1>1 DEF StandingInv
  <2>1. CASE p \in Standing(book)
    <3>1. p[1] \in 1 .. nextID
      BY <2>1 DEF OrdersInv, StandingInv
    <3>2. p[1] \in 1 .. nextID'
      BY <3>1 DEF Draws
    <3> QED
      BY <2>1, <3>2 DEF OrdersInv, StandingInv
  <2>2. CASE p = o
    <3>1. p[1] \in 1 .. nextID'
      BY <2>2 DEF Draws
    <3> QED
      BY <1>2, <2>2, <3>1
  <2> QED
    BY <2>1, <2>2
<1>4. FreshInv'
  BY <1>1 DEF OrdersInv, FreshInv
<1>5. CancelInv'
  BY <1>1 DEF OrdersInv, CancelInv
<1> QED
  BY <1>3, <1>4, <1>5 DEF OrdersInv

\* A quote is cancelled and forgotten.
LEMMA OrdersUnquoted ==
  ASSUME OrdersInv, calls' = calls, cached' = cached, nextID' = nextID, NEW id,
         quotes' = quotes \ {id}, Standing(book') \subseteq Standing(book),
         \A o \in Standing(book') : o[1] # id
  PROVE  OrdersInv'
<1>1. StandingInv'
  BY DEF OrdersInv, StandingInv
<1>2. FreshInv' /\ CancelInv'
  BY DEF OrdersInv, FreshInv, CancelInv
<1> QED
  BY <1>1, <1>2 DEF OrdersInv

-----------------------------------------------------------------------------
(* What is frozen, when one thread takes a step.                           *)

LEMMA CostNat ==
  ASSUME NEW f, NEW S, IsFiniteSet(S), \A x \in S : f[x].cost \in Nat
  PROVE  CostOf(f, S) \in Nat
<1> DEFINE g == [x \in S |-> f[x].cost]
<1>1. \A x \in S : g[x] \in Nat
  OBVIOUS
<1>2. CostOf(f, S) = SumFunctionOnSet(g, S)
  BY DEF CostOf
<1> HIDE DEF g
<1> QED
  BY <1>1, <1>2, SumNat

LEMMA CostSame ==
  ASSUME NEW f, NEW g, NEW S, IsFiniteSet(S), \A x \in S : f[x].cost = g[x].cost
  PROVE  CostOf(f, S) = CostOf(g, S)
<1>1. [x \in S |-> f[x].cost] = [x \in S |-> g[x].cost]
  OBVIOUS
<1> QED
  BY <1>1, Zenon DEF CostOf

LEMMA CostLess ==
  ASSUME NEW f, NEW g, NEW S, IsFiniteSet(S), NEW e \in S, NEW T, T = S \ {e},
         \A x \in S : f[x].cost \in Nat, \A x \in T : g[x].cost = f[x].cost
  PROVE  CostOf(f, S) = CostOf(g, T) + f[e].cost
<1> DEFINE a == [x \in S |-> f[x].cost]
           b == [x \in T |-> g[x].cost]
<1>1. /\ CostOf(f, S) = SumFunctionOnSet(a, S) /\ CostOf(g, T) = SumFunctionOnSet(b, T)
      /\ a[e] = f[e].cost
  BY DEF CostOf
<1>2. /\ \A x \in S : a[x] \in Int
      /\ \A x \in T : b[x] = a[x] /\ b[x] \in Int
  OBVIOUS
<1>3. IsFiniteSet(T)
  BY FS_RemoveElement
<1> HIDE DEF a, b
<1>4. SumFunctionOnSet(a, S) = a[e] + SumFunctionOnSet(a, S \ {e})
  BY <1>2, SumRemove
<1>5. SumFunctionOnSet(b, T) = SumFunctionOnSet(a, T)
  BY <1>2, <1>3, SumSame
<1>6. SumFunctionOnSet(b, T) \in Int
  BY <1>2, <1>3, SumInt
<1>7. SumFunctionOnSet(a, S) = a[e] + SumFunctionOnSet(b, T)
  BY <1>4, <1>5
<1> QED
  BY <1>1, <1>2, <1>6, <1>7

\* Costs are amounts.
Costs(ca, cs) ==
  /\ IsFiniteSet(DOMAIN ca) /\ \A i \in DOMAIN ca : ca[i].cost \in Nat
  /\ \A t \in Threads : cs[t].cost \in Nat

LEMMA CostsAre == ASSUME CallsOK, CachedOK, nextID \in Nat PROVE Costs(cached, calls)
<1>1. IsFiniteSet(DOMAIN cached)
  <2>1. IsFiniteSet(1 .. nextID)
    BY FS_Interval
  <2> QED
    BY <2>1, FS_Subset DEF CachedOK
<1>2. \A t \in Threads : calls[t].cost \in Nat
  <2> SUFFICES ASSUME NEW t \in Threads PROVE calls[t].cost \in Nat
    OBVIOUS
  <2> QED
    BY MemberThreads, CallFields
<1> QED
  BY <1>1, <1>2 DEF Costs, CachedOK

LEMMA OwedFacts ==
  ASSUME NEW ca, NEW cs, Costs(ca, cs), NEW u
  PROVE  /\ IsFiniteSet(Owing(ca, cs, u)) /\ IsFiniteSet(PlacingBy(cs, u))
         /\ \A i \in Owing(ca, cs, u) : ca[i].cost \in Nat
         /\ \A t \in PlacingBy(cs, u) : cs[t].cost \in Nat
         /\ CostOf(ca, Owing(ca, cs, u)) \in Nat /\ CostOf(cs, PlacingBy(cs, u)) \in Nat
<1>1. Owing(ca, cs, u) \subseteq DOMAIN ca /\ PlacingBy(cs, u) \subseteq Threads
  BY DEF Owing, PlacingBy
<1>2. IsFiniteSet(Owing(ca, cs, u)) /\ IsFiniteSet(PlacingBy(cs, u))
  BY <1>1, ThreadsFinite, FS_Subset DEF Costs
<1>3. /\ \A i \in Owing(ca, cs, u) : ca[i].cost \in Nat
      /\ \A t \in PlacingBy(cs, u) : cs[t].cost \in Nat
  BY <1>1 DEF Costs
<1> QED
  BY <1>2, <1>3, CostNat

\* Thread t neither freezes nor gives back, and goes on placing if it does.
LEMMA FrozenQuiet ==
  ASSUME FrozenInv, CallsOK, CachedOK, nextID \in Nat, NEW t \in AllThreads, NEW c, Goes(t, c),
         t \in Threads =>
           \/ /\ calls[t].pc \notin {"limit", "filled", "resting", "uncache"}
              /\ c.pc \notin {"limit", "filled", "resting", "uncache"}
           \/ /\ calls[t].pc \in {"limit", "filled", "resting"}
              /\ c.pc \in {"limit", "filled", "resting"}
              /\ c.user = calls[t].user /\ c.cost = calls[t].cost,
         mem'.frozen = mem.frozen, cached' = cached
  PROVE  FrozenInv'
<1> SUFFICES ASSUME NEW u \in Users PROVE mem'.frozen[u] <= Owed(cached', calls', u)
  BY DEF FrozenInv
<1>1. Costs(cached, calls)
  BY CostsAre
<1>2. \A x \in Threads \ {t} : calls'[x] = calls[x]
  BY MemberThreads DEF Goes
<1>3. calls'[t] = c
  BY DEF Goes
<1>4. Owing(cached', calls', u) = Owing(cached, calls, u)
  BY <1>2, <1>3 DEF Owing
<1>5. PlacingBy(calls', u) = PlacingBy(calls, u)
  BY <1>2, <1>3 DEF PlacingBy
<1>6. \A x \in PlacingBy(calls, u) : calls'[x].cost = calls[x].cost
  BY <1>2, <1>3 DEF PlacingBy
<1>7. CostOf(calls', PlacingBy(calls, u)) = CostOf(calls, PlacingBy(calls, u))
  <2>1. IsFiniteSet(PlacingBy(calls, u))
    BY <1>1, OwedFacts
  <2> QED
    BY <1>6, <2>1, CostSame
<1>8. Owed(cached', calls', u) = Owed(cached, calls, u)
  BY <1>4, <1>5, <1>7, Zenon DEF Owed
<1> QED
  BY <1>8 DEF FrozenInv

\* From m to n nobody's positions change, nor what is remembered of them.
Keeps(m, n) == n.pos = m.pos /\ n.lost = m.lost /\ n.bought = m.bought

\* From m to n user u has amount more frozen.
SetsAside(m, n, u, amount) ==
  \A v \in Traders : n.frozen[v] = m.frozen[v] + IF v = u THEN amount ELSE 0

LEMMA FreezeFacts ==
  ASSUME NEW m, MemOK(m), NEW u \in Traders, NEW amount \in Nat,
         NEW n, n = Freeze(m, u, amount)
  PROVE  MemOK(n) /\ Keeps(m, n) /\ SetsAside(m, n, u, amount)
<1> DEFINE frozen == [m.frozen EXCEPT ![u] = @ + amount]
<1>1. n = [m EXCEPT !.frozen = frozen]
  BY Zenon DEF Freeze
<1>2. m.frozen \in [Traders -> Nat]
  BY DEF MemOK, Memory
<1>3. /\ frozen \in [Traders -> Nat]
      /\ \A v \in Traders : frozen[v] = m.frozen[v] + IF v = u THEN amount ELSE 0
  BY <1>2
<1> HIDE DEF frozen
<1>4. n \in Memory /\ n.frozen = frozen /\ n.pos = m.pos /\ n.lastPos = m.lastPos /\ Keeps(m, n)
  BY <1>1, <1>3 DEF MemOK, Memory, Keeps
<1> QED
  BY <1>3, <1>4 DEF MemOK, SetsAside

\* From m to n user u gets amount back of what is frozen, or all of it.
GivesBack(m, n, u, amount) ==
  \A v \in Traders : n.frozen[v] = IF v # u THEN m.frozen[v]
                                  ELSE IF m.frozen[v] < amount THEN 0
                                  ELSE m.frozen[v] - amount

LEMMA UnfreezeFacts ==
  ASSUME NEW m, MemOK(m), NEW u \in Traders, NEW amount \in Nat,
         NEW n, n = Unfreeze(m, u, amount)
  PROVE  MemOK(n) /\ Keeps(m, n) /\ GivesBack(m, n, u, amount)
<1> DEFINE frozen == [m.frozen EXCEPT ![u] = IF @ < amount THEN 0 ELSE @ - amount]
<1>1. n = [m EXCEPT !.frozen = frozen]
  BY Zenon DEF Unfreeze
<1>2. m.frozen \in [Traders -> Nat]
  BY DEF MemOK, Memory
<1>3. /\ frozen \in [Traders -> Nat]
      /\ \A v \in Traders : frozen[v] = IF v # u THEN m.frozen[v]
                                        ELSE IF m.frozen[v] < amount THEN 0
                                        ELSE m.frozen[v] - amount
  BY <1>2
<1> HIDE DEF frozen
<1>4. n \in Memory /\ n.frozen = frozen /\ n.pos = m.pos /\ n.lastPos = m.lastPos /\ Keeps(m, n)
  BY <1>1, <1>3 DEF MemOK, Memory, Keeps
<1> QED
  BY <1>3, <1>4 DEF MemOK, GivesBack

LEMMA FrozenNat == ASSUME TypeInv, NEW u \in Users PROVE mem.frozen[u] \in Nat
BY DEF TypeInv, MemOK, Memory, Traders

\* A new limit order freezes its cost.
LEMMA FrozenPlaced ==
  ASSUME FrozenInv, TypeInv, NEW t \in Threads, NEW c, Goes(t, c), calls[t].pc = "idle",
         c.pc = "limit", c.user \in Users, c.cost \in Nat,
         SetsAside(mem, mem', c.user, c.cost),
         cached' = cached
  PROVE  FrozenInv'
<1> SUFFICES ASSUME NEW u \in Users PROVE mem'.frozen[u] <= Owed(cached', calls', u)
  BY DEF FrozenInv
<1>1. Costs(cached, calls)
  BY CostsAre DEF TypeInv, RestOK
<1>2. \A x \in Threads \ {t} : calls'[x] = calls[x]
  BY MemberThreads DEF Goes
<1>3. calls'[t] = c
  BY DEF Goes
<1>4. Owing(cached', calls', u) = Owing(cached, calls, u)
  BY <1>2, <1>3 DEF Owing
<1> DEFINE S == PlacingBy(calls, u)
           T == PlacingBy(calls', u)
           old == CostOf(cached, Owing(cached, calls, u))
<1>5. IsFiniteSet(S) /\ CostOf(calls, S) \in Nat /\ old \in Nat
  BY <1>1, OwedFacts
<1>6. Owed(cached, calls, u) = old + CostOf(calls, S)
  BY Zenon DEF Owed
<1>7. Owed(cached', calls', u) = old + CostOf(calls', T)
  BY <1>4, Zenon DEF Owed
<1>8. mem.frozen[u] \in Nat /\ mem.frozen[u] <= Owed(cached, calls, u) /\ u \in Traders
  BY FrozenNat DEF FrozenInv, Traders
<1>9. Costs(cached, calls')
  BY <1>1, <1>2, <1>3 DEF Costs
<1>10. IsFiniteSet(T) /\ \A x \in T : calls'[x].cost \in Nat
  BY <1>9, OwedFacts
<1>11. \A x \in S : x # t /\ calls'[x].cost = calls[x].cost
  BY <1>2 DEF PlacingBy
<1> HIDE DEF old
<1>12. CASE c.user = u
  <2>1. t \in T /\ S = T \ {t}
    BY <1>2, <1>3, <1>12 DEF PlacingBy
  <2> HIDE DEF S, T
  <2>2. CostOf(calls', T) = CostOf(calls, S) + calls'[t].cost
    BY <1>10, <1>11, <2>1, CostLess
  <2>3. mem'.frozen[u] = mem.frozen[u] + c.cost
    BY <1>8, <1>12 DEF SetsAside
  <2> QED
    BY <1>3, <1>5, <1>6, <1>7, <1>8, <2>2, <2>3
<1>13. CASE c.user # u
  <2>1. S = T
    BY <1>2, <1>3, <1>13 DEF PlacingBy
  <2> HIDE DEF S, T
  <2>2. CostOf(calls', T) = CostOf(calls, S)
    BY <1>5, <1>11, <2>1, CostSame
  <2>3. mem'.frozen[u] = mem.frozen[u]
    BY <1>8, <1>13 DEF SetsAside
  <2> QED
    BY <1>6, <1>7, <1>8, <2>2, <2>3
<1> QED
  BY <1>12, <1>13

\* An order filled at once gives back its cost.
LEMMA FrozenFilled ==
  ASSUME FrozenInv, TypeInv, NEW t \in Threads, NEW c, Goes(t, c), calls[t].pc = "filled",
         c.pc = "legs", mem' = Unfreeze(mem, calls[t].user, calls[t].cost), cached' = cached
  PROVE  FrozenInv'
<1> SUFFICES ASSUME NEW u \in Users PROVE mem'.frozen[u] <= Owed(cached', calls', u)
  BY DEF FrozenInv
<1>1. Costs(cached, calls)
  BY CostsAre DEF TypeInv, RestOK
<1>2. \A x \in Threads \ {t} : calls'[x] = calls[x]
  BY MemberThreads DEF Goes
<1>3. calls'[t] = c
  BY DEF Goes
<1>4. Owing(cached', calls', u) = Owing(cached, calls, u)
  BY <1>2, <1>3 DEF Owing
<1> DEFINE S == PlacingBy(calls, u)
           T == PlacingBy(calls', u)
           old == CostOf(cached, Owing(cached, calls, u))
<1>5. /\ IsFiniteSet(S) /\ CostOf(calls, S) \in Nat /\ old \in Nat
      /\ \A x \in S : calls[x].cost \in Nat
  BY <1>1, OwedFacts
<1>6. Owed(cached, calls, u) = old + CostOf(calls, S)
  BY Zenon DEF Owed
<1>7. Owed(cached', calls', u) = old + CostOf(calls', T)
  BY <1>4, Zenon DEF Owed
<1>8. mem.frozen[u] \in Nat /\ mem.frozen[u] <= Owed(cached, calls, u) /\ u \in Traders
  BY FrozenNat DEF FrozenInv, Traders
<1>9. T = S \ {t} /\ IsFiniteSet(T)
  <2>1. T = S \ {t}
    BY <1>2, <1>3 DEF PlacingBy
  <2> QED
    BY <1>5, <2>1, FS_Subset
<1>10. \A x \in T : x \in S /\ calls'[x].cost = calls[x].cost
  BY <1>2, <1>9 DEF PlacingBy
<1>11. CostOf(calls', T) \in Nat
  <2>1. \A x \in T : calls'[x].cost \in Nat
    BY <1>5, <1>10
  <2> HIDE DEF T
  <2> QED
    BY <1>9, <2>1, CostNat
<1>12. calls[t].user \in Traders /\ calls[t].cost \in Nat
  BY MemberThreads, CallFields DEF TypeInv
<1>13. mem'.frozen[u] = IF u # calls[t].user THEN mem.frozen[u]
                        ELSE IF mem.frozen[u] < calls[t].cost THEN 0
                        ELSE mem.frozen[u] - calls[t].cost
  <2>1. GivesBack(mem, mem', calls[t].user, calls[t].cost)
    BY <1>12, UnfreezeFacts DEF TypeInv
  <2> QED
    BY <1>8, <2>1 DEF GivesBack
<1> HIDE DEF old
<1>14. CASE calls[t].user = u
  <2>1. t \in S
    BY <1>14 DEF PlacingBy
  <2> HIDE DEF S, T
  <2>2. CostOf(calls, S) = CostOf(calls', T) + calls[t].cost
    <3>1. IsFiniteSet(S) /\ t \in S /\ T = S \ {t}
      BY <1>5, <1>9, <2>1
    <3>2. \A x \in S : calls[x].cost \in Nat
      BY <1>5
    <3>3. \A x \in T : calls'[x].cost = calls[x].cost
      BY <1>10
    <3> QED
      BY <3>1, <3>2, <3>3, CostLess
  <2> QED
    BY <1>5, <1>6, <1>7, <1>8, <1>11, <1>12, <1>13, <1>14, <2>2
<1>15. CASE calls[t].user # u
  <2>1. S = T
    BY <1>9, <1>15 DEF PlacingBy
  <2> HIDE DEF S, T
  <2>2. CostOf(calls', T) = CostOf(calls, S)
    BY <1>5, <1>10, <2>1, CostSame
  <2> QED
    BY <1>6, <1>7, <1>8, <1>13, <1>15, <2>2
<1> QED
  BY <1>14, <1>15

\* The order is cached and the call is over: the cost is owed as before.
LEMMA FrozenCached ==
  ASSUME FrozenInv, OrdersInv, TypeInv, NEW t \in Threads, Goes(t, Idle), calls[t].pc = "resting",
         DOMAIN cached' = DOMAIN cached \cup {calls[t].id},
         \A i \in DOMAIN cached : cached'[i] = cached[i],
         cached'[calls[t].id].user = calls[t].user, cached'[calls[t].id].cost = calls[t].cost,
         mem' = mem
  PROVE  FrozenInv'
<1> SUFFICES ASSUME NEW u \in Users PROVE mem.frozen[u] <= Owed(cached', calls', u)
  BY DEF FrozenInv
<1>1. Costs(cached, calls)
  BY CostsAre DEF TypeInv, RestOK
<1>2. \A x \in Threads \ {t} : calls'[x] = calls[x]
  BY MemberThreads DEF Goes
<1>3. calls'[t] = Idle /\ Idle.pc = "idle" /\ Idle.cost = 0
  BY DEF Goes, Idle
<1>4. /\ calls[t].id \notin DOMAIN cached
      /\ \A x \in Threads \ {t} : calls[x].pc = "uncache" => calls[x].id # calls[t].id
  BY DEF OrdersInv, FreshInv
<1>5. Costs(cached', calls')
  <2>1. IsFiniteSet(DOMAIN cached')
    BY <1>1, FS_AddElement DEF Costs
  <2>2. calls[t].cost \in Nat
    BY <1>1 DEF Costs
  <2> QED
    BY <1>1, <1>2, <1>3, <2>1, <2>2 DEF Costs
<1> DEFINE e == calls[t].id
           S == PlacingBy(calls, u)
           T == PlacingBy(calls', u)
           A == Owing(cached, calls, u)
           B == Owing(cached', calls', u)
<1>6. /\ IsFiniteSet(S) /\ IsFiniteSet(A) /\ CostOf(calls, S) \in Nat /\ CostOf(cached, A) \in Nat
      /\ \A x \in S : calls[x].cost \in Nat
  BY <1>1, OwedFacts
<1>7. /\ IsFiniteSet(T) /\ IsFiniteSet(B)
      /\ CostOf(calls', T) \in Nat /\ CostOf(cached', B) \in Nat
      /\ \A i \in B : cached'[i].cost \in Nat
  BY <1>5, OwedFacts
<1>8. /\ Owed(cached, calls, u) = CostOf(cached, A) + CostOf(calls, S)
      /\ Owed(cached', calls', u) = CostOf(cached', B) + CostOf(calls', T)
  BY Zenon DEF Owed
<1>9. mem.frozen[u] \in Nat /\ mem.frozen[u] <= Owed(cached, calls, u)
  BY FrozenNat DEF FrozenInv
<1>10. T = S \ {t} /\ A = B \ {e}
  BY <1>2, <1>3, <1>4 DEF PlacingBy, Owing
<1>11. /\ \A x \in T : calls'[x].cost = calls[x].cost
       /\ \A i \in A : cached[i].cost = cached'[i].cost
  BY <1>2, <1>3 DEF PlacingBy, Owing
<1>12. CASE calls[t].user = u
  <2>1. t \in S /\ e \in B
    BY <1>2, <1>3, <1>4, <1>12 DEF PlacingBy, Owing
  <2> HIDE DEF e, S, T, A, B
  <2>2. CostOf(calls, S) = CostOf(calls', T) + calls[t].cost
    BY <1>6, <1>10, <1>11, <2>1, CostLess
  <2>3. CostOf(cached', B) = CostOf(cached, A) + cached'[e].cost
    BY <1>7, <1>10, <1>11, <2>1, CostLess
  <2>4. cached'[e].cost = calls[t].cost /\ calls[t].cost \in Nat
    BY <1>6, <2>1 DEF e
  <2> QED
    BY <1>6, <1>7, <1>8, <1>9, <2>2, <2>3, <2>4
<1>13. CASE calls[t].user # u
  <2>1. S = T /\ A = B
    BY <1>10, <1>13 DEF PlacingBy, Owing
  <2> HIDE DEF S, T, A, B
  <2>2. CostOf(calls', T) = CostOf(calls, S)
    BY <1>6, <1>11, <2>1, CostSame
  <2>3. CostOf(cached', B) = CostOf(cached, A)
    BY <1>6, <1>11, <2>1, CostSame
  <2> QED
    BY <1>8, <1>9, <2>2, <2>3
<1> QED
  BY <1>12, <1>13

\* The cost of an order is given back once, however many calls cancel it.
LEMMA FrozenCancelled ==
  ASSUME FrozenInv, OrdersInv, TypeInv, NEW t \in Threads, NEW c, Goes(t, c),
         calls[t].pc = "unfreeze", c.pc = "uncache", c.id = calls[t].id,
         mem' = Unfreeze(mem, calls[t].user, calls[t].cost), cached' = cached
  PROVE  FrozenInv'
<1> SUFFICES ASSUME NEW u \in Users PROVE mem'.frozen[u] <= Owed(cached', calls', u)
  BY DEF FrozenInv
<1>1. Costs(cached, calls)
  BY CostsAre DEF TypeInv, RestOK
<1>2. \A x \in Threads \ {t} : calls'[x] = calls[x]
  BY MemberThreads DEF Goes
<1>3. calls'[t] = c
  BY DEF Goes
<1>4. PlacingBy(calls', u) = PlacingBy(calls, u)
  BY <1>2, <1>3 DEF PlacingBy
<1>5. \A x \in PlacingBy(calls, u) : calls'[x].cost = calls[x].cost
  BY <1>2, <1>3 DEF PlacingBy
<1> DEFINE e == calls[t].id
           placing == CostOf(calls, PlacingBy(calls, u))
           A == Owing(cached, calls, u)
           B == Owing(cached', calls', u)
<1>6. /\ IsFiniteSet(PlacingBy(calls, u)) /\ IsFiniteSet(A) /\ placing \in Nat
      /\ CostOf(cached, A) \in Nat /\ \A i \in A : cached[i].cost \in Nat
  BY <1>1, OwedFacts
<1>7. CostOf(calls', PlacingBy(calls, u)) = placing
  BY <1>5, <1>6, CostSame
<1>8. /\ Owed(cached, calls, u) = CostOf(cached, A) + placing
      /\ Owed(cached', calls', u) = CostOf(cached, B) + placing
  BY <1>4, <1>7, Zenon DEF Owed
<1>9. mem.frozen[u] \in Nat /\ mem.frozen[u] <= Owed(cached, calls, u) /\ u \in Traders
  BY FrozenNat DEF FrozenInv, Traders
<1>10. B = A \ {e} /\ IsFiniteSet(B)
  <2>1. B = A \ {e}
    BY <1>2, <1>3 DEF Owing
  <2> QED
    BY <1>6, <2>1, FS_Subset
<1>11. CostOf(cached, B) \in Nat
  <2>1. \A i \in B : cached[i].cost \in Nat
    BY <1>6, <1>10
  <2> HIDE DEF B
  <2> QED
    BY <1>10, <2>1, CostNat
<1>12. calls[t].user \in Traders /\ calls[t].cost \in Nat
  BY MemberThreads, CallFields DEF TypeInv
<1>13. mem'.frozen[u] = IF u # calls[t].user THEN mem.frozen[u]
                        ELSE IF mem.frozen[u] < calls[t].cost THEN 0
                        ELSE mem.frozen[u] - calls[t].cost
  <2>1. GivesBack(mem, mem', calls[t].user, calls[t].cost)
    BY <1>12, UnfreezeFacts DEF TypeInv
  <2> QED
    BY <1>9, <2>1 DEF GivesBack
<1> HIDE DEF placing
<1>14. CASE e \in A
  <2>1. calls[t].user = u /\ cached[e].cost = calls[t].cost
    BY <1>14 DEF OrdersInv, CancelInv, Owing
  <2> HIDE DEF e, A, B
  <2>2. CostOf(cached, A) = CostOf(cached, B) + cached[e].cost
    BY <1>6, <1>10, <1>14, CostLess
  <2> QED
    BY <1>6, <1>8, <1>9, <1>11, <1>12, <1>13, <2>1, <2>2
<1>15. CASE e \notin A
  <2>1. A = B
    BY <1>10, <1>15
  <2>2. Owed(cached', calls', u) = Owed(cached, calls, u)
    BY <1>8, <2>1
  <2>3. Owed(cached, calls, u) \in Nat
    BY <1>6, <1>8
  <2> QED
    BY <1>9, <1>12, <1>13, <2>2, <2>3
<1> QED
  BY <1>14, <1>15

\* What leaves the cache was not owed any more.
LEMMA FrozenUncached ==
  ASSUME FrozenInv, TypeInv, NEW t \in Threads, Goes(t, Idle), calls[t].pc = "uncache",
         DOMAIN cached' = DOMAIN cached \ {calls[t].id},
         \A i \in DOMAIN cached' : cached'[i] = cached[i], mem' = mem
  PROVE  FrozenInv'
<1> SUFFICES ASSUME NEW u \in Users PROVE mem.frozen[u] <= Owed(cached', calls', u)
  BY DEF FrozenInv
<1>1. Costs(cached, calls)
  BY CostsAre DEF TypeInv, RestOK
<1>2. \A x \in Threads \ {t} : calls'[x] = calls[x]
  BY MemberThreads DEF Goes
<1>3. calls'[t] = Idle /\ Idle.pc = "idle"
  BY DEF Goes, Idle
<1>4. PlacingBy(calls', u) = PlacingBy(calls, u)
  BY <1>2, <1>3 DEF PlacingBy
<1>5. \A x \in PlacingBy(calls, u) : calls'[x].cost = calls[x].cost
  BY <1>2, <1>3 DEF PlacingBy
<1>6. Owing(cached', calls', u) = Owing(cached, calls, u)
  BY <1>2, <1>3 DEF Owing
<1>7. \A i \in Owing(cached, calls, u) : cached'[i].cost = cached[i].cost
  BY DEF Owing
<1>8. IsFiniteSet(PlacingBy(calls, u)) /\ IsFiniteSet(Owing(cached, calls, u))
  BY <1>1, OwedFacts
<1>9. CostOf(calls', PlacingBy(calls, u)) = CostOf(calls, PlacingBy(calls, u))
  BY <1>5, <1>8, CostSame
<1>10. CostOf(cached', Owing(cached, calls, u)) = CostOf(cached, Owing(cached, calls, u))
  BY <1>7, <1>8, CostSame
<1>11. Owed(cached', calls', u) = Owed(cached, calls, u)
  BY <1>4, <1>6, <1>9, <1>10, Zenon DEF Owed
<1> QED
  BY <1>11 DEF FrozenInv

-----------------------------------------------------------------------------
(* Positions and trades, when one thread takes a step.                     *)

\* Signed quantity of u that calls have yet to process.
Flying(cs, u) ==
  SumFunctionOnSet([t \in AllThreads |-> LegSum(cs[t].legs, u)], AllThreads)

LEMMA FlyingStep ==
  ASSUME CallsOK, NEW t \in AllThreads, NEW c, Goes(t, c), c.legs \in Seq(Leg), NEW u
  PROVE  /\ Flying(calls, u) \in Int
         /\ Flying(calls', u)
              = Flying(calls, u) + (LegSum(c.legs, u) - LegSum(calls[t].legs, u))
<1> DEFINE f == [x \in AllThreads |-> LegSum(calls[x].legs, u)]
           g == [x \in AllThreads |-> LegSum(calls'[x].legs, u)]
<1>1. Flying(calls, u) = SumFunctionOnSet(f, AllThreads)
  BY DEF Flying
<1>2. Flying(calls', u) = SumFunctionOnSet(g, AllThreads)
  BY DEF Flying
<1>3. \A x \in AllThreads : f[x] \in Int
  <2> SUFFICES ASSUME NEW x \in AllThreads PROVE LegSum(calls[x].legs, u) \in Int
    OBVIOUS
  <2>1. calls[x].legs \in Seq(Leg)
    BY CallFields
  <2> QED
    BY <2>1, LegSumInt
<1>4. calls'[t] = c /\ \A x \in AllThreads \ {t} : calls'[x] = calls[x]
  BY DEF Goes
<1>5. g[t] = LegSum(c.legs, u) /\ f[t] = LegSum(calls[t].legs, u)
  BY <1>4
<1>6. g[t] \in Int
  BY <1>5, LegSumInt
<1>7. \A x \in AllThreads \ {t} : g[x] = f[x]
  BY <1>4
<1> HIDE DEF f, g
<1>8. \A x \in AllThreads : f[x] \in Int /\ g[x] \in Int
  BY <1>3, <1>6, <1>7
<1>9. SumFunctionOnSet(g, AllThreads) = SumFunctionOnSet(f, AllThreads) + (g[t] - f[t])
  BY <1>7, <1>8, ThreadsFinite, SumUpdate
<1>10. SumFunctionOnSet(f, AllThreads) \in Int
  BY <1>3, ThreadsFinite, SumInt
<1> QED
  BY <1>1, <1>2, <1>5, <1>9, <1>10

\* Between m with legs a and n with legs b, user v has got what the book has
\* matched for him, or has it still to come.
Settles(m, a, n, b, v, gain) ==
  /\ Net(n, v) - n.bought[v] = Net(m, v) - m.bought[v]
  /\ (Net(n, v) + n.lost[v]) + LegSum(b, v) = ((Net(m, v) + m.lost[v]) + LegSum(a, v)) + gain

\* The call of t goes on with legs b, and positions and trades still agree.
Balances(t, b) ==
  /\ MemOK(mem') /\ b \in Seq(Leg)
  /\ \A v \in Traders : /\ matched'[v] \in Int
                        /\ Settles(mem, calls[t].legs, mem', b, v, matched'[v] - matched[v])

LEMMA TradesFollowed ==
  ASSUME TypeInv, PositionsFollowTrades, NEW t \in AllThreads, NEW c, Goes(t, c),
         Balances(t, c.legs)
  PROVE  PositionsFollowTrades'
<1> SUFFICES ASSUME NEW v \in Traders
             PROVE  /\ (Net(mem', v) + Flying(calls', v)) + mem'.lost[v] = matched'[v]
                    /\ Net(mem', v) = mem'.bought[v]
  BY Zenon DEF PositionsFollowTrades, InFlight, Flying
<1>1. /\ (Net(mem, v) + Flying(calls, v)) + mem.lost[v] = matched[v]
      /\ Net(mem, v) = mem.bought[v]
  BY Zenon DEF PositionsFollowTrades, InFlight, Flying
<1>2. /\ Flying(calls, v) \in Int
      /\ Flying(calls', v) = Flying(calls, v) + (LegSum(c.legs, v) - LegSum(calls[t].legs, v))
  BY FlyingStep DEF TypeInv, Balances
<1>3. /\ MemOK(mem') /\ matched'[v] \in Int
      /\ Settles(mem, calls[t].legs, mem', c.legs, v, matched'[v] - matched[v])
  BY DEF Balances
<1>4. MemOK(mem) /\ matched[v] \in Int
  BY DEF TypeInv, RestOK
<1>5. /\ Net(mem, v) \in Int /\ Net(mem', v) \in Int
      /\ mem.lost[v] \in Int /\ mem'.lost[v] \in Int
      /\ mem.bought[v] \in Int /\ mem'.bought[v] \in Int
  BY <1>3, <1>4, HoldingsInt, MemFields
<1>6. LegSum(c.legs, v) \in Int /\ LegSum(calls[t].legs, v) \in Int
  <2>1. calls[t].legs \in Seq(Leg) /\ c.legs \in Seq(Leg)
    BY CallFields DEF TypeInv, Balances
  <2> QED
    BY <2>1, LegSumInt
<1>7. /\ Net(mem', v) - mem'.bought[v] = Net(mem, v) - mem.bought[v]
      /\ (Net(mem', v) + mem'.lost[v]) + LegSum(c.legs, v)
           = ((Net(mem, v) + mem.lost[v]) + LegSum(calls[t].legs, v)) + (matched'[v] - matched[v])
  BY <1>3 DEF Settles
<1>9. Flying(calls', v) \in Int
  BY <1>2, <1>6
<1>10. Net(mem', v) = mem'.bought[v]
  <2>1. Net(mem, v) - mem.bought[v] = 0
    BY <1>1, <1>5
  <2>2. Net(mem', v) - mem'.bought[v] = 0
    BY <1>7, <2>1
  <2> QED
    BY <1>5, <2>2
<1>11. (Net(mem, v) + Flying(calls, v)) + mem.lost[v] = matched[v]
  BY <1>1
<1>12. Flying(calls', v) = Flying(calls, v) + (LegSum(c.legs, v) - LegSum(calls[t].legs, v))
  BY <1>2
<1>13. matched'[v] \in Int
  BY <1>3
<1>14. (Net(mem', v) + Flying(calls', v)) + mem'.lost[v] = matched'[v]
  BY <1>2, <1>4, <1>5, <1>6, <1>7, <1>9, <1>11, <1>12, <1>13
<1> QED
  BY <1>10, <1>14

\* Nothing of it moves.
LEMMA BalancesQuiet ==
  ASSUME TypeInv, NEW t \in AllThreads, MemOK(mem'), Keeps(mem, mem'), matched' = matched
  PROVE  Balances(t, calls[t].legs)
<1>1. calls[t].legs \in Seq(Leg)
  BY CallFields DEF TypeInv
<1>2. ASSUME NEW v \in Traders
      PROVE  /\ matched'[v] \in Int
             /\ Settles(mem, calls[t].legs, mem', calls[t].legs, v, matched'[v] - matched[v])
  <2>1. Net(mem', v) = Net(mem, v)
    BY SameHoldings DEF Keeps
  <2>2. mem'.lost[v] = mem.lost[v] /\ mem'.bought[v] = mem.bought[v]
    BY DEF Keeps
  <2>3. /\ Net(mem, v) \in Int /\ mem.lost[v] \in Int /\ mem.bought[v] \in Int
        /\ LegSum(calls[t].legs, v) \in Int /\ matched[v] \in Int
    BY <1>1, HoldingsInt, MemFields, LegSumInt DEF TypeInv, RestOK
  <2> QED
    BY <2>1, <2>2, <2>3 DEF Settles
<1> QED
  BY <1>1, <1>2 DEF Balances

\* The book has matched more trades, which are in flight from now on.
LEMMA BalancesMatched ==
  ASSUME TypeInv, NEW t \in AllThreads, mem' = mem, NEW legs \in Seq(Leg), NEW b \in Seq(Leg),
         \A v \in Traders : LegSum(b, v) = LegSum(calls[t].legs, v) + LegSum(legs, v),
         \A v \in Traders : matched'[v] = matched[v] + LegSum(legs, v)
  PROVE  Balances(t, b)
<1>1. calls[t].legs \in Seq(Leg)
  BY CallFields DEF TypeInv
<1>2. ASSUME NEW v \in Traders
      PROVE  /\ matched'[v] \in Int
             /\ Settles(mem, calls[t].legs, mem', b, v, matched'[v] - matched[v])
  <2>1. /\ Net(mem, v) \in Int /\ mem.lost[v] \in Int /\ mem.bought[v] \in Int
        /\ LegSum(calls[t].legs, v) \in Int /\ matched[v] \in Int /\ LegSum(legs, v) \in Int
    BY <1>1, HoldingsInt, MemFields, LegSumInt DEF TypeInv, RestOK
  <2> QED
    BY <2>1, SMTT(30) DEF Settles
<1> QED
  BY <1>1, <1>2 DEF Balances, TypeInv

\* The book has matched more trades, which are forgotten.
LEMMA BalancesLost ==
  ASSUME TypeInv, NEW t \in AllThreads, NEW legs \in Seq(Leg),
         mem' = [mem EXCEPT !.lost = [u \in Traders |-> mem.lost[u] + LegSum(legs, u)]],
         \A v \in Traders : matched'[v] = matched[v] + LegSum(legs, v)
  PROVE  Balances(t, calls[t].legs) /\ mem'.frozen = mem.frozen
<1> DEFINE lost == [u \in Traders |-> mem.lost[u] + LegSum(legs, u)]
<1>1. calls[t].legs \in Seq(Leg)
  BY CallFields DEF TypeInv
<1>2. \A v \in Traders : mem.lost[v] \in Int /\ LegSum(legs, v) \in Int
  BY MemFields, LegSumInt DEF TypeInv
<1>3. lost \in [Traders -> Int] /\ \A v \in Traders : lost[v] = mem.lost[v] + LegSum(legs, v)
  BY <1>2
<1>4. mem' = [mem EXCEPT !.lost = lost]
  OBVIOUS
<1> HIDE DEF lost
<1>5. /\ MemOK(mem') /\ mem'.pos = mem.pos /\ mem'.bought = mem.bought /\ mem'.lost = lost
      /\ mem'.frozen = mem.frozen
  BY <1>3, <1>4 DEF TypeInv, MemOK, Memory
<1>6. ASSUME NEW v \in Traders
      PROVE  /\ matched'[v] \in Int
             /\ Settles(mem, calls[t].legs, mem', calls[t].legs, v, matched'[v] - matched[v])
  <2>1. Net(mem', v) = Net(mem, v)
    BY <1>5, SameHoldings
  <2>2. /\ Net(mem, v) \in Int /\ mem.lost[v] \in Int /\ mem.bought[v] \in Int
        /\ LegSum(calls[t].legs, v) \in Int /\ matched[v] \in Int /\ LegSum(legs, v) \in Int
    BY <1>1, HoldingsInt, MemFields, LegSumInt DEF TypeInv, RestOK
  <2>3. matched'[v] = matched[v] + LegSum(legs, v)
    OBVIOUS
  <2>4. mem'.lost[v] = mem.lost[v] + LegSum(legs, v) /\ mem'.bought[v] = mem.bought[v]
    BY <1>3, <1>5
  <2>5. matched'[v] \in Int
    BY <2>2, <2>3
  <2> HIDE DEF lost
  <2>6. matched'[v] - matched[v] = LegSum(legs, v)
    BY <2>2, <2>3
  <2>7. Net(mem, v) + mem'.lost[v] = (Net(mem, v) + mem.lost[v]) + LegSum(legs, v)
    BY <2>2, <2>4
  <2>8. (Net(mem, v) + mem'.lost[v]) + LegSum(calls[t].legs, v)
          = ((Net(mem, v) + mem.lost[v]) + LegSum(calls[t].legs, v)) + (matched'[v] - matched[v])
    BY <2>2, <2>6, <2>7
  <2> QED
    BY <2>1, <2>2, <2>4, <2>5, <2>8 DEF Settles
<1> QED
  BY <1>1, <1>5, <1>6 DEF Balances

\* One UpdatePosition has processed the first leg.
LEMMA BalancesApplied ==
  ASSUME TypeInv, NEW t \in AllThreads, calls[t].legs # <<>>, NEW l, l = Head(calls[t].legs),
         Traded(mem, mem', l.user, l.side * l.qty), matched' = matched
  PROVE  Balances(t, Tail(calls[t].legs))
<1> DEFINE legs == calls[t].legs
           b == Tail(legs)
<1>1. legs \in Seq(Leg)
  BY CallFields DEF TypeInv
<1>2. MemOK(mem) /\ MemOK(mem')
  BY DEF TypeInv, Traded
<1>3. /\ l \in Leg /\ b \in Seq(Leg)
      /\ \A v : LegSum(legs, v) = LegSum(b, v) + IF l.user = v THEN l.side * l.qty ELSE 0
  BY <1>1, LegSumHead
<1>4. l.side * l.qty \in Int
  <2>1. l.side \in Int /\ l.qty \in Int
    BY <1>3 DEF Leg, Sides, Long, Short
  <2> QED
    BY <2>1
<1> HIDE DEF legs, b
<1>5. ASSUME NEW v \in Traders
      PROVE  /\ matched'[v] \in Int
             /\ Settles(mem, legs, mem', b, v, matched'[v] - matched[v])
  <2> DEFINE d == IF l.user = v THEN l.side * l.qty ELSE 0
  <2>1. /\ Net(mem', v) - mem'.bought[v] = Net(mem, v) - mem.bought[v]
        /\ Net(mem', v) + mem'.lost[v] = Net(mem, v) + mem.lost[v] + IF v = l.user THEN l.side * l.qty ELSE 0
    BY DEF Traded
  <2>2. d \in Int /\ Net(mem', v) + mem'.lost[v] = Net(mem, v) + mem.lost[v] + d
    BY <1>4, <2>1
  <2>3. /\ Net(mem, v) \in Int /\ mem.lost[v] \in Int /\ matched[v] \in Int
        /\ Net(mem', v) \in Int /\ mem'.lost[v] \in Int
        /\ LegSum(legs, v) \in Int /\ LegSum(b, v) \in Int
    BY <1>1, <1>2, <1>3, HoldingsInt, MemFields, LegSumInt DEF TypeInv, RestOK
  <2>4. LegSum(legs, v) = LegSum(b, v) + d
    BY <1>3
  <2> HIDE DEF d
  <2>5. matched'[v] - matched[v] = 0 /\ matched'[v] \in Int
    BY <2>3
  <2>6. (Net(mem', v) + mem'.lost[v]) + LegSum(b, v)
          = ((Net(mem, v) + mem.lost[v]) + LegSum(legs, v)) + 0
    <3>1. LegSum(b, v) = LegSum(legs, v) - d
      BY <2>2, <2>3, <2>4
    <3>2. (Net(mem', v) + mem'.lost[v]) - d = Net(mem, v) + mem.lost[v]
      BY <2>2, <2>3, SMTT(30)
    <3> QED
      BY <2>2, <2>3, <3>1, <3>2
  <2> QED
    BY <2>1, <2>5, <2>6 DEF Settles
<1> QED
  BY <1>2, <1>3, <1>5 DEF Balances, legs, b

\* What the book matches: legs that cancel each other out, and a book in which
\* nobody's order is new.
MatchesWell(s, m, legs) ==
  /\ legs \in Seq(Leg) /\ Balance(legs) = 0
  /\ legs = <<>> <=> m.trades = <<>>
  /\ m.left \in Nat /\ (m.left = 0 => legs # <<>>)
  /\ BookGood([book EXCEPT ![-s] = m.rest])
  /\ Standing([book EXCEPT ![-s] = m.rest]) \subseteq Standing(book)

LEMMA TradeFacts ==
  ASSUME TypeInv, NEW s \in Sides, NEW limit, NEW qty \in Nat \ {0}, NEW user \in Traders,
         NEW id \in Nat, NEW m, m = Matching(s, limit, qty),
         NEW legs, legs = Legs(m.trades, user, s, id)
  PROVE  MatchesWell(s, m, legs)
<1>0. -s \in Sides
  BY SideInt
<1>1. SideOK(-s, book[-s]) /\ DistinctIDs(book[-s]) /\ BookGood(book)
  BY <1>0 DEF TypeInv, BookGood
<1>2. /\ SideOK(-s, m.trades) /\ m.left \in Nat /\ (m.left = 0 => m.trades # <<>>)
      /\ SideOK(-s, m.rest) /\ DistinctIDs(m.rest) /\ From(book[-s], m.rest)
  BY <1>1, MatchingFacts
<1>3. legs \in Seq(Leg) /\ Balance(legs) = 0 /\ (legs = <<>> <=> m.trades = <<>>)
  BY <1>0, <1>2, LegsFacts
<1>4. /\ BookGood([book EXCEPT ![-s] = m.rest])
      /\ Standing([book EXCEPT ![-s] = m.rest]) \subseteq Standing(book)
  BY <1>0, <1>1, <1>2, BookTakes
<1> QED
  BY <1>2, <1>3, <1>4 DEF MatchesWell

\* What the book becomes when what is left of o rests.
Rested(b, s, m, o) ==
  b = [book EXCEPT ![-s] = m.rest, ![s] = IF m.left > 0 THEN Queue(@, o) ELSE @]

LEMMA TradeRests ==
  ASSUME TypeInv, NEW s \in Sides, NEW m, NEW legs, MatchesWell(s, m, legs),
         NEW o \in Resting, o.side = s, o.qty = m.left, \A p \in Standing(book) : p[1] # o.id,
         NEW b, Rested(b, s, m, o)
  PROVE  /\ BookGood(b) /\ Standing(b) \subseteq Standing(book) \cup {<<o.id, o.user>>}
         /\ m.left = 0 => Standing(b) \subseteq Standing(book)
<1> DEFINE b1 == [book EXCEPT ![-s] = m.rest]
<1>1. BookGood(b1) /\ Standing(b1) \subseteq Standing(book)
  BY DEF MatchesWell
<1>2. s # -s /\ -s \in Sides /\ book = [x \in Sides |-> book[x]]
  BY DEF Sides, Long, Short, TypeInv, BookGood
<1>3. b1 = [x \in Sides |-> b1[x]] /\ b1[s] = book[s]
  BY <1>2
<1>4. CASE m.left > 0
  <2>1. b = [b1 EXCEPT ![s] = Queue(book[s], o)]
    BY <1>4 DEF Rested
  <2>2. b = [b1 EXCEPT ![s] = Queue(@, o)]
    <3> HIDE DEF b1
    <3> QED
      BY <1>3, <2>1, Zenon
  <2> HIDE DEF b1
  <2>3. o.qty > 0
    BY <1>4
  <2>4. /\ BookGood([b1 EXCEPT ![s] = Queue(@, o)])
        /\ Standing([b1 EXCEPT ![s] = Queue(@, o)]) \subseteq Standing(b1) \cup {<<o.id, o.user>>}
    BY <1>1, <2>3, BookRests
  <2>5. m.left # 0
    BY <1>4
  <2>6. /\ BookGood(b) /\ Standing(b) \subseteq Standing(b1) \cup {<<o.id, o.user>>}
    BY <2>2, <2>4
  <2> QED
    BY <1>1, <2>5, <2>6
<1>5. CASE ~(m.left > 0)
  <2>1. b = [x \in Sides |-> b[x]] /\ \A x \in Sides : b[x] = b1[x]
    BY <1>2, <1>5 DEF Rested
  <2> HIDE DEF b1
  <2>2. b = b1
    BY <1>3, <2>1
  <2> QED
    BY <1>1, <2>2
<1> QED
  BY <1>4, <1>5

\* What all traders have been matched together.
MatchedSum(f) == SumFunctionOnSet(f, Traders)

LEMMA MatchedFacts ==
  ASSUME TypeInv, NEW legs \in Seq(Leg), Balance(legs) = 0,
         matched' = [u \in Traders |-> matched[u] + LegSum(legs, u)]
  PROVE  /\ matched' = [u \in Traders |-> matched'[u]]
         /\ \A u \in Traders : matched'[u] = matched[u] + LegSum(legs, u) /\ matched'[u] \in Int
         /\ MatchedSum(matched') = MatchedSum(matched)
<1> DEFINE g == [u \in Traders |-> LegSum(legs, u)]
<1>1. \A u \in Traders : matched[u] \in Int /\ g[u] \in Int
  BY LegSumInt DEF TypeInv, RestOK
<1>2. /\ matched' = [u \in Traders |-> matched'[u]]
      /\ \A u \in Traders : matched'[u] = matched[u] + g[u] /\ matched'[u] \in Int
  BY <1>1
<1>3. SumFunctionOnSet(g, Traders) = 0
  BY LegTotal
<1>4. \A u \in Traders : g[u] = LegSum(legs, u)
  OBVIOUS
<1> HIDE DEF g
<1> DEFINE h == matched'
<1>5. \A u \in Traders : h[u] = matched[u] + g[u]
  BY <1>2
<1> HIDE DEF h
<1>6. SumFunctionOnSet(h, Traders)
        = SumFunctionOnSet(matched, Traders) + SumFunctionOnSet(g, Traders)
  BY <1>1, <1>5, TradersFinite, SumPlus
<1>7. SumFunctionOnSet(matched, Traders) \in Int
  BY <1>1, TradersFinite, SumInt
<1>8. MatchedSum(matched') = MatchedSum(matched)
  BY <1>3, <1>6, <1>7 DEF h, MatchedSum
<1> QED
  BY <1>2, <1>4, <1>8

-----------------------------------------------------------------------------
(* The invariant, when one thread takes a step.                            *)

LEMMA InvParts ==
  Inv <=> TypeInv /\ OrdersInv /\ FrozenInv /\ PositionsFollowTrades
BY DEF Inv, OrdersInv

LEMMA CachedStays ==
  ASSUME CachedOK, Draws, cached' = cached
  PROVE  CachedOK'
<1>1. DOMAIN cached \subseteq 1 .. nextID'
  BY DEF CachedOK, Draws
<1> QED
  BY <1>1 DEF CachedOK

\* The rest of the state, but for the call of t, the book and the positions.
Otherwise ==
  /\ quotes' \subseteq 1 .. nextID'
  /\ fed' \in DOMAIN Feed /\ quoted' \in Range(Feed) \cup {0}
  /\ matched' = [u \in Traders |-> matched'[u]]

LEMMA RestStays ==
  ASSUME TypeInv, Draws, quotes' = quotes, fed' = fed, quoted' = quoted,
         matched' = [u \in Traders |-> matched'[u]]
  PROVE  Otherwise
<1>1. quotes \subseteq 1 .. nextID'
  BY DEF TypeInv, RestOK, Draws
<1> QED
  BY <1>1 DEF TypeInv, RestOK, Otherwise

LEMMA TypeStep ==
  ASSUME TypeInv, Draws, NEW t \in AllThreads, NEW c, Goes(t, c), CallOK(t, c, nextID'),
         Balances(t, c.legs), BookGood(book'), CachedOK', Otherwise
  PROVE  TypeInv'
<1>1. CallsOK'
  BY CallsStep DEF TypeInv, Draws
<1>2. RestOK'
  BY DEF RestOK, Otherwise, Draws, Balances
<1>3. BookGood(book)'
  BY DEF BookGood
<1>4. MemOK(mem)'
  BY DEF MemOK, Memory, Balances
<1> QED
  BY <1>1, <1>2, <1>3, <1>4 DEF TypeInv

\* Thread t may go on with c: it works on no order, before or after, or its
\* order has just been filled.
Harmless(t, c) ==
  t \in Threads =>
    /\ calls[t].pc \notin {"resting", "uncache"} /\ c.pc \notin OrderPcs
    /\ \/ calls[t].pc \notin {"limit", "filled"} /\ c.pc # "filled"
       \/ /\ calls[t].pc = "limit" /\ c.pc = "filled"
          /\ c.user = calls[t].user /\ c.cost = calls[t].cost

LEMMA StepQuiet ==
  ASSUME Inv, Draws, NEW t \in AllThreads, NEW c, Goes(t, c), CallOK(t, c, nextID'),
         Balances(t, c.legs), Harmless(t, c), Otherwise,
         BookGood(book'), Standing(book') \subseteq Standing(book),
         mem'.frozen = mem.frozen, cached' = cached, quotes' = quotes
  PROVE  Inv'
<1>1. TypeInv /\ OrdersInv /\ FrozenInv /\ PositionsFollowTrades
  BY InvParts
<1>2. CallsOK /\ CachedOK /\ nextID \in Nat
  BY <1>1 DEF TypeInv, RestOK
<1>3. CachedOK'
  BY <1>2, CachedStays
<1>4. TypeInv'
  BY <1>1, <1>3, TypeStep
<1>5. OrdersInv'
  BY <1>1, OrdersQuiet DEF Harmless
<1>6. FrozenInv'
  <2>1. t \in Threads =>
           \/ /\ calls[t].pc \notin {"limit", "filled", "resting", "uncache"}
              /\ c.pc \notin {"limit", "filled", "resting", "uncache"}
           \/ /\ calls[t].pc \in {"limit", "filled", "resting"}
              /\ c.pc \in {"limit", "filled", "resting"}
              /\ c.user = calls[t].user /\ c.cost = calls[t].cost
    BY DEF Harmless, OrderPcs
  <2> QED
    BY <1>1, <1>2, <2>1, FrozenQuiet
<1>7. PositionsFollowTrades'
  BY <1>1, TradesFollowed
<1> QED
  BY <1>4, <1>5, <1>6, <1>7 DEF Inv, OrdersInv

\* What the thread of the feed and the history of trades show of a step of
\* another thread, or of a call made by the feed's thread.
Calm ==
  /\ nextID <= nextID'
  /\ MatchedSum(matched') = MatchedSum(matched)
  /\ \A o \in Standing(book') : o[2] = LIQ => o \in Standing(book)
  /\ calls[Feeder].pc = "idle" => calls'[Feeder] = calls[Feeder]
  /\ calls[Feeder].pc # "idle" /\ calls'[Feeder].pc = "idle" => calls'[Feeder].legs = <<>>

LEMMA StepCalm ==
  ASSUME CallsOK, Draws, NEW t \in AllThreads, NEW c, Goes(t, c),
         t = Feeder => calls[t].pc # "idle" /\ (c.pc = "idle" => c.legs = <<>>),
         MatchedSum(matched') = MatchedSum(matched),
         \A o \in Standing(book') : o[2] = LIQ => o \in Standing(book)
  PROVE  Calm
<1>1. calls[Feeder].pc = "idle" => calls'[Feeder] = calls[Feeder]
  BY MemberThreads DEF Goes
<1>2. calls[Feeder].pc # "idle" /\ calls'[Feeder].pc = "idle" => calls'[Feeder].legs = <<>>
  <2>1. CASE t = Feeder
    BY <2>1 DEF Goes
  <2>2. CASE t # Feeder
    BY <2>2, MemberThreads DEF Goes
  <2> QED
    BY <2>1, <2>2
<1> QED
  BY <1>1, <1>2 DEF Calm, Draws

\* ProcessTrades is about to begin, or has nothing to do.
LEMMA ProcessFacts ==
  ASSUME CallsOK, NEW t \in AllThreads, NEW call \in Call, NEW n \in Nat, call.id <= n,
         NEW legs \in Seq(Leg), Process(t, call, legs)
  PROVE  \E c : /\ Goes(t, c) /\ CallOK(t, c, n) /\ c.legs = legs
                /\ c.pc \in {"idle", "legs"} /\ (c.pc = "idle" => legs = <<>>)
<1>1. CASE legs = <<>>
  <2>1. calls' = [calls EXCEPT ![t] = Idle]
    BY <1>1 DEF Process, Finish
  <2>2. Goes(t, Idle)
    BY <2>1, CallGoes
  <2>3. Idle.legs = <<>> /\ Idle.pc = "idle"
    BY DEF Idle
  <2> QED
    BY <1>1, <2>2, <2>3, IdleOK
<1>2. CASE legs # <<>>
  <2> DEFINE c == [call EXCEPT !.legs = legs, !.pc = "legs"]
  <2>1. calls' = [calls EXCEPT ![t] = c]
    BY <1>2, Zenon DEF Process, Goto
  <2>2. c \in Call /\ c.legs = legs /\ c.pc = "legs" /\ c.id = call.id
    BY DEF Call, Pcs
  <2> HIDE DEF c
  <2>3. CallOK(t, c, n)
    BY <1>2, <2>2 DEF CallOK
  <2> QED
    BY <1>2, <2>1, <2>2, <2>3, CallGoes
<1> QED
  BY <1>1, <1>2

LEMMA CallEnds ==
  ASSUME CallsOK, NEW t \in AllThreads, Finish(t)
  PROVE  Goes(t, Idle) /\ Idle.pc = "idle" /\ Idle.legs = <<>>
BY CallGoes DEF Finish, Idle

-----------------------------------------------------------------------------
(* The invariant, action by action.                                        *)

LEMMA IdleCall == Idle \in Call
<1>1. CallOK(Bot, Idle, 0)
  BY IdleOK, MemberThreads
<1> QED
  BY <1>1 DEF CallOK

LEMMA KeepsAll == ASSUME mem' = mem PROVE Keeps(mem, mem') /\ mem'.frozen = mem.frozen
BY DEF Keeps

LEMMA StandingSame ==
  ASSUME BookGood(book), book' = book
  PROVE  /\ BookGood(book') /\ Standing(book') \subseteq Standing(book)
         /\ \A o \in Standing(book') : o[2] = LIQ => o \in Standing(book)
OBVIOUS

LEMMA MarketPlaced ==
  ASSUME Inv, NEW t \in Threads, NEW u \in Users, NEW s \in Sides, NEW q \in Quantities,
         NEW lev \in Leverages, PlaceMarketOrder(t, u, s, q, lev)
  PROVE  Inv' /\ Calm
<1> DEFINE c == [[Idle EXCEPT !.user = u, !.side = s, !.lev = lev,
                              !.qty = q, !.id = nextID + 1] EXCEPT !.pc = "market"]
<1>1. TypeInv /\ CallsOK /\ nextID \in Nat /\ t \in AllThreads /\ BookGood(book) /\ MemOK(mem)
  BY MemberThreads DEF Inv, TypeInv, RestOK
<1>2. /\ calls[t].pc = "idle" /\ nextID' = nextID + 1 /\ calls' = [calls EXCEPT ![t] = c]
      /\ mem' = mem /\ book' = book /\ cached' = cached /\ fed' = fed /\ quotes' = quotes
      /\ quoted' = quoted /\ matched' = matched
  BY Zenon DEF PlaceMarketOrder, Start, DrawID, Goto
<1>3. u \in Traders /\ q \in Nat \ {0} /\ lev \in Nat \ {0}
  BY SizesAssumption, LeverAssumption DEF Traders
<1>4. /\ c \in Call /\ c.pc = "market" /\ c.qty = q /\ c.id = nextID + 1 /\ c.legs = <<>>
  <2>1. nextID + 1 \in Nat /\ Idle.legs = <<>>
    BY <1>1 DEF Idle
  <2> QED
    BY <1>3, <2>1, IdleCall DEF Call, Pcs
<1> HIDE DEF c
<1>5. Goes(t, c) /\ Draws
  <2>1. Goes(t, c)
    BY <1>1, <1>2, CallGoes
  <2> QED
    BY <1>1, <1>2, <2>1 DEF Draws
<1>6. CallOK(t, c, nextID')
  BY <1>1, <1>2, <1>3, <1>4 DEF CallOK
<1>7. calls[t].legs = <<>>
  BY <1>1, <1>2, ThreadsAssumption DEF CallsOK, CallOK
<1>8. Balances(t, c.legs)
  BY <1>1, <1>2, <1>4, <1>7, KeepsAll, BalancesQuiet
<1>9. Otherwise
  BY <1>1, <1>2, <1>5, RestStays DEF TypeInv, RestOK
<1>10. Harmless(t, c)
  BY <1>2, <1>4 DEF Harmless, OrderPcs
<1>11. Inv'
  BY <1>1, <1>2, <1>5, <1>6, <1>8, <1>9, <1>10, StepQuiet, StandingSame
<1>12. t # Feeder
  BY ThreadsAssumption
<1> QED
  BY <1>1, <1>2, <1>5, <1>11, <1>12, StepCalm, StandingSame

LEMMA MarketMatched ==
  ASSUME Inv, NEW t \in Threads, MatchMarket(t)
  PROVE  Inv' /\ Calm
<1> DEFINE k    == calls[t]
           m    == Matching(k.side, NoLimit, k.qty)
           legs == Legs(m.trades, k.user, k.side, k.id)
<1>1. TypeInv /\ CallsOK /\ nextID \in Nat /\ t \in AllThreads /\ MemOK(mem)
  BY MemberThreads DEF Inv, TypeInv, RestOK
<1>2. /\ k.pc = "market" /\ BookTrades(k.side, m, legs) /\ Process(t, k, legs)
      /\ mem' = mem /\ cached' = cached /\ nextID' = nextID /\ fed' = fed /\ quotes' = quotes
      /\ quoted' = quoted
  BY Zenon DEF MatchMarket
<1>3. /\ k \in Call /\ k.side \in Sides /\ k.user \in Traders /\ k.id \in Nat /\ k.id <= nextID
      /\ k.qty \in Nat \ {0} /\ k.legs = <<>>
  BY <1>1, <1>2, CallFields, ThreadsAssumption DEF CallOK
<1> HIDE DEF k, m, legs
<1>4. MatchesWell(k.side, m, legs)
  BY <1>1, <1>3, TradeFacts DEF m, legs
<1>5. /\ legs \in Seq(Leg) /\ Balance(legs) = 0 /\ BookGood(book')
      /\ Standing(book') \subseteq Standing(book)
      /\ matched' = [u \in Traders |-> matched[u] + LegSum(legs, u)]
  BY <1>2, <1>4 DEF MatchesWell, BookTrades
<1>6. /\ matched' = [u \in Traders |-> matched'[u]]
      /\ \A u \in Traders : matched'[u] = matched[u] + LegSum(legs, u)
      /\ MatchedSum(matched') = MatchedSum(matched)
  BY <1>1, <1>5, MatchedFacts
<1>7. Draws
  BY <1>1, <1>2 DEF Draws
<1>8. PICK c : /\ Goes(t, c) /\ CallOK(t, c, nextID') /\ c.legs = legs
               /\ c.pc \in {"idle", "legs"} /\ (c.pc = "idle" => legs = <<>>)
  BY <1>1, <1>2, <1>3, <1>5, ProcessFacts
<1>9. Balances(t, legs)
  <2>1. \A v \in Traders : LegSum(legs, v) = LegSum(calls[t].legs, v) + LegSum(legs, v)
    <3> SUFFICES ASSUME NEW v \in Traders
                 PROVE  LegSum(legs, v) = LegSum(calls[t].legs, v) + LegSum(legs, v)
      OBVIOUS
    <3>1. LegSum(calls[t].legs, v) = 0
      BY <1>3, NoLegs DEF k
    <3>2. LegSum(legs, v) \in Int
      BY <1>5, LegSumInt
    <3> QED
      BY <3>1, <3>2
  <2> QED
    BY <1>1, <1>2, <1>5, <1>6, <2>1, BalancesMatched
<1>10. Otherwise
  BY <1>1, <1>2, <1>6, <1>7, RestStays
<1>11. Harmless(t, c)
  BY <1>2, <1>8 DEF Harmless, OrderPcs, k
<1>12. Inv'
  BY <1>1, <1>2, <1>5, <1>7, <1>8, <1>9, <1>10, <1>11, KeepsAll, StepQuiet
<1>13. t # Feeder
  BY ThreadsAssumption
<1> QED
  BY <1>1, <1>5, <1>6, <1>7, <1>8, <1>12, <1>13, StepCalm

LEMMA LimitPlaced ==
  ASSUME Inv, NEW t \in Threads, NEW u \in Users, NEW s \in Sides, NEW q \in Quantities,
         NEW p \in LimitPrices, NEW lev \in Leverages, PlaceLimitOrder(t, u, s, q, p, lev)
  PROVE  Inv' /\ Calm
<1> DEFINE cost == LimitCost(q, p, lev)
           c == [[Idle EXCEPT !.user = u, !.side = s, !.lev = lev, !.qty = q,
                              !.id = nextID + 1, !.price = p, !.cost = cost] EXCEPT !.pc = "limit"]
<1>1. /\ TypeInv /\ OrdersInv /\ FrozenInv /\ PositionsFollowTrades /\ CallsOK /\ CachedOK
      /\ nextID \in Nat /\ t \in AllThreads /\ BookGood(book) /\ MemOK(mem)
  BY MemberThreads, InvParts DEF TypeInv, RestOK
<1>2. /\ calls[t].pc = "idle" /\ nextID' = nextID + 1 /\ calls' = [calls EXCEPT ![t] = c]
      /\ mem' = Freeze(mem, u, cost) /\ book' = book /\ cached' = cached /\ fed' = fed
      /\ quotes' = quotes /\ quoted' = quoted /\ matched' = matched
  BY Zenon DEF PlaceLimitOrder, Start, DrawID, Goto
<1>3. u \in Traders /\ q \in Nat \ {0} /\ lev \in Nat \ {0} /\ p \in Nat
  BY SizesAssumption, LeverAssumption, LimitsAssumption DEF Traders
<1>4. cost \in Nat
  <2> DEFINE x == q * p
  <2>1. x \in Nat
    BY <1>3, ProductNat
  <2> HIDE DEF x
  <2>2. x \div lev \in Nat /\ CalcFee(x, TRUE) \in Nat
    BY <1>3, <2>1, QuotientNat, FeeNat
  <2>3. cost = x \div lev + CalcFee(x, TRUE)
    BY Zenon DEF LimitCost, x
  <2> HIDE DEF cost
  <2>4. \A a, b \in Nat : a + b \in Nat
    OBVIOUS
  <2> QED
    BY <2>2, <2>3, <2>4, Zenon
<1> HIDE DEF cost
<1>5. /\ c \in Call /\ c.pc = "limit" /\ c.qty = q /\ c.id = nextID + 1 /\ c.legs = <<>>
      /\ c.user = u /\ c.cost = cost
  <2>1. nextID + 1 \in Nat /\ Idle.legs = <<>>
    BY <1>1 DEF Idle
  <2> QED
    BY <1>3, <1>4, <2>1, IdleCall DEF Call, Pcs
<1> HIDE DEF c
<1>6. Goes(t, c)
  BY <1>1, <1>2, CallGoes
<1>7. Draws
  BY <1>1, <1>2 DEF Draws
<1>8. CallOK(t, c, nextID')
  BY <1>1, <1>2, <1>3, <1>5 DEF CallOK
<1>9. calls[t].legs = <<>> /\ t # Feeder
  BY <1>1, <1>2, ThreadsAssumption DEF CallsOK, CallOK
<1>10. MemOK(mem') /\ Keeps(mem, mem') /\ SetsAside(mem, mem', c.user, c.cost)
  BY <1>1, <1>2, <1>3, <1>4, <1>5, FreezeFacts
<1>11. Balances(t, c.legs)
  BY <1>1, <1>2, <1>5, <1>9, <1>10, BalancesQuiet
<1>12. Otherwise
  BY <1>1, <1>2, <1>7, RestStays DEF TypeInv, RestOK
<1>13. TypeInv'
  BY <1>1, <1>2, <1>6, <1>7, <1>8, <1>11, <1>12, CachedStays, TypeStep
<1>14. OrdersInv'
  BY <1>1, <1>2, <1>5, <1>6, <1>7, OrdersPlaced
<1>15. FrozenInv'
  BY <1>1, <1>2, <1>4, <1>5, <1>6, <1>10, FrozenPlaced
<1>16. PositionsFollowTrades'
  BY <1>1, <1>6, <1>11, TradesFollowed
<1>17. Calm
  BY <1>1, <1>2, <1>6, <1>7, <1>9, StepCalm, StandingSame
<1> QED
  BY <1>13, <1>14, <1>15, <1>16, <1>17 DEF Inv, OrdersInv

\* The two ways a limit order may go.
LEMMA LimitMatched ==
  ASSUME Inv, NEW t \in Threads, MatchLimit(t)
  PROVE  Inv' /\ Calm
<1> DEFINE k    == calls[t]
           m    == Matching(k.side, k.price, k.qty)
           legs == Legs(m.trades, k.user, k.side, k.id)
           rest == [id |-> k.id, user |-> k.user, side |-> k.side, price |-> k.price,
                    qty |-> m.left]
           full == [[k EXCEPT !.legs = legs] EXCEPT !.pc = "filled"]
           part == [k EXCEPT !.pc = "resting"]
<1>1. /\ TypeInv /\ OrdersInv /\ FrozenInv /\ PositionsFollowTrades /\ CallsOK /\ CachedOK
      /\ nextID \in Nat /\ t \in AllThreads /\ BookGood(book) /\ MemOK(mem)
  BY MemberThreads, InvParts DEF TypeInv, RestOK
<1>2. /\ k.pc = "limit" /\ matched' = [u \in Traders |-> matched[u] + LegSum(legs, u)]
      /\ cached' = cached /\ nextID' = nextID /\ fed' = fed /\ quotes' = quotes
      /\ quoted' = quoted
  BY Zenon DEF MatchLimit
<1>3. /\ m.left = 0 => /\ book' = [book EXCEPT ![-k.side] = m.rest]
                       /\ calls' = [calls EXCEPT ![t] = full] /\ mem' = mem
      /\ m.left # 0 => /\ book' = [book EXCEPT ![-k.side] = m.rest, ![k.side] = Queue(@, rest)]
                       /\ calls' = [calls EXCEPT ![t] = part]
                       /\ mem' = [mem EXCEPT !.lost =
                                    [u \in Traders |-> mem.lost[u] + LegSum(legs, u)]]
  BY Zenon DEF MatchLimit, Goto
<1>4. /\ k \in Call /\ k.side \in Sides /\ k.user \in Users /\ k.user \in Traders
      /\ k.id \in Nat \ {0} /\ k.id <= nextID
      /\ k.qty \in Nat \ {0} /\ k.price \in Nat /\ k.legs = <<>>
  BY <1>1, <1>2, CallFields, ThreadsAssumption DEF CallOK
<1>5. calls[t] = k
  OBVIOUS
<1> HIDE DEF k, m, legs
<1>6. MatchesWell(k.side, m, legs)
  BY <1>1, <1>4, TradeFacts DEF m, legs
<1>7. legs \in Seq(Leg) /\ Balance(legs) = 0 /\ m.left \in Nat
  BY <1>6 DEF MatchesWell
<1>8. /\ matched' = [u \in Traders |-> matched'[u]]
      /\ \A u \in Traders : matched'[u] = matched[u] + LegSum(legs, u)
      /\ MatchedSum(matched') = MatchedSum(matched)
  BY <1>1, <1>2, <1>7, MatchedFacts
<1>9. Draws /\ t # Feeder
  BY <1>1, <1>2, ThreadsAssumption DEF Draws
<1>10. Otherwise
  BY <1>1, <1>2, <1>8, <1>9, RestStays
<1>11. CASE m.left = 0
  <2> DEFINE c == full
  <2>1. /\ c \in Call /\ c.pc = "filled" /\ c.id = k.id /\ c.legs = legs
        /\ c.user = k.user /\ c.cost = k.cost
    BY <1>4, <1>7 DEF Call, Pcs
  <2>2. calls' = [calls EXCEPT ![t] = c] /\ mem' = mem
    BY <1>3, <1>11
  <2> HIDE DEF c
  <2>3. BookGood(book') /\ Standing(book') \subseteq Standing(book) /\ legs # <<>>
    BY <1>3, <1>6, <1>11 DEF MatchesWell
  <2>4. Goes(t, c)
    BY <1>1, <2>2, CallGoes
  <2>5. CallOK(t, c, nextID')
    BY <1>2, <1>4, <2>1, <2>3 DEF CallOK
  <2>6. Balances(t, c.legs)
    <3>1. \A v \in Traders : LegSum(c.legs, v) = LegSum(calls[t].legs, v) + LegSum(legs, v)
      <4> SUFFICES ASSUME NEW v \in Traders
                   PROVE  LegSum(legs, v) = LegSum(k.legs, v) + LegSum(legs, v)
        BY <1>5, <2>1
      <4>1. LegSum(k.legs, v) = 0
        BY <1>4, NoLegs
      <4>2. LegSum(legs, v) \in Int
        BY <1>7, LegSumInt
      <4> QED
        BY <4>1, <4>2
    <3> QED
      BY <1>1, <1>7, <1>8, <2>1, <2>2, <3>1, BalancesMatched
  <2>7. Harmless(t, c)
    BY <1>2, <1>5, <2>1 DEF Harmless, OrderPcs
  <2>8. Inv'
    BY <1>1, <1>2, <1>9, <1>10, <2>2, <2>3, <2>4, <2>5, <2>6, <2>7, KeepsAll, StepQuiet
  <2> QED
    BY <1>1, <1>8, <1>9, <2>3, <2>4, <2>8, StepCalm
<1>12. CASE m.left # 0
  <2> DEFINE c == part
             o == <<k.id, k.user>>
  <2>1. /\ c \in Call /\ c.pc = "resting" /\ c.id = k.id /\ c.legs = <<>>
        /\ c.user = k.user /\ c.cost = k.cost
    BY <1>4 DEF Call, Pcs
  <2>2. calls' = [calls EXCEPT ![t] = c]
    BY <1>3, <1>12
  <2> HIDE DEF c
  <2>3. /\ rest \in Resting /\ rest.side = k.side /\ rest.qty = m.left /\ rest.id = k.id
        /\ rest.user = k.user
    BY <1>4, <1>7 DEF Resting
  <2>4. \A p \in Standing(book) : p[1] # k.id
    BY <1>1, <1>2, <1>5 DEF OrdersInv, StandingInv
  <2> HIDE DEF rest
  <2>5. Rested(book', k.side, m, rest)
    BY <1>3, <1>7, <1>12 DEF Rested
  <2>6. BookGood(book') /\ Standing(book') \subseteq Standing(book) \cup {o}
    <3>1. BookGood(book') /\ Standing(book') \subseteq Standing(book) \cup {<<rest.id, rest.user>>}
      <4>1. \A p \in Standing(book) : p[1] # rest.id
        BY <2>3, <2>4
      <4> QED
        BY <1>1, <1>4, <1>6, <2>3, <2>5, <4>1, TradeRests
    <3> QED
      BY <2>3, <3>1
  <2>7. Goes(t, c)
    BY <1>1, <2>2, CallGoes
  <2>8. CallOK(t, c, nextID')
    BY <1>2, <1>4, <2>1 DEF CallOK
  <2>9. mem' = [mem EXCEPT !.lost = [u \in Traders |-> mem.lost[u] + LegSum(legs, u)]]
    BY <1>3, <1>12
  <2>10. Balances(t, calls[t].legs) /\ mem'.frozen = mem.frozen
    BY <1>1, <1>7, <1>8, <2>9, BalancesLost
  <2>11. Balances(t, c.legs)
    BY <1>4, <1>5, <2>1, <2>10
  <2>12. TypeInv'
    BY <1>1, <1>2, <1>9, <1>10, <2>6, <2>7, <2>8, <2>11, CachedStays, TypeStep
  <2>13. OrdersInv'
    <3>1. o[1] = c.id /\ o[2] \in Users
      BY <1>4, <2>1
    <3> QED
      BY <1>1, <1>2, <1>5, <1>9, <2>1, <2>6, <2>7, <3>1, OrdersRest, ZenonT(30)
  <2>14. FrozenInv'
    BY <1>1, <1>2, <1>5, <2>1, <2>7, <2>10, FrozenQuiet
  <2>15. PositionsFollowTrades'
    BY <1>1, <2>7, <2>11, TradesFollowed
  <2>16. \A p \in Standing(book') : p[2] = LIQ => p \in Standing(book)
    <3>1. o[2] # LIQ
      BY <1>4, UsersAssumption
    <3> QED
      BY <2>6, <3>1
  <2>17. Calm
    BY <1>1, <1>8, <1>9, <2>7, <2>16, StepCalm
  <2> QED
    BY <2>12, <2>13, <2>14, <2>15, <2>17 DEF Inv, OrdersInv
<1> QED
  BY <1>11, <1>12

LEMMA LimitFilled ==
  ASSUME Inv, NEW t \in Threads, UnfreezeFilled(t)
  PROVE  Inv' /\ Calm
<1> DEFINE k == calls[t]
           c == [k EXCEPT !.pc = "legs"]
<1>1. /\ TypeInv /\ OrdersInv /\ FrozenInv /\ PositionsFollowTrades /\ CallsOK /\ CachedOK
      /\ nextID \in Nat /\ t \in AllThreads /\ BookGood(book) /\ MemOK(mem)
  BY MemberThreads, InvParts DEF TypeInv, RestOK
<1>2. /\ k.pc = "filled" /\ mem' = Unfreeze(mem, calls[t].user, calls[t].cost)
      /\ calls' = [calls EXCEPT ![t] = c] /\ book' = book /\ cached' = cached
      /\ nextID' = nextID /\ fed' = fed /\ quotes' = quotes /\ quoted' = quoted
      /\ matched' = matched
  BY Zenon DEF UnfreezeFilled, Goto
<1>3. /\ CallOK(t, k, nextID) /\ k \in Call /\ k.user \in Traders /\ k.cost \in Nat
      /\ k.legs \in Seq(Leg)
  BY <1>1, CallFields
<1>4. calls[t] = k
  OBVIOUS
<1> HIDE DEF k
<1>5. /\ c \in Call /\ c.pc = "legs" /\ c.id = k.id /\ c.legs = k.legs /\ c.qty = k.qty
  BY <1>3 DEF Call, Pcs
<1> HIDE DEF c
<1>6. Goes(t, c)
  BY <1>1, <1>2, CallGoes
<1>7. Draws /\ t # Feeder
  BY <1>1, <1>2, ThreadsAssumption DEF Draws
<1>8. CallOK(t, c, nextID')
  BY <1>2, <1>3, <1>5 DEF CallOK
<1>9. MemOK(mem') /\ Keeps(mem, mem')
  BY <1>1, <1>2, <1>3, <1>4, UnfreezeFacts
<1>10. Balances(t, c.legs)
  <2>1. Balances(t, calls[t].legs)
    BY <1>1, <1>2, <1>9, BalancesQuiet
  <2> QED
    BY <1>4, <1>5, <2>1
<1>11. Otherwise
  BY <1>1, <1>2, <1>7, RestStays DEF TypeInv, RestOK
<1>12. TypeInv'
  BY <1>1, <1>2, <1>6, <1>7, <1>8, <1>10, <1>11, CachedStays, TypeStep
<1>13. OrdersInv'
  <2>1. calls[t].pc # "resting" /\ c.pc \notin OrderPcs
    BY <1>2, <1>4, <1>5 DEF OrderPcs
  <2> QED
    BY <1>1, <1>2, <1>6, <1>7, <2>1, OrdersQuiet
<1>14. FrozenInv'
  BY <1>1, <1>2, <1>4, <1>5, <1>6, FrozenFilled
<1>15. PositionsFollowTrades'
  BY <1>1, <1>6, <1>10, TradesFollowed
<1>16. Calm
  BY <1>1, <1>2, <1>6, <1>7, StepCalm, StandingSame
<1> QED
  BY <1>12, <1>13, <1>14, <1>15, <1>16 DEF Inv, OrdersInv

LEMMA LimitCached ==
  ASSUME Inv, NEW t \in Threads, Register(t)
  PROVE  Inv' /\ Calm
<1> DEFINE k == calls[t]
           o == [user |-> k.user, cost |-> k.cost, lev |-> k.lev]
<1>1. /\ TypeInv /\ OrdersInv /\ FrozenInv /\ PositionsFollowTrades /\ CallsOK /\ CachedOK
      /\ nextID \in Nat /\ t \in AllThreads /\ BookGood(book) /\ MemOK(mem)
  BY MemberThreads, InvParts DEF TypeInv, RestOK
<1>2. /\ calls[t].pc = "resting" /\ Finish(t)
      /\ mem' = mem /\ book' = book /\ nextID' = nextID /\ fed' = fed /\ quotes' = quotes
      /\ quoted' = quoted /\ matched' = matched
      /\ cached' = [i \in DOMAIN cached \cup {k.id} |-> IF i = k.id THEN o ELSE cached[i]]
  BY Zenon DEF Register
<1>3. /\ CallOK(t, k, nextID) /\ k \in Call /\ k.user \in Traders /\ k.cost \in Nat
      /\ k.lev \in Nat \ {0} /\ k.id \in Nat /\ k.id <= nextID
  BY <1>1, CallFields
<1>4. calls[t] = k /\ k.pc = "resting" /\ k.user \in Users /\ k.legs = <<>>
  BY <1>2, <1>3, ThreadsAssumption DEF CallOK
<1>5. o \in [user : Users, cost : Nat, lev : Nat \ {0}] /\ o.user = k.user /\ o.cost = k.cost
  BY <1>3, <1>4
<1> HIDE DEF k, o
<1>6. k.id \notin DOMAIN cached
  BY <1>1, <1>4 DEF OrdersInv, FreshInv
<1>7. /\ DOMAIN cached' = DOMAIN cached \cup {k.id} /\ cached'[k.id] = o
      /\ \A i \in DOMAIN cached : cached'[i] = cached[i]
      /\ cached' = [i \in DOMAIN cached' |-> cached'[i]]
  BY <1>2, <1>6
<1>8. k.id # 0
  BY <1>3, <1>4 DEF CallOK
<1>9. CachedOK'
  <2>1. k.id \in 1 .. nextID
    BY <1>1, <1>3, <1>8
  <2> QED
    BY <1>1, <1>2, <1>5, <1>7, <2>1 DEF CachedOK
<1>10. Goes(t, Idle) /\ Idle.legs = <<>>
  BY <1>1, <1>2, CallEnds
<1>11. Draws /\ t # Feeder
  BY <1>1, <1>2, ThreadsAssumption DEF Draws
<1>12. CallOK(t, Idle, nextID')
  BY <1>1, <1>2, IdleOK
<1>13. Balances(t, Idle.legs)
  <2>1. Balances(t, calls[t].legs)
    BY <1>1, <1>2, KeepsAll, BalancesQuiet
  <2> QED
    BY <1>4, <1>10, <2>1
<1>14. Otherwise
  BY <1>1, <1>2, <1>11, RestStays DEF TypeInv, RestOK
<1>15. TypeInv'
  BY <1>1, <1>2, <1>9, <1>10, <1>11, <1>12, <1>13, <1>14, TypeStep
<1>16. OrdersInv'
  BY <1>1, <1>2, <1>4, <1>7, <1>10, OrdersCached
<1>17. FrozenInv'
  BY <1>1, <1>2, <1>4, <1>5, <1>7, <1>10, FrozenCached
<1>18. PositionsFollowTrades'
  BY <1>1, <1>10, <1>13, TradesFollowed
<1>19. Calm
  BY <1>1, <1>2, <1>10, <1>11, StepCalm, StandingSame
<1> QED
  BY <1>15, <1>16, <1>17, <1>18, <1>19 DEF Inv, OrdersInv

LEMMA CancelStarted ==
  ASSUME Inv, NEW t \in Threads, NEW id \in DOMAIN cached, CancelOrder(t, id)
  PROVE  Inv' /\ Calm
<1> DEFINE c == [[Idle EXCEPT !.user = cached[id].user, !.id = id, !.cost = cached[id].cost]
                  EXCEPT !.pc = "cancel"]
<1>1. /\ TypeInv /\ OrdersInv /\ FrozenInv /\ PositionsFollowTrades /\ CallsOK /\ CachedOK
      /\ nextID \in Nat /\ t \in AllThreads /\ BookGood(book) /\ MemOK(mem)
  BY MemberThreads, InvParts DEF TypeInv, RestOK
<1>2. /\ calls[t].pc = "idle" /\ calls' = [calls EXCEPT ![t] = c]
      /\ mem' = mem /\ book' = book /\ cached' = cached /\ nextID' = nextID /\ fed' = fed
      /\ quotes' = quotes /\ quoted' = quoted /\ matched' = matched
  BY Zenon DEF CancelOrder, Goto
<1>3. /\ cached[id].user \in Users /\ cached[id].user \in Traders /\ cached[id].cost \in Nat
      /\ id \in Nat /\ id <= nextID
  BY <1>1 DEF CachedOK, Traders
<1>4. /\ c \in Call /\ c.pc = "cancel" /\ c.id = id /\ c.legs = <<>>
      /\ c.user = cached[id].user /\ c.cost = cached[id].cost
  <2>1. Idle.legs = <<>>
    BY DEF Idle
  <2> QED
    BY <1>3, <2>1, IdleCall DEF Call, Pcs
<1> HIDE DEF c
<1>5. Goes(t, c)
  BY <1>1, <1>2, CallGoes
<1>6. Draws /\ t # Feeder
  BY <1>1, <1>2, ThreadsAssumption DEF Draws
<1>7. CallOK(t, c, nextID')
  BY <1>2, <1>3, <1>4 DEF CallOK
<1>8. calls[t].legs = <<>>
  BY <1>1, <1>2, ThreadsAssumption DEF CallsOK, CallOK
<1>9. Balances(t, c.legs)
  BY <1>1, <1>2, <1>4, <1>8, KeepsAll, BalancesQuiet
<1>10. Otherwise
  BY <1>1, <1>2, <1>6, RestStays DEF TypeInv, RestOK
<1>11. TypeInv'
  BY <1>1, <1>2, <1>5, <1>6, <1>7, <1>9, <1>10, CachedStays, TypeStep
<1>12. OrdersInv'
  BY <1>1, <1>2, <1>4, <1>5, OrdersPicked
<1>13. FrozenInv'
  BY <1>1, <1>2, <1>4, <1>5, FrozenQuiet
<1>14. PositionsFollowTrades'
  BY <1>1, <1>5, <1>9, TradesFollowed
<1>15. Calm
  BY <1>1, <1>2, <1>5, <1>6, StepCalm, StandingSame
<1> QED
  BY <1>11, <1>12, <1>13, <1>14, <1>15 DEF Inv, OrdersInv

\* The two steps of CancelOrder between picking the order and forgetting it.
LEMMA CancelMatched ==
  ASSUME Inv, NEW t \in Threads, CancelInBook(t)
  PROVE  Inv' /\ Calm
<1> DEFINE k == calls[t]
           c == [k EXCEPT !.pc = "unfreeze"]
<1>1. /\ TypeInv /\ OrdersInv /\ FrozenInv /\ PositionsFollowTrades /\ CallsOK /\ CachedOK
      /\ nextID \in Nat /\ t \in AllThreads /\ BookGood(book) /\ MemOK(mem)
  BY MemberThreads, InvParts DEF TypeInv, RestOK
<1>2. /\ k.pc = "cancel" /\ book' = WithoutOrder(k.id)
      /\ calls' = [calls EXCEPT ![t] = c] /\ mem' = mem /\ cached' = cached
      /\ nextID' = nextID /\ fed' = fed /\ quotes' = quotes /\ quoted' = quoted
      /\ matched' = matched
  BY Zenon DEF CancelInBook, Goto
<1>3. CallOK(t, k, nextID) /\ k \in Call
  BY <1>1, CallFields
<1>4. calls[t] = k
  OBVIOUS
<1> HIDE DEF k
<1>5. /\ c \in Call /\ c.pc = "unfreeze" /\ c.id = k.id /\ c.legs = k.legs /\ c.user = k.user
      /\ c.cost = k.cost
  BY <1>3 DEF Call, Pcs
<1> HIDE DEF c
<1>6. Goes(t, c)
  BY <1>1, <1>2, CallGoes
<1>7. Draws /\ t # Feeder
  BY <1>1, <1>2, ThreadsAssumption DEF Draws
<1>8. CallOK(t, c, nextID')
  BY <1>2, <1>3, <1>5 DEF CallOK
<1>9. Balances(t, c.legs)
  <2>1. Balances(t, calls[t].legs)
    BY <1>1, <1>2, KeepsAll, BalancesQuiet
  <2> QED
    BY <1>4, <1>5, <2>1
<1>10. Otherwise
  BY <1>1, <1>2, <1>7, RestStays DEF TypeInv, RestOK
<1>11. /\ BookGood(book') /\ Standing(book') \subseteq Standing(book)
       /\ \A o \in Standing(book') : o[1] # k.id
  BY <1>1, <1>2, BookWithout
<1>12. TypeInv'
  BY <1>1, <1>2, <1>6, <1>7, <1>8, <1>9, <1>10, <1>11, CachedStays, TypeStep
<1>13. OrdersInv'
  BY <1>1, <1>2, <1>4, <1>5, <1>6, <1>11, OrdersCancelled
<1>14. FrozenInv'
  BY <1>1, <1>2, <1>4, <1>5, <1>6, FrozenQuiet
<1>15. PositionsFollowTrades'
  BY <1>1, <1>6, <1>9, TradesFollowed
<1>16. Calm
  BY <1>1, <1>2, <1>6, <1>7, <1>11, StepCalm
<1> QED
  BY <1>12, <1>13, <1>14, <1>15, <1>16 DEF Inv, OrdersInv

LEMMA CancelFreed ==
  ASSUME Inv, NEW t \in Threads, UnfreezeCancelled(t)
  PROVE  Inv' /\ Calm
<1> DEFINE k == calls[t]
           c == [k EXCEPT !.pc = "uncache"]
<1>1. /\ TypeInv /\ OrdersInv /\ FrozenInv /\ PositionsFollowTrades /\ CallsOK /\ CachedOK
      /\ nextID \in Nat /\ t \in AllThreads /\ BookGood(book) /\ MemOK(mem)
  BY MemberThreads, InvParts DEF TypeInv, RestOK
<1>2. /\ k.pc = "unfreeze" /\ mem' = Unfreeze(mem, calls[t].user, calls[t].cost)
      /\ calls' = [calls EXCEPT ![t] = c] /\ book' = book /\ cached' = cached
      /\ nextID' = nextID /\ fed' = fed /\ quotes' = quotes /\ quoted' = quoted
      /\ matched' = matched
  BY Zenon DEF UnfreezeCancelled, Goto
<1>3. CallOK(t, k, nextID) /\ k \in Call /\ k.user \in Traders /\ k.cost \in Nat
  BY <1>1, CallFields
<1>4. calls[t] = k
  OBVIOUS
<1> HIDE DEF k
<1>5. /\ c \in Call /\ c.pc = "uncache" /\ c.id = k.id /\ c.legs = k.legs /\ c.user = k.user
      /\ c.cost = k.cost
  BY <1>3 DEF Call, Pcs
<1> HIDE DEF c
<1>6. Goes(t, c)
  BY <1>1, <1>2, CallGoes
<1>7. Draws /\ t # Feeder
  BY <1>1, <1>2, ThreadsAssumption DEF Draws
<1>8. CallOK(t, c, nextID')
  BY <1>2, <1>3, <1>5 DEF CallOK
<1>9. MemOK(mem') /\ Keeps(mem, mem')
  BY <1>1, <1>2, <1>3, <1>4, UnfreezeFacts
<1>10. Balances(t, c.legs)
  <2>1. Balances(t, calls[t].legs)
    BY <1>1, <1>2, <1>9, BalancesQuiet
  <2> QED
    BY <1>4, <1>5, <2>1
<1>11. Otherwise
  BY <1>1, <1>2, <1>7, RestStays DEF TypeInv, RestOK
<1>12. TypeInv'
  BY <1>1, <1>2, <1>6, <1>7, <1>8, <1>10, <1>11, CachedStays, TypeStep
<1>13. OrdersInv'
  <2>1. \A o \in Standing(book) : o[1] # k.id
    BY <1>1, <1>2, <1>4 DEF OrdersInv, StandingInv
  <2> QED
    BY <1>1, <1>2, <1>4, <1>5, <1>6, <2>1, OrdersCancelled
<1>14. FrozenInv'
  BY <1>1, <1>2, <1>4, <1>5, <1>6, FrozenCancelled
<1>15. PositionsFollowTrades'
  BY <1>1, <1>6, <1>10, TradesFollowed
<1>16. Calm
  BY <1>1, <1>2, <1>6, <1>7, StepCalm, StandingSame
<1> QED
  BY <1>12, <1>13, <1>14, <1>15, <1>16 DEF Inv, OrdersInv

LEMMA CancelEnded ==
  ASSUME Inv, NEW t \in Threads, Uncache(t)
  PROVE  Inv' /\ Calm
<1>1. /\ TypeInv /\ OrdersInv /\ FrozenInv /\ PositionsFollowTrades /\ CallsOK /\ CachedOK
      /\ nextID \in Nat /\ t \in AllThreads /\ BookGood(book) /\ MemOK(mem)
  BY MemberThreads, InvParts DEF TypeInv, RestOK
<1>2. /\ calls[t].pc = "uncache" /\ Finish(t)
      /\ mem' = mem /\ book' = book /\ nextID' = nextID /\ fed' = fed /\ quotes' = quotes
      /\ quoted' = quoted /\ matched' = matched
      /\ cached' = Restrict(cached, DOMAIN cached \ {calls[t].id})
  BY Zenon DEF Uncache
<1>3. /\ DOMAIN cached' = DOMAIN cached \ {calls[t].id}
      /\ \A i \in DOMAIN cached' : cached'[i] = cached[i]
      /\ cached' = [i \in DOMAIN cached' |-> cached'[i]]
  BY <1>2 DEF Restrict
<1>4. CachedOK'
  BY <1>1, <1>2, <1>3 DEF CachedOK
<1>5. Goes(t, Idle) /\ Idle.legs = <<>>
  BY <1>1, <1>2, CallEnds
<1>6. Draws /\ t # Feeder
  BY <1>1, <1>2, ThreadsAssumption DEF Draws
<1>7. CallOK(t, Idle, nextID')
  BY <1>1, <1>2, IdleOK
<1>8. calls[t].legs = <<>>
  BY <1>1, <1>2, ThreadsAssumption DEF CallsOK, CallOK
<1>9. Balances(t, Idle.legs)
  BY <1>1, <1>2, <1>5, <1>8, KeepsAll, BalancesQuiet
<1>10. Otherwise
  BY <1>1, <1>2, <1>6, RestStays DEF TypeInv, RestOK
<1>11. TypeInv'
  BY <1>1, <1>2, <1>4, <1>5, <1>6, <1>7, <1>9, <1>10, TypeStep
<1>12. OrdersInv'
  BY <1>1, <1>2, <1>3, <1>5, OrdersUncached
<1>13. FrozenInv'
  BY <1>1, <1>2, <1>3, <1>5, FrozenUncached
<1>14. PositionsFollowTrades'
  BY <1>1, <1>5, <1>9, TradesFollowed
<1>15. Calm
  BY <1>1, <1>2, <1>5, <1>6, StepCalm, StandingSame
<1> QED
  BY <1>11, <1>12, <1>13, <1>14, <1>15 DEF Inv, OrdersInv

\* A change of state of a position.
LEMMA StateFacts ==
  ASSUME NEW m, MemOK(m), NEW i, NEW state \in {Active, Closing, ForceTPing},
         NEW n, n = SetState(m, i, state)
  PROVE  /\ MemOK(n) /\ n.frozen = m.frozen /\ n.lost = m.lost /\ n.bought = m.bought
         /\ \A v \in Traders : Net(n, v) = Net(m, v)
<1>1. Gains(m, n, MM, 0)
  BY StateGains
<1>2. n.bought = m.bought
  <2>1. CASE i \in DOMAIN m.pos
    <3>1. n = [m EXCEPT !.pos[i].state = state]
      BY <2>1 DEF SetState
    <3> QED
      BY <3>1 DEF MemOK, Memory
  <2>2. CASE i \notin DOMAIN m.pos
    BY <2>2 DEF SetState
  <2> QED
    BY <2>1, <2>2
<1> QED
  BY <1>1, <1>2 DEF Gains

LEMMA BalancesState ==
  ASSUME TypeInv, NEW t \in AllThreads, NEW i, NEW state \in {Active, Closing, ForceTPing},
         mem' = SetState(mem, i, state), matched' = matched
  PROVE  Balances(t, calls[t].legs) /\ mem'.frozen = mem.frozen
<1>1. /\ MemOK(mem') /\ mem'.frozen = mem.frozen /\ mem'.lost = mem.lost
      /\ mem'.bought = mem.bought
      /\ \A v \in Traders : Net(mem', v) = Net(mem, v)
  <2>1. \A n : n = SetState(mem, i, state) =>
                 /\ MemOK(n) /\ n.frozen = mem.frozen /\ n.lost = mem.lost
                 /\ n.bought = mem.bought
                 /\ \A v \in Traders : Net(n, v) = Net(mem, v)
    BY StateFacts DEF TypeInv
  <2> QED
    BY <2>1
<1>2. calls[t].legs \in Seq(Leg)
  BY CallFields DEF TypeInv
<1>3. ASSUME NEW v \in Traders
      PROVE  /\ matched'[v] \in Int
             /\ Settles(mem, calls[t].legs, mem', calls[t].legs, v, matched'[v] - matched[v])
  <2>1. Net(mem', v) = Net(mem, v)
    BY <1>1
  <2>2. mem'.lost[v] = mem.lost[v] /\ mem'.bought[v] = mem.bought[v]
    BY <1>1
  <2>3. /\ Net(mem, v) \in Int /\ mem.lost[v] \in Int /\ mem.bought[v] \in Int
        /\ LegSum(calls[t].legs, v) \in Int /\ matched[v] \in Int
    BY <1>2, HoldingsInt, MemFields, LegSumInt DEF TypeInv, RestOK
  <2> QED
    BY <2>1, <2>2, <2>3 DEF Settles
<1> QED
  BY <1>1, <1>2, <1>3 DEF Balances

LEMMA CloseStarted ==
  ASSUME Inv, NEW t \in Threads, NEW i, NEW q \in Quantities, ClosePosition(t, i, q)
  PROVE  Inv' /\ Calm
<1> DEFINE p == mem.pos[i]
           c == [[Idle EXCEPT !.user = p.user, !.side = -p.side, !.lev = p.lev, !.qty = q,
                              !.id = nextID + 1, !.pos = i] EXCEPT !.pc = "close"]
<1>1. TypeInv /\ CallsOK /\ nextID \in Nat /\ t \in AllThreads /\ BookGood(book) /\ MemOK(mem)
  BY MemberThreads DEF Inv, TypeInv, RestOK
<1>2. /\ calls[t].pc = "idle" /\ nextID' = nextID + 1 /\ calls' = [calls EXCEPT ![t] = c]
      /\ mem' = SetState(mem, i, Closing) /\ i \in DOMAIN mem.pos /\ book' = book
      /\ cached' = cached /\ fed' = fed /\ quotes' = quotes /\ quoted' = quoted
      /\ matched' = matched
  BY Zenon DEF ClosePosition, Start, DrawID, Goto
<1>3. /\ p.user \in Traders /\ -p.side \in Sides /\ p.lev \in Nat \ {0} /\ q \in Nat \ {0}
      /\ i \in Nat
  <2>0. MemOK(mem) /\ i \in DOMAIN mem.pos
    BY <1>1, <1>2
  <2>1. \A j \in DOMAIN mem.pos : mem.pos[j] \in Position
    BY <2>0, MemPos
  <2>2. DOMAIN mem.pos \subseteq 1 .. mem.lastPos /\ mem.lastPos \in Nat
    BY <2>0 DEF MemOK, Memory
  <2>3. mem.pos[i] \in Position /\ i \in Nat
    BY <2>0, <2>1, <2>2
  <2> QED
    BY <2>3, SideInt, SizesAssumption DEF Position
<1> HIDE DEF p
<1>4. c \in Call /\ c.pc = "close" /\ c.qty = q /\ c.id = nextID + 1 /\ c.legs = <<>>
  <2>1. nextID + 1 \in Nat /\ Idle.legs = <<>>
    BY <1>1 DEF Idle
  <2> QED
    BY <1>3, <2>1, IdleCall DEF Call, Pcs
<1> HIDE DEF c
<1>5. Goes(t, c)
  BY <1>1, <1>2, CallGoes
<1>6. Draws /\ t # Feeder
  BY <1>1, <1>2, ThreadsAssumption DEF Draws
<1>7. CallOK(t, c, nextID')
  BY <1>1, <1>2, <1>3, <1>4 DEF CallOK
<1>8. calls[t].legs = <<>>
  BY <1>1, <1>2, ThreadsAssumption DEF CallsOK, CallOK
<1>9. Balances(t, calls[t].legs) /\ mem'.frozen = mem.frozen
  BY <1>1, <1>2, BalancesState
<1>10. Balances(t, c.legs)
  BY <1>4, <1>8, <1>9
<1>11. Otherwise
  BY <1>1, <1>2, <1>6, RestStays DEF TypeInv, RestOK
<1>12. Harmless(t, c)
  BY <1>2, <1>4 DEF Harmless, OrderPcs
<1>13. Inv'
  BY <1>1, <1>2, <1>5, <1>6, <1>7, <1>9, <1>10, <1>11, <1>12, StepQuiet, StandingSame
<1> QED
  BY <1>1, <1>2, <1>5, <1>6, <1>13, StepCalm, StandingSame

LEMMA CloseRefused ==
  ASSUME Inv, NEW t \in Threads, NEW i, NEW q \in Quantities, RefuseClose(t, i, q)
  PROVE  Inv' /\ Calm
<1> DEFINE u == mem.pos[i].user
           c == [[Idle EXCEPT !.user = u, !.pos = i] EXCEPT !.pc = "reopen"]
<1>1. TypeInv /\ CallsOK /\ nextID \in Nat /\ t \in AllThreads /\ BookGood(book) /\ MemOK(mem)
  BY MemberThreads DEF Inv, TypeInv, RestOK
<1>2. /\ calls[t].pc = "idle" /\ nextID' = nextID /\ calls' = [calls EXCEPT ![t] = c]
      /\ mem' = SetState(mem, i, Closing) /\ i \in DOMAIN mem.pos /\ book' = book
      /\ cached' = cached /\ fed' = fed /\ quotes' = quotes /\ quoted' = quoted
      /\ matched' = matched /\ u \in Users
  BY Zenon DEF RefuseClose, Goto
<1>3. u \in Traders /\ i \in Nat
  <2>1. DOMAIN mem.pos \subseteq 1 .. mem.lastPos /\ mem.lastPos \in Nat
    BY <1>1 DEF MemOK, Memory
  <2> QED
    BY <1>2, <2>1 DEF Traders
<1> HIDE DEF u
<1>4. c \in Call /\ c.pc = "reopen" /\ c.id = 0 /\ c.legs = <<>>
  BY <1>3, IdleCall DEF Call, Pcs, Idle
<1> HIDE DEF c
<1>5. Goes(t, c)
  BY <1>1, <1>2, CallGoes
<1>6. Draws /\ t # Feeder
  BY <1>1, <1>2, ThreadsAssumption DEF Draws
<1>7. CallOK(t, c, nextID')
  BY <1>1, <1>2, <1>4 DEF CallOK
<1>8. calls[t].legs = <<>>
  BY <1>1, <1>2, ThreadsAssumption DEF CallsOK, CallOK
<1>9. Balances(t, calls[t].legs) /\ mem'.frozen = mem.frozen
  BY <1>1, <1>2, BalancesState
<1>10. Balances(t, c.legs)
  BY <1>4, <1>8, <1>9
<1>11. Otherwise
  BY <1>1, <1>2, <1>6, RestStays DEF TypeInv, RestOK
<1>12. Harmless(t, c)
  BY <1>2, <1>4 DEF Harmless, OrderPcs
<1>13. Inv'
  BY <1>1, <1>2, <1>5, <1>6, <1>7, <1>9, <1>10, <1>11, <1>12, StepQuiet, StandingSame
<1> QED
  BY <1>1, <1>2, <1>5, <1>6, <1>13, StepCalm, StandingSame

\* A close, by a handler or by the risk monitor.
LEMMA CloseMatched ==
  ASSUME Inv, NEW t \in AllThreads, MatchClose(t)
  PROVE  Inv' /\ Calm
<1> DEFINE k    == calls[t]
           m    == Matching(k.side, NoLimit, k.qty)
           legs == Legs(m.trades, k.user, k.side, k.id)
           c    == IF legs = <<>> THEN [k EXCEPT !.pc = "reopen"]
                   ELSE [[k EXCEPT !.legs = legs] EXCEPT !.pc = "legs"]
<1>1. TypeInv /\ CallsOK /\ nextID \in Nat /\ MemOK(mem)
  BY DEF Inv, TypeInv, RestOK
<1>2. /\ k.pc = "close" /\ BookTrades(k.side, m, legs)
      /\ mem' = mem /\ cached' = cached /\ nextID' = nextID /\ fed' = fed /\ quotes' = quotes
      /\ quoted' = quoted
  BY Zenon DEF MatchClose
<1>3. calls' = [calls EXCEPT ![t] = c]
  BY Zenon DEF MatchClose, Goto
<1>4. /\ k \in Call /\ k.side \in Sides /\ k.user \in Traders /\ k.id \in Nat /\ k.id <= nextID
      /\ k.qty \in Nat \ {0} /\ k.legs = <<>>
  BY <1>1, <1>2, CallFields DEF CallOK
<1>5. calls[t] = k
  OBVIOUS
<1> HIDE DEF k, m, legs
<1>6. MatchesWell(k.side, m, legs)
  BY <1>1, <1>4, TradeFacts DEF m, legs
<1>7. /\ legs \in Seq(Leg) /\ Balance(legs) = 0 /\ BookGood(book')
      /\ Standing(book') \subseteq Standing(book)
      /\ matched' = [u \in Traders |-> matched[u] + LegSum(legs, u)]
  BY <1>2, <1>6 DEF MatchesWell, BookTrades
<1>8. /\ matched' = [u \in Traders |-> matched'[u]]
      /\ \A u \in Traders : matched'[u] = matched[u] + LegSum(legs, u)
      /\ MatchedSum(matched') = MatchedSum(matched)
  BY <1>1, <1>7, MatchedFacts
<1>9. Draws
  BY <1>1, <1>2 DEF Draws
<1>10. /\ c \in Call /\ c.id = k.id /\ c.legs = legs
       /\ c.pc = IF legs = <<>> THEN "reopen" ELSE "legs"
  BY <1>4, <1>7 DEF Call, Pcs
<1> HIDE DEF c
<1>11. CallOK(t, c, nextID')
  BY <1>2, <1>4, <1>10 DEF CallOK
<1>12. Goes(t, c)
  BY <1>1, <1>3, CallGoes
<1>13. Balances(t, c.legs)
  <2>1. \A v \in Traders : LegSum(legs, v) = LegSum(calls[t].legs, v) + LegSum(legs, v)
    <3> SUFFICES ASSUME NEW v \in Traders
                 PROVE  LegSum(legs, v) = LegSum(k.legs, v) + LegSum(legs, v)
      BY <1>5
    <3>1. LegSum(k.legs, v) = 0
      BY <1>4, NoLegs
    <3>2. LegSum(legs, v) \in Int
      BY <1>7, LegSumInt
    <3> QED
      BY <3>1, <3>2
  <2>2. Balances(t, legs)
    BY <1>1, <1>2, <1>7, <1>8, <2>1, BalancesMatched
  <2> QED
    BY <1>10, <2>2
<1>14. Otherwise
  BY <1>1, <1>2, <1>8, <1>9, RestStays
<1>15. Harmless(t, c)
  BY <1>2, <1>5, <1>10 DEF Harmless, OrderPcs
<1>16. Inv'
  BY <1>1, <1>2, <1>7, <1>9, <1>11, <1>12, <1>13, <1>14, <1>15, KeepsAll, StepQuiet
<1>17. Calm
  <2>1. calls[t].pc # "idle" /\ c.pc # "idle"
    BY <1>2, <1>5, <1>10
  <2> QED
    BY <1>1, <1>7, <1>8, <1>9, <1>12, <2>1, StepCalm
<1> QED
  BY <1>16, <1>17

LEMMA CloseReopened ==
  ASSUME Inv, NEW t \in AllThreads, Reopen(t)
  PROVE  Inv' /\ Calm
<1>1. TypeInv /\ CallsOK /\ nextID \in Nat /\ BookGood(book) /\ MemOK(mem)
  BY DEF Inv, TypeInv, RestOK
<1>2. /\ calls[t].pc = "reopen" /\ mem' = SetState(mem, calls[t].pos, Active) /\ Finish(t)
      /\ book' = book /\ cached' = cached /\ nextID' = nextID /\ fed' = fed
      /\ quotes' = quotes /\ quoted' = quoted /\ matched' = matched
  BY Zenon DEF Reopen
<1>3. Goes(t, Idle) /\ Idle.legs = <<>> /\ Idle.pc = "idle"
  BY <1>1, <1>2, CallEnds
<1>4. Draws
  BY <1>1, <1>2 DEF Draws
<1>5. CallOK(t, Idle, nextID')
  BY <1>1, <1>2, IdleOK
<1>6. calls[t].legs = <<>>
  BY <1>1, <1>2 DEF CallsOK, CallOK
<1>7. Balances(t, calls[t].legs) /\ mem'.frozen = mem.frozen
  BY <1>1, <1>2, BalancesState
<1>8. Balances(t, Idle.legs)
  BY <1>3, <1>6, <1>7
<1>9. Otherwise
  BY <1>1, <1>2, <1>4, RestStays DEF TypeInv, RestOK
<1>10. Harmless(t, Idle)
  BY <1>2, <1>3 DEF Harmless, OrderPcs
<1>11. Inv'
  BY <1>1, <1>2, <1>3, <1>4, <1>5, <1>7, <1>8, <1>9, <1>10, StepQuiet, StandingSame
<1>12. Calm
  <2>1. calls[t].pc # "idle"
    BY <1>2
  <2> QED
    BY <1>1, <1>2, <1>3, <1>4, <2>1, StepCalm, StandingSame
<1> QED
  BY <1>11, <1>12

\* Who trades with whom, at which leverage.
LEMMA LegApplied ==
  ASSUME Inv, NEW t \in AllThreads, ApplyLeg(t)
  PROVE  Inv' /\ Calm
<1> DEFINE k == calls[t]
           l == Head(k.legs)
           lev == LeverageOf(k, l)
<1>1. /\ TypeInv /\ CallsOK /\ CachedOK /\ nextID \in Nat /\ BookGood(book) /\ MemOK(mem)
  BY DEF Inv, TypeInv, RestOK
<1>0. mem' \in UpdatePosition(mem, l.user, l.side, l.qty, l.price, lev, l.user # k.user)
  BY Zenon DEF ApplyLeg
<1>2. /\ k.pc = "legs" /\ Process(t, k, Tail(k.legs))
      /\ book' = book /\ cached' = cached /\ nextID' = nextID /\ fed' = fed
      /\ quotes' = quotes /\ quoted' = quoted /\ matched' = matched
  BY Zenon DEF ApplyLeg
<1>3. /\ k \in Call /\ k.legs \in Seq(Leg) /\ k.legs # <<>> /\ k.lev \in Nat \ {0}
      /\ k.id \in Nat /\ k.id <= nextID
  BY <1>1, <1>2, CallFields DEF CallOK
<1>4. calls[t] = k
  OBVIOUS
<1>5. l \in Leg /\ Tail(k.legs) \in Seq(Leg)
  BY <1>3, LegSumHead
<1>6. lev \in Nat \ {0}
  BY <1>1, <1>3 DEF LeverageOf, CachedOK
<1> HIDE DEF k, l, lev
<1>7. Terms(l.user, l.side, l.qty, l.price, lev)
  BY <1>5, <1>6 DEF Terms, Leg
<1>8. Traded(mem, mem', l.user, l.side * l.qty)
  BY <1>0, <1>1, <1>7, UpdateTraded
<1>9. mem'.frozen = mem.frozen
  BY <1>8 DEF Traded
<1>10. PICK c : /\ Goes(t, c) /\ CallOK(t, c, nextID') /\ c.legs = Tail(k.legs)
                /\ c.pc \in {"idle", "legs"} /\ (c.pc = "idle" => Tail(k.legs) = <<>>)
  <2>1. \A rest \in Seq(Leg) : Process(t, k, rest) =>
          \E c : /\ Goes(t, c) /\ CallOK(t, c, nextID') /\ c.legs = rest
                /\ c.pc \in {"idle", "legs"} /\ (c.pc = "idle" => rest = <<>>)
    <3>1. nextID' \in Nat /\ k.id <= nextID'
      BY <1>1, <1>2, <1>3
    <3> QED
      BY <1>1, <1>3, <3>1, ProcessFacts
  <2> QED
    BY <1>2, <1>5, <2>1
<1>11. Balances(t, c.legs)
  <2>1. calls[t].legs # <<>> /\ l = Head(calls[t].legs)
    BY <1>3, <1>4 DEF l
  <2>2. Balances(t, Tail(calls[t].legs))
    BY <1>1, <1>2, <1>8, <2>1, BalancesApplied
  <2> QED
    BY <1>4, <1>10, <2>2
<1>12. Draws
  BY <1>1, <1>2 DEF Draws
<1>13. Otherwise
  BY <1>1, <1>2, <1>12, RestStays DEF TypeInv, RestOK
<1>14. Harmless(t, c)
  BY <1>2, <1>4, <1>10 DEF Harmless, OrderPcs
<1>15. Inv'
  BY <1>1, <1>2, <1>9, <1>10, <1>11, <1>12, <1>13, <1>14, StepQuiet, StandingSame
<1>16. Calm
  <2>1. calls[t].pc # "idle" /\ (c.pc = "idle" => c.legs = <<>>)
    BY <1>2, <1>4, <1>10
  <2> QED
    BY <1>1, <1>2, <1>10, <1>12, <2>1, StepCalm, StandingSame
<1> QED
  BY <1>15, <1>16

-----------------------------------------------------------------------------
(* The market maker.                                                       *)

LEMMA PriceFacts ==
  ASSUME TypeInv
  PROVE  price \in Nat \ {0} /\ Spread \in Nat /\ Spread < price /\ price \in Range(Feed)
<1>1. fed \in DOMAIN Feed
  BY DEF TypeInv, RestOK
<1>2. Feed[fed] \in Nat \ {0} /\ Spread < Feed[fed] /\ Spread \in Nat
  BY <1>1, FeedAssumption, SpreadAssumption
<1> QED
  BY <1>1, <1>2 DEF price, Range

LEMMA TickStarted ==
  ASSUME Inv, Tick
  PROVE  Inv' /\ Calm
<1> DEFINE c == [[Idle EXCEPT !.price = price, !.qty = QuoteQty] EXCEPT !.pc = "requote"]
<1>1. TypeInv /\ CallsOK /\ nextID \in Nat /\ BookGood(book) /\ MemOK(mem)
  BY DEF Inv, TypeInv, RestOK
<1>2. /\ calls[Bot].pc = "idle" /\ calls' = [calls EXCEPT ![Bot] = c]
      /\ mem' = mem /\ book' = book /\ cached' = cached /\ nextID' = nextID /\ fed' = fed
      /\ quotes' = quotes /\ quoted' = quoted /\ matched' = matched
  BY Zenon DEF Tick, Goto
<1>3. Bot \in AllThreads /\ Bot # Feeder /\ Bot \notin Threads
  BY MemberThreads, ThreadsAssumption
<1>4. /\ c \in Call /\ c.pc = "requote" /\ c.qty = QuoteQty /\ c.price = price /\ c.id = 0
      /\ c.legs = <<>>
  <2>1. Idle.legs = <<>> /\ Idle.id = 0
    BY DEF Idle
  <2>2. QuoteQty \in Nat /\ price \in Nat
    BY <1>1, PriceFacts, SizesAssumption
  <2> QED
    BY <2>1, <2>2, IdleCall DEF Call, Pcs
<1> HIDE DEF c
<1>5. Goes(Bot, c)
  BY <1>1, <1>2, <1>3, CallGoes
<1>6. Draws
  BY <1>1, <1>2 DEF Draws
<1>7. CallOK(Bot, c, nextID')
  <2>1. QuoteQty # 0 /\ Spread < price /\ price \in Range(Feed)
    BY <1>1, PriceFacts, SizesAssumption
  <2>2. 0 <= nextID'
    BY <1>1, <1>2
  <2> QED
    BY <1>4, <2>1, <2>2 DEF CallOK
<1>8. calls[Bot].legs = <<>>
  BY <1>1, <1>2, <1>3 DEF CallsOK, CallOK
<1>9. Balances(Bot, c.legs)
  BY <1>1, <1>2, <1>3, <1>4, <1>8, KeepsAll, BalancesQuiet
<1>10. Otherwise
  BY <1>1, <1>2, <1>6, RestStays DEF TypeInv, RestOK
<1>11. Harmless(Bot, c)
  BY <1>3 DEF Harmless
<1>12. Inv'
  BY <1>1, <1>2, <1>3, <1>5, <1>6, <1>7, <1>9, <1>10, <1>11, KeepsAll, StepQuiet, StandingSame
<1>13. Calm
  BY <1>1, <1>2, <1>3, <1>5, <1>6, StepCalm, StandingSame
<1> QED
  BY <1>12, <1>13

LEMMA QuoteCancelled ==
  ASSUME Inv, CancelQuote
  PROVE  Inv' /\ Calm
<1>1. /\ TypeInv /\ CallsOK /\ CachedOK /\ nextID \in Nat /\ BookGood(book) /\ MemOK(mem)
      /\ OrdersInv /\ FrozenInv /\ PositionsFollowTrades
  BY InvParts DEF TypeInv, RestOK
<1>2. /\ calls[Bot].pc = "requote"
      /\ mem' = mem /\ cached' = cached /\ nextID' = nextID /\ fed' = fed
      /\ quoted' = quoted /\ matched' = matched
  BY Zenon DEF CancelQuote
<1>3. Bot \in AllThreads /\ Bot # Feeder /\ Bot \notin Threads
  BY MemberThreads, ThreadsAssumption
<1>4. Draws
  BY <1>1, <1>2 DEF Draws
<1>5. /\ calls[Bot] \in Call /\ calls[Bot].legs = <<>> /\ CallOK(Bot, calls[Bot], nextID')
  BY <1>1, <1>2, <1>3 DEF CallsOK, CallOK
<1>6. matched' = [u \in Traders |-> matched'[u]]
  BY <1>1, <1>2 DEF TypeInv, RestOK
<1>7. CASE quotes = {}
  <2> DEFINE c == [calls[Bot] EXCEPT !.pc = "bid"]
  <2>1. calls' = [calls EXCEPT ![Bot] = c] /\ book' = book /\ quotes' = quotes
    BY <1>7, Zenon DEF CancelQuote, Goto
  <2>2. /\ c \in Call /\ c.pc = "bid" /\ c.legs = calls[Bot].legs /\ c.id = calls[Bot].id
        /\ c.qty = calls[Bot].qty /\ c.price = calls[Bot].price
    BY <1>5 DEF Call, Pcs
  <2> HIDE DEF c
  <2>3. Goes(Bot, c)
    BY <1>1, <1>3, <2>1, CallGoes
  <2>4. CallOK(Bot, c, nextID')
    BY <1>2, <1>3, <1>5, <2>2 DEF CallOK
  <2>5. Balances(Bot, c.legs)
    BY <1>1, <1>2, <1>3, <2>2, KeepsAll, BalancesQuiet
  <2>6. Otherwise
    BY <1>1, <1>2, <1>4, <1>6, <2>1, RestStays
  <2>7. Harmless(Bot, c)
    BY <1>3 DEF Harmless
  <2>8. Inv'
    BY <1>1, <1>2, <1>3, <1>4, <2>1, <2>3, <2>4, <2>5, <2>6, <2>7, KeepsAll, StepQuiet,
       StandingSame
  <2> QED
    BY <1>1, <1>2, <1>3, <1>4, <2>1, <2>3, <2>8, StepCalm, StandingSame
<1>8. CASE quotes # {}
  <2>1. PICK id \in quotes : book' = WithoutOrder(id) /\ quotes' = quotes \ {id} /\ calls' = calls
    BY <1>8, Zenon DEF CancelQuote
  <2>2. /\ BookGood(book') /\ Standing(book') \subseteq Standing(book)
        /\ \A o \in Standing(book') : o[1] # id
    BY <1>1, <2>1, BookWithout
  <2>3. Goes(Bot, calls[Bot])
    BY <1>1, <2>1 DEF Goes, CallsOK
  <2>4. Balances(Bot, calls[Bot].legs)
    BY <1>1, <1>2, <1>3, KeepsAll, BalancesQuiet
  <2>5. Otherwise
    BY <1>1, <1>2, <1>6, <2>1 DEF Otherwise, TypeInv, RestOK
  <2>6. CachedOK'
    BY <1>1, <1>2, <1>4, CachedStays
  <2>7. TypeInv'
    BY <1>1, <1>3, <1>4, <1>5, <2>2, <2>3, <2>4, <2>5, <2>6, TypeStep
  <2>8. OrdersInv'
    BY <1>1, <1>2, <2>1, <2>2, OrdersUnquoted
  <2>9. FrozenInv'
    BY <1>1, <1>2, <2>1 DEF FrozenInv
  <2>10. PositionsFollowTrades'
    BY <1>1, <1>3, <2>3, <2>4, TradesFollowed
  <2>11. Inv'
    BY <2>7, <2>8, <2>9, <2>10, Zenon DEF Inv, OrdersInv
  <2>12. \A o \in Standing(book') : o[2] = LIQ => o \in Standing(book)
    BY <2>2
  <2>13. MatchedSum(matched') = MatchedSum(matched)
    BY <1>2
  <2>14. Calm
    BY <1>1, <1>3, <1>4, <2>3, <2>12, <2>13, StepCalm
  <2> QED
    BY <2>11, <2>14
<1> QED
  BY <1>7, <1>8

\* An order of the market maker or of the liquidation engine.
LEMMA StepOfSystem ==
  ASSUME Inv, Draws, nextID' = nextID + 1, NEW t \in {Bot, Feeder}, NEW c, Goes(t, c),
         CallOK(t, c, nextID'), Balances(t, c.legs), Otherwise, BookGood(book'),
         NEW u, u \notin Users, u = MM => nextID + 1 \in quotes', quotes \subseteq quotes',
         Standing(book') \subseteq Standing(book) \cup {<<nextID + 1, u>>},
         mem'.frozen = mem.frozen, cached' = cached
  PROVE  Inv'
<1>1. TypeInv /\ OrdersInv /\ FrozenInv /\ PositionsFollowTrades
  BY InvParts
<1>2. CallsOK /\ CachedOK /\ nextID \in Nat
  BY <1>1 DEF TypeInv, RestOK
<1>3. t \in AllThreads /\ t \notin Threads
  BY MemberThreads, ThreadsAssumption
<1>4. CachedOK'
  BY <1>2, CachedStays
<1>5. TypeInv'
  BY <1>1, <1>3, <1>4, TypeStep
<1>6. OrdersInv'
  <2> DEFINE o == <<nextID + 1, u>>
  <2>1. o[1] = nextID + 1 /\ o[2] = u
    OBVIOUS
  <2> HIDE DEF o
  <2>2. Standing(book') \subseteq Standing(book) \cup {o} /\ o[2] \notin Users
        /\ (o[2] = MM => nextID + 1 \in quotes')
    BY <2>1 DEF o
  <2> QED
    BY <1>1, <1>2, <2>1, <2>2, OrdersOfSystem
<1>7. FrozenInv'
  BY <1>1, <1>2, <1>3, FrozenQuiet
<1>8. PositionsFollowTrades'
  BY <1>1, <1>3, TradesFollowed
<1> QED
  BY <1>5, <1>6, <1>7, <1>8, Zenon DEF Inv, OrdersInv

LEMMA NewOrder ==
  ASSUME OrdersInv, nextID \in Nat
  PROVE  \A p \in Standing(book) : p[1] # nextID + 1
<1>1. \A p \in Standing(book) : p[1] \in 1 .. nextID
  BY DEF OrdersInv, StandingInv
<1>2. nextID + 1 \notin 1 .. nextID
  OBVIOUS
<1> QED
  BY <1>1, <1>2

\* A bid or an ask of the market maker.
LEMMA QuotePlaced ==
  ASSUME Inv, PlaceQuote
  PROVE  Inv' /\ Calm
<1> DEFINE k     == calls[Bot]
           s     == IF k.pc = "bid" THEN Long ELSE Short
           limit == k.price - s * Spread
           m     == Matching(s, limit, k.qty)
           legs  == Legs(m.trades, MM, s, nextID + 1)
           rest  == [id |-> nextID + 1, user |-> MM, side |-> s, price |-> limit,
                     qty |-> m.left]
           asks  == [[k EXCEPT !.legs = legs] EXCEPT !.pc = "ask"]
<1>1. /\ TypeInv /\ CallsOK /\ CachedOK /\ nextID \in Nat /\ BookGood(book) /\ MemOK(mem)
      /\ OrdersInv
  BY InvParts DEF TypeInv, RestOK
<1>2. /\ k.pc \in {"bid", "ask"} /\ nextID' = nextID + 1
      /\ mem' = mem /\ cached' = cached /\ fed' = fed
  BY Zenon DEF PlaceQuote, DrawID
<1>3. Bot \in AllThreads /\ Bot # Feeder /\ Bot \notin Threads
  BY MemberThreads, ThreadsAssumption
<1>4. /\ k \in Call /\ k.qty \in Nat \ {0} /\ k.price \in Nat /\ Spread < k.price
      /\ k.price \in Range(Feed)
      /\ k.legs \in Seq(Leg) /\ (k.pc = "bid" => k.legs = <<>>) /\ k.id \in Nat /\ k.id <= nextID
  BY <1>1, <1>2, <1>3, CallFields DEF CallOK
<1>5. calls[Bot] = k
  OBVIOUS
<1>6. /\ Rested(book', s, m, rest)
      /\ matched' = [u \in Traders |-> matched[u] + LegSum(legs, u)]
      /\ quotes' = quotes \cup {nextID + 1}
      /\ s = Long => calls' = [calls EXCEPT ![Bot] = asks] /\ quoted' = quoted
      /\ s # Long => quoted' = k.price /\ Process(Bot, Idle, k.legs \o legs)
  BY Zenon DEF PlaceQuote, Goto, Rested
<1> HIDE DEF k
<1>7. /\ s \in Sides /\ limit \in Nat /\ MM \in Traders /\ nextID + 1 \in Nat
      /\ (s = Long <=> k.pc = "bid")
  <2>1. /\ s \in Sides /\ MM \in Traders /\ nextID + 1 \in Nat
        /\ (s = Long <=> k.pc = "bid")
    BY <1>1, <1>2 DEF Sides, Long, Short, Traders
  <2>2. k.price \in Nat /\ Spread \in Nat /\ Spread < k.price
    BY <1>4, SpreadAssumption
  <2>3. CASE s = 1
    <3>1. limit = k.price - Spread
      BY <2>2, <2>3
    <3> QED
      BY <2>1, <2>2, <3>1
  <2>4. CASE s = -1
    <3>1. limit = k.price + Spread
      BY <2>2, <2>4
    <3> QED
      BY <2>1, <2>2, <3>1
  <2> QED
    BY <2>1, <2>3, <2>4 DEF Sides, Long, Short
<1> HIDE DEF s, limit
<1>8. MatchesWell(s, m, legs)
  BY <1>1, <1>4, <1>7, TradeFacts
<1> HIDE DEF m, legs
<1>9. legs \in Seq(Leg) /\ Balance(legs) = 0 /\ m.left \in Nat
  BY <1>8 DEF MatchesWell
<1>10. /\ matched' = [u \in Traders |-> matched'[u]]
       /\ \A u \in Traders : matched'[u] = matched[u] + LegSum(legs, u)
       /\ MatchedSum(matched') = MatchedSum(matched)
  BY <1>1, <1>6, <1>9, MatchedFacts
<1>11. /\ rest \in Resting /\ rest.side = s /\ rest.qty = m.left /\ rest.id = nextID + 1
       /\ rest.user = MM
  BY <1>7, <1>9 DEF Resting
<1> HIDE DEF rest
<1>12. BookGood(book') /\ Standing(book') \subseteq Standing(book) \cup {<<nextID + 1, MM>>}
  <2>1. \A p \in Standing(book) : p[1] # rest.id
    BY <1>1, <1>11, NewOrder
  <2>2. BookGood(book') /\ Standing(book') \subseteq Standing(book) \cup {<<rest.id, rest.user>>}
    BY <1>1, <1>6, <1>7, <1>8, <1>11, <2>1, TradeRests
  <2> QED
    BY <1>11, <2>2
<1>13. Draws
  BY <1>1, <1>2 DEF Draws
<1>14. quotes' \subseteq 1 .. nextID' /\ quotes \subseteq quotes' /\ nextID + 1 \in quotes'
  <2>1. quotes \subseteq 1 .. nextID
    BY <1>1 DEF TypeInv, RestOK
  <2> QED
    BY <1>1, <1>2, <1>6, <2>1
<1>15. k.legs \o legs \in Seq(Leg)
       /\ \A v \in Traders : LegSum(k.legs \o legs, v) = LegSum(k.legs, v) + LegSum(legs, v)
  BY <1>4, <1>9, LegSumConcat
<1>16. PICK c : /\ Goes(Bot, c) /\ CallOK(Bot, c, nextID') /\ c.legs \in Seq(Leg)
                /\ \A v \in Traders : LegSum(c.legs, v) = LegSum(k.legs, v) + LegSum(legs, v)
  <2>1. CASE s = Long
    <3> DEFINE c == asks
    <3>1. calls' = [calls EXCEPT ![Bot] = c]
      BY <1>6, <2>1
    <3>2. /\ c \in Call /\ c.pc = "ask" /\ c.legs = legs /\ c.id = k.id /\ c.qty = k.qty
          /\ c.price = k.price
      BY <1>4, <1>9 DEF Call, Pcs
    <3> HIDE DEF c
    <3>3. Goes(Bot, c)
      BY <1>1, <1>3, <3>1, CallGoes
    <3>4. c.id <= nextID'
      BY <1>1, <1>2, <1>4, <3>2
    <3>5. CallOK(Bot, c, nextID')
      BY <1>3, <1>4, <3>2, <3>4 DEF CallOK
    <3>6. ASSUME NEW v \in Traders PROVE LegSum(legs, v) = LegSum(k.legs, v) + LegSum(legs, v)
      <4>1. LegSum(k.legs, v) = 0
        BY <1>4, <1>7, <2>1, NoLegs
      <4>2. LegSum(legs, v) \in Int
        BY <1>9, LegSumInt
      <4> QED
        BY <4>1, <4>2
    <3> QED
      BY <1>9, <3>2, <3>3, <3>5, <3>6
  <2>2. CASE s # Long
    <3> DEFINE all == k.legs \o legs
    <3>1. Process(Bot, Idle, all) /\ all \in Seq(Leg)
      BY <1>6, <1>15, <2>2
    <3>2. Idle \in Call /\ Idle.id <= nextID' /\ nextID' \in Nat
      <4>1. Idle.id = 0
        BY DEF Idle
      <4> QED
        BY <1>1, <1>2, <4>1, IdleCall
    <3> HIDE DEF all
    <3>3. PICK c : Goes(Bot, c) /\ CallOK(Bot, c, nextID') /\ c.legs = all
      BY <1>1, <1>3, <3>1, <3>2, ProcessFacts
    <3> QED
      BY <1>15, <3>3 DEF all
  <2> QED
    BY <2>1, <2>2
<1>17. Balances(Bot, c.legs)
  <2>1. \A v \in Traders : LegSum(c.legs, v) = LegSum(calls[Bot].legs, v) + LegSum(legs, v)
    BY <1>5, <1>16
  <2> QED
    BY <1>1, <1>2, <1>3, <1>9, <1>10, <1>16, <2>1, BalancesMatched
<1>18. quoted' \in Range(Feed) \cup {0}
  <2>1. quoted \in Range(Feed) \cup {0}
    BY <1>1 DEF TypeInv, RestOK
  <2> QED
    BY <1>4, <1>6, <2>1
<1>19. Otherwise
  BY <1>1, <1>2, <1>10, <1>14, <1>18 DEF Otherwise, TypeInv, RestOK
<1>20. Inv'
  <2>1. MM \notin Users
    BY UsersAssumption
  <2> QED
    BY <1>2, <1>12, <1>13, <1>14, <1>16, <1>17, <1>19, <2>1, KeepsAll, StepOfSystem
<1>21. Calm
  <2>1. \A o \in Standing(book') : o[2] = LIQ => o \in Standing(book)
    BY <1>12, UsersAssumption
  <2> QED
    BY <1>1, <1>3, <1>10, <1>13, <1>16, <2>1, StepCalm
<1> QED
  BY <1>20, <1>21

-----------------------------------------------------------------------------
(* The matching engine keeps the invariant.                                *)

LEMMA InitInv ==
  ASSUME Init
  PROVE  Inv
<1>1. /\ mem = InitMem /\ book = [s \in Sides |-> <<>>] /\ cached = << >> /\ nextID = 0
      /\ fed = 1 /\ quotes = {} /\ quoted = 0 /\ calls = [t \in AllThreads |-> Idle]
      /\ matched = [u \in Traders |-> 0]
  BY DEF Init
<1>2. MemOK(mem)
  BY <1>1, InitMemOK
<1>3. CallsOK
  <2>1. \A t \in AllThreads : CallOK(t, Idle, 0)
    BY IdleOK
  <2> QED
    BY <1>1, <2>1 DEF CallsOK
<1>4. BookGood(book) /\ Standing(book) = {}
  <2>1. ASSUME NEW s \in Sides PROVE SideOK(s, book[s]) /\ DistinctIDs(book[s]) /\ book[s] = <<>>
    BY <1>1 DEF SideOK, DistinctIDs
  <2>2. BookGood(book)
    BY <1>1, <2>1 DEF BookGood
  <2>3. \A o : o \notin Standing(book)
    <3> SUFFICES ASSUME NEW o, o \in Standing(book) PROVE FALSE
      OBVIOUS
    <3>1. PICK s \in Sides : \E n \in DOMAIN book[s] : TRUE
      BY StandingMember
    <3> QED
      BY <2>1, <3>1
  <2> QED
    BY <2>2, <2>3
<1>5. cached = [i \in DOMAIN cached |-> cached[i]] /\ DOMAIN cached = {}
  BY <1>1
<1>6. CachedOK
  BY <1>5 DEF CachedOK
<1>7. RestOK
  <2>1. 1 \in DOMAIN Feed
    BY FeedAssumption
  <2> QED
    BY <1>1, <2>1 DEF RestOK
<1>8. StandingInv /\ FreshInv /\ CancelInv
  <2>1. \A t \in Threads : calls[t].pc = "idle"
    BY <1>1, MemberThreads DEF Idle
  <2> QED
    BY <1>4, <2>1 DEF StandingInv, FreshInv, CancelInv
<1>9. FrozenInv
  <2> SUFFICES ASSUME NEW u \in Users PROVE mem.frozen[u] <= Owed(cached, calls, u)
    BY DEF FrozenInv
  <2>1. mem.frozen[u] = 0
    BY <1>1 DEF InitMem, Traders
  <2>2. Costs(cached, calls)
    BY <1>1, <1>3, <1>6, CostsAre
  <2>3. CostOf(cached, Owing(cached, calls, u)) \in Nat /\ CostOf(calls, PlacingBy(calls, u)) \in Nat
    BY <2>2, OwedFacts
  <2> QED
    BY <2>1, <2>3 DEF Owed
<1>10. PositionsFollowTrades
  <2> SUFFICES ASSUME NEW v \in Traders
               PROVE  /\ Net(mem, v) + InFlight(v) + mem.lost[v] = matched[v]
                      /\ Net(mem, v) = mem.bought[v]
    BY DEF PositionsFollowTrades
  <2>1. mem.lost[v] = 0 /\ mem.bought[v] = 0 /\ matched[v] = 0
    BY <1>1 DEF InitMem
  <2>2. Net(mem, v) = 0
    <3>1. HeldBy(mem, v) = {}
      BY <1>1 DEF InitMem, HeldBy
    <3> QED
      BY <3>1, SumEmpty DEF Net
  <2>3. InFlight(v) = 0
    <3> DEFINE f == [t \in AllThreads |-> LegSum(calls[t].legs, v)]
    <3>1. \A t \in AllThreads : f[t] = 0
      <4>1. LegSum(<<>>, v) = 0 /\ \A t \in AllThreads : calls[t].legs = <<>>
        BY <1>1, NoLegs DEF Idle
      <4> QED
        BY <4>1
    <3>2. InFlight(v) = SumFunctionOnSet(f, AllThreads)
      BY DEF InFlight
    <3> HIDE DEF f
    <3>3. SumFunctionOnSet(f, AllThreads) = SumFunctionOnSet(f, {})
      BY <3>1, ThreadsFinite, SumWithin
    <3> QED
      BY <3>2, <3>3, SumEmpty
  <2> QED
    BY <2>1, <2>2, <2>3
<1> QED
  BY <1>2, <1>3, <1>4, <1>6, <1>7, <1>8, <1>9, <1>10 DEF Inv, TypeInv

\* A step of a handler, of ProcessTrades or of the market maker.
LEMMA TradingStepped ==
  ASSUME Inv, TradingStep
  PROVE  Inv' /\ Calm
<1>1. ASSUME NEW t \in Threads, NEW u \in Users, NEW s \in Sides, NEW q \in Quantities,
             NEW lev \in Leverages, PlaceMarketOrder(t, u, s, q, lev)
      PROVE  Inv' /\ Calm
  BY <1>1, MarketPlaced
<1>2. ASSUME NEW t \in Threads, NEW u \in Users, NEW s \in Sides, NEW q \in Quantities,
             NEW lev \in Leverages, NEW p \in LimitPrices, PlaceLimitOrder(t, u, s, q, p, lev)
      PROVE  Inv' /\ Calm
  BY <1>2, LimitPlaced
<1>3. ASSUME NEW t \in Threads, NEW id \in DOMAIN cached, CancelOrder(t, id)
      PROVE  Inv' /\ Calm
  BY <1>3, CancelStarted
<1>4. ASSUME NEW t \in Threads, NEW i \in DOMAIN mem.pos, NEW q \in Quantities,
             ClosePosition(t, i, q) \/ RefuseClose(t, i, q)
      PROVE  Inv' /\ Calm
  BY <1>4, CloseStarted, CloseRefused
<1>5. ASSUME NEW t \in Threads,
             \/ MatchMarket(t) \/ MatchLimit(t) \/ UnfreezeFilled(t) \/ Register(t)
             \/ CancelInBook(t) \/ UnfreezeCancelled(t) \/ Uncache(t)
      PROVE  Inv' /\ Calm
  BY <1>5, MarketMatched, LimitMatched, LimitFilled, LimitCached, CancelMatched, CancelFreed,
     CancelEnded
<1>6. ASSUME NEW t \in Threads, MatchClose(t) \/ Reopen(t)
      PROVE  Inv' /\ Calm
  BY <1>6, MemberThreads, CloseMatched, CloseReopened
<1>7. ASSUME NEW t \in AllThreads, ApplyLeg(t)
      PROVE  Inv' /\ Calm
  BY <1>7, LegApplied
<1>8. ASSUME Tick \/ CancelQuote \/ PlaceQuote
      PROVE  Inv' /\ Calm
  BY <1>8, TickStarted, QuoteCancelled, QuotePlaced
<1> QED
  BY <1>1, <1>2, <1>3, <1>4, <1>5, <1>6, <1>7, <1>8, Zenon DEF TradingStep

\* Nothing the invariant speaks of has changed but the price.
LEMMA FedInv ==
  ASSUME Inv, fed' \in DOMAIN Feed, mem' = mem, book' = book, cached' = cached,
         nextID' = nextID, quotes' = quotes, quoted' = quoted, calls' = calls,
         matched' = matched
  PROVE  Inv'
<1>1. TypeInv /\ StandingInv /\ FreshInv /\ CancelInv /\ FrozenInv /\ PositionsFollowTrades
  BY DEF Inv
<1>2. CallsOK' /\ CachedOK' /\ RestOK'
  BY <1>1 DEF TypeInv, CallsOK, CachedOK, RestOK
<1>3. BookGood(book)' /\ MemOK(mem)'
  BY <1>1 DEF TypeInv, BookGood, MemOK, Memory
<1>4. StandingInv' /\ FreshInv' /\ CancelInv'
  BY <1>1 DEF StandingInv, FreshInv, CancelInv
<1>5. FrozenInv'
  BY <1>1 DEF FrozenInv
<1>6. PositionsFollowTrades'
  BY <1>1 DEF PositionsFollowTrades, InFlight
<1> QED
  BY <1>2, <1>3, <1>4, <1>5, <1>6 DEF Inv, TypeInv

LEMMA PriceUpdated == ASSUME Inv, PriceUpdate PROVE Inv'
<1>1. fed \in DOMAIN Feed
  BY DEF Inv, TypeInv, RestOK
<1>2. fed' \in DOMAIN Feed
  BY <1>1, FeedAssumption DEF PriceUpdate
<1> QED
  BY <1>2, FedInv DEF PriceUpdate

\* The state of the matching engine is always as its steps rely on, whatever
\* the handlers, the market maker and the feed do at the same time.
THEOREM TradingInvariance == Spec => []Inv
<1>1. Init => Inv
  BY InitInv
<1>2. Inv /\ [Next]_vars => Inv'
  <2>1. ASSUME Inv, UNCHANGED vars PROVE Inv'
    <3>1. fed \in DOMAIN Feed
      BY <2>1 DEF Inv, TypeInv, RestOK
    <3> QED
      BY <2>1, <3>1, FedInv DEF vars
  <2> QED
    BY <2>1, TradingStepped, PriceUpdated DEF Next
<1> QED
  BY <1>1, <1>2, PTL DEF Spec

-----------------------------------------------------------------------------
(* What the invariant says.                                                *)

LEMMA InvTypeOK == Inv => TypeOK
<1> SUFFICES ASSUME Inv PROVE TypeOK
  OBVIOUS
<1>1. MemOK(mem) /\ CallsOK /\ BookGood(book) /\ CachedOK /\ RestOK
  BY DEF Inv, TypeInv
<1>2. \A u \in Traders : mem.bal[u] \in Int /\ mem.frozen[u] \in Nat
  BY <1>1, MemFields
<1>3. \A i \in DOMAIN mem.pos : mem.pos[i] \in Position /\ i <= mem.lastPos
  <2>1. \A i \in DOMAIN mem.pos : mem.pos[i] \in Position
    BY <1>1, MemPos
  <2>2. DOMAIN mem.pos \subseteq 1 .. mem.lastPos /\ mem.lastPos \in Nat
    BY <1>1 DEF MemOK, Memory
  <2> QED
    BY <2>1, <2>2
<1>4. \A s \in Sides : \A n \in DOMAIN book[s] :
        book[s][n] \in Resting /\ book[s][n].side = s /\ book[s][n].qty > 0
  <2> SUFFICES ASSUME NEW s \in Sides, NEW n \in DOMAIN book[s]
               PROVE  book[s][n] \in Resting /\ book[s][n].side = s /\ book[s][n].qty > 0
    OBVIOUS
  <2>1. book[s] \in Seq(Resting) /\ book[s][n].side = s /\ book[s][n].qty > 0
    BY <1>1 DEF BookGood, SideOK
  <2> QED
    BY <2>1, ElementIn
<1>5. /\ nextID \in Nat /\ DOMAIN cached \cup quotes \subseteq 1 .. nextID
      /\ fed \in DOMAIN Feed /\ quoted \in Range(Feed) \cup {0}
      /\ matched \in [Traders -> Int]
  BY <1>1 DEF CachedOK, RestOK
<1>6. \A t \in AllThreads : calls[t].pc \in Pcs
  BY <1>1 DEF CallsOK, CallOK, Call
<1> QED
  BY <1>2, <1>3, <1>4, <1>5, <1>6 DEF TypeOK

LEMMA InvTracked == Inv => QuotesTracked /\ RestingCancellable
<1> SUFFICES ASSUME Inv, NEW s \in Sides, NEW n \in DOMAIN book[s]
             PROVE  /\ book[s][n].user = MM => book[s][n].id \in quotes
                    /\ book[s][n].user \in Users =>
                         \/ book[s][n].id \in DOMAIN cached
                         \/ \E t \in Threads : /\ calls[t].pc = "resting"
                                               /\ calls[t].id = book[s][n].id
  BY DEF QuotesTracked, RestingCancellable
<1> DEFINE o == <<book[s][n].id, book[s][n].user>>
<1>1. o \in Standing(book) /\ o[1] = book[s][n].id /\ o[2] = book[s][n].user
  BY StandingMember
<1> HIDE DEF o
<1> QED
  BY <1>1 DEF Inv, StandingInv

LEMMA InvReclaimable == Inv => FrozenReclaimable
<1> SUFFICES ASSUME Inv, NEW u \in Users
             PROVE  LET placing == {t \in Threads :
                          /\ calls[t].user = u
                          /\ calls[t].pc \in {"limit", "filled", "resting"}}
                        orders  == {i \in DOMAIN cached : cached[i].user = u}
                    IN  mem.frozen[u]
                          <= SumFunctionOnSet([i \in DOMAIN cached |-> cached[i].cost], orders)
                               + SumFunctionOnSet([t \in Threads |-> calls[t].cost], placing)
  BY DEF FrozenReclaimable
<1> DEFINE placing == {t \in Threads : /\ calls[t].user = u
                                       /\ calls[t].pc \in {"limit", "filled", "resting"}}
           orders  == {i \in DOMAIN cached : cached[i].user = u}
           owing   == Owing(cached, calls, u)
           f       == [i \in DOMAIN cached |-> cached[i].cost]
           g       == [t \in Threads |-> calls[t].cost]
           a       == [x \in owing |-> cached[x].cost]
           b       == [x \in placing |-> calls[x].cost]
<1>1. Costs(cached, calls) /\ mem.frozen[u] <= Owed(cached, calls, u) /\ mem.frozen[u] \in Nat
  BY CostsAre, FrozenNat DEF Inv, TypeInv, FrozenInv, RestOK
<1>2. placing = PlacingBy(calls, u) /\ placing \subseteq Threads
  BY DEF PlacingBy
<1>3. owing \subseteq orders /\ orders \subseteq DOMAIN cached
  BY DEF Owing
<1>4. /\ IsFiniteSet(owing) /\ IsFiniteSet(placing) /\ IsFiniteSet(orders)
      /\ \A i \in DOMAIN cached : cached[i].cost \in Nat
      /\ CostOf(cached, owing) \in Nat /\ CostOf(calls, placing) \in Nat
  BY <1>1, <1>2, <1>3, OwedFacts, FS_Subset DEF Costs
<1>5. CostOf(cached, owing) = SumFunctionOnSet(a, owing)
  BY DEF CostOf
<1>6. CostOf(calls, placing) = SumFunctionOnSet(b, placing)
  BY DEF CostOf
<1>7. \A x \in owing : a[x] = f[x]
  BY <1>3
<1>8. \A x \in placing : b[x] = g[x]
  OBVIOUS
<1>9. \A x \in orders : f[x] \in Nat
  BY <1>3, <1>4
<1>10. Owed(cached, calls, u) = CostOf(cached, owing) + CostOf(calls, placing)
  BY <1>2 DEF Owed
<1> HIDE DEF placing, orders, owing, f, g, a, b
<1>11. SumFunctionOnSet(a, owing) = SumFunctionOnSet(f, owing)
  BY <1>4, <1>7, SumSame
<1>12. SumFunctionOnSet(b, placing) = SumFunctionOnSet(g, placing)
  BY <1>4, <1>8, SumSame
<1>13. SumFunctionOnSet(f, owing) <= SumFunctionOnSet(f, orders)
  BY <1>3, <1>4, <1>9, SumPart
<1>14. SumFunctionOnSet(f, orders) \in Nat
  BY <1>4, <1>9, SumNat
<1>15. mem.frozen[u] <= SumFunctionOnSet(f, orders) + SumFunctionOnSet(g, placing)
  BY <1>1, <1>4, <1>5, <1>6, <1>10, <1>11, <1>12, <1>13, <1>14
<1> QED
  BY <1>15 DEF f, g, placing, orders

\* What the handlers and the caches hand to each other has its type: a position
\* never has a negative quantity, an order in the book has something left.
THEOREM TradingTypes == Spec => []TypeOK
BY TradingInvariance, InvTypeOK, PTL

\* Nobody gains or loses position except by trades of the book, whatever
\* UpdatePosition merges, closes or reverses and in which order threads run it.
THEOREM TradesMakePositions == Spec => []PositionsFollowTrades
<1>1. Inv => PositionsFollowTrades
  BY DEF Inv
<1> QED
  BY <1>1, TradingInvariance, PTL

\* The market maker never forgets a quote of its own that is still in the book.
THEOREM QuotesKnown == Spec => []QuotesTracked
BY TradingInvariance, InvTracked, PTL

\* A user's resting order can be cancelled: PlaceLimitOrder caches it before it
\* returns and CancelOrder takes it out of the book before the cache.
THEOREM OrdersCancellable == Spec => []RestingCancellable
BY TradingInvariance, InvTracked, PTL

\* No money stays frozen that no cached order and no running call gives back.
THEOREM FreezesReclaimable == Spec => []FrozenReclaimable
BY TradingInvariance, InvReclaimable, PTL

-----------------------------------------------------------------------------
(* The money, apart from rounding.                                         *)

\* What is merged into a position comes out at an even entry price.  Decimals
\* divide to 16 places, so the code is this close to it.
EvenMergeApplied ==
  \A t \in AllThreads :
    ApplyLeg(t) => LET l == Head(calls[t].legs)
                   IN  EvenMerges(mem, l.user, l.side, l.qty, l.price)

\* All divisions UpdatePosition does come out even.
EvenDivisionsApplied ==
  \A t \in AllThreads :
    ApplyLeg(t) => LET l == Head(calls[t].legs)
                   IN  EvenDivisions(mem, l.user, l.side, l.qty, l.price,
                                     LeverageOf(calls[t], l))

\* The next side of a trade is one UpdatePosition takes.
LEMMA LegTerms ==
  ASSUME TypeInv, NEW t \in AllThreads, ApplyLeg(t), NEW l, l = Head(calls[t].legs)
  PROVE  /\ Terms(l.user, l.side, l.qty, l.price, LeverageOf(calls[t], l))
         /\ mem' \in UpdatePosition(mem, l.user, l.side, l.qty, l.price,
                                    LeverageOf(calls[t], l), l.user # calls[t].user)
<1> DEFINE k == calls[t]
           lev == LeverageOf(k, l)
<1>1. CallsOK /\ CachedOK
  BY DEF TypeInv
<1>2. mem' \in UpdatePosition(mem, l.user, l.side, l.qty, l.price, lev, l.user # k.user)
  BY Zenon DEF ApplyLeg
<1>3. k.pc = "legs"
  BY Zenon DEF ApplyLeg
<1>4. k \in Call /\ k.legs \in Seq(Leg) /\ k.legs # <<>> /\ k.lev \in Nat \ {0}
  BY <1>1, <1>3, CallFields DEF CallOK
<1>5. l \in Leg
  BY <1>4, LegSumHead
<1>6. lev \in Nat \ {0}
  BY <1>1, <1>4 DEF LeverageOf, CachedOK
<1> HIDE DEF k, lev
<1>7. Terms(l.user, l.side, l.qty, l.price, lev)
  BY <1>5, <1>6 DEF Terms, Leg
<1> QED
  BY <1>2, <1>7 DEF k, lev

\* Only ApplyLeg moves money or what makes up a position.
LEMMA OthersUndisturbed ==
  ASSUME MemOK(mem)
  PROVE  /\ \A t \in Threads, u \in Users, s \in Sides, q \in Quantities, lev \in Leverages :
              /\ PlaceMarketOrder(t, u, s, q, lev) => Undisturbed(mem, mem')
              /\ \A p \in LimitPrices :
                   PlaceLimitOrder(t, u, s, q, p, lev) => Undisturbed(mem, mem')
         /\ \A t \in Threads, id \in DOMAIN cached : CancelOrder(t, id) => Undisturbed(mem, mem')
         /\ \A t \in Threads, i \in DOMAIN mem.pos, q \in Quantities :
              ClosePosition(t, i, q) \/ RefuseClose(t, i, q) => Undisturbed(mem, mem')
         /\ \A t \in AllThreads :
              /\ MatchMarket(t) => Undisturbed(mem, mem')
              /\ MatchLimit(t) => Undisturbed(mem, mem')
              /\ UnfreezeFilled(t) => Undisturbed(mem, mem')
              /\ Register(t) => Undisturbed(mem, mem')
              /\ CancelInBook(t) => Undisturbed(mem, mem')
              /\ UnfreezeCancelled(t) => Undisturbed(mem, mem')
              /\ Uncache(t) => Undisturbed(mem, mem')
              /\ MatchClose(t) => Undisturbed(mem, mem')
              /\ Reopen(t) => Undisturbed(mem, mem')
         /\ Tick \/ CancelQuote \/ PlaceQuote \/ PriceUpdate => Undisturbed(mem, mem')
<1>1. mem' = mem => Undisturbed(mem, mem')
  BY AccountsUndisturbed
<1>2. \A u, a : Undisturbed(mem, Freeze(mem, u, a)) /\ Undisturbed(mem, Unfreeze(mem, u, a))
  BY FreezeUndisturbed
<1>3. \A i : /\ Undisturbed(mem, SetState(mem, i, Closing))
             /\ Undisturbed(mem, SetState(mem, i, Active))
  BY StateUndisturbed
<1>4. \A f : Undisturbed(mem, [mem EXCEPT !.lost = f])
  BY LossUndisturbed
<1>5. \A t, u, s, q, lev : PlaceMarketOrder(t, u, s, q, lev) => mem' = mem
  BY Zenon DEF PlaceMarketOrder
<1>6. ASSUME NEW t, NEW u, NEW s, NEW q, NEW p, NEW lev, PlaceLimitOrder(t, u, s, q, p, lev)
      PROVE  mem' = Freeze(mem, u, LimitCost(q, p, lev))
  BY <1>6 DEF PlaceLimitOrder
<1>7. \A t, id : CancelOrder(t, id) => mem' = mem
  BY Zenon DEF CancelOrder
<1>8. \A t, i, q : ClosePosition(t, i, q) \/ RefuseClose(t, i, q) =>
                      mem' = SetState(mem, i, Closing)
  BY Zenon DEF ClosePosition, RefuseClose
<1>9. \A t : MatchMarket(t) \/ Register(t) \/ CancelInBook(t) \/ Uncache(t) \/ MatchClose(t)
               => mem' = mem
  BY Zenon DEF MatchMarket, Register, CancelInBook, Uncache, MatchClose
<1>10. \A t : UnfreezeFilled(t) \/ UnfreezeCancelled(t) =>
                mem' = Unfreeze(mem, calls[t].user, calls[t].cost)
  BY Zenon DEF UnfreezeFilled, UnfreezeCancelled
<1>11. \A t : Reopen(t) => mem' = SetState(mem, calls[t].pos, Active)
  BY Zenon DEF Reopen
<1>12. \A t : MatchLimit(t) => mem' = mem \/ \E f : mem' = [mem EXCEPT !.lost = f]
  BY Zenon DEF MatchLimit
<1>13. Tick \/ CancelQuote \/ PlaceQuote \/ PriceUpdate => mem' = mem
  <2>1. Tick \/ CancelQuote \/ PriceUpdate => mem' = mem
    BY Zenon DEF Tick, CancelQuote, PriceUpdate
  <2>2. PlaceQuote => mem' = mem
    BY ZenonT(40) DEF PlaceQuote
  <2> QED
    BY <2>1, <2>2, Zenon
<1>14. \A t, u, s, q, p, lev : PlaceLimitOrder(t, u, s, q, p, lev) => Undisturbed(mem, mem')
  BY <1>2, <1>6, Zenon
<1>15. \A t, i, q : ClosePosition(t, i, q) \/ RefuseClose(t, i, q) => Undisturbed(mem, mem')
  BY <1>3, <1>8, Zenon
<1>16. \A t : UnfreezeFilled(t) \/ UnfreezeCancelled(t) => Undisturbed(mem, mem')
  BY <1>2, <1>10, Zenon
<1>17. \A t : Reopen(t) => Undisturbed(mem, mem')
  BY <1>3, <1>11, Zenon
<1>18. \A t : MatchLimit(t) => Undisturbed(mem, mem')
  BY <1>1, <1>4, <1>12, Zenon
<1> QED
  BY <1>1, <1>5, <1>7, <1>9, <1>13, <1>14, <1>15, <1>16, <1>17, <1>18, Zenon

LEMMA BooksLeg ==
  ASSUME TypeInv, NEW t \in AllThreads, ApplyLeg(t)
  PROVE  /\ Books(mem) /\ EvenMergeApplied => Books(mem)'
         /\ Proportioned(mem) /\ EvenDivisionsApplied => Proportioned(mem)'
<1> DEFINE l == Head(calls[t].legs)
           lev == LeverageOf(calls[t], l)
<1>1. /\ Terms(l.user, l.side, l.qty, l.price, lev)
      /\ mem' \in UpdatePosition(mem, l.user, l.side, l.qty, l.price, lev,
                                 l.user # calls[t].user)
  BY LegTerms
<1>2. EvenMergeApplied => EvenMerges(mem, l.user, l.side, l.qty, l.price)
  BY DEF EvenMergeApplied
<1>3. EvenDivisionsApplied => EvenDivisions(mem, l.user, l.side, l.qty, l.price, lev)
  BY DEF EvenDivisionsApplied
<1> HIDE DEF l, lev
<1>4. MemOK(mem)
  BY DEF TypeInv
<1>5. /\ Books(mem) /\ EvenMerges(mem, l.user, l.side, l.qty, l.price) => Books(mem')
      /\ Proportioned(mem) /\ EvenDivisions(mem, l.user, l.side, l.qty, l.price, lev)
           => Proportioned(mem')
  BY <1>1, <1>4, BooksTraded
<1> QED
  BY <1>2, <1>3, <1>5

LEMMA BooksTradingStep ==
  ASSUME TypeInv, TradingStep
  PROVE  /\ Books(mem) /\ EvenMergeApplied => Books(mem)'
         /\ Proportioned(mem) /\ EvenDivisionsApplied => Proportioned(mem)'
<1>1. MemOK(mem)
  BY DEF TypeInv
<1>2. Undisturbed(mem, mem') \/ \E t \in AllThreads : ApplyLeg(t)
  BY <1>1, OthersUndisturbed, MemberThreads, Zenon DEF TradingStep
<1>3. CASE Undisturbed(mem, mem')
  BY <1>3, BooksUndisturbed
<1>4. CASE \E t \in AllThreads : ApplyLeg(t)
  BY <1>4, BooksLeg
<1> QED
  BY <1>2, <1>3, <1>4

LEMMA BooksNext ==
  ASSUME TypeInv, [Next]_vars
  PROVE  /\ Books(mem) /\ [EvenMergeApplied]_vars => Books(mem)'
         /\ Proportioned(mem) /\ [EvenDivisionsApplied]_vars => Proportioned(mem)'
<1>1. CASE vars' = vars
  BY <1>1 DEF vars
<1>2. CASE vars' # vars /\ TradingStep
  BY <1>2, BooksTradingStep
<1>3. CASE PriceUpdate
  <2>1. mem' = mem
    BY <1>3 DEF PriceUpdate
  <2> QED
    BY <2>1
<1> QED
  BY <1>1, <1>2, <1>3 DEF Next

LEMMA BooksConserve ==
  ASSUME TypeInv, Books(mem)
  PROVE  MoneyConserved
BY BooksWealth DEF MoneyConserved, TypeInv, Stake

\* README_EN.md:30, money only changes hands: whatever opens, merges, partial
\* closes and reversals UpdatePosition runs, in whatever order threads run it,
\* balance, margins, fees and what was paid for open positions add up.  The
\* weighted entry price of a merge is a division, and what it rounds away is
\* all that is ever lost.
THEOREM MoneyOnlyChangesHands ==
  Spec /\ [][EvenMergeApplied]_vars => []MoneyConserved
<1>1. Init => Books(mem)
  BY InitBooks DEF Init
<1>2. /\ Inv /\ Books(mem) /\ [Next]_vars /\ [EvenMergeApplied]_vars => Books(mem)'
      /\ Inv /\ Books(mem) => MoneyConserved
  BY BooksNext, BooksConserve DEF Inv
<1> QED
  BY <1>1, <1>2, TradingInvariance, PTL DEF Spec

\* The liquidation and bankruptcy prices are functions of entry price and
\* leverage alone; they are right for the margin a position really has, after
\* any merges and partial closes, as far as these divide evenly.
THEOREM MarginsStayInProportion ==
  Spec /\ [][EvenDivisionsApplied]_vars => []MarginInProportion
<1>1. Init => Proportioned(mem)
  BY InitBooks DEF Init
<1>2. /\ Inv /\ Proportioned(mem) /\ [Next]_vars /\ [EvenDivisionsApplied]_vars
           => Proportioned(mem)'
      /\ Proportioned(mem) => MarginInProportion
  BY BooksNext DEF Inv, MarginInProportion, Proportioned, InProportion
<1> QED
  BY <1>1, <1>2, TradingInvariance, PTL DEF Spec

-----------------------------------------------------------------------------
(* The risk engine: the inductive invariant.                               *)

Cut == [user : Traders, qty : Nat \ {0}]

\* The local variables of OnPriceUpdate.
Watching ==
  [pc : {"idle", "tick", "scan", "cover", "rank", "adl", "dispose", "ioc", "settle"},
   side : Sides, bankr : Nat, deficit : Nat, cuts : Seq(Cut), at : Nat, id : Nat,
   trades : Seq(Resting)]

SnapOK(s) == DOMAIN s \subseteq Nat /\ \A i \in DOMAIN s : s[i] \in Position

WatchOK ==
  /\ watch \in Watching
  /\ watch.pc \in {"cover", "rank"} => price # watch.bankr
  /\ watch.pc = "adl" => watch.cuts # <<>>
  /\ watch.pc \in {"ioc", "settle"} => watch.at \in DOMAIN snap

\* The trades of an order that is to be cancelled wait for the cancellation;
\* nothing else is left undone when the feed's thread has no call running.
FeederInv ==
  /\ watch.pc = "ioc" => calls[Feeder].pc = "idle"
  /\ calls[Feeder].pc = "idle" /\ watch.pc # "ioc" => calls[Feeder].legs = <<>>

\* The only order of the liquidation engine that rests is the one OnTick is
\* about to cancel.
NowOrNever ==
  \A o \in Standing(book) : o[2] = LIQ => watch.pc = "ioc" /\ o[1] = watch.id

\* What the book has matched comes to nothing over all traders, but for what
\* auto-deleveraging has traded with nobody.
OneSided == adlNet \in Int /\ MatchedSum(matched) = adlNet

LInv == Inv /\ WatchOK /\ SnapOK(snap) /\ FeederInv /\ NowOrNever /\ OneSided /\ fund \in Nat

-----------------------------------------------------------------------------
(* The loops of OnPriceUpdate and OnTick.                                  *)

\* What is pointed to stays a position.
LEMMA SeenFacts ==
  ASSUME NEW s, SnapOK(s), MemOK(mem'), Pointers(s)
  PROVE  SnapOK(snap') /\ DOMAIN snap' = DOMAIN s
<1>1. \A i \in DOMAIN mem'.pos : mem'.pos[i] \in Position
  <2>1. \A m : MemOK(m) => \A i \in DOMAIN m.pos : m.pos[i] \in Position
    BY MemPos
  <2> QED
    BY <2>1
<1>2. snap' = [i \in DOMAIN s |-> IF i \in DOMAIN mem'.pos THEN mem'.pos[i] ELSE s[i]]
  BY DEF Pointers, Seen
<1> QED
  BY <1>1, <1>2 DEF SnapOK

LEMMA UnvisitedFacts ==
  ASSUME SnapOK(snap), NEW i
  PROVE  SnapOK(Unvisited(i)) /\ DOMAIN Unvisited(i) = DOMAIN snap \ {i}
BY DEF SnapOK, Unvisited, Restrict

LEMMA PartFacts ==
  ASSUME NEW m, MemOK(m), NEW S, S \subseteq DOMAIN m.pos
  PROVE  SnapOK(Restrict(m.pos, S))
<1>1. \A i \in DOMAIN m.pos : m.pos[i] \in Position
  BY MemPos
<1>2. DOMAIN m.pos \subseteq Nat
  <2>1. m.lastPos \in Nat /\ DOMAIN m.pos \subseteq 1 .. m.lastPos
    BY MemPos
  <2> QED
    BY <2>1
<1> QED
  BY <1>1, <1>2 DEF SnapOK, Restrict

LEMMA AsleepFacts ==
  /\ Asleep \in Watching
  /\ \A pc \in {"idle", "tick", "scan", "cover", "rank", "adl", "dispose", "ioc", "settle"} :
       \A w \in Watching : [w EXCEPT !.pc = pc] \in Watching /\ [w EXCEPT !.pc = pc].pc = pc
<1>1. Asleep \in Watching
  BY DEF Asleep, Watching, Sides, Long, Short
<1> QED
  BY <1>1 DEF Watching

\* OnPriceUpdate goes on with no local variable it needs.
LEMMA Rests ==
  ASSUME NEW pc \in {"idle", "tick", "scan", "dispose"}, Watch(Asleep, pc)
  PROVE  WatchOK' /\ watch'.pc = pc
<1>1. watch' \in Watching /\ watch'.pc = pc
  BY AsleepFacts DEF Watch
<1> QED
  BY <1>1 DEF WatchOK

\* OnPriceUpdate changes nothing but its own state and the fund.
LEMMA OwnStep ==
  ASSUME LInv, UNCHANGED <<mem, book, cached, nextID, quotes, quoted, calls, matched, adlNet>>,
         fed' \in DOMAIN Feed, watch.pc # "ioc", watch'.pc # "ioc", WatchOK', SnapOK(snap'),
         fund' \in Nat
  PROVE  LInv'
<1>1. Inv'
  BY FedInv DEF LInv
<1>2. FeederInv' /\ NowOrNever' /\ OneSided'
  BY DEF LInv, FeederInv, NowOrNever, OneSided
<1>3. SnapOK(snap)'
  BY DEF SnapOK
<1> QED
  BY <1>1, <1>2, <1>3 DEF LInv

LEMMA LFacts ==
  ASSUME LInv
  PROVE  /\ TypeInv /\ CallsOK /\ CachedOK /\ nextID \in Nat /\ BookGood(book) /\ MemOK(mem)
         /\ fed \in DOMAIN Feed /\ OrdersInv /\ watch \in Watching /\ SnapOK(snap)
         /\ fund \in Nat /\ Feeder \in AllThreads /\ Feeder \notin Threads
BY InvParts, MemberThreads, ThreadsAssumption DEF LInv, TypeInv, RestOK, WatchOK

LEMMA QuietStepped ==
  ASSUME LInv, NewPrice \/ Scan \/ NothingDue \/ StartDisposal \/ \E i : PassOver(i)
  PROVE  LInv'
<1>1. MemOK(mem) /\ SnapOK(snap) /\ fund \in Nat /\ fed \in DOMAIN Feed
  BY LFacts
<1>2. CASE NewPrice
  <2>1. fed' \in DOMAIN Feed
    BY <1>1, <1>2, FeedAssumption DEF NewPrice
  <2>2. Watch(Asleep, "tick") /\ watch.pc = "idle" /\ snap' = snap /\ fund' = fund
    BY <1>2 DEF NewPrice, At
  <2>3. WatchOK' /\ watch'.pc = "tick"
    BY <2>2, Rests
  <2> QED
    BY <1>1, <1>2, <2>1, <2>2, <2>3, OwnStep DEF NewPrice
<1>3. CASE Scan
  <2>1. /\ Watch(Asleep, "scan") /\ watch.pc = "tick" /\ fund' = fund /\ fed' = fed
        /\ snap' = Restrict(mem.pos, {i \in DOMAIN mem.pos : mem.pos[i].state = Active})
    BY <1>3 DEF Scan, At, vars
  <2>2. WatchOK' /\ watch'.pc = "scan"
    BY <2>1, Rests
  <2>3. SnapOK(snap')
    BY <1>1, <2>1, PartFacts
  <2> QED
    BY <1>1, <1>3, <2>1, <2>2, <2>3, OwnStep DEF Scan, vars
<1>4. CASE NothingDue
  <2>1. watch' = Asleep /\ watch.pc = "scan" /\ fund' = fund /\ fed' = fed /\ snap' = snap
    BY <1>4 DEF NothingDue, At, vars
  <2>2. WatchOK' /\ watch'.pc = "idle"
    BY <2>1, AsleepFacts DEF WatchOK, Asleep
  <2> QED
    BY <1>1, <1>4, <2>1, <2>2, OwnStep DEF NothingDue, vars
<1>5. CASE StartDisposal
  <2>1. /\ Watch(Asleep, "dispose") /\ watch.pc = "scan" /\ fund' = fund /\ fed' = fed
        /\ snap' = Restrict(mem.pos, HeldBy(mem, LIQ))
    BY <1>5 DEF StartDisposal, At, vars
  <2>2. WatchOK' /\ watch'.pc = "dispose"
    BY <2>1, Rests
  <2>3. SnapOK(snap')
    BY <1>1, <2>1, PartFacts DEF HeldBy
  <2> QED
    BY <1>1, <1>5, <2>1, <2>2, <2>3, OwnStep DEF StartDisposal, vars
<1>6. ASSUME NEW i, PassOver(i) PROVE LInv'
  <2>1. /\ watch' = watch /\ watch.pc = "scan" /\ fund' = fund /\ fed' = fed
        /\ snap' = Unvisited(i)
    BY <1>6 DEF PassOver, At, vars
  <2>2. WatchOK' /\ watch'.pc = "scan"
    BY <2>1 DEF WatchOK, LInv
  <2>3. SnapOK(snap')
    BY <1>1, <2>1, UnvisitedFacts
  <2> QED
    BY <1>1, <1>6, <2>1, <2>2, <2>3, OwnStep DEF PassOver, vars
<1> QED
  BY <1>2, <1>3, <1>4, <1>5, <1>6

\* Handlers, market maker and calls of OnPriceUpdate leave the price alone.
LEMMA StepKeepsPrice ==
  ASSUME TradingStep \/ MatchClose(Feeder) \/ Reopen(Feeder)
  PROVE  fed' = fed
<1>1. \A t, u, s, q, lev : PlaceMarketOrder(t, u, s, q, lev) => fed' = fed
  BY DEF PlaceMarketOrder
<1>2. \A t, u, s, q, p, lev : PlaceLimitOrder(t, u, s, q, p, lev) => fed' = fed
  BY DEF PlaceLimitOrder
<1>3. \A t, id : CancelOrder(t, id) => fed' = fed
  BY DEF CancelOrder
<1>4. \A t, i, q : ClosePosition(t, i, q) \/ RefuseClose(t, i, q) => fed' = fed
  BY DEF ClosePosition, RefuseClose
<1>5. \A t : \/ MatchMarket(t) \/ MatchLimit(t) \/ UnfreezeFilled(t) \/ Register(t)
             \/ CancelInBook(t) \/ UnfreezeCancelled(t) \/ Uncache(t)
           => fed' = fed
  BY DEF MatchMarket, MatchLimit, UnfreezeFilled, Register, CancelInBook, UnfreezeCancelled,
     Uncache
<1>6. \A t : MatchClose(t) \/ Reopen(t) \/ ApplyLeg(t) => fed' = fed
  BY DEF MatchClose, Reopen, ApplyLeg
<1>7. Tick \/ CancelQuote \/ PlaceQuote => fed' = fed
  BY DEF Tick, CancelQuote, PlaceQuote
<1> QED
  BY <1>1, <1>2, <1>3, <1>4, <1>5, <1>6, <1>7, Zenon DEF TradingStep

LEMMA EngineStepped == ASSUME LInv, EngineStep PROVE LInv'
<1>1. /\ Inv /\ WatchOK /\ SnapOK(snap) /\ FeederInv /\ NowOrNever /\ OneSided /\ fund \in Nat
  BY DEF LInv
<1>2. /\ TradingStep \/ MatchClose(Feeder) \/ Reopen(Feeder)
      /\ Pointers(snap) /\ fund' = fund /\ watch' = watch /\ adlNet' = adlNet
  BY DEF EngineStep
<1>3. Inv' /\ Calm
  BY <1>1, <1>2, MemberThreads, TradingStepped, CloseMatched, CloseReopened
<1>4. fed' = fed
  BY <1>2, StepKeepsPrice
<1>5. MemOK(mem')
  <2>1. MemOK(mem)'
    BY <1>3 DEF Inv, TypeInv
  <2> QED
    BY <2>1 DEF MemOK, Memory
<1>6. SnapOK(snap') /\ DOMAIN snap' = DOMAIN snap
  BY <1>1, <1>2, <1>5, SeenFacts
<1>7. WatchOK'
  BY <1>1, <1>2, <1>4, <1>6 DEF WatchOK, price
<1>8. FeederInv'
  BY <1>1, <1>2, <1>3 DEF FeederInv, Calm
<1>9. NowOrNever'
  BY <1>1, <1>2, <1>3 DEF NowOrNever, Calm
<1>10. OneSided'
  BY <1>1, <1>2, <1>3 DEF OneSided, Calm
<1>11. SnapOK(snap)'
  BY <1>6 DEF SnapOK
<1> QED
  BY <1>1, <1>2, <1>3, <1>7, <1>8, <1>9, <1>10, <1>11 DEF LInv

\* ClosePositionInternal takes a position to close from the monitor.
LEMMA ForceTaken ==
  ASSUME LInv, NEW i, ForceTakeProfit(i)
  PROVE  LInv'
<1> DEFINE p == mem.pos[i]
           c == [[Idle EXCEPT !.user = p.user, !.side = -p.side, !.lev = p.lev, !.qty = p.qty,
                              !.id = nextID + 1, !.pos = i] EXCEPT !.pc = "close"]
<1>1. /\ TypeInv /\ CallsOK /\ nextID \in Nat /\ BookGood(book) /\ MemOK(mem) /\ SnapOK(snap)
      /\ fund \in Nat /\ Feeder \in AllThreads /\ Feeder \notin Threads /\ Inv /\ WatchOK
      /\ FeederInv /\ NowOrNever /\ OneSided /\ fed \in DOMAIN Feed
  BY LFacts DEF LInv
<1>2. /\ calls[Feeder].pc = "idle" /\ watch.pc = "scan" /\ nextID' = nextID + 1
      /\ calls' = [calls EXCEPT ![Feeder] = c] /\ mem' = SetState(mem, i, ForceTPing)
      /\ i \in DOMAIN mem.pos /\ book' = book /\ cached' = cached /\ fed' = fed
      /\ quotes' = quotes /\ quoted' = quoted /\ matched' = matched /\ fund' = fund
      /\ watch' = watch /\ adlNet' = adlNet /\ Pointers(Unvisited(i))
  BY Zenon DEF ForceTakeProfit, At, IsActive, DrawID, Goto
<1>3. /\ p.user \in Traders /\ -p.side \in Sides /\ p.lev \in Nat \ {0} /\ p.qty \in Nat \ {0}
      /\ i \in Nat
  <2>1. \A j \in DOMAIN mem.pos : mem.pos[j] \in Position
    BY <1>1, MemPos
  <2>2. DOMAIN mem.pos \subseteq 1 .. mem.lastPos /\ mem.lastPos \in Nat
    BY <1>1 DEF MemOK, Memory
  <2>3. mem.pos[i] \in Position /\ i \in Nat
    BY <1>2, <2>1, <2>2
  <2> QED
    BY <2>3, SideInt DEF Position
<1> HIDE DEF p
<1>4. c \in Call /\ c.pc = "close" /\ c.qty = p.qty /\ c.id = nextID + 1 /\ c.legs = <<>>
  <2>1. nextID + 1 \in Nat /\ Idle.legs = <<>>
    BY <1>1 DEF Idle
  <2> QED
    BY <1>3, <2>1, IdleCall DEF Call, Pcs
<1> HIDE DEF c
<1>5. Goes(Feeder, c)
  BY <1>1, <1>2, CallGoes
<1>6. Draws
  BY <1>1, <1>2 DEF Draws
<1>7. CallOK(Feeder, c, nextID')
  BY <1>1, <1>2, <1>3, <1>4 DEF CallOK
<1>8. calls[Feeder].legs = <<>>
  BY <1>1, <1>2 DEF FeederInv
<1>9. Balances(Feeder, calls[Feeder].legs) /\ mem'.frozen = mem.frozen
  BY <1>1, <1>2, BalancesState
<1>10. Balances(Feeder, c.legs)
  BY <1>4, <1>8, <1>9
<1>11. Otherwise
  BY <1>1, <1>2, <1>6, RestStays DEF TypeInv, RestOK
<1>12. Harmless(Feeder, c)
  BY <1>1 DEF Harmless
<1>13. Inv'
  BY <1>1, <1>2, <1>5, <1>6, <1>7, <1>9, <1>10, <1>11, <1>12, StepQuiet, StandingSame
<1>14. SnapOK(snap)'
  <2>1. SnapOK(Unvisited(i))
    BY <1>1, UnvisitedFacts
  <2>2. MemOK(mem')
    BY <1>9 DEF Balances
  <2>3. SnapOK(snap')
    BY <1>2, <2>1, <2>2, SeenFacts
  <2> QED
    BY <2>3 DEF SnapOK
<1>15. WatchOK'
  BY <1>1, <1>2 DEF WatchOK
<1>16. FeederInv'
  BY <1>1, <1>2, <1>4, <1>5 DEF FeederInv, Goes
<1>17. NowOrNever' /\ OneSided' /\ fund' \in Nat
  BY <1>1, <1>2 DEF NowOrNever, OneSided
<1> QED
  BY <1>13, <1>14, <1>15, <1>16, <1>17 DEF LInv

LEMMA BankruptcyNat ==
  ASSUME NEW p \in Position
  PROVE  CalcBankruptcyPrice(p.entry, p.lev, p.side) \in Nat
<1>1. p.entry \in Nat /\ p.lev \in Nat \ {0} /\ (p.side = 1 \/ p.side = -1)
  BY DEF Position, Sides, Long, Short
<1> DEFINE d == p.entry \div p.lev
<1>2. d \in 0 .. p.entry
  <2>1. (p.entry * 1) \div p.lev \in 0 .. p.entry
    <3>1. 1 \in Nat /\ 1 <= p.lev
      BY <1>1
    <3> QED
      BY <1>1, <3>1, Share
  <2>2. p.entry * 1 = p.entry
    BY <1>1
  <2> QED
    BY <2>1, <2>2
<1> HIDE DEF d
<1>3. p.entry - p.side * d \in Nat
  BY <1>1, <1>2
<1> QED
  BY <1>3 DEF CalcBankruptcyPrice, d

\* TakeOver and the deficit handleLiquidation goes on with.
LEMMA TakenOver ==
  ASSUME LInv, NEW i \in DOMAIN snap, Liquidate(i)
  PROVE  LInv'
<1> DEFINE p     == snap[i]
           bankr == CalcBankruptcyPrice(p.entry, p.lev, p.side)
           row   == [side |-> p.side, user |-> LIQ, qty |-> p.qty, price |-> bankr, id |-> 0]
           one   == <<row>>
           legs  == Legs(one, p.user, -p.side, nextID + 1)
           call  == [Idle EXCEPT !.user = p.user, !.side = -p.side, !.lev = p.lev,
                                 !.id = nextID + 1]
<1>1. /\ TypeInv /\ CallsOK /\ nextID \in Nat /\ BookGood(book) /\ MemOK(mem) /\ SnapOK(snap)
      /\ fund \in Nat /\ Feeder \in AllThreads /\ Feeder \notin Threads /\ Inv /\ WatchOK
      /\ FeederInv /\ NowOrNever /\ OneSided /\ fed \in DOMAIN Feed
  BY LFacts DEF LInv
<1>2. /\ calls[Feeder].pc = "idle" /\ watch.pc = "scan" /\ snap' = Unvisited(i)
      /\ mem' = mem /\ book' = book /\ cached' = cached /\ fed' = fed
      /\ quotes' = quotes /\ quoted' = quoted /\ fund' = fund /\ adlNet' = adlNet
      /\ p.state = Active => /\ nextID' = nextID + 1 /\ Process(Feeder, call, legs)
                             /\ matched' = [u \in Traders |-> matched[u] + LegSum(legs, u)]
      /\ p.state # Active => nextID' = nextID /\ calls' = calls /\ matched' = matched
      /\ isPastPrice(price, bankr, p.side) =>
           watch' = [[Asleep EXCEPT !.side = p.side, !.bankr = bankr,
                        !.deficit = Abs(bankr - price) * p.qty] EXCEPT !.pc = "cover"]
      /\ ~isPastPrice(price, bankr, p.side) => watch' = watch
  BY Zenon DEF Liquidate, At, DrawID, Watch, TakeOverTrades
<1>3. p \in Position
  BY <1>1 DEF SnapOK
<1>4. /\ p.user \in Traders /\ p.side \in Sides /\ -p.side \in Sides /\ -(-p.side) = p.side
      /\ p.lev \in Nat \ {0} /\ p.qty \in Nat \ {0} /\ bankr \in Nat
  BY <1>3, BankruptcyNat, SideInt DEF Position
<1>5. calls[Feeder].legs = <<>>
  BY <1>1, <1>2 DEF FeederInv
<1>6. SnapOK(snap)'
  <2>1. SnapOK(snap')
    BY <1>1, <1>2, UnvisitedFacts
  <2> QED
    BY <2>1 DEF SnapOK
<1> HIDE DEF p, bankr
<1>7. WatchOK' /\ watch'.pc \in {"scan", "cover"}
  <2>1. CASE isPastPrice(price, bankr, p.side)
    <3> DEFINE d == Abs(bankr - price) * p.qty
    <3>1. price \in Nat /\ price # bankr
      BY <1>1, <1>4, <2>1, PriceFacts DEF isPastPrice, Sides, Long, Short
    <3>2. d \in Nat
      <4>1. Abs(bankr - price) \in Nat
        BY <1>4, <3>1 DEF Abs
      <4> QED
        BY <1>4, <4>1, ProductNat
    <3> HIDE DEF d
    <3>3. /\ watch' \in Watching /\ watch'.pc = "cover" /\ watch'.bankr = bankr
      <4>1. watch' = [[Asleep EXCEPT !.side = p.side, !.bankr = bankr, !.deficit = d]
                        EXCEPT !.pc = "cover"]
        BY <1>2, <2>1 DEF d
      <4> QED
        BY <1>4, <3>2, <4>1, AsleepFacts, ZenonT(30) DEF Watching
    <3>4. price' = price
      BY <1>2 DEF price
    <3> QED
      BY <3>1, <3>3, <3>4 DEF WatchOK
  <2>2. CASE ~isPastPrice(price, bankr, p.side)
    BY <1>1, <1>2, <2>2 DEF WatchOK
  <2> QED
    BY <2>1, <2>2
<1>8. row \in Resting /\ row.side = p.side /\ row.qty > 0
  BY <1>4 DEF Resting, Traders
<1> HIDE DEF row
<1>9. SideOK(p.side, one) /\ one # <<>>
  BY <1>8 DEF SideOK
<1> HIDE DEF one
<1>10. legs \in Seq(Leg) /\ Balance(legs) = 0
  <2>1. nextID + 1 \in Nat
    BY <1>1
  <2> QED
    BY <1>4, <1>9, <2>1, LegsFacts
<1> HIDE DEF legs
<1>11. NowOrNever'
  BY <1>1, <1>2 DEF NowOrNever
<1>12. CASE p.state = Active
  <2>1. /\ matched' = [u \in Traders |-> matched'[u]]
        /\ \A u \in Traders : matched'[u] = matched[u] + LegSum(legs, u)
        /\ MatchedSum(matched') = MatchedSum(matched)
    BY <1>1, <1>2, <1>10, <1>12, MatchedFacts
  <2>2. Draws
    BY <1>1, <1>2, <1>12 DEF Draws
  <2>3. call \in Call /\ call.id = nextID + 1
    <3>1. nextID + 1 \in Nat
      BY <1>1
    <3> QED
      BY <1>4, <3>1, IdleCall DEF Call
  <2> HIDE DEF call
  <2>4. PICK c : /\ Goes(Feeder, c) /\ CallOK(Feeder, c, nextID') /\ c.legs = legs
                 /\ c.pc \in {"idle", "legs"} /\ (c.pc = "idle" => legs = <<>>)
    <3>1. nextID' \in Nat /\ call.id <= nextID'
      BY <1>1, <1>2, <1>12, <2>3
    <3>2. Process(Feeder, call, legs)
      BY <1>2, <1>12
    <3> QED
      BY <1>1, <1>10, <2>3, <3>1, <3>2, ProcessFacts
  <2>5. Balances(Feeder, legs)
    <3>1. \A v \in Traders : LegSum(legs, v) = LegSum(calls[Feeder].legs, v) + LegSum(legs, v)
      <4> SUFFICES ASSUME NEW v \in Traders
                   PROVE  LegSum(legs, v) = LegSum(calls[Feeder].legs, v) + LegSum(legs, v)
        OBVIOUS
      <4>1. LegSum(calls[Feeder].legs, v) = 0
        BY <1>5, NoLegs
      <4>2. LegSum(legs, v) \in Int
        BY <1>10, LegSumInt
      <4> QED
        BY <4>1, <4>2
    <3> QED
      BY <1>1, <1>2, <1>10, <2>1, <3>1, BalancesMatched
  <2>6. Otherwise
    BY <1>1, <1>2, <2>1, <2>2, RestStays
  <2>7. Harmless(Feeder, c)
    BY <1>1 DEF Harmless
  <2>8. Inv'
    BY <1>1, <1>2, <2>2, <2>4, <2>5, <2>6, <2>7, KeepsAll, StepQuiet, StandingSame
  <2>9. FeederInv'
    BY <1>7, <2>4 DEF FeederInv, Goes
  <2>10. OneSided'
    BY <1>1, <1>2, <2>1 DEF OneSided
  <2> QED
    BY <1>1, <1>2, <1>6, <1>7, <1>11, <2>8, <2>9, <2>10 DEF LInv
<1>13. CASE p.state # Active
  <2>1. nextID' = nextID /\ calls' = calls /\ matched' = matched
    BY <1>2, <1>13
  <2>2. Inv'
    BY <1>1, <1>2, <2>1, FedInv
  <2>3. FeederInv' /\ OneSided'
    BY <1>1, <1>2, <1>5, <1>7, <2>1 DEF FeederInv, OneSided
  <2> QED
    BY <1>1, <1>2, <1>6, <1>7, <1>11, <2>2, <2>3 DEF LInv
<1> QED
  BY <1>12, <1>13

\* Fund.Cover: the fund has nothing less than nothing.
LEMMA DeficitCovered ==
  ASSUME LInv, CoverDeficit
  PROVE  LInv'
<1>1. /\ watch \in Watching /\ SnapOK(snap) /\ fund \in Nat /\ fed \in DOMAIN Feed /\ WatchOK
  BY LFacts DEF LInv
<1>2. /\ watch.pc = "cover" /\ fund' = Cover(fund, watch.deficit) /\ snap' = snap
      /\ adlNet' = adlNet /\ fed' = fed
      /\ fund >= watch.deficit => Watch(Asleep, "scan")
      /\ ~(fund >= watch.deficit) => Watch([watch EXCEPT !.deficit = @ - fund], "rank")
  BY Zenon DEF CoverDeficit, At, vars
<1>3. watch.deficit \in Nat
  BY <1>1 DEF Watching
<1>4. fund' \in Nat
  BY <1>1, <1>2, <1>3 DEF Cover
<1>5. WatchOK' /\ watch'.pc # "ioc"
  <2>1. CASE fund >= watch.deficit
    BY <1>2, <2>1, Rests
  <2>2. CASE ~(fund >= watch.deficit)
    <3>1. watch.deficit - fund \in Nat
      BY <1>1, <1>3, <2>2
    <3>2. watch' = [[watch EXCEPT !.deficit = watch.deficit - fund] EXCEPT !.pc = "rank"]
      BY <1>2, <2>2, Zenon DEF Watch
    <3>3. watch' \in Watching /\ watch'.pc = "rank" /\ watch'.bankr = watch.bankr
      BY <1>1, <3>1, <3>2 DEF Watching
    <3>4. price # watch.bankr /\ price' = price
      BY <1>1, <1>2 DEF WatchOK, price
    <3> QED
      BY <3>3, <3>4 DEF WatchOK
  <2> QED
    BY <2>1, <2>2
<1> QED
  BY <1>1, <1>2, <1>4, <1>5, OwnStep DEF CoverDeficit, vars

-----------------------------------------------------------------------------
(* Auto-deleveraging.                                                      *)

\* What is taken from the positions ranked, of a deficit that one unit given up
\* at the bankruptcy price covers a part of.
LEMMA CutsFacts ==
  ASSUME MemOK(mem), watch \in Watching, price \in Nat, price # watch.bankr,
         NEW ranked \in Rankings, NEW cuts, cuts = ExecuteADL(ranked)
  PROVE  cuts \in Seq(Cut)
<1> DEFINE targets == {i \in DOMAIN mem.pos : /\ mem.pos[i].state = Active
                                              /\ mem.pos[i].side = -watch.side
                                              /\ Profit(i, price) > 0
                                              /\ Profit(i, watch.bankr) > 0}
           k    == Cardinality(targets)
           need == watch.deficit \div Abs(price - watch.bankr)
           rows == [n \in DOMAIN ranked |-> mem.pos[ranked[n]]]
           last == Cardinality(Reached(rows, need))
           cut(n) == [user |-> rows[n].user, qty |-> Fill(rows, need, n)]
<1>1. ranked \in SetToSeqs(targets)
  BY Zenon DEF Rankings
<1>2. ranked \in [1 .. k -> targets]
  BY <1>1 DEF SetToSeqs
<1>3. /\ \A i \in DOMAIN mem.pos : mem.pos[i] \in Position
      /\ IsFiniteSet(DOMAIN mem.pos) /\ targets \subseteq DOMAIN mem.pos
  BY MemPos
<1>4. k \in Nat
  BY <1>3, FS_Subset, FS_CardinalityType
<1>5. /\ rows = [n \in 1 .. k |-> rows[n]]
      /\ \A n \in 1 .. k : rows[n] \in Position
  <2> HIDE DEF k, targets
  <2> QED
    BY <1>2, <1>3
<1>6. cuts = [n \in 1 .. last |-> cut(n)]
  BY Zenon DEF ExecuteADL
<1> HIDE DEF k, targets, rows
<1>7. rows \in Seq(Position) /\ Len(rows) = k
  BY <1>4, <1>5
<1>8. Quantified(rows)
  BY <1>4, <1>5, <1>7 DEF Quantified, Position
<1>9. need \in Nat
  <2>1. Abs(price - watch.bankr) \in Nat \ {0} /\ watch.deficit \in Nat
    BY DEF Abs, Watching
  <2> QED
    BY <2>1, QuotientNat
<1> HIDE DEF need
<1>10. /\ last \in Nat /\ Reached(rows, need) = 1 .. last
       /\ Reached(rows, need) \subseteq 1 .. Len(rows)
  BY <1>8, <1>9, ReachedFacts
<1>11. ASSUME NEW n \in 1 .. last PROVE cut(n) \in Cut
  <2>1. rows[n] \in Position
    BY <1>5, <1>7, <1>10
  <2>2. Fill(rows, need, n) \in Nat \ {0}
    BY <1>8, <1>9, <1>10, FillFacts
  <2> QED
    BY <2>1, <2>2 DEF Position, Cut
<1> HIDE DEF last, cut
<1> QED
  BY <1>6, <1>10, <1>11

LEMMA Ranked == ASSUME LInv, Rank PROVE LInv'
<1>1. /\ watch \in Watching /\ SnapOK(snap) /\ fund \in Nat /\ fed \in DOMAIN Feed /\ WatchOK
      /\ TypeInv /\ MemOK(mem)
  BY LFacts DEF LInv
<1>2. watch.pc = "rank" /\ snap' = snap /\ fund' = fund /\ adlNet' = adlNet /\ fed' = fed
  BY DEF Rank, At, vars
<1>3. PICK ranked \in Rankings :
        /\ ExecuteADL(ranked) = <<>> => Watch(Asleep, "scan")
        /\ ExecuteADL(ranked) # <<>> => Watch([watch EXCEPT !.cuts = ExecuteADL(ranked)], "adl")
  BY Zenon DEF Rank
<1>4. WatchOK' /\ watch'.pc # "ioc"
  <2>1. CASE ExecuteADL(ranked) = <<>>
    BY <1>3, <2>1, Rests
  <2>2. CASE ExecuteADL(ranked) # <<>>
    <3> DEFINE cuts == ExecuteADL(ranked)
    <3>1. price \in Nat /\ price # watch.bankr
      BY <1>1, <1>2, PriceFacts DEF WatchOK
    <3>2. cuts \in Seq(Cut)
      BY <1>1, <3>1, CutsFacts
    <3>3. cuts # <<>> /\ watch' = [[watch EXCEPT !.cuts = cuts] EXCEPT !.pc = "adl"]
      BY <1>3, <2>2, Zenon DEF Watch
    <3> HIDE DEF cuts
    <3>4. watch' \in Watching /\ watch'.pc = "adl" /\ watch'.cuts = cuts
      BY <1>1, <3>2, <3>3 DEF Watching
    <3> QED
      BY <3>3, <3>4 DEF WatchOK
  <2> QED
    BY <2>1, <2>2
<1> QED
  BY <1>1, <1>2, <1>4, OwnStep DEF Rank, vars

LEMMA MatchedOne ==
  ASSUME NEW f, NEW g, \A v \in Traders : f[v] \in Int /\ g[v] \in Int,
         NEW u \in Traders, \A v \in Traders \ {u} : g[v] = f[v]
  PROVE  MatchedSum(g) = MatchedSum(f) + (g[u] - f[u]) /\ MatchedSum(f) \in Int
<1>1. SumFunctionOnSet(g, Traders) = SumFunctionOnSet(f, Traders) + (g[u] - f[u])
  BY TradersFinite, SumUpdate
<1>2. SumFunctionOnSet(f, Traders) \in Int
  BY TradersFinite, SumInt
<1> QED
  BY <1>1, <1>2 DEF MatchedSum

\* A trade with nobody: the history notes what the position got.
LEMMA BalancesCut ==
  ASSUME TypeInv, NEW t \in AllThreads, NEW u \in Traders, NEW d \in Int,
         Traded(mem, mem', u, d), matched' = [matched EXCEPT ![u] = @ + d]
  PROVE  /\ Balances(t, calls[t].legs) /\ matched' = [v \in Traders |-> matched'[v]]
         /\ MatchedSum(matched') = MatchedSum(matched) + d
<1>1. calls[t].legs \in Seq(Leg) /\ MemOK(mem) /\ MemOK(mem')
  BY CallFields DEF TypeInv, Traded
<1>2. matched = [v \in Traders |-> matched[v]] /\ \A v \in Traders : matched[v] \in Int
  BY DEF TypeInv, RestOK
<1>3. /\ matched' = [v \in Traders |-> matched'[v]]
      /\ matched'[u] = matched[u] + d
      /\ \A v \in Traders \ {u} : matched'[v] = matched[v]
  BY <1>2
<1>4. \A v \in Traders : matched'[v] \in Int
  BY <1>2, <1>3
<1>5. ASSUME NEW v \in Traders
      PROVE  Settles(mem, calls[t].legs, mem', calls[t].legs, v, matched'[v] - matched[v])
  <2> DEFINE e == IF v = u THEN d ELSE 0
  <2>1. /\ Net(mem', v) - mem'.bought[v] = Net(mem, v) - mem.bought[v]
        /\ Net(mem', v) + mem'.lost[v] = Net(mem, v) + mem.lost[v] + e
    BY DEF Traded
  <2>2. /\ Net(mem, v) \in Int /\ mem.lost[v] \in Int /\ matched[v] \in Int
        /\ Net(mem', v) \in Int /\ mem'.lost[v] \in Int
        /\ LegSum(calls[t].legs, v) \in Int
    BY <1>1, <1>2, HoldingsInt, MemFields, LegSumInt
  <2>3. matched'[v] - matched[v] = e /\ e \in Int
    BY <1>3, <2>2
  <2> HIDE DEF e
  <2>4. (Net(mem', v) + mem'.lost[v]) + LegSum(calls[t].legs, v)
          = ((Net(mem, v) + mem.lost[v]) + LegSum(calls[t].legs, v)) + e
    BY <2>1, <2>2, <2>3
  <2> QED
    BY <2>1, <2>3, <2>4 DEF Settles
<1>6. MatchedSum(matched') = MatchedSum(matched) + d
  <2> DEFINE h == matched'
  <2>1. \A v \in Traders : matched[v] \in Int /\ h[v] \in Int
    BY <1>2, <1>4
  <2>2. \A v \in Traders \ {u} : h[v] = matched[v]
    BY <1>3
  <2>3. h[u] = matched[u] + d
    BY <1>3
  <2> HIDE DEF h
  <2>4. MatchedSum(h) = MatchedSum(matched) + (h[u] - matched[u]) /\ MatchedSum(matched) \in Int
    BY <2>1, <2>2, MatchedOne
  <2>5. h[u] - matched[u] = d
    BY <2>1, <2>3
  <2>6. MatchedSum(h) = MatchedSum(matched) + d
    BY <2>4, <2>5
  <2> QED
    BY <2>6 DEF h
<1> QED
  BY <1>1, <1>3, <1>4, <1>5, <1>6 DEF Balances

\* The next cut of auto-deleveraging is one UpdatePosition takes.
LEMMA CutFacts ==
  ASSUME LInv, Deleverage, NEW cut, cut = Head(watch.cuts)
  PROVE  /\ cut \in Cut /\ Tail(watch.cuts) \in Seq(Cut)
         /\ Len(watch.cuts) # 1 => Tail(watch.cuts) # <<>>
         /\ Terms(cut.user, watch.side, cut.qty, watch.bankr, 1)
         /\ mem' \in UpdatePosition(mem, cut.user, watch.side, cut.qty, watch.bankr, 1, FALSE)
<1>1. WatchOK
  BY DEF LInv
<1>2. /\ watch.pc = "adl"
      /\ mem' \in UpdatePosition(mem, cut.user, watch.side, cut.qty, watch.bankr, 1, FALSE)
  BY Zenon DEF Deleverage, At
<1>3. /\ watch.cuts \in Seq(Cut) /\ watch.cuts # <<>> /\ watch.side \in Sides
      /\ watch.bankr \in Nat
  BY <1>1, <1>2 DEF WatchOK, Watching
<1>4. cut \in Cut /\ Tail(watch.cuts) \in Seq(Cut) /\ (Len(watch.cuts) # 1 => Tail(watch.cuts) # <<>>)
  <2>1. \A q \in Seq(Cut) : q # <<>> =>
          /\ Head(q) \in Cut /\ Tail(q) \in Seq(Cut)
          /\ Len(q) # 1 => Tail(q) # <<>>
    <3> SUFFICES ASSUME NEW q \in Seq(Cut), q # <<>>
                 PROVE  /\ Head(q) \in Cut /\ Tail(q) \in Seq(Cut)
                        /\ Len(q) # 1 => Tail(q) # <<>>
      OBVIOUS
    <3>1. /\ Head(q) \in Cut /\ Tail(q) \in Seq(Cut) /\ Len(Tail(q)) = Len(q) - 1
          /\ Len(q) \in Nat
      BY HeadTailProperties, LenProperties
    <3>2. Len(<<>>) = 0
      OBVIOUS
    <3>3. Len(q) # 1 => Len(Tail(q)) # 0
      BY <3>1
    <3> QED
      BY <3>1, <3>2, <3>3, Zenon
  <2> QED
    BY <1>3, <2>1, Zenon
<1>5. Terms(cut.user, watch.side, cut.qty, watch.bankr, 1)
  <2>1. cut.user \in Traders /\ cut.qty \in Nat \ {0}
    BY <1>4 DEF Cut
  <2> QED
    BY <1>3, <2>1 DEF Terms
<1> QED
  BY <1>2, <1>4, <1>5

LEMMA Deleveraged == ASSUME LInv, Deleverage PROVE LInv'
<1> DEFINE cut == Head(watch.cuts)
           d   == watch.side * cut.qty
<1>1. /\ TypeInv /\ CallsOK /\ nextID \in Nat /\ BookGood(book) /\ MemOK(mem) /\ SnapOK(snap)
      /\ fund \in Nat /\ Feeder \in AllThreads /\ Feeder \notin Threads /\ Inv /\ WatchOK
      /\ FeederInv /\ NowOrNever /\ OneSided /\ fed \in DOMAIN Feed /\ watch \in Watching
  BY LFacts DEF LInv
<1>2. /\ calls[Feeder].pc = "idle" /\ watch.pc = "adl" /\ nextID' = nextID + 1
      /\ mem' \in UpdatePosition(mem, cut.user, watch.side, cut.qty, watch.bankr, 1, FALSE)
      /\ matched' = [matched EXCEPT ![cut.user] = @ + d] /\ adlNet' = adlNet + d
      /\ book' = book /\ cached' = cached /\ fed' = fed /\ quotes' = quotes
      /\ quoted' = quoted /\ calls' = calls /\ fund' = fund /\ Pointers(snap)
      /\ Len(watch.cuts) = 1 => Watch(Asleep, "scan")
      /\ Len(watch.cuts) # 1 => Watch([watch EXCEPT !.cuts = Tail(@)], "adl")
  BY Zenon DEF Deleverage, At, DrawID
<1>3. /\ watch.cuts \in Seq(Cut) /\ watch.cuts # <<>> /\ watch.side \in Sides
      /\ watch.bankr \in Nat
  BY <1>1, <1>2 DEF WatchOK, Watching
<1>4. /\ cut \in Cut /\ Tail(watch.cuts) \in Seq(Cut)
      /\ Len(watch.cuts) # 1 => Tail(watch.cuts) # <<>>
      /\ Terms(cut.user, watch.side, cut.qty, watch.bankr, 1)
  BY CutFacts
<1>5. cut.user \in Traders /\ cut.qty \in Nat \ {0} /\ d \in Int
  <2>1. cut.user \in Traders /\ cut.qty \in Nat \ {0}
    BY <1>4 DEF Cut
  <2>2. watch.side \in Int
    BY <1>3, SideInt
  <2> QED
    BY <2>1, <2>2
<1> HIDE DEF cut
<1>6. Traded(mem, mem', cut.user, watch.side * cut.qty)
  BY <1>1, <1>2, <1>4, UpdateTraded
<1>7. Traded(mem, mem', cut.user, d) /\ mem'.frozen = mem.frozen /\ MemOK(mem')
  BY <1>6 DEF Traded
<1> HIDE DEF d
<1>8. /\ Balances(Feeder, calls[Feeder].legs)
      /\ matched' = [v \in Traders |-> matched'[v]]
      /\ MatchedSum(matched') = MatchedSum(matched) + d
  BY <1>1, <1>2, <1>5, <1>7, BalancesCut
<1>9. Draws
  BY <1>1, <1>2 DEF Draws
<1>10. Goes(Feeder, calls[Feeder])
  BY <1>1, <1>2 DEF Goes, CallsOK
<1>11. CallOK(Feeder, calls[Feeder], nextID')
  <2>1. CallOK(Feeder, calls[Feeder], nextID) /\ calls[Feeder].id \in Nat
    BY <1>1, CallFields DEF CallsOK
  <2>2. calls[Feeder].id <= nextID'
    BY <1>1, <1>2, <2>1 DEF CallOK
  <2> QED
    BY <2>1, <2>2 DEF CallOK
<1>12. Otherwise
  BY <1>1, <1>2, <1>8, <1>9, RestStays
<1>13. Harmless(Feeder, calls[Feeder])
  BY <1>1 DEF Harmless
<1>14. Inv'
  BY <1>1, <1>2, <1>7, <1>8, <1>9, <1>10, <1>11, <1>12, <1>13, StepQuiet, StandingSame
<1>15. WatchOK' /\ watch'.pc # "ioc"
  <2>1. CASE Len(watch.cuts) = 1
    BY <1>2, <2>1, Rests
  <2>2. CASE Len(watch.cuts) # 1
    <3>1. watch' = [[watch EXCEPT !.cuts = Tail(watch.cuts)] EXCEPT !.pc = "adl"]
      BY <1>2, <2>2, Zenon DEF Watch
    <3>2. watch' \in Watching /\ watch'.pc = "adl" /\ watch'.cuts = Tail(watch.cuts)
      BY <1>1, <1>4, <3>1 DEF Watching
    <3> QED
      BY <1>4, <2>2, <3>2 DEF WatchOK
  <2> QED
    BY <2>1, <2>2
<1>16. SnapOK(snap)'
  <2>1. SnapOK(snap')
    BY <1>1, <1>2, <1>7, SeenFacts
  <2> QED
    BY <2>1 DEF SnapOK
<1>17. FeederInv' /\ NowOrNever'
  BY <1>1, <1>2, <1>15 DEF FeederInv, NowOrNever
<1>18. OneSided'
  BY <1>1, <1>2, <1>5, <1>8 DEF OneSided
<1> QED
  BY <1>1, <1>2, <1>14, <1>15, <1>16, <1>17, <1>18 DEF LInv

-----------------------------------------------------------------------------
(* LiquidationEngine.OnTick.                                               *)

\* The order of the liquidation engine trades, and rests if something is left.
LEMMA Disposed ==
  ASSUME LInv, NEW i \in DOMAIN snap, Dispose(i)
  PROVE  LInv'
<1> DEFINE p     == snap[i]
           id    == nextID + 1
           s     == -p.side
           limit == price + s * (price \div SlipPart)
           qty   == DisposeQty(p.qty)
           m     == Matching(s, limit, qty)
           legs  == Legs(m.trades, LIQ, s, id)
           call  == [Idle EXCEPT !.user = LIQ, !.side = s, !.id = id, !.legs = legs]
           c     == [call EXCEPT !.pc = IF m.left > 0 THEN "idle" ELSE "legs"]
           rest  == [id |-> id, user |-> LIQ, side |-> s, price |-> limit, qty |-> m.left]
           w     == [Asleep EXCEPT !.at = i, !.id = id, !.trades = m.trades]
<1>1. /\ TypeInv /\ CallsOK /\ nextID \in Nat /\ BookGood(book) /\ MemOK(mem) /\ SnapOK(snap)
      /\ fund \in Nat /\ Feeder \in AllThreads /\ Feeder \notin Threads /\ Inv /\ WatchOK
      /\ FeederInv /\ NowOrNever /\ OneSided /\ OrdersInv
  BY LFacts DEF LInv
<1>2. /\ calls[Feeder].pc = "idle" /\ watch.pc = "dispose" /\ nextID' = id
      /\ matched' = [u \in Traders |-> matched[u] + LegSum(legs, u)]
      /\ Rested(book', s, m, rest)
      /\ watch' = [w EXCEPT !.pc = IF m.left > 0 THEN "ioc" ELSE "settle"]
      /\ calls' = [calls EXCEPT ![Feeder] = c]
      /\ mem' = mem /\ cached' = cached /\ fed' = fed /\ quotes' = quotes
      /\ quoted' = quoted /\ fund' = fund /\ snap' = snap /\ adlNet' = adlNet
  BY Zenon DEF Dispose, At, DrawID, Watch, Goto, Rested
<1>3. p \in Position /\ i \in Nat /\ id \in Nat
  BY <1>1 DEF SnapOK
<1>4. /\ s \in Sides /\ -s \in Sides /\ p.qty \in Nat \ {0} /\ LIQ \in Traders /\ LIQ \notin Users
      /\ LIQ # MM
  BY <1>3, SideInt, UsersAssumption DEF Position, Traders
<1> HIDE DEF p
<1>5. qty \in Nat \ {0}
  BY <1>4 DEF DisposeQty
<1>6. limit \in Nat
  <2> DEFINE d == price \div SlipPart
  <2>1. price \in Nat
    BY <1>1, PriceFacts
  <2>2. d \in 0 .. price
    <3>1. (price * 1) \div SlipPart \in 0 .. price
      <4>1. 1 \in Nat /\ 1 <= SlipPart
        BY SlipAssumption
      <4> QED
        BY <2>1, <4>1, SlipAssumption, Share
    <3>2. price * 1 = price
      BY <2>1
    <3> QED
      BY <3>1, <3>2
  <2> HIDE DEF d
  <2>3. price + s * d \in Nat
    <3>1. s = 1 \/ s = -1
      BY <1>4 DEF Sides, Long, Short
    <3> HIDE DEF s
    <3> QED
      BY <2>1, <2>2, <3>1
  <2> QED
    BY <2>3 DEF d
<1> HIDE DEF s, limit, qty
<1>7. MatchesWell(s, m, legs)
  BY <1>1, <1>3, <1>4, <1>5, TradeFacts
<1>8. SideOK(-s, m.trades)
  <2>1. SideOK(-s, book[-s]) /\ DistinctIDs(book[-s])
    BY <1>1, <1>4 DEF BookGood
  <2> QED
    BY <1>4, <1>5, <2>1, MatchingFacts
<1> HIDE DEF m, legs
<1>9. legs \in Seq(Leg) /\ Balance(legs) = 0 /\ m.left \in Nat /\ (m.left = 0 => legs # <<>>)
  BY <1>7 DEF MatchesWell
<1>10. /\ matched' = [u \in Traders |-> matched'[u]]
       /\ \A u \in Traders : matched'[u] = matched[u] + LegSum(legs, u)
       /\ MatchedSum(matched') = MatchedSum(matched)
  BY <1>1, <1>2, <1>9, MatchedFacts
<1>11. /\ rest \in Resting /\ rest.side = s /\ rest.qty = m.left /\ rest.id = id
       /\ rest.user = LIQ
  BY <1>3, <1>4, <1>6, <1>9 DEF Resting
<1> HIDE DEF rest
<1>12. /\ BookGood(book') /\ Standing(book') \subseteq Standing(book) \cup {<<id, LIQ>>}
       /\ m.left = 0 => Standing(book') \subseteq Standing(book)
  <2>1. \A o \in Standing(book) : o[1] # rest.id
    BY <1>1, <1>11, NewOrder
  <2>2. /\ BookGood(book') /\ Standing(book') \subseteq Standing(book) \cup {<<rest.id, rest.user>>}
        /\ m.left = 0 => Standing(book') \subseteq Standing(book)
    BY <1>1, <1>2, <1>4, <1>7, <1>11, <2>1, TradeRests
  <2> QED
    BY <1>11, <2>2
<1>13. Draws
  BY <1>1, <1>2 DEF Draws
<1>14. /\ c \in Call /\ c.pc = (IF m.left > 0 THEN "idle" ELSE "legs") /\ c.id = id
       /\ c.legs = legs
  BY <1>3, <1>4, <1>9, IdleCall DEF Call, Pcs
<1> HIDE DEF c
<1>15. Goes(Feeder, c)
  BY <1>1, <1>2, CallGoes
<1>16. CallOK(Feeder, c, nextID')
  <2>1. c.id <= nextID'
    BY <1>2, <1>3, <1>14
  <2> QED
    BY <1>9, <1>14, <2>1 DEF CallOK
<1>17. Balances(Feeder, c.legs)
  <2>1. calls[Feeder].legs = <<>>
    BY <1>1, <1>2 DEF FeederInv
  <2>2. \A v \in Traders : LegSum(legs, v) = LegSum(calls[Feeder].legs, v) + LegSum(legs, v)
    <3> SUFFICES ASSUME NEW v \in Traders
                 PROVE  LegSum(legs, v) = LegSum(calls[Feeder].legs, v) + LegSum(legs, v)
      OBVIOUS
    <3>1. LegSum(calls[Feeder].legs, v) = 0
      BY <2>1, NoLegs
    <3>2. LegSum(legs, v) \in Int
      BY <1>9, LegSumInt
    <3> QED
      BY <3>1, <3>2
  <2>3. Balances(Feeder, legs)
    BY <1>1, <1>2, <1>9, <1>10, <2>2, BalancesMatched
  <2> QED
    BY <1>14, <2>3
<1>18. Otherwise
  BY <1>1, <1>2, <1>10, <1>13, RestStays
<1>19. Inv'
  BY <1>1, <1>2, <1>4, <1>12, <1>13, <1>15, <1>16, <1>17, <1>18, KeepsAll, StepOfSystem
<1>20. /\ watch' \in Watching /\ watch'.pc = (IF m.left > 0 THEN "ioc" ELSE "settle")
       /\ watch'.at = i /\ watch'.id = id
  <2>1. m.trades \in Seq(Resting)
    BY <1>8 DEF SideOK
  <2>2. w \in Watching /\ w.at = i /\ w.id = id
    <3>1. DOMAIN Asleep = {"pc", "side", "bankr", "deficit", "cuts", "at", "id", "trades"}
      BY DEF Asleep
    <3> HIDE DEF m
    <3> QED
      BY <1>3, <2>1, <3>1, AsleepFacts DEF Watching
  <2> HIDE DEF w
  <2>3. CASE m.left > 0
    <3>1. watch' = [w EXCEPT !.pc = "ioc"]
      BY <1>2, <2>3
    <3>2. watch' \in Watching /\ watch'.pc = "ioc"
      BY <2>2, <3>1, AsleepFacts
    <3>3. watch'.at = i /\ watch'.id = id
      BY <2>2, <3>1 DEF Watching
    <3> QED
      BY <2>3, <3>2, <3>3
  <2>4. CASE ~(m.left > 0)
    <3>1. watch' = [w EXCEPT !.pc = "settle"]
      BY <1>2, <2>4
    <3>2. watch' \in Watching /\ watch'.pc = "settle"
      BY <2>2, <3>1, AsleepFacts
    <3>3. watch'.at = i /\ watch'.id = id
      BY <2>2, <3>1 DEF Watching
    <3> QED
      BY <2>4, <3>2, <3>3
  <2> QED
    BY <2>3, <2>4
<1>21. WatchOK'
  BY <1>2, <1>20 DEF WatchOK
<1>22. FeederInv'
  BY <1>14, <1>15, <1>20 DEF FeederInv, Goes
<1>23. NowOrNever'
  <2> SUFFICES ASSUME NEW o \in Standing(book'), o[2] = LIQ
               PROVE  watch'.pc = "ioc" /\ o[1] = watch'.id
    BY DEF NowOrNever
  <2>1. o \notin Standing(book)
    BY <1>1, <1>2 DEF NowOrNever
  <2>2. o = <<id, LIQ>> /\ m.left # 0
    BY <1>12, <2>1
  <2> QED
    BY <1>9, <1>20, <2>2
<1>24. OneSided' /\ SnapOK(snap)' /\ fund' \in Nat
  BY <1>1, <1>2, <1>10 DEF OneSided, SnapOK
<1> QED
  BY <1>19, <1>21, <1>22, <1>23, <1>24 DEF LInv

\* The loop of OnTick goes on.
LEMMA DisposalGoesOn ==
  ASSUME SnapOK(snap), NEW i, NextDisposal(Unvisited(i))
  PROVE  WatchOK' /\ SnapOK(snap') /\ watch'.pc \in {"idle", "dispose"}
<1>1. SnapOK(snap')
  BY UnvisitedFacts DEF NextDisposal
<1>2. Watch(Asleep, "idle") \/ Watch(Asleep, "dispose")
  BY DEF NextDisposal, Watch
<1> QED
  BY <1>1, <1>2, Rests

\* What is left of the order leaves the book before its trades are processed.
LEMMA RestCancelled ==
  ASSUME LInv, CancelRemaining
  PROVE  LInv'
<1> DEFINE k    == calls[Feeder]
           legs == k.legs
<1>1. /\ TypeInv /\ CallsOK /\ nextID \in Nat /\ BookGood(book) /\ MemOK(mem) /\ SnapOK(snap)
      /\ fund \in Nat /\ Feeder \in AllThreads /\ Feeder \notin Threads /\ Inv /\ WatchOK
      /\ FeederInv /\ NowOrNever /\ OneSided /\ watch \in Watching
  BY LFacts DEF LInv
<1>2. /\ k.pc = "idle" /\ watch.pc = "ioc" /\ book' = WithoutOrder(watch.id)
      /\ Process(Feeder, k, legs)
      /\ watch.trades = <<>> => NextDisposal(Unvisited(watch.at))
      /\ watch.trades # <<>> => Watch(watch, "settle") /\ snap' = snap
      /\ mem' = mem /\ cached' = cached /\ nextID' = nextID /\ fed' = fed /\ quotes' = quotes
      /\ quoted' = quoted /\ matched' = matched /\ fund' = fund /\ adlNet' = adlNet
  BY Zenon DEF CancelRemaining, At
<1>3. k \in Call /\ legs \in Seq(Leg) /\ k.id \in Nat /\ k.id <= nextID
  BY <1>1, CallFields DEF CallsOK, CallOK
<1>4. calls[Feeder].legs = legs
  OBVIOUS
<1> HIDE DEF k, legs
<1>5. /\ BookGood(book') /\ Standing(book') \subseteq Standing(book)
      /\ \A o \in Standing(book') : o[1] # watch.id
  BY <1>1, <1>2, BookWithout
<1>6. Draws
  BY <1>1, <1>2 DEF Draws
<1>7. PICK c : /\ Goes(Feeder, c) /\ CallOK(Feeder, c, nextID') /\ c.legs = legs
               /\ c.pc \in {"idle", "legs"} /\ (c.pc = "idle" => legs = <<>>)
  <2>1. nextID' \in Nat /\ k.id <= nextID'
    BY <1>1, <1>2, <1>3
  <2> QED
    BY <1>1, <1>2, <1>3, <2>1, ProcessFacts
<1>8. Balances(Feeder, c.legs)
  <2>1. Balances(Feeder, calls[Feeder].legs)
    BY <1>1, <1>2, KeepsAll, BalancesQuiet
  <2> QED
    BY <1>4, <1>7, <2>1
<1>9. Otherwise
  BY <1>1, <1>2, <1>6, RestStays DEF TypeInv, RestOK
<1>10. Harmless(Feeder, c)
  BY <1>1 DEF Harmless
<1>11. Inv'
  BY <1>1, <1>2, <1>5, <1>6, <1>7, <1>8, <1>9, <1>10, KeepsAll, StepQuiet
<1>12. WatchOK' /\ SnapOK(snap') /\ watch'.pc # "ioc"
  <2>1. CASE watch.trades = <<>>
    BY <1>1, <1>2, <2>1, DisposalGoesOn
  <2>2. CASE watch.trades # <<>>
    <3>1. watch' \in Watching /\ watch'.pc = "settle" /\ watch'.at = watch.at
      BY <1>1, <1>2, <2>2, AsleepFacts DEF Watch, Watching
    <3> QED
      BY <1>1, <1>2, <2>2, <3>1 DEF WatchOK
  <2> QED
    BY <2>1, <2>2
<1>13. FeederInv'
  BY <1>7, <1>12 DEF FeederInv, Goes
<1>14. NowOrNever'
  BY <1>1, <1>5 DEF NowOrNever
<1>15. OneSided' /\ SnapOK(snap)' /\ fund' \in Nat
  BY <1>1, <1>2, <1>12 DEF OneSided, SnapOK
<1> QED
  BY <1>11, <1>12, <1>13, <1>14, <1>15 DEF LInv

-----------------------------------------------------------------------------
(* Settle: what the fund has after each trade.                             *)

After(b, gain) == IF gain > 0 THEN b + gain ELSE Cover(b, -gain)

\* f is the balance after each of the first k trades.
Balanced(f, b, gains, k) ==
  f = [n \in 0 .. k |-> IF n = 0 THEN b ELSE After(f[n - 1], gains[n])]

LEMMA BalancesUpTo ==
  ASSUME NEW b, NEW gains, NEW k \in Nat
  PROVE  \E f : Balanced(f, b, gains, k)
<1> DEFINE N == {n \in Nat : ~\E f : Balanced(f, b, gains, n)}
<1>1. SUFFICES ASSUME k \in N
               PROVE  FALSE
  OBVIOUS
<1>2. N \in SUBSET Nat /\ N # {}
  BY <1>1
<1>3. PICK m \in N : \A n \in N : m <= n
  BY <1>2, SmallestNat, Zenon
<1>4. CASE m = 0
  <2> DEFINE f == [n \in 0 .. 0 |-> b]
  <2>1. f = [n \in 0 .. 0 |-> IF n = 0 THEN b ELSE After(f[n - 1], gains[n])]
    OBVIOUS
  <2>2. Balanced(f, b, gains, 0)
    BY <2>1 DEF Balanced
  <2> QED
    BY <1>3, <1>4, <2>2
<1>5. CASE m # 0
  <2>1. m - 1 \in Nat /\ m - 1 \notin N /\ m \in Nat
    BY <1>2, <1>3, <1>5
  <2>2. PICK f : Balanced(f, b, gains, m - 1)
    BY <2>1
  <2> DEFINE g == [n \in 0 .. m |-> IF n = 0 THEN b ELSE After(f[n - 1], gains[n])]
  <2>3. \A n \in 0 .. m - 1 : g[n] = f[n]
    <3>1. f = [n \in 0 .. m - 1 |-> IF n = 0 THEN b ELSE After(f[n - 1], gains[n])]
      BY <2>2 DEF Balanced
    <3>2. \A n \in 0 .. m - 1 : n \in 0 .. m
      BY <2>1
    <3> QED
      BY <3>1, <3>2, Zenon
  <2>4. \A n \in 0 .. m : n # 0 => n - 1 \in 0 .. m - 1
    BY <2>1
  <2>5. g = [n \in 0 .. m |-> IF n = 0 THEN b ELSE After(g[n - 1], gains[n])]
    <3> DEFINE h == [n \in 0 .. m |-> IF n = 0 THEN b ELSE After(g[n - 1], gains[n])]
    <3>1. \A n \in 0 .. m : g[n] = h[n]
      BY <2>3, <2>4
    <3> QED
      BY <3>1
  <2>6. Balanced(g, b, gains, m)
    BY <2>5 DEF Balanced
  <2> QED
    BY <1>3, <2>6
<1> QED
  BY <1>4, <1>5

\* The fund never falls below nothing.
LEMMA BalancesNat ==
  ASSUME NEW b \in Nat, NEW gains, NEW k \in Nat, \A n \in 1 .. k : gains[n] \in Int,
         NEW f, Balanced(f, b, gains, k)
  PROVE  \A n \in 0 .. k : f[n] \in Nat
<1> DEFINE N == {n \in 0 .. k : f[n] \notin Nat}
<1>1. SUFFICES ASSUME N # {}
               PROVE  FALSE
  OBVIOUS
<1>2. N \in SUBSET Nat
  OBVIOUS
<1>3. PICK m \in N : \A n \in N : m <= n
  BY <1>1, <1>2, SmallestNat, Zenon
<1>4. \A n \in 0 .. k : f[n] = IF n = 0 THEN b ELSE After(f[n - 1], gains[n])
  <2>1. f = [n \in 0 .. k |-> IF n = 0 THEN b ELSE After(f[n - 1], gains[n])]
    BY DEF Balanced
  <2> QED
    BY <2>1, Zenon
<1>5. CASE m = 0
  BY <1>3, <1>4, <1>5
<1>6. CASE m # 0
  <2>1. m - 1 \in 0 .. k /\ m \in 1 .. k /\ m - 1 \notin N
    BY <1>3, <1>6
  <2>2. f[m - 1] \in Nat /\ gains[m] \in Int
    BY <2>1
  <2>3. After(f[m - 1], gains[m]) \in Nat
    BY <2>2 DEF After, Cover
  <2> QED
    BY <1>3, <1>4, <1>6, <2>3
<1> QED
  BY <1>5, <1>6

\* Surplus and deficit of what OnTick has sold go to and from the fund.
LEMMA Settled ==
  ASSUME LInv, Settle
  PROVE  LInv'
<1> DEFINE p     == snap[watch.at]
           k     == Len(watch.trades)
           gains == [n \in 1 .. k |-> CalcUnrealizedPnL(p.entry, watch.trades[n].price,
                                                        watch.trades[n].qty, p.side)]
<1>1. /\ SnapOK(snap) /\ fund \in Nat /\ watch \in Watching /\ WatchOK /\ fed \in DOMAIN Feed
  BY LFacts DEF LInv
<1>2. watch.pc = "settle" /\ NextDisposal(Unvisited(watch.at)) /\ UNCHANGED <<vars, mark, adlNet>>
  BY Zenon DEF Settle, At
<1>3. WatchOK' /\ SnapOK(snap') /\ watch'.pc \in {"idle", "dispose"}
  BY <1>1, <1>2, DisposalGoesOn
<1>4. k \in Nat /\ \A n \in 1 .. k : watch.trades[n] \in Resting
  BY <1>1 DEF Watching
<1>5. p.entry \in Nat /\ p.side \in Int
  <2>1. p \in Position
    BY <1>1, <1>2 DEF WatchOK, SnapOK
  <2> QED
    BY <2>1 DEF Position, Sides, Long, Short
<1>6. \A n \in 1 .. k : gains[n] \in Int
  <2> HIDE DEF p, k
  <2> SUFFICES ASSUME NEW n \in 1 .. k
               PROVE  gains[n] \in Int
    OBVIOUS
  <2>1. watch.trades[n].price \in Nat /\ watch.trades[n].qty \in Nat
    BY <1>4 DEF Resting
  <2> DEFINE price1 == watch.trades[n].price
             qty1   == watch.trades[n].qty
  <2>2. gains[n] = CalcUnrealizedPnL(p.entry, price1, qty1, p.side)
    OBVIOUS
  <2>3. price1 \in Nat /\ qty1 \in Nat
    BY <2>1
  <2> HIDE DEF gains, price1, qty1
  <2>4. (price1 - p.entry) * qty1 * p.side \in Int
    BY <1>5, <2>3
  <2> QED
    BY <2>2, <2>4 DEF CalcUnrealizedPnL
<1> DEFINE F(f) == [n \in 0 .. k |->
                      IF n = 0 THEN fund
                      ELSE LET t   == watch.trades[n]
                               pnl == CalcUnrealizedPnL(p.entry, t.price, t.qty, p.side)
                           IN  IF pnl > 0 THEN f[n - 1] + pnl ELSE Cover(f[n - 1], -pnl)]
           balance == CHOOSE f : f = F(f)
<1>7. fund' = balance[k]
  BY DEF Settle
<1>8. \A f : F(f) = [n \in 0 .. k |-> IF n = 0 THEN fund ELSE After(f[n - 1], gains[n])]
  <2> SUFFICES ASSUME NEW f
               PROVE  F(f) = [n \in 0 .. k |-> IF n = 0 THEN fund ELSE After(f[n - 1], gains[n])]
    OBVIOUS
  <2>1. \A n \in 0 .. k : n # 0 => n \in 1 .. k
    BY <1>4
  <2> HIDE DEF p, k
  <2>2. \A n \in 0 .. k : F(f)[n] = IF n = 0 THEN fund ELSE After(f[n - 1], gains[n])
    BY <2>1 DEF After
  <2> QED
    BY <2>2
<1> HIDE DEF gains
<1>9. \E f : f = F(f)
  <2>1. \E f : Balanced(f, fund, gains, k)
    BY <1>4, BalancesUpTo
  <2> HIDE DEF F
  <2> QED
    BY <1>8, <2>1 DEF Balanced
<1>10. balance = F(balance)
  <2> HIDE DEF F
  <2> QED
    BY <1>9
<1> HIDE DEF F, balance, p, k
<1>11. Balanced(balance, fund, gains, k)
  BY <1>8, <1>10 DEF Balanced
<1>12. fund' \in Nat
  <2>1. \A n \in 0 .. k : balance[n] \in Nat
    BY <1>1, <1>4, <1>6, <1>11, BalancesNat
  <2> QED
    BY <1>4, <1>7, <2>1
<1>13. fed' \in DOMAIN Feed
  BY <1>1, <1>2 DEF vars
<1> QED
  BY <1>1, <1>2, <1>3, <1>12, <1>13, OwnStep DEF vars

-----------------------------------------------------------------------------
(* The invariant.                                                          *)

LEMMA InitLInv == ASSUME LInit PROVE LInv
<1>1. /\ Init /\ fund = InitialFund /\ snap = << >> /\ watch = Asleep /\ adlNet = 0
  BY DEF LInit
<1>2. Inv
  BY <1>1, InitInv
<1>3. book = [s \in Sides |-> <<>>] /\ calls = [t \in AllThreads |-> Idle]
      /\ matched = [u \in Traders |-> 0]
  BY <1>1 DEF Init
<1>4. WatchOK /\ watch.pc = "idle"
  <2>1. watch \in Watching /\ watch.pc = "idle"
    BY <1>1, AsleepFacts DEF Asleep
  <2> QED
    BY <2>1 DEF WatchOK
<1>5. SnapOK(snap)
  <2>1. DOMAIN snap = {}
    BY <1>1
  <2> QED
    BY <2>1 DEF SnapOK
<1>6. FeederInv
  <2>1. calls[Feeder].legs = <<>>
    BY <1>3, MemberThreads DEF Idle
  <2> QED
    BY <1>4, <2>1 DEF FeederInv
<1>7. NowOrNever
  <2> SUFFICES ASSUME NEW o \in Standing(book) PROVE FALSE
    BY DEF NowOrNever
  <2>1. PICK s \in Sides : \E n \in DOMAIN book[s] : TRUE
    BY StandingMember
  <2>2. DOMAIN book[s] = {}
    BY <1>3
  <2> QED
    BY <2>1, <2>2
<1>8. OneSided
  <2>1. MatchedSum(matched) = 0
    <3>1. IsFiniteSet(Traders) /\ \A u \in Traders : matched[u] \in Int
      BY <1>3, TradersFinite
    <3>2. \A u \in Traders : matched[u] = IF u \in {} THEN matched[u] ELSE 0
      BY <1>3
    <3>3. {} \in SUBSET Traders
      OBVIOUS
    <3>4. SumFunctionOnSet(matched, Traders) = SumFunctionOnSet(matched, {})
      BY <3>1, <3>2, <3>3, SumWithin
    <3> QED
      BY <3>4, SumEmpty DEF MatchedSum
  <2> QED
    BY <1>1, <2>1 DEF OneSided
<1>9. fund \in Nat
  BY <1>1, FundAssumption
<1> QED
  BY <1>2, <1>4, <1>5, <1>6, <1>7, <1>8, <1>9 DEF LInv

LEMMA LStepped == ASSUME LInv, LNext PROVE LInv'
<1>1. ASSUME NEW i \in DOMAIN snap,
             PassOver(i) \/ ForceTakeProfit(i) \/ Liquidate(i) \/ Dispose(i)
      PROVE  LInv'
  BY <1>1, QuietStepped, ForceTaken, TakenOver, Disposed
<1>2. Scan \/ NewPrice \/ NothingDue \/ StartDisposal => LInv'
  BY QuietStepped
<1>3. CoverDeficit \/ Rank \/ Deleverage \/ CancelRemaining \/ Settle => LInv'
  BY DeficitCovered, Ranked, Deleveraged, RestCancelled, Settled
<1>4. EngineStep => LInv'
  BY EngineStepped
<1> QED
  BY <1>1, <1>2, <1>3, <1>4, Zenon DEF LNext, MonitorStep

\* Whatever the handlers and the market maker do between the steps of
\* OnPriceUpdate, what it has read and taken over is in order: positions it
\* points to, trades it has still to process, the order it is to cancel.
THEOREM LiquidationInvariance == LSpec => []LInv
<1>1. LInit => LInv
  BY InitLInv
<1>2. LInv /\ [LNext]_lvars => LInv'
  <2>1. ASSUME LInv, UNCHANGED lvars PROVE LInv'
    <3>1. watch' = watch /\ snap' = snap /\ fund' = fund
          /\ UNCHANGED <<mem, book, cached, nextID, quotes, quoted, calls, matched, adlNet>>
          /\ fed' = fed
      BY <2>1 DEF lvars, vars
    <3>2. Inv'
      <4>1. fed \in DOMAIN Feed
        BY <2>1, LFacts
      <4> QED
        BY <2>1, <3>1, <4>1, FedInv DEF LInv
    <3>3. WatchOK' /\ SnapOK(snap)' /\ FeederInv' /\ NowOrNever' /\ OneSided' /\ fund' \in Nat
      BY <2>1, <3>1 DEF LInv, WatchOK, SnapOK, FeederInv, NowOrNever, OneSided, price
    <3> QED
      BY <3>2, <3>3 DEF LInv
  <2> QED
    BY <2>1, LStepped
<1> QED
  BY <1>1, <1>2, PTL DEF LSpec

-----------------------------------------------------------------------------
(* What the invariant says.                                                *)

\* The liquidation engine's order rests in the book only between its PlaceLimit
\* and its Cancel, whatever the handlers and the market maker do meanwhile.
THEOREM NowOrNeverOrders == LSpec => []NoRestingIOC
<1>1. LInv => NoRestingIOC
  <2> SUFFICES ASSUME LInv, NEW s \in Sides, NEW n \in DOMAIN book[s], book[s][n].user = LIQ
               PROVE  watch.pc = "ioc" /\ book[s][n].id = watch.id
    BY DEF NoRestingIOC
  <2> DEFINE o == <<book[s][n].id, book[s][n].user>>
  <2>1. o \in Standing(book)
    BY StandingMember
  <2>2. o[1] = book[s][n].id /\ o[2] = LIQ
    OBVIOUS
  <2> HIDE DEF o
  <2> QED
    BY <2>1, <2>2 DEF LInv, NowOrNever
<1> QED
  BY <1>1, LiquidationInvariance, PTL

\* TakeOver and the disposals keep longs and shorts equal however they race
\* with the handlers: what is out of balance is what ExecuteADL took.
THEOREM OnlyADLUnbalances == LSpec => []UnbalancedByADLOnly
<1>1. LInv => UnbalancedByADLOnly
  <2> SUFFICES ASSUME LInv PROVE UnbalancedByADLOnly
    OBVIOUS
  <2> DEFINE f == [u \in Traders |-> Net(mem, u) + InFlight(u) + mem.lost[u]]
  <2>1. \A u \in Traders : f[u] = matched[u]
    BY DEF LInv, Inv, PositionsFollowTrades
  <2> HIDE DEF f
  <2>2. SumFunctionOnSet(f, Traders) = SumFunctionOnSet(matched, Traders)
    BY <2>1, TradersFinite, SumSame
  <2>3. SumFunctionOnSet(matched, Traders) = adlNet
    BY DEF LInv, OneSided, MatchedSum
  <2> QED
    BY <2>2, <2>3 DEF UnbalancedByADLOnly, f
<1> QED
  BY <1>1, LiquidationInvariance, PTL

\* With the risk engine running too, nobody gains or loses position except by
\* trades of the book, takeovers and auto-deleveraging.
THEOREM TradesStillMakePositions == LSpec => []PositionsFollowTrades
<1>1. LInv => PositionsFollowTrades
  BY DEF LInv, Inv
<1> QED
  BY <1>1, LiquidationInvariance, PTL

\* The forced closes of the risk engine leave no order that its owner cannot
\* cancel, no quote that the market maker forgets.
THEOREM OrdersStillCancellable == LSpec => [](RestingCancellable /\ QuotesTracked)
<1>1. LInv => RestingCancellable /\ QuotesTracked
  BY InvTracked DEF LInv
<1> QED
  BY <1>1, LiquidationInvariance, PTL

\* Nor do they leave money frozen that nothing gives back.
THEOREM FreezesStillReclaimable == LSpec => []FrozenReclaimable
<1>1. LInv => FrozenReclaimable
  BY InvReclaimable DEF LInv
<1> QED
  BY <1>1, LiquidationInvariance, PTL

-----------------------------------------------------------------------------
(* The money, apart from rounding.                                         *)

\* As EvenMergeApplied and EvenDivisionsApplied, deleveraging included.
EvenMergeEverywhere ==
  /\ EvenMergeApplied
  /\ Deleverage => LET cut == Head(watch.cuts)
                   IN  EvenMerges(mem, cut.user, watch.side, cut.qty, watch.bankr)

EvenDivisionsEverywhere ==
  /\ EvenDivisionsApplied
  /\ Deleverage => LET cut == Head(watch.cuts)
                   IN  EvenDivisions(mem, cut.user, watch.side, cut.qty, watch.bankr, 1)

LEMMA BooksCut ==
  ASSUME LInv, Deleverage
  PROVE  /\ Books(mem) /\ EvenMergeEverywhere => Books(mem)'
         /\ Proportioned(mem) /\ EvenDivisionsEverywhere => Proportioned(mem)'
<1> DEFINE cut == Head(watch.cuts)
<1>1. /\ Terms(cut.user, watch.side, cut.qty, watch.bankr, 1)
      /\ mem' \in UpdatePosition(mem, cut.user, watch.side, cut.qty, watch.bankr, 1, FALSE)
  BY CutFacts
<1>2. EvenMergeEverywhere => EvenMerges(mem, cut.user, watch.side, cut.qty, watch.bankr)
  BY DEF EvenMergeEverywhere
<1>3. EvenDivisionsEverywhere
        => EvenDivisions(mem, cut.user, watch.side, cut.qty, watch.bankr, 1)
  BY DEF EvenDivisionsEverywhere
<1> HIDE DEF cut
<1>4. MemOK(mem)
  BY DEF LInv, Inv, TypeInv
<1>5. /\ Books(mem) /\ EvenMerges(mem, cut.user, watch.side, cut.qty, watch.bankr)
           => Books(mem')
      /\ Proportioned(mem) /\ EvenDivisions(mem, cut.user, watch.side, cut.qty, watch.bankr, 1)
           => Proportioned(mem')
  BY <1>1, <1>4, BooksTraded
<1> QED
  BY <1>2, <1>3, <1>5

LEMMA BooksLNext ==
  ASSUME LInv, [LNext]_lvars
  PROVE  /\ Books(mem) /\ [EvenMergeEverywhere]_lvars => Books(mem)'
         /\ Proportioned(mem) /\ [EvenDivisionsEverywhere]_lvars => Proportioned(mem)'
<1>1. MemOK(mem) /\ TypeInv /\ Feeder \in AllThreads
  BY LFacts DEF LInv, Inv, TypeInv
<1>2. CASE lvars' = lvars
  BY <1>2 DEF lvars, vars
<1>3. CASE lvars' # lvars /\ TradingStep
  BY <1>1, <1>3, BooksTradingStep DEF EvenMergeEverywhere, EvenDivisionsEverywhere
<1>4. CASE lvars' # lvars /\ Deleverage
  BY <1>4, BooksCut
<1>5. ASSUME Undisturbed(mem, mem')
      PROVE  /\ Books(mem) => Books(mem)'
             /\ Proportioned(mem) => Proportioned(mem)'
  BY <1>5, BooksUndisturbed
<1>6. LNext => Undisturbed(mem, mem') \/ TradingStep \/ Deleverage
  <2>1. mem' = mem => Undisturbed(mem, mem')
    BY AccountsUndisturbed
  <2>2. MatchClose(Feeder) \/ Reopen(Feeder) => Undisturbed(mem, mem')
    BY <1>1, OthersUndisturbed, Zenon
  <2>3. \A i : ForceTakeProfit(i) => Undisturbed(mem, mem')
    <3>1. \A i : Undisturbed(mem, SetState(mem, i, ForceTPing))
      BY <1>1, StateUndisturbed
    <3>2. \A i : ForceTakeProfit(i) => mem' = SetState(mem, i, ForceTPing)
      BY Zenon DEF ForceTakeProfit
    <3> QED
      BY <3>1, <3>2, Zenon
  <2>4. \A i : /\ PassOver(i) => mem' = mem
               /\ Liquidate(i) => mem' = mem
               /\ Dispose(i) => mem' = mem
    BY Zenon DEF PassOver, Liquidate, Dispose, vars
  <2>5. /\ NewPrice => mem' = mem
        /\ Scan => mem' = mem
        /\ CoverDeficit => mem' = mem
        /\ Rank => mem' = mem
        /\ NothingDue => mem' = mem
        /\ StartDisposal => mem' = mem
        /\ CancelRemaining => mem' = mem
        /\ Settle => mem' = mem
    BY DEF NewPrice, Scan, CoverDeficit, Rank, NothingDue, StartDisposal, CancelRemaining,
           Settle, vars
  <2> QED
    BY <2>1, <2>2, <2>3, <2>4, <2>5, Zenon DEF LNext, MonitorStep, EngineStep
<1> QED
  BY <1>2, <1>3, <1>4, <1>5, <1>6

\* With takeovers at the bankruptcy price, disposals and auto-deleveraging
\* between the handlers' steps, still nobody's money comes from nowhere.
THEOREM MoneyStillOnlyChangesHands ==
  LSpec /\ [][EvenMergeEverywhere]_lvars => []MoneyConserved
<1>1. LInit => Books(mem)
  BY InitBooks DEF LInit, Init
<1>2. /\ LInv /\ Books(mem) /\ [LNext]_lvars /\ [EvenMergeEverywhere]_lvars => Books(mem)'
      /\ LInv /\ Books(mem) => MoneyConserved
  BY BooksLNext, BooksConserve DEF LInv, Inv
<1> QED
  BY <1>1, <1>2, LiquidationInvariance, PTL DEF LSpec

\* And the liquidation price that decides on a takeover fits the margin the
\* position has, whatever cuts and closes it has been through.
THEOREM MarginsStillInProportion ==
  LSpec /\ [][EvenDivisionsEverywhere]_lvars => []MarginInProportion
<1>1. LInit => Proportioned(mem)
  BY InitBooks DEF LInit, Init
<1>2. /\ LInv /\ Proportioned(mem) /\ [LNext]_lvars /\ [EvenDivisionsEverywhere]_lvars
           => Proportioned(mem)'
      /\ Proportioned(mem) => MarginInProportion
  BY BooksLNext DEF MarginInProportion, Proportioned, InProportion
<1> QED
  BY <1>1, <1>2, LiquidationInvariance, PTL DEF LSpec
=============================================================================
