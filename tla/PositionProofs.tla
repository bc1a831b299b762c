--------------------------- MODULE PositionProofs ---------------------------
(***************************************************************************)
(* Proofs about Positions: what UpdatePosition does to the position and    *)
(* the money of every user, for any prices, quantities and leverages.      *)
(***************************************************************************)
EXTENDS Positions, CollectionProofs

-----------------------------------------------------------------------------
(* The type of memory.                                                     *)

PosMaps == UNION {[D -> Position] : D \in SUBSET Nat}

Memory ==
  [bal : [Traders -> Int], frozen : [Traders -> Nat], pos : PosMaps, lastPos : Nat,
   bought : [Traders -> Int], paid : [Traders -> Int], fees : [Traders -> Int],
   lost : [Traders -> Int]]

\* IDs of positions are no news to nextPosID.
MemOK(m) == m \in Memory /\ DOMAIN m.pos \subseteq 1 .. m.lastPos

LEMMA PosMapsDef ==
  ASSUME NEW f
  PROVE  f \in PosMaps <=> /\ f = [i \in DOMAIN f |-> f[i]]
                           /\ DOMAIN f \subseteq Nat
                           /\ \A i \in DOMAIN f : f[i] \in Position
<1>1. ASSUME f \in PosMaps
      PROVE  /\ f = [i \in DOMAIN f |-> f[i]] /\ DOMAIN f \subseteq Nat
             /\ \A i \in DOMAIN f : f[i] \in Position
  <2>1. PICK D \in SUBSET Nat : f \in [D -> Position]
    BY <1>1 DEF PosMaps
  <2> QED
    BY <2>1
<1>2. ASSUME f = [i \in DOMAIN f |-> f[i]], DOMAIN f \subseteq Nat,
             \A i \in DOMAIN f : f[i] \in Position
      PROVE  f \in PosMaps
  <2>1. f \in [DOMAIN f -> Position]
    BY <1>2
  <2> QED
    BY <1>2, <2>1 DEF PosMaps
<1> QED
  BY <1>1, <1>2

LEMMA InitMemOK == MemOK(InitMem)
<1>1. InitMem.pos \in PosMaps /\ DOMAIN InitMem.pos = {}
  <2>1. << >> \in [{} -> Position]
    OBVIOUS
  <2>2. << >> \in PosMaps
    BY <2>1 DEF PosMaps
  <2>3. InitMem.pos = << >>
    BY DEF InitMem
  <2> QED
    BY <2>1, <2>2, <2>3
<1>2. /\ InitMem.bal \in [Traders -> Int] /\ InitMem.frozen \in [Traders -> Nat]
      /\ InitMem.lastPos \in Nat /\ InitMem.bought \in [Traders -> Int]
      /\ InitMem.paid \in [Traders -> Int] /\ InitMem.fees \in [Traders -> Int]
      /\ InitMem.lost \in [Traders -> Int]
  BY BalanceAssumption DEF InitMem
<1>3. InitMem \in Memory
  <2>1. InitMem = [bal |-> InitMem.bal, frozen |-> InitMem.frozen, pos |-> InitMem.pos,
                   lastPos |-> InitMem.lastPos, bought |-> InitMem.bought,
                   paid |-> InitMem.paid, fees |-> InitMem.fees, lost |-> InitMem.lost]
    BY DEF InitMem
  <2> QED
    BY <1>1, <1>2, <2>1 DEF Memory
<1> QED
  BY <1>1, <1>3 DEF MemOK

\* What MemOK says of the positions.
LEMMA MemPos ==
  ASSUME NEW m, MemOK(m)
  PROVE  /\ m.lastPos \in Nat
         /\ m.pos = [i \in DOMAIN m.pos |-> m.pos[i]]
         /\ DOMAIN m.pos \subseteq 1 .. m.lastPos
         /\ IsFiniteSet(DOMAIN m.pos)
         /\ \A i \in DOMAIN m.pos : m.pos[i] \in Position
<1>1. m.lastPos \in Nat /\ m.pos \in PosMaps /\ DOMAIN m.pos \subseteq 1 .. m.lastPos
  BY DEF MemOK, Memory
<1>2. IsFiniteSet(1 .. m.lastPos)
  BY <1>1, FS_Interval
<1>3. IsFiniteSet(DOMAIN m.pos)
  BY <1>1, <1>2, FS_Subset
<1> QED
  BY <1>1, <1>3, PosMapsDef

-----------------------------------------------------------------------------
(* What a user holds, when one position changes.                           *)

SignedAt(m, i) == IF i \in DOMAIN m.pos THEN m.pos[i].side * m.pos[i].qty ELSE 0

HeldAt(m, i) ==
  IF i \in DOMAIN m.pos
  THEN m.pos[i].margin - m.pos[i].side * m.pos[i].qty * m.pos[i].entry ELSE 0

KeptAt(m, i) == IF i \in DOMAIN m.pos THEN m.pos[i].funding ELSE 0

\* From m to n only position i, which belongs to u, appears, changes or goes.
OnlyAt(m, n, i, u) ==
  /\ DOMAIN m.pos \ {i} = DOMAIN n.pos \ {i}
  /\ \A j \in DOMAIN m.pos \ {i} : n.pos[j] = m.pos[j]
  /\ i \in DOMAIN m.pos => m.pos[i].user = u
  /\ i \in DOMAIN n.pos => n.pos[i].user = u

LEMMA HeldByFinite ==
  ASSUME NEW m, MemOK(m), NEW u
  PROVE  HeldBy(m, u) \subseteq DOMAIN m.pos /\ IsFiniteSet(HeldBy(m, u))
<1>1. IsFiniteSet(DOMAIN m.pos)
  BY MemPos
<1>2. HeldBy(m, u) \subseteq DOMAIN m.pos
  BY DEF HeldBy
<1> QED
  BY <1>1, <1>2, FS_Subset

LEMMA PositionInts ==
  ASSUME NEW p \in Position
  PROVE  /\ p.side * p.qty \in Int
         /\ p.margin - p.side * p.qty * p.entry \in Int
         /\ p.funding \in Int
<1>1. /\ p.side \in Int /\ p.qty \in Int /\ p.margin \in Int /\ p.entry \in Int
      /\ p.funding \in Int
  BY DEF Position, Sides, Long, Short
<1>2. p.side * p.qty \in Int
  BY <1>1
<1> QED
  BY <1>1, <1>2

LEMMA HoldingsInt ==
  ASSUME NEW m, MemOK(m), NEW u
  PROVE  Net(m, u) \in Int /\ Held(m, u) \in Int /\ Kept(m, u) \in Int
<1> DEFINE f == [i \in DOMAIN m.pos |-> m.pos[i].side * m.pos[i].qty]
           g == [i \in DOMAIN m.pos |->
                   m.pos[i].margin - m.pos[i].side * m.pos[i].qty * m.pos[i].entry]
           h == [i \in DOMAIN m.pos |-> m.pos[i].funding]
           S == HeldBy(m, u)
<1>1. IsFiniteSet(S)
  BY HeldByFinite
<1>2. \A i \in S : f[i] \in Int /\ g[i] \in Int /\ h[i] \in Int
  BY HeldByFinite, MemPos, PositionInts
<1>3. Net(m, u) = SumFunctionOnSet(f, S)
  BY DEF Net
<1>4. Held(m, u) = SumFunctionOnSet(g, S)
  BY DEF Held
<1>5. Kept(m, u) = SumFunctionOnSet(h, S)
  BY DEF Kept
<1> HIDE DEF f, g, h, S
<1>6. SumFunctionOnSet(f, S) \in Int
  BY <1>1, <1>2, SumInt
<1>7. SumFunctionOnSet(g, S) \in Int
  BY <1>1, <1>2, SumInt
<1>8. SumFunctionOnSet(h, S) \in Int
  BY <1>1, <1>2, SumInt
<1> QED
  BY <1>3, <1>4, <1>5, <1>6, <1>7, <1>8

\* One position makes all the difference.
LEMMA OnePosition ==
  ASSUME NEW m, MemOK(m), NEW n, MemOK(n), NEW i, NEW u, OnlyAt(m, n, i, u), NEW v
  PROVE  /\ Net(n, v)  = Net(m, v)  + IF v = u THEN SignedAt(n, i) - SignedAt(m, i) ELSE 0
         /\ Held(n, v) = Held(m, v) + IF v = u THEN HeldAt(n, i) - HeldAt(m, i) ELSE 0
         /\ Kept(n, v) = Kept(m, v) + IF v = u THEN KeptAt(n, i) - KeptAt(m, i) ELSE 0
<1> DEFINE f1 == [j \in DOMAIN m.pos |-> m.pos[j].side * m.pos[j].qty]
           f2 == [j \in DOMAIN n.pos |-> n.pos[j].side * n.pos[j].qty]
           g1 == [j \in DOMAIN m.pos |->
                    m.pos[j].margin - m.pos[j].side * m.pos[j].qty * m.pos[j].entry]
           g2 == [j \in DOMAIN n.pos |->
                    n.pos[j].margin - n.pos[j].side * n.pos[j].qty * n.pos[j].entry]
           h1 == [j \in DOMAIN m.pos |-> m.pos[j].funding]
           h2 == [j \in DOMAIN n.pos |-> n.pos[j].funding]
           S == HeldBy(m, v)
           T == HeldBy(n, v)
<1>1. IsFiniteSet(S) /\ IsFiniteSet(T) /\ S \subseteq DOMAIN m.pos /\ T \subseteq DOMAIN n.pos
  BY HeldByFinite
<1>2. \A j \in S : f1[j] \in Int /\ g1[j] \in Int /\ h1[j] \in Int
  BY <1>1, MemPos, PositionInts
<1>3. \A j \in T : f2[j] \in Int /\ g2[j] \in Int /\ h2[j] \in Int
  BY <1>1, MemPos, PositionInts
<1>4. S \ {i} = T \ {i}
  BY DEF OnlyAt, HeldBy
<1>5. \A j \in S \ {i} : f1[j] = f2[j] /\ g1[j] = g2[j] /\ h1[j] = h2[j]
  BY <1>1, <1>4 DEF OnlyAt
<1>6. /\ Net(m, v)  = SumFunctionOnSet(f1, S) /\ Net(n, v)  = SumFunctionOnSet(f2, T)
      /\ Held(m, v) = SumFunctionOnSet(g1, S) /\ Held(n, v) = SumFunctionOnSet(g2, T)
      /\ Kept(m, v) = SumFunctionOnSet(h1, S) /\ Kept(n, v) = SumFunctionOnSet(h2, T)
  BY DEF Net, Held, Kept
<1>7. CASE v = u
  <2>1. i \in S <=> i \in DOMAIN m.pos
    BY <1>7 DEF OnlyAt, HeldBy
  <2>2. i \in T <=> i \in DOMAIN n.pos
    BY <1>7 DEF OnlyAt, HeldBy
  <2>3. /\ ValueAt(f1, S, i) = SignedAt(m, i) /\ ValueAt(f2, T, i) = SignedAt(n, i)
        /\ ValueAt(g1, S, i) = HeldAt(m, i) /\ ValueAt(g2, T, i) = HeldAt(n, i)
        /\ ValueAt(h1, S, i) = KeptAt(m, i) /\ ValueAt(h2, T, i) = KeptAt(n, i)
    BY <2>1, <2>2 DEF ValueAt, SignedAt, HeldAt, KeptAt
  <2> HIDE DEF f1, f2, g1, g2, h1, h2, S, T
  <2>4. SumFunctionOnSet(f2, T) = SumFunctionOnSet(f1, S) + (ValueAt(f2, T, i) - ValueAt(f1, S, i))
    BY <1>1, <1>2, <1>3, <1>4, <1>5, SumMove
  <2>5. SumFunctionOnSet(g2, T) = SumFunctionOnSet(g1, S) + (ValueAt(g2, T, i) - ValueAt(g1, S, i))
    BY <1>1, <1>2, <1>3, <1>4, <1>5, SumMove
  <2>6. SumFunctionOnSet(h2, T) = SumFunctionOnSet(h1, S) + (ValueAt(h2, T, i) - ValueAt(h1, S, i))
    BY <1>1, <1>2, <1>3, <1>4, <1>5, SumMove
  <2> QED
    BY <1>6, <1>7, <2>3, <2>4, <2>5, <2>6
<1>8. CASE v # u
  <2>1. i \notin S /\ i \notin T
    BY <1>8 DEF OnlyAt, HeldBy
  <2> HIDE DEF f1, f2, g1, g2, h1, h2, S, T
  <2>2. S = T /\ \A j \in S : f1[j] = f2[j] /\ g1[j] = g2[j] /\ h1[j] = h2[j]
    BY <1>4, <1>5, <2>1
  <2>3. SumFunctionOnSet(f1, S) = SumFunctionOnSet(f2, S)
    BY <1>1, <2>2, SumSame
  <2>4. SumFunctionOnSet(g1, S) = SumFunctionOnSet(g2, S)
    BY <1>1, <2>2, SumSame
  <2>5. SumFunctionOnSet(h1, S) = SumFunctionOnSet(h2, S)
    BY <1>1, <2>2, SumSame
  <2>6. Net(m, v) \in Int /\ Held(m, v) \in Int /\ Kept(m, v) \in Int
    BY HoldingsInt
  <2>7. Net(n, v) = Net(m, v) /\ Held(n, v) = Held(m, v) /\ Kept(n, v) = Kept(m, v)
    BY <1>6, <2>2, <2>3, <2>4, <2>5
  <2> QED
    BY <1>8, <2>6, <2>7
<1> QED
  BY <1>7, <1>8

\* Memories with the same positions.
LEMMA SameHoldings ==
  ASSUME NEW m, NEW n, n.pos = m.pos, NEW v
  PROVE  Net(n, v) = Net(m, v) /\ Held(n, v) = Held(m, v) /\ Kept(n, v) = Kept(m, v)
BY DEF Net, Held, Kept, HeldBy

-----------------------------------------------------------------------------
(* What one side of a trade does.                                          *)

\* All that a user has, and has had: see FundingAccounted and MoneyConserved.
Wealth(m, u) == m.bal[u] + Held(m, u) + m.paid[u] + m.fees[u] + Kept(m, u)

\* From m to n user u was to get the signed quantity d: what is not in his
\* position is lost, and nobody else holds anything else.
Traded(m, n, u, d) ==
  /\ MemOK(n)
  /\ n.frozen = m.frozen
  /\ \A v \in Traders : Net(n, v) - n.bought[v] = Net(m, v) - m.bought[v]
  /\ \A v \in Traders :
       Net(n, v) + n.lost[v] = Net(m, v) + m.lost[v] + IF v = u THEN d ELSE 0

\* From m to n nobody has become richer or poorer.
EvenMoney(m, n) == \A v \in Traders : Wealth(n, v) = Wealth(m, v)

\* The fields of memory.
LEMMA MemFields ==
  ASSUME NEW m, MemOK(m), NEW v \in Traders
  PROVE  /\ m.bal[v] \in Int /\ m.frozen[v] \in Nat /\ m.bought[v] \in Int
         /\ m.paid[v] \in Int /\ m.fees[v] \in Int /\ m.lost[v] \in Int
BY DEF MemOK, Memory

LEMMA TradedTwice ==
  ASSUME NEW m, MemOK(m), NEW n, NEW o, NEW u, NEW d \in Int, NEW e \in Int,
         Traded(m, n, u, d), Traded(n, o, u, e)
  PROVE  Traded(m, o, u, d + e)
<1>1. MemOK(n) /\ MemOK(o) /\ o.frozen = m.frozen
  BY DEF Traded
<1>2. ASSUME NEW v \in Traders
      PROVE  /\ Net(o, v) - o.bought[v] = Net(m, v) - m.bought[v]
             /\ Net(o, v) + o.lost[v] = Net(m, v) + m.lost[v] + IF v = u THEN d + e ELSE 0
  <2>1. /\ Net(m, v) \in Int /\ Net(n, v) \in Int /\ Net(o, v) \in Int
    BY <1>1, HoldingsInt
  <2>2. /\ m.lost[v] \in Int /\ n.lost[v] \in Int /\ o.lost[v] \in Int
        /\ m.bought[v] \in Int /\ n.bought[v] \in Int /\ o.bought[v] \in Int
    BY <1>1, MemFields
  <2>3. /\ Net(n, v) - n.bought[v] = Net(m, v) - m.bought[v]
        /\ Net(n, v) + n.lost[v] = Net(m, v) + m.lost[v] + IF v = u THEN d ELSE 0
    BY DEF Traded
  <2>4. /\ Net(o, v) - o.bought[v] = Net(n, v) - n.bought[v]
        /\ Net(o, v) + o.lost[v] = Net(n, v) + n.lost[v] + IF v = u THEN e ELSE 0
    BY DEF Traded
  <2>5. CASE v = u
    BY <2>1, <2>2, <2>3, <2>4, <2>5
  <2>6. CASE v # u
    BY <2>1, <2>2, <2>3, <2>4, <2>6
  <2> QED
    BY <2>5, <2>6
<1> QED
  BY <1>1, <1>2 DEF Traded

\* From f to g only u gets something, d.
Adds(f, g, u, d) == g = [f EXCEPT ![u] = @ + d]

LEMMA AddsTo ==
  ASSUME NEW f \in [Traders -> Int], NEW g, NEW u \in Traders, NEW d \in Int, Adds(f, g, u, d)
  PROVE  /\ g \in [Traders -> Int]
         /\ \A v \in Traders : g[v] = f[v] + IF v = u THEN d ELSE 0
BY DEF Adds

\* A position of u that changed, and his purchases with it.
LEMMA PositionTraded ==
  ASSUME NEW m, MemOK(m), NEW n, MemOK(n), NEW i, NEW u \in Traders, OnlyAt(m, n, i, u),
         NEW d \in Int, SignedAt(n, i) = SignedAt(m, i) + d, SignedAt(m, i) \in Int,
         n.frozen = m.frozen, n.lost = m.lost,
         Adds(m.bought, n.bought, u, d)
  PROVE  Traded(m, n, u, d)
<1> SUFFICES ASSUME NEW v \in Traders
             PROVE  /\ Net(n, v) - n.bought[v] = Net(m, v) - m.bought[v]
                    /\ Net(n, v) + n.lost[v] = Net(m, v) + m.lost[v] + IF v = u THEN d ELSE 0
  BY DEF Traded
<1>1. Net(m, v) \in Int /\ m.lost[v] \in Int /\ m.bought[v] \in Int
  BY HoldingsInt, MemFields
<1>2. Net(n, v) = Net(m, v) + IF v = u THEN SignedAt(n, i) - SignedAt(m, i) ELSE 0
  BY OnePosition
<1>3. n.bought[v] = m.bought[v] + IF v = u THEN d ELSE 0
  BY <1>1 DEF MemOK, Memory, Adds
<1>4. CASE v = u
  BY <1>1, <1>2, <1>3, <1>4
<1>5. CASE v # u
  BY <1>1, <1>2, <1>3, <1>5
<1> QED
  BY <1>4, <1>5

\* A position of u that changed, and his money with it.
LEMMA PositionPaid ==
  ASSUME NEW m, MemOK(m), NEW n, MemOK(n), NEW i, NEW u \in Traders, OnlyAt(m, n, i, u),
         HeldAt(m, i) \in Int, HeldAt(n, i) \in Int, KeptAt(m, i) \in Int, KeptAt(n, i) \in Int,
         NEW b \in Int, NEW p \in Int, NEW f \in Int,
         Adds(m.bal, n.bal, u, b), Adds(m.paid, n.paid, u, p), Adds(m.fees, n.fees, u, f),
         b + p + f + (HeldAt(n, i) - HeldAt(m, i)) + (KeptAt(n, i) - KeptAt(m, i)) = 0
  PROVE  EvenMoney(m, n)
<1> SUFFICES ASSUME NEW v \in Traders
             PROVE  Wealth(n, v) = Wealth(m, v)
  BY DEF EvenMoney
<1>1. Held(m, v) \in Int /\ Kept(m, v) \in Int
  BY HoldingsInt
<1>2. m.bal[v] \in Int /\ m.paid[v] \in Int /\ m.fees[v] \in Int
  BY MemFields
<1>3. /\ Held(n, v) = Held(m, v) + IF v = u THEN HeldAt(n, i) - HeldAt(m, i) ELSE 0
      /\ Kept(n, v) = Kept(m, v) + IF v = u THEN KeptAt(n, i) - KeptAt(m, i) ELSE 0
  BY OnePosition
<1>4. /\ n.bal[v] = m.bal[v] + IF v = u THEN b ELSE 0
      /\ n.paid[v] = m.paid[v] + IF v = u THEN p ELSE 0
      /\ n.fees[v] = m.fees[v] + IF v = u THEN f ELSE 0
  BY <1>2 DEF MemOK, Memory, Adds
<1>5. CASE v = u
  BY <1>1, <1>2, <1>3, <1>4, <1>5 DEF Wealth
<1>6. CASE v # u
  BY <1>1, <1>2, <1>3, <1>4, <1>6 DEF Wealth
<1> QED
  BY <1>5, <1>6

-----------------------------------------------------------------------------
(* Arithmetic of the clearing layer.                                       *)

LEMMA FeeNat == ASSUME NEW x \in Nat, NEW isMaker PROVE CalcFee(x, isMaker) \in Nat
BY FeeAssumption DEF CalcFee

LEMMA ProductNat == ASSUME NEW x \in Nat, NEW y \in Nat PROVE x * y \in Nat
OBVIOUS

LEMMA QuotientNat == ASSUME NEW x \in Nat, NEW y \in Nat \ {0} PROVE x \div y \in Nat
OBVIOUS

LEMMA ProductLess ==
  ASSUME NEW a \in Nat, NEW b \in Nat, NEW c \in Nat, b <= c
  PROVE  a * b <= a * c
OBVIOUS

\* A share of a is no more than a, and all of a when it is the whole.
LEMMA Share ==
  ASSUME NEW a \in Nat, NEW q \in Nat, NEW n \in Nat \ {0}, q <= n
  PROVE  (a * q) \div n \in 0 .. a
<1>1. a * q \in Nat /\ a * n \in Nat /\ a * q <= a * n
  BY ProductNat, ProductLess
<1> DEFINE d == (a * q) \div n
<1>2. d \in Nat
  BY <1>1, QuotientNat
<1>3. n * d <= a * q
  BY <1>1
<1> HIDE DEF d
<1>4. ASSUME d > a PROVE FALSE
  <2>1. n * (a + 1) <= n * d
    BY <1>2, <1>4, ProductLess
  <2>2. n * (a + 1) = a * n + n
    OBVIOUS
  <2> QED
    BY <1>1, <1>2, <1>3, <2>1, <2>2
<1> QED
  BY <1>2, <1>4 DEF d

LEMMA WholeShare == ASSUME NEW a \in Int, NEW n \in Nat \ {0} PROVE (a * n) \div n = a
OBVIOUS

LEMMA SideInt == ASSUME NEW s \in Sides PROVE s \in Int /\ -s \in Sides /\ s * s = 1
BY DEF Sides, Long, Short

-----------------------------------------------------------------------------
(* The handlers.                                                           *)

\* What a trade is about.
Terms(u, s, q, p, lev) ==
  /\ u \in Traders /\ s \in Sides /\ q \in Nat \ {0} /\ p \in Nat /\ lev \in Nat \ {0}

LEMMA LoseTraded ==
  ASSUME NEW m, MemOK(m), NEW u \in Traders, NEW s \in Sides, NEW q \in Nat
  PROVE  /\ Traded(m, Lose(m, u, s, q), u, s * q)
         /\ EvenMoney(m, Lose(m, u, s, q))
<1> DEFINE n == Lose(m, u, s, q)
           lost == [m.lost EXCEPT ![u] = @ + s * q]
<1>1. s * q \in Int
  BY SideInt
<1>2. lost \in [Traders -> Int]
  BY <1>1 DEF MemOK, Memory
<1>3. n = [m EXCEPT !.lost = lost]
  BY Zenon DEF Lose
<1> HIDE DEF n, lost
<1>4. /\ n \in Memory /\ n.pos = m.pos /\ n.lastPos = m.lastPos /\ n.frozen = m.frozen
      /\ n.bal = m.bal /\ n.bought = m.bought /\ n.paid = m.paid /\ n.fees = m.fees
      /\ n.lost = lost
  BY <1>2, <1>3 DEF MemOK, Memory
<1>5. MemOK(n)
  BY <1>4 DEF MemOK
<1>6. ASSUME NEW v \in Traders
      PROVE  /\ Net(n, v) - n.bought[v] = Net(m, v) - m.bought[v]
             /\ Net(n, v) + n.lost[v] = Net(m, v) + m.lost[v] + IF v = u THEN s * q ELSE 0
             /\ Wealth(n, v) = Wealth(m, v)
  <2>1. Net(n, v) = Net(m, v) /\ Held(n, v) = Held(m, v) /\ Kept(n, v) = Kept(m, v)
    BY <1>4, SameHoldings
  <2>2. Net(m, v) \in Int /\ m.lost[v] \in Int
    BY HoldingsInt, MemFields
  <2>3. n.lost[v] = m.lost[v] + IF v = u THEN s * q ELSE 0
    BY <1>4, <2>2 DEF lost, MemOK, Memory
  <2>4. Wealth(n, v) = Wealth(m, v)
    BY <1>4, <2>1 DEF Wealth
  <2>5. CASE v = u
    BY <1>1, <1>4, <2>1, <2>2, <2>3, <2>4, <2>5
  <2>6. CASE v # u
    BY <1>4, <2>1, <2>2, <2>3, <2>4, <2>6
  <2> QED
    BY <2>5, <2>6
<1>7. Traded(m, n, u, s * q) /\ EvenMoney(m, n)
  BY <1>4, <1>5, <1>6 DEF Traded, EvenMoney
<1> QED
  BY <1>7 DEF n

LEMMA OpenTraded ==
  ASSUME NEW m, MemOK(m), NEW u, NEW s, NEW q, NEW p, NEW lev, NEW isMaker,
         Terms(u, s, q, p, lev)
  PROVE  /\ Traded(m, HandleOpen(m, u, s, q, p, lev, isMaker), u, s * q)
         /\ EvenMoney(m, HandleOpen(m, u, s, q, p, lev, isMaker))
<1> DEFINE n   == HandleOpen(m, u, s, q, p, lev, isMaker)
           cr  == CalcOpen(p, q, lev, isMaker)
<1>0. u \in Traders /\ s \in Sides /\ q \in Nat \ {0} /\ p \in Nat /\ lev \in Nat \ {0}
  BY DEF Terms
<1>1. CASE Available(m, u) < cr.margin + cr.fee
  BY <1>0, <1>1, LoseTraded DEF HandleOpen
<1>2. CASE ~(Available(m, u) < cr.margin + cr.fee)
  <2> DEFINE id  == m.lastPos + 1
             new == [user |-> u, side |-> s, lev |-> lev, entry |-> p, qty |-> q,
                     margin |-> cr.margin, funding |-> 0, state |-> Active]
             pos == [i \in DOMAIN m.pos \cup {id} |-> IF i = id THEN new ELSE m.pos[i]]
             bal    == [m.bal EXCEPT ![u] = @ - (cr.margin + cr.fee)]
             b      == -(cr.margin + cr.fee)
             v      == s * q * p
             f      == cr.fee
             bought == [m.bought EXCEPT ![u] = @ + s * q]
             paid   == [m.paid EXCEPT ![u] = @ + s * q * p]
             fees   == [m.fees EXCEPT ![u] = @ + cr.fee]
  <2>1. n = [m EXCEPT !.bal = bal, !.lastPos = id, !.pos = pos,
                      !.bought = bought, !.paid = paid, !.fees = fees]
    BY <1>2, ZenonT(40) DEF HandleOpen
  <2>2. cr.margin \in Nat /\ cr.fee \in Nat
    BY <1>0, ProductNat, QuotientNat, FeeNat DEF CalcOpen
  <2>3. s * q \in Int /\ s * q * p \in Int
    BY <1>0, SideInt
  <2>4. new \in Position
    BY <1>0, <2>2 DEF Position
  <2>5. m.lastPos \in Nat /\ DOMAIN m.pos \subseteq 1 .. m.lastPos /\ id \in Nat
    <3>1. m.lastPos \in Nat /\ DOMAIN m.pos \subseteq 1 .. m.lastPos
      BY DEF MemOK, Memory
    <3> QED
      BY <3>1
  <2>6. id \notin DOMAIN m.pos /\ DOMAIN m.pos \cup {id} \subseteq 1 .. id
    BY <2>5
  <2>7. /\ new.user = u /\ new.side = s /\ new.qty = q /\ new.entry = p
        /\ new.margin = cr.margin /\ new.funding = 0
    OBVIOUS
  <2> HIDE DEF cr, new, id
  <2>8. /\ DOMAIN pos = DOMAIN m.pos \cup {id} /\ pos[id] = new
        /\ \A i \in DOMAIN m.pos : pos[i] = m.pos[i]
    BY <2>6
  <2>9. pos \in PosMaps
    <3>1. pos = [i \in DOMAIN pos |-> pos[i]]
      OBVIOUS
    <3>2. \A i \in DOMAIN pos : pos[i] \in Position
      BY <2>4, <2>8, MemPos
    <3>3. DOMAIN pos \subseteq Nat
      BY <2>6, <2>8
    <3> HIDE DEF pos
    <3> QED
      BY <3>1, <3>2, <3>3, PosMapsDef
  <2>10. /\ Adds(m.bal, bal, u, b) /\ Adds(m.bought, bought, u, s * q)
         /\ Adds(m.paid, paid, u, v) /\ Adds(m.fees, fees, u, f)
         /\ b \in Int /\ v \in Int /\ f \in Int
    <3>1. m.bal \in [Traders -> Int]
      BY DEF MemOK, Memory
    <3>2. b \in Int /\ v \in Int /\ f \in Int /\ m.bal[u] - (cr.margin + cr.fee) = m.bal[u] + b
      BY <1>0, <2>2, <2>3, <3>1
    <3> QED
      BY <3>2, Zenon DEF Adds
  <2> HIDE DEF n, pos, bal, bought, paid, fees, b, v, f
  <2>11. /\ n \in Memory /\ n.bal = bal /\ n.lastPos = id /\ n.pos = pos /\ n.bought = bought
         /\ n.paid = paid /\ n.fees = fees /\ n.lost = m.lost /\ n.frozen = m.frozen
    <3>1. /\ bal \in [Traders -> Int] /\ bought \in [Traders -> Int]
          /\ paid \in [Traders -> Int] /\ fees \in [Traders -> Int]
      BY <1>0, <2>3, <2>10, AddsTo DEF MemOK, Memory
    <3> QED
      BY <2>1, <2>5, <2>9, <3>1 DEF MemOK, Memory
  <2>12. MemOK(n)
    BY <2>6, <2>8, <2>11 DEF MemOK
  <2>13. OnlyAt(m, n, id, u)
    BY <2>6, <2>7, <2>8, <2>11 DEF OnlyAt
  <2>14. SignedAt(m, id) = 0 /\ HeldAt(m, id) = 0 /\ KeptAt(m, id) = 0
    BY <2>6 DEF SignedAt, HeldAt, KeptAt
  <2>15. SignedAt(n, id) = s * q /\ HeldAt(n, id) = cr.margin - s * q * p /\ KeptAt(n, id) = 0
    BY <2>7, <2>8, <2>11 DEF SignedAt, HeldAt, KeptAt
  <2>16. SignedAt(n, id) = SignedAt(m, id) + s * q
    BY <2>3, <2>14, <2>15
  <2>17. Traded(m, n, u, s * q)
    BY <1>0, <2>3, <2>10, <2>11, <2>12, <2>13, <2>14, <2>16, PositionTraded
  <2>18. b + v + f + (HeldAt(n, id) - HeldAt(m, id)) + (KeptAt(n, id) - KeptAt(m, id)) = 0
    BY <2>2, <2>3, <2>14, <2>15 DEF b, v, f
  <2>19. /\ HeldAt(m, id) \in Int /\ KeptAt(m, id) \in Int
         /\ HeldAt(n, id) \in Int /\ KeptAt(n, id) \in Int
    BY <2>2, <2>3, <2>14, <2>15
  <2>20. EvenMoney(m, n)
    BY <1>0, <2>10, <2>11, <2>12, <2>13, <2>18, <2>19, PositionPaid
  <2> QED
    BY <2>17, <2>20 DEF n
<1> QED
  BY <1>1, <1>2

\* What CalcReduce gives: a share of the position that is all of it or leaves
\* some, and the profit and funding that go with it.
LEMMA ReduceShares ==
  ASSUME NEW old \in Position, NEW p \in Nat, NEW q \in Nat \ {0}
  PROVE  LET cr == CalcReduce(old, p, q)
         IN  /\ cr.qty \in 1 .. old.qty /\ cr.qty <= q
             /\ q > old.qty => cr.qty = old.qty
             /\ cr.qty = old.qty \/ cr.qty = q
             /\ cr.full <=> cr.qty = old.qty
             /\ cr.full \in BOOLEAN
             /\ cr.margin \in 0 .. old.margin /\ cr.funding \in Int /\ cr.fee \in Nat
             /\ cr.full => cr.margin = old.margin /\ cr.funding = old.funding
             /\ cr.net = (p - old.entry) * cr.qty * old.side - cr.fee + cr.funding
             /\ cr.net \in Int
<1> DEFINE qty == IF q < old.qty THEN q ELSE old.qty
           raw == CalcUnrealizedPnL(old.entry, p, qty, old.side)
           fee == CalcFee(qty * p, FALSE)
           due == (old.funding * qty) \div old.qty
           mar == (old.margin * qty) \div old.qty
           cr  == CalcReduce(old, p, q)
<1>1. cr = [qty |-> qty, margin |-> mar, funding |-> due, fee |-> fee,
            net |-> raw - fee + due, full |-> qty = old.qty]
  BY Zenon DEF CalcReduce
<1>2. /\ old.qty \in Nat \ {0} /\ old.margin \in Nat /\ old.funding \in Int
      /\ old.entry \in Nat /\ old.side \in Sides
  BY DEF Position
<1>3. /\ qty \in Nat \ {0} /\ qty \in 1 .. old.qty /\ qty <= q
      /\ (q > old.qty => qty = old.qty) /\ (qty = old.qty \/ qty = q)
  BY <1>2
<1> HIDE DEF qty
<1>4. mar \in 0 .. old.margin
  BY <1>2, <1>3, Share
<1>5. old.funding * qty \in Int
  BY <1>2, <1>3
<1>6. due \in Int
  BY <1>2, <1>5
<1>7. fee \in Nat
  BY <1>3, FeeNat, ProductNat
<1>8. qty = old.qty => mar = old.margin /\ due = old.funding
  BY <1>2, WholeShare
<1>9. raw = (p - old.entry) * qty * old.side
  BY DEF CalcUnrealizedPnL
<1>10. (p - old.entry) * qty \in Int
  BY <1>2, <1>3
<1>11. raw \in Int
  <2>1. old.side \in Int
    BY <1>2, SideInt
  <2> HIDE DEF raw
  <2> QED
    BY <1>9, <1>10, <2>1
<1> HIDE DEF raw, fee, due, mar
<1>12. /\ cr.qty = qty /\ cr.margin = mar /\ cr.funding = due /\ cr.fee = fee
       /\ cr.net = raw - fee + due /\ cr.full = (qty = old.qty)
  BY <1>1
<1> HIDE DEF cr
<1>13. /\ cr.qty \in 1 .. old.qty /\ cr.qty <= q
       /\ q > old.qty => cr.qty = old.qty
       /\ cr.qty = old.qty \/ cr.qty = q
       /\ cr.full <=> cr.qty = old.qty
       /\ cr.full \in BOOLEAN
       /\ cr.margin \in 0 .. old.margin /\ cr.funding \in Int /\ cr.fee \in Nat
       /\ cr.full => cr.margin = old.margin /\ cr.funding = old.funding
  BY <1>3, <1>4, <1>6, <1>7, <1>8, <1>12
<1>14. /\ cr.net = (p - old.entry) * cr.qty * old.side - cr.fee + cr.funding
       /\ cr.net \in Int
  BY <1>6, <1>7, <1>9, <1>11, <1>12
<1> QED
  BY <1>13, <1>14 DEF cr

\* A close comes out even.
LEMMA ReduceEven ==
  ASSUME NEW side \in Sides, NEW p \in Int, NEW e \in Int, NEW q \in Int, NEW qty \in Int,
         NEW mar \in Int, NEW cm \in Int, NEW fund \in Int, NEW due \in Int, NEW fee \in Int
  PROVE  (cm + ((p - e) * q * side - fee + due)) + (-side) * q * p + fee
           + ((mar - cm - side * (qty - q) * e) - (mar - side * qty * e))
           + ((fund - due) - fund) = 0
<1>1. CASE side = 1
  BY <1>1
<1>2. CASE side = -1
  BY <1>2
<1> QED
  BY <1>1, <1>2 DEF Sides, Long, Short

LEMMA OppositeSide ==
  ASSUME NEW s \in Sides, NEW t \in Sides, t = -s
  PROVE  s = -t
BY DEF Sides, Long, Short

LEMMA SideTimes ==
  ASSUME NEW s \in Sides, NEW x \in Int, NEW y \in Int
  PROVE  s * x + s * y = s * (x + y) /\ s * x \in Int
BY DEF Sides, Long, Short

\* HandleReduce, before what the trade has left over opens a position.
Reduced(m, i, s, q, p) ==
  LET old  == m.pos[i]
      cr   == CalcReduce(old, p, q)
      rest == [old EXCEPT !.qty     = old.qty - cr.qty,
                          !.margin  = old.margin - cr.margin,
                          !.funding = old.funding - cr.funding,
                          !.state   = Active]
  IN  [m EXCEPT !.bal[old.user]    = @ + cr.margin + cr.net,
                !.pos              = IF cr.full
                                     THEN Restrict(m.pos, DOMAIN m.pos \ {i})
                                     ELSE [m.pos EXCEPT ![i] = rest],
                !.bought[old.user] = @ + s * cr.qty,
                !.paid[old.user]   = @ + s * cr.qty * p,
                !.fees[old.user]   = @ + cr.fee]

LEMMA ReducedTraded ==
  ASSUME NEW m, MemOK(m), NEW i \in DOMAIN m.pos, NEW s \in Sides, NEW q \in Nat \ {0},
         NEW p \in Nat, m.pos[i].side = -s
  PROVE  /\ Traded(m, Reduced(m, i, s, q, p), m.pos[i].user,
                   s * CalcReduce(m.pos[i], p, q).qty)
         /\ EvenMoney(m, Reduced(m, i, s, q, p))
<1> DEFINE old  == m.pos[i]
           u    == old.user
           cr   == CalcReduce(old, p, q)
           rest == [old EXCEPT !.qty     = old.qty - cr.qty,
                               !.margin  = old.margin - cr.margin,
                               !.funding = old.funding - cr.funding,
                               !.state   = Active]
           n    == Reduced(m, i, s, q, p)
           pos  == IF cr.full THEN Restrict(m.pos, DOMAIN m.pos \ {i})
                   ELSE [m.pos EXCEPT ![i] = rest]
           bal    == [m.bal EXCEPT ![u] = @ + cr.margin + cr.net]
           bought == [m.bought EXCEPT ![u] = @ + s * cr.qty]
           paid   == [m.paid EXCEPT ![u] = @ + s * cr.qty * p]
           fees   == [m.fees EXCEPT ![u] = @ + cr.fee]
           b == cr.margin + cr.net
           d == s * cr.qty
           v == s * cr.qty * p
           f == cr.fee
<1>1. n = [m EXCEPT !.bal = bal, !.pos = pos, !.bought = bought, !.paid = paid, !.fees = fees]
  BY ZenonT(40) DEF Reduced
<1>2. /\ old \in Position /\ m.lastPos \in Nat
      /\ m.pos = [j \in DOMAIN m.pos |-> m.pos[j]]
      /\ DOMAIN m.pos \subseteq 1 .. m.lastPos
      /\ \A j \in DOMAIN m.pos : m.pos[j] \in Position
  BY MemPos
<1>3. /\ u \in Traders /\ old.side \in Sides /\ old.qty \in Nat \ {0} /\ old.margin \in Nat
      /\ old.funding \in Int /\ old.entry \in Nat
  BY <1>2 DEF Position
<1>4. /\ cr.qty \in 1 .. old.qty /\ (cr.full <=> cr.qty = old.qty) /\ cr.full \in BOOLEAN
      /\ cr.margin \in 0 .. old.margin /\ cr.funding \in Int /\ cr.fee \in Nat
      /\ (cr.full => cr.margin = old.margin /\ cr.funding = old.funding)
      /\ cr.net = (p - old.entry) * cr.qty * old.side - cr.fee + cr.funding
      /\ cr.net \in Int
  BY <1>2, ReduceShares
<1> HIDE DEF n, pos, bal, bought, paid, fees, b, d, v, f
<1>5. ~cr.full => /\ rest \in Position /\ rest.user = u /\ rest.side = old.side
                  /\ rest.qty = old.qty - cr.qty /\ rest.margin = old.margin - cr.margin
                  /\ rest.funding = old.funding - cr.funding /\ rest.entry = old.entry
  <2> HIDE DEF cr
  <2> SUFFICES ASSUME ~cr.full
               PROVE  /\ rest \in Position /\ rest.user = u /\ rest.side = old.side
                      /\ rest.qty = old.qty - cr.qty /\ rest.margin = old.margin - cr.margin
                      /\ rest.funding = old.funding - cr.funding /\ rest.entry = old.entry
    OBVIOUS
  <2>0. /\ cr.qty # old.qty /\ cr.qty \in 1 .. old.qty /\ cr.margin \in 0 .. old.margin
        /\ cr.funding \in Int
    BY <1>4, Zenon
  <2>1. /\ old.qty - cr.qty \in Nat \ {0} /\ old.margin - cr.margin \in Nat
        /\ old.funding - cr.funding \in Int
    BY <1>3, <2>0
  <2> QED
    BY <1>2, <2>1 DEF Position
<1>6. s * cr.qty \in Int /\ s * cr.qty * p \in Int
  BY <1>3, <1>4, SideInt
<1> USE DEF bal, bought, paid, fees, b, d, v, f
<1>7. /\ Adds(m.bal, bal, u, b) /\ Adds(m.bought, bought, u, d)
      /\ Adds(m.paid, paid, u, v) /\ Adds(m.fees, fees, u, f)
      /\ b \in Int /\ d \in Int /\ v \in Int /\ f \in Int
  <2> HIDE DEF cr
  <2>1. m.bal \in [Traders -> Int]
    BY DEF MemOK, Memory
  <2>2. cr.margin \in Int /\ cr.net \in Int /\ cr.fee \in Int
    BY <1>4
  <2>3. b \in Int /\ d \in Int /\ v \in Int /\ f \in Int
    BY <1>6, <2>2
  <2>4. m.bal[u] + cr.margin + cr.net = m.bal[u] + b
    BY <1>3, <2>1, <2>2
  <2> QED
    BY <2>3, <2>4, Zenon DEF Adds
<1> HIDE DEF cr, rest, bal, bought, paid, fees, b, d, v, f
<1> USE DEF pos
<1>8. /\ DOMAIN pos = IF cr.full THEN DOMAIN m.pos \ {i} ELSE DOMAIN m.pos
      /\ \A j \in DOMAIN m.pos \ {i} : pos[j] = m.pos[j]
      /\ ~cr.full => pos[i] = rest
      /\ pos = [j \in DOMAIN pos |-> pos[j]]
  BY <1>2, <1>4 DEF Restrict
<1> HIDE DEF pos
<1>9. pos \in PosMaps /\ DOMAIN pos \subseteq 1 .. m.lastPos
  <2>1. DOMAIN pos \subseteq DOMAIN m.pos /\ DOMAIN pos \subseteq Nat
    BY <1>2, <1>8
  <2>2. \A j \in DOMAIN pos : pos[j] \in Position
    BY <1>2, <1>4, <1>5, <1>8
  <2> QED
    BY <1>2, <1>8, <2>1, <2>2, PosMapsDef
<1>10. /\ n \in Memory /\ n.bal = bal /\ n.lastPos = m.lastPos /\ n.pos = pos
       /\ n.bought = bought /\ n.paid = paid /\ n.fees = fees /\ n.lost = m.lost
       /\ n.frozen = m.frozen
  <2>1. /\ bal \in [Traders -> Int] /\ bought \in [Traders -> Int]
        /\ paid \in [Traders -> Int] /\ fees \in [Traders -> Int]
    BY <1>3, <1>7, AddsTo DEF MemOK, Memory
  <2> QED
    BY <1>1, <1>9, <2>1 DEF MemOK, Memory
<1>11. MemOK(n)
  BY <1>9, <1>10 DEF MemOK
<1>12. OnlyAt(m, n, i, u)
  BY <1>4, <1>5, <1>8, <1>10 DEF OnlyAt
<1>13. /\ SignedAt(m, i) = old.side * old.qty
       /\ HeldAt(m, i) = old.margin - old.side * old.qty * old.entry
       /\ KeptAt(m, i) = old.funding
  BY DEF SignedAt, HeldAt, KeptAt
<1>14. /\ SignedAt(n, i) = old.side * (old.qty - cr.qty)
       /\ HeldAt(n, i) = (old.margin - cr.margin) - old.side * (old.qty - cr.qty) * old.entry
       /\ KeptAt(n, i) = old.funding - cr.funding
  <2>1. CASE cr.full
    <3>1. i \notin DOMAIN n.pos
      BY <1>8, <1>10, <2>1
    <3>2. SignedAt(n, i) = 0 /\ HeldAt(n, i) = 0 /\ KeptAt(n, i) = 0
      BY <3>1 DEF SignedAt, HeldAt, KeptAt
    <3>3. cr.qty = old.qty /\ cr.margin = old.margin /\ cr.funding = old.funding
      BY <1>4, <2>1
    <3>4. old.qty - cr.qty = 0 /\ old.margin - cr.margin = 0 /\ old.funding - cr.funding = 0
      BY <1>3, <3>3
    <3>5. old.side * 0 = 0 /\ old.side * 0 * old.entry = 0
      BY <1>3, SideInt
    <3> QED
      BY <3>2, <3>4, <3>5
  <2>2. CASE ~cr.full
    <3>1. i \in DOMAIN n.pos /\ n.pos[i] = rest
      BY <1>8, <1>10, <2>2
    <3> QED
      BY <1>5, <2>2, <3>1 DEF SignedAt, HeldAt, KeptAt
  <2> QED
    BY <1>4, <2>1, <2>2
<1>15. s = -old.side
  BY <1>3, OppositeSide
<1>16. /\ SignedAt(m, i) \in Int /\ HeldAt(m, i) \in Int /\ KeptAt(m, i) \in Int
       /\ HeldAt(n, i) \in Int /\ KeptAt(n, i) \in Int
  <2>1. /\ old.side \in Int /\ old.qty - cr.qty \in Int /\ old.margin - cr.margin \in Int
        /\ old.funding - cr.funding \in Int
    BY <1>3, <1>4, SideInt
  <2>2. old.side * old.qty \in Int /\ old.side * (old.qty - cr.qty) \in Int
    BY <1>3, <2>1
  <2>3. old.side * old.qty * old.entry \in Int /\ old.side * (old.qty - cr.qty) * old.entry \in Int
    BY <1>3, <2>2
  <2> QED
    BY <1>3, <1>13, <1>14, <2>1, <2>2, <2>3
<1>17. SignedAt(n, i) = SignedAt(m, i) + d
  <2>1. old.side * (old.qty - cr.qty) = old.side * old.qty + (-old.side) * cr.qty
    BY <1>3, <1>4, SideInt
  <2> QED
    BY <1>13, <1>14, <1>15, <2>1 DEF d
<1>18. b + v + f + (HeldAt(n, i) - HeldAt(m, i)) + (KeptAt(n, i) - KeptAt(m, i)) = 0
  <2>1. /\ old.entry \in Int /\ cr.qty \in Int /\ old.qty \in Int /\ old.margin \in Int
        /\ cr.margin \in Int /\ cr.fee \in Int /\ p \in Int
    BY <1>3, <1>4
  <2> DEFINE X(side, e, k, qty, mar, cm, fund, due, fee) ==
        (cm + ((p - e) * k * side - fee + due)) + (-side) * k * p + fee
          + ((mar - cm - side * (qty - k) * e) - (mar - side * qty * e))
          + ((fund - due) - fund)
  <2>2. X(old.side, old.entry, cr.qty, old.qty, old.margin, cr.margin, old.funding,
          cr.funding, cr.fee) = 0
    <3>1. \A side \in Sides : \A e, k, qty, mar, cm, fund, due, fee \in Int :
            X(side, e, k, qty, mar, cm, fund, due, fee) = 0
      BY <2>1, ReduceEven, ZenonT(30)
    <3> HIDE DEF X
    <3> QED
      BY <1>3, <1>4, <2>1, <3>1
  <2> QED
    BY <1>4, <1>13, <1>14, <1>15, <2>2 DEF b, v, f
<1>19. Traded(m, n, u, d)
  BY <1>3, <1>7, <1>10, <1>11, <1>12, <1>16, <1>17, PositionTraded
<1>20. EvenMoney(m, n)
  BY <1>3, <1>7, <1>10, <1>11, <1>12, <1>16, <1>18, PositionPaid
<1> QED
  BY <1>19, <1>20 DEF n, d, cr

LEMMA EvenMoneyTwice ==
  ASSUME NEW m, NEW n, NEW o, EvenMoney(m, n), EvenMoney(n, o)
  PROVE  EvenMoney(m, o)
BY DEF EvenMoney

LEMMA ReduceTraded ==
  ASSUME NEW m, MemOK(m), NEW i \in DOMAIN m.pos, NEW u, NEW s, NEW q, NEW p, NEW lev,
         Terms(u, s, q, p, lev), m.pos[i].user = u, m.pos[i].side = -s
  PROVE  /\ Traded(m, HandleReduce(m, i, s, q, p, lev), u, s * q)
         /\ EvenMoney(m, HandleReduce(m, i, s, q, p, lev))
<1> DEFINE n  == Reduced(m, i, s, q, p)
           k  == CalcReduce(m.pos[i], p, q).qty
           old == m.pos[i]
<1>1. u \in Traders /\ s \in Sides /\ q \in Nat \ {0} /\ p \in Nat /\ lev \in Nat \ {0}
  BY DEF Terms
<1>2. HandleReduce(m, i, s, q, p, lev)
        = IF q > old.qty THEN HandleOpen(n, u, s, q - old.qty, p, lev, FALSE) ELSE n
  BY DEF HandleReduce, Reduced
<1>3. old \in Position /\ old.qty \in Nat \ {0}
  BY MemPos DEF Position
<1>4. /\ k \in 1 .. old.qty /\ (q > old.qty => k = old.qty) /\ (k = old.qty \/ k = q)
      /\ k <= q
  <2> DEFINE cr == CalcReduce(old, p, q)
  <2>1. /\ cr.qty \in 1 .. old.qty /\ cr.qty <= q
        /\ q > old.qty => cr.qty = old.qty
        /\ cr.qty = old.qty \/ cr.qty = q
    <3> HIDE DEF old
    <3> QED
      BY <1>1, <1>3, ReduceShares
  <2> QED
    BY <2>1
<1>5. Traded(m, n, u, s * k) /\ EvenMoney(m, n)
  BY <1>1, ReducedTraded
<1> HIDE DEF n, k
<1>6. CASE q > old.qty
  <2>1. MemOK(n) /\ q - old.qty \in Nat \ {0}
    BY <1>1, <1>3, <1>5, <1>6 DEF Traded
  <2>2. Terms(u, s, q - old.qty, p, lev)
    BY <1>1, <2>1 DEF Terms
  <2>3. /\ Traded(n, HandleOpen(n, u, s, q - old.qty, p, lev, FALSE), u, s * (q - old.qty))
        /\ EvenMoney(n, HandleOpen(n, u, s, q - old.qty, p, lev, FALSE))
    BY <2>1, <2>2, OpenTraded
  <2>4. /\ s * k + s * (q - old.qty) = s * q /\ s * k \in Int
        /\ s * (q - old.qty) \in Int
    <3>1. k + (q - old.qty) = q /\ k \in Int /\ q - old.qty \in Int
      BY <1>1, <1>3, <1>4, <1>6
    <3>2. s * k + s * (q - old.qty) = s * (k + (q - old.qty))
      BY <1>1, <3>1, SideTimes
    <3> QED
      BY <1>1, <3>1, <3>2, SideInt
  <2> DEFINE o == HandleOpen(n, u, s, q - old.qty, p, lev, FALSE)
  <2> HIDE DEF o
  <2>5. Traded(m, o, u, s * k + s * (q - old.qty))
    BY <1>5, <2>3, <2>4, TradedTwice DEF o
  <2>6. EvenMoney(m, o)
    BY <1>5, <2>3, EvenMoneyTwice DEF o
  <2> QED
    BY <1>2, <1>6, <2>4, <2>5, <2>6 DEF o
<1>7. CASE ~(q > old.qty)
  <2>1. k = q
    BY <1>1, <1>3, <1>4, <1>7
  <2> QED
    BY <1>2, <1>5, <1>7, <2>1
<1> QED
  BY <1>6, <1>7

\* The weighted average of the entry price comes out even.
EvenMerge(old, q, p) ==
  CalcIncrease(old, q, p).entry * (old.qty + q) = old.entry * old.qty + p * q

LEMMA IncreaseEven ==
  ASSUME NEW side \in Sides, NEW p \in Int, NEW e \in Int, NEW q \in Int, NEW qty \in Int,
         NEW new \in Int, NEW mar \in Int, NEW add \in Int, new * (qty + q) = e * qty + p * q
  PROVE  -add + side * q * p
           + (((mar + add) - side * (qty + q) * new) - (mar - side * qty * e)) = 0
<1>1. CASE side = 1
  BY <1>1
<1>2. CASE side = -1
  BY <1>2
<1> QED
  BY <1>1, <1>2 DEF Sides, Long, Short

LEMMA IncreaseTraded ==
  ASSUME NEW m, MemOK(m), NEW i \in DOMAIN m.pos, NEW q \in Nat \ {0}, NEW p \in Nat
  PROVE  /\ Traded(m, HandleIncrease(m, i, q, p), m.pos[i].user, m.pos[i].side * q)
         /\ EvenMerge(m.pos[i], q, p) => EvenMoney(m, HandleIncrease(m, i, q, p))
<1> DEFINE old == m.pos[i]
           u   == old.user
           s   == old.side
           cr  == CalcIncrease(old, q, p)
           n   == HandleIncrease(m, i, q, p)
<1>0. u \in Traders /\ s \in Sides
  BY MemPos DEF Position
<1>1. CASE Available(m, u) < cr.add
  <2>1. n = Lose(m, u, s, q)
    BY <1>1, Zenon DEF HandleIncrease
  <2> QED
    BY <1>0, <2>1, LoseTraded
<1>2. CASE ~(Available(m, u) < cr.add)
  <2> DEFINE now == [old EXCEPT !.entry = cr.entry, !.qty = cr.qty, !.margin = cr.margin]
             pos == [m.pos EXCEPT ![i] = now]
             bal    == [m.bal EXCEPT ![u] = @ - cr.add]
             bought == [m.bought EXCEPT ![u] = @ + s * q]
             paid   == [m.paid EXCEPT ![u] = @ + s * q * p]
             b == -cr.add
             d == s * q
             v == s * q * p
  <2>1. n = [m EXCEPT !.bal = bal, !.pos = pos, !.bought = bought, !.paid = paid]
    BY <1>2, Zenon DEF HandleIncrease
  <2>2. /\ old \in Position /\ m.lastPos \in Nat
        /\ m.pos = [j \in DOMAIN m.pos |-> m.pos[j]]
        /\ DOMAIN m.pos \subseteq 1 .. m.lastPos
        /\ \A j \in DOMAIN m.pos : m.pos[j] \in Position
    <3> HIDE DEF n, cr, now, pos, bal, bought, paid, b, d, v
    <3> QED
      BY MemPos
  <2>3. /\ old.qty \in Nat \ {0} /\ old.margin \in Nat
        /\ old.funding \in Int /\ old.entry \in Nat /\ old.lev \in Nat \ {0}
    BY <2>2 DEF Position
  <2>4. /\ cr.add \in Nat /\ cr.entry \in Nat
        /\ cr.qty = old.qty + q /\ cr.margin = old.margin + cr.add
    <3> DEFINE add == (p * q) \div old.lev
               ent == (old.entry * old.qty + p * q) \div (old.qty + q)
    <3>1. cr = [add |-> add, entry |-> ent, qty |-> old.qty + q, margin |-> old.margin + add]
      BY Zenon DEF CalcIncrease
    <3>2. add \in Nat
      BY <1>0, <2>3, ProductNat, QuotientNat
    <3>3. /\ old.entry * old.qty \in Nat /\ p * q \in Nat
      BY <1>0, <2>3, ProductNat
    <3>4. old.entry * old.qty + p * q \in Nat /\ old.qty + q \in Nat \ {0}
      BY <1>0, <2>3, <3>3
    <3>5. ent \in Nat
      BY <3>4, QuotientNat
    <3> HIDE DEF add, ent, cr
    <3> QED
      BY <3>1, <3>2, <3>5
  <2> HIDE DEF cr
  <2>5. cr.qty \in Nat \ {0} /\ cr.margin \in Nat /\ s * q \in Int /\ s * q * p \in Int
    <3> HIDE DEF u, s, old, n, now, pos, bal, bought, paid, b, d, v
    <3>1. cr.qty \in Nat \ {0} /\ cr.margin \in Nat
      BY <2>3, <2>4
    <3>2. s \in Int
      BY <1>0, SideInt
    <3>3. s * q \in Int
      BY <3>2
    <3>4. s * q * p \in Int
      BY <3>3
    <3> QED
      BY <3>1, <3>3, <3>4
  <2>6. /\ now \in Position /\ now.user = u /\ now.side = s /\ now.entry = cr.entry
        /\ now.qty = cr.qty /\ now.margin = cr.margin /\ now.funding = old.funding
    <3>1. old.user = u /\ old.side = s
      OBVIOUS
    <3> QED
      BY <2>2, <2>4, <2>5, <3>1 DEF Position
  <2>7. /\ Adds(m.bal, bal, u, b) /\ Adds(m.bought, bought, u, d) /\ Adds(m.paid, paid, u, v)
        /\ b \in Int /\ d \in Int /\ v \in Int
    <3>1. m.bal \in [Traders -> Int]
      BY DEF MemOK, Memory
    <3>2. b \in Int /\ d \in Int /\ v \in Int /\ m.bal[u] - cr.add = m.bal[u] + b
      BY <1>0, <2>4, <2>5, <3>1
    <3> QED
      BY <3>2, Zenon DEF Adds
  <2> HIDE DEF u, s, old, n, now, bal, bought, paid, b, d, v
  <2>8. /\ DOMAIN pos = DOMAIN m.pos /\ pos[i] = now
        /\ \A j \in DOMAIN m.pos \ {i} : pos[j] = m.pos[j]
        /\ pos = [j \in DOMAIN pos |-> pos[j]]
    BY <2>2
  <2> HIDE DEF pos
  <2>9. pos \in PosMaps /\ DOMAIN pos \subseteq 1 .. m.lastPos
    <3>1. \A j \in DOMAIN pos : pos[j] \in Position
      BY <2>2, <2>6, <2>8
    <3>2. DOMAIN pos \subseteq Nat
      BY <2>2, <2>8
    <3> QED
      BY <2>2, <2>8, <3>1, <3>2, PosMapsDef
  <2>10. /\ n \in Memory /\ n.bal = bal /\ n.lastPos = m.lastPos /\ n.pos = pos
         /\ n.bought = bought /\ n.paid = paid /\ n.fees = m.fees /\ n.lost = m.lost
         /\ n.frozen = m.frozen
    <3>1. bal \in [Traders -> Int] /\ bought \in [Traders -> Int] /\ paid \in [Traders -> Int]
      BY <1>0, <2>7, AddsTo DEF MemOK, Memory
    <3> QED
      BY <2>1, <2>9, <3>1 DEF MemOK, Memory
  <2>11. MemOK(n)
    BY <2>9, <2>10 DEF MemOK
  <2>12. OnlyAt(m, n, i, u)
    BY <2>6, <2>8, <2>10 DEF OnlyAt, u, old
  <2>13. /\ SignedAt(m, i) = s * old.qty /\ HeldAt(m, i) = old.margin - s * old.qty * old.entry
         /\ KeptAt(m, i) = old.funding
    BY DEF SignedAt, HeldAt, KeptAt, old, s
  <2>14. /\ SignedAt(n, i) = s * (old.qty + q)
         /\ HeldAt(n, i) = (old.margin + cr.add) - s * (old.qty + q) * cr.entry
         /\ KeptAt(n, i) = old.funding
    <3>1. i \in DOMAIN n.pos /\ n.pos[i] = now
      BY <2>8, <2>10
    <3>2. /\ SignedAt(n, i) = now.side * now.qty /\ KeptAt(n, i) = now.funding
          /\ HeldAt(n, i) = now.margin - now.side * now.qty * now.entry
      BY <3>1 DEF SignedAt, HeldAt, KeptAt
    <3>3. now.qty = old.qty + q /\ now.margin = old.margin + cr.add
      BY <2>4, <2>6
    <3> QED
      BY <2>6, <3>2, <3>3
  <2>15. /\ SignedAt(m, i) \in Int /\ HeldAt(m, i) \in Int /\ KeptAt(m, i) \in Int
         /\ HeldAt(n, i) \in Int /\ KeptAt(n, i) \in Int
    <3>1. s \in Int /\ s * old.qty \in Int /\ s * (old.qty + q) \in Int
      BY <1>0, <2>3, SideInt
    <3>2. s * old.qty * old.entry \in Int /\ s * (old.qty + q) * cr.entry \in Int
      BY <2>3, <2>4, <3>1
    <3> QED
      BY <2>3, <2>4, <2>13, <2>14, <3>1, <3>2
  <2>16. SignedAt(n, i) = SignedAt(m, i) + d
    <3>1. s \in Int /\ old.qty \in Int
      BY <1>0, <2>3, SideInt
    <3>2. s * old.qty + s * q = s * (old.qty + q)
      BY <3>1
    <3> QED
      BY <2>13, <2>14, <3>2 DEF d
  <2>17. Traded(m, n, u, d)
    BY <1>0, <2>7, <2>10, <2>11, <2>12, <2>15, <2>16, PositionTraded
  <2>18. ASSUME EvenMerge(old, q, p)
         PROVE  EvenMoney(m, n)
    <3> DEFINE X(side, e, k, qty, new, mar, add) ==
          -add + side * k * p + (((mar + add) - side * (qty + k) * new) - (mar - side * qty * e))
    <3>1. \A side \in Sides : \A e, k, qty, new, mar, add \in Int :
            new * (qty + k) = e * qty + p * k => X(side, e, k, qty, new, mar, add) = 0
      BY <1>0, IncreaseEven
    <3>2. cr.entry * (old.qty + q) = old.entry * old.qty + p * q
      BY <2>18 DEF EvenMerge, cr, old
    <3>3. X(s, old.entry, q, old.qty, cr.entry, old.margin, cr.add) = 0
      <4>1. /\ old.entry \in Int /\ q \in Int /\ old.qty \in Int /\ cr.entry \in Int
            /\ old.margin \in Int /\ cr.add \in Int
        BY <1>0, <2>3, <2>4
      <4> HIDE DEF X
      <4> QED
        BY <1>0, <3>1, <3>2, <4>1
    <3>4. KeptAt(n, i) - KeptAt(m, i) = 0
      BY <2>3, <2>13, <2>14
    <3>5. b + v + 0 + (HeldAt(n, i) - HeldAt(m, i)) + (KeptAt(n, i) - KeptAt(m, i)) = 0
      <4>1. b + v + (HeldAt(n, i) - HeldAt(m, i)) = 0
        BY <2>13, <2>14, <3>3 DEF b, v
      <4> QED
        BY <2>7, <2>15, <3>4, <4>1
    <3>6. Adds(m.fees, n.fees, u, 0)
      <4>1. m.fees \in [Traders -> Int]
        BY DEF MemOK, Memory
      <4> QED
        BY <1>0, <2>10, <4>1 DEF Adds
    <3> QED
      BY <1>0, <2>7, <2>10, <2>11, <2>12, <2>15, <3>5, <3>6, PositionPaid
  <2> QED
    BY <2>17, <2>18 DEF n, d, u, s, old
<1> QED
  BY <1>1, <1>2

\* The average is even whichever position the trade is merged into.
EvenMerges(m, u, s, q, p) ==
  Opposites(m, u, s) = {} => \A i \in SameDirs(m, u, s) : EvenMerge(m.pos[i], q, p)

\* One side of a trade gives the user what was traded, or the trade is lost;
\* money only changes hands, as long as merges come out even.
THEOREM UpdateTraded ==
  ASSUME NEW m, MemOK(m), NEW u, NEW s, NEW q, NEW p, NEW lev, NEW isMaker,
         Terms(u, s, q, p, lev), NEW n \in UpdatePosition(m, u, s, q, p, lev, isMaker)
  PROVE  /\ Traded(m, n, u, s * q)
         /\ EvenMerges(m, u, s, q, p) => EvenMoney(m, n)
<1>0. s \in Sides /\ q \in Nat \ {0} /\ p \in Nat
  BY DEF Terms
<1>1. CASE Opposites(m, u, s) # {}
  <2>1. PICK i \in Opposites(m, u, s) : n = HandleReduce(m, i, s, q, p, lev)
    BY <1>1 DEF UpdatePosition
  <2>2. i \in DOMAIN m.pos /\ m.pos[i].user = u /\ m.pos[i].side = -s
    BY DEF Opposites, PositionsOf
  <2> QED
    BY <2>1, <2>2, ReduceTraded
<1>2. CASE Opposites(m, u, s) = {} /\ SameDirs(m, u, s) # {}
  <2>1. PICK i \in SameDirs(m, u, s) : n = HandleIncrease(m, i, q, p)
    BY <1>2 DEF UpdatePosition
  <2>2. i \in DOMAIN m.pos /\ m.pos[i].user = u /\ m.pos[i].side = s
    BY DEF SameDirs, PositionsOf
  <2> QED
    BY <1>0, <1>2, <2>1, <2>2, IncreaseTraded DEF EvenMerges
<1>3. CASE Opposites(m, u, s) = {} /\ SameDirs(m, u, s) = {}
  BY <1>3, OpenTraded DEF UpdatePosition
<1> QED
  BY <1>1, <1>2, <1>3

-----------------------------------------------------------------------------
(* Trades at one price leave every position at that price.                 *)

EntriesAt(m, p) == \A i \in DOMAIN m.pos : m.pos[i].entry = p

LEMMA EntriesEvenMerge ==
  ASSUME NEW m, MemOK(m), NEW p \in Nat, EntriesAt(m, p), NEW i \in DOMAIN m.pos,
         NEW q \in Nat \ {0}
  PROVE  /\ CalcIncrease(m.pos[i], q, p).entry = p
         /\ EvenMerge(m.pos[i], q, p)
<1> DEFINE old == m.pos[i]
           ent == (old.entry * old.qty + p * q) \div (old.qty + q)
<1>1. old.entry = p /\ old.qty \in Nat \ {0}
  BY MemPos DEF EntriesAt, Position
<1>2. CalcIncrease(old, q, p).entry = ent
  BY DEF CalcIncrease
<1>3. old.entry * old.qty + p * q = p * (old.qty + q) /\ old.qty + q \in Nat \ {0}
  BY <1>1
<1>4. (p * (old.qty + q)) \div (old.qty + q) = p
  BY <1>3, WholeShare
<1> HIDE DEF old
<1>5. ent = p
  BY <1>3, <1>4
<1> HIDE DEF ent
<1> QED
  BY <1>2, <1>3, <1>5 DEF EvenMerge, old

LEMMA OpenEntries ==
  ASSUME NEW m, MemOK(m), NEW u, NEW s, NEW q, NEW p \in Nat, NEW lev, NEW isMaker,
         EntriesAt(m, p)
  PROVE  EntriesAt(HandleOpen(m, u, s, q, p, lev, isMaker), p)
<1> DEFINE n   == HandleOpen(m, u, s, q, p, lev, isMaker)
           cr  == CalcOpen(p, q, lev, isMaker)
<1>1. CASE Available(m, u) < cr.margin + cr.fee
  <2>1. n = Lose(m, u, s, q)
    BY <1>1, Zenon DEF HandleOpen
  <2>2. Lose(m, u, s, q).pos = m.pos
    BY DEF Lose, MemOK, Memory
  <2> QED
    BY <2>1, <2>2 DEF EntriesAt
<1>2. CASE ~(Available(m, u) < cr.margin + cr.fee)
  <2> DEFINE id  == m.lastPos + 1
             new == [user |-> u, side |-> s, lev |-> lev, entry |-> p, qty |-> q,
                     margin |-> cr.margin, funding |-> 0, state |-> Active]
             pos == [i \in DOMAIN m.pos \cup {id} |-> IF i = id THEN new ELSE m.pos[i]]
             bal    == [m.bal EXCEPT ![u] = @ - (cr.margin + cr.fee)]
             bought == [m.bought EXCEPT ![u] = @ + s * q]
             paid   == [m.paid EXCEPT ![u] = @ + s * q * p]
             fees   == [m.fees EXCEPT ![u] = @ + cr.fee]
  <2>1. n = [m EXCEPT !.bal = bal, !.lastPos = id, !.pos = pos,
                      !.bought = bought, !.paid = paid, !.fees = fees]
    BY <1>2, ZenonT(40) DEF HandleOpen
  <2>2. new.entry = p
    OBVIOUS
  <2> HIDE DEF n, id, new, pos, bal, bought, paid, fees
  <2>3. n.pos = pos
    BY <2>1 DEF MemOK, Memory
  <2>4. EntriesAt(n, p)
    BY <2>2, <2>3 DEF EntriesAt, pos
  <2> QED
    BY <2>4 DEF n
<1> QED
  BY <1>1, <1>2

LEMMA ReducedEntries ==
  ASSUME NEW m, MemOK(m), NEW i \in DOMAIN m.pos, NEW s, NEW q, NEW p \in Nat,
         EntriesAt(m, p)
  PROVE  EntriesAt(Reduced(m, i, s, q, p), p)
<1> DEFINE old  == m.pos[i]
           u    == old.user
           cr   == CalcReduce(old, p, q)
           rest == [old EXCEPT !.qty     = old.qty - cr.qty,
                               !.margin  = old.margin - cr.margin,
                               !.funding = old.funding - cr.funding,
                               !.state   = Active]
           n    == Reduced(m, i, s, q, p)
           pos  == IF cr.full THEN Restrict(m.pos, DOMAIN m.pos \ {i})
                   ELSE [m.pos EXCEPT ![i] = rest]
           bal    == [m.bal EXCEPT ![u] = @ + cr.margin + cr.net]
           bought == [m.bought EXCEPT ![u] = @ + s * cr.qty]
           paid   == [m.paid EXCEPT ![u] = @ + s * cr.qty * p]
           fees   == [m.fees EXCEPT ![u] = @ + cr.fee]
<1>1. n = [m EXCEPT !.bal = bal, !.pos = pos, !.bought = bought, !.paid = paid, !.fees = fees]
  BY ZenonT(40) DEF Reduced
<1>2. old \in Position /\ m.pos = [j \in DOMAIN m.pos |-> m.pos[j]]
  <2> HIDE DEF n, pos, bal, bought, paid, fees, rest, cr
  <2> QED
    BY MemPos
<1>3. rest.entry = old.entry
  BY <1>2 DEF Position
<1>4. old.entry = p
  BY DEF EntriesAt
<1> HIDE DEF n, pos, bal, bought, paid, fees, rest, cr
<1>5. n.pos = pos
  BY <1>1 DEF MemOK, Memory
<1>6. \A j \in DOMAIN pos : pos[j].entry = p
  BY <1>2, <1>3, <1>4 DEF EntriesAt, Restrict, pos
<1>7. EntriesAt(n, p)
  BY <1>5, <1>6 DEF EntriesAt
<1> QED
  BY <1>7 DEF n

LEMMA IncreaseEntries ==
  ASSUME NEW m, MemOK(m), NEW i \in DOMAIN m.pos, NEW q \in Nat \ {0}, NEW p \in Nat,
         EntriesAt(m, p)
  PROVE  EntriesAt(HandleIncrease(m, i, q, p), p)
<1> DEFINE old == m.pos[i]
           u   == old.user
           cr  == CalcIncrease(old, q, p)
           n   == HandleIncrease(m, i, q, p)
<1>1. CASE Available(m, u) < cr.add
  <2>1. n = Lose(m, u, old.side, q)
    BY <1>1, Zenon DEF HandleIncrease
  <2>2. Lose(m, u, old.side, q).pos = m.pos
    BY DEF Lose, MemOK, Memory
  <2> QED
    BY <2>1, <2>2 DEF EntriesAt
<1>2. CASE ~(Available(m, u) < cr.add)
  <2> DEFINE now == [old EXCEPT !.entry = cr.entry, !.qty = cr.qty, !.margin = cr.margin]
             pos == [m.pos EXCEPT ![i] = now]
             bal    == [m.bal EXCEPT ![u] = @ - cr.add]
             bought == [m.bought EXCEPT ![u] = @ + old.side * q]
             paid   == [m.paid EXCEPT ![u] = @ + old.side * q * p]
  <2>1. n = [m EXCEPT !.bal = bal, !.pos = pos, !.bought = bought, !.paid = paid]
    BY <1>2, Zenon DEF HandleIncrease
  <2>2. old \in Position /\ m.pos = [j \in DOMAIN m.pos |-> m.pos[j]]
    <3> HIDE DEF n, pos, bal, bought, paid, now, cr
    <3> QED
      BY MemPos
  <2>3. cr.entry = p
    BY EntriesEvenMerge
  <2> HIDE DEF cr
  <2>4. now.entry = p
    BY <2>2, <2>3 DEF Position
  <2> HIDE DEF n, pos, bal, bought, paid, now
  <2>5. n.pos = pos
    BY <2>1 DEF MemOK, Memory
  <2>6. \A j \in DOMAIN pos : pos[j].entry = p
    BY <2>2, <2>4 DEF EntriesAt, pos
  <2>7. EntriesAt(n, p)
    BY <2>5, <2>6 DEF EntriesAt
  <2> QED
    BY <2>7 DEF n
<1> QED
  BY <1>1, <1>2

LEMMA UpdateEntries ==
  ASSUME NEW m, MemOK(m), NEW u, NEW s, NEW q, NEW p, NEW lev, NEW isMaker,
         Terms(u, s, q, p, lev), NEW n \in UpdatePosition(m, u, s, q, p, lev, isMaker),
         EntriesAt(m, p)
  PROVE  EntriesAt(n, p) /\ EvenMoney(m, n)
<1>0. s \in Sides /\ q \in Nat \ {0} /\ p \in Nat /\ lev \in Nat \ {0} /\ u \in Traders
  BY DEF Terms
<1>1. \A i \in SameDirs(m, u, s) : EvenMerge(m.pos[i], q, p)
  BY <1>0, EntriesEvenMerge DEF SameDirs, PositionsOf
<1>2. EvenMoney(m, n)
  BY <1>1, UpdateTraded DEF EvenMerges
<1>3. CASE Opposites(m, u, s) # {}
  <2>1. PICK i \in Opposites(m, u, s) : n = HandleReduce(m, i, s, q, p, lev)
    BY <1>3 DEF UpdatePosition
  <2>2. i \in DOMAIN m.pos /\ m.pos[i].side = -s
    BY DEF Opposites, PositionsOf
  <2> DEFINE k == Reduced(m, i, s, q, p)
             r == q - m.pos[i].qty
             v == m.pos[i].user
  <2>3. n = IF q > m.pos[i].qty THEN HandleOpen(k, v, s, r, p, lev, FALSE) ELSE k
    BY <2>1 DEF HandleReduce, Reduced
  <2>4. MemOK(k)
    BY <1>0, <2>2, ReducedTraded DEF Traded
  <2>5. EntriesAt(k, p)
    BY <1>0, <2>2, ReducedEntries
  <2> HIDE DEF k, r, v
  <2>6. EntriesAt(HandleOpen(k, v, s, r, p, lev, FALSE), p)
    BY <1>0, <2>4, <2>5, OpenEntries
  <2> QED
    BY <1>2, <2>3, <2>5, <2>6
<1>4. CASE Opposites(m, u, s) = {} /\ SameDirs(m, u, s) # {}
  <2>1. PICK i \in SameDirs(m, u, s) : n = HandleIncrease(m, i, q, p)
    BY <1>4 DEF UpdatePosition
  <2>2. i \in DOMAIN m.pos
    BY DEF SameDirs, PositionsOf
  <2> QED
    BY <1>0, <1>2, <2>1, <2>2, IncreaseEntries
<1>5. CASE Opposites(m, u, s) = {} /\ SameDirs(m, u, s) = {}
  BY <1>0, <1>5, <1>2, OpenEntries DEF UpdatePosition
<1> QED
  BY <1>3, <1>4, <1>5

-----------------------------------------------------------------------------
(* Other changes of memory.                                                *)

\* From m to n nothing changes but the position i, which becomes row.
SetsRow(m, n, i, row) == n = [m EXCEPT !.pos = [m.pos EXCEPT ![i] = row]]

\* From m to n nothing changes but positions.
OnlyPositions(m, n) ==
  /\ n.bal = m.bal /\ n.frozen = m.frozen /\ n.lastPos = m.lastPos
  /\ n.bought = m.bought /\ n.paid = m.paid /\ n.fees = m.fees /\ n.lost = m.lost

\* Of what is held, only the amounts at position i of user u differ.
AmountsAt(m, n, i, u) ==
  \A v : /\ Net(n, v)  = Net(m, v)
         /\ Held(n, v) = Held(m, v) + IF v = u THEN HeldAt(n, i) - HeldAt(m, i) ELSE 0
         /\ Kept(n, v) = Kept(m, v) + IF v = u THEN KeptAt(n, i) - KeptAt(m, i) ELSE 0

\* The positions but i are what they were.
OthersStay(m, n, i) == \A j \in DOMAIN m.pos \ {i} : n.pos[j] = m.pos[j]

LEMMA RowSet ==
  ASSUME NEW m, MemOK(m), NEW n, NEW i \in DOMAIN m.pos, NEW row \in Position,
         row.user = m.pos[i].user, row.side = m.pos[i].side, row.qty = m.pos[i].qty,
         SetsRow(m, n, i, row)
  PROVE  /\ MemOK(n) /\ OnlyPositions(m, n)
         /\ DOMAIN n.pos = DOMAIN m.pos /\ n.pos[i] = row
         /\ OthersStay(m, n, i)
         /\ AmountsAt(m, n, i, row.user)
<1> DEFINE pos == [m.pos EXCEPT ![i] = row]
<1>1. /\ m.lastPos \in Nat /\ m.pos = [j \in DOMAIN m.pos |-> m.pos[j]]
      /\ DOMAIN m.pos \subseteq 1 .. m.lastPos
      /\ \A j \in DOMAIN m.pos : m.pos[j] \in Position
  BY MemPos
<1>2. /\ DOMAIN pos = DOMAIN m.pos /\ pos[i] = row
      /\ \A j \in DOMAIN m.pos \ {i} : pos[j] = m.pos[j]
      /\ pos = [j \in DOMAIN pos |-> pos[j]]
  BY <1>1
<1>3. n = [m EXCEPT !.pos = pos]
  BY DEF SetsRow
<1> HIDE DEF pos
<1>4. pos \in PosMaps
  <2>1. \A j \in DOMAIN pos : pos[j] \in Position
    BY <1>1, <1>2
  <2>2. DOMAIN pos \subseteq Nat
    BY <1>1, <1>2
  <2> QED
    BY <1>2, <2>1, <2>2, PosMapsDef
<1>5. n \in Memory /\ n.pos = pos /\ OnlyPositions(m, n)
  BY <1>3, <1>4 DEF MemOK, Memory, OnlyPositions
<1>6. MemOK(n)
  BY <1>1, <1>2, <1>5 DEF MemOK, OnlyPositions
<1>7. OnlyAt(m, n, i, row.user)
  BY <1>2, <1>5 DEF OnlyAt
<1>8. SignedAt(n, i) = SignedAt(m, i) /\ SignedAt(m, i) \in Int
  <2>1. m.pos[i].side * m.pos[i].qty \in Int
    BY <1>1, PositionInts
  <2> QED
    BY <1>2, <1>5, <2>1 DEF SignedAt
<1>9. ASSUME NEW v
      PROVE  /\ Net(n, v) = Net(m, v)
             /\ Held(n, v) = Held(m, v) + IF v = row.user THEN HeldAt(n, i) - HeldAt(m, i) ELSE 0
             /\ Kept(n, v) = Kept(m, v) + IF v = row.user THEN KeptAt(n, i) - KeptAt(m, i) ELSE 0
  <2>1. /\ Net(n, v) = Net(m, v)
             + IF v = row.user THEN SignedAt(n, i) - SignedAt(m, i) ELSE 0
        /\ Held(n, v) = Held(m, v) + IF v = row.user THEN HeldAt(n, i) - HeldAt(m, i) ELSE 0
        /\ Kept(n, v) = Kept(m, v) + IF v = row.user THEN KeptAt(n, i) - KeptAt(m, i) ELSE 0
    BY <1>6, <1>7, OnePosition
  <2>2. Net(m, v) \in Int
    BY HoldingsInt
  <2> QED
    BY <1>8, <2>1, <2>2
<1> QED
  BY <1>2, <1>5, <1>6, <1>9 DEF AmountsAt, OthersStay

\* What AddPnl gives beyond the amount is never negative.
LEMMA ClampedNat ==
  ASSUME NEW m, MemOK(m), NEW u \in Traders, NEW amount \in Int
  PROVE  Clamped(m, u, amount) \in Nat
<1>1. m.bal[u] \in Int
  BY MemFields
<1> QED
  BY <1>1 DEF Clamped

\* AddPnl changes the balance of one user.
LEMMA PnlAdded ==
  ASSUME NEW m, MemOK(m), NEW u \in Traders, NEW amount \in Int
  PROVE  /\ MemOK(AddPnl(m, u, amount)) /\ AddPnl(m, u, amount).pos = m.pos
         /\ AddPnl(m, u, amount).frozen = m.frozen
         /\ AddPnl(m, u, amount).lost = m.lost /\ AddPnl(m, u, amount).bought = m.bought
         /\ \A v \in Traders : AddPnl(m, u, amount).bal[v]
                = m.bal[v] + IF v = u THEN amount + Clamped(m, u, amount) ELSE 0
         /\ \A v \in Traders : Wealth(AddPnl(m, u, amount), v)
                = Wealth(m, v) + IF v = u THEN amount + Clamped(m, u, amount) ELSE 0
<1> DEFINE n == AddPnl(m, u, amount)
           b == IF m.bal[u] + amount < 0 THEN 0 ELSE m.bal[u] + amount
           bal == [m.bal EXCEPT ![u] = b]
           d == amount + Clamped(m, u, amount)
<1>1. n = [m EXCEPT !.bal = bal]
  BY Zenon DEF AddPnl
<1>2. m.bal \in [Traders -> Int]
  BY DEF MemOK, Memory
<1>3. b \in Int /\ d \in Int /\ b = m.bal[u] + d
  BY <1>2 DEF Clamped
<1> HIDE DEF n, d, b
<1>4. bal \in [Traders -> Int] /\ \A v \in Traders : bal[v] = m.bal[v] + IF v = u THEN d ELSE 0
  BY <1>2, <1>3
<1> HIDE DEF bal
<1>5. /\ n \in Memory /\ n.bal = bal /\ n.pos = m.pos /\ n.frozen = m.frozen
      /\ n.lastPos = m.lastPos /\ n.bought = m.bought /\ n.paid = m.paid /\ n.fees = m.fees
      /\ n.lost = m.lost
  BY <1>1, <1>4 DEF MemOK, Memory
<1>6. MemOK(n)
  BY <1>5 DEF MemOK
<1>7. ASSUME NEW v \in Traders
      PROVE  Wealth(n, v) = Wealth(m, v) + IF v = u THEN d ELSE 0
  <2>1. Held(n, v) = Held(m, v) /\ Kept(n, v) = Kept(m, v)
    BY <1>5, SameHoldings
  <2>2. Held(m, v) \in Int /\ Kept(m, v) \in Int
    BY HoldingsInt
  <2>3. m.bal[v] \in Int /\ m.paid[v] \in Int /\ m.fees[v] \in Int
    BY MemFields
  <2>4. n.bal[v] = m.bal[v] + IF v = u THEN d ELSE 0
    BY <1>4, <1>5
  <2> QED
    BY <1>3, <1>5, <2>1, <2>2, <2>3, <2>4 DEF Wealth
<1> QED
  BY <1>4, <1>5, <1>6, <1>7 DEF n, d


-----------------------------------------------------------------------------
(* Payments.                                                               *)

\* From m to n user u gains d; positions stay what they are but for margin,
\* funding and state.
Gains(m, n, u, d) ==
  /\ MemOK(n)
  /\ n.frozen = m.frozen /\ n.lost = m.lost
  /\ DOMAIN n.pos = DOMAIN m.pos
  /\ \A j \in DOMAIN m.pos : /\ n.pos[j].user = m.pos[j].user
                             /\ n.pos[j].side = m.pos[j].side
                             /\ n.pos[j].qty = m.pos[j].qty
                             /\ n.pos[j].entry = m.pos[j].entry
  /\ \A v \in Traders : Net(n, v) = Net(m, v)
  /\ \A v \in Traders : Wealth(n, v) = Wealth(m, v) + IF v = u THEN d ELSE 0

LEMMA WealthInt == ASSUME NEW m, MemOK(m), NEW v \in Traders PROVE Wealth(m, v) \in Int
<1>1. Held(m, v) \in Int /\ Kept(m, v) \in Int
  BY HoldingsInt
<1>2. m.bal[v] \in Int /\ m.paid[v] \in Int /\ m.fees[v] \in Int
  BY MemFields
<1> QED
  BY <1>1, <1>2 DEF Wealth

LEMMA GainsNothing == ASSUME NEW m, MemOK(m), NEW u PROVE Gains(m, m, u, 0)
<1>1. \A v \in Traders : Wealth(m, v) = Wealth(m, v) + IF v = u THEN 0 ELSE 0
  BY WealthInt
<1> QED
  BY <1>1 DEF Gains

LEMMA GainsTwice ==
  ASSUME NEW m, MemOK(m), NEW n, NEW o, NEW u, NEW d \in Int, NEW e \in Int,
         Gains(m, n, u, d), Gains(n, o, u, e)
  PROVE  Gains(m, o, u, d + e)
<1>1. ASSUME NEW v \in Traders
      PROVE  Wealth(o, v) = Wealth(m, v) + IF v = u THEN d + e ELSE 0
  <2>1. Wealth(m, v) \in Int /\ Wealth(n, v) \in Int /\ Wealth(o, v) \in Int
    BY WealthInt DEF Gains
  <2>2. Wealth(n, v) = Wealth(m, v) + IF v = u THEN d ELSE 0
    BY DEF Gains
  <2>3. Wealth(o, v) = Wealth(n, v) + IF v = u THEN e ELSE 0
    BY DEF Gains
  <2> QED
    BY <2>1, <2>2, <2>3
<1>2. \A v \in Traders : Net(o, v) = Net(m, v)
  BY DEF Gains
<1>3. /\ MemOK(o) /\ o.frozen = m.frozen /\ o.lost = m.lost /\ DOMAIN o.pos = DOMAIN m.pos
      /\ \A j \in DOMAIN m.pos : /\ o.pos[j].user = m.pos[j].user
                                 /\ o.pos[j].side = m.pos[j].side
                                 /\ o.pos[j].qty = m.pos[j].qty
                                 /\ o.pos[j].entry = m.pos[j].entry
  BY DEF Gains
<1> QED
  BY <1>1, <1>2, <1>3 DEF Gains

LEMMA AddPnlGains ==
  ASSUME NEW m, MemOK(m), NEW u \in Traders, NEW amount \in Int
  PROVE  Gains(m, AddPnl(m, u, amount), u, amount + Clamped(m, u, amount))
<1> DEFINE n == AddPnl(m, u, amount)
           d == amount + Clamped(m, u, amount)
<1>1. /\ MemOK(n) /\ n.pos = m.pos /\ n.frozen = m.frozen /\ n.lost = m.lost
      /\ \A v \in Traders : Wealth(n, v) = Wealth(m, v) + IF v = u THEN d ELSE 0
  BY PnlAdded
<1> HIDE DEF n, d
<1>2. \A v \in Traders : Net(n, v) = Net(m, v)
  BY <1>1, SameHoldings
<1>3. Gains(m, n, u, d)
  BY <1>1, <1>2 DEF Gains
<1> QED
  BY <1>3 DEF n, d

\* A row whose margin or funding is another.
LEMMA RowGains ==
  ASSUME NEW m, MemOK(m), NEW n, NEW i \in DOMAIN m.pos, NEW row \in Position,
         row.user = m.pos[i].user, row.side = m.pos[i].side, row.qty = m.pos[i].qty,
         row.entry = m.pos[i].entry, SetsRow(m, n, i, row)
  PROVE  Gains(m, n, row.user, (row.margin - m.pos[i].margin) + (row.funding - m.pos[i].funding))
<1>1. /\ MemOK(n) /\ OnlyPositions(m, n) /\ DOMAIN n.pos = DOMAIN m.pos /\ n.pos[i] = row
      /\ OthersStay(m, n, i) /\ AmountsAt(m, n, i, row.user)
  BY RowSet
<1>2. m.pos[i] \in Position
  BY MemPos
<1>3. /\ row.margin \in Int /\ m.pos[i].margin \in Int
      /\ row.funding \in Int /\ m.pos[i].funding \in Int
  BY <1>2 DEF Position
<1>4. /\ HeldAt(n, i) - HeldAt(m, i) = row.margin - m.pos[i].margin
      /\ KeptAt(n, i) - KeptAt(m, i) = row.funding - m.pos[i].funding
  <2> DEFINE x == row.side * row.qty * row.entry
  <2>1. row.side * row.qty * row.entry \in Int
    BY DEF Position, Sides, Long, Short
  <2>2. /\ HeldAt(n, i) = row.margin - x /\ HeldAt(m, i) = m.pos[i].margin - x
        /\ KeptAt(n, i) = row.funding /\ KeptAt(m, i) = m.pos[i].funding
    BY <1>1 DEF HeldAt, KeptAt
  <2>3. x \in Int
    BY <2>1
  <2> HIDE DEF x
  <2> QED
    BY <1>3, <2>2, <2>3
<1>5. ASSUME NEW v \in Traders
      PROVE  Wealth(n, v) = Wealth(m, v)
               + IF v = row.user
                 THEN (row.margin - m.pos[i].margin) + (row.funding - m.pos[i].funding) ELSE 0
  <2>1. /\ Held(n, v) = Held(m, v) + IF v = row.user THEN HeldAt(n, i) - HeldAt(m, i) ELSE 0
        /\ Kept(n, v) = Kept(m, v) + IF v = row.user THEN KeptAt(n, i) - KeptAt(m, i) ELSE 0
    BY <1>1 DEF AmountsAt
  <2>2. Held(m, v) \in Int /\ Kept(m, v) \in Int
    BY HoldingsInt
  <2>3. m.bal[v] \in Int /\ m.paid[v] \in Int /\ m.fees[v] \in Int
    BY MemFields
  <2>4. n.bal = m.bal /\ n.paid = m.paid /\ n.fees = m.fees
    BY <1>1 DEF OnlyPositions
  <2> QED
    BY <1>3, <1>4, <2>1, <2>2, <2>3, <2>4 DEF Wealth
<1>6. \A v \in Traders : Net(n, v) = Net(m, v)
  BY <1>1 DEF AmountsAt
<1>7. \A j \in DOMAIN m.pos : /\ n.pos[j].user = m.pos[j].user
                              /\ n.pos[j].side = m.pos[j].side
                              /\ n.pos[j].qty = m.pos[j].qty
                              /\ n.pos[j].entry = m.pos[j].entry
  BY <1>1 DEF OthersStay
<1> QED
  BY <1>1, <1>5, <1>6, <1>7 DEF Gains, OnlyPositions

LEMMA StateGains ==
  ASSUME NEW m, MemOK(m), NEW i, NEW state \in {Active, Closing, ForceTPing}, NEW u
  PROVE  Gains(m, SetState(m, i, state), u, 0)
<1>1. CASE i \notin DOMAIN m.pos
  BY <1>1, GainsNothing DEF SetState
<1>2. CASE i \in DOMAIN m.pos
  <2> DEFINE n == SetState(m, i, state)
             row == [m.pos[i] EXCEPT !.state = state]
  <2>1. SetsRow(m, n, i, row)
    BY <1>2, Zenon DEF SetState, SetsRow
  <2>2. m.pos[i] \in Position
    BY <1>2, MemPos
  <2>3. /\ row \in Position /\ row.user = m.pos[i].user /\ row.side = m.pos[i].side
        /\ row.qty = m.pos[i].qty /\ row.margin = m.pos[i].margin /\ row.entry = m.pos[i].entry
        /\ row.funding = m.pos[i].funding
    BY <2>2 DEF Position
  <2> HIDE DEF n, row
  <2>4. Gains(m, n, row.user, (row.margin - m.pos[i].margin) + (row.funding - m.pos[i].funding))
    BY <1>2, <2>1, <2>3, RowGains
  <2>5. (row.margin - m.pos[i].margin) + (row.funding - m.pos[i].funding) = 0
    BY <2>2, <2>3 DEF Position
  <2>6. \A v \in Traders : Wealth(n, v) = Wealth(m, v) + IF v = u THEN 0 ELSE 0
    BY <2>4, <2>5 DEF Gains
  <2>7. Gains(m, n, u, 0)
    BY <2>4, <2>6 DEF Gains
  <2> QED
    BY <2>7 DEF n
<1> QED
  BY <1>1, <1>2


-----------------------------------------------------------------------------
(* What all users hold together.                                           *)

\* Longs less shorts by user, with what was lost on the way.
Holding(m) == [u \in Traders |-> Net(m, u) + m.lost[u]]

HoldingSum(m) == SumFunctionOnSet(Holding(m), Traders)

LEMMA TradersFinite == IsFiniteSet(Traders)
<1>1. IsFiniteSet(Users \cup {MM})
  BY UsersAssumption, FS_AddElement
<1>2. Traders = (Users \cup {MM}) \cup {LIQ}
  BY DEF Traders
<1> QED
  BY <1>1, <1>2, FS_AddElement

LEMMA HoldingInt ==
  ASSUME NEW m, MemOK(m)
  PROVE  /\ \A v \in Traders : Holding(m)[v] \in Int
         /\ HoldingSum(m) \in Int
<1>1. ASSUME NEW v \in Traders PROVE Holding(m)[v] \in Int
  <2>1. Net(m, v) \in Int /\ m.lost[v] \in Int
    BY HoldingsInt, MemFields
  <2> QED
    BY <2>1 DEF Holding
<1> QED
  BY <1>1, TradersFinite, SumInt DEF HoldingSum

LEMMA TradedHolding ==
  ASSUME NEW m, MemOK(m), NEW n, NEW u \in Traders, NEW d \in Int, Traded(m, n, u, d)
  PROVE  HoldingSum(n) = HoldingSum(m) + d
<1> DEFINE f == Holding(m)
           g == Holding(n)
<1>1. MemOK(n)
  BY DEF Traded
<1>2. \A v \in Traders : f[v] \in Int /\ g[v] \in Int
  BY <1>1, HoldingInt
<1>3. \A v \in Traders : g[v] = f[v] + IF v = u THEN d ELSE 0
  <2> SUFFICES ASSUME NEW v \in Traders PROVE g[v] = f[v] + IF v = u THEN d ELSE 0
    OBVIOUS
  <2>1. Net(n, v) + n.lost[v] = Net(m, v) + m.lost[v] + IF v = u THEN d ELSE 0
    BY DEF Traded
  <2>2. Net(m, v) \in Int /\ m.lost[v] \in Int
    BY HoldingsInt, MemFields
  <2> QED
    BY <2>1, <2>2 DEF Holding
<1>4. HoldingSum(m) = SumFunctionOnSet(f, Traders) /\ HoldingSum(n) = SumFunctionOnSet(g, Traders)
  BY DEF HoldingSum
<1> HIDE DEF f, g
<1>5. \A v \in Traders \ {u} : g[v] = f[v]
  BY <1>2, <1>3
<1>6. g[u] - f[u] = d
  BY <1>2, <1>3
<1>7. SumFunctionOnSet(g, Traders) = SumFunctionOnSet(f, Traders) + (g[u] - f[u])
  BY <1>2, <1>5, TradersFinite, SumUpdate
<1> QED
  BY <1>4, <1>6, <1>7

LEMMA GainsHolding ==
  ASSUME NEW m, NEW n, NEW u, NEW d, Gains(m, n, u, d)
  PROVE  HoldingSum(n) = HoldingSum(m)
<1>1. \A v \in Traders : Holding(n)[v] = Holding(m)[v]
  BY DEF Gains, Holding
<1> QED
  BY <1>1, TradersFinite, SumSame DEF HoldingSum

\* If nothing was lost, the positions in the cache together are what the users
\* hold.
LEMMA HoldingPositions ==
  ASSUME NEW m, MemOK(m), SumFunctionOnSet(m.lost, Traders) = 0
  PROVE  SumFunctionOnSet([i \in DOMAIN m.pos |-> m.pos[i].side * m.pos[i].qty], DOMAIN m.pos)
           = HoldingSum(m)
<1> DEFINE f == [i \in DOMAIN m.pos |-> m.pos[i].side * m.pos[i].qty]
           owner == [i \in DOMAIN m.pos |-> m.pos[i].user]
           S == DOMAIN m.pos
           g == Parts(f, S, Traders, owner)
           h == Holding(m)
           lost == m.lost
<1>1. IsFiniteSet(S) /\ \A i \in S : m.pos[i] \in Position
  BY MemPos
<1>2. \A i \in S : f[i] \in Int /\ owner[i] \in Traders
  BY <1>1, PositionInts DEF Position
<1>3. \A u \in Traders : g[u] = Net(m, u)
  <2> SUFFICES ASSUME NEW u \in Traders PROVE g[u] = Net(m, u)
    OBVIOUS
  <2>1. {i \in S : owner[i] = u} = HeldBy(m, u)
    BY DEF HeldBy
  <2> QED
    BY <2>1 DEF Parts, Net
<1>4. \A u \in Traders : g[u] \in Int /\ lost[u] \in Int
  BY <1>3, HoldingsInt, MemFields
<1>5. \A u \in Traders : h[u] = g[u] + lost[u]
  BY <1>3 DEF Holding
<1>6. SumFunctionOnSet(lost, Traders) = 0 /\ HoldingSum(m) = SumFunctionOnSet(h, Traders)
  BY DEF HoldingSum
<1> HIDE DEF f, owner, S, h, lost
<1>7. SumFunctionOnSet(g, Traders) = SumFunctionOnSet(f, S)
  BY <1>1, <1>2, TradersFinite, SumPartition
<1> HIDE DEF g
<1>8. SumFunctionOnSet(h, Traders)
        = SumFunctionOnSet(g, Traders) + SumFunctionOnSet(lost, Traders)
  BY <1>4, <1>5, TradersFinite, SumPlus
<1>9. SumFunctionOnSet(g, Traders) \in Int
  BY <1>4, TradersFinite, SumInt
<1> QED
  BY <1>6, <1>7, <1>8, <1>9 DEF f, S

-----------------------------------------------------------------------------
(* The positions after one side of a trade, one by one.                    *)

\* From m to n every position stays what it is, but for one, which is row.
RowsFrom(m, n, row) ==
  \A j \in DOMAIN n.pos :
    n.pos[j] = row \/ (j \in DOMAIN m.pos /\ n.pos[j] = m.pos[j])

\* What handleOpen makes, handleReduce leaves and handleIncrease makes of old.
Opened(u, s, q, p, lev, isMaker) ==
  [user |-> u, side |-> s, lev |-> lev, entry |-> p, qty |-> q,
   margin |-> CalcOpen(p, q, lev, isMaker).margin, funding |-> 0, state |-> Active]

Remainder(old, q, p) ==
  LET cr == CalcReduce(old, p, q)
  IN  [old EXCEPT !.qty     = old.qty - cr.qty,
                  !.margin  = old.margin - cr.margin,
                  !.funding = old.funding - cr.funding,
                  !.state   = Active]

Merged(old, q, p) ==
  LET cr == CalcIncrease(old, q, p)
  IN  [old EXCEPT !.entry = cr.entry, !.qty = cr.qty, !.margin = cr.margin]

LEMMA OpenRows ==
  ASSUME NEW m, MemOK(m), NEW u, NEW s, NEW q, NEW p, NEW lev, NEW isMaker
  PROVE  RowsFrom(m, HandleOpen(m, u, s, q, p, lev, isMaker), Opened(u, s, q, p, lev, isMaker))
<1> DEFINE n   == HandleOpen(m, u, s, q, p, lev, isMaker)
           cr  == CalcOpen(p, q, lev, isMaker)
           row == Opened(u, s, q, p, lev, isMaker)
<1>1. CASE Available(m, u) < cr.margin + cr.fee
  <2>1. n = Lose(m, u, s, q)
    BY <1>1, Zenon DEF HandleOpen
  <2>2. Lose(m, u, s, q).pos = m.pos
    BY DEF Lose, MemOK, Memory
  <2> QED
    BY <2>1, <2>2 DEF RowsFrom
<1>2. CASE ~(Available(m, u) < cr.margin + cr.fee)
  <2> DEFINE id  == m.lastPos + 1
             pos == [i \in DOMAIN m.pos \cup {id} |-> IF i = id THEN row ELSE m.pos[i]]
             bal    == [m.bal EXCEPT ![u] = @ - (cr.margin + cr.fee)]
             bought == [m.bought EXCEPT ![u] = @ + s * q]
             paid   == [m.paid EXCEPT ![u] = @ + s * q * p]
             fees   == [m.fees EXCEPT ![u] = @ + cr.fee]
  <2>1. n = [m EXCEPT !.bal = bal, !.lastPos = id, !.pos = pos,
                      !.bought = bought, !.paid = paid, !.fees = fees]
    BY <1>2, ZenonT(40) DEF HandleOpen, Opened
  <2> HIDE DEF n, id, row, pos, bal, bought, paid, fees
  <2>2. n.pos = pos
    BY <2>1 DEF MemOK, Memory
  <2>3. RowsFrom(m, n, row)
    BY <2>2 DEF RowsFrom, pos
  <2> QED
    BY <2>3 DEF n, row
<1> QED
  BY <1>1, <1>2

LEMMA ReducedRows ==
  ASSUME NEW m, MemOK(m), NEW i \in DOMAIN m.pos, NEW s, NEW q, NEW p
  PROVE  RowsFrom(m, Reduced(m, i, s, q, p), Remainder(m.pos[i], q, p))
<1> DEFINE old == m.pos[i]
           u   == old.user
           cr  == CalcReduce(old, p, q)
           row == Remainder(old, q, p)
           n   == Reduced(m, i, s, q, p)
           pos == IF cr.full THEN Restrict(m.pos, DOMAIN m.pos \ {i})
                  ELSE [m.pos EXCEPT ![i] = row]
           bal    == [m.bal EXCEPT ![u] = @ + cr.margin + cr.net]
           bought == [m.bought EXCEPT ![u] = @ + s * cr.qty]
           paid   == [m.paid EXCEPT ![u] = @ + s * cr.qty * p]
           fees   == [m.fees EXCEPT ![u] = @ + cr.fee]
<1>1. n = [m EXCEPT !.bal = bal, !.pos = pos, !.bought = bought, !.paid = paid, !.fees = fees]
  BY ZenonT(40) DEF Reduced, Remainder
<1> HIDE DEF n, pos, bal, bought, paid, fees, row, cr
<1>2. m.pos = [j \in DOMAIN m.pos |-> m.pos[j]]
  BY MemPos
<1>3. n.pos = pos
  BY <1>1 DEF MemOK, Memory
<1>4. RowsFrom(m, n, row)
  BY <1>2, <1>3 DEF RowsFrom, Restrict, pos
<1> QED
  BY <1>4 DEF n, row

LEMMA IncreaseRows ==
  ASSUME NEW m, MemOK(m), NEW i \in DOMAIN m.pos, NEW q, NEW p
  PROVE  RowsFrom(m, HandleIncrease(m, i, q, p), Merged(m.pos[i], q, p))
<1> DEFINE old == m.pos[i]
           u   == old.user
           cr  == CalcIncrease(old, q, p)
           row == Merged(old, q, p)
           n   == HandleIncrease(m, i, q, p)
<1>1. CASE Available(m, u) < cr.add
  <2>1. n = Lose(m, u, old.side, q)
    BY <1>1, Zenon DEF HandleIncrease
  <2>2. Lose(m, u, old.side, q).pos = m.pos
    BY DEF Lose, MemOK, Memory
  <2> QED
    BY <2>1, <2>2 DEF RowsFrom
<1>2. CASE ~(Available(m, u) < cr.add)
  <2> DEFINE pos == [m.pos EXCEPT ![i] = row]
             bal    == [m.bal EXCEPT ![u] = @ - cr.add]
             bought == [m.bought EXCEPT ![u] = @ + old.side * q]
             paid   == [m.paid EXCEPT ![u] = @ + old.side * q * p]
  <2>1. n = [m EXCEPT !.bal = bal, !.pos = pos, !.bought = bought, !.paid = paid]
    BY <1>2, Zenon DEF HandleIncrease, Merged
  <2> HIDE DEF n, pos, bal, bought, paid, row, cr
  <2>2. m.pos = [j \in DOMAIN m.pos |-> m.pos[j]]
    BY MemPos
  <2>3. n.pos = pos
    BY <2>1 DEF MemOK, Memory
  <2>4. RowsFrom(m, n, row)
    BY <2>2, <2>3 DEF RowsFrom, pos
  <2> QED
    BY <2>4 DEF n, row
<1> QED
  BY <1>1, <1>2

\* What a position of UpdatePosition's result may be.
Rows(m, u, s, q, p, lev, isMaker) ==
  LET opposite == Opposites(m, u, s)
      same     == SameDirs(m, u, s)
  IN  {m.pos[j] : j \in DOMAIN m.pos}
        \cup {Remainder(m.pos[i], q, p) : i \in opposite}
        \cup {Opened(u, s, q - m.pos[i].qty, p, lev, FALSE) :
                i \in {j \in opposite : q > m.pos[j].qty}}
        \cup {Merged(m.pos[i], q, p) : i \in {j \in same : opposite = {}}}
        \cup {r \in {Opened(u, s, q, p, lev, isMaker)} : opposite = {} /\ same = {}}

LEMMA UpdateRows ==
  ASSUME NEW m, MemOK(m), NEW u, NEW s, NEW q, NEW p, NEW lev, NEW isMaker,
         Terms(u, s, q, p, lev), NEW n \in UpdatePosition(m, u, s, q, p, lev, isMaker)
  PROVE  \A j \in DOMAIN n.pos : n.pos[j] \in Rows(m, u, s, q, p, lev, isMaker)
<1> DEFINE rows == Rows(m, u, s, q, p, lev, isMaker)
<1> SUFFICES ASSUME NEW j \in DOMAIN n.pos PROVE n.pos[j] \in rows
  OBVIOUS
<1>0. s \in Sides /\ q \in Nat \ {0} /\ p \in Nat /\ lev \in Nat \ {0}
  BY DEF Terms
<1>1. CASE Opposites(m, u, s) # {}
  <2>1. PICK i \in Opposites(m, u, s) : n = HandleReduce(m, i, s, q, p, lev)
    BY <1>1 DEF UpdatePosition
  <2>2. i \in DOMAIN m.pos /\ m.pos[i].user = u /\ m.pos[i].side = -s
    BY DEF Opposites, PositionsOf
  <2> DEFINE k == Reduced(m, i, s, q, p)
             r == q - m.pos[i].qty
             new == Opened(u, s, r, p, lev, FALSE)
             rest == Remainder(m.pos[i], q, p)
  <2>3. n = IF q > m.pos[i].qty THEN HandleOpen(k, u, s, r, p, lev, FALSE) ELSE k
    BY <2>1, <2>2 DEF HandleReduce, Reduced
  <2>4. MemOK(k)
    BY <1>0, <2>2, ReducedTraded DEF Traded
  <2>5. RowsFrom(m, k, rest)
    BY <2>2, ReducedRows
  <2>6. /\ rest \in rows
        /\ \A h \in DOMAIN m.pos : m.pos[h] \in rows
        /\ q > m.pos[i].qty => new \in rows
    BY DEF Rows
  <2> HIDE DEF k, rest, rows
  <2>7. \A h \in DOMAIN k.pos : k.pos[h] \in rows
    BY <2>5, <2>6 DEF RowsFrom
  <2>8. RowsFrom(k, HandleOpen(k, u, s, r, p, lev, FALSE), new)
    BY <2>4, OpenRows
  <2> HIDE DEF new, r
  <2> QED
    BY <2>3, <2>6, <2>7, <2>8 DEF RowsFrom
<1>2. CASE Opposites(m, u, s) = {} /\ SameDirs(m, u, s) # {}
  <2>1. PICK i \in SameDirs(m, u, s) : n = HandleIncrease(m, i, q, p)
    BY <1>2 DEF UpdatePosition
  <2>2. i \in DOMAIN m.pos
    BY DEF SameDirs, PositionsOf
  <2>3. RowsFrom(m, n, Merged(m.pos[i], q, p))
    BY <2>1, <2>2, IncreaseRows
  <2>4. Merged(m.pos[i], q, p) \in rows /\ \A h \in DOMAIN m.pos : m.pos[h] \in rows
    BY <1>2 DEF Rows
  <2> HIDE DEF rows
  <2> QED
    BY <2>3, <2>4 DEF RowsFrom
<1>3. CASE Opposites(m, u, s) = {} /\ SameDirs(m, u, s) = {}
  <2>1. n = HandleOpen(m, u, s, q, p, lev, isMaker)
    BY <1>3 DEF UpdatePosition
  <2>2. RowsFrom(m, n, Opened(u, s, q, p, lev, isMaker))
    BY <2>1, OpenRows
  <2>3. Opened(u, s, q, p, lev, isMaker) \in rows /\ \A h \in DOMAIN m.pos : m.pos[h] \in rows
    BY <1>3 DEF Rows
  <2> HIDE DEF rows
  <2> QED
    BY <2>2, <2>3 DEF RowsFrom
<1> QED
  BY <1>1, <1>2, <1>3

-----------------------------------------------------------------------------
(* Nothing but a settlement of funding gives a position any funding.       *)

Unfunded(m) == \A i \in DOMAIN m.pos : m.pos[i].funding = 0

LEMMA RemainderUnfunded ==
  ASSUME NEW old \in Position, old.funding = 0, NEW q \in Nat \ {0}, NEW p \in Nat
  PROVE  Remainder(old, q, p).funding = 0
<1> DEFINE k == IF q < old.qty THEN q ELSE old.qty
<1>1. k \in Nat /\ old.qty \in Nat \ {0}
  BY DEF Position
<1>2. CalcReduce(old, p, q).funding = (0 * k) \div old.qty
  BY DEF CalcReduce
<1>3. Remainder(old, q, p).funding = old.funding - CalcReduce(old, p, q).funding
  BY DEF Remainder, Position
<1> HIDE DEF k
<1>4. (0 * k) \div old.qty = 0
  <2>1. 0 * k = 0 * old.qty
    BY <1>1
  <2> QED
    BY <1>1, <2>1, WholeShare
<1> QED
  BY <1>2, <1>3, <1>4

LEMMA UpdateUnfunded ==
  ASSUME NEW m, MemOK(m), NEW u, NEW s, NEW q, NEW p, NEW lev, NEW isMaker,
         Terms(u, s, q, p, lev), NEW n \in UpdatePosition(m, u, s, q, p, lev, isMaker),
         Unfunded(m)
  PROVE  Unfunded(n)
<1>0. q \in Nat \ {0} /\ p \in Nat
  BY DEF Terms
<1>1. \A i \in DOMAIN m.pos : m.pos[i] \in Position /\ m.pos[i].funding = 0
  BY MemPos DEF Unfunded
<1>2. \A i \in Opposites(m, u, s) \cup SameDirs(m, u, s) : i \in DOMAIN m.pos
  BY DEF Opposites, SameDirs, PositionsOf
<1>3. \A i \in DOMAIN m.pos : Remainder(m.pos[i], q, p).funding = 0
  BY <1>0, <1>1, RemainderUnfunded
<1>4. \A i \in DOMAIN m.pos : Merged(m.pos[i], q, p).funding = 0
  BY <1>1 DEF Merged, Position
<1>5. \A k, maker : Opened(u, s, k, p, lev, maker).funding = 0
  BY DEF Opened
<1>6. \A r \in Rows(m, u, s, q, p, lev, isMaker) : r.funding = 0
  BY <1>1, <1>2, <1>3, <1>4, <1>5 DEF Rows
<1> QED
  BY <1>6, UpdateRows DEF Unfunded

-----------------------------------------------------------------------------
(* Margin, leverage, entry price and quantity stay in proportion as long   *)
(* as the divisions of a trade come out even.                              *)

InProportion(r) == r.margin * r.lev = r.entry * r.qty

Proportioned(m) == \A i \in DOMAIN m.pos : InProportion(m.pos[i])

\* The margin of q at price p.
EvenMargin(p, q, lev) == ((p * q) \div lev) * lev = p * q

\* The share of the margin a close of q releases.
EvenShare(old, q, p) ==
  CalcReduce(old, p, q).margin * old.qty = old.margin * CalcReduce(old, p, q).qty

\* The divisions UpdatePosition does, whichever position it finds.
EvenDivisions(m, u, s, q, p, lev) ==
  LET opposite == Opposites(m, u, s)
      same     == SameDirs(m, u, s)
  IN  /\ \A i \in opposite : /\ EvenShare(m.pos[i], q, p)
                             /\ q > m.pos[i].qty => EvenMargin(p, q - m.pos[i].qty, lev)
      /\ opposite = {} => \A i \in same : /\ EvenMerge(m.pos[i], q, p)
                                          /\ EvenMargin(p, q, m.pos[i].lev)
      /\ opposite = {} /\ same = {} => EvenMargin(p, q, lev)

LEMMA OpenedInProportion ==
  ASSUME NEW u, NEW s, NEW q \in Nat, NEW p \in Nat, NEW lev \in Nat \ {0}, NEW isMaker,
         EvenMargin(p, q, lev)
  PROVE  InProportion(Opened(u, s, q, p, lev, isMaker))
BY DEF InProportion, Opened, CalcOpen, EvenMargin

LEMMA CancelFactor ==
  ASSUME NEW x \in Int, NEW y \in Int, NEW n \in Nat \ {0}, x * n = y * n
  PROVE  x = y
<1>1. (x * n) \div n = x /\ (y * n) \div n = y
  BY WholeShare
<1> QED
  BY <1>1

LEMMA RemainderInProportion ==
  ASSUME NEW old \in Position, InProportion(old), NEW q \in Nat \ {0}, NEW p \in Nat,
         EvenShare(old, q, p)
  PROVE  InProportion(Remainder(old, q, p))
<1> DEFINE k   == CalcReduce(old, p, q).qty
           c   == CalcReduce(old, p, q).margin
           mar == old.margin
           lev == old.lev
           e   == old.entry
           all == old.qty
           r   == Remainder(old, q, p)
<1>1. /\ mar \in Int /\ lev \in Int /\ e \in Int /\ all \in Nat \ {0}
      /\ k \in Int /\ c \in Int
  <2>1. /\ mar \in Int /\ lev \in Int /\ e \in Int /\ all \in Nat \ {0}
    BY DEF Position
  <2>2. k = IF q < all THEN q ELSE all
    BY DEF CalcReduce
  <2>3. c = (mar * k) \div all
    BY DEF CalcReduce
  <2> HIDE DEF k, c, mar, lev, e, all
  <2>4. k \in Int
    BY <2>1, <2>2
  <2> QED
    BY <2>1, <2>3, <2>4
<1>2. r.margin = mar - c /\ r.lev = lev /\ r.entry = e /\ r.qty = all - k
  BY DEF Remainder, Position
<1>3. mar * lev = e * all /\ c * all = mar * k
  BY DEF InProportion, EvenShare
<1> HIDE DEF k, c, mar, lev, e, all, r
<1>4. c * lev = e * k
  <2>1. (c * lev) * all = (c * all) * lev
    BY <1>1
  <2>2. (mar * k) * lev = (mar * lev) * k
    BY <1>1
  <2>3. (e * all) * k = (e * k) * all
    BY <1>1
  <2>4. (c * lev) * all = (e * k) * all
    BY <1>3, <2>1, <2>2, <2>3
  <2>5. c * lev \in Int /\ e * k \in Int
    BY <1>1
  <2> QED
    BY <1>1, <2>4, <2>5, CancelFactor
<1>5. (mar - c) * lev = mar * lev - c * lev
  BY <1>1
<1>6. e * (all - k) = e * all - e * k
  BY <1>1
<1>7. (mar - c) * lev = e * (all - k)
  BY <1>3, <1>4, <1>5, <1>6, Zenon
<1>8. r.margin * r.lev = r.entry * r.qty
  BY <1>2, <1>7, Zenon
<1> QED
  BY <1>8, Zenon DEF InProportion, r

LEMMA MergedInProportion ==
  ASSUME NEW old \in Position, InProportion(old), NEW q \in Nat \ {0}, NEW p \in Nat,
         EvenMerge(old, q, p), EvenMargin(p, q, old.lev)
  PROVE  InProportion(Merged(old, q, p))
<1> DEFINE new == CalcIncrease(old, q, p).entry
           add == CalcIncrease(old, q, p).add
           mar == old.margin
           lev == old.lev
           e   == old.entry
           all == old.qty
           r   == Merged(old, q, p)
<1>1. /\ mar \in Int /\ lev \in Nat \ {0} /\ e \in Int /\ all \in Nat \ {0}
      /\ add \in Int /\ new \in Int
  <2>1. /\ mar \in Int /\ lev \in Nat \ {0} /\ e \in Int /\ all \in Nat \ {0}
    BY DEF Position
  <2>2. add = (p * q) \div lev
    BY DEF CalcIncrease
  <2>3. new = (e * all + p * q) \div (all + q)
    BY DEF CalcIncrease
  <2> HIDE DEF new, add, mar, lev, e, all
  <2>4. p * q \in Int /\ e * all + p * q \in Int /\ all + q \in Nat \ {0}
    BY <2>1
  <2> QED
    BY <2>1, <2>2, <2>3, <2>4
<1>2. r.margin = mar + add /\ r.lev = lev /\ r.entry = new /\ r.qty = all + q
  BY DEF Merged, CalcIncrease, Position
<1>3. mar * lev = e * all /\ new * (all + q) = e * all + p * q
  BY DEF InProportion, EvenMerge
<1>4. add * lev = p * q
  BY DEF EvenMargin, CalcIncrease
<1> HIDE DEF new, add, mar, lev, e, all, r
<1>5. (mar + add) * lev = mar * lev + add * lev
  BY <1>1
<1>6. (mar + add) * lev = new * (all + q)
  BY <1>3, <1>4, <1>5, Zenon
<1>7. r.margin * r.lev = r.entry * r.qty
  BY <1>2, <1>6, Zenon
<1> QED
  BY <1>7, Zenon DEF InProportion, r

LEMMA UpdateProportioned ==
  ASSUME NEW m, MemOK(m), NEW u, NEW s, NEW q, NEW p, NEW lev, NEW isMaker,
         Terms(u, s, q, p, lev), NEW n \in UpdatePosition(m, u, s, q, p, lev, isMaker),
         Proportioned(m), EvenDivisions(m, u, s, q, p, lev)
  PROVE  Proportioned(n)
<1>0. q \in Nat \ {0} /\ p \in Nat /\ lev \in Nat \ {0}
  BY DEF Terms
<1>1. \A i \in DOMAIN m.pos : m.pos[i] \in Position /\ InProportion(m.pos[i])
  BY MemPos DEF Proportioned
<1>2. \A i \in Opposites(m, u, s) \cup SameDirs(m, u, s) : i \in DOMAIN m.pos
  BY DEF Opposites, SameDirs, PositionsOf
<1>3. ASSUME NEW i \in Opposites(m, u, s)
      PROVE  InProportion(Remainder(m.pos[i], q, p))
  BY <1>0, <1>1, <1>2, RemainderInProportion DEF EvenDivisions
<1>4. ASSUME NEW i \in Opposites(m, u, s), q > m.pos[i].qty
      PROVE  InProportion(Opened(u, s, q - m.pos[i].qty, p, lev, FALSE))
  <2>1. EvenMargin(p, q - m.pos[i].qty, lev)
    BY <1>4 DEF EvenDivisions
  <2>2. m.pos[i].qty \in Nat
    BY <1>1, <1>2 DEF Position
  <2> DEFINE left == q - m.pos[i].qty
  <2>3. left \in Nat
    BY <1>0, <1>4, <2>2
  <2> HIDE DEF left
  <2>4. EvenMargin(p, left, lev)
    BY <2>1 DEF left
  <2>5. InProportion(Opened(u, s, left, p, lev, FALSE))
    BY <1>0, <2>3, <2>4, OpenedInProportion
  <2> QED
    BY <2>5 DEF left
<1>5. ASSUME NEW i \in SameDirs(m, u, s), Opposites(m, u, s) = {}
      PROVE  InProportion(Merged(m.pos[i], q, p))
  BY <1>0, <1>1, <1>2, <1>5, MergedInProportion DEF EvenDivisions
<1>6. ASSUME Opposites(m, u, s) = {}, SameDirs(m, u, s) = {}
      PROVE  InProportion(Opened(u, s, q, p, lev, isMaker))
  BY <1>0, <1>6, OpenedInProportion DEF EvenDivisions
<1>7. \A r \in Rows(m, u, s, q, p, lev, isMaker) : InProportion(r)
  BY <1>1, <1>3, <1>4, <1>5, <1>6 DEF Rows
<1> QED
  BY <1>7, UpdateRows DEF Proportioned

-----------------------------------------------------------------------------
(* The books: what everybody has, and what makes up each position.         *)

\* What u has had from the beginning.
Stake(u) == IF u \in Users THEN InitialBalance ELSE SystemBalance

\* Nobody has gained or lost, and no funding is involved.
Books(m) == Unfunded(m) /\ \A u \in Traders : Wealth(m, u) = Stake(u)

\* From m to n no position changes but in its state.
SamePositions(m, n) ==
  /\ DOMAIN n.pos = DOMAIN m.pos
  /\ \A i \in DOMAIN m.pos :
       /\ n.pos[i].margin = m.pos[i].margin /\ n.pos[i].lev = m.pos[i].lev
       /\ n.pos[i].entry = m.pos[i].entry   /\ n.pos[i].qty = m.pos[i].qty
       /\ n.pos[i].funding = m.pos[i].funding

\* From m to n nothing changes but what is frozen, lost or the state of a position.
Undisturbed(m, n) == EvenMoney(m, n) /\ SamePositions(m, n)

LEMMA SamePositionsKeep ==
  ASSUME NEW m, NEW n, SamePositions(m, n)
  PROVE  /\ Unfunded(m) => Unfunded(n)
         /\ Proportioned(m) => Proportioned(n)
BY DEF SamePositions, Unfunded, Proportioned, InProportion

LEMMA BooksUndisturbed ==
  ASSUME NEW m, NEW n, Undisturbed(m, n)
  PROVE  /\ Books(m) => Books(n)
         /\ Proportioned(m) => Proportioned(n)
<1>1. EvenMoney(m, n) /\ SamePositions(m, n)
  BY DEF Undisturbed
<1>2. /\ Unfunded(m) => Unfunded(n)
      /\ Proportioned(m) => Proportioned(n)
  BY <1>1, SamePositionsKeep
<1> QED
  BY <1>1, <1>2 DEF Books, EvenMoney

\* Balances and positions are as they were.
LEMMA AccountsUndisturbed ==
  ASSUME NEW m, NEW n, n.pos = m.pos, n.bal = m.bal, n.paid = m.paid, n.fees = m.fees
  PROVE  Undisturbed(m, n)
<1>1. \A v \in Traders : Wealth(n, v) = Wealth(m, v)
  BY SameHoldings DEF Wealth
<1> QED
  BY <1>1 DEF Undisturbed, EvenMoney, SamePositions

LEMMA FreezeUndisturbed ==
  ASSUME NEW m, MemOK(m), NEW u, NEW amount
  PROVE  Undisturbed(m, Freeze(m, u, amount)) /\ Undisturbed(m, Unfreeze(m, u, amount))
<1>1. ASSUME NEW f
      PROVE  Undisturbed(m, [m EXCEPT !.frozen = f])
  <2> DEFINE n == [m EXCEPT !.frozen = f]
  <2>1. n.pos = m.pos /\ n.bal = m.bal /\ n.paid = m.paid /\ n.fees = m.fees
    BY DEF MemOK, Memory
  <2> HIDE DEF n
  <2>2. Undisturbed(m, n)
    BY <2>1, AccountsUndisturbed
  <2> QED
    BY <2>2 DEF n
<1>2. \E f : Freeze(m, u, amount) = [m EXCEPT !.frozen = f]
  BY Zenon DEF Freeze
<1>3. \E f : Unfreeze(m, u, amount) = [m EXCEPT !.frozen = f]
  BY Zenon DEF Unfreeze
<1> QED
  BY <1>1, <1>2, <1>3

LEMMA LossUndisturbed ==
  ASSUME NEW m, MemOK(m), NEW f
  PROVE  Undisturbed(m, [m EXCEPT !.lost = f])
<1> DEFINE n == [m EXCEPT !.lost = f]
<1>1. n.pos = m.pos /\ n.bal = m.bal /\ n.paid = m.paid /\ n.fees = m.fees
  BY DEF MemOK, Memory
<1> HIDE DEF n
<1>2. Undisturbed(m, n)
  BY <1>1, AccountsUndisturbed
<1> QED
  BY <1>2 DEF n

LEMMA StateUndisturbed ==
  ASSUME NEW m, MemOK(m), NEW i, NEW state \in {Active, Closing, ForceTPing}
  PROVE  Undisturbed(m, SetState(m, i, state))
<1> DEFINE n == SetState(m, i, state)
<1>1. CASE i \notin DOMAIN m.pos
  BY <1>1, AccountsUndisturbed DEF SetState
<1>2. CASE i \in DOMAIN m.pos
  <2> DEFINE row == [m.pos[i] EXCEPT !.state = state]
  <2>1. SetsRow(m, n, i, row)
    BY <1>2, Zenon DEF SetState, SetsRow
  <2>2. m.pos[i] \in Position /\ m.pos = [j \in DOMAIN m.pos |-> m.pos[j]]
    BY <1>2, MemPos
  <2>3. /\ row.margin = m.pos[i].margin /\ row.lev = m.pos[i].lev
        /\ row.entry = m.pos[i].entry /\ row.qty = m.pos[i].qty
        /\ row.funding = m.pos[i].funding
    BY <2>2 DEF Position
  <2>4. EvenMoney(m, n)
    <3>1. \A u : Gains(m, n, u, 0)
      BY StateGains
    <3>2. \A v \in Traders : Wealth(m, v) \in Int
      BY WealthInt
    <3> HIDE DEF n
    <3>3. \A v \in Traders : Wealth(n, v) = Wealth(m, v) + 0
      BY <3>1 DEF Gains
    <3> QED
      BY <3>2, <3>3 DEF EvenMoney
  <2> HIDE DEF n, row
  <2>5. n.pos = [m.pos EXCEPT ![i] = row]
    BY <2>1 DEF SetsRow, MemOK, Memory
  <2>6. SamePositions(m, n)
    BY <1>2, <2>2, <2>3, <2>5 DEF SamePositions
  <2> QED
    BY <2>4, <2>6 DEF Undisturbed, n
<1> QED
  BY <1>1, <1>2

LEMMA BooksTraded ==
  ASSUME NEW m, MemOK(m), NEW u, NEW s, NEW q, NEW p, NEW lev, NEW isMaker,
         Terms(u, s, q, p, lev), NEW n \in UpdatePosition(m, u, s, q, p, lev, isMaker)
  PROVE  /\ Books(m) /\ EvenMerges(m, u, s, q, p) => Books(n)
         /\ Proportioned(m) /\ EvenDivisions(m, u, s, q, p, lev) => Proportioned(n)
<1>1. EvenMerges(m, u, s, q, p) => EvenMoney(m, n)
  BY UpdateTraded
<1>2. Unfunded(m) => Unfunded(n)
  BY UpdateUnfunded
<1>3. Proportioned(m) /\ EvenDivisions(m, u, s, q, p, lev) => Proportioned(n)
  BY UpdateProportioned
<1> QED
  BY <1>1, <1>2, <1>3 DEF Books, EvenMoney

\* Without funding nothing of it is kept.
LEMMA NothingKept ==
  ASSUME NEW m, MemOK(m), Unfunded(m), NEW u
  PROVE  Kept(m, u) = 0
<1> DEFINE f == [i \in DOMAIN m.pos |-> m.pos[i].funding]
           S == HeldBy(m, u)
<1>1. IsFiniteSet(S)
  BY HeldByFinite
<1>2. \A i \in S : f[i] = 0
  BY DEF Unfunded, HeldBy
<1>3. Kept(m, u) = SumFunctionOnSet(f, S)
  BY DEF Kept
<1> HIDE DEF f, S
<1>4. SumFunctionOnSet(f, S) = SumFunctionOnSet(f, {})
  BY <1>1, <1>2, SumWithin
<1> QED
  BY <1>3, <1>4, SumEmpty

LEMMA InitBooks == Books(InitMem) /\ Proportioned(InitMem)
<1>1. MemOK(InitMem) /\ DOMAIN InitMem.pos = {}
  BY InitMemOK DEF InitMem
<1>2. Unfunded(InitMem) /\ Proportioned(InitMem)
  BY <1>1 DEF Unfunded, Proportioned
<1>3. ASSUME NEW u \in Traders
      PROVE  Wealth(InitMem, u) = Stake(u)
  <2>1. HeldBy(InitMem, u) = {}
    BY <1>1 DEF HeldBy
  <2>2. Held(InitMem, u) = 0 /\ Kept(InitMem, u) = 0
    BY <2>1, SumEmpty DEF Held, Kept
  <2>3. InitMem.bal[u] = Stake(u) /\ InitMem.paid[u] = 0 /\ InitMem.fees[u] = 0
    BY DEF InitMem, Stake
  <2>4. Stake(u) \in Int
    BY BalanceAssumption DEF Stake
  <2> HIDE DEF Stake
  <2> QED
    BY <2>2, <2>3, <2>4 DEF Wealth
<1> QED
  BY <1>2, <1>3 DEF Books

\* Balance, margins, what was traded and fees: funding aside, all there was.
LEMMA BooksWealth ==
  ASSUME NEW m, MemOK(m), Books(m), NEW u \in Traders
  PROVE  m.bal[u] + Held(m, u) + m.paid[u] + m.fees[u] = Stake(u)
<1>1. Wealth(m, u) = Stake(u) /\ Kept(m, u) = 0
  BY NothingKept DEF Books
<1>2. m.bal[u] \in Int /\ Held(m, u) \in Int /\ m.paid[u] \in Int /\ m.fees[u] \in Int
  BY MemFields, HoldingsInt
<1> QED
  BY <1>1, <1>2 DEF Wealth

-----------------------------------------------------------------------------
(* Which position one side of a trade opens, changes or closes.            *)

\* Only the balance of u may change.
OthersKeep(m, n, u) == \A v \in Traders \ {u} : n.bal[v] = m.bal[v]

Unmoved(m, n) == n.pos = m.pos /\ n.bal = m.bal /\ n.lastPos = m.lastPos

\* A position of u with the next ID joins the others.
OneMore(m, n, u) ==
  /\ n.lastPos = m.lastPos + 1
  /\ DOMAIN n.pos = DOMAIN m.pos \cup {n.lastPos}
  /\ \A j \in DOMAIN m.pos : n.pos[j] = m.pos[j]
  /\ n.pos[n.lastPos].user = u

\* Position i changes or goes, and no other.
OneTouched(m, n, i) ==
  /\ n.lastPos = m.lastPos
  /\ DOMAIN n.pos \subseteq DOMAIN m.pos
  /\ \A j \in DOMAIN m.pos \ {i} : j \in DOMAIN n.pos /\ n.pos[j] = m.pos[j]
  /\ i \in DOMAIN n.pos => n.pos[i] # m.pos[i] /\ n.pos[i].user = m.pos[i].user

LEMMA OpenTouches ==
  ASSUME NEW m, MemOK(m), NEW u \in Traders, NEW s, NEW q, NEW p, NEW lev, NEW isMaker
  PROVE  LET n == HandleOpen(m, u, s, q, p, lev, isMaker)
         IN  OthersKeep(m, n, u) /\ (Unmoved(m, n) \/ OneMore(m, n, u))
<1> DEFINE n   == HandleOpen(m, u, s, q, p, lev, isMaker)
           cr  == CalcOpen(p, q, lev, isMaker)
           row == Opened(u, s, q, p, lev, isMaker)
<1>1. CASE Available(m, u) < cr.margin + cr.fee
  <2>1. n = Lose(m, u, s, q)
    BY <1>1, Zenon DEF HandleOpen
  <2>2. Unmoved(m, Lose(m, u, s, q))
    BY DEF Lose, MemOK, Memory, Unmoved
  <2> HIDE DEF n
  <2>3. Unmoved(m, n) /\ OthersKeep(m, n, u)
    BY <2>1, <2>2 DEF Unmoved, OthersKeep
  <2> QED
    BY <2>3 DEF n
<1>2. CASE ~(Available(m, u) < cr.margin + cr.fee)
  <2> DEFINE id  == m.lastPos + 1
             pos == [i \in DOMAIN m.pos \cup {id} |-> IF i = id THEN row ELSE m.pos[i]]
             bal    == [m.bal EXCEPT ![u] = @ - (cr.margin + cr.fee)]
             bought == [m.bought EXCEPT ![u] = @ + s * q]
             paid   == [m.paid EXCEPT ![u] = @ + s * q * p]
             fees   == [m.fees EXCEPT ![u] = @ + cr.fee]
  <2>1. n = [m EXCEPT !.bal = bal, !.lastPos = id, !.pos = pos,
                      !.bought = bought, !.paid = paid, !.fees = fees]
    BY <1>2, ZenonT(40) DEF HandleOpen, Opened
  <2>2. row.user = u
    BY DEF Opened
  <2>3. \A v \in Traders \ {u} : bal[v] = m.bal[v]
    BY DEF MemOK, Memory
  <2>4. m.lastPos \in Nat /\ DOMAIN m.pos \subseteq 1 .. m.lastPos
    BY DEF MemOK, Memory
  <2>5. id \notin DOMAIN m.pos
    BY <2>4
  <2> HIDE DEF n, id, row, pos, bal, bought, paid, fees, cr
  <2>6. n.pos = pos /\ n.bal = bal /\ n.lastPos = id
    BY <2>1 DEF MemOK, Memory
  <2>7. OthersKeep(m, n, u)
    BY <2>3, <2>6 DEF OthersKeep
  <2>8. OneMore(m, n, u)
    <3>1. DOMAIN pos = DOMAIN m.pos \cup {id} /\ pos[id] = row
      BY DEF pos
    <3>2. \A j \in DOMAIN m.pos : pos[j] = m.pos[j]
      BY <2>5 DEF pos
    <3> QED
      BY <2>2, <2>6, <3>1, <3>2 DEF OneMore, id
  <2> QED
    BY <2>7, <2>8 DEF n
<1> QED
  BY <1>1, <1>2

LEMMA ReducedTouches ==
  ASSUME NEW m, MemOK(m), NEW i \in DOMAIN m.pos, NEW s, NEW q \in Nat \ {0}, NEW p \in Nat
  PROVE  LET n  == Reduced(m, i, s, q, p)
             cr == CalcReduce(m.pos[i], p, q)
             u  == m.pos[i].user
         IN  /\ OthersKeep(m, n, u) /\ OneTouched(m, n, i)
             /\ n.bal[u] = m.bal[u] + (cr.margin + cr.net) /\ cr.margin + cr.net \in Int
<1> DEFINE old == m.pos[i]
           u   == old.user
           cr  == CalcReduce(old, p, q)
           row == Remainder(old, q, p)
           n   == Reduced(m, i, s, q, p)
           pos == IF cr.full THEN Restrict(m.pos, DOMAIN m.pos \ {i})
                  ELSE [m.pos EXCEPT ![i] = row]
           bal    == [m.bal EXCEPT ![u] = @ + cr.margin + cr.net]
           bought == [m.bought EXCEPT ![u] = @ + s * cr.qty]
           paid   == [m.paid EXCEPT ![u] = @ + s * cr.qty * p]
           fees   == [m.fees EXCEPT ![u] = @ + cr.fee]
<1>1. n = [m EXCEPT !.bal = bal, !.pos = pos, !.bought = bought, !.paid = paid, !.fees = fees]
  BY ZenonT(40) DEF Reduced, Remainder
<1>2. /\ old \in Position /\ m.pos = [j \in DOMAIN m.pos |-> m.pos[j]]
  BY MemPos
<1>3. /\ cr.qty \in 1 .. old.qty /\ cr.margin \in 0 .. old.margin /\ cr.net \in Int
  BY <1>2, ReduceShares
<1>4. u \in Traders /\ m.bal \in [Traders -> Int]
  BY <1>2 DEF Position, MemOK, Memory
<1>5. row.qty = old.qty - cr.qty /\ row.user = u
  BY <1>2 DEF Remainder, Position
<1>6. row # old
  <2>1. old.qty \in Nat
    BY <1>2 DEF Position
  <2> HIDE DEF row, old, cr
  <2>2. row.qty # old.qty
    BY <1>3, <1>5, <2>1
  <2> QED
    BY <2>2
<1> HIDE DEF n, pos, bal, bought, paid, fees, row, cr
<1>7. n.pos = pos /\ n.bal = bal /\ n.lastPos = m.lastPos
  BY <1>1 DEF MemOK, Memory
<1>8. OneTouched(m, n, i)
  BY <1>2, <1>5, <1>6, <1>7 DEF OneTouched, Restrict, pos
<1>9. cr.margin + cr.net \in Int
  <2>1. old.margin \in Nat
    BY <1>2 DEF Position
  <2> HIDE DEF old
  <2> QED
    BY <1>3, <2>1
<1>10. /\ \A v \in Traders \ {u} : bal[v] = m.bal[v]
       /\ bal[u] = m.bal[u] + cr.margin + cr.net
  BY <1>4 DEF bal
<1>11. bal[u] = m.bal[u] + (cr.margin + cr.net)
  <2>1. m.bal[u] \in Int /\ cr.margin \in Int
    <3>1. old.margin \in Nat
      BY <1>2 DEF Position
    <3> HIDE DEF old
    <3> QED
      BY <1>3, <1>4, <3>1
  <2> HIDE DEF u, old
  <2> QED
    BY <1>3, <1>10, <2>1
<1>12. OthersKeep(m, n, u)
  BY <1>7, <1>10 DEF OthersKeep
<1> QED
  BY <1>7, <1>8, <1>9, <1>11, <1>12 DEF n, cr

LEMMA IncreaseTouches ==
  ASSUME NEW m, MemOK(m), NEW i \in DOMAIN m.pos, NEW q \in Nat \ {0}, NEW p \in Nat
  PROVE  LET n == HandleIncrease(m, i, q, p)
         IN  /\ OthersKeep(m, n, m.pos[i].user)
             /\ Unmoved(m, n) \/ (OneTouched(m, n, i) /\ i \in DOMAIN n.pos)
<1> DEFINE old == m.pos[i]
           u   == old.user
           cr  == CalcIncrease(old, q, p)
           row == Merged(old, q, p)
           n   == HandleIncrease(m, i, q, p)
<1>1. CASE Available(m, u) < cr.add
  <2>1. n = Lose(m, u, old.side, q)
    BY <1>1, Zenon DEF HandleIncrease
  <2>2. Unmoved(m, Lose(m, u, old.side, q))
    BY DEF Lose, MemOK, Memory, Unmoved
  <2> HIDE DEF n
  <2>3. Unmoved(m, n) /\ OthersKeep(m, n, u)
    BY <2>1, <2>2 DEF Unmoved, OthersKeep
  <2> QED
    BY <2>3 DEF n
<1>2. CASE ~(Available(m, u) < cr.add)
  <2> DEFINE pos == [m.pos EXCEPT ![i] = row]
             bal    == [m.bal EXCEPT ![u] = @ - cr.add]
             bought == [m.bought EXCEPT ![u] = @ + old.side * q]
             paid   == [m.paid EXCEPT ![u] = @ + old.side * q * p]
  <2>1. n = [m EXCEPT !.bal = bal, !.pos = pos, !.bought = bought, !.paid = paid]
    BY <1>2, Zenon DEF HandleIncrease, Merged
  <2>2. old \in Position /\ m.pos = [j \in DOMAIN m.pos |-> m.pos[j]]
    <3> HIDE DEF n, pos, bal, bought, paid, row, cr
    <3> QED
      BY MemPos
  <2>3. cr.qty = old.qty + q
    BY DEF CalcIncrease
  <2>4. row.qty = cr.qty /\ row.user = u
    BY <2>2 DEF Merged, Position
  <2>5. old.qty \in Nat
    BY <2>2 DEF Position
  <2>6. \A v \in Traders \ {u} : bal[v] = m.bal[v]
    BY DEF MemOK, Memory
  <2> HIDE DEF n, pos, bal, bought, paid, row, cr
  <2>7. row # old
    <3> HIDE DEF old
    <3>1. row.qty # old.qty
      BY <2>3, <2>4, <2>5
    <3> QED
      BY <3>1
  <2>8. n.pos = pos /\ n.bal = bal /\ n.lastPos = m.lastPos
    BY <2>1 DEF MemOK, Memory
  <2>9. OneTouched(m, n, i) /\ i \in DOMAIN n.pos
    BY <2>2, <2>4, <2>7, <2>8 DEF OneTouched, pos
  <2>10. OthersKeep(m, n, u)
    BY <2>6, <2>8 DEF OthersKeep
  <2> QED
    BY <2>9, <2>10 DEF n
<1> QED
  BY <1>1, <1>2

-----------------------------------------------------------------------------
(* UpdatePosition and the owners of positions.                             *)

\* What the proofs need of memory: its fields, and that the positions have
\* owners and IDs that are no news to nextPosID.
Sound(m) ==
  /\ {"bal", "pos", "lastPos", "bought", "paid", "fees", "lost"} \subseteq DOMAIN m
  /\ m = [x \in DOMAIN m |-> m[x]]
  /\ m.lastPos \in Nat
  /\ DOMAIN m.pos \subseteq 1 .. m.lastPos
  /\ \A i \in DOMAIN m.pos : "user" \in DOMAIN m.pos[i]

\* From m to n no ID is used twice and no position changes hands.
KeepsOwners(m, n) ==
  /\ Sound(n)
  /\ n.lastPos >= m.lastPos
  /\ DOMAIN n.pos \cap 1 .. m.lastPos \subseteq DOMAIN m.pos
  /\ \A i \in DOMAIN m.pos \cap DOMAIN n.pos : n.pos[i].user = m.pos[i].user

\* KeepsOwners is transitive.
LEMMA Transitive ==
  ASSUME NEW m, NEW n, NEW o, Sound(m), KeepsOwners(m, n), KeepsOwners(n, o)
  PROVE  KeepsOwners(m, o)
<1>1. /\ m.lastPos \in Nat /\ n.lastPos \in Nat /\ o.lastPos \in Nat
      /\ n.lastPos >= m.lastPos /\ o.lastPos >= n.lastPos
  BY DEF Sound, KeepsOwners
<1>2. o.lastPos >= m.lastPos
  BY <1>1
<1>3. 1 .. m.lastPos \subseteq 1 .. n.lastPos
  BY <1>1
<1>4. DOMAIN o.pos \cap 1 .. m.lastPos \subseteq DOMAIN n.pos
  BY <1>3 DEF KeepsOwners
<1>5. DOMAIN o.pos \cap 1 .. m.lastPos \subseteq DOMAIN m.pos
  BY <1>4 DEF KeepsOwners
<1>6. DOMAIN m.pos \subseteq 1 .. m.lastPos
  BY DEF Sound
<1>7. ASSUME NEW i \in DOMAIN m.pos \cap DOMAIN o.pos
      PROVE  o.pos[i].user = m.pos[i].user
  <2>1. i \in DOMAIN n.pos
    BY <1>4, <1>6
  <2> QED
    BY <2>1 DEF KeepsOwners
<1> QED
  BY <1>2, <1>5, <1>7 DEF KeepsOwners

\* A leg that is lost.
LEMMA LoseKeeps ==
  ASSUME NEW m, Sound(m), NEW u, NEW s, NEW q
  PROVE  KeepsOwners(m, Lose(m, u, s, q))
<1> DEFINE n == Lose(m, u, s, q)
<1>1. /\ DOMAIN n = DOMAIN m
      /\ n = [x \in DOMAIN n |-> n[x]]
      /\ n.pos = m.pos /\ n.lastPos = m.lastPos
  BY DEF Sound, Lose
<1> QED
  BY <1>1 DEF Sound, KeepsOwners

LEMMA OpenKeeps ==
  ASSUME NEW m, Sound(m), NEW u, NEW s, NEW q, NEW p, NEW lev, NEW isMaker
  PROVE  KeepsOwners(m, HandleOpen(m, u, s, q, p, lev, isMaker))
<1>1. CASE Available(m, u) < CalcOpen(p, q, lev, isMaker).margin + CalcOpen(p, q, lev, isMaker).fee
  BY <1>1, LoseKeeps DEF HandleOpen
<1>2. CASE ~(Available(m, u) < CalcOpen(p, q, lev, isMaker).margin + CalcOpen(p, q, lev, isMaker).fee)
  <2> DEFINE n   == HandleOpen(m, u, s, q, p, lev, isMaker)
             id  == m.lastPos + 1
             cr  == CalcOpen(p, q, lev, isMaker)
             new == [user |-> u, side |-> s, lev |-> lev, entry |-> p, qty |-> q,
                     margin |-> cr.margin, funding |-> 0, state |-> Active]
             pos == [i \in DOMAIN m.pos \cup {id} |-> IF i = id THEN new ELSE m.pos[i]]
             bal    == [m.bal EXCEPT ![u] = @ - (cr.margin + cr.fee)]
             bought == [m.bought EXCEPT ![u] = @ + s * q]
             paid   == [m.paid EXCEPT ![u] = @ + s * q * p]
             fees   == [m.fees EXCEPT ![u] = @ + cr.fee]
  <2>0. n = [m EXCEPT !.bal = bal, !.lastPos = id, !.pos = pos,
                      !.bought = bought, !.paid = paid, !.fees = fees]
    BY <1>2, ZenonT(40) DEF HandleOpen
  <2>1. /\ DOMAIN n = DOMAIN m
        /\ n = [x \in DOMAIN n |-> n[x]]
        /\ n.pos = [i \in DOMAIN m.pos \cup {id} |-> IF i = id THEN new ELSE m.pos[i]]
        /\ n.lastPos = id
    <3> HIDE DEF n, id, cr, new, pos, bal, bought, paid, fees
    <3>1. DOMAIN n = DOMAIN m /\ n = [x \in DOMAIN n |-> n[x]] /\ n.pos = pos /\ n.lastPos = id
      BY <2>0 DEF Sound
    <3> QED
      BY <3>1 DEF pos
  <2> HIDE DEF n
  <2>2. "user" \in DOMAIN new
    OBVIOUS
  <2> HIDE DEF new
  <2>3. m.lastPos \in Nat /\ DOMAIN m.pos \subseteq 1 .. m.lastPos
    BY DEF Sound
  <2>4. id \notin 1 .. m.lastPos /\ id \in Nat /\ id >= m.lastPos
    BY <2>3
  <2>5. DOMAIN n.pos \subseteq 1 .. id /\ DOMAIN n.pos \cap 1 .. m.lastPos \subseteq DOMAIN m.pos
    BY <2>1, <2>3, <2>4
  <2>6. \A i \in DOMAIN n.pos : "user" \in DOMAIN n.pos[i]
    BY <2>1, <2>2 DEF Sound
  <2>7. \A i \in DOMAIN m.pos : n.pos[i] = m.pos[i]
    BY <2>1, <2>3, <2>4
  <2>8. Sound(n)
    BY <2>1, <2>4, <2>5, <2>6 DEF Sound
  <2> QED
    BY <2>1, <2>4, <2>5, <2>7, <2>8 DEF KeepsOwners, n
<1> QED
  BY <1>1, <1>2

\* A position that only changes in other fields keeps its owner.
LEMMA OwnersKept ==
  ASSUME NEW m, NEW n, Sound(m),
         DOMAIN n = DOMAIN m, n = [x \in DOMAIN n |-> n[x]], n.lastPos = m.lastPos,
         DOMAIN n.pos \subseteq DOMAIN m.pos,
         \A i \in DOMAIN n.pos : /\ DOMAIN n.pos[i] = DOMAIN m.pos[i]
                                 /\ n.pos[i].user = m.pos[i].user
  PROVE  KeepsOwners(m, n)
<1>1. Sound(n)
  BY DEF Sound
<1> QED
  BY <1>1 DEF Sound, KeepsOwners

LEMMA IncreaseKeeps ==
  ASSUME NEW m, Sound(m), NEW i \in DOMAIN m.pos, NEW q, NEW p
  PROVE  KeepsOwners(m, HandleIncrease(m, i, q, p))
<1> DEFINE old == m.pos[i]
           cr  == CalcIncrease(old, q, p)
           now == [old EXCEPT !.entry = cr.entry, !.qty = cr.qty, !.margin = cr.margin]
           n   == HandleIncrease(m, i, q, p)
<1>1. CASE Available(m, old.user) < cr.add
  BY <1>1, LoseKeeps DEF HandleIncrease
<1>2. CASE ~(Available(m, old.user) < cr.add)
  <2>1. /\ DOMAIN n = DOMAIN m
        /\ n = [x \in DOMAIN n |-> n[x]]
        /\ n.pos = [m.pos EXCEPT ![i] = now]
        /\ n.lastPos = m.lastPos
    BY <1>2, ZenonT(30) DEF Sound, HandleIncrease
  <2>2. "user" \in DOMAIN old
    BY DEF Sound
  <2>3. DOMAIN now = DOMAIN old /\ now.user = old.user
    BY <2>2
  <2> HIDE DEF n, now, cr
  <2>4. DOMAIN n.pos = DOMAIN m.pos
    BY <2>1
  <2>5. \A j \in DOMAIN n.pos : DOMAIN n.pos[j] = DOMAIN m.pos[j] /\ n.pos[j].user = m.pos[j].user
    BY <2>1, <2>3, <2>4
  <2> QED
    BY <2>1, <2>4, <2>5, OwnersKept DEF n
<1> QED
  BY <1>1, <1>2

LEMMA ReduceKeeps ==
  ASSUME NEW m, Sound(m), NEW i \in DOMAIN m.pos, NEW s, NEW q, NEW p, NEW lev
  PROVE  KeepsOwners(m, HandleReduce(m, i, s, q, p, lev))
<1> DEFINE old  == m.pos[i]
           u    == old.user
           cr   == CalcReduce(old, p, q)
           rest == [old EXCEPT !.qty     = old.qty - cr.qty,
                               !.margin  = old.margin - cr.margin,
                               !.funding = old.funding - cr.funding,
                               !.state   = Active]
           n    == [m EXCEPT !.bal[u]    = @ + cr.margin + cr.net,
                             !.pos       = IF cr.full
                                           THEN Restrict(m.pos, DOMAIN m.pos \ {i})
                                           ELSE [m.pos EXCEPT ![i] = rest],
                             !.bought[u] = @ + s * cr.qty,
                             !.paid[u]   = @ + s * cr.qty * p,
                             !.fees[u]   = @ + cr.fee]
<1>1. HandleReduce(m, i, s, q, p, lev)
        = IF q > old.qty THEN HandleOpen(n, u, s, q - old.qty, p, lev, FALSE) ELSE n
  BY DEF HandleReduce
<1>2. /\ DOMAIN n = DOMAIN m
      /\ n = [x \in DOMAIN n |-> n[x]]
      /\ n.pos = IF cr.full THEN Restrict(m.pos, DOMAIN m.pos \ {i})
                 ELSE [m.pos EXCEPT ![i] = rest]
      /\ n.lastPos = m.lastPos
  <2> DEFINE pos == IF cr.full THEN Restrict(m.pos, DOMAIN m.pos \ {i})
                    ELSE [m.pos EXCEPT ![i] = rest]
             bal    == [m.bal EXCEPT ![u] = @ + cr.margin + cr.net]
             bought == [m.bought EXCEPT ![u] = @ + s * cr.qty]
             paid   == [m.paid EXCEPT ![u] = @ + s * cr.qty * p]
             fees   == [m.fees EXCEPT ![u] = @ + cr.fee]
  <2>1. n = [m EXCEPT !.bal = bal, !.pos = pos, !.bought = bought, !.paid = paid, !.fees = fees]
    BY ZenonT(40)
  <2> HIDE DEF n, u, cr, rest, pos, bal, bought, paid, fees
  <2>2. DOMAIN n = DOMAIN m /\ n = [x \in DOMAIN n |-> n[x]] /\ n.pos = pos /\ n.lastPos = m.lastPos
    BY <2>1 DEF Sound
  <2> QED
    BY <2>2 DEF pos
<1>3. "user" \in DOMAIN old
  BY DEF Sound
<1>4. DOMAIN rest = DOMAIN old /\ rest.user = old.user
  BY <1>3
<1> HIDE DEF n, rest, cr
<1>5. DOMAIN n.pos \subseteq DOMAIN m.pos
  BY <1>2 DEF Restrict
<1>6. \A j \in DOMAIN n.pos : DOMAIN n.pos[j] = DOMAIN m.pos[j] /\ n.pos[j].user = m.pos[j].user
  BY <1>2, <1>4, <1>5 DEF Restrict
<1>7. KeepsOwners(m, n)
  BY <1>2, <1>5, <1>6, OwnersKept
<1>8. Sound(n)
  BY <1>7 DEF KeepsOwners
<1>9. KeepsOwners(n, HandleOpen(n, u, s, q - old.qty, p, lev, FALSE))
  BY <1>8, OpenKeeps
<1> QED
  BY <1>1, <1>7, <1>9, Transitive

\* One side of a trade never moves a position to another owner.
THEOREM UpdateKeepsOwners ==
  ASSUME NEW m, Sound(m), NEW u, NEW s, NEW q, NEW p, NEW lev, NEW isMaker,
         NEW n \in UpdatePosition(m, u, s, q, p, lev, isMaker)
  PROVE  KeepsOwners(m, n)
<1>1. CASE Opposites(m, u, s) # {}
  <2>1. PICK i \in Opposites(m, u, s) : n = HandleReduce(m, i, s, q, p, lev)
    BY <1>1 DEF UpdatePosition
  <2>2. i \in DOMAIN m.pos
    BY DEF Opposites, PositionsOf
  <2> QED
    BY <2>1, <2>2, ReduceKeeps
<1>2. CASE Opposites(m, u, s) = {} /\ SameDirs(m, u, s) # {}
  <2>1. PICK i \in SameDirs(m, u, s) : n = HandleIncrease(m, i, q, p)
    BY <1>2 DEF UpdatePosition
  <2>2. i \in DOMAIN m.pos
    BY DEF SameDirs, PositionsOf
  <2> QED
    BY <2>1, <2>2, IncreaseKeeps
<1>3. CASE Opposites(m, u, s) = {} /\ SameDirs(m, u, s) = {}
  BY <1>3, OpenKeeps DEF UpdatePosition
<1> QED
  BY <1>1, <1>2, <1>3

\* Payments and margins change no owner either.
LEMMA AddPnlKeeps ==
  ASSUME NEW m, Sound(m), NEW u, NEW amount
  PROVE  KeepsOwners(m, AddPnl(m, u, amount))
<1> DEFINE n == AddPnl(m, u, amount)
<1>1. DOMAIN n = DOMAIN m /\ n = [x \in DOMAIN n |-> n[x]] /\ n.pos = m.pos /\ n.lastPos = m.lastPos
  BY DEF Sound, AddPnl
<1> HIDE DEF n
<1> QED
  BY <1>1, OwnersKept DEF n

LEMMA FieldKeeps ==
  ASSUME NEW m, Sound(m), NEW i \in DOMAIN m.pos, NEW row,
         DOMAIN row = DOMAIN m.pos[i], row.user = m.pos[i].user,
         NEW n, n = [m EXCEPT !.pos = [m.pos EXCEPT ![i] = row]]
  PROVE  KeepsOwners(m, n)
<1>1. /\ DOMAIN n = DOMAIN m /\ n = [x \in DOMAIN n |-> n[x]] /\ n.lastPos = m.lastPos
      /\ n.pos = [m.pos EXCEPT ![i] = row]
  BY DEF Sound
<1>2. DOMAIN n.pos = DOMAIN m.pos
  BY <1>1
<1>3. \A j \in DOMAIN n.pos : DOMAIN n.pos[j] = DOMAIN m.pos[j] /\ n.pos[j].user = m.pos[j].user
  BY <1>1
<1> QED
  BY <1>1, <1>2, <1>3, OwnersKept

LEMMA SetStateKeeps ==
  ASSUME NEW m, Sound(m), NEW i \in DOMAIN m.pos, NEW state
  PROVE  KeepsOwners(m, SetState(m, i, state))
<1> DEFINE row == [m.pos[i] EXCEPT !.state = state]
<1>1. SetState(m, i, state) = [m EXCEPT !.pos = [m.pos EXCEPT ![i] = row]]
  BY Zenon DEF SetState
<1>2. DOMAIN row = DOMAIN m.pos[i] /\ row.user = m.pos[i].user
  BY DEF Sound
<1> HIDE DEF row
<1> QED
  BY <1>1, <1>2, FieldKeeps


\* From m to n the positions of everybody but u stay what they are.
OwnOnly(m, n, u) ==
  /\ \A i \in DOMAIN m.pos : m.pos[i].user # u => i \in DOMAIN n.pos /\ n.pos[i] = m.pos[i]
  /\ \A i \in DOMAIN n.pos : n.pos[i].user # u => i \in DOMAIN m.pos /\ m.pos[i] = n.pos[i]

LEMMA LoseOwn ==
  ASSUME NEW m, Sound(m), NEW u, NEW s, NEW q, NEW v
  PROVE  OwnOnly(m, Lose(m, u, s, q), v)
<1>1. Lose(m, u, s, q).pos = m.pos
  BY DEF Sound, Lose
<1> QED
  BY <1>1 DEF OwnOnly

LEMMA OpenOwn ==
  ASSUME NEW m, Sound(m), NEW u, NEW s, NEW q, NEW p, NEW lev, NEW isMaker
  PROVE  OwnOnly(m, HandleOpen(m, u, s, q, p, lev, isMaker), u)
<1>1. CASE Available(m, u) < CalcOpen(p, q, lev, isMaker).margin + CalcOpen(p, q, lev, isMaker).fee
  BY <1>1, LoseOwn DEF HandleOpen
<1>2. CASE ~(Available(m, u) < CalcOpen(p, q, lev, isMaker).margin + CalcOpen(p, q, lev, isMaker).fee)
  <2> DEFINE n   == HandleOpen(m, u, s, q, p, lev, isMaker)
             id  == m.lastPos + 1
             cr  == CalcOpen(p, q, lev, isMaker)
             new == [user |-> u, side |-> s, lev |-> lev, entry |-> p, qty |-> q,
                     margin |-> cr.margin, funding |-> 0, state |-> Active]
             pos == [i \in DOMAIN m.pos \cup {id} |-> IF i = id THEN new ELSE m.pos[i]]
             bal    == [m.bal EXCEPT ![u] = @ - (cr.margin + cr.fee)]
             bought == [m.bought EXCEPT ![u] = @ + s * q]
             paid   == [m.paid EXCEPT ![u] = @ + s * q * p]
             fees   == [m.fees EXCEPT ![u] = @ + cr.fee]
  <2>1. n = [m EXCEPT !.bal = bal, !.lastPos = id, !.pos = pos,
                      !.bought = bought, !.paid = paid, !.fees = fees]
    BY <1>2, ZenonT(40) DEF HandleOpen
  <2>2. new.user = u
    OBVIOUS
  <2>3. id \notin DOMAIN m.pos
    BY DEF Sound
  <2> HIDE DEF n, id, cr, new, bal, bought, paid, fees
  <2>4. n.pos = pos
    <3> HIDE DEF pos
    <3> QED
      BY <2>1 DEF Sound
  <2>5. DOMAIN pos = DOMAIN m.pos \cup {id} /\ pos[id] = new /\ \A i \in DOMAIN m.pos : pos[i] = m.pos[i]
    BY <2>3
  <2> HIDE DEF pos
  <2>6. OwnOnly(m, n, u)
    BY <2>2, <2>4, <2>5 DEF OwnOnly
  <2> QED
    BY <2>6 DEF n
<1> QED
  BY <1>1, <1>2

LEMMA IncreaseOwn ==
  ASSUME NEW m, Sound(m), NEW i \in DOMAIN m.pos, NEW q, NEW p
  PROVE  OwnOnly(m, HandleIncrease(m, i, q, p), m.pos[i].user)
<1> DEFINE old == m.pos[i]
           cr  == CalcIncrease(old, q, p)
           now == [old EXCEPT !.entry = cr.entry, !.qty = cr.qty, !.margin = cr.margin]
           n   == HandleIncrease(m, i, q, p)
<1>1. CASE Available(m, old.user) < cr.add
  BY <1>1, LoseOwn DEF HandleIncrease
<1>2. CASE ~(Available(m, old.user) < cr.add)
  <2>1. n.pos = [m.pos EXCEPT ![i] = now]
    BY <1>2, ZenonT(30) DEF Sound, HandleIncrease
  <2>2. now.user = old.user
    BY DEF Sound
  <2> HIDE DEF n, now, cr
  <2>3. DOMAIN n.pos = DOMAIN m.pos /\ n.pos[i] = now /\ \A j \in DOMAIN m.pos \ {i} : n.pos[j] = m.pos[j]
    BY <2>1
  <2>4. OwnOnly(m, n, old.user)
    BY <2>2, <2>3 DEF OwnOnly
  <2> QED
    BY <2>4 DEF n
<1> QED
  BY <1>1, <1>2

LEMMA ReduceOwn ==
  ASSUME NEW m, Sound(m), NEW i \in DOMAIN m.pos, NEW s, NEW q, NEW p, NEW lev
  PROVE  OwnOnly(m, HandleReduce(m, i, s, q, p, lev), m.pos[i].user)
<1> DEFINE old  == m.pos[i]
           u    == old.user
           cr   == CalcReduce(old, p, q)
           rest == [old EXCEPT !.qty     = old.qty - cr.qty,
                               !.margin  = old.margin - cr.margin,
                               !.funding = old.funding - cr.funding,
                               !.state   = Active]
           pos  == IF cr.full THEN Restrict(m.pos, DOMAIN m.pos \ {i})
                   ELSE [m.pos EXCEPT ![i] = rest]
           bal    == [m.bal EXCEPT ![u] = @ + cr.margin + cr.net]
           bought == [m.bought EXCEPT ![u] = @ + s * cr.qty]
           paid   == [m.paid EXCEPT ![u] = @ + s * cr.qty * p]
           fees   == [m.fees EXCEPT ![u] = @ + cr.fee]
           n    == [m EXCEPT !.bal = bal, !.pos = pos, !.bought = bought, !.paid = paid,
                             !.fees = fees]
<1>1. HandleReduce(m, i, s, q, p, lev)
        = IF q > old.qty THEN HandleOpen(n, u, s, q - old.qty, p, lev, FALSE) ELSE n
  <2> DEFINE o == [m EXCEPT !.bal[u]    = @ + cr.margin + cr.net,
                            !.pos       = IF cr.full
                                          THEN Restrict(m.pos, DOMAIN m.pos \ {i})
                                          ELSE [m.pos EXCEPT ![i] = rest],
                            !.bought[u] = @ + s * cr.qty,
                            !.paid[u]   = @ + s * cr.qty * p,
                            !.fees[u]   = @ + cr.fee]
  <2>1. HandleReduce(m, i, s, q, p, lev)
          = IF q > old.qty THEN HandleOpen(o, u, s, q - old.qty, p, lev, FALSE) ELSE o
    BY DEF HandleReduce
  <2>2. o = n
    BY ZenonT(40)
  <2> QED
    BY <2>1, <2>2
<1>2. rest.user = u
  BY DEF Sound
<1> HIDE DEF rest, cr, bal, bought, paid, fees
<1>3. /\ DOMAIN n = DOMAIN m /\ n = [x \in DOMAIN n |-> n[x]]
      /\ n.pos = pos /\ n.lastPos = m.lastPos
  <2> HIDE DEF pos
  <2> QED
    BY DEF Sound
<1>4. /\ DOMAIN pos \subseteq DOMAIN m.pos /\ DOMAIN m.pos \ {i} \subseteq DOMAIN pos
      /\ \A j \in DOMAIN m.pos \ {i} : pos[j] = m.pos[j]
      /\ i \in DOMAIN pos => pos[i] = rest
  BY DEF Restrict
<1> HIDE DEF pos, n, rest
<1>5. OwnOnly(m, n, u)
  BY <1>2, <1>3, <1>4 DEF OwnOnly
<1>6. Sound(n)
  <2>1. \A j \in DOMAIN n.pos : "user" \in DOMAIN n.pos[j]
    <3>1. "user" \in DOMAIN rest
      BY DEF rest, Sound
    <3> QED
      BY <1>3, <1>4, <3>1 DEF Sound
  <2> QED
    BY <1>3, <1>4, <2>1 DEF Sound
<1>7. OwnOnly(n, HandleOpen(n, u, s, q - old.qty, p, lev, FALSE), u)
  BY <1>6, OpenOwn
<1>8. CASE q > old.qty
  <2> DEFINE o == HandleOpen(n, u, s, q - old.qty, p, lev, FALSE)
  <2>1. HandleReduce(m, i, s, q, p, lev) = o
    BY <1>1, <1>8
  <2> HIDE DEF o
  <2>2. OwnOnly(m, o, u)
    BY <1>5, <1>7 DEF OwnOnly, o
  <2> QED
    BY <2>1, <2>2
<1> QED
  BY <1>1, <1>5, <1>8

\* One side of a trade leaves everybody else's positions alone.
LEMMA UpdateOwn ==
  ASSUME NEW m, Sound(m), NEW u, NEW s, NEW q, NEW p, NEW lev, NEW isMaker,
         NEW n \in UpdatePosition(m, u, s, q, p, lev, isMaker)
  PROVE  OwnOnly(m, n, u)
<1>1. CASE Opposites(m, u, s) # {}
  <2>1. PICK i \in Opposites(m, u, s) : n = HandleReduce(m, i, s, q, p, lev)
    BY <1>1 DEF UpdatePosition
  <2>2. i \in DOMAIN m.pos /\ m.pos[i].user = u
    BY DEF Opposites, PositionsOf
  <2> QED
    BY <2>1, <2>2, ReduceOwn
<1>2. CASE Opposites(m, u, s) = {} /\ SameDirs(m, u, s) # {}
  <2>1. PICK i \in SameDirs(m, u, s) : n = HandleIncrease(m, i, q, p)
    BY <1>2 DEF UpdatePosition
  <2>2. i \in DOMAIN m.pos /\ m.pos[i].user = u
    BY DEF SameDirs, PositionsOf
  <2> QED
    BY <2>1, <2>2, IncreaseOwn
<1>3. CASE Opposites(m, u, s) = {} /\ SameDirs(m, u, s) = {}
  BY <1>3, OpenOwn DEF UpdatePosition
<1> QED
  BY <1>1, <1>2, <1>3

-----------------------------------------------------------------------------
(* What one side of a trade may do to the row of a position.               *)

RowFields == {"user", "side", "lev", "entry", "qty", "margin", "funding", "state"}

Rowed(m) == \A i \in DOMAIN m.pos : DOMAIN m.pos[i] = RowFields

\* From m to n by a leg of side s: what goes was of the other side, what stays
\* of the other side keeps its entry price, and what comes is Active.
Legged(m, n, s) ==
  /\ \A i \in DOMAIN m.pos \ DOMAIN n.pos : m.pos[i].side # s
  /\ \A i \in DOMAIN m.pos \cap DOMAIN n.pos :
       /\ DOMAIN n.pos[i] = DOMAIN m.pos[i]
       /\ n.pos[i].side = m.pos[i].side
       /\ m.pos[i].side # s => n.pos[i].entry = m.pos[i].entry
  /\ \A i \in DOMAIN n.pos \ DOMAIN m.pos :
       DOMAIN n.pos[i] = RowFields /\ n.pos[i].side = s /\ n.pos[i].state = Active

LEMMA LostLegged ==
  ASSUME NEW m, Sound(m), NEW u, NEW s, NEW q, NEW r
  PROVE  Lose(m, u, s, q).pos = m.pos /\ Legged(m, Lose(m, u, s, q), r)
<1>1. Lose(m, u, s, q).pos = m.pos
  BY DEF Sound, Lose
<1> QED
  BY <1>1 DEF Legged

\* Position id of side s is opened.
OpensRow(m, n, s, id) ==
  /\ DOMAIN n.pos = DOMAIN m.pos \cup {id} /\ id \notin DOMAIN m.pos
  /\ \A i \in DOMAIN m.pos : n.pos[i] = m.pos[i]
  /\ DOMAIN n.pos[id] = RowFields /\ n.pos[id].side = s /\ n.pos[id].state = Active

LEMMA OpenLegged ==
  ASSUME NEW m, Sound(m), NEW u, NEW s, NEW q, NEW p, NEW lev, NEW isMaker
  PROVE  \/ HandleOpen(m, u, s, q, p, lev, isMaker).pos = m.pos
         \/ OpensRow(m, HandleOpen(m, u, s, q, p, lev, isMaker), s, m.lastPos + 1)
<1>1. CASE Available(m, u) < CalcOpen(p, q, lev, isMaker).margin + CalcOpen(p, q, lev, isMaker).fee
  BY <1>1, LostLegged DEF HandleOpen
<1>2. CASE ~(Available(m, u) < CalcOpen(p, q, lev, isMaker).margin + CalcOpen(p, q, lev, isMaker).fee)
  <2> DEFINE n   == HandleOpen(m, u, s, q, p, lev, isMaker)
             id  == m.lastPos + 1
             cr  == CalcOpen(p, q, lev, isMaker)
             new == [user |-> u, side |-> s, lev |-> lev, entry |-> p, qty |-> q,
                     margin |-> cr.margin, funding |-> 0, state |-> Active]
             pos == [i \in DOMAIN m.pos \cup {id} |-> IF i = id THEN new ELSE m.pos[i]]
             bal    == [m.bal EXCEPT ![u] = @ - (cr.margin + cr.fee)]
             bought == [m.bought EXCEPT ![u] = @ + s * q]
             paid   == [m.paid EXCEPT ![u] = @ + s * q * p]
             fees   == [m.fees EXCEPT ![u] = @ + cr.fee]
  <2>1. n = [m EXCEPT !.bal = bal, !.lastPos = id, !.pos = pos,
                      !.bought = bought, !.paid = paid, !.fees = fees]
    BY <1>2, ZenonT(40) DEF HandleOpen
  <2>2. DOMAIN new = RowFields /\ new.side = s /\ new.state = Active
    BY DEF RowFields
  <2>3. id \notin DOMAIN m.pos
    BY DEF Sound
  <2> HIDE DEF n, id, cr, new, bal, bought, paid, fees
  <2>4. n.pos = pos
    <3> HIDE DEF pos
    <3> QED
      BY <2>1 DEF Sound
  <2>5. DOMAIN pos = DOMAIN m.pos \cup {id} /\ pos[id] = new /\ \A i \in DOMAIN m.pos : pos[i] = m.pos[i]
    BY <2>3
  <2> HIDE DEF pos
  <2>6. OpensRow(m, n, s, id)
    BY <2>2, <2>3, <2>4, <2>5 DEF OpensRow
  <2> QED
    BY <2>6 DEF n, id
<1> QED
  BY <1>1, <1>2

LEMMA IncreaseLegged ==
  ASSUME NEW m, Sound(m), Rowed(m), NEW i \in DOMAIN m.pos, NEW q, NEW p
  PROVE  Legged(m, HandleIncrease(m, i, q, p), m.pos[i].side)
<1> DEFINE old == m.pos[i]
           cr  == CalcIncrease(old, q, p)
           now == [old EXCEPT !.entry = cr.entry, !.qty = cr.qty, !.margin = cr.margin]
           n   == HandleIncrease(m, i, q, p)
<1>1. CASE Available(m, old.user) < cr.add
  BY <1>1, LostLegged DEF HandleIncrease
<1>2. CASE ~(Available(m, old.user) < cr.add)
  <2>1. n.pos = [m.pos EXCEPT ![i] = now]
    BY <1>2, ZenonT(30) DEF Sound, HandleIncrease
  <2>2. DOMAIN now = DOMAIN old /\ now.side = old.side
    BY DEF Rowed, RowFields
  <2> HIDE DEF n, now, cr
  <2>3. DOMAIN n.pos = DOMAIN m.pos /\ n.pos[i] = now /\ \A j \in DOMAIN m.pos \ {i} : n.pos[j] = m.pos[j]
    BY <2>1
  <2>4. Legged(m, n, old.side)
    BY <2>2, <2>3 DEF Legged
  <2> QED
    BY <2>4 DEF n
<1> QED
  BY <1>1, <1>2

LEMMA ReduceLegged ==
  ASSUME NEW m, Sound(m), Rowed(m), NEW i \in DOMAIN m.pos, NEW s, m.pos[i].side # s,
         NEW q, NEW p, NEW lev
  PROVE  Legged(m, HandleReduce(m, i, s, q, p, lev), s)
<1> DEFINE old  == m.pos[i]
           u    == old.user
           cr   == CalcReduce(old, p, q)
           rest == [old EXCEPT !.qty     = old.qty - cr.qty,
                               !.margin  = old.margin - cr.margin,
                               !.funding = old.funding - cr.funding,
                               !.state   = Active]
           pos  == IF cr.full THEN Restrict(m.pos, DOMAIN m.pos \ {i})
                   ELSE [m.pos EXCEPT ![i] = rest]
           bal    == [m.bal EXCEPT ![u] = @ + cr.margin + cr.net]
           bought == [m.bought EXCEPT ![u] = @ + s * cr.qty]
           paid   == [m.paid EXCEPT ![u] = @ + s * cr.qty * p]
           fees   == [m.fees EXCEPT ![u] = @ + cr.fee]
           n    == [m EXCEPT !.bal = bal, !.pos = pos, !.bought = bought, !.paid = paid,
                             !.fees = fees]
<1>1. HandleReduce(m, i, s, q, p, lev)
        = IF q > old.qty THEN HandleOpen(n, u, s, q - old.qty, p, lev, FALSE) ELSE n
  <2> DEFINE o == [m EXCEPT !.bal[u]    = @ + cr.margin + cr.net,
                            !.pos       = IF cr.full
                                          THEN Restrict(m.pos, DOMAIN m.pos \ {i})
                                          ELSE [m.pos EXCEPT ![i] = rest],
                            !.bought[u] = @ + s * cr.qty,
                            !.paid[u]   = @ + s * cr.qty * p,
                            !.fees[u]   = @ + cr.fee]
  <2>1. HandleReduce(m, i, s, q, p, lev)
          = IF q > old.qty THEN HandleOpen(o, u, s, q - old.qty, p, lev, FALSE) ELSE o
    BY DEF HandleReduce
  <2>2. o = n
    BY ZenonT(40)
  <2> QED
    BY <2>1, <2>2
<1>2. /\ DOMAIN rest = DOMAIN old /\ rest.side = old.side /\ rest.entry = old.entry
      /\ "user" \in DOMAIN rest
  BY DEF Rowed, RowFields
<1> HIDE DEF rest, cr, bal, bought, paid, fees
<1>3. /\ DOMAIN n = DOMAIN m /\ n = [x \in DOMAIN n |-> n[x]]
      /\ n.pos = pos /\ n.lastPos = m.lastPos
  <2> HIDE DEF pos
  <2> QED
    BY DEF Sound
<1>4. /\ DOMAIN pos \subseteq DOMAIN m.pos /\ DOMAIN m.pos \ {i} \subseteq DOMAIN pos
      /\ \A j \in DOMAIN m.pos \ {i} : pos[j] = m.pos[j]
      /\ i \in DOMAIN pos => pos[i] = rest
  BY DEF Restrict
<1> HIDE DEF pos, n, rest
<1>5. Legged(m, n, s)
  BY <1>2, <1>3, <1>4 DEF Legged
<1>6. Sound(n)
  <2>1. \A j \in DOMAIN n.pos : "user" \in DOMAIN n.pos[j]
    BY <1>2, <1>3, <1>4 DEF Sound
  <2> QED
    BY <1>3, <1>4, <2>1 DEF Sound
<1>7. CASE q > old.qty
  <2> DEFINE o == HandleOpen(n, u, s, q - old.qty, p, lev, FALSE)
             id == n.lastPos + 1
  <2>1. HandleReduce(m, i, s, q, p, lev) = o
    BY <1>1, <1>7
  <2>2. \/ o.pos = n.pos
        \/ OpensRow(n, o, s, id)
    BY <1>6, OpenLegged
  <2>3. id \notin DOMAIN m.pos
    BY <1>3 DEF Sound
  <2> HIDE DEF o, id
  <2>4. Legged(m, o, s)
    BY <1>5, <2>2, <2>3 DEF Legged, OpensRow
  <2> QED
    BY <2>1, <2>4
<1> QED
  BY <1>1, <1>5, <1>7

\* What one side of a trade does to the rows of the cache.
LEMMA UpdateLegged ==
  ASSUME NEW m, Sound(m), Rowed(m), NEW u, NEW s \in Sides, NEW q, NEW p, NEW lev,
         NEW isMaker, NEW n \in UpdatePosition(m, u, s, q, p, lev, isMaker)
  PROVE  Legged(m, n, s)
<1>1. CASE Opposites(m, u, s) # {}
  <2>1. PICK i \in Opposites(m, u, s) : n = HandleReduce(m, i, s, q, p, lev)
    BY <1>1 DEF UpdatePosition
  <2>2. i \in DOMAIN m.pos /\ m.pos[i].side = -s
    BY DEF Opposites, PositionsOf
  <2>3. -s # s
    BY DEF Sides, Long, Short
  <2> QED
    BY <2>1, <2>2, <2>3, ReduceLegged
<1>2. CASE Opposites(m, u, s) = {} /\ SameDirs(m, u, s) # {}
  <2>1. PICK i \in SameDirs(m, u, s) : n = HandleIncrease(m, i, q, p)
    BY <1>2 DEF UpdatePosition
  <2>2. i \in DOMAIN m.pos /\ m.pos[i].side = s
    BY DEF SameDirs, PositionsOf
  <2> QED
    BY <2>1, <2>2, IncreaseLegged
<1>3. CASE Opposites(m, u, s) = {} /\ SameDirs(m, u, s) = {}
  <2> DEFINE id == m.lastPos + 1
  <2>1. n = HandleOpen(m, u, s, q, p, lev, isMaker)
    BY <1>3 DEF UpdatePosition
  <2>2. \/ n.pos = m.pos
        \/ OpensRow(m, n, s, id)
    BY <2>1, OpenLegged
  <2> HIDE DEF id
  <2> QED
    BY <2>2 DEF Legged, OpensRow
<1> QED
  BY <1>1, <1>2, <1>3
=============================================================================
