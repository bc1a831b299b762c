-------------------------- MODULE CollectionProofs --------------------------
(***************************************************************************)
(* Facts about the data the models are built from: sequences, and          *)
(* SumFunctionOnSet, the sum of the values of a function over              *)
(* a finite set, which the models use for the total of a price level, the  *)
(* net position of a market and the books of the insurance fund.           *)
(*                                                                         *)
(* The sum is a recursive function on the subsets of the set.  The library *)
(* states induction with an operator as a parameter, so each fact here is  *)
(* proved from a smallest counterexample instead.                          *)
(***************************************************************************)
EXTENDS Integers, FiniteSets, Functions, Sequences, SequencesExt, FiniteSetTheorems,
        SequenceTheorems, TLAPS

-----------------------------------------------------------------------------
(* The recursive function exists.                                          *)

Pick(s) == CHOOSE x \in s : TRUE

\* g sums f over every set of sets that D holds.
Sums(g, f, D) ==
  g = [s \in D |-> IF s = {} THEN 0 ELSE f[Pick(s)] + g[s \ {Pick(s)}]]

LEMMA PickIn ==
  ASSUME NEW s, s # {}
  PROVE  Pick(s) \in s
  BY DEF Pick

\* A set of natural numbers has a smallest element.
LEMMA SmallestNat ==
  ASSUME NEW T \in SUBSET Nat, T # {}
  PROVE  \E m \in T : \A k \in T : m <= k
<1>1. PICK m \in T : \A y \in T : ~(<<y, m>> \in OpToRel(<, Nat))
  BY WFMin, NatLessThanWellFounded
<1>2. \A y \in T : ~(y < m)
  BY <1>1 DEF OpToRel
<1> QED
  BY <1>2

\* A set of finite sets has one that has no other of them inside.
LEMMA SmallestSet ==
  ASSUME NEW S, IsFiniteSet(S), NEW C \in SUBSET (SUBSET S), C # {}
  PROVE  \E m \in C : \A k \in C : k \subseteq m => k = m
<1>1. FiniteSubsetsOf(S) = SUBSET S
  BY FS_FiniteSubsetsOfFinite
<1>2. IsWellFoundedOn(StrictSubsetOrdering(S), SUBSET S)
  BY <1>1, FS_StrictSubsetOrderingWellFounded
<1>3. PICK m \in C : \A k \in C : ~(<<k, m>> \in StrictSubsetOrdering(S))
  BY <1>2, WFMin
<1>4. ASSUME NEW k \in C, k \subseteq m, k # m
      PROVE  FALSE
  <2>1. <<k, m>> \in (SUBSET S) \X (SUBSET S)
    OBVIOUS
  <2>2. <<k, m>> \in StrictSubsetOrdering(S)
    BY <1>4, <2>1 DEF StrictSubsetOrdering
  <2> QED
    BY <1>3, <2>2
<1> QED
  BY <1>4

Small(S, n) == {s \in SUBSET S : Cardinality(s) <= n}

LEMMA SumsUpTo ==
  ASSUME NEW S, IsFiniteSet(S), NEW f, NEW n \in Nat
  PROVE  \E g : Sums(g, f, Small(S, n))
<1> DEFINE N == {k \in Nat : ~\E g : Sums(g, f, Small(S, k))}
<1>1. SUFFICES ASSUME n \in N
               PROVE  FALSE
  OBVIOUS
<1>2. N \in SUBSET Nat /\ N # {}
  BY <1>1
<1>3. PICK m \in N : \A k \in N : m <= k
  BY <1>2, SmallestNat, Zenon
<1>4. \A s \in SUBSET S : IsFiniteSet(s) /\ Cardinality(s) \in Nat
  BY FS_Subset, FS_CardinalityType
<1>5. CASE m = 0
  <2> DEFINE g == [s \in Small(S, 0) |-> 0]
  <2>1. \A s \in Small(S, 0) : s = {}
    BY <1>4, FS_EmptySet DEF Small
  <2>2. g = [s \in Small(S, 0) |-> IF s = {} THEN 0 ELSE f[Pick(s)] + g[s \ {Pick(s)}]]
    BY <2>1
  <2>3. Sums(g, f, Small(S, 0))
    BY <2>2 DEF Sums
  <2> QED
    BY <1>3, <1>5, <2>3
<1>6. CASE m # 0
  <2>1. m - 1 \in Nat /\ m - 1 \notin N
    BY <1>2, <1>3, <1>6
  <2>2. PICK h : Sums(h, f, Small(S, m - 1))
    BY <2>1
  <2> DEFINE Next1(k, s) == IF s = {} THEN 0 ELSE f[Pick(s)] + k[s \ {Pick(s)}]
             g == [s \in Small(S, m) |-> Next1(h, s)]
  <2>3. \A s \in Small(S, m - 1) : h[s] = Next1(h, s)
    BY <2>2 DEF Sums
  <2>4. \A s \in Small(S, m - 1) : s \in Small(S, m) /\ g[s] = h[s]
    <3>1. \A s \in Small(S, m - 1) : s \in Small(S, m)
      <4>1. m \in Int
        BY <1>2
      <4> QED
        BY <1>4, <4>1 DEF Small
    <3> QED
      BY <2>3, <3>1
  <2>5. \A s \in Small(S, m) : s # {} => s \ {Pick(s)} \in Small(S, m - 1)
    <3> SUFFICES ASSUME NEW s \in Small(S, m), s # {}
                 PROVE  s \ {Pick(s)} \in Small(S, m - 1)
      OBVIOUS
    <3>1. IsFiniteSet(s) /\ Cardinality(s) <= m /\ s \in SUBSET S
      BY <1>4 DEF Small
    <3>2. Pick(s) \in s
      BY PickIn
    <3>3. Cardinality(s \ {Pick(s)}) = Cardinality(s) - 1
      BY <3>1, <3>2, FS_RemoveElement
    <3> QED
      BY <1>2, <1>4, <3>1, <3>3 DEF Small
  <2>6. \A s \in Small(S, m) : Next1(h, s) = Next1(g, s)
    BY <2>4, <2>5
  <2>7. g = [s \in Small(S, m) |-> Next1(g, s)]
    BY <2>6
  <2>8. Sums(g, f, Small(S, m))
    BY <2>7 DEF Sums
  <2> QED
    BY <1>3, <2>8
<1> QED
  BY <1>5, <1>6

LEMMA SumsExist ==
  ASSUME NEW S, IsFiniteSet(S), NEW f
  PROVE  \E g : Sums(g, f, SUBSET S)
<1>1. Cardinality(S) \in Nat
  BY FS_CardinalityType
<1>2. Small(S, Cardinality(S)) = SUBSET S
  BY FS_Subset DEF Small
<1>3. \E g : Sums(g, f, Small(S, Cardinality(S)))
  BY <1>1, SumsUpTo
<1> QED
  BY <1>2, <1>3

\* SumFunctionOnSet is the value of such a function at the whole set.
LEMMA SumIs ==
  ASSUME NEW S, IsFiniteSet(S), NEW f
  PROVE  \E g : Sums(g, f, SUBSET S) /\ SumFunctionOnSet(f, S) = g[S]
<1> DEFINE g == CHOOSE iter : iter = [s \in SUBSET S |->
                    IF s = {} THEN 0
                    ELSE f[CHOOSE x \in s : TRUE] + iter[s \ {CHOOSE x \in s : TRUE}]]
<1>1. SumFunctionOnSet(f, S) = g[S]
  BY DEF SumFunctionOnSet, FoldFunctionOnSet, MapThenFoldSet
<1>2. \E iter : Sums(iter, f, SUBSET S)
  BY SumsExist
<1>3. Sums(g, f, SUBSET S)
  BY <1>2 DEF Sums, Pick
<1> QED
  BY <1>1, <1>3

-----------------------------------------------------------------------------
(* Unfolding the sum.                                                      *)

\* Two such functions agree wherever both are defined.
LEMMA SumsAgree ==
  ASSUME NEW S, IsFiniteSet(S), NEW f, NEW f2, NEW g, NEW h, NEW T \in SUBSET S,
         Sums(g, f, SUBSET S), Sums(h, f2, SUBSET T),
         \A x \in T : f[x] = f2[x]
  PROVE  g[T] = h[T]
<1> DEFINE C == {U \in SUBSET T : g[U] # h[U]}
<1>1. SUFFICES ASSUME g[T] # h[T]
               PROVE  FALSE
  OBVIOUS
<1>2. C \in SUBSET (SUBSET T) /\ C # {} /\ IsFiniteSet(T)
  BY <1>1, FS_Subset
<1> HIDE DEF C
<1>3. PICK m \in C : \A k \in C : k \subseteq m => k = m
  BY <1>2, SmallestSet
<1> USE DEF C
<1>4. /\ g[m] = IF m = {} THEN 0 ELSE f[Pick(m)] + g[m \ {Pick(m)}]
      /\ h[m] = IF m = {} THEN 0 ELSE f2[Pick(m)] + h[m \ {Pick(m)}]
  BY <1>3 DEF Sums
<1>5. CASE m = {}
  BY <1>3, <1>4, <1>5
<1>6. CASE m # {}
  <2>1. Pick(m) \in m /\ m \subseteq T
    BY <1>3, <1>6, PickIn
  <2>2. m \ {Pick(m)} \notin C
    BY <1>3, <2>1
  <2> QED
    BY <1>3, <1>4, <1>6, <2>1, <2>2
<1> QED
  BY <1>5, <1>6

\* The empty sum is zero.
LEMMA SumEmpty ==
  ASSUME NEW f
  PROVE  SumFunctionOnSet(f, {}) = 0
<1>1. PICK g : Sums(g, f, SUBSET {}) /\ SumFunctionOnSet(f, {}) = g[{}]
  BY SumIs, FS_EmptySet
<1> QED
  BY <1>1 DEF Sums

\* Functions that agree on a set have the same sum over it.
LEMMA SumSame ==
  ASSUME NEW S, IsFiniteSet(S), NEW f, NEW f2, \A x \in S : f[x] = f2[x]
  PROVE  SumFunctionOnSet(f, S) = SumFunctionOnSet(f2, S)
<1>1. PICK g : Sums(g, f, SUBSET S) /\ SumFunctionOnSet(f, S) = g[S]
  BY SumIs
<1>2. PICK h : Sums(h, f2, SUBSET S) /\ SumFunctionOnSet(f2, S) = h[S]
  BY SumIs
<1>3. g[S] = h[S]
  BY <1>1, <1>2, SumsAgree
<1> QED
  BY <1>1, <1>2, <1>3

\* One step of the fold.
LEMMA SumStep ==
  ASSUME NEW S, IsFiniteSet(S), NEW f, S # {}
  PROVE  SumFunctionOnSet(f, S)
           = f[Pick(S)] + SumFunctionOnSet(f, S \ {Pick(S)})
<1> DEFINE T == S \ {Pick(S)}
<1>1. PICK g : Sums(g, f, SUBSET S) /\ SumFunctionOnSet(f, S) = g[S]
  BY SumIs
<1>2. IsFiniteSet(T) /\ T \in SUBSET S
  BY FS_Subset
<1>3. PICK h : Sums(h, f, SUBSET T) /\ SumFunctionOnSet(f, T) = h[T]
  BY <1>2, SumIs
<1> HIDE DEF T
<1>4. g[T] = h[T]
  BY <1>1, <1>2, <1>3, SumsAgree
<1> USE DEF T
<1>5. g[S] = f[Pick(S)] + g[T]
  BY <1>1 DEF Sums
<1> QED
  BY <1>1, <1>3, <1>4, <1>5

\* A sum of integers is an integer.
LEMMA SumInt ==
  ASSUME NEW S, IsFiniteSet(S), NEW f, \A x \in S : f[x] \in Int
  PROVE  SumFunctionOnSet(f, S) \in Int
<1> DEFINE C == {U \in SUBSET S : SumFunctionOnSet(f, U) \notin Int}
<1>1. SUFFICES ASSUME C # {}
               PROVE  FALSE
  OBVIOUS
<1>0. C \in SUBSET (SUBSET S)
  OBVIOUS
<1> HIDE DEF C
<1>2. PICK m \in C : \A k \in C : k \subseteq m => k = m
  BY <1>1, <1>0, SmallestSet
<1> USE DEF C
<1>3. m # {} /\ IsFiniteSet(m)
  <2>1. SumFunctionOnSet(f, {}) \in Int
    BY SumEmpty
  <2> QED
    BY <1>2, <2>1, FS_Subset
<1>4. Pick(m) \in m /\ m \ {Pick(m)} \notin C
  BY <1>2, <1>3, PickIn
<1>5. /\ SumFunctionOnSet(f, m \ {Pick(m)}) \in Int
      /\ f[Pick(m)] \in Int
      /\ SumFunctionOnSet(f, m) = f[Pick(m)] + SumFunctionOnSet(f, m \ {Pick(m)})
  BY <1>2, <1>3, <1>4, SumStep
<1> HIDE DEF C
<1>6. SumFunctionOnSet(f, m) \in Int
  BY <1>5
<1> QED
  BY <1>2, <1>6 DEF C

\* So it is with natural numbers.
LEMMA SumNat ==
  ASSUME NEW S, IsFiniteSet(S), NEW f, \A x \in S : f[x] \in Nat
  PROVE  SumFunctionOnSet(f, S) \in Nat
<1> DEFINE C == {U \in SUBSET S : SumFunctionOnSet(f, U) \notin Nat}
<1>1. SUFFICES ASSUME C # {}
               PROVE  FALSE
  OBVIOUS
<1>0. C \in SUBSET (SUBSET S)
  OBVIOUS
<1> HIDE DEF C
<1>2. PICK m \in C : \A k \in C : k \subseteq m => k = m
  BY <1>1, <1>0, SmallestSet
<1> USE DEF C
<1>3. m # {} /\ IsFiniteSet(m)
  <2>1. SumFunctionOnSet(f, {}) \in Nat
    BY SumEmpty
  <2> QED
    BY <1>2, <2>1, FS_Subset
<1>4. Pick(m) \in m /\ m \ {Pick(m)} \notin C
  BY <1>2, <1>3, PickIn
<1>5. /\ SumFunctionOnSet(f, m \ {Pick(m)}) \in Nat
      /\ f[Pick(m)] \in Nat
      /\ SumFunctionOnSet(f, m) = f[Pick(m)] + SumFunctionOnSet(f, m \ {Pick(m)})
  BY <1>2, <1>3, <1>4, SumStep
<1> HIDE DEF C
<1>6. SumFunctionOnSet(f, m) \in Nat
  BY <1>5
<1> QED
  BY <1>2, <1>6 DEF C

\* Any element can be taken out of a sum, not only the one the fold takes.
LEMMA SumRemove ==
  ASSUME NEW S, IsFiniteSet(S), NEW f, \A x \in S : f[x] \in Int, NEW e \in S
  PROVE  SumFunctionOnSet(f, S) = f[e] + SumFunctionOnSet(f, S \ {e})
<1> DEFINE Sum(U) == SumFunctionOnSet(f, U)
           C == {U \in SUBSET S : \E x \in U : Sum(U) # f[x] + Sum(U \ {x})}
<1>1. SUFFICES ASSUME C # {}
               PROVE  FALSE
  OBVIOUS
<1>2. \A U \in SUBSET S : IsFiniteSet(U)
  BY FS_Subset
<1>3. \A U \in SUBSET S : Sum(U) \in Int
  <2> SUFFICES ASSUME NEW U \in SUBSET S
               PROVE  SumFunctionOnSet(f, U) \in Int
    OBVIOUS
  <2> QED
    BY <1>2, SumInt
<1>4. \A U \in SUBSET S : U # {} => Sum(U) = f[Pick(U)] + Sum(U \ {Pick(U)})
  <2> SUFFICES ASSUME NEW U \in SUBSET S, U # {}
               PROVE  SumFunctionOnSet(f, U)
                        = f[Pick(U)] + SumFunctionOnSet(f, U \ {Pick(U)})
    OBVIOUS
  <2> QED
    BY <1>2, SumStep
<1>0. C \in SUBSET (SUBSET S)
  OBVIOUS
<1> HIDE DEF C
<1>5. PICK m \in C : \A k \in C : k \subseteq m => k = m
  BY <1>1, <1>0, SmallestSet
<1> USE DEF C
<1>6. PICK x \in m : Sum(m) # f[x] + Sum(m \ {x})
  BY <1>5
<1> DEFINE c == Pick(m)
<1>7. c \in m /\ m \in SUBSET S /\ Sum(m) = f[c] + Sum(m \ {c})
  BY <1>4, <1>5, <1>6, PickIn
<1> HIDE DEF c
<1>8. x # c
  BY <1>6, <1>7
<1>9. m \ {c} \notin C /\ m \ {x} \notin C
  BY <1>5, <1>7
<1> DEFINE r == m \ {c, x}
<1>10. r = (m \ {c}) \ {x} /\ r = (m \ {x}) \ {c} /\ r \in SUBSET S
  BY <1>7
<1>11. Sum(m \ {c}) = f[x] + Sum(r)
  BY <1>7, <1>8, <1>9, <1>10
<1>12. Sum(m \ {x}) = f[c] + Sum(r)
  BY <1>7, <1>8, <1>9, <1>10
<1>13. f[c] \in Int /\ f[x] \in Int /\ Sum(r) \in Int
  BY <1>3, <1>7, <1>10
<1> HIDE DEF Sum, r
<1> QED
  BY <1>6, <1>7, <1>11, <1>12, <1>13

\* An element that is not in the set adds its value to the sum.
LEMMA SumAddElement ==
  ASSUME NEW S, IsFiniteSet(S), NEW f, NEW e, e \notin S,
         \A x \in S \cup {e} : f[x] \in Int
  PROVE  SumFunctionOnSet(f, S \cup {e}) = f[e] + SumFunctionOnSet(f, S)
<1>1. IsFiniteSet(S \cup {e}) /\ (S \cup {e}) \ {e} = S
  BY FS_AddElement
<1>2. SumFunctionOnSet(f, S \cup {e})
        = f[e] + SumFunctionOnSet(f, (S \cup {e}) \ {e})
  BY <1>1, SumRemove
<1> QED
  BY <1>1, <1>2

\* A function that differs at one element has a sum that differs by as much.
LEMMA SumUpdate ==
  ASSUME NEW S, IsFiniteSet(S), NEW f, NEW g, NEW e \in S,
         \A x \in S : f[x] \in Int /\ g[x] \in Int,
         \A x \in S \ {e} : g[x] = f[x]
  PROVE  SumFunctionOnSet(g, S) = SumFunctionOnSet(f, S) + (g[e] - f[e])
<1>1. SumFunctionOnSet(f, S) = f[e] + SumFunctionOnSet(f, S \ {e})
  BY SumRemove
<1>2. SumFunctionOnSet(g, S) = g[e] + SumFunctionOnSet(g, S \ {e})
  BY SumRemove
<1>3. IsFiniteSet(S \ {e})
  BY FS_RemoveElement
<1>4. SumFunctionOnSet(g, S \ {e}) = SumFunctionOnSet(f, S \ {e})
  BY <1>3, SumSame
<1>5. SumFunctionOnSet(f, S \ {e}) \in Int
  BY <1>3, SumInt
<1> QED
  BY <1>1, <1>2, <1>4, <1>5

\* The value of f at e if e is among the summands.
ValueAt(f, S, e) == IF e \in S THEN f[e] ELSE 0

\* Taking one element apart, whether it is among the summands or not.
LEMMA SumApart ==
  ASSUME NEW S, IsFiniteSet(S), NEW f, NEW e, \A x \in S : f[x] \in Int
  PROVE  /\ SumFunctionOnSet(f, S \ {e}) \in Int
         /\ ValueAt(f, S, e) \in Int
         /\ SumFunctionOnSet(f, S) = SumFunctionOnSet(f, S \ {e}) + ValueAt(f, S, e)
<1>1. IsFiniteSet(S \ {e})
  BY FS_RemoveElement
<1>2. SumFunctionOnSet(f, S \ {e}) \in Int
  BY <1>1, SumInt
<1>3. CASE e \in S
  <2>1. SumFunctionOnSet(f, S) = f[e] + SumFunctionOnSet(f, S \ {e})
    BY <1>3, SumRemove
  <2> QED
    BY <1>2, <1>3, <2>1 DEF ValueAt
<1>4. CASE e \notin S
  <2>1. S \ {e} = S
    BY <1>4
  <2>2. SumFunctionOnSet(f, S) = SumFunctionOnSet(f, S \ {e})
    BY <2>1
  <2>3. ValueAt(f, S, e) = 0
    BY <1>4 DEF ValueAt
  <2> QED
    BY <1>2, <2>2, <2>3
<1> QED
  BY <1>3, <1>4

\* Sums over sets and of functions that only differ at one element differ by
\* what they have there.
LEMMA SumMove ==
  ASSUME NEW S, IsFiniteSet(S), NEW f, \A x \in S : f[x] \in Int,
         NEW T, IsFiniteSet(T), NEW g, \A x \in T : g[x] \in Int,
         NEW e, S \ {e} = T \ {e}, \A x \in S \ {e} : f[x] = g[x]
  PROVE  SumFunctionOnSet(g, T)
           = SumFunctionOnSet(f, S) + (ValueAt(g, T, e) - ValueAt(f, S, e))
<1>1. /\ SumFunctionOnSet(f, S \ {e}) \in Int /\ ValueAt(f, S, e) \in Int
      /\ SumFunctionOnSet(f, S) = SumFunctionOnSet(f, S \ {e}) + ValueAt(f, S, e)
  BY SumApart
<1>2. /\ SumFunctionOnSet(g, T \ {e}) \in Int /\ ValueAt(g, T, e) \in Int
      /\ SumFunctionOnSet(g, T) = SumFunctionOnSet(g, T \ {e}) + ValueAt(g, T, e)
  BY SumApart
<1>3. IsFiniteSet(S \ {e})
  BY FS_RemoveElement
<1>4. SumFunctionOnSet(f, S \ {e}) = SumFunctionOnSet(g, S \ {e})
  BY <1>3, SumSame
<1>5. SumFunctionOnSet(f, S \ {e}) = SumFunctionOnSet(g, T \ {e})
  BY <1>4
<1> QED
  BY <1>1, <1>2, <1>5


\* A factor can be taken out of a sum.
LEMMA SumScale ==
  ASSUME NEW S, IsFiniteSet(S), NEW c \in Int, NEW f, NEW g,
         \A x \in S : f[x] \in Int, \A x \in S : g[x] = c * f[x]
  PROVE  SumFunctionOnSet(g, S) = c * SumFunctionOnSet(f, S)
<1> DEFINE C == {U \in SUBSET S : SumFunctionOnSet(g, U) # c * SumFunctionOnSet(f, U)}
<1>1. SUFFICES ASSUME C # {}
               PROVE  FALSE
  OBVIOUS
<1>0. C \in SUBSET (SUBSET S)
  OBVIOUS
<1> HIDE DEF C
<1>2. PICK m \in C : \A k \in C : k \subseteq m => k = m
  BY <1>1, <1>0, SmallestSet
<1>3. m \in SUBSET S /\ SumFunctionOnSet(g, m) # c * SumFunctionOnSet(f, m)
  BY <1>2 DEF C
<1>4. m # {} /\ IsFiniteSet(m)
  <2>1. SumFunctionOnSet(g, {}) = 0 /\ SumFunctionOnSet(f, {}) = 0
    BY SumEmpty
  <2>2. SumFunctionOnSet(g, {}) = c * SumFunctionOnSet(f, {})
    BY <2>1
  <2>3. m # {}
    BY <1>3, <2>2
  <2> QED
    BY <1>3, <2>3, FS_Subset
<1> DEFINE e == Pick(m)
<1>5. e \in m /\ m \ {e} \notin C
  BY <1>2, <1>4, PickIn
<1>6. /\ SumFunctionOnSet(f, m) = f[e] + SumFunctionOnSet(f, m \ {e})
      /\ SumFunctionOnSet(g, m) = g[e] + SumFunctionOnSet(g, m \ {e})
  BY <1>4, SumStep
<1> HIDE DEF e
<1>7. SumFunctionOnSet(g, m \ {e}) = c * SumFunctionOnSet(f, m \ {e})
  BY <1>3, <1>5 DEF C
<1>8. IsFiniteSet(m \ {e}) /\ \A x \in m \ {e} : f[x] \in Int
  BY <1>3, <1>4, FS_RemoveElement
<1>9. SumFunctionOnSet(f, m \ {e}) \in Int
  BY <1>8, SumInt
<1>10. f[e] \in Int /\ g[e] = c * f[e]
  BY <1>3, <1>5
<1>11. \A a, b \in Int : c * a + c * b = c * (a + b)
  OBVIOUS
<1> QED
  BY <1>3, <1>6, <1>7, <1>9, <1>10, <1>11

\* Sum by owner of what is his of U.
Parts(f, U, T, owner) == [t \in T |-> SumFunctionOnSet(f, {x \in U : owner[x] = t})]

LEMMA PartsInt ==
  ASSUME NEW U, IsFiniteSet(U), NEW T, NEW f, NEW owner, \A x \in U : f[x] \in Int
  PROVE  \A t \in T : Parts(f, U, T, owner)[t] \in Int
<1> SUFFICES ASSUME NEW t \in T
             PROVE  SumFunctionOnSet(f, {x \in U : owner[x] = t}) \in Int
  BY DEF Parts
<1>1. IsFiniteSet({x \in U : owner[x] = t})
  BY FS_Subset
<1> QED
  BY <1>1, SumInt

LEMMA PartsStep ==
  ASSUME NEW U, IsFiniteSet(U), NEW T, IsFiniteSet(T), NEW f, NEW owner,
         \A x \in U : f[x] \in Int /\ owner[x] \in T, NEW e \in U
  PROVE  SumFunctionOnSet(Parts(f, U, T, owner), T)
           = SumFunctionOnSet(Parts(f, U \ {e}, T, owner), T) + f[e]
<1> DEFINE g == Parts(f, U \ {e}, T, owner)
           h == Parts(f, U, T, owner)
           o == owner[e]
           V == {x \in U : owner[x] = o}
<1>1. IsFiniteSet(U \ {e}) /\ IsFiniteSet(V)
  BY FS_RemoveElement, FS_Subset
<1>2. /\ \A t \in T : g[t] \in Int
      /\ \A t \in T : h[t] \in Int
  BY <1>1, PartsInt
<1>3. \A t \in T \ {o} : h[t] = g[t]
  <2> SUFFICES ASSUME NEW t \in T \ {o} PROVE h[t] = g[t]
    OBVIOUS
  <2>1. {x \in U : owner[x] = t} = {x \in U \ {e} : owner[x] = t}
    OBVIOUS
  <2> QED
    BY <2>1 DEF Parts
<1>4. h[o] = g[o] + f[e]
  <2>1. e \in V /\ {x \in U \ {e} : owner[x] = o} = V \ {e} /\ \A x \in V : f[x] \in Int
    OBVIOUS
  <2>2. h[o] = SumFunctionOnSet(f, V) /\ g[o] = SumFunctionOnSet(f, V \ {e})
    BY <2>1 DEF Parts
  <2> HIDE DEF V, g, h, o
  <2>3. SumFunctionOnSet(f, V) = f[e] + SumFunctionOnSet(f, V \ {e})
    BY <1>1, <2>1, SumRemove
  <2>4. g[o] \in Int /\ f[e] \in Int
    BY <1>2 DEF o
  <2> QED
    BY <2>2, <2>3, <2>4
<1>5. o \in T /\ f[e] \in Int
  OBVIOUS
<1> HIDE DEF g, h, o, V
<1>6. SumFunctionOnSet(h, T) = SumFunctionOnSet(g, T) + (h[o] - g[o])
  BY <1>2, <1>3, <1>5, SumUpdate
<1>7. h[o] - g[o] = f[e]
  BY <1>2, <1>4, <1>5
<1> QED
  BY <1>6, <1>7 DEF g, h

\* A sum can be taken owner by owner.
LEMMA SumPartition ==
  ASSUME NEW S, IsFiniteSet(S), NEW T, IsFiniteSet(T), NEW f, NEW owner,
         \A x \in S : f[x] \in Int /\ owner[x] \in T
  PROVE  SumFunctionOnSet(Parts(f, S, T, owner), T) = SumFunctionOnSet(f, S)
<1> DEFINE C == {U \in SUBSET S : SumFunctionOnSet(Parts(f, U, T, owner), T) # SumFunctionOnSet(f, U)}
<1>1. SUFFICES ASSUME C # {}
               PROVE  FALSE
  OBVIOUS
<1>0. C \in SUBSET (SUBSET S)
  OBVIOUS
<1> HIDE DEF C
<1>2. PICK m \in C : \A k \in C : k \subseteq m => k = m
  BY <1>1, <1>0, SmallestSet
<1>3. m \in SUBSET S /\ SumFunctionOnSet(Parts(f, m, T, owner), T) # SumFunctionOnSet(f, m)
  BY <1>2 DEF C
<1>4. m # {} /\ IsFiniteSet(m)
  <2>1. SumFunctionOnSet(f, {}) = 0
    BY SumEmpty
  <2>2. SumFunctionOnSet(Parts(f, {}, T, owner), T) = 0
    <3> DEFINE g == Parts(f, {}, T, owner)
    <3>1. \A t \in T : {x \in {} : owner[x] = t} = {}
      OBVIOUS
    <3>2. \A t \in T : g[t] = 0 /\ g[t] = 0 * g[t]
      BY <2>1, <3>1 DEF Parts
    <3> HIDE DEF g
    <3>3. \A t \in T : g[t] \in Int
      BY <3>2
    <3>5. \A t \in T : g[t] = 0 * g[t]
      BY <3>2
    <3>4. SumFunctionOnSet(g, T) = 0 * SumFunctionOnSet(g, T)
      BY <3>3, <3>5, SumScale
    <3>6. SumFunctionOnSet(g, T) \in Int
      BY <3>3, SumInt
    <3>7. SumFunctionOnSet(g, T) = 0
      BY <3>4, <3>6
    <3> QED
      BY <3>7 DEF g
  <2> QED
    BY <1>3, <2>1, <2>2, FS_Subset
<1> DEFINE e == Pick(m)
<1>5. e \in m /\ m \ {e} \notin C
  BY <1>2, <1>4, PickIn
<1>6. SumFunctionOnSet(f, m) = f[e] + SumFunctionOnSet(f, m \ {e})
  BY <1>4, SumStep
<1> HIDE DEF e
<1>7. SumFunctionOnSet(Parts(f, m \ {e}, T, owner), T) = SumFunctionOnSet(f, m \ {e})
  BY <1>3, <1>5 DEF C
<1>8. SumFunctionOnSet(Parts(f, m, T, owner), T)
        = SumFunctionOnSet(Parts(f, m \ {e}, T, owner), T) + f[e]
  BY <1>3, <1>4, <1>5, PartsStep
<1>9. IsFiniteSet(m \ {e}) /\ \A x \in m \ {e} : f[x] \in Int
  BY <1>3, <1>4, FS_RemoveElement
<1>10. SumFunctionOnSet(f, m \ {e}) \in Int /\ f[e] \in Int
  BY <1>3, <1>5, <1>9, SumInt
<1> QED
  BY <1>3, <1>6, <1>7, <1>8, <1>10

\* The sum of a sum of functions.
LEMMA SumPlus ==
  ASSUME NEW S, IsFiniteSet(S), NEW f, NEW g, NEW h,
         \A x \in S : f[x] \in Int /\ g[x] \in Int, \A x \in S : h[x] = f[x] + g[x]
  PROVE  SumFunctionOnSet(h, S) = SumFunctionOnSet(f, S) + SumFunctionOnSet(g, S)
<1> DEFINE C == {U \in SUBSET S : SumFunctionOnSet(h, U)
                                    # SumFunctionOnSet(f, U) + SumFunctionOnSet(g, U)}
<1>1. SUFFICES ASSUME C # {}
               PROVE  FALSE
  OBVIOUS
<1>0. C \in SUBSET (SUBSET S)
  OBVIOUS
<1> HIDE DEF C
<1>2. PICK m \in C : \A k \in C : k \subseteq m => k = m
  BY <1>1, <1>0, SmallestSet
<1>3. m \in SUBSET S /\ SumFunctionOnSet(h, m) # SumFunctionOnSet(f, m) + SumFunctionOnSet(g, m)
  BY <1>2 DEF C
<1>4. m # {} /\ IsFiniteSet(m)
  <2>1. SumFunctionOnSet(f, {}) = 0 /\ SumFunctionOnSet(g, {}) = 0 /\ SumFunctionOnSet(h, {}) = 0
    BY SumEmpty
  <2>2. m # {}
    BY <1>3, <2>1
  <2> QED
    BY <1>3, <2>2, FS_Subset
<1> DEFINE e == Pick(m)
<1>5. e \in m /\ m \ {e} \notin C
  BY <1>2, <1>4, PickIn
<1>6. /\ SumFunctionOnSet(f, m) = f[e] + SumFunctionOnSet(f, m \ {e})
      /\ SumFunctionOnSet(g, m) = g[e] + SumFunctionOnSet(g, m \ {e})
      /\ SumFunctionOnSet(h, m) = h[e] + SumFunctionOnSet(h, m \ {e})
  BY <1>4, SumStep
<1> HIDE DEF e
<1>7. SumFunctionOnSet(h, m \ {e}) = SumFunctionOnSet(f, m \ {e}) + SumFunctionOnSet(g, m \ {e})
  BY <1>3, <1>5 DEF C
<1>8. IsFiniteSet(m \ {e}) /\ \A x \in m \ {e} : f[x] \in Int /\ g[x] \in Int
  BY <1>3, <1>4, FS_RemoveElement
<1>9. SumFunctionOnSet(f, m \ {e}) \in Int /\ SumFunctionOnSet(g, m \ {e}) \in Int
  BY <1>8, SumInt
<1>10. f[e] \in Int /\ g[e] \in Int /\ h[e] = f[e] + g[e]
  BY <1>3, <1>5
<1> QED
  BY <1>3, <1>6, <1>7, <1>9, <1>10

\* The sum of a function that is zero outside of a part is the sum of the part.
LEMMA SumWithin ==
  ASSUME NEW S, IsFiniteSet(S), NEW T \in SUBSET S, NEW f, \A x \in S : f[x] \in Int,
         NEW h, \A x \in S : h[x] = IF x \in T THEN f[x] ELSE 0
  PROVE  SumFunctionOnSet(h, S) = SumFunctionOnSet(f, T)
<1> DEFINE C == {U \in SUBSET S : SumFunctionOnSet(h, U) # SumFunctionOnSet(f, U \cap T)}
<1>1. SUFFICES ASSUME C # {}
               PROVE  FALSE
  <2>1. S \cap T = T
    OBVIOUS
  <2> QED
    BY <2>1
<1>0. C \in SUBSET (SUBSET S)
  OBVIOUS
<1> HIDE DEF C
<1>2. PICK m \in C : \A k \in C : k \subseteq m => k = m
  BY <1>1, <1>0, SmallestSet
<1>3. m \in SUBSET S /\ SumFunctionOnSet(h, m) # SumFunctionOnSet(f, m \cap T)
  BY <1>2 DEF C
<1>4. m # {}
  <2>1. {} \cap T = {} /\ SumFunctionOnSet(h, {}) = 0 /\ SumFunctionOnSet(f, {}) = 0
    BY SumEmpty
  <2> QED
    BY <1>3, <2>1
<1>5. PICK e \in m : TRUE
  BY <1>4
<1>6. m \ {e} \in SUBSET S /\ m \ {e} \notin C
  BY <1>2, <1>3, <1>5
<1>7. SumFunctionOnSet(h, m \ {e}) = SumFunctionOnSet(f, (m \ {e}) \cap T)
  BY <1>6 DEF C
<1>8. IsFiniteSet(m) /\ IsFiniteSet(m \cap T) /\ IsFiniteSet((m \ {e}) \cap T)
  <2>1. m \cap T \in SUBSET S /\ (m \ {e}) \cap T \in SUBSET S
    BY <1>3
  <2> QED
    BY <1>3, <2>1, FS_Subset
<1>9. \A x \in m : h[x] \in Int /\ f[x] \in Int
  BY <1>3
<1>10. SumFunctionOnSet(h, m) = h[e] + SumFunctionOnSet(h, m \ {e})
  BY <1>5, <1>8, <1>9, SumRemove
<1>11. SumFunctionOnSet(f, (m \ {e}) \cap T) \in Int
  BY <1>8, <1>9, SumInt
<1>12. CASE e \in T
  <2>1. (m \cap T) \ {e} = (m \ {e}) \cap T /\ e \in m \cap T /\ \A x \in m \cap T : f[x] \in Int
    BY <1>5, <1>9, <1>12
  <2>2. SumFunctionOnSet(f, m \cap T) = f[e] + SumFunctionOnSet(f, (m \cap T) \ {e})
    BY <1>8, <2>1, SumRemove
  <2>3. h[e] = f[e]
    BY <1>3, <1>5, <1>12
  <2> QED
    BY <1>3, <1>7, <1>10, <2>1, <2>2, <2>3
<1>13. CASE e \notin T
  <2>1. m \cap T = (m \ {e}) \cap T /\ h[e] = 0
    BY <1>3, <1>5, <1>13
  <2>2. SumFunctionOnSet(f, m \cap T) = SumFunctionOnSet(f, (m \ {e}) \cap T)
    BY <2>1, Zenon
  <2>3. SumFunctionOnSet(h, m) = SumFunctionOnSet(h, m \ {e})
    <3>1. SumFunctionOnSet(h, m \ {e}) \in Int
      BY <1>7, <1>11
    <3> QED
      BY <1>10, <2>1, <3>1
  <2>4. SumFunctionOnSet(h, m) = SumFunctionOnSet(f, m \cap T)
    BY <1>7, <2>2, <2>3, Zenon
  <2> QED
    BY <1>3, <2>4
<1> QED
  BY <1>12, <1>13

\* A part of a sum of naturals is no more than the whole.
LEMMA SumPart ==
  ASSUME NEW S, IsFiniteSet(S), NEW T \in SUBSET S, NEW f, \A x \in S : f[x] \in Nat
  PROVE  SumFunctionOnSet(f, T) <= SumFunctionOnSet(f, S)
<1> DEFINE g == [x \in S |-> IF x \in T THEN f[x] ELSE 0]
           h == [x \in S |-> IF x \in S \ T THEN f[x] ELSE 0]
<1>1. IsFiniteSet(T) /\ IsFiniteSet(S \ T)
  BY FS_Subset
<1>2. \A x \in S : /\ g[x] = IF x \in T THEN f[x] ELSE 0
                   /\ h[x] = IF x \in S \ T THEN f[x] ELSE 0
                   /\ f[x] \in Int /\ g[x] \in Int /\ h[x] \in Int /\ f[x] = g[x] + h[x]
  OBVIOUS
<1> HIDE DEF g, h
<1>3. SumFunctionOnSet(g, S) = SumFunctionOnSet(f, T)
  BY <1>2, SumWithin
<1>4. SumFunctionOnSet(h, S) = SumFunctionOnSet(f, S \ T)
  BY <1>2, SumWithin
<1>5. SumFunctionOnSet(f, S) = SumFunctionOnSet(g, S) + SumFunctionOnSet(h, S)
  BY <1>2, SumPlus
<1>6. SumFunctionOnSet(f, T) \in Nat /\ SumFunctionOnSet(f, S \ T) \in Nat
  BY <1>1, SumNat
<1> QED
  BY <1>3, <1>4, <1>5, <1>6

-----------------------------------------------------------------------------
(* Sequences.                                                              *)

\* An element of a sequence over S, such as a slice of levels, is in S.
LEMMA ElementIn ==
  ASSUME NEW S, NEW s \in Seq(S), NEW n \in DOMAIN s
  PROVE  s[n] \in S
  BY LenProperties, ElementOfSeq

\* RemoveAt takes one element out and closes the gap.
LEMMA RemoveAtFacts ==
  ASSUME NEW S, NEW s \in Seq(S), NEW i \in 1 .. Len(s)
  PROVE  /\ RemoveAt(s, i) \in Seq(S)
         /\ Len(RemoveAt(s, i)) = Len(s) - 1
         /\ \A k \in 1 .. Len(s) - 1 :
              RemoveAt(s, i)[k] = IF k < i THEN s[k] ELSE s[k + 1]
<1> DEFINE a == SubSeq(s, 1, i - 1)
           b == SubSeq(s, i + 1, Len(s))
<1>1. /\ a \in Seq(S) /\ Len(a) = i - 1
      /\ \A k \in 1 .. i - 1 : a[k] = s[k]
  <2>1. \A k \in 1 .. i - 1 : s[k] \in S
    BY ElementOfSeq
  <2> QED
    BY <2>1, SubSeqProperties, Z3
<1>2. /\ b \in Seq(S) /\ Len(b) = Len(s) - i
      /\ \A k \in 1 .. Len(s) - i : b[k] = s[k + i]
  <2>1. \A k \in i + 1 .. Len(s) : s[k] \in S
    BY ElementOfSeq
  <2> QED
    BY <2>1, SubSeqProperties, Z3
<1> HIDE DEF a, b
<1>3. /\ a \o b \in Seq(S)
      /\ Len(a \o b) = Len(s) - 1
      /\ \A k \in 1 .. Len(s) - 1 :
           (a \o b)[k] = IF k <= i - 1 THEN a[k] ELSE b[k - (i - 1)]
  <2>1. /\ a \o b \in Seq(S) /\ Len(a \o b) = Len(a) + Len(b)
        /\ \A k \in 1 .. Len(a) + Len(b) :
             (a \o b)[k] = IF k <= Len(a) THEN a[k] ELSE b[k - Len(a)]
    BY <1>1, <1>2, ConcatProperties
  <2> QED
    BY <1>1, <1>2, <2>1
<1>4. \A k \in 1 .. Len(s) - 1 : (a \o b)[k] = IF k < i THEN s[k] ELSE s[k + 1]
  BY <1>1, <1>2, <1>3
<1> QED
  BY <1>3, <1>4 DEF RemoveAt, a, b

\* t is s with e put in at i.
PutIn(t, s, i, e) ==
  /\ Len(t) = Len(s) + 1
  /\ \A k \in 1 .. Len(s) + 1 : /\ k < i => t[k] = s[k]
                                /\ k = i => t[k] = e
                                /\ k > i => t[k] = s[k - 1]

\* InsertAt opens a gap and puts the new element into it.
LEMMA InsertAtFacts ==
  ASSUME NEW S, NEW s \in Seq(S), NEW i \in 1 .. Len(s) + 1, NEW e \in S
  PROVE  InsertAt(s, i, e) \in Seq(S) /\ PutIn(InsertAt(s, i, e), s, i, e)
<1> DEFINE a == SubSeq(s, 1, i - 1)
           b == SubSeq(s, i, Len(s))
<1>1. /\ a \in Seq(S) /\ Len(a) = i - 1
      /\ \A k \in 1 .. i - 1 : a[k] = s[k]
  <2>1. \A k \in 1 .. i - 1 : s[k] \in S
    BY ElementOfSeq
  <2> QED
    BY <2>1, SubSeqProperties, Z3
<1>2. /\ b \in Seq(S) /\ Len(b) = Len(s) - i + 1
      /\ \A k \in 1 .. Len(s) - i + 1 : b[k] = s[k + i - 1]
  <2>1. \A k \in i .. Len(s) : s[k] \in S
    BY ElementOfSeq
  <2> QED
    BY <2>1, SubSeqProperties, Z3
<1> HIDE DEF a, b
<1>3. /\ a \o <<e>> \in Seq(S) /\ Len(a \o <<e>>) = i
      /\ \A k \in 1 .. i : (a \o <<e>>)[k] = IF k < i THEN s[k] ELSE e
  <2>1. <<e>> \in Seq(S) /\ Len(<<e>>) = 1 /\ <<e>>[1] = e
    OBVIOUS
  <2>2. /\ a \o <<e>> \in Seq(S) /\ Len(a \o <<e>>) = i
        /\ \A k \in 1 .. i :
             (a \o <<e>>)[k] = IF k <= i - 1 THEN a[k] ELSE <<e>>[k - (i - 1)]
    BY <1>1, <2>1, ConcatProperties
  <2> QED
    BY <1>1, <2>1, <2>2
<1> DEFINE c == a \o <<e>>
<1> HIDE DEF c
<1>4. /\ c \o b \in Seq(S)
      /\ Len(c \o b) = Len(s) + 1
      /\ \A k \in 1 .. Len(s) + 1 :
           (c \o b)[k] = IF k <= i THEN c[k] ELSE b[k - i]
  <2>1. c \in Seq(S) /\ Len(c) = i
    BY <1>3 DEF c
  <2>2. /\ c \o b \in Seq(S) /\ Len(c \o b) = Len(c) + Len(b)
        /\ \A k \in 1 .. Len(c) + Len(b) :
             (c \o b)[k] = IF k <= Len(c) THEN c[k] ELSE b[k - Len(c)]
    BY <1>2, <2>1, ConcatProperties
  <2> QED
    BY <1>2, <2>1, <2>2
<1>5. \A k \in 1 .. Len(s) + 1 :
        /\ k < i => (c \o b)[k] = s[k]
        /\ k = i => (c \o b)[k] = e
        /\ k > i => (c \o b)[k] = s[k - 1]
  BY <1>2, <1>3, <1>4 DEF c
<1> QED
  BY <1>4, <1>5 DEF InsertAt, PutIn, a, b, c

\* What follows the first k elements.
LEMMA SubSeqTail ==
  ASSUME NEW S, NEW s \in Seq(S), NEW k \in 0 .. Len(s)
  PROVE  /\ SubSeq(s, k + 1, Len(s)) \in Seq(S)
         /\ Len(SubSeq(s, k + 1, Len(s))) = Len(s) - k
         /\ \A n \in 1 .. Len(s) - k : SubSeq(s, k + 1, Len(s))[n] = s[n + k]
<1>1. \A n \in k + 1 .. Len(s) : s[n] \in S
  BY ElementOfSeq
<1> QED
  BY <1>1, SubSeqProperties, Z3

-----------------------------------------------------------------------------
(* Sums over the indices of a sequence.                                    *)

LEMMA IndexSets ==
  ASSUME NEW k \in Nat
  PROVE  /\ IsFiniteSet(1 .. k) /\ 1 .. 0 = {}
         /\ k # 0 => (1 .. k) \ {k} = 1 .. (k - 1) /\ k \in 1 .. k /\ k - 1 \in Nat
<1>1. IsFiniteSet(1 .. k)
  BY FS_Interval
<1> QED
  BY <1>1

\* The last element apart from the rest.
LEMMA SumLast ==
  ASSUME NEW k \in Nat, k # 0, NEW f, \A i \in 1 .. k : f[i] \in Int
  PROVE  SumFunctionOnSet(f, 1 .. k) = f[k] + SumFunctionOnSet(f, 1 .. (k - 1))
<1>1. /\ IsFiniteSet(1 .. k) /\ k \in 1 .. k /\ (1 .. k) \ {k} = 1 .. (k - 1)
  BY IndexSets
<1>2. SumFunctionOnSet(f, 1 .. k) = f[k] + SumFunctionOnSet(f, (1 .. k) \ {k})
  BY <1>1, SumRemove
<1> QED
  BY <1>1, <1>2

\* The first element apart from the rest, which moves up.
LEMMA SumFirst ==
  ASSUME NEW k \in Nat, k # 0, NEW f, \A i \in 1 .. k : f[i] \in Int,
         NEW g, \A i \in 1 .. (k - 1) : g[i] = f[i + 1]
  PROVE  SumFunctionOnSet(f, 1 .. k) = f[1] + SumFunctionOnSet(g, 1 .. (k - 1))
<1> DEFINE C == {j \in Nat : /\ j # 0 /\ j <= k
                             /\ SumFunctionOnSet(f, 1 .. j)
                                  # f[1] + SumFunctionOnSet(g, 1 .. (j - 1))}
<1>1. SUFFICES ASSUME C # {}
               PROVE  FALSE
  OBVIOUS
<1>2. C \in SUBSET Nat
  OBVIOUS
<1> HIDE DEF C
<1>3. PICK m \in C : \A j \in C : m <= j
  BY <1>1, <1>2, SmallestNat
<1>4. /\ m \in Nat /\ m # 0 /\ m <= k
      /\ SumFunctionOnSet(f, 1 .. m) # f[1] + SumFunctionOnSet(g, 1 .. (m - 1))
  BY <1>3 DEF C
<1>5. \A i \in 1 .. m : f[i] \in Int
  BY <1>4
<1>6. SumFunctionOnSet(f, 1 .. m) = f[m] + SumFunctionOnSet(f, 1 .. (m - 1))
  BY <1>4, <1>5, SumLast
<1>7. CASE m = 1
  <2>1. 1 .. (m - 1) = {}
    BY <1>7
  <2>2. SumFunctionOnSet(f, {}) = 0 /\ SumFunctionOnSet(g, {}) = 0
    BY SumEmpty
  <2> QED
    BY <1>4, <1>6, <1>7, <2>1, <2>2
<1>8. CASE m # 1
  <2> DEFINE j == m - 1
  <2>1. j \in Nat /\ j # 0 /\ j <= k /\ j \notin C
    BY <1>3, <1>4, <1>8
  <2>2. SumFunctionOnSet(f, 1 .. j) = f[1] + SumFunctionOnSet(g, 1 .. (j - 1))
    BY <2>1 DEF C
  <2>3. \A i \in 1 .. j : g[i] = f[i + 1] /\ g[i] \in Int
    BY <1>4, <1>5
  <2>4. g[j] = f[m]
    BY <1>4, <2>1, <2>3
  <2>5. SumFunctionOnSet(g, 1 .. j) = g[j] + SumFunctionOnSet(g, 1 .. (j - 1))
    BY <2>1, <2>3, SumLast
  <2>6. SumFunctionOnSet(g, 1 .. (j - 1)) \in Int
    <3>1. IsFiniteSet(1 .. (j - 1)) /\ \A i \in 1 .. (j - 1) : g[i] \in Int
      BY <2>1, <2>3, IndexSets
    <3> QED
      BY <3>1, SumInt
  <2>7. f[1] \in Int /\ f[m] \in Int
    BY <1>4, <1>5
  <2> HIDE DEF j
  <2>8. SumFunctionOnSet(f, 1 .. m) = f[m] + SumFunctionOnSet(f, 1 .. j)
    BY <1>6 DEF j
  <2>9. SumFunctionOnSet(f, 1 .. m) = f[1] + SumFunctionOnSet(g, 1 .. j)
    BY <2>2, <2>4, <2>5, <2>6, <2>7, <2>8
  <2> QED
    BY <1>4, <2>9 DEF j
<1> QED
  BY <1>7, <1>8

\* h is f up to k and then g up to n.
Joined(f, k, g, n, h) ==
  /\ \A i \in 1 .. k : f[i] \in Int /\ h[i] = f[i]
  /\ \A i \in 1 .. n : g[i] \in Int /\ h[k + i] = g[i]

LEMMA SumConcat ==
  ASSUME NEW k \in Nat, NEW n \in Nat, NEW f, NEW g, NEW h, Joined(f, k, g, n, h)
  PROVE  SumFunctionOnSet(h, 1 .. (k + n))
           = SumFunctionOnSet(f, 1 .. k) + SumFunctionOnSet(g, 1 .. n)
<1> DEFINE C == {j \in Nat : /\ j <= n
                             /\ SumFunctionOnSet(h, 1 .. (k + j))
                                  # SumFunctionOnSet(f, 1 .. k) + SumFunctionOnSet(g, 1 .. j)}
<1>0. /\ \A i \in 1 .. k : f[i] \in Int /\ h[i] = f[i]
      /\ \A i \in 1 .. n : g[i] \in Int /\ h[k + i] = g[i]
  BY DEF Joined
<1>1. SUFFICES ASSUME C # {}
               PROVE  FALSE
  OBVIOUS
<1>2. C \in SUBSET Nat
  OBVIOUS
<1> HIDE DEF C
<1>3. PICK m \in C : \A j \in C : m <= j
  BY <1>1, <1>2, SmallestNat
<1>4. /\ m \in Nat /\ m <= n
      /\ SumFunctionOnSet(h, 1 .. (k + m))
           # SumFunctionOnSet(f, 1 .. k) + SumFunctionOnSet(g, 1 .. m)
  BY <1>3 DEF C
<1>5. SumFunctionOnSet(f, 1 .. k) \in Int
  BY <1>0, IndexSets, SumInt
<1>6. CASE m = 0
  <2>1. SumFunctionOnSet(g, 1 .. 0) = 0
    BY SumEmpty, IndexSets
  <2>2. SumFunctionOnSet(h, 1 .. k) = SumFunctionOnSet(f, 1 .. k)
    BY <1>0, IndexSets, SumSame
  <2> QED
    BY <1>4, <1>5, <1>6, <2>1, <2>2
<1>7. CASE m # 0
  <2> DEFINE j == m - 1
  <2>1. j \in Nat /\ j <= n /\ j \notin C /\ m = j + 1
    BY <1>3, <1>4, <1>7
  <2>2. SumFunctionOnSet(h, 1 .. (k + j))
          = SumFunctionOnSet(f, 1 .. k) + SumFunctionOnSet(g, 1 .. j)
    BY <2>1 DEF C
  <2>3. \A i \in 1 .. (k + m) : h[i] \in Int
    <3> SUFFICES ASSUME NEW i \in 1 .. (k + m) PROVE h[i] \in Int
      OBVIOUS
    <3>1. CASE i <= k
      BY <1>0, <3>1
    <3>2. CASE i > k
      <4>1. i - k \in 1 .. n /\ i = k + (i - k)
        BY <1>4, <3>2
      <4> QED
        BY <1>0, <4>1
    <3> QED
      BY <3>1, <3>2
  <2>4. SumFunctionOnSet(h, 1 .. (k + m))
          = h[k + m] + SumFunctionOnSet(h, 1 .. ((k + m) - 1))
    <3>1. k + m \in Nat /\ k + m # 0
      BY <1>4, <1>7
    <3> QED
      BY <2>3, <3>1, SumLast
  <2>5. \A i \in 1 .. m : g[i] \in Int
    BY <1>0, <1>4
  <2>6. SumFunctionOnSet(g, 1 .. m) = g[m] + SumFunctionOnSet(g, 1 .. (m - 1))
    BY <1>4, <1>7, <2>5, SumLast
  <2>7. h[k + m] = g[m] /\ g[m] \in Int /\ (k + m) - 1 = k + j /\ m - 1 = j
    BY <1>0, <1>4, <1>7
  <2>8. SumFunctionOnSet(g, 1 .. j) \in Int
    <3>1. IsFiniteSet(1 .. j) /\ \A i \in 1 .. j : g[i] \in Int
      BY <2>1, <2>5, IndexSets
    <3> QED
      BY <3>1, SumInt
  <2> HIDE DEF j
  <2>9. SumFunctionOnSet(h, 1 .. (k + m))
          = SumFunctionOnSet(f, 1 .. k) + SumFunctionOnSet(g, 1 .. m)
    BY <1>5, <2>2, <2>4, <2>6, <2>7, <2>8
  <2> QED
    BY <1>4, <2>9
<1> QED
  BY <1>6, <1>7

\* Elements that cancel out two by two.
LEMMA SumPairs ==
  ASSUME NEW k \in Nat, NEW f, \A i \in 1 .. 2 * k : f[i] \in Int,
         \A j \in 1 .. k : f[2 * j - 1] + f[2 * j] = 0
  PROVE  SumFunctionOnSet(f, 1 .. 2 * k) = 0
<1> DEFINE C == {j \in Nat : j <= k /\ SumFunctionOnSet(f, 1 .. 2 * j) # 0}
<1>0. SUFFICES ASSUME SumFunctionOnSet(f, 1 .. 2 * k) # 0
               PROVE  FALSE
  OBVIOUS
<1>1. C # {}
  <2>1. k \in C
    BY <1>0
  <2> QED
    BY <2>1
<1>2. C \in SUBSET Nat
  OBVIOUS
<1> HIDE DEF C
<1>3. PICK m \in C : \A j \in C : m <= j
  BY <1>1, <1>2, SmallestNat
<1>4. m \in Nat /\ m <= k /\ SumFunctionOnSet(f, 1 .. 2 * m) # 0
  BY <1>3 DEF C
<1>5. m # 0
  <2>1. SumFunctionOnSet(f, 1 .. 0) = 0
    BY SumEmpty, IndexSets
  <2> QED
    BY <1>4, <2>1
<1> DEFINE a == 2 * m
           b == 2 * m - 1
<1>6. /\ m - 1 \in Nat /\ m - 1 <= k /\ m - 1 \notin C
      /\ a \in Nat /\ a # 0 /\ b \in Nat /\ b # 0 /\ a - 1 = b /\ b - 1 = 2 * (m - 1)
  BY <1>3, <1>4, <1>5
<1>7. \A i \in 1 .. a : f[i] \in Int
  BY <1>4
<1>8. f[a] \in Int /\ f[b] \in Int /\ f[b] + f[a] = 0
  BY <1>4, <1>5
<1>9. SumFunctionOnSet(f, 1 .. 2 * (m - 1)) = 0
  BY <1>6 DEF C
<1>10. \A i \in 1 .. b : f[i] \in Int
  BY <1>6, <1>7
<1> HIDE DEF a, b
<1>11. SumFunctionOnSet(f, 1 .. a) = f[a] + SumFunctionOnSet(f, 1 .. (a - 1))
  BY <1>6, <1>7, SumLast
<1>12. SumFunctionOnSet(f, 1 .. b) = f[b] + SumFunctionOnSet(f, 1 .. (b - 1))
  BY <1>6, <1>10, SumLast
<1>13. SumFunctionOnSet(f, 1 .. a) = f[a] + (f[b] + 0)
  BY <1>6, <1>9, <1>11, <1>12
<1> QED
  BY <1>4, <1>8, <1>13 DEF a

\* A set of indices that has all those before each of its own is an interval.
LEMMA Prefix ==
  ASSUME NEW n \in Nat, NEW T \in SUBSET (1 .. n),
         \A i \in T : \A j \in 1 .. i : j \in T
  PROVE  /\ Cardinality(T) \in Nat /\ Cardinality(T) <= n
         /\ T = 1 .. Cardinality(T)
<1> DEFINE Out == {i \in Nat : i # 0 /\ i \notin T}
<1>1. Out \in SUBSET Nat /\ n + 1 \in Out
  OBVIOUS
<1>2. PICK m \in Out : \A i \in Out : m <= i
  <2> HIDE DEF Out
  <2> QED
    BY <1>1, SmallestNat
<1>3. m \in Nat /\ m # 0 /\ m \notin T /\ m <= n + 1
  BY <1>1, <1>2
<1>4. \A i \in 1 .. (m - 1) : i \in T
  BY <1>2, <1>3
<1>5. \A i \in T : i \in 1 .. (m - 1)
  <2> SUFFICES ASSUME NEW i \in T, ~(i <= m - 1) PROVE FALSE
    BY <1>3
  <2>1. m \in 1 .. i
    BY <1>3
  <2> QED
    BY <1>3, <2>1
<1>6. T = 1 .. (m - 1)
  BY <1>4, <1>5
<1>7. m - 1 \in Nat /\ m - 1 <= n
  BY <1>3
<1>8. Cardinality(1 .. (m - 1)) = m - 1
  BY <1>7, FS_Interval
<1> QED
  BY <1>6, <1>7, <1>8

-----------------------------------------------------------------------------
(* Sets of at most one element.                                            *)

\* A sum over one element.
LEMMA SumOne ==
  ASSUME NEW f, NEW x, f[x] \in Int
  PROVE  SumFunctionOnSet(f, {x}) = f[x]
<1>1. IsFiniteSet({x}) /\ {x} \ {x} = {}
  BY FS_Singleton
<1>2. SumFunctionOnSet(f, {x}) = f[x] + SumFunctionOnSet(f, {x} \ {x})
  BY <1>1, SumRemove
<1>3. SumFunctionOnSet(f, {}) = 0
  BY SumEmpty
<1> QED
  BY <1>1, <1>2, <1>3

\* SetToSeq of nothing and of one element.
LEMMA SeqOfNone == SetToSeq({}) = << >>
<1>1. Cardinality({}) = 0
  BY FS_EmptySet
<1>2. /\ 1 .. 0 = {}
      /\ \A f : f \in [{} -> {}] <=> f = << >>
      /\ IsInjective(<< >>)
  <2>1. 1 .. 0 = {}
    OBVIOUS
  <2>2. << >> \in [{} -> {}] /\ DOMAIN << >> = {}
    OBVIOUS
  <2>3. ASSUME NEW f \in [{} -> {}]
        PROVE  f = << >>
    BY <2>2
  <2>4. IsInjective(<< >>)
    BY <2>2 DEF IsInjective
  <2> QED
    BY <2>1, <2>2, <2>3, <2>4
<1>3. \A f : f \in [1 .. Cardinality({}) -> {}] /\ IsInjective(f) <=> f = << >>
  BY <1>1, <1>2
<1> QED
  BY <1>3, Zenon DEF SetToSeq

LEMMA SeqOfOne ==
  ASSUME NEW x
  PROVE  SetToSeq({x}) = <<x>>
<1>1. Cardinality({x}) = 1
  BY FS_Singleton
<1>2. /\ 1 .. 1 = {1}
      /\ \A f : f \in [{1} -> {x}] <=> f = <<x>>
      /\ IsInjective(<<x>>)
  <2>1. 1 .. 1 = {1}
    OBVIOUS
  <2>2. IsInjective(<<x>>)
    BY DEF IsInjective
  <2>3. <<x>> \in [{1} -> {x}]
    OBVIOUS
  <2>4. ASSUME NEW f \in [{1} -> {x}]
        PROVE  f = <<x>>
    OBVIOUS
  <2> QED
    BY <2>1, <2>2, <2>3, <2>4
<1>3. \A f : f \in [1 .. Cardinality({x}) -> {x}] /\ IsInjective(f) <=> f = <<x>>
  BY <1>1, <1>2
<1> QED
  BY <1>3, Zenon DEF SetToSeq

\* Sequences of one element and of none, joined.
LEMMA JoinedSeqs ==
  ASSUME NEW S, NEW d \in S, NEW e \in S
  PROVE  /\ << >> \o << >> \o << >> = << >>
         /\ << >> \o << >> \o <<e>> = <<e>>
         /\ << >> \o <<e>> \o << >> = <<e>>
         /\ <<e>> \o << >> \o << >> = <<e>>
         /\ <<d>> \o << >> \o <<e>> = <<d, e>>
<1>1. <<d>> \in Seq(S) /\ <<e>> \in Seq(S) /\ << >> \in Seq(S)
  OBVIOUS
<1>2. /\ << >> \o << >> = << >> /\ << >> \o <<e>> = <<e>> /\ <<e>> \o << >> = <<e>>
      /\ <<d>> \o << >> = <<d>>
  BY <1>1, ConcatEmptySeq
<1>3. <<d>> \o <<e>> = <<d, e>>
  <2> DEFINE s == <<d>>
             t == <<e>>
             r == <<d, e>>
  <2>1. Len(s) = 1 /\ s[1] = d /\ Len(t) = 1 /\ t[1] = e
    OBVIOUS
  <2>2. r \in Seq(S) /\ Len(r) = 2 /\ r[1] = d /\ r[2] = e
    OBVIOUS
  <2> HIDE DEF s, t, r
  <2>3. /\ s \o t \in Seq(S) /\ Len(s \o t) = 2
        /\ \A i \in 1 .. 2 : (s \o t)[i] = IF i <= 1 THEN s[i] ELSE t[i - 1]
    BY <1>1, <2>1, ConcatProperties DEF s, t
  <2>4. \A i \in 1 .. 2 : (s \o t)[i] = r[i]
    BY <2>1, <2>2, <2>3
  <2>5. s \o t = r
    BY <2>2, <2>3, <2>4, SeqEqual
  <2> QED
    BY <2>5 DEF s, t, r
<1> QED
  BY <1>2, <1>3

\* SetToSeq has each element of a finite set once.
LEMMA SeqOfSet ==
  ASSUME NEW S, IsFiniteSet(S)
  PROVE  /\ SetToSeq(S) \in Seq(S)
         /\ \A i, j \in DOMAIN SetToSeq(S) : SetToSeq(S)[i] = SetToSeq(S)[j] => i = j
<1> DEFINE f == SetToSeq(S)
           n == Cardinality(S)
<1>1. n \in Nat /\ ExistsBijection(1 .. n, S)
  BY FS_CardinalityType
<1>2. \E g \in [1 .. n -> S] : IsInjective(g)
  BY <1>1, Zenon DEF ExistsBijection, Bijection, Injection
<1>3. f \in [1 .. n -> S] /\ IsInjective(f)
  BY <1>2, Zenon DEF SetToSeq
<1> HIDE DEF f, n
<1>4. f \in Seq(S)
  BY <1>1, <1>3
<1>5. \A i, j \in DOMAIN f : f[i] = f[j] => i = j
  BY <1>3, Zenon DEF IsInjective
<1> QED
  BY <1>4, <1>5 DEF f

\* SetToSeq leaves nothing out.
LEMMA SeqOfSetAll ==
  ASSUME NEW S, IsFiniteSet(S)
  PROVE  {SetToSeq(S)[i] : i \in DOMAIN SetToSeq(S)} = S
<1> DEFINE f == SetToSeq(S)
           n == Cardinality(S)
<1>1. n \in Nat /\ ExistsBijection(1 .. n, S)
  BY FS_CardinalityType
<1>2. \E g \in [1 .. n -> S] : IsInjective(g)
  BY <1>1, Zenon DEF ExistsBijection, Bijection, Injection
<1>3. f \in [1 .. n -> S] /\ IsInjective(f)
  BY <1>2, Zenon DEF SetToSeq
<1> HIDE DEF f
<1>4. IsFiniteSet(1 .. n) /\ Cardinality(1 .. n) = n
  <2>1. \A k \in Nat : 1 \in Int /\ k \in Int /\ (1 > k => k = 0) /\ k - 1 + 1 = k
    OBVIOUS
  <2>2. IsFiniteSet(1 .. n) /\ Cardinality(1 .. n) = IF 1 > n THEN 0 ELSE n - 1 + 1
    BY <1>1, <2>1, FS_Interval
  <2> HIDE DEF n
  <2> QED
    BY <1>1, <2>1, <2>2
<1>5. ASSUME NEW v \in S, \A i \in DOMAIN f : f[i] # v
      PROVE  FALSE
  <2> DEFINE T == S \ {v}
  <2>1. IsFiniteSet(T) /\ Cardinality(T) = n - 1
    BY FS_RemoveElement
  <2>2. f \in [1 .. n -> T]
    <3> HIDE DEF n
    <3> QED
      BY <1>3, <1>5
  <2> HIDE DEF T, n
  <2>3. Cardinality(T) < Cardinality(1 .. n)
    BY <1>1, <1>4, <2>1
  <2>4. \E x, y \in 1 .. n : x # y /\ f[x] = f[y]
    BY <1>4, <2>1, <2>2, <2>3, FS_PigeonHole
  <2> QED
    BY <1>3, <2>4 DEF IsInjective
<1> QED
  BY <1>3, <1>5 DEF f

\* The largest of a set of numbers up to n, or 0.
LEMMA LargestOf ==
  ASSUME NEW n \in Nat, NEW S \in SUBSET (1 .. n)
  PROVE  Max({0} \cup S) \in 0 .. n /\ \A x \in S : x <= Max({0} \cup S)
<1> DEFINE T == {0} \cup S
           B == {k \in Nat : \A x \in T : x <= k}
<1>1. n \in B /\ B \subseteq Nat /\ B # {}
  OBVIOUS
<1>2. PICK m \in B : \A k \in B : m <= k
  BY <1>1, SmallestNat
<1>3. m \in T
  <2>1. CASE m = 0
    BY <2>1
  <2>2. CASE m # 0 /\ m \notin T
    <3>1. \A x \in T : x <= m - 1
      BY <1>2, <2>2
    <3>2. m - 1 \in B
      BY <1>2, <2>2, <3>1
    <3> QED
      BY <1>2, <3>2
  <2> QED
    BY <2>1, <2>2
<1>4. \E x \in T : \A y \in T : x >= y
  BY <1>2, <1>3
<1>5. Max(T) \in T /\ \A y \in T : Max(T) >= y
  BY <1>4, Zenon DEF Max
<1> DEFINE top == Max(T)
<1> HIDE DEF top
<1>6. top \in T /\ \A y \in T : top >= y
  BY <1>5 DEF top
<1>7. top \in 0 .. n /\ \A x \in S : x <= top
  BY <1>6
<1> QED
  BY <1>7 DEF top

\* A sequence is one of what it holds, and what is appended comes behind.
LEMMA JoinedFacts ==
  ASSUME NEW s, s \in Seq({s[n] : n \in DOMAIN s}), NEW r, r \in Seq({r[n] : n \in DOMAIN r})
  PROVE  /\ s \o r \in Seq({(s \o r)[n] : n \in DOMAIN (s \o r)})
         /\ DOMAIN s = 1 .. Len(s) /\ DOMAIN r = 1 .. Len(r)
         /\ Len(s) \in Nat /\ Len(r) \in Nat
         /\ DOMAIN (s \o r) = 1 .. Len(s) + Len(r)
         /\ \A i \in DOMAIN s : (s \o r)[i] = s[i]
         /\ \A i \in DOMAIN r : (s \o r)[Len(s) + i] = r[i]
         /\ \A i \in DOMAIN (s \o r) : i \notin DOMAIN s => i - Len(s) \in DOMAIN r
<1> DEFINE S == {s[n] : n \in DOMAIN s} \cup {r[n] : n \in DOMAIN r}
           j == s \o r
<1>1. s \in Seq(S) /\ r \in Seq(S)
  OBVIOUS
<1>2. /\ j \in Seq(S) /\ Len(j) = Len(s) + Len(r)
      /\ \A i \in 1 .. Len(s) + Len(r) : j[i] = IF i <= Len(s) THEN s[i] ELSE r[i - Len(s)]
  BY <1>1, ConcatProperties
<1>3. /\ DOMAIN s = 1 .. Len(s) /\ DOMAIN r = 1 .. Len(r)
      /\ Len(s) \in Nat /\ Len(r) \in Nat
  BY <1>1
<1> HIDE DEF S, j
<1>4. DOMAIN j = 1 .. Len(s) + Len(r)
  BY <1>2, <1>3
<1>5. j \in Seq({j[n] : n \in DOMAIN j})
  <2> DEFINE U == {j[n] : n \in DOMAIN j}
  <2>1. j \in Seq(S)
    BY <1>2
  <2>2. j = [n \in 1 .. Len(j) |-> j[n]] /\ Len(j) \in Nat /\ DOMAIN j = 1 .. Len(j)
    BY ONLY <2>1
  <2>3. \A n \in 1 .. Len(j) : j[n] \in U
    BY ONLY <2>2
  <2> HIDE DEF U
  <2>4. j \in Seq(U)
    BY ONLY <2>2, <2>3
  <2> QED
    BY ONLY <2>4, Zenon DEF U
<1>6. \A i \in DOMAIN r : Len(s) + i \in 1 .. Len(s) + Len(r) /\ j[Len(s) + i] = r[i]
  <2> SUFFICES ASSUME NEW i \in 1 .. Len(r)
               PROVE  Len(s) + i \in 1 .. Len(s) + Len(r) /\ j[Len(s) + i] = r[i]
    BY <1>3
  <2>1. /\ Len(s) + i \in 1 .. Len(s) + Len(r) /\ ~(Len(s) + i <= Len(s))
        /\ (Len(s) + i) - Len(s) = i
    BY <1>3
  <2> QED
    BY <1>2, <2>1
<1>7. \A i \in DOMAIN s : j[i] = s[i]
  BY <1>2, <1>3
<1>8. \A i \in DOMAIN j : i \notin DOMAIN s => i - Len(s) \in DOMAIN r
  BY <1>3, <1>4
<1> QED
  BY <1>3, <1>4, <1>5, <1>6, <1>7, <1>8, Zenon DEF j

\* A function on a finite set has finitely many values.
LEMMA FiniteRange ==
  ASSUME NEW D, IsFiniteSet(D), NEW f, f = [x \in D |-> f[x]]
  PROVE  IsFiniteSet({f[x] : x \in D})
<1> DEFINE T == {f[x] : x \in D}
<1>1. f \in [D -> T]
  OBVIOUS
<1>2. \A t \in T : \E x \in D : f[x] = t
  OBVIOUS
<1> HIDE DEF T
<1>3. f \in Surjection(D, T)
  BY <1>1, <1>2 DEF Surjection
<1>4. IsFiniteSet(T)
  BY <1>3, FS_Surjection
<1> QED
  BY <1>4 DEF T
=============================================================================
