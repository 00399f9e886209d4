----------------------------- MODULE EngineProofs -----------------------------
(***************************************************************************)
(* Proofs about Engine for every number of tokens, agents, periods, rules, *)
(* flows and population events: the states are well typed, no token's      *)
(* supply exceeds its cap, a stake is safe until it ends, what the rules   *)
(* plan is the sum of the rules however often they are replaced, the       *)
(* agents realise that plan, and the books balance; and about Explore,     *)
(* that what is reported of a run agrees with it.                          *)
(***************************************************************************)
EXTENDS Explore, FiniteSetTheorems, WellFoundedInduction, TLAPS

------------------------------------------------------------------------------
(* Sums over finite sets.  The library defines a sum as a recursive        *)
(* function over the subsets of a set.  That there is one, and that the    *)
(* order does not matter, is proved here from the well-foundedness of      *)
(* strict inclusion: where induction would be used, a least set without    *)
(* the property is taken (LeastSet).                                       *)

(* Among sets that are subsets of a finite one there is a least.           *)
LEMMA LeastSet ==
  ASSUME NEW S, IsFiniteSet(S), NEW C, C \subseteq SUBSET S, C # {}
  PROVE  \E s \in C : \A t \in C : t \subseteq s => t = s
<1> DEFINE R == StrictSubsetOrdering(S)
<1>1. IsWellFoundedOn(R, FiniteSubsetsOf(S))
  BY FS_StrictSubsetOrderingWellFounded
<1>2. C \subseteq FiniteSubsetsOf(S)
  BY FS_FiniteSubsetsOfFinite
<1> HIDE DEF R
<1>3. PICK s \in C : \A t \in C : ~(<<t, s>> \in R)
  BY <1>1, <1>2, WFMin
<1>4. ASSUME NEW t \in C, t \subseteq s PROVE t = s
  <2>1. ~(<<t, s>> \in R)
    BY <1>3
  <2> QED
    BY <1>4, <2>1 DEF R, StrictSubsetOrdering
<1> QED
  BY <1>4

(* T gives the sum of b over each subset of S.                             *)
Adds(T, b, S) ==
  /\ T \in [SUBSET S -> Nat] /\ T[{}] = 0
  /\ \A s \in SUBSET S, x \in S : x \in s => T[s] = b[x] + T[s \ {x}]

LEMMA AddsOneMore ==
  ASSUME NEW S, NEW b, NEW y, y \notin S, b[y] \in Nat, \A x \in S : b[x] \in Nat,
         NEW T, Adds(T, b, S)
  PROVE  \E U : Adds(U, b, S \cup {y})
<1> DEFINE Z == S \cup {y}
           U == [s \in SUBSET Z |-> IF y \in s THEN b[y] + T[s \ {y}] ELSE T[s]]
<1>1. T \in [SUBSET S -> Nat] /\ T[{}] = 0
  BY DEF Adds
<1>2. \A s \in SUBSET Z : s \ {y} \in SUBSET S /\ (y \notin s => s \in SUBSET S)
  OBVIOUS
<1>3. U \in [SUBSET Z -> Nat]
  BY <1>1, <1>2
<1>4. U[{}] = 0
  BY <1>1
<1>5. ASSUME NEW s \in SUBSET Z, NEW x \in Z, x \in s
      PROVE  U[s] = b[x] + U[s \ {x}]
  <2>1. s \ {x} \in SUBSET Z
    OBVIOUS
  <2>2. CASE x = y
    BY <1>5, <2>1, <2>2
  <2>3. CASE x # y /\ y \notin s
    <3>1. T[s] = b[x] + T[s \ {x}]
      BY <1>5, <1>2, <2>3 DEF Adds
    <3> QED
      BY <2>1, <2>3, <3>1
  <2>4. CASE x # y /\ y \in s
    <3>1. (s \ {y}) \ {x} = (s \ {x}) \ {y}
      OBVIOUS
    <3>2. T[s \ {y}] = b[x] + T[(s \ {x}) \ {y}]
      BY <1>5, <1>2, <2>4, <3>1 DEF Adds
    <3>3. U[s] = b[y] + T[s \ {y}] /\ U[s \ {x}] = b[y] + T[(s \ {x}) \ {y}]
      BY <2>1, <2>4
    <3>4. b[x] \in Nat /\ b[y] \in Nat /\ T[(s \ {x}) \ {y}] \in Nat
      BY <1>1, <1>2, <1>5, <2>1, <2>4
    <3> HIDE DEF U
    <3> QED
      BY <3>2, <3>3, <3>4
  <2> QED
    BY <2>2, <2>3, <2>4
<1> HIDE DEF U
<1> QED
  BY <1>3, <1>4, <1>5 DEF Adds

(* There is a sum over every finite set.                                   *)
LEMMA SumExists ==
  ASSUME NEW S, IsFiniteSet(S), NEW b, \A x \in S : b[x] \in Nat
  PROVE  \E T : Adds(T, b, S)
<1> DEFINE C == {s \in SUBSET S : ~ \E T : Adds(T, b, s)}
<1> SUFFICES ASSUME C # {} PROVE FALSE
  OBVIOUS
<1>1. PICK s \in C : \A t \in C : t \subseteq s => t = s
  <2> HIDE DEF C
  <2>1. C \subseteq SUBSET S
    BY DEF C
  <2> QED
    BY <2>1, LeastSet
<1>2. CASE s = {}
  <2> DEFINE T == [u \in SUBSET {} |-> 0]
  <2>1. T \in [SUBSET {} -> Nat] /\ T[{}] = 0
    OBVIOUS
  <2> HIDE DEF T
  <2>2. Adds(T, b, {})
    BY <2>1 DEF Adds
  <2> QED
    BY <1>2, <2>2
<1>3. CASE s # {}
  <2>1. PICK y : y \in s
    BY <1>3
  <2>2. s \ {y} \notin C /\ s \ {y} \in SUBSET S
    BY <1>1, <2>1
  <2>3. PICK T : Adds(T, b, s \ {y})
    BY <2>2
  <2>4. /\ y \notin s \ {y} /\ b[y] \in Nat /\ \A x \in s \ {y} : b[x] \in Nat
        /\ (s \ {y}) \cup {y} = s
    BY <2>1
  <2>5. \E U : Adds(U, b, (s \ {y}) \cup {y})
    BY <2>3, <2>4, AddsOneMore
  <2> QED
    BY <2>4, <2>5
<1> QED
  BY <1>2, <1>3

(* Whatever takes a set apart, one element after another, computes it.     *)
TakesApart(g, b, S) ==
  g[{}] = 0 /\ \A s \in SUBSET S : s # {} => \E x \in s : g[s] = b[x] + g[s \ {x}]

LEMMA SumIsUnique ==
  ASSUME NEW S, IsFiniteSet(S), NEW b, NEW T, Adds(T, b, S), NEW g, TakesApart(g, b, S)
  PROVE  \A s \in SUBSET S : g[s] = T[s]
<1> DEFINE C == {s \in SUBSET S : g[s] # T[s]}
<1> SUFFICES ASSUME C # {} PROVE FALSE
  OBVIOUS
<1>1. PICK s \in C : \A t \in C : t \subseteq s => t = s
  <2> HIDE DEF C
  <2>1. C \subseteq SUBSET S
    BY DEF C
  <2> QED
    BY <2>1, LeastSet
<1>2. s # {}
  BY DEF Adds, TakesApart
<1>3. PICK x \in s : g[s] = b[x] + g[s \ {x}]
  BY <1>2 DEF TakesApart
<1>4. g[s \ {x}] = T[s \ {x}]
  BY <1>1, <1>3
<1>5. T[s] = b[x] + T[s \ {x}]
  BY <1>3 DEF Adds
<1> QED
  BY <1>3, <1>4, <1>5

(***************************************************************************)
(* The sum of b over S.                                                    *)
(***************************************************************************)
SumOver(S, b) == (CHOOSE T : Adds(T, b, S))[S]

LEMMA SumOverIs ==
  ASSUME NEW S, IsFiniteSet(S), NEW b, NEW T, Adds(T, b, S)
  PROVE  SumOver(S, b) = T[S]
<1> DEFINE U == CHOOSE U : Adds(U, b, S)
<1>1. Adds(U, b, S)
  OBVIOUS
<1> HIDE DEF U
<1>2. TakesApart(U, b, S)
  BY <1>1 DEF Adds, TakesApart
<1>3. U[S] = T[S]
  BY <1>2, SumIsUnique
<1> QED
  BY <1>3 DEF SumOver, U

(* What a recursive definition with some order of the elements computes.   *)
LEMMA RecursiveSum ==
  ASSUME NEW S, IsFiniteSet(S), NEW b, \A x \in S : b[x] \in Nat, NEW g, TakesApart(g, b, S)
  PROVE  g[S] = SumOver(S, b)
<1>1. PICK T : Adds(T, b, S)
  BY SumExists
<1>2. g[S] = T[S]
  BY <1>1, SumIsUnique
<1> QED
  BY <1>1, <1>2, SumOverIs

LEMMA SumOfNone == ASSUME NEW b PROVE SumOver({}, b) = 0
<1>1. IsFiniteSet({}) /\ \A x \in {} : b[x] \in Nat
  BY FS_EmptySet
<1>2. PICK T : Adds(T, b, {})
  BY <1>1, SumExists
<1>3. SumOver({}, b) = T[{}]
  BY <1>1, <1>2, SumOverIs
<1> QED
  BY <1>2, <1>3 DEF Adds

LEMMA SumIsNat ==
  ASSUME NEW S, IsFiniteSet(S), NEW b, \A x \in S : b[x] \in Nat
  PROVE  SumOver(S, b) \in Nat
<1>1. PICK T : Adds(T, b, S)
  BY SumExists
<1>2. SumOver(S, b) = T[S]
  BY <1>1, SumOverIs
<1> QED
  BY <1>1, <1>2 DEF Adds

(* Taking an element out.                                                  *)
LEMMA SumWithout ==
  ASSUME NEW S, IsFiniteSet(S), NEW b, \A x \in S : b[x] \in Nat, NEW y \in S
  PROVE  SumOver(S, b) = b[y] + SumOver(S \ {y}, b)
<1>1. PICK T : Adds(T, b, S)
  BY SumExists
<1> DEFINE R == S \ {y}
           U == [s \in SUBSET R |-> T[s]]
<1>2. IsFiniteSet(R) /\ R \subseteq S
  BY FS_RemoveElement
<1>3. Adds(U, b, R)
  <2>1. U \in [SUBSET R -> Nat] /\ U[{}] = 0
    BY <1>1, <1>2 DEF Adds
  <2>2. ASSUME NEW s \in SUBSET R, NEW x \in R, x \in s
        PROVE  U[s] = b[x] + U[s \ {x}]
    BY <1>1, <1>2, <2>2 DEF Adds
  <2> HIDE DEF U
  <2> QED
    BY <2>1, <2>2 DEF Adds
<1>4. U[R] = T[R]
  OBVIOUS
<1> HIDE DEF U
<1>5. SumOver(S, b) = T[S] /\ SumOver(R, b) = U[R]
  BY <1>1, <1>2, <1>3, SumOverIs
<1>6. T[S] = b[y] + T[R]
  BY <1>1 DEF Adds
<1> QED
  BY <1>4, <1>5, <1>6

(* Only what is summed matters.                                            *)
LEMMA SumOfSame ==
  ASSUME NEW S, IsFiniteSet(S), NEW b, NEW c, \A x \in S : b[x] \in Nat /\ c[x] = b[x]
  PROVE  SumOver(S, c) = SumOver(S, b)
<1>1. PICK T : Adds(T, b, S)
  BY SumExists
<1>2. Adds(T, c, S)
  BY <1>1 DEF Adds
<1> QED
  BY <1>1, <1>2, SumOverIs

(* One term changes.                                                       *)
LEMMA SumWithNew ==
  ASSUME NEW S, IsFiniteSet(S), NEW b, NEW c, NEW y \in S,
         \A x \in S : b[x] \in Nat /\ c[x] \in Nat, \A x \in S \ {y} : c[x] = b[x]
  PROVE  SumOver(S, c) + b[y] = SumOver(S, b) + c[y]
<1>1. IsFiniteSet(S \ {y})
  BY FS_RemoveElement
<1>2. SumOver(S, b) = b[y] + SumOver(S \ {y}, b) /\ SumOver(S, c) = c[y] + SumOver(S \ {y}, c)
  BY SumWithout
<1>3. SumOver(S \ {y}, c) = SumOver(S \ {y}, b) /\ SumOver(S \ {y}, b) \in Nat
  BY <1>1, SumOfSame, SumIsNat
<1> QED
  BY <1>2, <1>3

LEMMA SumOfZeros ==
  ASSUME NEW S, IsFiniteSet(S), NEW b, \A x \in S : b[x] = 0
  PROVE  SumOver(S, b) = 0
<1> DEFINE T == [s \in SUBSET S |-> 0]
<1>1. T \in [SUBSET S -> Nat] /\ T[{}] = 0 /\ \A s \in SUBSET S, x \in S : T[s] = 0 /\ T[s \ {x}] = 0
  OBVIOUS
<1> HIDE DEF T
<1>2. Adds(T, b, S)
  BY <1>1 DEF Adds
<1>3. T[S] = 0
  BY <1>1
<1> QED
  BY <1>2, <1>3, SumOverIs

LEMMA SumOfConstant ==
  ASSUME NEW S, IsFiniteSet(S), NEW b, NEW c \in Nat, \A x \in S : b[x] = c
  PROVE  SumOver(S, b) = Cardinality(S) * c
<1> DEFINE T == [s \in SUBSET S |-> Cardinality(s) * c]
<1>1. \A s \in SUBSET S : IsFiniteSet(s) /\ Cardinality(s) \in Nat
  BY FS_Subset, FS_CardinalityType
<1>2. T \in [SUBSET S -> Nat] /\ T[{}] = 0
  BY <1>1, FS_EmptySet
<1>3. ASSUME NEW s \in SUBSET S, NEW x \in S, x \in s
      PROVE  T[s] = b[x] + T[s \ {x}]
  <2> DEFINE m == Cardinality(s)
             n == Cardinality(s \ {x})
  <2>1. m \in Nat /\ n \in Nat /\ n = m - 1
    BY <1>1, <1>3, FS_RemoveElement
  <2>2. T[s] = m * c /\ T[s \ {x}] = n * c /\ b[x] = c
    OBVIOUS
  <2> HIDE DEF m, n, T
  <2>3. m = n + 1
    BY <2>1
  <2>4. (n + 1) * c = n * c + c
    BY <2>1
  <2>5. n * c \in Nat
    BY <2>1
  <2> QED
    BY <2>2, <2>3, <2>4, <2>5
<1>4. T[S] = Cardinality(S) * c
  OBVIOUS
<1> HIDE DEF T
<1>5. Adds(T, b, S)
  BY <1>2, <1>3 DEF Adds
<1> QED
  BY <1>4, <1>5, SumOverIs

(* Term by term.                                                           *)
LEMMA SumOfSums ==
  ASSUME NEW S, IsFiniteSet(S), NEW b, NEW c, NEW d,
         \A x \in S : c[x] \in Nat /\ d[x] \in Nat /\ b[x] = c[x] + d[x]
  PROVE  SumOver(S, b) = SumOver(S, c) + SumOver(S, d)
<1>1. PICK T : Adds(T, c, S)
  BY SumExists
<1>2. PICK U : Adds(U, d, S)
  BY SumExists
<1> DEFINE V == [s \in SUBSET S |-> T[s] + U[s]]
<1>3. T \in [SUBSET S -> Nat] /\ T[{}] = 0 /\ U \in [SUBSET S -> Nat] /\ U[{}] = 0
  BY <1>1, <1>2 DEF Adds
<1>4. V \in [SUBSET S -> Nat] /\ V[{}] = 0
  BY <1>3
<1>5. ASSUME NEW s \in SUBSET S, NEW x \in S, x \in s
      PROVE  V[s] = b[x] + V[s \ {x}]
  <2>1. T[s] = c[x] + T[s \ {x}] /\ U[s] = d[x] + U[s \ {x}]
    BY <1>1, <1>2, <1>5 DEF Adds
  <2>2. V[s] = T[s] + U[s] /\ V[s \ {x}] = T[s \ {x}] + U[s \ {x}]
    BY <1>5
  <2>3. T[s \ {x}] \in Nat /\ U[s \ {x}] \in Nat /\ c[x] \in Nat /\ d[x] \in Nat /\ b[x] = c[x] + d[x]
    BY <1>3
  <2> HIDE DEF V
  <2> QED
    BY <2>1, <2>2, <2>3
<1>6. V[S] = T[S] + U[S]
  OBVIOUS
<1> HIDE DEF V
<1>7. Adds(V, b, S)
  BY <1>4, <1>5 DEF Adds
<1> QED
  BY <1>1, <1>2, <1>6, <1>7, SumOverIs

(* A sum over more, of more, is not less.                                  *)
LEMMA SumGrows ==
  ASSUME NEW S, IsFiniteSet(S), NEW b, NEW c, \A x \in S : b[x] \in Nat,
         NEW R, R \subseteq S, \A x \in R : c[x] \in Nat /\ c[x] <= b[x]
  PROVE  SumOver(R, c) <= SumOver(S, b)
<1> DEFINE C == {s \in SUBSET S : ~(SumOver(s \cap R, c) <= SumOver(s, b))}
<1> SUFFICES ASSUME C # {} PROVE FALSE
  <2>1. S \cap R = R /\ S \in SUBSET S
    OBVIOUS
  <2> QED
    BY <2>1
<1>1. PICK s \in C : \A t \in C : t \subseteq s => t = s
  <2> HIDE DEF C
  <2>1. C \subseteq SUBSET S
    BY DEF C
  <2> QED
    BY <2>1, LeastSet
<1>2. s # {}
  <2>1. SumOver({}, c) = 0 /\ SumOver({}, b) = 0 /\ {} \cap R = {}
    BY SumOfNone
  <2> QED
    BY <2>1
<1>3. PICK y : y \in s
  BY <1>2
<1> DEFINE rest == s \ {y}
<1>4. SumOver(rest \cap R, c) <= SumOver(rest, b)
  BY <1>1, <1>3
<1>5. IsFiniteSet(s) /\ IsFiniteSet(rest) /\ IsFiniteSet(s \cap R) /\ IsFiniteSet(rest \cap R)
  BY FS_Subset
<1>6. SumOver(s, b) = b[y] + SumOver(rest, b)
  BY <1>3, <1>5, SumWithout
<1>7. SumOver(rest, b) \in Nat /\ SumOver(rest \cap R, c) \in Nat /\ b[y] \in Nat
  BY <1>3, <1>5, SumIsNat
<1>8. CASE y \in R
  <2>1. y \in s \cap R /\ (s \cap R) \ {y} = rest \cap R /\ \A x \in s \cap R : c[x] \in Nat
    BY <1>3, <1>8
  <2>2. SumOver(s \cap R, c) = c[y] + SumOver((s \cap R) \ {y}, c)
    BY <1>5, <2>1, SumWithout
  <2>3. c[y] \in Nat /\ c[y] <= b[y]
    BY <1>8
  <2>4. SumOver(s \cap R, c) = c[y] + SumOver(rest \cap R, c)
    BY <2>1, <2>2
  <2> HIDE DEF rest
  <2>5. SumOver(s \cap R, c) <= SumOver(s, b)
    BY <1>4, <1>6, <1>7, <2>3, <2>4
  <2> QED
    BY <2>5
<1>9. CASE y \notin R
  <2>1. s \cap R = rest \cap R
    BY <1>9
  <2>2. SumOver(s \cap R, c) = SumOver(rest \cap R, c)
    BY <2>1
  <2> HIDE DEF rest
  <2>3. SumOver(rest \cap R, c) <= SumOver(s, b)
    BY <1>4, <1>6, <1>7
  <2> QED
    BY <2>2, <2>3
<1> QED
  BY <1>8, <1>9

(* Where nothing is more and the sums are the same, nothing is less.       *)
LEMMA SumIsTight ==
  ASSUME NEW S, IsFiniteSet(S), NEW b, NEW c, \A x \in S : b[x] \in Nat /\ c[x] \in Nat /\ c[x] <= b[x],
         SumOver(S, c) = SumOver(S, b), NEW y \in S
  PROVE  c[y] = b[y]
<1>1. SumOver(S, b) = b[y] + SumOver(S \ {y}, b) /\ SumOver(S, c) = c[y] + SumOver(S \ {y}, c)
  BY SumWithout
<1>2. IsFiniteSet(S \ {y})
  BY FS_RemoveElement
<1>3. SumOver(S \ {y}, c) <= SumOver(S \ {y}, b)
  BY <1>2, SumGrows
<1>4. SumOver(S \ {y}, c) \in Nat /\ SumOver(S \ {y}, b) \in Nat
  BY <1>2, SumIsNat
<1> QED
  BY <1>1, <1>3, <1>4

(* A factor, and a bound on each term.                                     *)
LEMMA SumScaled ==
  ASSUME NEW S, IsFiniteSet(S), NEW b, NEW c, NEW p \in Nat, \A x \in S : b[x] \in Nat /\ c[x] = p * b[x]
  PROVE  SumOver(S, c) = p * SumOver(S, b)
<1>1. PICK T : Adds(T, b, S)
  BY SumExists
<1> DEFINE U == [s \in SUBSET S |-> p * T[s]]
<1>2. T \in [SUBSET S -> Nat] /\ T[{}] = 0
  BY <1>1 DEF Adds
<1>3. U \in [SUBSET S -> Nat] /\ U[{}] = 0
  BY <1>2
<1>4. ASSUME NEW s \in SUBSET S, NEW x \in S, x \in s
      PROVE  U[s] = c[x] + U[s \ {x}]
  <2> DEFINE m == T[s]
             n == T[s \ {x}]
             y == b[x]
  <2>1. m = y + n /\ n \in Nat /\ y \in Nat
    BY <1>1, <1>2, <1>4 DEF Adds
  <2>2. U[s] = p * m /\ U[s \ {x}] = p * n /\ c[x] = p * y
    OBVIOUS
  <2> HIDE DEF m, n, y, U
  <2>3. p * (y + n) = p * y + p * n
    BY <2>1
  <2> QED
    BY <2>1, <2>2, <2>3
<1> HIDE DEF U
<1>5. Adds(U, c, S)
  BY <1>3, <1>4 DEF Adds
<1>6. SumOver(S, c) = U[S] /\ SumOver(S, b) = T[S]
  BY <1>1, <1>5, SumOverIs
<1>7. U[S] = p * T[S]
  BY DEF U
<1> QED
  BY <1>6, <1>7

LEMMA SumIsLinear ==
  ASSUME NEW S, IsFiniteSet(S), NEW a, NEW b, \A x \in S : a[x] \in Nat /\ b[x] \in Nat,
         NEW p \in Nat, NEW q \in Nat, NEW r \in Nat, NEW t \in Nat,
         \A x \in S : p * a[x] + r <= q * b[x] + t
  PROVE  p * SumOver(S, a) + Cardinality(S) * r <= q * SumOver(S, b) + Cardinality(S) * t
<1> DEFINE pa == [x \in S |-> p * a[x]]
           qb == [x \in S |-> q * b[x]]
           rs == [x \in S |-> r]
           ts == [x \in S |-> t]
           left  == [x \in S |-> pa[x] + rs[x]]
           right == [x \in S |-> qb[x] + ts[x]]
<1>1. ASSUME NEW x \in S PROVE pa[x] \in Nat /\ qb[x] \in Nat /\ rs[x] \in Nat /\ ts[x] \in Nat
  <2>1. p * a[x] \in Nat /\ q * b[x] \in Nat
    OBVIOUS
  <2> QED
    BY <2>1
<1>2. \A x \in S : /\ pa[x] = p * a[x] /\ qb[x] = q * b[x] /\ rs[x] = r /\ ts[x] = t
                   /\ left[x] = pa[x] + rs[x] /\ right[x] = qb[x] + ts[x]
  OBVIOUS
<1> HIDE DEF pa, qb, rs, ts, left, right
<1>3. \A x \in S : left[x] \in Nat /\ right[x] \in Nat /\ left[x] <= right[x]
  BY <1>1, <1>2
<1>4. SumOver(S, left) <= SumOver(S, right)
  BY <1>3, SumGrows
<1>5. SumOver(S, left) = SumOver(S, pa) + SumOver(S, rs)
  BY <1>1, <1>2, SumOfSums
<1>6. SumOver(S, right) = SumOver(S, qb) + SumOver(S, ts)
  BY <1>1, <1>2, SumOfSums
<1>7. SumOver(S, pa) = p * SumOver(S, a) /\ SumOver(S, qb) = q * SumOver(S, b)
  BY <1>2, SumScaled
<1>8. SumOver(S, rs) = Cardinality(S) * r /\ SumOver(S, ts) = Cardinality(S) * t
  BY <1>2, SumOfConstant
<1> QED
  BY <1>4, <1>5, <1>6, <1>7, <1>8

(* Two disjoint sets.                                                      *)
LEMMA SumOfUnion ==
  ASSUME NEW S, NEW R, IsFiniteSet(S), IsFiniteSet(R), S \cap R = {},
         NEW b, \A x \in S \cup R : b[x] \in Nat
  PROVE  SumOver(S \cup R, b) = SumOver(S, b) + SumOver(R, b)
<1> DEFINE C == {s \in SUBSET S : ~(SumOver(s \cup R, b) = SumOver(s, b) + SumOver(R, b))}
<1> SUFFICES ASSUME C # {} PROVE FALSE
  <2>1. S \in SUBSET S
    OBVIOUS
  <2> QED
    BY <2>1
<1>1. PICK s \in C : \A t \in C : t \subseteq s => t = s
  <2> HIDE DEF C
  <2>1. C \subseteq SUBSET S
    BY DEF C
  <2> QED
    BY <2>1, LeastSet
<1>0. SumOver(R, b) \in Nat
  BY SumIsNat
<1>2. s # {}
  <2>1. SumOver({}, b) = 0 /\ {} \cup R = R
    BY SumOfNone
  <2> QED
    BY <2>1, <1>0
<1>3. PICK y : y \in s
  BY <1>2
<1> DEFINE rest == s \ {y}
<1>4. SumOver(rest \cup R, b) = SumOver(rest, b) + SumOver(R, b)
  BY <1>1, <1>3
<1>5. IsFiniteSet(s) /\ IsFiniteSet(rest) /\ IsFiniteSet(s \cup R)
  BY FS_Subset, FS_Union
<1>6. SumOver(s, b) = b[y] + SumOver(rest, b)
  BY <1>3, <1>5, SumWithout
<1>7. y \in s \cup R /\ (s \cup R) \ {y} = rest \cup R /\ \A x \in s \cup R : b[x] \in Nat
  BY <1>3
<1>8. SumOver(s \cup R, b) = b[y] + SumOver(rest \cup R, b)
  <2>1. SumOver(s \cup R, b) = b[y] + SumOver((s \cup R) \ {y}, b)
    BY <1>5, <1>7, SumWithout
  <2> QED
    BY <1>7, <2>1
<1>9. SumOver(rest, b) \in Nat /\ b[y] \in Nat
  BY <1>3, <1>5, SumIsNat
<1> HIDE DEF rest
<1>10. SumOver(s \cup R, b) = SumOver(s, b) + SumOver(R, b)
  BY <1>0, <1>4, <1>6, <1>8, <1>9
<1> QED
  BY <1>10

(***************************************************************************)
(* What the library's folds compute.                                       *)
(***************************************************************************)
Greatest(s, m) == m \in s /\ \A x \in s : m >= x

LEMMA GreatestExists ==
  ASSUME NEW S, IsFiniteSet(S), \A x \in S : x \in Int
  PROVE  \A s \in SUBSET S : s # {} => \E m : Greatest(s, m)
<1> DEFINE C == {s \in SUBSET S : s # {} /\ ~ \E m : Greatest(s, m)}
<1> SUFFICES ASSUME C # {} PROVE FALSE
  OBVIOUS
<1>1. PICK s \in C : \A t \in C : t \subseteq s => t = s
  <2> HIDE DEF C
  <2>1. C \subseteq SUBSET S
    BY DEF C
  <2> QED
    BY <2>1, LeastSet
<1>2. PICK y : y \in s
  OBVIOUS
<1>3. s \subseteq Int /\ y \in Int
  BY <1>2
<1>4. s \ {y} # {}
  <2>1. s = {y} => Greatest(s, y)
    BY <1>3 DEF Greatest
  <2> QED
    BY <1>2, <2>1
<1>5. PICK m : Greatest(s \ {y}, m)
  <2>1. s \ {y} \notin C
    BY <1>1, <1>2
  <2> QED
    BY <1>4, <2>1
<1>6. m >= y => Greatest(s, m)
  BY <1>5 DEF Greatest
<1>7. y >= m => Greatest(s, y)
  BY <1>2, <1>3, <1>5 DEF Greatest
<1>8. m \in Int
  BY <1>3, <1>5 DEF Greatest
<1> QED
  BY <1>3, <1>6, <1>7, <1>8

LEMMA MaxIsThere ==
  ASSUME NEW S, IsFiniteSet(S), S \subseteq Int, S # {}
  PROVE  Max(S) \in S /\ \A x \in S : x <= Max(S)
<1>1. \A s \in SUBSET S : s # {} => \E m : Greatest(s, m)
  BY GreatestExists
<1>2. \E m : Greatest(S, m)
  BY <1>1
<1>3. Max(S) \in S /\ \A x \in S : Max(S) >= x
  BY <1>2 DEF Max, Greatest
<1> QED
  BY <1>3

(* A sum as the library computes it: the recursion has a solution, and so  *)
(* the one it chooses takes the set apart.                                 *)
Added(S, b) == MapThenSumSet(LAMBDA a : b[a], S)

LEMMA SetFold ==
  ASSUME NEW S, IsFiniteSet(S), NEW b, \A x \in S : b[x] \in Nat
  PROVE  Added(S, b) = SumOver(S, b)
<1> DEFINE Pick(s) == CHOOSE x \in s : TRUE
           Rec(g) == g = [s \in SUBSET S |-> IF s = {} THEN 0 ELSE b[Pick(s)] + g[s \ {Pick(s)}]]
           g == CHOOSE g : Rec(g)
<1>1. Added(S, b) = g[S]
  BY DEF Added, MapThenSumSet, MapThenFoldSet
<1>2. \A s : s # {} => Pick(s) \in s
  OBVIOUS
<1> HIDE DEF Pick
<1>3. Rec(g)
  <2>1. PICK T : Adds(T, b, S)
    BY SumExists
  <2>2. Rec(T)
    <3>1. \A s \in SUBSET S : T[s] = IF s = {} THEN 0 ELSE b[Pick(s)] + T[s \ {Pick(s)}]
      BY <1>2, <2>1 DEF Adds
    <3> QED
      BY <2>1, <3>1 DEF Adds
  <2> HIDE DEF Rec
  <2> QED
    BY <2>2
<1> HIDE DEF g
<1>4. TakesApart(g, b, S)
  BY <1>2, <1>3 DEF TakesApart
<1> HIDE DEF Rec
<1>5. g[S] = SumOver(S, b)
  BY <1>4, RecursiveSum
<1> QED
  BY <1>1, <1>5

(* The same of a sequence of amounts, summed from left to right.           *)
AddedInOrder(f) == FoldLeft(LAMBDA a, b : a + b, 0, f)

LEMMA SequenceFold ==
  ASSUME NEW f, NEW n \in Nat, DOMAIN f = 1..n, \A i \in 1..n : f[i] \in Nat
  PROVE  AddedInOrder(f) = SumOver(1..n, f)
<1> DEFINE S == 1..n
           Rec(g) == g = [s \in SUBSET S |-> IF s = {} THEN 0 ELSE g[s \ {Max(s)}] + f[Max(s)]]
           g == CHOOSE g : Rec(g)
<1>1. AddedInOrder(f) = g[S]
  BY DEF AddedInOrder, FoldLeft, MapThenFoldSet
<1>2. IsFiniteSet(S) /\ \A i \in S : f[i] \in Nat
  BY FS_Interval
<1>3. \A s \in SUBSET S : s # {} => Max(s) \in s
  <2> SUFFICES ASSUME NEW s \in SUBSET S, s # {} PROVE Max(s) \in s
    OBVIOUS
  <2>1. s \subseteq Int
    OBVIOUS
  <2> HIDE DEF S
  <2>2. IsFiniteSet(s)
    BY <1>2, FS_Subset
  <2> QED
    BY <2>1, <2>2, MaxIsThere
<1> HIDE DEF S
<1>4. Rec(g)
  <2>1. PICK T : Adds(T, f, S)
    BY <1>2, SumExists
  <2>2. Rec(T)
    <3>1. \A s \in SUBSET S : T[s] = IF s = {} THEN 0 ELSE T[s \ {Max(s)}] + f[Max(s)]
      <4> SUFFICES ASSUME NEW s \in SUBSET S, s # {} PROVE T[s] = T[s \ {Max(s)}] + f[Max(s)]
        BY <2>1 DEF Adds
      <4>1. Max(s) \in s /\ Max(s) \in S
        BY <1>3
      <4>2. T[s] = f[Max(s)] + T[s \ {Max(s)}] /\ s \ {Max(s)} \in SUBSET S
        BY <2>1, <4>1 DEF Adds
      <4>3. T[s \ {Max(s)}] \in Nat /\ f[Max(s)] \in Nat
        BY <1>2, <2>1, <4>1, <4>2 DEF Adds
      <4> QED
        BY <4>2, <4>3
    <3>2. T \in [SUBSET S -> Nat]
      BY <2>1 DEF Adds
    <3> QED
      BY <3>1, <3>2
  <2> HIDE DEF Rec
  <2> QED
    BY <2>2
<1> HIDE DEF g
<1>5. \A s \in SUBSET S : g[s] = IF s = {} THEN 0 ELSE g[s \ {Max(s)}] + f[Max(s)]
  BY <1>4
<1> HIDE DEF Rec
<1>6. PICK T : Adds(T, f, S)
  BY <1>2, SumExists
<1>7. \A s \in SUBSET S : g[s] \in Nat
  <2> DEFINE C == {s \in SUBSET S : g[s] \notin Nat}
  <2> SUFFICES ASSUME C # {} PROVE FALSE
    OBVIOUS
  <2>1. PICK s \in C : \A t \in C : t \subseteq s => t = s
    <3> HIDE DEF C
    <3>1. C \subseteq SUBSET S
      BY DEF C
    <3> QED
      BY <1>2, <3>1, LeastSet
  <2>2. s # {} /\ s \in SUBSET S
    <3>1. {} \in SUBSET S /\ g[{}] = 0 /\ 0 \in Nat
      BY <1>5
    <3>2. s \in SUBSET S /\ g[s] \notin Nat
      OBVIOUS
    <3>3. s # {}
      BY <3>1, <3>2
    <3> QED
      BY <3>2, <3>3
  <2>3. Max(s) \in s
    BY <1>3, <2>2
  <2>4. s \ {Max(s)} \in SUBSET S /\ g[s \ {Max(s)}] \in Nat
    BY <2>1, <2>3
  <2>5. f[Max(s)] \in Nat
    BY <1>2, <2>2, <2>3
  <2>6. g[s] = g[s \ {Max(s)}] + f[Max(s)]
    BY <1>5, <2>2
  <2> QED
    BY <2>4, <2>5, <2>6
<1>8. TakesApart(g, f, S)
  <2>1. g[{}] = 0
    BY <1>5
  <2>2. ASSUME NEW s \in SUBSET S, s # {} PROVE \E x \in s : g[s] = f[x] + g[s \ {x}]
    <3>1. Max(s) \in s /\ s \ {Max(s)} \in SUBSET S
      BY <1>3, <2>2
    <3>2. g[s] = g[s \ {Max(s)}] + f[Max(s)]
      BY <1>5, <2>2
    <3>3. f[Max(s)] \in Nat /\ g[s \ {Max(s)}] \in Nat
      BY <1>2, <1>7, <3>1
    <3>4. g[s] = f[Max(s)] + g[s \ {Max(s)}]
      BY <3>2, <3>3
    <3> QED
      BY <3>1, <3>4
  <2> QED
    BY <2>1, <2>2 DEF TakesApart
<1>9. g[S] = SumOver(S, f)
  BY <1>2, <1>8, RecursiveSum
<1> QED
  BY <1>1, <1>9 DEF S

(* The last term of a sum over an interval.                                *)
LEMMA SumOneMore ==
  ASSUME NEW n \in Nat, NEW f, \A i \in 1..(n + 1) : f[i] \in Nat
  PROVE  SumOver(1..(n + 1), f) = SumOver(1..n, f) + f[n + 1]
<1>1. IsFiniteSet(1..(n + 1)) /\ IsFiniteSet(1..n)
  BY FS_Interval
<1>2. (1..(n + 1)) \ {n + 1} = 1..n
  OBVIOUS
<1>3. n + 1 \in 1..(n + 1) /\ 1..n \subseteq 1..(n + 1)
  OBVIOUS
<1>4. SumOver(1..(n + 1), f) = f[n + 1] + SumOver((1..(n + 1)) \ {n + 1}, f)
  BY <1>1, <1>3, SumWithout
<1>5. SumOver(1..n, f) \in Nat /\ f[n + 1] \in Nat
  BY <1>1, <1>3, SumIsNat
<1>6. SumOver(1..(n + 1), f) = f[n + 1] + SumOver(1..n, f)
  BY <1>2, <1>4
<1> QED
  BY <1>5, <1>6


(* An agent whose stake runs does nothing in the period, unless it staked  *)
(* in this very period.                                                    *)
StakersRest ==
  stage \in {"act", "flows"} => \A a \in agents : Locked(a) => choice[a] \in {"hold", "stake"}

(* The types, in three groups.                                             *)
Clock ==
  /\ period \in Nat /\ stage \in {"ready", "people", "act", "flows"}
  /\ regime \in BOOLEAN /\ fired \subseteq 1..Len(Population)
  /\ queue \in Seq(1..Len(Population)) /\ flow \in Nat \ {0}
Amounts ==
  /\ M \in [Tokens -> Nat] /\ rate \in [Tokens -> Sides] /\ cap \in [Tokens -> Nat \cup {NoCap}]
  /\ fixed \in [Tokens -> Sides] /\ base \in [Tokens -> Sides]
  /\ part \in [regime: Nat, state: Nat] /\ opened \in [Tokens -> Nat]
  /\ pool \in [Tokens -> Sides] /\ share \in Sides
People ==
  /\ agents \subseteq Ids /\ past \subseteq Ids /\ kind \in [Ids -> Types]
  /\ balance \in [Ids -> Nat] /\ until \in [Ids -> Nat] /\ delegate \in [Ids -> Ids]
  /\ choice \in [Ids -> Actions] /\ todo \subseteq agents /\ votes \subseteq Ids

LEMMA Groups == TypeOK <=> Clock /\ Amounts /\ People
  BY DEF TypeOK, Clock, Amounts, People

------------------------------------------------------------------------------
(* Operators.                                                              *)

(* mint_room: never more than was asked for, and never above the cap.      *)
LEMMA RoomFits ==
  ASSUME Amounts, CapHolds, NEW k \in Tokens, NEW n \in Nat
  PROVE  /\ Room(k, n) \in Nat /\ Room(k, n) <= n
         /\ cap[k] # NoCap => M[k] + Room(k, n) <= cap[k]
  BY DEF Amounts, CapHolds, Room, Least, Less

LEMMA LessType == ASSUME NEW a \in Nat, NEW b \in Nat PROVE Less(a, b) \in Nat /\ Less(a, b) <= a
  BY DEF Less

LEMMA SomeAgents == ASSUME NEW s, s \subseteq Ids PROVE IsFiniteSet(s)
<1>1. IsFiniteSet(Ids)
  BY FS_Interval, EngineAssumption DEF Ids
<1> QED
  BY <1>1, FS_Subset

LEMMA EachType == ASSUME NEW s, s \subseteq Ids, NEW n \in Nat PROVE Each(n, s) \in Nat
<1>1. CASE s = {}
  BY <1>1 DEF Each
<1>2. CASE s # {}
  <2>1. Cardinality(s) \in Nat /\ Cardinality(s) # 0
    BY <1>2, SomeAgents, FS_CardinalityType, FS_EmptySet
  <2> QED
    BY <2>1, <1>2 DEF Each
<1> QED
  BY <1>1, <1>2

LEMMA AssignmentsType == ASSUME NEW s, NEW b, NEW d \in Assignments(s, b) PROVE d \in [Ids -> Ids]
  BY DEF Assignments

LEMMA ActionSetType == ASSUME NEW ty \in Types PROVE ActionSet(ty) \subseteq Actions
  BY EngineAssumption DEF ActionSet, Actions

LEMMA CountedEvents == Len(Population) \in Nat
<1> DEFINE Events == [kind: {"spawn", "despawn"}, at: SUBSET Nat, when: SUBSET Nat,
                     type: Types, count: Nat, balance: Nat]
<1>1. Population \in Seq(Events)
  BY EngineAssumption
<1> HIDE DEF Events
<1> QED
  BY <1>1

(* The queue of a period names population events.                          *)
LEMMA OrdersType == ASSUME NEW t, NEW q \in Orders(Fires(t)) PROVE q \in Seq(1..Len(Population))
<1>1. Fires(t) \subseteq 1..Len(Population) /\ Len(Population) \in Nat
  BY CountedEvents DEF Fires
<1>2. IsFiniteSet(Fires(t))
  <2>1. IsFiniteSet(1..Len(Population))
    BY <1>1, FS_Interval
  <2> QED
    BY <1>1, <2>1, FS_Subset
<1>3. Cardinality(Fires(t)) \in Nat
  BY <1>2, FS_CardinalityType
<1>4. q \in [1..Cardinality(Fires(t)) -> 1..Len(Population)]
  BY <1>1 DEF Orders
<1> QED
  BY <1>3, <1>4

(* An event of the population, a flow, and the types of the first agents.  *)
LEMMA EventType ==
  ASSUME NEW n \in 1..Len(Population)
  PROVE  /\ Population[n].kind \in {"spawn", "despawn"} /\ Population[n].type \in Types
         /\ Population[n].count \in Nat /\ Population[n].balance \in Nat
<1> DEFINE Events == [kind: {"spawn", "despawn"}, at: SUBSET Nat, when: SUBSET Nat,
                     type: Types, count: Nat, balance: Nat]
<1>1. Population \in Seq(Events)
  BY EngineAssumption
<1>2. Population[n] \in Events
  <2> HIDE DEF Events
  <2> QED
    BY <1>1
<1> QED
  BY <1>2

LEMMA CountedFlows == Len(Flows) \in Nat
<1> DEFINE Links == [src: Tokens, tgt: Tokens, mint: BOOLEAN, amount: Nat]
<1>1. Flows \in Seq(Links)
  BY EngineAssumption
<1> HIDE DEF Links
<1> QED
  BY <1>1

LEMMA FlowType ==
  ASSUME NEW n \in Nat \ {0}, n <= Len(Flows)
  PROVE  Flows[n].src \in Tokens /\ Flows[n].tgt \in Tokens /\ Flows[n].amount \in Nat
<1> DEFINE Links == [src: Tokens, tgt: Tokens, mint: BOOLEAN, amount: Nat]
<1>1. Flows \in Seq(Links)
  BY EngineAssumption
<1>2. Flows[n] \in Links
  <2> HIDE DEF Links
  <2> QED
    BY <1>1
<1> QED
  BY <1>2

LEMMA FirstAgentsType ==
  /\ FirstAgents \subseteq Ids /\ SomeType \in Types /\ 0 \in Ids
  /\ \A a \in FirstAgents : Start[a + 1] \in Types
<1>1. Start \in Seq(Types) /\ Len(Start) \in Nat /\ Len(Start) - 1 \in Ids \cup {-1} /\ MaxId \in Nat
  BY EngineAssumption
<1>2. SomeType \in Types
  BY EngineAssumption DEF SomeType
<1>3. FirstAgents \subseteq Ids /\ 0 \in Ids
  BY <1>1 DEF FirstAgents, Ids
<1>4. ASSUME NEW a \in FirstAgents PROVE Start[a + 1] \in Types
  BY <1>1, <1>4 DEF FirstAgents, Ids
<1> QED
  BY <1>2, <1>3, <1>4

(* What the flows add to the plan of a token.                              *)
LEMMA FlowPlanType == ASSUME NEW k \in Tokens, NEW mint PROVE FlowPlan(k, mint) \in Nat
<1> DEFINE amounts == [n \in 1..Len(Flows) |-> Flows[n].amount]
           those   == {n \in 1..Len(Flows) : Flows[n].tgt = k /\ Flows[n].mint = mint}
<1>1. Len(Flows) \in Nat
  BY CountedFlows
<1>2. IsFiniteSet(those)
  <2>1. IsFiniteSet(1..Len(Flows)) /\ those \subseteq 1..Len(Flows)
    BY <1>1, FS_Interval
  <2> QED
    BY <2>1, FS_Subset
<1>3. \A n \in those : amounts[n] \in Nat
  BY <1>1, FlowType
<1>4. FlowPlan(k, mint) = Added(those, amounts)
  BY DEF FlowPlan, Added
<1> HIDE DEF amounts, those
<1> QED
  BY <1>2, <1>3, <1>4, SetFold, SumIsNat

(* The noise that is sampled for the pools of a period.                    *)
LEMMA SampledType ==
  ASSUME NEW n \in Sampled, NEW k \in Tokens
  PROVE  n[k].E \in Nat /\ n[k].B \in Nat
<1>1. Noise[k] \in [E: SUBSET Nat, B: SUBSET Nat]
  BY EngineAssumption
<1>2. n[k].E \in Noise[k].E /\ n[k].B \in Noise[k].B
  BY DEF Sampled
<1> QED
  BY <1>1, <1>2

------------------------------------------------------------------------------
(* The first state.                                                        *)

LEMMA InitAmounts == ASSUME Init PROVE Amounts /\ CapHolds /\ BaselineIsTheRules
<1>1. StartSupply \in [Tokens -> Nat] /\ Primary \in Tokens /\ StateShare \in Nat \ {0} /\ NoCap \notin Nat
      /\ RegimeRates \subseteq Nat
  BY EngineAssumption
<1>2. M = StartSupply /\ opened = StartSupply /\ M \in [Tokens -> Nat] /\ opened \in [Tokens -> Nat]
  BY <1>1 DEF Init
<1>3. cap \in [Tokens -> Nat \cup {NoCap}] /\ \A k \in Tokens : cap[k] # NoCap => M[k] <= cap[k]
  <2>1. cap \in SampledCaps
    BY DEF Init
  <2>2. DOMAIN cap = Tokens /\ cap = [k \in Tokens |-> cap[k]]
    BY <2>1 DEF SampledCaps
  <2>3. ASSUME NEW k \in Tokens
        PROVE  cap[k] \in Nat \cup {NoCap} /\ (cap[k] # NoCap => M[k] <= cap[k])
    <3>1. Caps[k] \subseteq Nat /\ \A c \in Caps[k] : StartSupply[k] <= c
      BY EngineAssumption
    <3>2. IF Caps[k] = {} THEN cap[k] = NoCap ELSE cap[k] \in Caps[k]
      BY <2>1 DEF SampledCaps
    <3> QED
      BY <3>1, <3>2, <1>2
  <2> QED
    BY <2>2, <2>3
<1>4. fixed \in [Tokens -> Sides]
  <2>1. SampledRates
    BY DEF Init
  <2>2. PICK e \in [Tokens -> UNION {Rates[k].E : k \in Tokens}], b \in [Tokens -> UNION {Rates[k].B : k \in Tokens}] :
          /\ \A k \in Tokens : e[k] \in Rates[k].E /\ b[k] \in Rates[k].B
          /\ fixed = [k \in Tokens |-> [E |-> e[k] + FlowPlan(k, TRUE), B |-> b[k] + FlowPlan(k, FALSE)]]
    BY <2>1 DEF SampledRates
  <2>3. ASSUME NEW k \in Tokens
        PROVE  [E |-> e[k] + FlowPlan(k, TRUE), B |-> b[k] + FlowPlan(k, FALSE)] \in Sides
    <3>1. Rates[k] \in [E: SUBSET Nat, B: SUBSET Nat]
      BY EngineAssumption
    <3>2. e[k] \in Nat /\ b[k] \in Nat
      BY <2>2, <3>1
    <3>3. FlowPlan(k, TRUE) \in Nat /\ FlowPlan(k, FALSE) \in Nat
      BY FlowPlanType
    <3> DEFINE u == FlowPlan(k, TRUE)
               v == FlowPlan(k, FALSE)
    <3>4. u \in Nat /\ v \in Nat
      BY <3>3
    <3> HIDE DEF u, v
    <3>5. [E |-> e[k] + u, B |-> b[k] + v] \in Sides
      BY <3>2, <3>4 DEF Sides
    <3> QED
      BY <3>5 DEF u, v
  <2> QED
    BY <2>2, <2>3
<1>5. part \in [regime: Nat, state: Nat]
  <2>1. PICK r \in RegimeRates \cup {0} :
          part = [regime |-> r, state |-> StartSupply[Primary] \div StateShare]
    BY DEF Init
  <2>2. StartSupply[Primary] \div StateShare \in Nat
    BY <1>1
  <2> QED
    BY <1>1, <2>1, <2>2
<1>6. base = [fixed EXCEPT ![Primary] = [E |-> @.E + part.regime, B |-> @.B + part.state]] /\ rate = base
  BY DEF Init
<1>7. base \in [Tokens -> Sides] /\ BaselineIsTheRules
  BY <1>1, <1>4, <1>5, <1>6 DEF Sides, BaselineIsTheRules
<1>8. pool \in [Tokens -> Sides] /\ share \in Sides
  BY DEF Init, Sides, Zero
<1> QED
  BY <1>2, <1>3, <1>4, <1>5, <1>6, <1>7, <1>8 DEF Amounts, CapHolds

LEMMA InitOthers == ASSUME Init PROVE Clock /\ People /\ StakersRest /\ todo = {}
<1>1. Clock /\ StakersRest
  <2>1. regime \in BOOLEAN
    BY Zenon DEF Init
  <2>2. period \in Nat /\ stage = "ready" /\ flow \in Nat \ {0}
    BY DEF Init
  <2>3. queue \in Seq(1..Len(Population)) /\ fired \subseteq 1..Len(Population)
    BY DEF Init
  <2> QED
    BY <2>1, <2>2, <2>3 DEF Clock, StakersRest
<1>2. agents = FirstAgents /\ past = FirstAgents /\ todo = {} /\ votes = {}
      /\ agents \subseteq Ids /\ past \subseteq Ids
  BY FirstAgentsType DEF Init, FirstPeople
<1>3. kind \in [Ids -> Types] /\ until \in [Ids -> Nat] /\ balance \in [Ids -> Nat]
  <2>1. StartBalance \in Nat
    BY EngineAssumption
  <2> QED
    BY <2>1, FirstAgentsType DEF Init, FirstPeople
<1>4. delegate \in [Ids -> Ids] /\ choice \in [Ids -> Actions]
  BY AssignmentsType DEF Init, FirstPeople, Actions
<1> QED
  BY <1>1, <1>2, <1>3, <1>4 DEF People

------------------------------------------------------------------------------
(* Steps.                                                                  *)

(* Only while the agents act are there some that have not.                 *)
Asleep == stage # "act" => todo = {}

IInv == Clock /\ Amounts /\ People /\ CapHolds /\ BaselineIsTheRules /\ StakersRest /\ Asleep

SafeStakes ==
  \A a \in agents : (Locked(a) /\ stage # "people" /\ a \in agents') => balance'[a] >= balance[a]

(* Where the agents, or the plan, stay as they are.                        *)
LEMMA SamePlan ==
  ASSUME BaselineIsTheRules, UNCHANGED <<plans>>
  PROVE  BaselineIsTheRules'
  BY DEF BaselineIsTheRules, plans

LEMMA BeginPlan ==
  ASSUME IInv, Begin
  PROVE  base' \in [Tokens -> Sides] /\ part' \in [regime: Nat, state: Nat] /\ BaselineIsTheRules'
<1>1. /\ base \in [Tokens -> Sides] /\ fixed \in [Tokens -> Sides] /\ M \in [Tokens -> Nat]
      /\ part \in [regime: Nat, state: Nat] /\ Primary \in Tokens
      /\ StateShare \in Nat \ {0} /\ RegimeRates \subseteq Nat
  BY EngineAssumption DEF IInv, Amounts
<1>2. PICK r \in (IF RegimeStarts THEN RegimeRates ELSE {part.regime}) :
        LET now == [regime |-> r, state |-> M[Primary] \div StateShare] IN
          /\ part' = now
          /\ base' = [base EXCEPT ![Primary] = [E |-> Patch(part.regime, now.regime, @.E),
                                               B |-> Patch(part.state, now.state, @.B)]]
  BY DEF Begin
<1>3. r \in Nat
  BY <1>1, <1>2
<1> DEFINE u == M[Primary] \div StateShare
<1>4. u \in Nat
  BY <1>1
<1>5. /\ part' = [regime |-> r, state |-> u]
      /\ base' = [base EXCEPT ![Primary] = [E |-> Patch(part.regime, r, base[Primary].E),
                                           B |-> Patch(part.state, u, base[Primary].B)]]
  BY <1>1, <1>2
<1> HIDE DEF u
<1>6. fixed' = fixed
  BY DEF Begin
<1>7. base[Primary] = [E |-> fixed[Primary].E + part.regime, B |-> fixed[Primary].B + part.state]
      /\ \A k \in Tokens \ {Primary} : base[k] = fixed[k]
  BY <1>1 DEF IInv, BaselineIsTheRules
<1>8. /\ Patch(part.regime, r, base[Primary].E) = fixed[Primary].E + r
      /\ Patch(part.state, u, base[Primary].B) = fixed[Primary].B + u
  BY <1>1, <1>3, <1>4, <1>7 DEF Patch, Less, Sides
<1>9. base' = [base EXCEPT ![Primary] = [E |-> fixed[Primary].E + r, B |-> fixed[Primary].B + u]]
  BY <1>5, <1>8
<1>10. base' \in [Tokens -> Sides] /\ part' \in [regime: Nat, state: Nat]
  BY <1>1, <1>3, <1>4, <1>5, <1>9 DEF Sides
<1>11. BaselineIsTheRules'
  BY <1>1, <1>5, <1>6, <1>7, <1>9 DEF BaselineIsTheRules
<1> QED
  BY <1>10, <1>11

LEMMA BeginStep == ASSUME IInv, Begin PROVE IInv' /\ SafeStakes
<1>1. /\ M' = M /\ rate' = rate /\ cap' = cap /\ fixed' = fixed /\ pool' = pool /\ share' = share
      /\ opened' = M /\ UNCHANGED people /\ choice' = choice /\ todo' = todo /\ votes' = votes
      /\ stage' = "people" /\ period' = period + 1 /\ flow' = flow
  BY DEF Begin
<1>2. Amounts' /\ CapHolds'
  BY <1>1, BeginPlan DEF IInv, Amounts, CapHolds
<1>3. People'
  BY <1>1 DEF IInv, People, people
<1>4. Clock'
  <2>1. regime' \in BOOLEAN
    BY Zenon DEF Begin, IInv, Clock
  <2>2. queue' \in Seq(1..Len(Population))
    BY OrdersType DEF Begin
  <2>3. fired' \subseteq 1..Len(Population)
    BY DEF Begin, IInv, Clock, Fires
  <2> QED
    BY <1>1, <2>1, <2>2, <2>3 DEF IInv, Clock
<1>5. StakersRest' /\ Asleep' /\ SafeStakes
  BY <1>1 DEF Begin, IInv, StakersRest, Asleep, SafeStakes, people, People
<1> QED
  BY <1>2, <1>3, <1>4, <1>5, BeginPlan DEF IInv

(* Those who leave take what they hold with them.                          *)
LEMMA WithoutType ==
  ASSUME IInv, NEW gone, Without(gone)
  PROVE  /\ agents' \subseteq Ids /\ balance' \in [Ids -> Nat]
         /\ kind' = kind /\ until' = until /\ past' = past
         /\ \A a \in agents' : a \in agents /\ balance'[a] = balance[a]
  BY DEF IInv, People, Without

(* Those who arrive.                                                       *)
LEMMA SpawnType ==
  ASSUME IInv, NEW n \in 1..Len(Population), Spawn(Population[n])
  PROVE  /\ agents' \subseteq Ids /\ past' \subseteq Ids /\ kind' \in [Ids -> Types]
         /\ until' \in [Ids -> Nat] /\ balance' \in [Ids -> Nat]
<1> DEFINE next == IF agents = {} THEN 0 ELSE Max(agents) + 1
           new  == next..(next + Population[n].count - 1)
<1>1. /\ new \subseteq Ids /\ agents' = agents \cup new /\ past' = past \cup new
      /\ kind' = [a \in Ids |-> IF a \in new THEN Population[n].type ELSE kind[a]]
      /\ balance' = [a \in Ids |-> IF a \in new THEN Population[n].balance ELSE balance[a]]
      /\ until' = [a \in Ids |-> IF a \in new THEN 0 ELSE until[a]]
  BY DEF Spawn
<1> HIDE DEF new
<1>2. agents' \subseteq Ids /\ past' \subseteq Ids
  BY <1>1 DEF IInv, People
<1>3. kind' \in [Ids -> Types] /\ until' \in [Ids -> Nat] /\ balance' \in [Ids -> Nat]
  BY <1>1, EventType DEF IInv, People
<1> QED
  BY <1>2, <1>3

LEMMA EventStep == ASSUME IInv, Event PROVE IInv' /\ SafeStakes
<1> DEFINE n == Head(queue)
<1>1. n \in 1..Len(Population) /\ Tail(queue) \in Seq(1..Len(Population))
  BY DEF Event, IInv, Clock
<1>2. /\ M' = M /\ rate' = rate /\ UNCHANGED plans /\ pool' = pool /\ share' = share
      /\ opened' = opened /\ choice' = choice /\ todo' = todo /\ votes' = votes
      /\ stage' = "people" /\ stage = "people" /\ period' = period /\ flow' = flow /\ fired' = fired
      /\ queue' = Tail(queue)
  BY DEF Event
<1>3. Amounts' /\ CapHolds' /\ BaselineIsTheRules'
  BY <1>2, SamePlan DEF IInv, Amounts, CapHolds, plans
<1>4. delegate' \in [Ids -> Ids]
  BY AssignmentsType DEF Event
<1>5. agents' \subseteq Ids /\ past' \subseteq Ids /\ kind' \in [Ids -> Types] /\ until' \in [Ids -> Nat]
      /\ balance' \in [Ids -> Nat]
  <2>1. CASE Population[n].kind = "spawn"
    <3>1. Spawn(Population[n])
      BY <2>1 DEF Event
    <3> QED
      BY <3>1, <1>1, SpawnType
  <2>2. CASE Population[n].kind # "spawn"
    <3>1. Without(Poorest(Population[n]))
      BY <2>2 DEF Event
    <3> QED
      BY <3>1, WithoutType DEF IInv, People
  <2> QED
    BY <2>1, <2>2
<1>6. Clock'
  <2>1. regime' \in BOOLEAN
    BY <1>2, Zenon DEF IInv, Clock, plans
  <2> QED
    BY <2>1, <1>1, <1>2 DEF IInv, Clock
<1>7. StakersRest' /\ SafeStakes
  BY <1>2 DEF StakersRest, SafeStakes
<1>8. People'
  <2>1. todo = {}
    BY <1>2 DEF IInv, Asleep
  <2> QED
    BY <2>1, <1>2, <1>4, <1>5 DEF IInv, People
<1> QED
  BY <1>2, <1>3, <1>6, <1>7, <1>8 DEF IInv, Asleep

(* What an agent chooses for a period: nothing else while its stake runs.  *)
LEMMA ChoiceType ==
  ASSUME IInv, NEW a \in agents, NEW x \in MayChoose(a)
  PROVE  x \in Actions /\ (Locked(a) => x = "hold")
<1>1. kind[a] \in Types /\ "hold" \in Actions
  BY DEF IInv, People, Actions
<1> QED
  BY <1>1, ActionSetType DEF MayChoose

(* The pools of a period: what the rules plan, and the noise.              *)
LEMMA PoolType ==
  ASSUME IInv, NEW n \in Sampled
  PROVE  [k \in Tokens |-> [E |-> base[k].E + n[k].E, B |-> base[k].B + n[k].B]] \in [Tokens -> Sides]
<1>1. ASSUME NEW k \in Tokens
      PROVE  [E |-> base[k].E + n[k].E, B |-> base[k].B + n[k].B] \in Sides
  <2>1. base[k] \in Sides
    BY DEF IInv, Amounts
  <2>2. n[k].E \in Nat /\ n[k].B \in Nat
    BY SampledType
  <2> QED
    BY <2>1, <2>2 DEF Sides
<1> QED
  BY <1>1

LEMMA DecideStep == ASSUME IInv, Decide PROVE IInv' /\ SafeStakes
<1>1. /\ stage = "people" /\ stage' = "act" /\ todo' = agents /\ rate' = [k \in Tokens |-> Zero]
      /\ UNCHANGED <<period, M, plans, people, fired, queue, flow, opened, votes>>
  BY DEF Decide
<1>2. pool' \in [Tokens -> Sides]
  BY PoolType DEF Decide
<1>3. PICK c \in [agents -> Actions] :
        /\ \A a \in agents : c[a] \in MayChoose(a)
        /\ choice' = [a \in Ids |-> IF a \in agents THEN c[a] ELSE "hold"]
        /\ share' = [E |-> Each(pool'[Primary].E, Doing("earn", c)),
                     B |-> Each(pool'[Primary].B, Doing("redeem", c))]
  BY DEF Decide
<1>4. share' \in Sides
  <2>1. pool'[Primary].E \in Nat /\ pool'[Primary].B \in Nat
    BY <1>2, EngineAssumption DEF Sides
  <2>2. Doing("earn", c) \subseteq Ids /\ Doing("redeem", c) \subseteq Ids
    BY DEF Doing, IInv, People
  <2>3. Each(pool'[Primary].E, Doing("earn", c)) \in Nat /\ Each(pool'[Primary].B, Doing("redeem", c)) \in Nat
    BY <2>1, <2>2, EachType
  <2> QED
    BY <1>3, <2>3 DEF Sides
<1>5. choice' \in [Ids -> Actions]
  BY <1>3 DEF Actions
<1>6. rate' \in [Tokens -> Sides]
  BY <1>1 DEF Sides, Zero
<1>7. Amounts' /\ CapHolds'
  BY <1>1, <1>2, <1>4, <1>6 DEF IInv, Amounts, CapHolds, plans
<1>8. Clock'
  <2>1. regime' \in BOOLEAN
    BY <1>1, Zenon DEF IInv, Clock, plans
  <2> QED
    BY <1>1, <2>1 DEF IInv, Clock
<1>9. People'
  BY <1>1, <1>5 DEF IInv, People, people
<1>10. StakersRest'
  <2>1. ASSUME NEW a \in agents', Locked(a)' PROVE choice'[a] = "hold"
    <3>1. a \in agents /\ a \in Ids /\ Locked(a)
      BY <1>1, <2>1 DEF people, Locked, IInv, People
    <3> QED
      BY <1>3, <3>1, ChoiceType
  <2> QED
    BY <2>1 DEF StakersRest
<1>11. BaselineIsTheRules' /\ Asleep' /\ SafeStakes
  BY <1>1, SamePlan DEF IInv, Asleep, SafeStakes
<1> QED
  BY <1>7, <1>8, <1>9, <1>10, <1>11 DEF IInv

LEMMA ClippedFits ==
  ASSUME IInv, NEW k \in Tokens, NEW e \in Nat, NEW b \in Nat
  PROVE  /\ Clipped(k, e, b) \in Nat /\ Less(M[k] + Clipped(k, e, b), b) \in Nat
         /\ cap[k] # NoCap => Less(M[k] + Clipped(k, e, b), b) <= cap[k]
  BY DEF IInv, Amounts, CapHolds, Clipped, Least, Less

LEMMA AggregateStep == ASSUME IInv, Aggregate PROVE IInv' /\ SafeStakes
<1>1. /\ stage = "people" /\ stage' = "ready"
      /\ UNCHANGED <<period, plans, people, fired, queue, choice, todo, pool, share, flow, opened, votes>>
      /\ M' = [k \in Tokens |-> Less(M[k] + rate'[k].E, rate'[k].B)]
  BY DEF Aggregate
<1>2. PICK n \in Sampled :
        rate' = [k \in Tokens |-> [E |-> Clipped(k, base[k].E + n[k].E, base[k].B + n[k].B),
                                  B |-> base[k].B + n[k].B]]
  BY DEF Aggregate
<1>3. ASSUME NEW k \in Tokens
      PROVE  /\ rate'[k] \in Sides /\ M'[k] \in Nat
             /\ cap[k] # NoCap => M'[k] <= cap[k]
  <2> DEFINE e == base[k].E + n[k].E
             b == base[k].B + n[k].B
  <2>1. e \in Nat /\ b \in Nat
    BY SampledType DEF IInv, Amounts, Sides
  <2>2. rate'[k] = [E |-> Clipped(k, e, b), B |-> b]
    BY <1>2
  <2> HIDE DEF e, b
  <2>3. M'[k] = Less(M[k] + Clipped(k, e, b), b)
    BY <1>1, <2>2
  <2>4. Clipped(k, e, b) \in Nat
    BY <2>1, ClippedFits
  <2>5. rate'[k] \in Sides
    BY <2>1, <2>2, <2>4 DEF Sides
  <2> QED
    BY <2>1, <2>3, <2>5, ClippedFits
<1>4. rate' \in [Tokens -> Sides]
  BY <1>2, <1>3
<1>5. M' \in [Tokens -> Nat]
  BY <1>1, <1>3
<1>6. Amounts' /\ CapHolds'
  BY <1>1, <1>3, <1>4, <1>5 DEF IInv, Amounts, CapHolds, plans
<1>7. Clock'
  <2>1. regime' \in BOOLEAN
    BY <1>1, Zenon DEF IInv, Clock, plans
  <2> QED
    BY <1>1, <2>1 DEF IInv, Clock
<1>8. People'
  BY <1>1 DEF IInv, People, people
<1>9. BaselineIsTheRules' /\ Asleep' /\ SafeStakes /\ StakersRest'
  BY <1>1, SamePlan DEF IInv, Asleep, SafeStakes, StakersRest
<1> QED
  BY <1>6, <1>7, <1>8, <1>9 DEF IInv

------------------------------------------------------------------------------
(* The agents act.                                                         *)

LEMMA TurnFrame ==
  ASSUME IInv, NEW a \in Ids, NEW act, Turn(a, act)
  PROVE  /\ a \in agents /\ choice[a] = act /\ (Locked(a) => act \in {"hold", "stake"})
         /\ stage = "act" /\ stage' = "act" /\ todo' \subseteq agents
         /\ UNCHANGED <<plans, agents, kind, delegate, past, choice, pool, share, opened>>
         /\ Clock'
<1>1. /\ stage = "act" /\ a \in todo /\ choice[a] = act /\ todo' = todo \ {a}
      /\ UNCHANGED <<period, stage, plans, agents, kind, delegate, past, fired, queue, choice,
                     pool, share, flow, opened>>
  BY DEF Turn
<1>2. a \in agents /\ todo' \subseteq agents
  BY <1>1 DEF IInv, People
<1>3. Locked(a) => act \in {"hold", "stake"}
  BY <1>1, <1>2 DEF IInv, StakersRest
<1>4. regime' \in BOOLEAN
  BY <1>1, Zenon DEF IInv, Clock, plans
<1>5. Clock'
  BY <1>1, <1>4 DEF IInv, Clock
<1> QED
  BY <1>1, <1>2, <1>3, <1>5

(* What is left to show of a turn: types, the cap, and that the balance of *)
(* one whose stake runs does not fall.                                     *)
LEMMA TurnStep ==
  ASSUME IInv, NEW a \in Ids, NEW act, Turn(a, act),
         balance' \in [Ids -> Nat], until' \in [Ids -> Nat], votes' \subseteq Ids,
         M' \in [Tokens -> Nat], rate' \in [Tokens -> Sides],
         \A k \in Tokens : cap[k] # NoCap => M'[k] <= cap[k],
         \A b \in agents : Locked(b) => balance'[b] >= balance[b],
         \A b \in agents : until'[b] = until[b] \/ choice[b] = "stake"
  PROVE  IInv' /\ SafeStakes
<1>1. /\ stage = "act" /\ stage' = "act" /\ todo' \subseteq agents /\ Clock'
      /\ UNCHANGED <<plans, agents, kind, delegate, past, choice, pool, share, opened>>
  BY TurnFrame
<1>2. period' = period
  BY DEF Turn
<1>3. Amounts' /\ CapHolds'
  BY <1>1 DEF IInv, Amounts, CapHolds, plans
<1>4. People'
  BY <1>1 DEF IInv, People
<1>5. StakersRest'
  <2>1. ASSUME NEW b \in agents, Locked(b)' PROVE choice[b] \in {"hold", "stake"}
    <3>1. until'[b] > period
      BY <2>1, <1>2 DEF Locked
    <3> QED
      BY <3>1, <1>1 DEF IInv, StakersRest, Locked
  <2> QED
    BY <2>1, <1>1 DEF StakersRest
<1>6. BaselineIsTheRules' /\ Asleep' /\ SafeStakes
  BY <1>1, SamePlan DEF IInv, Asleep, SafeStakes
<1> QED
  BY <1>1, <1>3, <1>4, <1>5, <1>6 DEF IInv

(* The facts that every turn starts from.                                  *)
LEMMA TurnFacts ==
  ASSUME IInv
  PROVE  /\ balance \in [Ids -> Nat] /\ until \in [Ids -> Nat] /\ votes \subseteq Ids /\ agents \subseteq Ids
         /\ M \in [Tokens -> Nat] /\ rate \in [Tokens -> Sides] /\ Primary \in Tokens
         /\ cap \in [Tokens -> Nat \cup {NoCap}] /\ NoCap \notin Nat
         /\ \A k \in Tokens : cap[k] # NoCap => M[k] <= cap[k]
         /\ share.E \in Nat /\ share.B \in Nat /\ period \in Nat
         /\ \A k \in Tokens : pool[k].B \in Nat /\ rate[k].B \in Nat /\ rate[k].E \in Nat
  BY EngineAssumption DEF IInv, People, Amounts, CapHolds, Sides, Clock

LEMMA HoldStep == ASSUME IInv, NEW a \in Ids, Hold(a) PROVE IInv' /\ SafeStakes
<1>1. Turn(a, "hold") /\ UNCHANGED <<M, rate, balance, until, votes>>
  BY DEF Hold
<1>2. \A b \in agents : balance'[b] >= balance[b]
  BY <1>1, TurnFacts
<1> QED
  BY <1>1, <1>2, TurnFacts, TurnStep

LEMMA EarnStep == ASSUME IInv, NEW a \in Ids, Earn(a) PROVE IInv' /\ SafeStakes
<1> DEFINE n == Room(Primary, share.E)
<1>1. /\ Turn(a, "earn") /\ UNCHANGED <<until, votes>>
      /\ balance' = [balance EXCEPT ![a] = @ + n]
      /\ M' = [M EXCEPT ![Primary] = @ + n]
      /\ rate' = [rate EXCEPT ![Primary].E = @ + n]
  BY DEF Earn, Created
<1>2. n \in Nat /\ (cap[Primary] # NoCap => M[Primary] + n <= cap[Primary])
  BY TurnFacts, RoomFits DEF IInv
<1> HIDE DEF n
<1>3. balance' \in [Ids -> Nat] /\ \A b \in agents : balance'[b] >= balance[b]
  BY <1>1, <1>2, TurnFacts
<1>4. M' \in [Tokens -> Nat] /\ \A k \in Tokens : cap[k] # NoCap => M'[k] <= cap[k]
  BY <1>1, <1>2, TurnFacts
<1>5. rate' \in [Tokens -> Sides]
  BY <1>1, <1>2, TurnFacts DEF Sides
<1> QED
  BY <1>1, <1>3, <1>4, <1>5, TurnFacts, TurnStep

LEMMA TransferStep == ASSUME IInv, NEW a \in Ids, Transfer(a) PROVE IInv' /\ SafeStakes
<1>1. Turn(a, "transfer") /\ UNCHANGED <<M, rate, until, votes>>
  BY DEF Transfer
<1>2. a \in agents /\ ~Locked(a)
  BY <1>1, TurnFrame
<1>3. balance' \in [Ids -> Nat] /\ \A b \in agents : Locked(b) => balance'[b] >= balance[b]
  <2>1. CASE UNCHANGED balance
    BY <2>1, TurnFacts
  <2>2. CASE ~UNCHANGED balance
    <3>1. PICK c \in Peers(a), n \in 1..balance[a] :
            balance' = [balance EXCEPT ![a] = @ - n, ![c] = @ + n]
      BY <2>2 DEF Transfer
    <3>2. c \in agents /\ c # a
      BY DEF Peers
    <3> QED
      BY <3>1, <3>2, <1>2, TurnFacts
  <2> QED
    BY <2>1, <2>2
<1> QED
  BY <1>1, <1>3, TurnFacts, TurnStep

LEMMA RedeemStep == ASSUME IInv, NEW a \in Ids, Redeem(a) PROVE IInv' /\ SafeStakes
<1> DEFINE n == Least(share.B, balance[a])
<1>1. /\ Turn(a, "redeem") /\ UNCHANGED <<until, votes>>
      /\ balance' = [balance EXCEPT ![a] = @ - n]
      /\ M' = [M EXCEPT ![Primary] = Less(@, n)]
      /\ rate' = [rate EXCEPT ![Primary].B = @ + n]
  BY DEF Redeem, Removed
<1>2. n \in Nat /\ n <= balance[a] /\ Less(M[Primary], n) \in Nat /\ Less(M[Primary], n) <= M[Primary]
  BY TurnFacts DEF Least, Less
<1>3. a \in agents /\ ~Locked(a)
  BY <1>1, TurnFrame
<1> HIDE DEF n
<1>4. balance' \in [Ids -> Nat] /\ \A b \in agents : Locked(b) => balance'[b] >= balance[b]
  BY <1>1, <1>2, <1>3, TurnFacts
<1>5. M' \in [Tokens -> Nat] /\ \A k \in Tokens : cap[k] # NoCap => M'[k] <= cap[k]
  BY <1>1, <1>2, TurnFacts
<1>6. rate' \in [Tokens -> Sides]
  BY <1>1, <1>2, TurnFacts DEF Sides
<1> QED
  BY <1>1, <1>4, <1>5, <1>6, TurnFacts, TurnStep

LEMMA StakeStep == ASSUME IInv, NEW a \in Ids, Stake(a) PROVE IInv' /\ SafeStakes
<1>1. /\ Turn(a, "stake") /\ UNCHANGED <<M, rate, balance, votes>>
      /\ until' = [until EXCEPT ![a] = period + StakeFor]
  BY DEF Stake
<1>2. choice[a] = "stake"
  BY <1>1, TurnFrame
<1>3. until' \in [Ids -> Nat] /\ \A b \in agents : until'[b] = until[b] \/ choice[b] = "stake"
  <2>1. StakeFor \in Nat
    BY EngineAssumption
  <2> QED
    BY <1>1, <1>2, <2>1, TurnFacts
<1>4. \A b \in agents : balance'[b] >= balance[b]
  BY <1>1, TurnFacts
<1> QED
  BY <1>1, <1>3, <1>4, TurnFacts, TurnStep

LEMMA VoteStep == ASSUME IInv, NEW a \in Ids, Vote(a) PROVE IInv' /\ SafeStakes
<1>1. /\ Turn(a, "vote") /\ UNCHANGED <<M, rate, balance, until>>
      /\ votes' = votes \cup {delegate[a]}
  BY DEF Vote
<1>2. votes' \subseteq Ids /\ \A b \in agents : balance'[b] >= balance[b]
  BY <1>1, TurnFacts DEF IInv, People
<1> QED
  BY <1>1, <1>2, TurnFacts, TurnStep

------------------------------------------------------------------------------
(* After the turns.                                                        *)

LEMMA RestStep == ASSUME IInv, Rest PROVE IInv' /\ SafeStakes
<1>1. /\ stage = "act" /\ todo = {} /\ flow' = 1 /\ stage' = "flows"
      /\ UNCHANGED <<period, plans, agents, kind, until, delegate, past, fired, queue, choice, todo,
                     pool, share, opened, votes>>
  BY DEF Rest
<1> PICK paid \in 0..Less(pool[Primary].B, rate[Primary].B) :
      \E f \in Splits(paid, Redeemers) :
        Removed([a \in Ids |-> IF a \in Redeemers THEN balance[a] - f[a] ELSE balance[a]], paid)
  BY DEF Rest
<1>2. PICK f \in Splits(paid, Redeemers) :
        Removed([a \in Ids |-> IF a \in Redeemers THEN balance[a] - f[a] ELSE balance[a]], paid)
  OBVIOUS
<1>3. /\ balance' = [a \in Ids |-> IF a \in Redeemers THEN balance[a] - f[a] ELSE balance[a]]
      /\ M' = [M EXCEPT ![Primary] = Less(@, paid)]
      /\ rate' = [rate EXCEPT ![Primary].B = @ + paid]
  BY <1>2 DEF Removed
<1>4. paid \in Nat
  <2>1. Less(pool[Primary].B, rate[Primary].B) \in Nat
    BY TurnFacts, LessType
  <2> QED
    BY <2>1
<1>5. \A a \in Redeemers : f[a] \in 0..paid /\ f[a] <= balance[a]
  BY DEF Splits
<1>6. \A a \in Redeemers : a \in agents /\ ~Locked(a)
  BY <1>1 DEF Redeemers, Doing, IInv, StakersRest
<1>7. balance' \in [Ids -> Nat] /\ \A a \in agents : Locked(a) => balance'[a] >= balance[a]
  BY <1>3, <1>4, <1>5, <1>6, TurnFacts
<1>8. Less(M[Primary], paid) \in Nat /\ Less(M[Primary], paid) <= M[Primary]
  BY <1>4, TurnFacts, LessType
<1>9. M' \in [Tokens -> Nat] /\ \A k \in Tokens : cap[k] # NoCap => M'[k] <= cap[k]
  BY <1>3, <1>8, TurnFacts
<1>10. rate' \in [Tokens -> Sides]
  BY <1>3, <1>4, TurnFacts DEF Sides
<1>11. Amounts' /\ CapHolds'
  BY <1>1, <1>9, <1>10 DEF IInv, Amounts, CapHolds, plans
<1>12. Clock'
  <2>1. regime' \in BOOLEAN
    BY <1>1, Zenon DEF IInv, Clock, plans
  <2> QED
    BY <1>1, <2>1 DEF IInv, Clock
<1>13. People'
  BY <1>1, <1>7 DEF IInv, People
<1>14. StakersRest'
  BY <1>1 DEF IInv, StakersRest, Locked
<1>15. BaselineIsTheRules' /\ Asleep' /\ SafeStakes
  BY <1>1, <1>7, SamePlan DEF IInv, Asleep, SafeStakes
<1> QED
  BY <1>11, <1>12, <1>13, <1>14, <1>15 DEF IInv

LEMMA FlowStep == ASSUME IInv, Flow PROVE IInv' /\ SafeStakes
<1> DEFINE k == Flows[flow].tgt
           n == rate[Flows[flow].src].B * Flows[flow].amount
           more == Room(k, n)
           gone == Least(n, M[k])
<1>1. /\ stage = "flows" /\ flow <= Len(Flows) /\ flow' = flow + 1
      /\ UNCHANGED <<period, stage, plans, people, fired, queue, choice, todo, pool, share, opened, votes>>
      /\ IF Flows[flow].mint
         THEN /\ M' = [M EXCEPT ![k] = @ + more]
              /\ rate' = [rate EXCEPT ![k].E = @ + more]
         ELSE /\ M' = [M EXCEPT ![k] = Less(@, gone)]
              /\ rate' = [rate EXCEPT ![k].B = @ + gone]
  BY DEF Flow
<1>2. k \in Tokens /\ n \in Nat
  <2>1. Flows[flow].src \in Tokens /\ k \in Tokens /\ Flows[flow].amount \in Nat
    BY <1>1, FlowType DEF IInv, Clock
  <2>2. rate[Flows[flow].src].B \in Nat
    BY <2>1, TurnFacts
  <2> QED
    BY <2>1, <2>2
<1> HIDE DEF k, n
<1>3. more \in Nat /\ (cap[k] # NoCap => M[k] + more <= cap[k])
  BY <1>2, RoomFits DEF IInv
<1>4. gone \in Nat /\ Less(M[k], gone) \in Nat /\ Less(M[k], gone) <= M[k]
  BY <1>2, TurnFacts DEF Least, Less
<1> HIDE DEF more, gone
<1>5. /\ M' \in [Tokens -> Nat] /\ rate' \in [Tokens -> Sides]
      /\ \A j \in Tokens : cap[j] # NoCap => M'[j] <= cap[j]
  <2>1. CASE Flows[flow].mint
    <3>1. M' = [M EXCEPT ![k] = @ + more] /\ rate' = [rate EXCEPT ![k].E = @ + more]
      BY <2>1, <1>1
    <3>2. rate' \in [Tokens -> Sides]
      BY <3>1, <1>2, <1>3, TurnFacts DEF Sides
    <3> QED
      BY <3>1, <3>2, <1>2, <1>3, TurnFacts
  <2>2. CASE ~Flows[flow].mint
    <3>1. M' = [M EXCEPT ![k] = Less(@, gone)] /\ rate' = [rate EXCEPT ![k].B = @ + gone]
      BY <2>2, <1>1
    <3>2. rate' \in [Tokens -> Sides]
      BY <3>1, <1>2, <1>4, TurnFacts DEF Sides
    <3> QED
      BY <3>1, <3>2, <1>2, <1>4, TurnFacts
  <2> QED
    BY <2>1, <2>2
<1>6. Amounts' /\ CapHolds'
  BY <1>1, <1>5 DEF IInv, Amounts, CapHolds, plans
<1>7. Clock'
  <2>1. regime' \in BOOLEAN
    BY <1>1, Zenon DEF IInv, Clock, plans
  <2> QED
    BY <1>1, <2>1 DEF IInv, Clock
<1>8. People'
  BY <1>1 DEF IInv, People, people
<1>9. StakersRest' /\ SafeStakes
  BY <1>1, TurnFacts DEF IInv, StakersRest, Locked, SafeStakes, people
<1>10. BaselineIsTheRules' /\ Asleep'
  BY <1>1, SamePlan DEF IInv, Asleep
<1> QED
  BY <1>6, <1>7, <1>8, <1>9, <1>10 DEF IInv

LEMMA CloseStep == ASSUME IInv, Close PROVE IInv' /\ SafeStakes
<1>1. /\ stage = "flows" /\ stage' = "ready"
      /\ UNCHANGED <<period, M, rate, plans, delegate, fired, queue, choice, todo, pool, share, flow,
                     opened, votes>>
  BY DEF Close
<1>2. PICK gone \in SUBSET {a \in agents : MayLeave(a)} : Without(gone)
  BY DEF Close
<1>3. /\ agents' \subseteq Ids /\ balance' \in [Ids -> Nat]
      /\ kind' = kind /\ until' = until /\ past' = past
      /\ \A a \in agents' : a \in agents /\ balance'[a] = balance[a]
  BY <1>2, WithoutType
<1>4. Amounts' /\ CapHolds'
  BY <1>1 DEF IInv, Amounts, CapHolds, plans
<1>5. Clock'
  <2>1. regime' \in BOOLEAN
    BY <1>1, Zenon DEF IInv, Clock, plans
  <2> QED
    BY <1>1, <2>1 DEF IInv, Clock
<1>6. People' /\ Asleep'
  BY <1>1, <1>3 DEF IInv, People, Asleep
<1>7. StakersRest' /\ SafeStakes
  BY <1>1, <1>3, TurnFacts DEF StakersRest, SafeStakes
<1>8. BaselineIsTheRules'
  BY <1>1, SamePlan DEF IInv
<1> QED
  BY <1>4, <1>5, <1>6, <1>7, <1>8 DEF IInv

LEMMA Stutter == ASSUME IInv, UNCHANGED vars PROVE IInv'
<1>1. Clock'
  <2>1. regime' \in BOOLEAN
    BY Zenon DEF IInv, Clock, vars, plans
  <2> QED
    BY <2>1 DEF IInv, Clock, vars, plans
<1>2. Amounts' /\ CapHolds'
  BY DEF IInv, Amounts, CapHolds, vars, plans
<1>3. People' /\ Asleep' /\ StakersRest'
  BY DEF IInv, People, Asleep, StakersRest, Locked, vars, people
<1>4. BaselineIsTheRules'
  BY SamePlan DEF IInv, vars
<1> QED
  BY <1>1, <1>2, <1>3, <1>4 DEF IInv

LEMMA NextStep == ASSUME IInv, Next PROVE IInv' /\ SafeStakes
<1>1. CASE \E a \in Ids : Hold(a) \/ Earn(a) \/ Transfer(a) \/ Redeem(a) \/ Stake(a) \/ Vote(a)
  BY <1>1, HoldStep, EarnStep, TransferStep, RedeemStep, StakeStep, VoteStep
<1>2. CASE Begin \/ Event \/ Decide \/ Aggregate \/ Rest \/ Flow \/ Close
  BY <1>2, BeginStep, EventStep, DecideStep, AggregateStep, RestStep, FlowStep, CloseStep
<1> QED
  BY <1>1, <1>2 DEF Next

LEMMA Inductive == Spec => []IInv
<1>1. Init => IInv
  BY InitAmounts, InitOthers DEF IInv, Asleep
<1>2. IInv /\ [Next]_vars => IInv'
  BY NextStep, Stutter
<1> QED
  BY <1>1, <1>2, PTL DEF Spec

------------------------------------------------------------------------------
(* The plan and what is done of it: never more, and in the end all of it,  *)
(* whatever the agents hold and wherever it came from.                     *)

LEMMA HeldIs ==
  ASSUME NEW s, s \subseteq Ids, NEW b, \A a \in s : b[a] \in Nat
  PROVE  Held(s, b) = SumOver(s, b) /\ SumOver(s, b) \in Nat
<1>1. Held(s, b) = Added(s, b)
  BY DEF Held, Added
<1> QED
  BY <1>1, SomeAgents, SetFold, SumIsNat

(* What is still to be given out of the pools: to each agent that has not  *)
(* acted its share.                                                        *)
Waiting(act) == {a \in todo : choice[a] = act}
Planned ==
  stage = "act" =>
    /\ rate[Primary].E + share.E * Cardinality(Waiting("earn")) <= pool[Primary].E
    /\ rate[Primary].B + share.B * Cardinality(Waiting("redeem")) <= pool[Primary].B
Drawn ==
  (stage = "flows" /\ flow = 1) =>
    \/ rate[Primary].B = pool[Primary].B
    \/ \A a \in Redeemers : balance[a] = 0

Schedule == IInv /\ Planned /\ Drawn

LEMMA EachFits ==
  ASSUME NEW s, s \subseteq Ids, NEW n \in Nat
  PROVE  Cardinality(s) \in Nat /\ Each(n, s) * Cardinality(s) <= n
<1>1. IsFiniteSet(s) /\ Cardinality(s) \in Nat
  BY SomeAgents, FS_CardinalityType
<1>2. CASE s = {}
  <2>1. Cardinality(s) = 0
    BY <1>2, FS_EmptySet
  <2> QED
    BY <1>2, <2>1 DEF Each
<1>3. CASE s # {}
  <2> DEFINE c == Cardinality(s)
  <2>1. c \in Nat /\ c # 0
    BY <1>1, <1>3, FS_EmptySet
  <2>2. Each(n, s) = n \div c
    BY <1>3 DEF Each
  <2> HIDE DEF c
  <2>3. (n \div c) * c <= n
    BY <2>1
  <2> QED
    BY <1>1, <2>2, <2>3 DEF c
<1> QED
  BY <1>2, <1>3

LEMMA DecidePlan == ASSUME Schedule, Decide PROVE Schedule'
<1>1. IInv'
  BY DecideStep DEF Schedule
<1>2. /\ stage = "people" /\ stage' = "act" /\ todo' = agents /\ rate' = [k \in Tokens |-> Zero]
      /\ M' = M /\ opened' = opened /\ agents' = agents /\ balance' = balance
  BY DEF Decide, people
<1>3. PICK c \in [agents -> Actions] :
        /\ choice' = [a \in Ids |-> IF a \in agents THEN c[a] ELSE "hold"]
        /\ share' = [E |-> Each(pool'[Primary].E, Doing("earn", c)),
                     B |-> Each(pool'[Primary].B, Doing("redeem", c))]
  BY DEF Decide
<1>4. Doing("earn", c) = Waiting("earn")' /\ Doing("redeem", c) = Waiting("redeem")'
  <2>1. agents \subseteq Ids
    BY DEF Schedule, IInv, People
  <2> QED
    BY <1>2, <1>3, <2>1 DEF Doing, Waiting
<1>5. Doing("earn", c) \subseteq Ids /\ Doing("redeem", c) \subseteq Ids
  BY DEF Schedule, IInv, People, Doing
<1>6. pool'[Primary].E \in Nat /\ pool'[Primary].B \in Nat
  BY <1>1, EngineAssumption DEF IInv, Amounts, Sides
<1>7. /\ share'.E * Cardinality(Doing("earn", c)) <= pool'[Primary].E
      /\ share'.B * Cardinality(Doing("redeem", c)) <= pool'[Primary].B
  <2>1. /\ Each(pool'[Primary].E, Doing("earn", c)) * Cardinality(Doing("earn", c)) <= pool'[Primary].E
        /\ Each(pool'[Primary].B, Doing("redeem", c)) * Cardinality(Doing("redeem", c)) <= pool'[Primary].B
    BY <1>5, <1>6, EachFits
  <2>2. share'.E = Each(pool'[Primary].E, Doing("earn", c)) /\ share'.B = Each(pool'[Primary].B, Doing("redeem", c))
    BY <1>3
  <2> QED
    BY <2>1, <2>2
<1>8. Planned'
  <2>1. rate'[Primary].E = 0 /\ rate'[Primary].B = 0
    BY <1>2, EngineAssumption DEF Zero
  <2> DEFINE x == share'.E * Cardinality(Doing("earn", c))
             y == share'.B * Cardinality(Doing("redeem", c))
  <2>2. x \in Nat /\ y \in Nat
    <3>1. share'.E \in Nat /\ share'.B \in Nat
      BY <1>1 DEF IInv, Amounts, Sides
    <3>2. Cardinality(Doing("earn", c)) \in Nat /\ Cardinality(Doing("redeem", c)) \in Nat
      BY <1>5, SomeAgents, FS_CardinalityType
    <3> QED
      BY <3>1, <3>2
  <2>3. x <= pool'[Primary].E /\ y <= pool'[Primary].B
    BY <1>7
  <2>4. x = share'.E * Cardinality(Waiting("earn")') /\ y = share'.B * Cardinality(Waiting("redeem")')
    BY <1>4
  <2> HIDE DEF x, y
  <2>5. rate'[Primary].E + x <= pool'[Primary].E /\ rate'[Primary].B + y <= pool'[Primary].B
    BY <1>6, <2>1, <2>2, <2>3
  <2> QED
    BY <2>4, <2>5 DEF Planned
<1> QED
  BY <1>1, <1>2, <1>8 DEF Schedule, Drawn

(* The agents act.  One fewer waits.                                       *)
LEMMA OneFewerWaits ==
  ASSUME IInv, NEW a \in Ids, NEW act, Turn(a, act)
  PROVE  \A other : /\ Cardinality(Waiting(other)) \in Nat /\ Cardinality(Waiting(other)') \in Nat
                    /\ act = other => Cardinality(Waiting(other)) = Cardinality(Waiting(other)') + 1
                    /\ act # other => Cardinality(Waiting(other)) = Cardinality(Waiting(other)')
<1> TAKE other
<1>1. a \in todo /\ choice[a] = act /\ todo' = todo \ {a} /\ choice' = choice
  BY DEF Turn
<1>2. IsFiniteSet(Waiting(other)) /\ IsFiniteSet(Waiting(other)')
  <2>1. Waiting(other) \subseteq Ids
    BY DEF Waiting, IInv, People
  <2>2. Waiting(other)' \subseteq Waiting(other)
    BY <1>1 DEF Waiting
  <2>3. Waiting(other)' \subseteq Ids
    BY <2>1, <2>2
  <2> QED
    BY <2>1, <2>3, SomeAgents
<1>3. Cardinality(Waiting(other)) \in Nat /\ Cardinality(Waiting(other)') \in Nat
  BY <1>2, FS_CardinalityType
<1>4. ASSUME act = other PROVE Cardinality(Waiting(other)) = Cardinality(Waiting(other)') + 1
  <2>1. a \in Waiting(other) /\ Waiting(other)' = Waiting(other) \ {a}
    BY <1>1, <1>4 DEF Waiting
  <2>2. Cardinality(Waiting(other) \ {a}) = Cardinality(Waiting(other)) - 1
    BY <1>2, <2>1, FS_RemoveElement
  <2> QED
    BY <1>3, <2>1, <2>2
<1>5. ASSUME act # other PROVE Cardinality(Waiting(other)) = Cardinality(Waiting(other)')
  <2>1. Waiting(other)' = Waiting(other)
    BY <1>1, <1>5 DEF Waiting
  <2> QED
    BY <2>1
<1> QED
  BY <1>3, <1>4, <1>5

(* What is left to show of a turn for the plan: what an agent gets or      *)
(* gives is at most its share.                                             *)
LEMMA TurnPlan ==
  ASSUME Schedule, IInv', NEW a \in Ids, NEW act, Turn(a, act), NEW e \in Nat, NEW b \in Nat,
         rate'[Primary].E = rate[Primary].E + e, rate'[Primary].B = rate[Primary].B + b,
         IF act = "earn" THEN e <= share.E ELSE e = 0,
         IF act = "redeem" THEN b <= share.B ELSE b = 0
  PROVE  Schedule'
<1>1. stage = "act" /\ stage' = "act" /\ UNCHANGED <<agents, pool, share, opened>>
  BY DEF Turn
<1>2. /\ share.E \in Nat /\ share.B \in Nat /\ pool[Primary].E \in Nat /\ pool[Primary].B \in Nat
      /\ rate[Primary].E \in Nat /\ rate[Primary].B \in Nat
  BY EngineAssumption DEF Schedule, IInv, Amounts, Sides
<1> DEFINE earners == Cardinality(Waiting("earn"))
           redeemers == Cardinality(Waiting("redeem"))
           earnersNext == Cardinality(Waiting("earn")')
           redeemersNext == Cardinality(Waiting("redeem")')
<1>3. /\ earners \in Nat /\ redeemers \in Nat /\ earnersNext \in Nat /\ redeemersNext \in Nat
      /\ IF act = "earn" THEN earners = earnersNext + 1 ELSE earners = earnersNext
      /\ IF act = "redeem" THEN redeemers = redeemersNext + 1 ELSE redeemers = redeemersNext
  BY OneFewerWaits DEF Schedule
<1>4. /\ rate[Primary].E + share.E * earners <= pool[Primary].E
      /\ rate[Primary].B + share.B * redeemers <= pool[Primary].B
  BY <1>1 DEF Schedule, Planned
<1> HIDE DEF earners, redeemers, earnersNext, redeemersNext
<1>5. /\ e + share.E * earnersNext <= share.E * earners
      /\ b + share.B * redeemersNext <= share.B * redeemers
  <2>1. CASE act = "earn"
    <3>1. share.E * earners = share.E * earnersNext + share.E
      BY <2>1, <1>2, <1>3
    <3> QED
      BY <2>1, <3>1, <1>2, <1>3
  <2>2. CASE act = "redeem"
    <3>1. share.B * redeemers = share.B * redeemersNext + share.B
      BY <2>2, <1>2, <1>3
    <3> QED
      BY <2>2, <3>1, <1>2, <1>3
  <2>3. CASE act \notin {"earn", "redeem"}
    BY <2>3, <1>2, <1>3
  <2> QED
    BY <2>1, <2>2, <2>3
<1>6. /\ rate'[Primary].E + share.E * earnersNext <= pool[Primary].E
      /\ rate'[Primary].B + share.B * redeemersNext <= pool[Primary].B
  <2> DEFINE u == share.E * earners
             v == share.B * redeemers
             s == share.E * earnersNext
             t == share.B * redeemersNext
  <2>1. u \in Nat /\ v \in Nat /\ s \in Nat /\ t \in Nat
    BY <1>2, <1>3
  <2>2. e + s <= u /\ b + t <= v /\ rate[Primary].E + u <= pool[Primary].E /\ rate[Primary].B + v <= pool[Primary].B
    BY <1>4, <1>5
  <2> HIDE DEF u, v, s, t
  <2>3. rate'[Primary].E + s <= pool[Primary].E /\ rate'[Primary].B + t <= pool[Primary].B
    BY <1>2, <2>1, <2>2
  <2> QED
    BY <2>3 DEF s, t
<1>7. Planned'
  BY <1>1, <1>6 DEF Planned, earnersNext, redeemersNext
<1> QED
  BY <1>1, <1>7 DEF Schedule, Drawn

LEMMA QuietPlan ==
  ASSUME Schedule, IInv', NEW a \in Ids, NEW act, Turn(a, act), act \notin {"earn", "redeem"}, rate' = rate
  PROVE  Schedule'
<1>1. rate[Primary].E \in Nat /\ rate[Primary].B \in Nat
  BY EngineAssumption DEF Schedule, IInv, Amounts, Sides
<1>2. rate'[Primary].E = rate[Primary].E + 0 /\ rate'[Primary].B = rate[Primary].B + 0
  BY <1>1
<1> QED
  BY <1>2, TurnPlan

LEMMA EarnPlan == ASSUME Schedule, NEW a \in Ids, Earn(a) PROVE Schedule'
<1>1. IInv'
  BY EarnStep DEF Schedule
<1> DEFINE n == Room(Primary, share.E)
<1>2. Turn(a, "earn") /\ rate' = [rate EXCEPT ![Primary].E = @ + n]
  BY DEF Earn, Created
<1>3. rate \in [Tokens -> Sides] /\ Primary \in Tokens /\ rate[Primary].B \in Nat /\ share.E \in Nat
  BY EngineAssumption DEF Schedule, IInv, Amounts, Sides
<1>4. n \in Nat /\ n <= share.E
  BY <1>3, RoomFits DEF Schedule, IInv
<1> HIDE DEF n
<1>5. rate'[Primary].E = rate[Primary].E + n /\ rate'[Primary].B = rate[Primary].B + 0
  BY <1>2, <1>3 DEF Sides
<1> QED
  BY <1>1, <1>2, <1>4, <1>5, TurnPlan

LEMMA RedeemPlan == ASSUME Schedule, NEW a \in Ids, Redeem(a) PROVE Schedule'
<1>1. IInv'
  BY RedeemStep DEF Schedule
<1> DEFINE n == Least(share.B, balance[a])
<1>2. Turn(a, "redeem") /\ rate' = [rate EXCEPT ![Primary].B = @ + n]
  BY DEF Redeem, Removed
<1>3. rate \in [Tokens -> Sides] /\ Primary \in Tokens /\ rate[Primary].E \in Nat /\ share.B \in Nat
      /\ balance[a] \in Nat
  BY EngineAssumption DEF Schedule, IInv, Amounts, People, Sides
<1>4. n \in Nat /\ n <= share.B
  BY <1>3 DEF Least
<1> HIDE DEF n
<1>5. rate'[Primary].B = rate[Primary].B + n /\ rate'[Primary].E = rate[Primary].E + 0
  BY <1>2, <1>3 DEF Sides
<1> QED
  BY <1>1, <1>2, <1>4, <1>5, TurnPlan

LEMMA OthersPlan ==
  ASSUME Schedule, NEW a \in Ids, Hold(a) \/ Transfer(a) \/ Stake(a) \/ Vote(a)
  PROVE  Schedule'
<1>1. IInv'
  BY HoldStep, TransferStep, StakeStep, VoteStep DEF Schedule
<1>2. rate' = rate /\ \E act \in {"hold", "transfer", "stake", "vote"} : Turn(a, act)
  BY DEF Hold, Transfer, Stake, Vote
<1> QED
  BY <1>1, <1>2, QuietPlan

(* The rest of the burn pool: all of it is drawn, or all there is.         *)
LEMMA RestPlan == ASSUME Schedule, Rest PROVE Schedule'
<1>1. IInv'
  BY RestStep DEF Schedule
<1>2. /\ stage = "act" /\ flow' = 1 /\ stage' = "flows"
      /\ UNCHANGED <<agents, choice, pool, opened>>
  BY DEF Rest
<1>3. PICK paid \in 0..Less(pool[Primary].B, rate[Primary].B) :
        /\ paid = Left
        /\ \E f \in Splits(paid, Redeemers) :
             Removed([a \in Ids |-> IF a \in Redeemers THEN balance[a] - f[a] ELSE balance[a]], paid)
  BY DEF Rest
<1>4. PICK f \in Splits(paid, Redeemers) :
        Removed([a \in Ids |-> IF a \in Redeemers THEN balance[a] - f[a] ELSE balance[a]], paid)
  BY <1>3
<1>5. /\ balance' = [a \in Ids |-> IF a \in Redeemers THEN balance[a] - f[a] ELSE balance[a]]
      /\ rate' = [rate EXCEPT ![Primary].B = @ + paid]
  BY <1>4 DEF Removed
<1>6. /\ balance \in [Ids -> Nat] /\ Redeemers \subseteq Ids /\ todo \subseteq Ids
      /\ Primary \in Tokens /\ rate \in [Tokens -> Sides]
      /\ rate[Primary].B \in Nat /\ pool[Primary].B \in Nat /\ share.B \in Nat
  BY EngineAssumption DEF Schedule, IInv, Amounts, People, Sides, Redeemers, Doing
<1>7. paid \in Nat /\ rate'[Primary].B = rate[Primary].B + paid
  BY <1>3, <1>5, <1>6 DEF Less, Sides
<1>8. /\ \A a \in Redeemers : f[a] \in Nat /\ f[a] <= balance[a] /\ balance[a] \in Nat
      /\ Held(Redeemers, f) = paid
  BY <1>6, <1>7 DEF Splits
<1>9. rate[Primary].B <= pool[Primary].B
  <2> DEFINE x == share.B * Cardinality(Waiting("redeem"))
  <2>1. rate[Primary].B + x <= pool[Primary].B
    BY <1>2 DEF Schedule, Planned
  <2>2. Waiting("redeem") \subseteq Ids
    BY <1>6 DEF Waiting
  <2>3. Cardinality(Waiting("redeem")) \in Nat
    BY <2>2, SomeAgents, FS_CardinalityType
  <2>4. x \in Nat
    BY <1>6, <2>3
  <2> HIDE DEF x
  <2> QED
    BY <1>6, <2>1, <2>4
<1>10. Redeemers' = Redeemers
  BY <1>2 DEF Redeemers, Doing
<1>11. Drawn'
  <2>1. CASE paid = Less(pool[Primary].B, rate[Primary].B)
    BY <2>1, <1>2, <1>6, <1>7, <1>9 DEF Drawn, Less
  <2>2. CASE paid # Less(pool[Primary].B, rate[Primary].B)
    <3>1. paid = Held(Redeemers, balance)
      BY <1>3, <2>2 DEF Left, Least
    <3>2. SumOver(Redeemers, f) = SumOver(Redeemers, balance)
      <4>1. Held(Redeemers, f) = SumOver(Redeemers, f)
        BY <1>6, <1>8, HeldIs
      <4>2. Held(Redeemers, balance) = SumOver(Redeemers, balance)
        BY <1>6, <1>8, HeldIs
      <4> QED
        BY <1>8, <3>1, <4>1, <4>2
    <3>3. ASSUME NEW a \in Redeemers PROVE balance'[a] = 0
      <4>1. IsFiniteSet(Redeemers)
        BY <1>6, SomeAgents
      <4>2. f[a] = balance[a]
        BY <1>8, <3>2, <4>1, SumIsTight
      <4> QED
        BY <1>5, <1>6, <1>8, <4>2
    <3> QED
      BY <1>10, <3>3 DEF Drawn
  <2> QED
    BY <2>1, <2>2
<1> QED
  BY <1>1, <1>2, <1>11 DEF Schedule, Planned

LEMMA ScheduleStep == ASSUME Schedule, [Next]_vars PROVE Schedule'
<1>1. IInv'
  BY NextStep, Stutter DEF Schedule
<1>2. CASE \E a \in Ids : Hold(a) \/ Earn(a) \/ Transfer(a) \/ Redeem(a) \/ Stake(a) \/ Vote(a)
  BY <1>2, EarnPlan, RedeemPlan, OthersPlan
<1>3. CASE Decide \/ Rest
  BY <1>3, DecidePlan, RestPlan
<1>4. CASE Begin \/ Event \/ Aggregate \/ Close
  <2>1. stage' \in {"ready", "people"}
    BY <1>4 DEF Begin, Event, Aggregate, Close
  <2> QED
    BY <1>1, <2>1 DEF Schedule, Planned, Drawn
<1>5. CASE Flow
  <2>1. stage' = "flows" /\ flow' = flow + 1 /\ flow \in Nat \ {0}
    BY <1>5 DEF Flow, Schedule, IInv, Clock
  <2> QED
    BY <1>1, <2>1 DEF Schedule, Planned, Drawn
<1>6. CASE UNCHANGED vars
  BY <1>1, <1>6 DEF Schedule, Planned, Waiting, Drawn, Redeemers, Doing, vars, people
<1> QED
  BY <1>2, <1>3, <1>4, <1>5, <1>6 DEF Next

------------------------------------------------------------------------------
(* The books: what the agents hold was issued, and the rates of a period   *)
(* explain its change of supply.                                           *)
Issued == SumOver(agents, balance) <= M[Primary]
Explained ==
  /\ stage = "people" => opened = M
  /\ stage \in {"act", "flows"} => \A k \in Tokens : M[k] + rate[k].B = opened[k] + rate[k].E

Books == IInv /\ Issued /\ Explained

LEMMA BooksInit == ASSUME NothingUnissued, Init PROVE Books
<1>1. IInv
  BY InitAmounts, InitOthers DEF IInv, Asleep
<1>2. stage = "ready" /\ agents = FirstAgents /\ M = StartSupply
  BY DEF Init, FirstPeople
<1>3. SumOver(agents, balance) = Len(Start) * StartBalance
  <2>1. StartBalance \in Nat /\ FirstAgents \subseteq Ids /\ IsFiniteSet(FirstAgents)
    BY EngineAssumption, FirstAgentsType, SomeAgents
  <2>2. \A a \in FirstAgents : balance[a] = StartBalance
    BY FirstAgentsType DEF Init, FirstPeople
  <2>3. Cardinality(FirstAgents) = Len(Start)
    <3>1. Start \in Seq(Types)
      BY EngineAssumption
    <3> DEFINE n == Len(Start)
    <3>2. n \in Nat
      BY <3>1
    <3>3. FirstAgents = 0..(n - 1)
      BY DEF FirstAgents
    <3> HIDE DEF n
    <3>4. Cardinality(0..(n - 1)) = IF 0 > n - 1 THEN 0 ELSE (n - 1) - 0 + 1
      BY <3>2, FS_Interval
    <3>5. Cardinality(0..(n - 1)) = n
      BY <3>2, <3>4
    <3> QED
      BY <3>3, <3>5 DEF n
  <2>4. SumOver(FirstAgents, balance) = Cardinality(FirstAgents) * StartBalance
    BY <2>1, <2>2, SumOfConstant
  <2> QED
    BY <1>2, <2>3, <2>4
<1> QED
  BY <1>1, <1>2, <1>3 DEF Books, NothingUnissued, Issued, Explained

(* Where no balance and no supply changes.                                 *)
LEMMA BeginBooks == ASSUME Books, Begin PROVE Books'
<1>1. IInv'
  BY BeginStep DEF Books
<1>2. M' = M /\ opened' = M /\ stage' = "people" /\ agents' = agents /\ balance' = balance
  BY DEF Begin, people
<1> QED
  BY <1>1, <1>2 DEF Books, Issued, Explained

(* Those who leave hold some of what was issued, and those who arrive      *)
(* nothing.                                                                *)
LEMMA WithoutBooks ==
  ASSUME Books, NEW gone, Without(gone)
  PROVE  SumOver(agents', balance') <= M[Primary]
<1>1. /\ agents' \subseteq agents /\ \A a \in agents' : balance'[a] = balance[a]
  BY WithoutType DEF Books
<1>2. agents \subseteq Ids /\ \A a \in agents : balance[a] \in Nat
  BY DEF Books, IInv, People
<1>3. \A a \in agents' : balance'[a] \in Nat /\ balance'[a] <= balance[a]
  BY <1>1, <1>2
<1>4. SumOver(agents', balance') <= SumOver(agents, balance)
  BY <1>1, <1>2, <1>3, SomeAgents, SumGrows
<1>5. /\ SumOver(agents, balance) \in Nat /\ SumOver(agents', balance') \in Nat
      /\ M[Primary] \in Nat
  <2>1. agents' \subseteq Ids
    BY <1>1, <1>2
  <2> QED
    BY <1>2, <1>3, <2>1, SomeAgents, SumIsNat, EngineAssumption DEF Books, IInv, Amounts
<1> QED
  BY <1>4, <1>5 DEF Books, Issued

LEMMA SpawnBooks ==
  ASSUME NothingUnissued, Books, NEW n \in 1..Len(Population), Population[n].kind = "spawn", Spawn(Population[n])
  PROVE  SumOver(agents', balance') <= M[Primary]
<1> DEFINE next == IF agents = {} THEN 0 ELSE Max(agents) + 1
           new  == next..(next + Population[n].count - 1)
<1>1. /\ new \subseteq Ids /\ agents' = agents \cup new
      /\ balance' = [a \in Ids |-> IF a \in new THEN Population[n].balance ELSE balance[a]]
  BY DEF Spawn
<1>2. agents \subseteq Ids /\ IsFiniteSet(agents) /\ balance \in [Ids -> Nat] /\ IsFiniteSet(new)
  BY <1>1, SomeAgents DEF Books, IInv, People
<1>3. agents \cap new = {}
  <2>1. CASE agents = {}
    BY <2>1
  <2>2. CASE agents # {}
    <3>1. agents \subseteq Int
      BY <1>2, EngineAssumption DEF Ids
    <3>2. Max(agents) \in agents /\ \A a \in agents : a <= Max(agents)
      BY <1>2, <2>2, <3>1, MaxIsThere
    <3>3. next = Max(agents) + 1 /\ Max(agents) \in Int
      BY <2>2, <3>1, <3>2
    <3>4. Population[n].count \in Nat
      BY EventType
    <3>5. ASSUME NEW a \in agents, a \in new PROVE FALSE
      BY <3>1, <3>2, <3>3, <3>4, <3>5
    <3> QED
      BY <3>5
  <2> QED
    BY <2>1, <2>2
<1>4. Population[n].balance = 0
  BY DEF NothingUnissued
<1> HIDE DEF next, new
<1>5. \A a \in new : balance'[a] = 0
  BY <1>1, <1>4
<1>6. \A a \in agents : balance'[a] = balance[a] /\ balance[a] \in Nat
  BY <1>1, <1>2, <1>3
<1>7. SumOver(agents', balance') = SumOver(agents, balance') + SumOver(new, balance')
  <2>1. \A a \in agents \cup new : balance'[a] \in Nat
    BY <1>5, <1>6
  <2>2. SumOver(agents \cup new, balance') = SumOver(agents, balance') + SumOver(new, balance')
    BY <1>2, <1>3, <2>1, SumOfUnion
  <2> QED
    BY <1>1, <2>2
<1>8. SumOver(new, balance') = 0
  BY <1>2, <1>5, SumOfZeros
<1>9. SumOver(agents, balance') = SumOver(agents, balance) /\ SumOver(agents, balance) \in Nat
  BY <1>2, <1>6, SumOfSame, SumIsNat
<1> QED
  BY <1>7, <1>8, <1>9 DEF Books, Issued

LEMMA EventBooks == ASSUME NothingUnissued, Books, Event PROVE Books'
<1>1. IInv'
  BY EventStep DEF Books
<1>2. M' = M /\ opened' = opened /\ stage = "people" /\ stage' = "people"
  BY DEF Event
<1> DEFINE n == Head(queue)
<1>3. n \in 1..Len(Population)
  BY DEF Event, Books, IInv, Clock
<1>4. SumOver(agents', balance') <= M[Primary]
  <2>1. CASE Population[n].kind = "spawn"
    <3>1. Spawn(Population[n])
      BY <2>1 DEF Event
    <3> QED
      BY <3>1, <2>1, <1>3, SpawnBooks
  <2>2. CASE Population[n].kind # "spawn"
    <3>1. Without(Poorest(Population[n]))
      BY <2>2 DEF Event
    <3> QED
      BY <3>1, WithoutBooks
  <2> QED
    BY <2>1, <2>2
<1> QED
  BY <1>1, <1>2, <1>4 DEF Books, Issued, Explained

LEMMA CloseBooks == ASSUME Books, Close PROVE Books'
<1>1. IInv'
  BY CloseStep DEF Books
<1>2. M' = M /\ stage' = "ready"
  BY DEF Close
<1>3. SumOver(agents', balance') <= M[Primary]
  BY WithoutBooks DEF Close
<1> QED
  BY <1>1, <1>2, <1>3 DEF Books, Issued, Explained

(* A period without agents: nobody holds anything.                         *)
LEMMA AggregateBooks == ASSUME Books, Aggregate PROVE Books'
<1>1. IInv'
  BY AggregateStep DEF Books
<1>2. agents' = {} /\ stage' = "ready"
  BY DEF Aggregate, people
<1>3. SumOver(agents', balance') = 0
  BY <1>2, SumOfNone
<1>4. M'[Primary] \in Nat
  BY <1>1, EngineAssumption DEF IInv, Amounts
<1> QED
  BY <1>1, <1>2, <1>3, <1>4 DEF Books, Issued, Explained

LEMMA DecideBooks == ASSUME Books, Decide PROVE Books'
<1>1. IInv'
  BY DecideStep DEF Books
<1>2. /\ stage = "people" /\ stage' = "act" /\ rate' = [k \in Tokens |-> Zero]
      /\ M' = M /\ opened' = opened /\ agents' = agents /\ balance' = balance
  BY DEF Decide, people
<1>3. Explained'
  <2>1. \A k \in Tokens : M[k] \in Nat /\ opened[k] = M[k]
    BY <1>2 DEF Books, IInv, Amounts, Explained
  <2> QED
    BY <1>2, <2>1 DEF Explained, Zero
<1> QED
  BY <1>1, <1>2, <1>3 DEF Books, Issued

(* What is left to show of a turn for the books: what an agent gets or     *)
(* gives is booked.                                                        *)
Booked(e, b) ==
  /\ M'[Primary] + b = M[Primary] + e
  /\ rate'[Primary].E = rate[Primary].E + e /\ rate'[Primary].B = rate[Primary].B + b
  /\ \A k \in Tokens \ {Primary} : M'[k] = M[k] /\ rate'[k] = rate[k]

LEMMA TurnBooks ==
  ASSUME Books, IInv', NEW a \in Ids, NEW act, Turn(a, act), NEW e \in Nat, NEW b \in Nat, Booked(e, b),
         SumOver(agents, balance') <= M'[Primary]
  PROVE  Books'
<1>1. stage = "act" /\ stage' = "act" /\ UNCHANGED <<agents, pool, share, opened>>
  BY DEF Turn
<1>2. /\ Primary \in Tokens
      /\ \A k \in Tokens : /\ M[k] \in Nat /\ M'[k] \in Nat /\ opened[k] \in Nat
                           /\ rate[k].E \in Nat /\ rate[k].B \in Nat /\ rate'[k].E \in Nat /\ rate'[k].B \in Nat
  BY EngineAssumption DEF Books, IInv, Amounts, Sides
<1>3. \A k \in Tokens : M[k] + rate[k].B = opened[k] + rate[k].E
  BY <1>1 DEF Books, Explained
<1>4. ASSUME NEW k \in Tokens PROVE M'[k] + rate'[k].B = opened[k] + rate'[k].E
  <2>1. CASE k = Primary
    BY <1>2, <1>3, <2>1 DEF Booked
  <2>2. CASE k # Primary
    BY <1>2, <1>3, <2>2 DEF Booked
  <2> QED
    BY <2>1, <2>2
<1>5. Explained'
  BY <1>1, <1>4 DEF Explained
<1> QED
  BY <1>1, <1>5 DEF Books, Issued

(* What every turn starts from.                                            *)
LEMMA TurnHolds ==
  ASSUME Books, NEW a \in Ids, NEW act, Turn(a, act)
  PROVE  /\ a \in agents /\ IsFiniteSet(agents) /\ agents \subseteq Ids /\ balance \in [Ids -> Nat]
         /\ \A b \in agents : balance[b] \in Nat
         /\ SumOver(agents, balance) \in Nat /\ SumOver(agents, balance) <= M[Primary]
         /\ Primary \in Tokens /\ M \in [Tokens -> Nat] /\ rate \in [Tokens -> Sides]
         /\ M[Primary] \in Nat /\ rate[Primary].E \in Nat /\ rate[Primary].B \in Nat
         /\ share.E \in Nat /\ share.B \in Nat
<1>1. a \in agents /\ agents \subseteq Ids /\ balance \in [Ids -> Nat]
  BY DEF Turn, Books, IInv, People
<1>2. IsFiniteSet(agents) /\ \A b \in agents : balance[b] \in Nat
  BY <1>1, SomeAgents
<1>3. SumOver(agents, balance) \in Nat
  BY <1>2, SumIsNat
<1>4. Primary \in Tokens /\ M \in [Tokens -> Nat] /\ rate \in [Tokens -> Sides] /\ share \in Sides
  BY EngineAssumption DEF Books, IInv, Amounts
<1>5. M[Primary] \in Nat /\ rate[Primary].E \in Nat /\ rate[Primary].B \in Nat /\ share.E \in Nat /\ share.B \in Nat
  BY <1>4 DEF Sides
<1> QED
  BY <1>1, <1>2, <1>3, <1>4, <1>5 DEF Books, Issued

LEMMA QuietBooks ==
  ASSUME Books, IInv', NEW a \in Ids, NEW act, Turn(a, act),
         M' = M, rate' = rate, SumOver(agents, balance') <= M[Primary]
  PROVE  Books'
<1>1. Booked(0, 0)
  BY TurnHolds DEF Booked
<1> QED
  BY <1>1, TurnBooks

LEMMA HoldBooks == ASSUME Books, NEW a \in Ids, Hold(a) PROVE Books'
<1>1. IInv'
  BY HoldStep DEF Books
<1>2. Turn(a, "hold") /\ M' = M /\ rate' = rate /\ balance' = balance
  BY DEF Hold
<1> QED
  BY <1>1, <1>2, QuietBooks, TurnHolds

LEMMA StakeBooks == ASSUME Books, NEW a \in Ids, Stake(a) PROVE Books'
<1>1. IInv'
  BY StakeStep DEF Books
<1>2. Turn(a, "stake") /\ M' = M /\ rate' = rate /\ balance' = balance
  BY DEF Stake
<1> QED
  BY <1>1, <1>2, QuietBooks, TurnHolds

LEMMA VoteBooks == ASSUME Books, NEW a \in Ids, Vote(a) PROVE Books'
<1>1. IInv'
  BY VoteStep DEF Books
<1>2. Turn(a, "vote") /\ M' = M /\ rate' = rate /\ balance' = balance
  BY DEF Vote
<1> QED
  BY <1>1, <1>2, QuietBooks, TurnHolds

LEMMA TransferBooks == ASSUME Books, NEW a \in Ids, Transfer(a) PROVE Books'
<1>1. IInv'
  BY TransferStep DEF Books
<1>2. Turn(a, "transfer") /\ M' = M /\ rate' = rate
  BY DEF Transfer
<1>3. SumOver(agents, balance') = SumOver(agents, balance)
  <2>1. CASE UNCHANGED balance
    BY <2>1
  <2>2. CASE ~UNCHANGED balance
    <3>1. PICK c \in Peers(a), n \in 1..balance[a] :
            balance' = [balance EXCEPT ![a] = @ - n, ![c] = @ + n]
      BY <2>2 DEF Transfer
    <3>2. c \in agents /\ c # a
      BY DEF Peers
    <3>3. a \in agents /\ IsFiniteSet(agents) /\ agents \subseteq Ids /\ balance \in [Ids -> Nat]
          /\ SumOver(agents, balance) \in Nat
      BY <1>2, TurnHolds
    <3>4. n \in Nat /\ n <= balance[a] /\ balance[a] \in Nat /\ balance[c] \in Nat
      BY <3>2, <3>3
    <3> DEFINE d == [balance EXCEPT ![a] = @ - n]
    <3>5. /\ \A b \in agents : balance[b] \in Nat /\ d[b] \in Nat /\ balance'[b] \in Nat
          /\ \A b \in agents \ {a} : d[b] = balance[b]
          /\ \A b \in agents \ {c} : balance'[b] = d[b]
          /\ d[a] + n = balance[a] /\ d[c] = balance[c] /\ balance'[c] = balance[c] + n
      BY <3>1, <3>2, <3>3, <3>4
    <3> HIDE DEF d
    <3>6. SumOver(agents, d) + balance[a] = SumOver(agents, balance) + d[a]
      BY <3>3, <3>5, SumWithNew
    <3>7. SumOver(agents, balance') + d[c] = SumOver(agents, d) + balance'[c]
      BY <3>2, <3>3, <3>5, SumWithNew
    <3>8. SumOver(agents, d) \in Nat /\ SumOver(agents, balance') \in Nat /\ d[a] \in Nat
      BY <3>3, <3>5, SumIsNat
    <3> QED
      BY <3>3, <3>4, <3>5, <3>6, <3>7, <3>8
  <2> QED
    BY <2>1, <2>2
<1> QED
  BY <1>1, <1>2, <1>3, QuietBooks, TurnHolds

LEMMA EarnBooks == ASSUME Books, NEW a \in Ids, Earn(a) PROVE Books'
<1>1. IInv'
  BY EarnStep DEF Books
<1> DEFINE n == Room(Primary, share.E)
<1>2. /\ Turn(a, "earn")
      /\ balance' = [balance EXCEPT ![a] = @ + n]
      /\ M' = [M EXCEPT ![Primary] = @ + n]
      /\ rate' = [rate EXCEPT ![Primary].E = @ + n]
  BY DEF Earn, Created
<1>3. n \in Nat /\ n <= share.E
  BY <1>2, TurnHolds, RoomFits DEF Books, IInv
<1> HIDE DEF n
<1>4. Booked(n, 0)
  BY <1>2, <1>3, TurnHolds DEF Booked, Sides
<1>5. SumOver(agents, balance') + balance[a] = SumOver(agents, balance) + balance'[a]
  <2>1. /\ a \in agents /\ IsFiniteSet(agents)
        /\ \A b \in agents : balance[b] \in Nat /\ balance'[b] \in Nat
        /\ \A b \in agents \ {a} : balance'[b] = balance[b]
    BY <1>2, <1>3, TurnHolds
  <2> QED
    BY <2>1, SumWithNew
<1>6. balance'[a] = balance[a] + n /\ M'[Primary] = M[Primary] + n /\ balance[a] \in Nat
      /\ SumOver(agents, balance') \in Nat
  <2>1. \A b \in agents : balance'[b] \in Nat
    BY <1>2, <1>3, TurnHolds
  <2>2. IsFiniteSet(agents)
    BY <1>2, TurnHolds
  <2>3. SumOver(agents, balance') \in Nat
    BY <2>1, <2>2, SumIsNat
  <2> QED
    BY <1>2, <1>3, <2>3, TurnHolds
<1>7. SumOver(agents, balance') <= M'[Primary]
  BY <1>2, <1>3, <1>5, <1>6, TurnHolds
<1> QED
  BY <1>1, <1>2, <1>3, <1>4, <1>7, TurnBooks

LEMMA RedeemBooks == ASSUME Books, NEW a \in Ids, Redeem(a) PROVE Books'
<1>1. IInv'
  BY RedeemStep DEF Books
<1> DEFINE n == Least(share.B, balance[a])
<1>2. /\ Turn(a, "redeem")
      /\ balance' = [balance EXCEPT ![a] = @ - n]
      /\ M' = [M EXCEPT ![Primary] = Less(@, n)]
      /\ rate' = [rate EXCEPT ![Primary].B = @ + n]
  BY DEF Redeem, Removed
<1>3. n \in Nat /\ n <= share.B /\ n <= balance[a] /\ balance[a] \in Nat
  BY <1>2, TurnHolds DEF Least
<1> HIDE DEF n
<1>4. balance[a] <= SumOver(agents, balance)
  <2>1. a \in agents /\ IsFiniteSet(agents) /\ \A b \in agents : balance[b] \in Nat
    BY <1>2, TurnHolds
  <2>2. SumOver(agents, balance) = balance[a] + SumOver(agents \ {a}, balance)
    BY <2>1, SumWithout
  <2>3. SumOver(agents \ {a}, balance) \in Nat
    BY <2>1, FS_RemoveElement, SumIsNat
  <2> QED
    BY <1>3, <2>2, <2>3
<1>5. Less(M[Primary], n) + n = M[Primary] /\ Less(M[Primary], n) \in Nat
  BY <1>2, <1>3, <1>4, TurnHolds DEF Less
<1>6. M'[Primary] + n = M[Primary] /\ M'[Primary] \in Nat
  BY <1>2, <1>5, TurnHolds
<1>7. Booked(0, n)
  BY <1>2, <1>3, <1>6, TurnHolds DEF Booked, Sides
<1>8. SumOver(agents, balance') + balance[a] = SumOver(agents, balance) + balance'[a]
  <2>1. /\ a \in agents /\ IsFiniteSet(agents)
        /\ \A b \in agents : balance[b] \in Nat /\ balance'[b] \in Nat
        /\ \A b \in agents \ {a} : balance'[b] = balance[b]
    BY <1>2, <1>3, TurnHolds
  <2> QED
    BY <2>1, SumWithNew
<1>9. balance'[a] + n = balance[a] /\ balance'[a] \in Nat /\ SumOver(agents, balance') \in Nat
  <2>1. \A b \in agents : balance'[b] \in Nat
    BY <1>2, <1>3, TurnHolds
  <2>2. IsFiniteSet(agents)
    BY <1>2, TurnHolds
  <2>3. SumOver(agents, balance') \in Nat
    BY <2>1, <2>2, SumIsNat
  <2> QED
    BY <1>2, <1>3, <2>3, TurnHolds
<1>10. SumOver(agents, balance') <= M'[Primary]
  BY <1>2, <1>3, <1>6, <1>8, <1>9, TurnHolds
<1> QED
  BY <1>1, <1>2, <1>3, <1>7, <1>10, TurnBooks

(* What the others who redeem pay of the rest: all of it, or all they have. *)
LEMMA RestBooks == ASSUME Books, Rest PROVE Books'
<1>1. IInv'
  BY RestStep DEF Books
<1>2. /\ stage = "act" /\ flow' = 1 /\ stage' = "flows"
      /\ UNCHANGED <<agents, choice, pool, opened>>
  BY DEF Rest
<1>3. PICK paid \in 0..Less(pool[Primary].B, rate[Primary].B) :
        /\ paid = Left
        /\ \E f \in Splits(paid, Redeemers) :
             Removed([a \in Ids |-> IF a \in Redeemers THEN balance[a] - f[a] ELSE balance[a]], paid)
  BY DEF Rest
<1>4. PICK f \in Splits(paid, Redeemers) :
        Removed([a \in Ids |-> IF a \in Redeemers THEN balance[a] - f[a] ELSE balance[a]], paid)
  BY <1>3
<1>5. /\ balance' = [a \in Ids |-> IF a \in Redeemers THEN balance[a] - f[a] ELSE balance[a]]
      /\ M' = [M EXCEPT ![Primary] = Less(@, paid)]
      /\ rate' = [rate EXCEPT ![Primary].B = @ + paid]
  BY <1>4 DEF Removed
<1>6. /\ agents \subseteq Ids /\ IsFiniteSet(agents) /\ balance \in [Ids -> Nat]
      /\ Redeemers \subseteq agents /\ IsFiniteSet(Redeemers) /\ Redeemers \subseteq Ids
      /\ Primary \in Tokens /\ M \in [Tokens -> Nat] /\ rate \in [Tokens -> Sides]
      /\ M[Primary] \in Nat /\ rate[Primary].B \in Nat /\ rate[Primary].E \in Nat /\ pool[Primary].B \in Nat
  <2>1. agents \subseteq Ids /\ balance \in [Ids -> Nat]
    BY DEF Books, IInv, People
  <2>2. Redeemers \subseteq agents
    BY DEF Redeemers, Doing
  <2>3. IsFiniteSet(agents) /\ IsFiniteSet(Redeemers) /\ Redeemers \subseteq Ids
    BY <2>1, <2>2, SomeAgents
  <2> QED
    BY <2>1, <2>2, <2>3, EngineAssumption DEF Books, IInv, Amounts, Sides
<1>7. paid \in Nat
  BY <1>3, <1>6 DEF Less
<1>8. /\ \A a \in Redeemers : f[a] \in Nat /\ f[a] <= balance[a]
      /\ Held(Redeemers, f) = paid
  BY <1>7 DEF Splits
<1>9. SumOver(Redeemers, f) = paid
  BY <1>6, <1>8, HeldIs
<1>10. /\ \A a \in Redeemers : balance[a] \in Nat /\ balance'[a] \in Nat /\ balance[a] = balance'[a] + f[a]
       /\ \A a \in agents \ Redeemers : balance[a] \in Nat /\ balance'[a] = balance[a]
  BY <1>5, <1>6, <1>8
<1> DEFINE others == agents \ Redeemers
<1>11. SumOver(Redeemers, balance) = SumOver(Redeemers, balance') + paid
  <2>1. SumOver(Redeemers, balance) = SumOver(Redeemers, balance') + SumOver(Redeemers, f)
    BY <1>6, <1>8, <1>10, SumOfSums
  <2> QED
    BY <1>9, <2>1
<1>12. /\ agents = Redeemers \cup others /\ Redeemers \cap others = {} /\ IsFiniteSet(others)
       /\ \A a \in others : balance[a] \in Nat /\ balance'[a] = balance[a]
  BY <1>6, <1>10, FS_Subset
<1> HIDE DEF others
<1>13. SumOver(others, balance') = SumOver(others, balance)
  BY <1>12, SumOfSame
<1>14. /\ SumOver(agents, balance) = SumOver(Redeemers, balance) + SumOver(others, balance)
       /\ SumOver(agents, balance') = SumOver(Redeemers, balance') + SumOver(others, balance')
  <2>1. \A a \in Redeemers \cup others : balance[a] \in Nat /\ balance'[a] \in Nat
    BY <1>10, <1>12
  <2>2. SumOver(Redeemers \cup others, balance) = SumOver(Redeemers, balance) + SumOver(others, balance)
    BY <1>6, <1>12, <2>1, SumOfUnion
  <2>3. SumOver(Redeemers \cup others, balance') = SumOver(Redeemers, balance') + SumOver(others, balance')
    BY <1>6, <1>12, <2>1, SumOfUnion
  <2> QED
    BY <1>12, <2>2, <2>3
<1>15. /\ SumOver(others, balance) \in Nat /\ SumOver(Redeemers, balance') \in Nat
       /\ SumOver(Redeemers, balance) \in Nat
  BY <1>6, <1>10, <1>12, SumIsNat
<1>16. SumOver(agents, balance) <= M[Primary]
  BY DEF Books, Issued
<1>17. Less(M[Primary], paid) + paid = M[Primary] /\ Less(M[Primary], paid) \in Nat
  <2>1. paid <= M[Primary]
    BY <1>6, <1>7, <1>11, <1>14, <1>15, <1>16
  <2> QED
    BY <1>6, <1>7, <2>1 DEF Less
<1>18. M'[Primary] + paid = M[Primary] /\ M'[Primary] \in Nat
  BY <1>5, <1>6, <1>17
<1>19. Issued'
  <2>1. SumOver(agents, balance') <= M'[Primary]
    BY <1>6, <1>7, <1>11, <1>13, <1>14, <1>15, <1>16, <1>18
  <2> QED
    BY <1>2, <2>1 DEF Issued
<1>20. rate'[Primary].B = rate[Primary].B + paid /\ rate'[Primary].E = rate[Primary].E
       /\ \A k \in Tokens \ {Primary} : rate'[k] = rate[k] /\ M'[k] = M[k]
  BY <1>5, <1>6 DEF Sides
<1>21. Explained'
  <2>1. \A k \in Tokens : M[k] + rate[k].B = opened[k] + rate[k].E /\ opened[k] \in Nat
    BY <1>2 DEF Books, Explained, IInv, Amounts
  <2>2. ASSUME NEW k \in Tokens PROVE M'[k] + rate'[k].B = opened[k] + rate'[k].E
    <3>1. CASE k = Primary
      BY <2>1, <1>6, <1>7, <1>18, <1>20, <3>1
    <3>2. CASE k # Primary
      BY <2>1, <1>20, <3>2
    <3> QED
      BY <3>1, <3>2
  <2> QED
    BY <1>2, <2>2 DEF Explained
<1> QED
  BY <1>1, <1>2, <1>19, <1>21 DEF Books

(* No flow removes supply of the token the agents hold.                    *)
LEMMA FlowBooks == ASSUME NothingUnissued, Books, Flow PROVE Books'
<1>1. IInv'
  BY FlowStep DEF Books
<1> DEFINE k == Flows[flow].tgt
           n == rate[Flows[flow].src].B * Flows[flow].amount
           more == Room(k, n)
           gone == Least(n, M[k])
<1>2. /\ stage = "flows" /\ stage' = "flows" /\ flow <= Len(Flows) /\ flow' = flow + 1
      /\ agents' = agents /\ balance' = balance /\ opened' = opened
      /\ IF Flows[flow].mint
         THEN /\ M' = [M EXCEPT ![k] = @ + more]
              /\ rate' = [rate EXCEPT ![k].E = @ + more]
         ELSE /\ M' = [M EXCEPT ![k] = Less(@, gone)]
              /\ rate' = [rate EXCEPT ![k].B = @ + gone]
  BY DEF Flow, people
<1>3. k \in Tokens /\ n \in Nat /\ flow \in Nat \ {0} /\ (~Flows[flow].mint => k # Primary)
  <2>1. Flows[flow].src \in Tokens /\ k \in Tokens /\ Flows[flow].amount \in Nat /\ flow \in Nat \ {0}
    BY <1>2, FlowType DEF Books, IInv, Clock
  <2>2. rate[Flows[flow].src].B \in Nat
    BY <2>1, TurnFacts DEF Books
  <2>3. flow \in 1..Len(Flows)
    BY <1>2, <2>1, CountedFlows
  <2> QED
    BY <2>1, <2>2, <2>3 DEF NothingUnissued
<1> HIDE DEF k, n
<1>4. /\ M \in [Tokens -> Nat] /\ rate \in [Tokens -> Sides] /\ opened \in [Tokens -> Nat]
      /\ Primary \in Tokens /\ M[k] \in Nat /\ rate[k].E \in Nat /\ rate[k].B \in Nat
  BY <1>3, EngineAssumption DEF Books, IInv, Amounts, Sides
<1>5. more \in Nat
  BY <1>3, RoomFits DEF Books, IInv
<1>6. gone \in Nat /\ Less(M[k], gone) + gone = M[k] /\ Less(M[k], gone) \in Nat
  BY <1>3, <1>4 DEF Least, Less
<1> HIDE DEF more, gone
<1>7. \A j \in Tokens : M[j] + rate[j].B = opened[j] + rate[j].E
  BY <1>2 DEF Books, Explained
<1>8. /\ M'[k] + rate'[k].B = opened[k] + rate'[k].E
      /\ \A j \in Tokens \ {k} : M'[j] = M[j] /\ rate'[j] = rate[j]
      /\ M'[Primary] >= M[Primary]
  <2>0. M[k] + rate[k].B = opened[k] + rate[k].E /\ opened[k] \in Nat /\ M[Primary] \in Nat
    BY <1>3, <1>4, <1>7
  <2>1. CASE Flows[flow].mint
    <3>1. M' = [M EXCEPT ![k] = @ + more] /\ rate' = [rate EXCEPT ![k].E = @ + more]
      BY <2>1, <1>2
    <3>2. M'[k] = M[k] + more /\ rate'[k].E = rate[k].E + more /\ rate'[k].B = rate[k].B
          /\ \A j \in Tokens \ {k} : M'[j] = M[j] /\ rate'[j] = rate[j]
      BY <3>1, <1>3, <1>4 DEF Sides
    <3> QED
      BY <3>2, <2>0, <1>4, <1>5
  <2>2. CASE ~Flows[flow].mint
    <3>1. M' = [M EXCEPT ![k] = Less(@, gone)] /\ rate' = [rate EXCEPT ![k].B = @ + gone]
      BY <2>2, <1>2
    <3>2. M'[k] = Less(M[k], gone) /\ rate'[k].B = rate[k].B + gone /\ rate'[k].E = rate[k].E
          /\ \A j \in Tokens \ {k} : M'[j] = M[j] /\ rate'[j] = rate[j]
      BY <3>1, <1>3, <1>4 DEF Sides
    <3> QED
      BY <3>2, <2>0, <2>2, <1>3, <1>4, <1>6
  <2> QED
    BY <2>1, <2>2
<1>9. Explained'
  BY <1>2, <1>7, <1>8 DEF Explained
<1>10. Issued'
  <2>1. SumOver(agents, balance) \in Nat
    <3>1. agents \subseteq Ids /\ \A a \in agents : balance[a] \in Nat
      BY DEF Books, IInv, People
    <3> QED
      BY <3>1, SomeAgents, SumIsNat
  <2>2. M'[Primary] \in Nat /\ M[Primary] \in Nat
    BY <1>1, <1>4 DEF IInv, Amounts
  <2> QED
    BY <2>1, <2>2, <1>2, <1>8 DEF Issued, Books
<1> QED
  BY <1>1, <1>9, <1>10 DEF Books

LEMMA BooksStep == ASSUME NothingUnissued, Books, [Next]_vars PROVE Books'
<1>1. CASE \E a \in Ids : Hold(a) \/ Earn(a) \/ Transfer(a) \/ Redeem(a) \/ Stake(a) \/ Vote(a)
  BY <1>1, HoldBooks, EarnBooks, TransferBooks, RedeemBooks, StakeBooks, VoteBooks
<1>2. CASE Begin \/ Event \/ Decide \/ Aggregate \/ Rest \/ Flow \/ Close
  BY <1>2, BeginBooks, EventBooks, DecideBooks, AggregateBooks, RestBooks, FlowBooks, CloseBooks
<1>3. CASE UNCHANGED vars
  <2>1. IInv'
    BY <1>3, Stutter DEF Books
  <2> QED
    BY <1>3, <2>1 DEF Books, Issued, Explained, vars, people
<1> QED
  BY <1>1, <1>2, <1>3 DEF Next

LEMMA BooksInductive == ASSUME NothingUnissued PROVE Spec => []Books
<1>1. Init => Books
  BY BooksInit
<1>2. Books /\ [Next]_vars => Books'
  BY BooksStep
<1> QED
  BY <1>1, <1>2, PTL DEF Spec

------------------------------------------------------------------------------
(* What is reported of a run: the summary is that of the books.            *)
Shots == [M: [Tokens -> Nat], E: [Tokens -> Nat], B: [Tokens -> Nat], plan: [Tokens -> Sides], live: Nat]

LEMMA ShotType ==
  ASSUME NEW m \in [Tokens -> Nat], NEW r \in [Tokens -> Sides], NEW p \in [Tokens -> Sides], NEW n \in Nat
  PROVE  [M |-> m, E |-> [k \in Tokens |-> r[k].E], B |-> [k \in Tokens |-> r[k].B], plan |-> p, live |-> n] \in Shots
  BY DEF Shots, Sides

LEMMA AddIs ==
  ASSUME NEW f, NEW n \in Nat, DOMAIN f = 1..n, \A i \in 1..n : f[i] \in Nat
  PROVE  Add(f) = SumOver(1..n, f) /\ SumOver(1..n, f) \in Nat
<1>1. Add(f) = AddedInOrder(f)
  BY DEF Add, AddedInOrder
<1>2. IsFiniteSet(1..n)
  BY FS_Interval
<1> QED
  BY <1>1, <1>2, SequenceFold, SumIsNat

LEMMA AddOneMore ==
  ASSUME NEW n \in Nat, NEW f, NEW g, DOMAIN f = 1..n, DOMAIN g = 1..(n + 1),
         \A i \in 1..(n + 1) : g[i] \in Nat, \A i \in 1..n : f[i] = g[i]
  PROVE  Add(g) = Add(f) + g[n + 1]
<1>1. n + 1 \in Nat /\ \A i \in 1..n : i \in 1..(n + 1)
  OBVIOUS
<1>2. IsFiniteSet(1..n)
  BY FS_Interval
<1>3. \A i \in 1..n : g[i] \in Nat /\ f[i] \in Nat
  BY <1>1
<1>4. Add(g) = SumOver(1..(n + 1), g)
  BY <1>1, AddIs
<1>5. Add(f) = SumOver(1..n, f)
  BY <1>3, AddIs
<1>6. SumOver(1..n, f) = SumOver(1..n, g)
  BY <1>2, <1>3, SumOfSame
<1>7. SumOver(1..(n + 1), g) = SumOver(1..n, g) + g[n + 1]
  BY SumOneMore
<1> QED
  BY <1>4, <1>5, <1>6, <1>7

LEMMA Counted ==
  ASSUME NEW s \in Seq(Shots), NEW k \in Tokens
  PROVE  Emitted(s, k) \in Nat /\ Burned(s, k) \in Nat
<1> DEFINE n == Len(s)
<1>1. n \in Nat /\ DOMAIN s = 1..n
  OBVIOUS
<1>2. \A i \in 1..n : s[i] \in Shots
  OBVIOUS
<1> HIDE DEF n
<1>3. \A i \in 1..n : s[i].E[k] \in Nat /\ s[i].B[k] \in Nat
  BY <1>2 DEF Shots
<1> DEFINE e == [i \in DOMAIN s |-> s[i].E[k]]
           b == [i \in DOMAIN s |-> s[i].B[k]]
<1>4. DOMAIN e = 1..n /\ DOMAIN b = 1..n /\ \A i \in 1..n : e[i] \in Nat /\ b[i] \in Nat
  BY <1>1, <1>3
<1> HIDE DEF e, b
<1>5. Add(e) \in Nat /\ Add(b) \in Nat
  BY <1>1, <1>4, AddIs
<1> QED
  BY <1>5 DEF Emitted, Burned, e, b

LEMMA CountedOneMore ==
  ASSUME NEW s \in Seq(Shots), NEW x \in Shots, NEW k \in Tokens
  PROVE  /\ Emitted(Append(s, x), k) = Emitted(s, k) + x.E[k]
         /\ Burned(Append(s, x), k) = Burned(s, k) + x.B[k]
<1> DEFINE n == Len(s)
           u == Append(s, x)
<1>1. /\ n \in Nat /\ DOMAIN s = 1..n /\ DOMAIN u = 1..(n + 1)
      /\ u[n + 1] = x /\ \A i \in 1..n : u[i] = s[i]
  OBVIOUS
<1>2. u \in Seq(Shots)
  OBVIOUS
<1>3. \A i \in 1..(n + 1) : u[i] \in Shots
  BY <1>1, <1>2
<1> HIDE DEF n, u
<1>4. \A i \in 1..(n + 1) : u[i].E[k] \in Nat /\ u[i].B[k] \in Nat
  BY <1>3 DEF Shots
<1>5. \A i \in 1..n : i \in 1..(n + 1)
  BY <1>1
<1>6. n + 1 \in 1..(n + 1)
  BY <1>1
<1> DEFINE e == [i \in DOMAIN s |-> s[i].E[k]]
           b == [i \in DOMAIN s |-> s[i].B[k]]
           ue == [i \in DOMAIN u |-> u[i].E[k]]
           ub == [i \in DOMAIN u |-> u[i].B[k]]
<1>7. /\ DOMAIN e = 1..n /\ DOMAIN ue = 1..(n + 1)
      /\ \A i \in 1..(n + 1) : ue[i] \in Nat
      /\ \A i \in 1..n : e[i] = ue[i]
      /\ ue[n + 1] = x.E[k]
  BY <1>1, <1>4, <1>5, <1>6
<1>8. /\ DOMAIN b = 1..n /\ DOMAIN ub = 1..(n + 1)
      /\ \A i \in 1..(n + 1) : ub[i] \in Nat
      /\ \A i \in 1..n : b[i] = ub[i]
      /\ ub[n + 1] = x.B[k]
  BY <1>1, <1>4, <1>5, <1>6
<1> HIDE DEF e, b, ue, ub
<1>9. Add(ue) = Add(e) + ue[n + 1]
  BY <1>1, <1>7, AddOneMore
<1>10. Add(ub) = Add(b) + ub[n + 1]
  BY <1>1, <1>8, AddOneMore
<1> QED
  BY <1>7, <1>8, <1>9, <1>10 DEF Emitted, Burned, e, b, ue, ub, u

LEMMA CountedOne ==
  ASSUME NEW x \in Shots, NEW k \in Tokens
  PROVE  Emitted(<<x>>, k) = x.E[k] /\ Burned(<<x>>, k) = x.B[k]
<1>1. <<>> \in Seq(Shots) /\ Append(<<>>, x) = <<x>>
  OBVIOUS
<1> DEFINE e == [i \in DOMAIN <<>> |-> <<>>[i].E[k]]
           b == [i \in DOMAIN <<>> |-> <<>>[i].B[k]]
<1>2. DOMAIN e = 1..0 /\ DOMAIN b = 1..0 /\ 1..0 = {} /\ 0 \in Nat
  OBVIOUS
<1> HIDE DEF e, b
<1>3. Add(e) = SumOver(1..0, e) /\ Add(b) = SumOver(1..0, b)
  BY <1>2, AddIs
<1>4. Add(e) = 0 /\ Add(b) = 0
  BY <1>2, <1>3, SumOfNone
<1>5. Emitted(<<>>, k) = 0 /\ Burned(<<>>, k) = 0
  BY <1>4 DEF Emitted, Burned, e, b
<1>6. x.E[k] \in Nat /\ x.B[k] \in Nat
  BY DEF Shots
<1>7. /\ Emitted(Append(<<>>, x), k) = Emitted(<<>>, k) + x.E[k]
      /\ Burned(Append(<<>>, x), k) = Burned(<<>>, k) + x.B[k]
  BY <1>1, CountedOneMore
<1>8. /\ Emitted(<<x>>, k) = Emitted(<<>>, k) + x.E[k]
      /\ Burned(<<x>>, k) = Burned(<<>>, k) + x.B[k]
  BY <1>1, <1>7
<1> QED
  BY <1>5, <1>6, <1>8

(* What the snapshots of a run say: each period's rates explain the step   *)
(* from the last, so that all of them explain the whole.                   *)
Tallies(s) ==
  (\A i \in 2..Len(s) : s[i].live > 0) =>
    \A k \in Tokens : s[Len(s)].M[k] + Burned(s, k) + s[1].E[k] = s[1].M[k] + Emitted(s, k) + s[1].B[k]

LEMMA TallyOne == ASSUME NEW x \in Shots PROVE Tallies(<<x>>)
<1>1. Len(<<x>>) = 1 /\ <<x>>[1] = x
  OBVIOUS
<1>2. ASSUME NEW k \in Tokens PROVE x.M[k] + x.B[k] + x.E[k] = x.M[k] + x.E[k] + x.B[k]
  <2>1. x.M[k] \in Nat /\ x.E[k] \in Nat /\ x.B[k] \in Nat
    BY DEF Shots
  <2> QED
    BY <2>1
<1> QED
  BY <1>1, <1>2, CountedOne DEF Tallies

LEMMA TallyOneMore ==
  ASSUME NEW s \in Seq(Shots), s # <<>>, Tallies(s), NEW x \in Shots,
         x.live > 0 => \A k \in Tokens : x.M[k] + x.B[k] = s[Len(s)].M[k] + x.E[k]
  PROVE  Tallies(Append(s, x))
<1> DEFINE n == Len(s)
           u == Append(s, x)
<1>1. n \in Nat \ {0} /\ Len(u) = n + 1 /\ u[n + 1] = x /\ \A i \in 1..n : u[i] = s[i]
  OBVIOUS
<1>2. s[1] \in Shots /\ s[n] \in Shots
  OBVIOUS
<1> HIDE DEF n, u
<1>3. u[1] = s[1] /\ 1 \in 1..n /\ n \in 1..n /\ n + 1 \in 2..(n + 1)
  BY <1>1
<1> SUFFICES ASSUME \A i \in 2..(n + 1) : u[i].live > 0, NEW k \in Tokens
             PROVE  u[n + 1].M[k] + Burned(u, k) + u[1].E[k] = u[1].M[k] + Emitted(u, k) + u[1].B[k]
  BY <1>1 DEF Tallies, u
<1>4. \A i \in 2..n : s[i].live > 0
  BY <1>1
<1>5. s[n].M[k] + Burned(s, k) + s[1].E[k] = s[1].M[k] + Emitted(s, k) + s[1].B[k]
  BY <1>4 DEF Tallies, n
<1>6. x.M[k] + x.B[k] = s[n].M[k] + x.E[k]
  BY <1>1, <1>3 DEF n
<1>7. Emitted(u, k) = Emitted(s, k) + x.E[k] /\ Burned(u, k) = Burned(s, k) + x.B[k]
  BY CountedOneMore DEF u
<1>8. Emitted(s, k) \in Nat /\ Burned(s, k) \in Nat
  BY Counted
<1>9. \A y \in Shots : y.M[k] \in Nat /\ y.E[k] \in Nat /\ y.B[k] \in Nat
  BY DEF Shots
<1>10. x.M[k] \in Nat /\ x.E[k] \in Nat /\ x.B[k] \in Nat /\ s[n].M[k] \in Nat
  BY <1>2, <1>9
<1>11. s[1].M[k] \in Nat /\ s[1].E[k] \in Nat /\ s[1].B[k] \in Nat
  BY <1>2, <1>9
<1>12. x.M[k] + (Burned(s, k) + x.B[k]) + s[1].E[k] = s[1].M[k] + (Emitted(s, k) + x.E[k]) + s[1].B[k]
  <2> DEFINE xm == x.M[k]
             xe == x.E[k]
             xb == x.B[k]
             sm == s[n].M[k]
             m == s[1].M[k]
             e == s[1].E[k]
             b == s[1].B[k]
             es == Emitted(s, k)
             bs == Burned(s, k)
  <2>1. /\ xm \in Nat /\ xe \in Nat /\ xb \in Nat /\ sm \in Nat /\ m \in Nat /\ e \in Nat /\ b \in Nat
        /\ es \in Nat /\ bs \in Nat
    BY <1>8, <1>10, <1>11
  <2>2. xm + xb = sm + xe /\ sm + bs + e = m + es + b
    BY <1>5, <1>6
  <2> HIDE DEF xm, xe, xb, sm, m, e, b, es, bs
  <2>3. xm + (bs + xb) + e = m + (es + xe) + b
    BY <2>1, <2>2
  <2> QED
    BY <2>3 DEF xm, xe, xb, sm, m, e, b, es, bs
<1> QED
  BY <1>1, <1>3, <1>7, <1>12

Recorded ==
  /\ snaps \in Seq(Shots) /\ snaps # <<>>
  /\ stage = "ready" => Latest.M = M /\ Latest.live = Cardinality(agents)
  /\ stage # "ready" => opened = Latest.M

Record == Books /\ Recorded /\ Tallies(snaps)

(* What of a period a snapshot is taken of.                                *)
LEMMA PeriodFacts ==
  ASSUME Books, [Next]_vars
  PROVE  /\ (stage = "ready" /\ stage' = "ready") => M' = M /\ agents' = agents
         /\ (stage = "ready" /\ stage' # "ready") => opened' = M
         /\ (stage # "ready" /\ stage' # "ready") => opened' = opened
         /\ (stage # "ready" /\ stage' = "ready") =>
              \/ agents' = {}
              \/ /\ M' = M /\ rate' = rate
                 /\ \A k \in Tokens : M[k] + rate[k].B = opened[k] + rate[k].E
<1>1. CASE \E a \in Ids : Hold(a) \/ Earn(a) \/ Transfer(a) \/ Redeem(a) \/ Stake(a) \/ Vote(a)
  <2>1. PICK a \in Ids : Hold(a) \/ Earn(a) \/ Transfer(a) \/ Redeem(a) \/ Stake(a) \/ Vote(a)
    BY <1>1
  <2>2. stage = "act" /\ stage' = stage /\ opened' = opened
    BY <2>1 DEF Hold, Earn, Transfer, Redeem, Stake, Vote, Turn
  <2> QED
    BY <2>2
<1>2. CASE Begin
  BY <1>2 DEF Begin
<1>3. CASE Event
  BY <1>3 DEF Event
<1>4. CASE Decide
  BY <1>4 DEF Decide
<1>5. CASE Aggregate
  BY <1>5 DEF Aggregate, people
<1>6. CASE Rest
  BY <1>6 DEF Rest
<1>7. CASE Flow
  BY <1>7 DEF Flow
<1>8. CASE Close
  <2>1. stage = "flows" /\ M' = M /\ rate' = rate
    BY <1>8 DEF Close
  <2>2. \A k \in Tokens : M[k] + rate[k].B = opened[k] + rate[k].E
    BY <2>1 DEF Books, Explained
  <2>3. stage' = "ready"
    BY <1>8 DEF Close
  <2> QED
    BY <2>1, <2>2, <2>3, Zenon
<1>9. CASE UNCHANGED vars
  BY <1>9 DEF vars, people
<1> QED
  BY <1>1, <1>2, <1>3, <1>4, <1>5, <1>6, <1>7, <1>8, <1>9 DEF Next

LEMMA WatchedStep ==
  ASSUME [ExploreNext]_<<vars, snaps>>
  PROVE  /\ [Next]_vars
         /\ snaps' = IF stage' = "ready" /\ stage # "ready" THEN Append(snaps, Shot') ELSE snaps
<1>1. CASE UNCHANGED <<vars, snaps>>
  BY <1>1 DEF vars
<1>2. CASE ExploreNext
  BY <1>2 DEF ExploreNext, Watching, Next
<1> QED
  BY <1>1, <1>2

LEMMA RecordInit == ASSUME NothingUnissued, ExploreInit PROVE Record
<1>1. Books
  BY BooksInit DEF ExploreInit
<1>2. M \in [Tokens -> Nat] /\ rate \in [Tokens -> Sides] /\ pool \in [Tokens -> Sides] /\ agents \subseteq Ids
  BY <1>1 DEF Books, IInv, Amounts, People
<1>3. Cardinality(agents) \in Nat
  BY <1>2, SomeAgents, FS_CardinalityType
<1>4. Shot \in Shots
  BY <1>2, <1>3, ShotType DEF Shot
<1>5. stage = "ready" /\ snaps = <<Shot>>
  BY DEF ExploreInit, Init
<1>6. Shot.M = M /\ Shot.live = Cardinality(agents)
  BY DEF Shot
<1> HIDE DEF Shot
<1>7. Latest = Shot /\ snaps \in Seq(Shots) /\ snaps # <<>>
  BY <1>4, <1>5 DEF Latest
<1> QED
  BY <1>1, <1>4, <1>5, <1>6, <1>7, TallyOne DEF Record, Recorded

LEMMA RecordStep == ASSUME NothingUnissued, Record, [ExploreNext]_<<vars, snaps>> PROVE Record'
<1>1. /\ [Next]_vars
      /\ snaps' = IF stage' = "ready" /\ stage # "ready" THEN Append(snaps, Shot') ELSE snaps
  BY WatchedStep
<1>2. Books'
  BY <1>1, BooksStep DEF Record
<1>3. snaps \in Seq(Shots) /\ snaps # <<>> /\ Tallies(snaps)
  BY DEF Record, Recorded
<1>4. CASE ~(stage' = "ready" /\ stage # "ready")
  <2>1. snaps' = snaps /\ Latest' = Latest /\ Tallies(snaps')
    BY <1>1, <1>3, <1>4 DEF Latest
  <2>2. /\ (stage = "ready" /\ stage' = "ready") => M' = M /\ agents' = agents
        /\ (stage = "ready" /\ stage' # "ready") => opened' = M
        /\ (stage # "ready" /\ stage' # "ready") => opened' = opened
    BY <1>1, PeriodFacts DEF Record
  <2>3. Recorded'
    BY <1>4, <2>1, <2>2 DEF Record, Recorded
  <2> QED
    BY <1>2, <2>1, <2>3 DEF Record
<1>5. CASE stage' = "ready" /\ stage # "ready"
  <2> DEFINE x == Shot'
  <2>1. M' \in [Tokens -> Nat] /\ rate' \in [Tokens -> Sides] /\ pool' \in [Tokens -> Sides] /\ agents' \subseteq Ids
    BY <1>2 DEF Books, IInv, Amounts, People
  <2>2. Cardinality(agents') \in Nat
    BY <2>1, SomeAgents, FS_CardinalityType
  <2>3. x = [M |-> M', E |-> [k \in Tokens |-> rate'[k].E], B |-> [k \in Tokens |-> rate'[k].B],
             plan |-> IF period' = 0 THEN rate' ELSE pool', live |-> Cardinality(agents')]
    BY DEF Shot
  <2>4. x \in Shots
    BY <2>1, <2>2, <2>3, ShotType
  <2>5. /\ x.M = M' /\ x.live = Cardinality(agents')
        /\ \A k \in Tokens : x.E[k] = rate'[k].E /\ x.B[k] = rate'[k].B
    BY <2>3
  <2> HIDE DEF x
  <2>6. snaps' = Append(snaps, x)
    BY <1>1, <1>5 DEF x
  <2>7. Latest' = x /\ snaps' \in Seq(Shots) /\ snaps' # <<>>
    BY <1>3, <2>4, <2>6 DEF Latest
  <2>8. x.live > 0 => \A k \in Tokens : x.M[k] + x.B[k] = snaps[Len(snaps)].M[k] + x.E[k]
    <3>1. SUFFICES ASSUME x.live > 0
                   PROVE  \A k \in Tokens : x.M[k] + x.B[k] = snaps[Len(snaps)].M[k] + x.E[k]
      OBVIOUS
    <3>2. agents' # {}
      BY <2>5, <3>1, FS_EmptySet
    <3>3. M' = M /\ rate' = rate /\ \A k \in Tokens : M[k] + rate[k].B = opened[k] + rate[k].E
      BY <1>1, <1>5, <3>2, PeriodFacts DEF Record
    <3>4. opened = snaps[Len(snaps)].M
      BY <1>5 DEF Record, Recorded, Latest
    <3> QED
      BY <2>5, <3>3, <3>4
  <2>9. Tallies(snaps')
    BY <1>3, <2>4, <2>6, <2>8, TallyOneMore
  <2>10. Recorded'
    BY <1>5, <2>5, <2>7 DEF Recorded
  <2> QED
    BY <1>2, <2>9, <2>10 DEF Record
<1> QED
  BY <1>4, <1>5

LEMMA RecordInductive == ASSUME NothingUnissued PROVE ExploreSpec => []Record
<1>1. ExploreInit => Record
  BY RecordInit
<1>2. Record /\ [ExploreNext]_<<vars, snaps>> => Record'
  BY RecordStep
<1> QED
  BY <1>1, <1>2, PTL DEF ExploreSpec

(* A share for each of so many edges is no more than what is shared.       *)
LEMMA CarriedFits ==
  ASSUME NEW W, W \subseteq Types, NEW n \in Nat, NEW k, NEW where, NEW N,
         {e \in Edges : e.token = k /\ where \in {e.from, e.to}} = {N[ty] : ty \in W},
         \A ty \in W : N[ty].realised = n \div Cardinality(W)
  PROVE  Carried(k, where) \in Nat /\ Carried(k, where) <= n
<1> DEFINE S == {e \in Edges : e.token = k /\ where \in {e.from, e.to}}
           b == [e \in Edges |-> e.realised]
<1>1. IsFiniteSet(W) /\ Cardinality(W) \in Nat
  BY ExploreAssumption, FS_Subset, FS_CardinalityType
<1>2. IsFiniteSet(S) /\ Cardinality(S) <= Cardinality(W) /\ Cardinality(S) \in Nat
  <2> DEFINE f == [ty \in W |-> N[ty]]
  <2>1. f \in Surjection(W, S)
    BY DEF Surjection
  <2> HIDE DEF S, f
  <2>2. IsFiniteSet(S) /\ Cardinality(S) <= Cardinality(W)
    BY <1>1, <2>1, FS_Surjection
  <2> QED
    BY <2>2, FS_CardinalityType
<1>3. Carried(k, where) = Added(S, b)
  BY DEF Carried, Added
<1>4. CASE W = {}
  <2>1. S = {}
    BY <1>4
  <2>2. IsFiniteSet({}) /\ \A e \in {} : b[e] \in Nat
    BY FS_EmptySet
  <2> HIDE DEF b, S
  <2>3. Added(S, b) = 0
    BY <2>1, <2>2, SetFold, SumOfNone
  <2> QED
    BY <1>3, <2>3
<1>5. CASE W # {}
  <2> DEFINE c == n \div Cardinality(W)
             w == Cardinality(W)
             z == Cardinality(S)
  <2>1. w \in Nat \ {0}
    BY <1>1, <1>5, FS_EmptySet
  <2>2. c \in Nat /\ w * c <= n
    <3> HIDE DEF w
    <3>1. n \div w \in Nat /\ w * (n \div w) <= n
      BY <2>1
    <3> QED
      BY <3>1 DEF w
  <2>3. \A e \in S : b[e] = c
    OBVIOUS
  <2> HIDE DEF b, S, c
  <2>4. Added(S, b) = SumOver(S, b)
    BY <1>2, <2>2, <2>3, SetFold
  <2>5. SumOver(S, b) = z * c
    BY <1>2, <2>2, <2>3, SumOfConstant
  <2>6. z \in Nat /\ z <= w
    BY <1>2
  <2> HIDE DEF w, z
  <2>7. z * c <= w * c
    BY <2>1, <2>2, <2>6
  <2>8. z * c \in Nat /\ w * c \in Nat
    BY <2>1, <2>2, <2>6
  <2>9. z * c <= n
    BY <2>2, <2>7, <2>8
  <2> QED
    BY <1>3, <2>4, <2>5, <2>8, <2>9
<1> QED
  BY <1>4, <1>5

(* What a sum over all periods is at least.                                *)
LEMMA LastCounts ==
  ASSUME NEW s \in Seq(Shots), Len(s) > 1, NEW k \in Tokens
  PROVE  /\ s[1].E[k] <= Emitted(s, k)
         /\ s[Len(s)].B[k] + s[1].B[k] <= Burned(s, k)
<1> DEFINE n == Len(s)
           e == [i \in DOMAIN s |-> s[i].E[k]]
           b == [i \in DOMAIN s |-> s[i].B[k]]
<1>1. n \in Nat /\ n > 1 /\ DOMAIN s = 1..n
  OBVIOUS
<1>2. \A i \in 1..n : s[i] \in Shots
  OBVIOUS
<1> HIDE DEF n
<1>3. \A i \in 1..n : s[i].E[k] \in Nat /\ s[i].B[k] \in Nat
  BY <1>2 DEF Shots
<1>4. 1 \in 1..n /\ n \in 1..n /\ n # 1
  BY <1>1
<1>5. /\ DOMAIN e = 1..n /\ DOMAIN b = 1..n
      /\ \A i \in 1..n : e[i] \in Nat /\ b[i] \in Nat
      /\ e[1] = s[1].E[k] /\ b[1] = s[1].B[k] /\ b[n] = s[n].B[k]
  BY <1>1, <1>3, <1>4
<1> HIDE DEF e, b
<1>6. Emitted(s, k) = SumOver(1..n, e) /\ Burned(s, k) = SumOver(1..n, b)
  BY <1>1, <1>5, AddIs DEF Emitted, Burned, e, b
<1>7. IsFiniteSet(1..n) /\ IsFiniteSet((1..n) \ {1}) /\ IsFiniteSet(((1..n) \ {1}) \ {n})
  <2>1. IsFiniteSet(1..n)
    BY <1>1, FS_Interval
  <2> QED
    BY <2>1, FS_RemoveElement
<1> DEFINE rest == (1..n) \ {1}
<1>8. SumOver(1..n, e) = e[1] + SumOver(rest, e) /\ SumOver(rest, e) \in Nat
  BY <1>4, <1>5, <1>7, SumWithout, SumIsNat
<1>9. SumOver(1..n, b) = b[1] + SumOver(rest, b)
  BY <1>4, <1>5, <1>7, SumWithout
<1>10. SumOver(rest, b) = b[n] + SumOver(rest \ {n}, b) /\ SumOver(rest \ {n}, b) \in Nat
  BY <1>4, <1>5, <1>7, SumWithout, SumIsNat
<1>11. e[1] \in Nat /\ b[1] \in Nat /\ b[n] \in Nat
  BY <1>4, <1>5
<1> HIDE DEF rest
<1>12. SumOver(1..n, e) >= e[1] /\ SumOver(1..n, b) >= b[1] + b[n]
  BY <1>8, <1>9, <1>10, <1>11
<1> QED
  BY <1>5, <1>6, <1>8, <1>9, <1>10, <1>11, <1>12 DEF n

LEMMA LessFits ==
  ASSUME NEW a \in Nat, NEW b \in Nat, NEW c \in Nat, a <= b + c
  PROVE  Less(a, b) \in Nat /\ Less(a, b) <= c
  BY DEF Less

(* The summary of a run adds up.                                           *)
LEMMA SummaryAddsUp == ASSUME Record, stage = "ready" PROVE SummaryReconciles
<1> SUFFICES ASSUME Len(snaps) > 1, \A t \in Periods \ {0} : At(t).live > 0
             PROVE  /\ \A h \in Headlines :
                        CASE h.about = "supply" -> h.to + h.removed - First.B[h.of] = h.from + h.created - First.E[h.of]
                          [] h.about = "holds"  -> h.held <= Latest.M[Primary]
                          [] h.about = "exits"  -> h.gone + h.to = h.from
                    /\ \A k \in Tokens : /\ Carried(k, "mint") <= CumulativeE(k) - First.E[k]
                                         /\ Carried(k, "burn") <= CumulativeB(k) - First.B[k]
  BY DEF SummaryReconciles
<1> DEFINE n == Len(snaps)
<1>1. snaps \in Seq(Shots) /\ n \in Nat /\ n > 1
  BY DEF Record, Recorded
<1>2. First \in Shots /\ Latest \in Shots
  BY <1>1 DEF First, Latest
<1>3. \A i \in 2..n : snaps[i].live > 0
  <2>1. SUFFICES ASSUME NEW i \in 2..n PROVE snaps[i].live > 0
    OBVIOUS
  <2> HIDE DEF n
  <2>2. i - 1 \in (0..(n - 1)) \ {0} /\ (i - 1) + 1 = i
    BY <1>1
  <2> QED
    BY <2>2 DEF Periods, At, n
<1>4. ASSUME NEW k \in Tokens
      PROVE  /\ Latest.M[k] + CumulativeB(k) + First.E[k] = First.M[k] + CumulativeE(k) + First.B[k]
             /\ First.E[k] <= CumulativeE(k) /\ Latest.B[k] + First.B[k] <= CumulativeB(k)
             /\ First.M[k] \in Nat /\ First.E[k] \in Nat /\ First.B[k] \in Nat
             /\ Latest.M[k] \in Nat /\ Latest.B[k] \in Nat
             /\ CumulativeE(k) \in Nat /\ CumulativeB(k) \in Nat
  <2>1. Latest.M[k] + CumulativeB(k) + First.E[k] = First.M[k] + CumulativeE(k) + First.B[k]
    BY <1>3 DEF Record, Tallies, First, Latest, CumulativeE, CumulativeB
  <2>2. First.E[k] <= CumulativeE(k) /\ Latest.B[k] + First.B[k] <= CumulativeB(k)
    BY <1>1, LastCounts DEF First, Latest, CumulativeE, CumulativeB
  <2>3. CumulativeE(k) \in Nat /\ CumulativeB(k) \in Nat
    BY <1>1, Counted DEF CumulativeE, CumulativeB
  <2>4. /\ First.M[k] \in Nat /\ First.E[k] \in Nat /\ First.B[k] \in Nat
        /\ Latest.M[k] \in Nat /\ Latest.B[k] \in Nat
    BY <1>2 DEF Shots
  <2> QED
    BY <2>1, <2>2, <2>3, <2>4
<1> HIDE DEF n
<1>5. ASSUME NEW h \in Headlines
      PROVE  CASE h.about = "supply" -> h.to + h.removed - First.B[h.of] = h.from + h.created - First.E[h.of]
               [] h.about = "holds"  -> h.held <= Latest.M[Primary]
               [] h.about = "exits"  -> h.gone + h.to = h.from
  <2>1. CASE h \in {[about |-> "supply", of |-> k, from |-> First.M[k], to |-> Latest.M[k],
                     created |-> CumulativeE(k), removed |-> CumulativeB(k)] :
                      k \in {k \in Tokens : First.M[k] # Latest.M[k]}}
    <3>1. PICK k \in Tokens : h = [about |-> "supply", of |-> k, from |-> First.M[k], to |-> Latest.M[k],
                                   created |-> CumulativeE(k), removed |-> CumulativeB(k)]
      BY <2>1
    <3>2. h.about = "supply" /\ h.of = k /\ h.from = First.M[k] /\ h.to = Latest.M[k]
          /\ h.created = CumulativeE(k) /\ h.removed = CumulativeB(k)
      BY <3>1
    <3>3. Latest.M[k] + CumulativeB(k) - First.B[k] = First.M[k] + CumulativeE(k) - First.E[k]
      <4> DEFINE m == Latest.M[k]
                 b == CumulativeB(k)
                 e == CumulativeE(k)
                 fm == First.M[k]
                 fe == First.E[k]
                 fb == First.B[k]
      <4>1. m + b + fe = fm + e + fb /\ m \in Nat /\ b \in Nat /\ e \in Nat /\ fm \in Nat /\ fe \in Nat /\ fb \in Nat
        BY <1>4
      <4> HIDE DEF m, b, e, fm, fe, fb
      <4>2. m + b - fb = fm + e - fe
        BY <4>1
      <4> QED
        BY <4>2 DEF m, b, e, fm, fe, fb
    <3> QED
      BY <3>2, <3>3
  <2>2. CASE h \in {[about |-> "holds", of |-> ty, count |-> ByType[ty].count, held |-> ByType[ty].held] : ty \in Richest}
    <3>1. PICK ty \in Richest : h = [about |-> "holds", of |-> ty, count |-> ByType[ty].count, held |-> ByType[ty].held]
      BY <2>2
    <3>2. h.about = "holds" /\ h.held = ByType[ty].held
      BY <3>1
    <3>3. ty \in {kind[a] : a \in agents}
      BY DEF Richest, ByType
    <3> DEFINE members == {a \in agents : kind[a] = ty}
    <3>4. ByType[ty].held = Held(members, balance)
      BY <3>3 DEF ByType
    <3>5. agents \subseteq Ids /\ members \subseteq agents /\ \A a \in agents : balance[a] \in Nat /\ balance[a] <= balance[a]
      BY DEF Record, Books, IInv, People
    <3> HIDE DEF members
    <3>6. Held(members, balance) = SumOver(members, balance) /\ SumOver(members, balance) \in Nat
      BY <3>5, HeldIs
    <3>7. SumOver(members, balance) <= SumOver(agents, balance)
      BY <3>5, SomeAgents, SumGrows
    <3>8. SumOver(agents, balance) <= Latest.M[Primary] /\ SumOver(agents, balance) \in Nat
      BY <3>5, HeldIs DEF Record, Recorded, Books, Issued
    <3>9. Latest.M[Primary] \in Nat
      BY <1>4, EngineAssumption
    <3>10. h.held <= Latest.M[Primary]
      BY <3>2, <3>4, <3>6, <3>7, <3>8, <3>9
    <3> QED
      BY <3>2, <3>10
  <2>3. CASE Exited > 0 /\ h = [about |-> "exits", gone |-> Exited, from |-> First.live, to |-> Latest.live]
    <3>1. h.about = "exits" /\ h.gone = Exited /\ h.from = First.live /\ h.to = Latest.live
      BY <2>3
    <3>2. First.live \in Nat /\ Latest.live \in Nat
      BY <1>2 DEF Shots
    <3>3. Exited + Latest.live = First.live
      BY <2>3, <3>2 DEF Exited, Less
    <3> QED
      BY <3>1, <3>3
  <2>4. \/ h \in {[about |-> "supply", of |-> k, from |-> First.M[k], to |-> Latest.M[k],
                   created |-> CumulativeE(k), removed |-> CumulativeB(k)] :
                    k \in {k \in Tokens : First.M[k] # Latest.M[k]}}
        \/ h \in {[about |-> "holds", of |-> ty, count |-> ByType[ty].count, held |-> ByType[ty].held] : ty \in Richest}
        \/ h \in IF Exited > 0 THEN {[about |-> "exits", gone |-> Exited, from |-> First.live, to |-> Latest.live]} ELSE {}
    BY Zenon DEF Headlines
  <2>5. (h \in IF Exited > 0 THEN {[about |-> "exits", gone |-> Exited, from |-> First.live, to |-> Latest.live]} ELSE {})
          => Exited > 0 /\ h = [about |-> "exits", gone |-> Exited, from |-> First.live, to |-> Latest.live]
    OBVIOUS
  <2> QED
    BY <2>1, <2>2, <2>3, <2>4, <2>5, Zenon
<1>6. ASSUME NEW k \in Tokens
      PROVE  Carried(k, "mint") <= CumulativeE(k) - First.E[k] /\ Carried(k, "burn") <= CumulativeB(k) - First.B[k]
  <2>1. RealisedE(k) \in Nat /\ RealisedE(k) <= CumulativeE(k) - First.E[k]
    <3> DEFINE m == Latest.M[k]
               l == Latest.B[k]
               b == CumulativeB(k)
               e == CumulativeE(k)
               fm == First.M[k]
               fe == First.E[k]
               fb == First.B[k]
    <3>1. /\ m + b + fe = fm + e + fb /\ fe <= e /\ l + fb <= b
          /\ m \in Nat /\ l \in Nat /\ b \in Nat /\ e \in Nat /\ fm \in Nat /\ fe \in Nat /\ fb \in Nat
      BY <1>4
    <3>2. RealisedE(k) = Less(m + l, fm)
      BY DEF RealisedE, RealisedB
    <3> HIDE DEF m, l, b, e, fm, fe, fb
    <3>3. m + l \in Nat /\ m + l <= fm + (e - fe) /\ e - fe \in Nat
      BY <3>1
    <3>4. RealisedE(k) \in Nat /\ RealisedE(k) <= e - fe
      BY <3>1, <3>2, <3>3, LessFits
    <3> QED
      BY <3>4 DEF e, fe
  <2>2. RealisedB(k) \in Nat /\ RealisedB(k) <= CumulativeB(k) - First.B[k]
    BY <1>4 DEF RealisedB
  <2>3. May("earn") \subseteq Types /\ May("redeem") \subseteq Types
    BY DEF May
  <2>4. "mint" \notin Types /\ "burn" \notin Types /\ "mint" # "burn"
    BY ExploreAssumption
  <2>5. Carried(k, "mint") \in Nat /\ Carried(k, "mint") <= RealisedE(k)
    <3> DEFINE W == May("earn")
               N == [ty \in W |-> [from |-> "mint", to |-> ty, token |-> k, realised |-> RealisedE(k) \div Cardinality(W)]]
    <3>1. {e \in Edges : e.token = k /\ "mint" \in {e.from, e.to}} = {N[ty] : ty \in W}
      <4>1. ASSUME NEW e \in Edges, e.token = k, "mint" \in {e.from, e.to} PROVE e \in {N[ty] : ty \in W}
        BY <2>3, <2>4, <4>1 DEF Edges
      <4>2. ASSUME NEW ty \in W PROVE N[ty] \in Edges /\ N[ty].token = k /\ N[ty].from = "mint"
        BY DEF Edges
      <4> QED
        BY <4>1, <4>2
    <3>2. \A ty \in W : N[ty].realised = RealisedE(k) \div Cardinality(W)
      OBVIOUS
    <3> HIDE DEF N, W
    <3>3. W \subseteq Types
      BY <2>3 DEF W
    <3> QED
      BY <2>1, <3>1, <3>2, <3>3, CarriedFits
  <2>6. Carried(k, "burn") \in Nat /\ Carried(k, "burn") <= RealisedB(k)
    <3> DEFINE W == May("redeem")
               N == [ty \in W |-> [from |-> ty, to |-> "burn", token |-> k, realised |-> RealisedB(k) \div Cardinality(W)]]
    <3>1. {e \in Edges : e.token = k /\ "burn" \in {e.from, e.to}} = {N[ty] : ty \in W}
      <4>1. ASSUME NEW e \in Edges, e.token = k, "burn" \in {e.from, e.to} PROVE e \in {N[ty] : ty \in W}
        BY <2>3, <2>4, <4>1 DEF Edges
      <4>2. ASSUME NEW ty \in W PROVE N[ty] \in Edges /\ N[ty].token = k /\ N[ty].to = "burn"
        BY DEF Edges
      <4> QED
        BY <4>1, <4>2
    <3>2. \A ty \in W : N[ty].realised = RealisedB(k) \div Cardinality(W)
      OBVIOUS
    <3> HIDE DEF N, W
    <3>3. W \subseteq Types
      BY <2>3 DEF W
    <3> QED
      BY <2>2, <3>1, <3>2, <3>3, CarriedFits
  <2> QED
    BY <1>4, <2>1, <2>2, <2>5, <2>6
<1> QED
  BY <1>5, <1>6

(* What every period keeps to, their average keeps to.                     *)
LEMMA SumsApart ==
  ASSUME NEW n \in Nat, NEW a, NEW b, \A i \in 1..n : a[i] \in Nat /\ b[i] \in Nat,
         NEW t \in Int, \A i \in 1..n : a[i] - b[i] <= t
  PROVE  SumOver(1..n, a) - SumOver(1..n, b) <= t * n
<1> DEFINE A == SumOver(1..n, a)
           B == SumOver(1..n, b)
<1>1. IsFiniteSet(1..n) /\ Cardinality(1..n) = n
  BY FS_Interval
<1>2. A \in Nat /\ B \in Nat
  BY <1>1, SumIsNat
<1>3. CASE t >= 0
  <2>1. t \in Nat /\ \A i \in 1..n : 1 * a[i] + 0 <= 1 * b[i] + t
    BY <1>3
  <2>2. 1 * SumOver(1..n, a) + Cardinality(1..n) * 0 <= 1 * SumOver(1..n, b) + Cardinality(1..n) * t
    BY <1>1, <2>1, SumIsLinear
  <2> HIDE DEF A, B
  <2>3. 1 * A + n * 0 <= 1 * B + n * t
    BY <1>1, <2>2 DEF A, B
  <2>4. n * t \in Nat /\ n * t = t * n
    BY <2>1
  <2>5. A <= B + t * n
    BY <1>2, <2>3, <2>4
  <2>6. A - B <= t * n
    BY <1>2, <2>4, <2>5
  <2> QED
    BY <2>6 DEF A, B
<1>4. CASE t < 0
  <2> DEFINE u == -t
  <2>1. u \in Nat /\ t = -u
    BY <1>4
  <2> HIDE DEF u
  <2>2. \A i \in 1..n : 1 * a[i] + u <= 1 * b[i] + 0
    BY <2>1
  <2>3. 1 * SumOver(1..n, a) + Cardinality(1..n) * u <= 1 * SumOver(1..n, b) + Cardinality(1..n) * 0
    BY <1>1, <2>1, <2>2, SumIsLinear
  <2> HIDE DEF A, B
  <2>4. 1 * A + n * u <= 1 * B + n * 0
    BY <1>1, <2>3 DEF A, B
  <2>5. n * u \in Nat /\ t * n = -(n * u)
    BY <2>1
  <2>6. A + n * u <= B
    BY <1>2, <2>4, <2>5
  <2>7. A - B <= t * n
    BY <1>2, <2>5, <2>6
  <2> QED
    BY <2>7 DEF A, B
<1> QED
  BY <1>3, <1>4

LEMMA SumsInRatio ==
  ASSUME NEW n \in Nat, NEW a, NEW b, \A i \in 1..n : a[i] \in Nat /\ b[i] \in Nat,
         NEW p \in Nat, NEW t \in Nat, \A i \in 1..n : t * a[i] <= p * b[i]
  PROVE  t * SumOver(1..n, a) <= p * SumOver(1..n, b)
<1> DEFINE A == SumOver(1..n, a)
           B == SumOver(1..n, b)
<1>1. IsFiniteSet(1..n) /\ Cardinality(1..n) = n
  BY FS_Interval
<1>2. A \in Nat /\ B \in Nat
  BY <1>1, SumIsNat
<1>3. \A i \in 1..n : t * a[i] + 0 <= p * b[i] + 0
  <2>1. SUFFICES ASSUME NEW i \in 1..n PROVE t * a[i] + 0 <= p * b[i] + 0
    OBVIOUS
  <2> DEFINE x == t * a[i]
             y == p * b[i]
  <2>2. x \in Nat /\ y \in Nat /\ x <= y
    OBVIOUS
  <2> HIDE DEF x, y
  <2>3. x + 0 <= y + 0
    BY <2>2
  <2> QED
    BY <2>3 DEF x, y
<1>4. t * SumOver(1..n, a) + Cardinality(1..n) * 0 <= p * SumOver(1..n, b) + Cardinality(1..n) * 0
  BY <1>1, <1>3, SumIsLinear
<1> DEFINE x == t * A
           y == p * B
<1>5. x + n * 0 <= y + n * 0
  BY <1>1, <1>4
<1>6. x \in Nat /\ y \in Nat
  BY <1>2
<1> HIDE DEF x, y
<1>7. x <= y
  BY <1>5, <1>6
<1> QED
  BY <1>7 DEF x, y

ClauseOK(c) ==
  /\ c.variable \in {"net", "rho", "M"} /\ c.token \in Tokens /\ c.threshold \in Int
  /\ c.op \in IF c.variable = "rho" THEN {">="} ELSE {"<=", ">="}

LEMMA SteadyNet ==
  ASSUME NEW r \in Seq(Shots), NEW c, ClauseOK(c), c.variable = "net",
         \A i \in 1..Len(r) : Meets(c.op, Reading(r[i], c), c.threshold)
  PROVE  Meets(c.op, SteadyRate(c, r), c.threshold)
<1> DEFINE n == Len(r)
           k == c.token
           t == c.threshold
           e == [i \in DOMAIN r |-> r[i].E[k]]
           b == [i \in DOMAIN r |-> r[i].B[k]]
           A == SumOver(1..n, e)
           B == SumOver(1..n, b)
<1>1. n \in Nat /\ DOMAIN r = 1..n
  OBVIOUS
<1>2. \A i \in 1..n : r[i] \in Shots
  OBVIOUS
<1>3. k \in Tokens /\ t \in Int
  BY DEF ClauseOK
<1>4. c.op = "<=" \/ c.op = ">="
  BY DEF ClauseOK
<1>5. \A i \in 1..n : Meets(c.op, Over(r[i].E[k] - r[i].B[k], 1), t)
  BY DEF Reading
<1> HIDE DEF n, k, t
<1>6. \A i \in 1..n : r[i].E[k] \in Nat /\ r[i].B[k] \in Nat
  BY <1>2, <1>3 DEF Shots
<1>7. /\ DOMAIN e = 1..n /\ DOMAIN b = 1..n
      /\ \A i \in 1..n : e[i] \in Nat /\ b[i] \in Nat /\ e[i] = r[i].E[k] /\ b[i] = r[i].B[k]
  BY <1>1, <1>6
<1> HIDE DEF e, b
<1>8. Emitted(r, k) = A /\ Burned(r, k) = B /\ A \in Nat /\ B \in Nat
  BY <1>1, <1>7, AddIs DEF Emitted, Burned, e, b
<1> HIDE DEF A, B
<1>9. SteadyRate(c, r) = Over(A - B, n)
  BY <1>8 DEF SteadyRate, k, n
<1>10. CASE c.op = "<="
  <2>1. \A i \in 1..n : e[i] - b[i] <= t
    <3>1. SUFFICES ASSUME NEW i \in 1..n PROVE e[i] - b[i] <= t
      OBVIOUS
    <3>2. r[i].E[k] - r[i].B[k] <= t * 1
      BY <1>5, <1>10, <3>1 DEF Meets, Over
    <3> QED
      BY <1>3, <1>7, <3>2
  <2>2. A - B <= t * n
    BY <1>1, <1>3, <1>7, <2>1, SumsApart DEF A, B
  <2> QED
    BY <1>9, <1>10, <2>2 DEF Meets, Over, t
<1>11. CASE c.op = ">="
  <2>1. \A i \in 1..n : b[i] - e[i] <= -t
    <3>1. SUFFICES ASSUME NEW i \in 1..n PROVE b[i] - e[i] <= -t
      OBVIOUS
    <3>2. r[i].E[k] - r[i].B[k] >= t * 1
      BY <1>5, <1>11, <3>1 DEF Meets, Over
    <3> QED
      BY <1>3, <1>7, <3>2
  <2>2. -t \in Int
    BY <1>3
  <2>3. B - A <= (-t) * n
    BY <1>1, <1>7, <2>1, <2>2, SumsApart DEF A, B
  <2>4. (-t) * n = -(t * n) /\ t * n \in Int
    BY <1>1, <1>3
  <2> DEFINE x == t * n
  <2> HIDE DEF x
  <2>5. B - A <= -x /\ x \in Int
    BY <2>3, <2>4 DEF x
  <2>6. A - B >= x
    BY <1>8, <2>5
  <2> QED
    BY <1>9, <1>11, <2>6 DEF Meets, Over, t, x
<1> QED
  BY <1>4, <1>10, <1>11

LEMMA SteadyRho ==
  ASSUME NEW r \in Seq(Shots), NEW c, ClauseOK(c), c.variable = "rho",
         \A i \in 1..Len(r) : Meets(c.op, Reading(r[i], c), c.threshold)
  PROVE  Meets(c.op, SteadyRate(c, r), c.threshold)
<1> DEFINE n == Len(r)
           k == c.token
           t == c.threshold
           e == [i \in DOMAIN r |-> r[i].E[k]]
           b == [i \in DOMAIN r |-> r[i].B[k]]
           A == SumOver(1..n, e)
           B == SumOver(1..n, b)
           creating == Add([i \in DOMAIN r |-> r[i].plan[k].E])
           removing == Add([i \in DOMAIN r |-> r[i].plan[k].B])
           planned  == creating > 0 /\ 100 * removing >= t * creating /\ 100 * B >= Enough * A
<1>1. n \in Nat /\ DOMAIN r = 1..n
  OBVIOUS
<1>2. \A i \in 1..n : r[i] \in Shots
  OBVIOUS
<1>3. k \in Tokens /\ t \in Int /\ c.op = ">="
  BY DEF ClauseOK
<1>4. \A i \in 1..n : Meets(">=", IF r[i].E[k] > 0 THEN Over(100 * r[i].B[k], r[i].E[k]) ELSE Over(0, 1), t)
  BY <1>3 DEF Reading
<1> HIDE DEF n, k, t
<1>5. \A i \in 1..n : r[i].E[k] \in Nat /\ r[i].B[k] \in Nat
  BY <1>2, <1>3 DEF Shots
<1>6. /\ DOMAIN e = 1..n /\ DOMAIN b = 1..n
      /\ \A i \in 1..n : e[i] \in Nat /\ b[i] \in Nat /\ e[i] = r[i].E[k] /\ b[i] = r[i].B[k]
  BY <1>1, <1>5
<1> HIDE DEF e, b
<1>7. Emitted(r, k) = A /\ Burned(r, k) = B /\ A \in Nat /\ B \in Nat
  BY <1>1, <1>6, AddIs DEF Emitted, Burned, e, b
<1> HIDE DEF A, B, creating, removing
<1>8. SteadyRate(c, r) = IF A = 0 THEN Over(t, 1) ELSE IF planned THEN Over(100 * removing, creating) ELSE Over(100 * B, A)
  BY <1>7 DEF SteadyRate, k, t, creating, removing
<1>9. CASE A = 0
  <2>1. SteadyRate(c, r) = Over(t, 1)
    BY <1>8, <1>9
  <2>2. t >= t * 1
    BY <1>3
  <2> QED
    BY <1>3, <2>1, <2>2 DEF Meets, Over, t
<1>10. CASE A # 0 /\ planned
  <2>1. SteadyRate(c, r) = Over(100 * removing, creating)
    BY <1>8, <1>10
  <2>2. 100 * removing >= t * creating
    BY <1>10
  <2> QED
    BY <1>3, <2>1, <2>2 DEF Meets, Over, t
<1>11. CASE A # 0 /\ ~planned
  <2>1. SteadyRate(c, r) = Over(100 * B, A)
    BY <1>8, <1>11
  <2>2. 100 * B >= t * A
    <3>1. CASE t <= 0
      <4> DEFINE x == t * A
      <4>1. x \in Int /\ x <= 0
        BY <1>3, <1>7, <3>1
      <4> HIDE DEF x
      <4>2. 100 * B >= x
        BY <1>7, <4>1
      <4> QED
        BY <4>2 DEF x
    <3>2. CASE t > 0
      <4>1. t \in Nat /\ 100 \in Nat
        BY <1>3, <3>2
      <4>2. \A i \in 1..n : t * e[i] <= 100 * b[i]
        <5>1. SUFFICES ASSUME NEW i \in 1..n PROVE t * e[i] <= 100 * b[i]
          OBVIOUS
        <5> DEFINE x == r[i].E[k]
                   y == r[i].B[k]
        <5>2. x \in Nat /\ y \in Nat /\ e[i] = x /\ b[i] = y
          BY <1>5, <1>6, <5>1
        <5>3. Meets(">=", IF x > 0 THEN Over(100 * y, x) ELSE Over(0, 1), t)
          BY <1>4, <5>1
        <5> HIDE DEF x, y
        <5>4. CASE x > 0
          <6>1. Meets(">=", Over(100 * y, x), t)
            BY <5>3, <5>4
          <6>2. 100 * y >= t * x
            BY <6>1 DEF Meets, Over
          <6> DEFINE u == t * x
                     v == 100 * y
          <6>3. u \in Nat /\ v \in Nat /\ v >= u
            BY <4>1, <5>2, <6>2
          <6> HIDE DEF u, v
          <6>4. u <= v
            BY <6>3
          <6> QED
            BY <5>2, <6>4 DEF u, v
        <5>5. CASE x = 0
          <6>1. Meets(">=", Over(0, 1), t)
            BY <5>3, <5>5
          <6>2. 0 >= t * 1
            BY <6>1 DEF Meets, Over
          <6> QED
            BY <3>2, <4>1, <6>2
        <5> QED
          BY <5>2, <5>4, <5>5
      <4>3. t * A <= 100 * B
        BY <1>1, <1>6, <4>1, <4>2, SumsInRatio DEF A, B
      <4> DEFINE x == t * A
                 y == 100 * B
      <4>4. x \in Nat /\ y \in Nat /\ x <= y
        BY <1>7, <4>1, <4>3
      <4> HIDE DEF x, y
      <4>5. y >= x
        BY <4>4
      <4> QED
        BY <4>5 DEF x, y
    <3> QED
      BY <1>3, <3>1, <3>2
  <2> QED
    BY <1>3, <2>1, <2>2 DEF Meets, Over, t
<1> QED
  BY <1>9, <1>10, <1>11

(* The window of a period is of the periods up to it.                      *)
LEMMA WindowOf ==
  ASSUME snaps \in Seq(Shots), NEW t \in Periods
  PROVE  /\ Recent(t) \in Seq(Shots)
         /\ \A i \in 1..Len(Recent(t)) : \E p \in Periods : Recent(t)[i] = At(p)
<1> DEFINE lo == Larger(1, t + 2 - Window)
           hi == t + 1
           n == Len(snaps)
<1>1. n \in Nat /\ t \in Nat /\ hi <= n /\ hi \in Nat
  BY DEF Periods
<1>2. lo \in Nat /\ lo >= 1 /\ lo <= hi
  BY <1>1, ExploreAssumption DEF Larger
<1> HIDE DEF lo, hi, n
<1>3. Recent(t) = [i \in 1..(hi - lo + 1) |-> snaps[i + lo - 1]]
  BY <1>1, <1>2 DEF Recent, lo, hi
<1>4. hi - lo + 1 \in Nat
  BY <1>1, <1>2
<1>5. ASSUME NEW i \in 1..(hi - lo + 1) PROVE i + lo - 1 \in 1..n /\ i + lo - 2 \in 0..(n - 1) /\ (i + lo - 2) + 1 = i + lo - 1
  BY <1>1, <1>2
<1>6. \A i \in 1..(hi - lo + 1) : snaps[i + lo - 1] \in Shots
  BY <1>5 DEF n
<1>7. Recent(t) \in Seq(Shots) /\ Len(Recent(t)) = hi - lo + 1
  BY <1>3, <1>4, <1>6
<1>8. ASSUME NEW i \in 1..(hi - lo + 1) PROVE \E p \in Periods : Recent(t)[i] = At(p)
  <2> DEFINE p == i + lo - 2
  <2>1. p \in Periods
    BY <1>5 DEF Periods, n
  <2>2. At(p) = snaps[i + lo - 1]
    BY <1>5 DEF At
  <2>3. Recent(t)[i] = snaps[i + lo - 1]
    BY <1>3
  <2> QED
    BY <2>1, <2>2, <2>3
<1> QED
  BY <1>7, <1>8

(* A run that the comparison finds clean has no violation.                 *)
LEMMA ClauseHolds ==
  ASSUME snaps \in Seq(Shots), NEW c, ClauseOK(c), Crossed(c) = {}, NEW t \in Periods
  PROVE  Meets(c.op, Value(c, t), c.threshold)
<1>1. \A p \in Periods : Meets(c.op, Reading(At(p), c), c.threshold)
  BY DEF Crossed
<1>2. CASE ~Settled(c, t)
  BY <1>1, <1>2 DEF Value
<1>3. CASE Settled(c, t)
  <2>1. Value(c, t) = SteadyRate(c, Recent(t)) /\ c.variable \in {"net", "rho"}
    BY <1>3 DEF Value, Settled, IsRate
  <2>2. Recent(t) \in Seq(Shots)
    BY WindowOf
  <2>3. \A i \in 1..Len(Recent(t)) : Meets(c.op, Reading(Recent(t)[i], c), c.threshold)
    BY <1>1, WindowOf
  <2>4. CASE c.variable = "net"
    BY <2>1, <2>2, <2>3, <2>4, SteadyNet
  <2>5. CASE c.variable = "rho"
    BY <2>1, <2>2, <2>3, <2>5, SteadyRho
  <2> QED
    BY <2>1, <2>4, <2>5
<1> QED
  BY <1>2, <1>3

LEMMA CleanRunIsSafe == ASSUME snaps \in Seq(Shots) PROVE CleanIsSafe
<1> SUFFICES ASSUME NEW fm \in DOMAIN Watched, Coherence(fm) \in {"aligned", "fragile_avoided", "verifier_pessimistic"}
             PROVE  Outcome(fm) \in {"safe", "skipped"}
  BY DEF CleanIsSafe
<1> DEFINE clauses == Watched[fm].clauses
           status  == Watched[fm].status
           crossed == \E c \in clauses : Crossed(c) # {}
           clean   == AllSafe(clauses, {c \in clauses : Crossed(c) = {}})
<1>1. status \in {"sound", "fragile", "broken", "inconclusive"} /\ \A c \in clauses : ClauseOK(c)
  BY ExploreAssumption DEF ClauseOK
<1>2. Coherence(fm) =
        CASE status = "inconclusive"        -> "inconclusive"
          [] status = "sound" /\ clean      -> "aligned"
          [] status = "sound" /\ ~clean     -> "abm_drift"
          [] status = "broken"              -> IF crossed THEN "confirmed" ELSE "verifier_pessimistic"
          [] status = "fragile"             -> IF crossed THEN "fragile_realised" ELSE "fragile_avoided"
  BY DEF Coherence
<1>3. ~crossed => clean
  BY DEF AllSafe
<1> HIDE DEF clauses, status, crossed, clean
<1>4. clean
  <2>1. CASE status = "inconclusive"
    <3>1. Coherence(fm) = "inconclusive"
      BY <1>2, <2>1
    <3> QED
      BY <3>1
  <2>2. CASE status = "sound"
    <3>1. ~clean => Coherence(fm) = "abm_drift"
      BY <1>2, <2>2
    <3> QED
      BY <3>1
  <2>3. CASE status = "broken"
    <3>1. crossed => Coherence(fm) = "confirmed"
      BY <1>2, <2>3
    <3> QED
      BY <1>3, <3>1
  <2>4. CASE status = "fragile"
    <3>1. crossed => Coherence(fm) = "fragile_realised"
      BY <1>2, <2>4
    <3> QED
      BY <1>3, <3>1
  <2> QED
    BY <1>1, <2>1, <2>2, <2>3, <2>4
<1>5. ASSUME NEW t \in Periods PROVE Safe(fm, t)
  <2> DEFINE held == {c \in clauses : (Settled(c, t) /\ t < Startup) \/ Meets(c.op, Value(c, t), c.threshold)}
  <2>1. \A c \in clauses : Crossed(c) = {} => c \in held
    BY <1>1, ClauseHolds
  <2>2. AllSafe(clauses, held)
    BY <1>4, <2>1 DEF clean, AllSafe
  <2> QED
    BY <2>2 DEF Safe, clauses
<1>6. Violations(fm) = {}
  BY <1>5 DEF Violations
<1> QED
  BY <1>6 DEF Outcome

------------------------------------------------------------------------------
(* The states of a run are well typed: no balance, supply or rate ever     *)
(* falls below zero, no agent, token or event is named that is not there.  *)
THEOREM EngineTyped == Spec => []TypeOK
<1>1. IInv => TypeOK
  BY Groups DEF IInv
<1> QED
  BY <1>1, Inductive, PTL

(* The cap sampled for a token holds in every state of every run, however  *)
(* many rules, earners and flows create it (mint_room: "M(t) <= C holds in *)
(* every run").                                                            *)
THEOREM SupplyCapped == Spec => []CapHolds
<1>1. IInv => CapHolds
  BY DEF IInv
<1> QED
  BY <1>1, Inductive, PTL

(* What the rules plan for a period is the sum of what each of them        *)
(* contributes now, however often regimes start and rates are replaced     *)
(* (_bring_up_to_date: old contribution out, new one in).                  *)
THEOREM PlanIsTheRules == Spec => []BaselineIsTheRules
<1>1. IInv => BaselineIsTheRules
  BY DEF IInv
<1> QED
  BY <1>1, Inductive, PTL

(* A stake is safe until it ends: neither an action of its owner or of     *)
(* another agent nor the rest of the burn pool touches it, whoever arrives *)
(* or leaves (execute_action: "don't transfer/redeem until unlock").       *)
THEOREM StakesAreSafe == Spec => StakedStays
<1>1. IInv /\ [Next]_vars =>
        [\A a \in agents : (Locked(a) /\ stage # "people" /\ a \in agents') => balance'[a] >= balance[a]]_vars
  BY NextStep DEF SafeStakes
<1> QED
  BY <1>1, Inductive, PTL DEF Spec, StakedStays

(* The agents realize at most what the rules plan, and draw the whole burn *)
(* pool unless they have spent everything, whatever they hold and wherever *)
(* it came from (redeem_remaining).                                        *)
THEOREM PlanIsRealised == Spec => []PlanRealised
<1>1. Init => Schedule
  BY InitAmounts, InitOthers DEF Init, IInv, Asleep, Schedule, Planned, Drawn
<1>2. Schedule /\ [Next]_vars => Schedule'
  BY ScheduleStep
<1>3. ASSUME Schedule PROVE PlanRealised
  <2>1. ASSUME stage = "act"
        PROVE  rate[Primary].E <= pool[Primary].E /\ rate[Primary].B <= pool[Primary].B
    <3> DEFINE x == share.E * Cardinality(Waiting("earn"))
               y == share.B * Cardinality(Waiting("redeem"))
    <3>1. rate[Primary].E + x <= pool[Primary].E /\ rate[Primary].B + y <= pool[Primary].B
      BY <1>3, <2>1 DEF Schedule, Planned
    <3>2. Waiting("earn") \subseteq Ids /\ Waiting("redeem") \subseteq Ids
      BY <1>3 DEF Waiting, Schedule, IInv, People
    <3>3. Cardinality(Waiting("earn")) \in Nat /\ Cardinality(Waiting("redeem")) \in Nat
      BY <3>2, SomeAgents, FS_CardinalityType
    <3>4. share.E \in Nat /\ share.B \in Nat /\ rate[Primary].E \in Nat /\ rate[Primary].B \in Nat
          /\ pool[Primary].E \in Nat /\ pool[Primary].B \in Nat
      BY <1>3, EngineAssumption DEF Schedule, IInv, Amounts, Sides
    <3>5. x \in Nat /\ y \in Nat
      BY <3>3, <3>4
    <3> HIDE DEF x, y
    <3> QED
      BY <3>1, <3>4, <3>5
  <2> QED
    BY <1>3, <2>1 DEF PlanRealised, Schedule, Drawn
<1> QED
  BY <1>1, <1>2, <1>3, PTL DEF Spec

(* The books balance in every run, for any number of agents, tokens, rules *)
(* and flows and any order of turns: what the agents hold was issued, the  *)
(* cap holds, and the rates a period reports explain its change of supply. *)
THEOREM BooksAlwaysBalance == ASSUME NothingUnissued PROVE Spec => []BooksBalance
<1>1. Books => HeldIsIssued
  <2>1. ASSUME Books PROVE agents \subseteq Ids /\ \A a \in agents : balance[a] \in Nat
    BY <2>1 DEF Books, IInv, People
  <2> QED
    BY <2>1, HeldIs DEF Books, Issued, HeldIsIssued
<1>2. Books => TypeOK /\ CapHolds /\ SupplyExplained
  BY Groups DEF Books, IInv, Explained, SupplyExplained
<1>3. Books => BooksBalance
  BY <1>1, <1>2 DEF BooksBalance
<1> QED
  BY <1>3, BooksInductive, PTL

(* What is reported of a run agrees with the run and with itself, for any  *)
(* number of periods, tokens, agents and clauses: the summary, headlines   *)
(* and graph add up, and a run that the comparison finds clean counts no   *)
(* violation, though the one reads periods and the other windows and plans *)
(* (explore.py:_headlines, coherence.py, _steady_rate in engine.py).       *)
THEOREM ReportsAlwaysAgree == ASSUME NothingUnissued PROVE ExploreSpec => []ReportsAgree
<1>1. Record => snaps \in Seq(Shots)
  BY DEF Record, Recorded
<1>2. Record => ReportsAgree
  BY <1>1, SummaryAddsUp, CleanRunIsSafe DEF ReportsAgree
<1> QED
  BY <1>2, RecordInductive, PTL
==============================================================================
