---------------------------- MODULE VerdictsProofs ----------------------------
(***************************************************************************)
(* Proofs about the verdicts: of a design that the checks call sound, once *)
(* its ranges are settled, no period that the simulator makes of it        *)
(* violates what it is told to watch, but for the cases that Excepted      *)
(* names; and settling a range never takes back a verdict of sound or      *)
(* broken.                                                                 *)
(***************************************************************************)
EXTENDS Verdicts, FiniteSetTheorems, WellFoundedInduction, TLAPS

------------------------------------------------------------------------------
(* Sums over finite sets, whose terms may be below zero, and greatest and  *)
(* least members.  The library defines both by recursion over subsets;     *)
(* where induction would be used, a least set without the property is      *)
(* taken.                                                                  *)

(* Among sets that are subsets of a finite one there is a least.           *)
LEMMA LeastSet ==
  ASSUME NEW S, IsFiniteSet(S), NEW C, C \subseteq SUBSET S, C # {}
  PROVE  \E s \in C : \A t \in C : t \subseteq s => t = s
<1> DEFINE R == StrictSubsetOrdering(S)
<1>1. IsWellFoundedOn(R, FiniteSubsetsOf(S))
  BY FS_StrictSubsetOrderingWellFounded
<1>2. C \subseteq FiniteSubsetsOf(S)
  BY FS_FiniteSubsetsOfFinite
<1> HIDE DEF R
<1>3. PICK s \in C : \A t \in C : ~(<<t, s>> \in R)
  BY <1>1, <1>2, WFMin
<1>4. ASSUME NEW t \in C, t \subseteq s PROVE t = s
  <2>1. ~(<<t, s>> \in R)
    BY <1>3
  <2> QED
    BY <1>4, <2>1 DEF R, StrictSubsetOrdering
<1> QED
  BY <1>4

(* T gives the sum of b over each subset of S.                             *)
Adds(T, b, S) ==
  /\ T \in [SUBSET S -> Int] /\ T[{}] = 0
  /\ \A s \in SUBSET S, x \in S : x \in s => T[s] = b[x] + T[s \ {x}]

LEMMA AddsOneMore ==
  ASSUME NEW S, NEW b, NEW y, y \notin S, b[y] \in Int, \A x \in S : b[x] \in Int,
         NEW T, Adds(T, b, S)
  PROVE  \E U : Adds(U, b, S \cup {y})
<1> DEFINE Z == S \cup {y}
           U == [s \in SUBSET Z |-> IF y \in s THEN b[y] + T[s \ {y}] ELSE T[s]]
<1>1. T \in [SUBSET S -> Int] /\ T[{}] = 0
  BY DEF Adds
<1>2. \A s \in SUBSET Z : s \ {y} \in SUBSET S /\ (y \notin s => s \in SUBSET S)
  OBVIOUS
<1>3. U \in [SUBSET Z -> Int]
  BY <1>1, <1>2
<1>4. U[{}] = 0
  BY <1>1
<1>5. ASSUME NEW s \in SUBSET Z, NEW x \in Z, x \in s
      PROVE  U[s] = b[x] + U[s \ {x}]
  <2>1. s \ {x} \in SUBSET Z
    OBVIOUS
  <2>2. CASE x = y
    BY <1>5, <2>1, <2>2
  <2>3. CASE x # y /\ y \notin s
    <3>1. T[s] = b[x] + T[s \ {x}]
      BY <1>5, <1>2, <2>3 DEF Adds
    <3> QED
      BY <2>1, <2>3, <3>1
  <2>4. CASE x # y /\ y \in s
    <3>1. (s \ {y}) \ {x} = (s \ {x}) \ {y}
      OBVIOUS
    <3>2. T[s \ {y}] = b[x] + T[(s \ {x}) \ {y}]
      BY <1>5, <1>2, <2>4, <3>1 DEF Adds
    <3>3. U[s] = b[y] + T[s \ {y}] /\ U[s \ {x}] = b[y] + T[(s \ {x}) \ {y}]
      BY <2>1, <2>4
    <3>4. b[x] \in Int /\ b[y] \in Int /\ T[(s \ {x}) \ {y}] \in Int
      BY <1>1, <1>2, <1>5, <2>1, <2>4
    <3> HIDE DEF U
    <3> QED
      BY <3>2, <3>3, <3>4
  <2> QED
    BY <2>2, <2>3, <2>4
<1> HIDE DEF U
<1> QED
  BY <1>3, <1>4, <1>5 DEF Adds

(* There is a sum over every finite set.                                   *)
LEMMA SumExists ==
  ASSUME NEW S, IsFiniteSet(S), NEW b, \A x \in S : b[x] \in Int
  PROVE  \E T : Adds(T, b, S)
<1> DEFINE C == {s \in SUBSET S : ~ \E T : Adds(T, b, s)}
<1> SUFFICES ASSUME C # {} PROVE FALSE
  OBVIOUS
<1>1. PICK s \in C : \A t \in C : t \subseteq s => t = s
  <2> HIDE DEF C
  <2>1. C \subseteq SUBSET S
    BY DEF C
  <2> QED
    BY <2>1, LeastSet
<1>2. CASE s = {}
  <2> DEFINE T == [u \in SUBSET {} |-> 0]
  <2>1. T \in [SUBSET {} -> Int] /\ T[{}] = 0
    OBVIOUS
  <2> HIDE DEF T
  <2>2. Adds(T, b, {})
    BY <2>1 DEF Adds
  <2> QED
    BY <1>2, <2>2
<1>3. CASE s # {}
  <2>1. PICK y : y \in s
    BY <1>3
  <2>2. s \ {y} \notin C /\ s \ {y} \in SUBSET S
    BY <1>1, <2>1
  <2>3. PICK T : Adds(T, b, s \ {y})
    BY <2>2
  <2>4. /\ y \notin s \ {y} /\ b[y] \in Int /\ \A x \in s \ {y} : b[x] \in Int
        /\ (s \ {y}) \cup {y} = s
    BY <2>1
  <2>5. \E U : Adds(U, b, (s \ {y}) \cup {y})
    BY <2>3, <2>4, AddsOneMore
  <2> QED
    BY <2>4, <2>5
<1> QED
  BY <1>2, <1>3

Greatest(s, m) == m \in s /\ \A x \in s : m >= x

LEMMA GreatestExists ==
  ASSUME NEW S, IsFiniteSet(S), \A x \in S : x \in Int
  PROVE  \A s \in SUBSET S : s # {} => \E m : Greatest(s, m)
<1> DEFINE C == {s \in SUBSET S : s # {} /\ ~ \E m : Greatest(s, m)}
<1> SUFFICES ASSUME C # {} PROVE FALSE
  OBVIOUS
<1>1. PICK s \in C : \A t \in C : t \subseteq s => t = s
  <2> HIDE DEF C
  <2>1. C \subseteq SUBSET S
    BY DEF C
  <2> QED
    BY <2>1, LeastSet
<1>2. PICK y : y \in s
  OBVIOUS
<1>3. s \subseteq Int /\ y \in Int
  BY <1>2
<1>4. s \ {y} # {}
  <2>1. s = {y} => Greatest(s, y)
    BY <1>3 DEF Greatest
  <2> QED
    BY <1>2, <2>1
<1>5. PICK m : Greatest(s \ {y}, m)
  <2>1. s \ {y} \notin C
    BY <1>1, <1>2
  <2> QED
    BY <1>4, <2>1
<1>6. m >= y => Greatest(s, m)
  BY <1>5 DEF Greatest
<1>7. y >= m => Greatest(s, y)
  BY <1>2, <1>3, <1>5 DEF Greatest
<1>8. m \in Int
  BY <1>3, <1>5 DEF Greatest
<1> QED
  BY <1>3, <1>6, <1>7, <1>8

LEMMA MaxIsThere ==
  ASSUME NEW S, IsFiniteSet(S), S \subseteq Int, S # {}
  PROVE  Max(S) \in S /\ \A x \in S : x <= Max(S)
<1>1. \A s \in SUBSET S : s # {} => \E m : Greatest(s, m)
  BY GreatestExists
<1>2. \E m : Greatest(S, m)
  BY <1>1
<1>3. Max(S) \in S /\ \A x \in S : Max(S) >= x
  BY <1>2 DEF Max, Greatest
<1> QED
  BY <1>3

(* A function takes finitely many values on finitely many arguments.       *)
LEMMA FiniteRange ==
  ASSUME NEW h, IsFiniteSet(DOMAIN h)
  PROVE  IsFiniteSet({h[x] : x \in DOMAIN h})
<1> DEFINE S == DOMAIN h
           R == {h[x] : x \in S}
           f == [x \in S |-> h[x]]
<1>1. f \in Surjection(S, R)
  <2>1. f \in [S -> R] /\ \A r \in R : \E x \in S : f[x] = r
    OBVIOUS
  <2> QED
    BY <2>1 DEF Surjection
<1> HIDE DEF R, f
<1>2. IsFiniteSet(R)
  BY <1>1, FS_Surjection
<1> QED
  BY <1>2 DEF R

LEMMA MinIsThere ==
  ASSUME NEW S, IsFiniteSet(S), S \subseteq Int, S # {}
  PROVE  Min(S) \in S /\ \A x \in S : Min(S) <= x
<1> DEFINE N == {-x : x \in S}
           h == [x \in S |-> -x]
<1>1. N \subseteq Int /\ N # {} /\ IsFiniteSet(N)
  <2>1. DOMAIN h = S /\ N = {h[x] : x \in DOMAIN h}
    OBVIOUS
  <2> HIDE DEF h
  <2>2. IsFiniteSet(N)
    BY <2>1, FiniteRange
  <2>3. N \subseteq Int
    OBVIOUS
  <2>4. N # {}
    OBVIOUS
  <2> HIDE DEF N
  <2> QED
    BY <2>2, <2>3, <2>4
<1>2. \A s \in SUBSET N : s # {} => \E m : Greatest(s, m)
  BY <1>1, GreatestExists
<1>3. PICK m : Greatest(N, m)
  BY <1>1, <1>2
<1>4. PICK y \in S : m = -y
  BY <1>3 DEF Greatest
<1>5. \A x \in S : y <= x
  <2> TAKE x \in S
  <2>1. m >= -x /\ x \in Int /\ y \in Int
    BY <1>3 DEF Greatest
  <2> QED
    BY <1>4, <2>1
<1>6. Min(S) \in S /\ \A x \in S : Min(S) <= x
  BY <1>5 DEF Min
<1> QED
  BY <1>6

(* The library's sum over the domain of a function is its sum.             *)
LEMMA SumAdds ==
  ASSUME NEW f, IsFiniteSet(DOMAIN f), \A x \in DOMAIN f : f[x] \in Int, NEW T, Adds(T, f, DOMAIN f)
  PROVE  Sum(f) = T[DOMAIN f]
<1> DEFINE S == DOMAIN f
           Pick(s) == CHOOSE x \in s : TRUE
           Rec(g) == g = [s \in SUBSET S |-> IF s = {} THEN 0 ELSE f[Pick(s)] + g[s \ {Pick(s)}]]
           g == CHOOSE g : Rec(g)
<1>1. Sum(f) = g[S]
  BY DEF Sum, MapThenSumSet, MapThenFoldSet
<1>2. \A s : s # {} => Pick(s) \in s
  OBVIOUS
<1> HIDE DEF Pick
<1>3. Rec(g)
  <2>1. Rec(T)
    <3>1. \A s \in SUBSET S : T[s] = IF s = {} THEN 0 ELSE f[Pick(s)] + T[s \ {Pick(s)}]
      BY <1>2 DEF Adds
    <3> QED
      BY <3>1 DEF Adds
  <2> HIDE DEF Rec
  <2> QED
    BY <2>1
<1> HIDE DEF g
<1>4. g[{}] = 0 /\ \A s \in SUBSET S : s # {} => Pick(s) \in s /\ g[s] = f[Pick(s)] + g[s \ {Pick(s)}]
  BY <1>2, <1>3
<1> HIDE DEF Rec
<1>5. \A s \in SUBSET S : g[s] = T[s]
  <2> DEFINE C == {s \in SUBSET S : g[s] # T[s]}
  <2> SUFFICES ASSUME C # {} PROVE FALSE
    OBVIOUS
  <2>1. PICK s \in C : \A t \in C : t \subseteq s => t = s
    <3> HIDE DEF C
    <3>1. C \subseteq SUBSET S
      BY DEF C
    <3> QED
      BY <3>1, LeastSet
  <2>2. s # {}
    BY <1>4 DEF Adds
  <2>3. Pick(s) \in s /\ g[s] = f[Pick(s)] + g[s \ {Pick(s)}]
    BY <1>4, <2>2
  <2>4. g[s \ {Pick(s)}] = T[s \ {Pick(s)}]
    BY <2>1, <2>3
  <2>5. T[s] = f[Pick(s)] + T[s \ {Pick(s)}]
    BY <2>3 DEF Adds
  <2> QED
    BY <2>3, <2>4, <2>5
<1> QED
  BY <1>1, <1>5

LEMMA SumIsInt ==
  ASSUME NEW f, IsFiniteSet(DOMAIN f), \A x \in DOMAIN f : f[x] \in Int
  PROVE  Sum(f) \in Int
<1>1. PICK T : Adds(T, f, DOMAIN f)
  BY SumExists
<1>2. Sum(f) = T[DOMAIN f]
  BY <1>1, SumAdds
<1> QED
  BY <1>1, <1>2 DEF Adds

(* A term that is left out counts as nothing.                              *)
Term(f, x) == IF x \in DOMAIN f THEN f[x] ELSE 0

LEMMA SumGrows ==
  ASSUME NEW S, IsFiniteSet(S), NEW f, NEW g, DOMAIN f \subseteq S, DOMAIN g \subseteq S,
         \A x \in DOMAIN f : f[x] \in Int, \A x \in DOMAIN g : g[x] \in Int,
         \A x \in S : Term(f, x) <= Term(g, x)
  PROVE  Sum(f) <= Sum(g)
<1> DEFINE U == DOMAIN f
           V == DOMAIN g
<1>0. IsFiniteSet(U) /\ IsFiniteSet(V)
  BY FS_Subset
<1>1. PICK F : Adds(F, f, U)
  BY <1>0, SumExists
<1>2. PICK G : Adds(G, g, V)
  BY <1>0, SumExists
<1>3. Sum(f) = F[U] /\ Sum(g) = G[V]
  BY <1>0, <1>1, <1>2, SumAdds
<1> DEFINE C == {s \in SUBSET S : ~(F[s \cap U] <= G[s \cap V])}
<1> SUFFICES ASSUME C # {} PROVE FALSE
  <2>1. S \in SUBSET S /\ S \cap U = U /\ S \cap V = V
    OBVIOUS
  <2> QED
    BY <1>3, <2>1
<1>4. PICK s \in SUBSET S : /\ ~(F[s \cap U] <= G[s \cap V])
                            /\ \A t \in SUBSET S : t \subseteq s /\ t # s => F[t \cap U] <= G[t \cap V]
  <2>1. PICK s \in C : \A t \in C : t \subseteq s => t = s
    <3> HIDE DEF C
    <3>1. C \subseteq SUBSET S
      BY DEF C
    <3> QED
      BY <3>1, LeastSet
  <2> QED
    BY <2>1
<1> HIDE DEF C
<1>5. PICK y : y \in s
  <2>1. F[{}] = 0 /\ G[{}] = 0 /\ {} \cap U = {} /\ {} \cap V = {}
    BY <1>1, <1>2 DEF Adds
  <2>2. F[{}] <= G[{}]
    BY <2>1
  <2>3. s = {} => FALSE
    <3> HAVE s = {}
    <3>1. s \cap U = {} /\ s \cap V = {}
      OBVIOUS
    <3> QED
      BY <1>4, <2>2, <3>1
  <2> QED
    BY <2>3
<1> DEFINE rest == s \ {y}
           fu == rest \cap U
           gv == rest \cap V
<1>6. /\ fu \in SUBSET U /\ gv \in SUBSET V /\ F[fu] <= G[gv]
      /\ IF y \in U THEN y \in s \cap U /\ (s \cap U) \ {y} = fu ELSE s \cap U = fu
      /\ IF y \in V THEN y \in s \cap V /\ (s \cap V) \ {y} = gv ELSE s \cap V = gv
  <2>1. rest \in SUBSET S /\ rest \subseteq s /\ rest # s
    BY <1>5
  <2>2. F[fu] <= G[gv]
    BY <1>4, <2>1
  <2>3. (y \in U => y \in s \cap U /\ (s \cap U) \ {y} = fu) /\ (y \notin U => s \cap U = fu)
    BY <1>5
  <2>4. (y \in V => y \in s \cap V /\ (s \cap V) \ {y} = gv) /\ (y \notin V => s \cap V = gv)
    BY <1>5
  <2> QED
    BY <2>2, <2>3, <2>4
<1> HIDE DEF rest, fu, gv
<1> DEFINE su == s \cap U
           sv == s \cap V
<1>61. su \in SUBSET U /\ sv \in SUBSET V
  OBVIOUS
<1>7. F[fu] \in Int /\ G[gv] \in Int
  BY <1>1, <1>2, <1>6 DEF Adds
<1>8. F[su] = Term(f, y) + F[fu] /\ Term(f, y) \in Int
  <2>0. IF y \in U THEN y \in su /\ su \ {y} = fu ELSE su = fu
    BY <1>6
  <2> HIDE DEF su
  <2>1. CASE y \in U
    <3>1. F[su] = f[y] + F[su \ {y}]
      BY <1>1, <1>61, <2>0, <2>1 DEF Adds
    <3> QED
      BY <2>0, <2>1, <3>1 DEF Term
  <2>2. CASE y \notin U
    <3>1. Term(f, y) = 0
      BY <2>2 DEF Term
    <3> QED
      BY <1>7, <2>0, <2>2, <3>1
  <2> QED
    BY <2>1, <2>2
<1>9. G[sv] = Term(g, y) + G[gv] /\ Term(g, y) \in Int
  <2>0. IF y \in V THEN y \in sv /\ sv \ {y} = gv ELSE sv = gv
    BY <1>6
  <2> HIDE DEF sv
  <2>1. CASE y \in V
    <3>1. G[sv] = g[y] + G[sv \ {y}]
      BY <1>2, <1>61, <2>0, <2>1 DEF Adds
    <3> QED
      BY <2>0, <2>1, <3>1 DEF Term
  <2>2. CASE y \notin V
    <3>1. Term(g, y) = 0
      BY <2>2 DEF Term
    <3> QED
      BY <1>7, <2>0, <2>2, <3>1
  <2> QED
    BY <2>1, <2>2
<1>10. Term(f, y) <= Term(g, y)
  BY <1>5
<1>11. ~(F[su] <= G[sv])
  BY <1>4
<1> HIDE DEF su, sv
<1> QED
  BY <1>6, <1>7, <1>8, <1>9, <1>10, <1>11

(* The same term by term, where both have every term.                      *)
LEMMA SumsInOrder ==
  ASSUME NEW S, IsFiniteSet(S), NEW b, NEW c, \A x \in S : b[x] \in Int /\ c[x] \in Int /\ b[x] <= c[x],
         DOMAIN b = S, DOMAIN c = S
  PROVE  Sum(b) <= Sum(c)
<1>1. \A x \in S : Term(b, x) <= Term(c, x)
  BY DEF Term
<1> QED
  BY <1>1, SumGrows

(* Sums of terms that are made of others.                                  *)
LEMMA SumAffine ==
  ASSUME NEW S, IsFiniteSet(S), NEW k \in Int, NEW f, NEW g, NEW h, DOMAIN f = S, DOMAIN g = S, DOMAIN h = S,
         \A x \in S : g[x] \in Int /\ h[x] \in Int /\ f[x] = g[x] + k * h[x]
  PROVE  Sum(f) = Sum(g) + k * Sum(h)
<1>1. \A x \in S : f[x] \in Int
  OBVIOUS
<1>2. PICK F : Adds(F, f, S)
  BY <1>1, SumExists
<1>3. PICK G : Adds(G, g, S)
  BY SumExists
<1>4. PICK H : Adds(H, h, S)
  BY SumExists
<1>5. Sum(f) = F[S] /\ Sum(g) = G[S] /\ Sum(h) = H[S]
  BY <1>1, <1>2, <1>3, <1>4, SumAdds
<1> DEFINE C == {s \in SUBSET S : F[s] # G[s] + k * H[s]}
<1> SUFFICES ASSUME C # {} PROVE FALSE
  BY <1>5
<1>6. PICK s \in C : \A t \in C : t \subseteq s => t = s
  <2> HIDE DEF C
  <2>1. C \subseteq SUBSET S
    BY DEF C
  <2> QED
    BY <2>1, LeastSet
<1>7. s # {}
  <2>1. F[{}] = 0 /\ G[{}] = 0 /\ H[{}] = 0 /\ k * 0 = 0
    BY <1>2, <1>3, <1>4 DEF Adds
  <2>2. F[s] # G[s] + k * H[s]
    BY <1>6
  <2>3. F[{}] = G[{}] + k * H[{}]
    BY <2>1
  <2> HIDE DEF C
  <2>4. s = {} => F[s] = F[{}] /\ G[s] = G[{}] /\ H[s] = H[{}]
    OBVIOUS
  <2> QED
    BY <2>2, <2>3, <2>4
<1>8. PICK y : y \in s
  BY <1>7
<1> DEFINE rest == s \ {y}
<1>9. y \in S /\ rest \in SUBSET S /\ F[rest] = G[rest] + k * H[rest]
  BY <1>6, <1>8
<1>10. F[s] = f[y] + F[rest] /\ G[s] = g[y] + G[rest] /\ H[s] = h[y] + H[rest]
  BY <1>2, <1>3, <1>4, <1>8 DEF Adds
<1>11. G[rest] \in Int /\ H[rest] \in Int /\ g[y] \in Int /\ h[y] \in Int /\ f[y] = g[y] + k * h[y]
  BY <1>3, <1>4, <1>9 DEF Adds
<1> HIDE DEF rest
<1>12. F[s] = G[s] + k * H[s]
  BY <1>9, <1>10, <1>11
<1> QED
  BY <1>12

LEMMA SumOfHundreds ==
  ASSUME NEW S, IsFiniteSet(S), NEW f, NEW g, DOMAIN f = S, DOMAIN g = S,
         \A x \in S : g[x] \in Int /\ f[x] = 100 * g[x]
  PROVE  Sum(f) = 100 * Sum(g)
<1>1. \A x \in S : g[x] \in Int /\ f[x] = g[x] + 99 * g[x]
  OBVIOUS
<1>2. Sum(f) = Sum(g) + 99 * Sum(g)
  BY <1>1, SumAffine
<1>3. Sum(g) \in Int
  BY SumIsInt
<1> QED
  BY <1>2, <1>3

(* A sum of amounts is one.                                                *)
LEMMA SumOfNothing ==
  ASSUME NEW S, IsFiniteSet(S), NEW f, DOMAIN f = S, \A x \in S : f[x] \in Int /\ f[x] >= 0
  PROVE  Sum(f) \in Int /\ Sum(f) >= 0
<1> DEFINE z == [x \in S |-> 0]
<1>1. DOMAIN z = S /\ \A x \in S : z[x] \in Int /\ z[x] = z[x] + 1 * z[x] /\ z[x] <= f[x]
  OBVIOUS
<1> HIDE DEF z
<1>2. Sum(z) = Sum(z) + 1 * Sum(z)
  BY <1>1, SumAffine
<1>3. Sum(z) \in Int /\ Sum(f) \in Int
  BY <1>1, SumIsInt
<1>4. Sum(z) <= Sum(f)
  BY <1>1, SumsInOrder
<1> QED
  BY <1>2, <1>3, <1>4

------------------------------------------------------------------------------
(* A design that the schema accepts (Formed), and that is settled: every   *)
(* range is one value (Committed).                                         *)
Ordered(r) == r.lo \in Int /\ r.hi \in Int /\ r.lo <= r.hi

LEMMA SpanIs == ASSUME NEW te, Formed(te), NEW p \in DOMAIN te.span PROVE Ordered(te.span[p])
  BY DEF Formed, Ordered

LEMMA Value ==
  ASSUME NEW te, Formed(te), Committed(te), NEW p, p \in DOMAIN te.span
  PROVE  te.span[p].lo \in Int /\ te.span[p].hi = te.span[p].lo
  BY DEF Formed, Committed

LEMMA ListIs == ASSUME NEW s, List(s) PROVE DOMAIN s = 1 .. Len(s) /\ Len(s) \in Nat /\ IsFiniteSet(DOMAIN s)
<1>1. DOMAIN s = 1 .. Len(s) /\ Len(s) \in Nat
  BY DEF List
<1>2. IsFiniteSet(1 .. Len(s))
  BY <1>1, FS_Interval
<1> QED
  BY <1>1, <1>2

LEMMA HullIs ==
  ASSUME NEW rs, IsFiniteSet(rs), rs # {}, \A r \in rs : Ordered(r)
  PROVE  /\ Ordered(Hull(rs)) /\ \A r \in rs : Hull(rs).lo <= r.lo /\ r.hi <= Hull(rs).hi
         /\ \E r \in rs : Hull(rs).lo = r.lo
         /\ \E r \in rs : Hull(rs).hi = r.hi
<1> DEFINE los == {r.lo : r \in rs}
           his == {r.hi : r \in rs}
           f == [r \in rs |-> r.lo]
           g == [r \in rs |-> r.hi]
<1>1. DOMAIN f = rs /\ los = {f[r] : r \in DOMAIN f} /\ DOMAIN g = rs /\ his = {g[r] : r \in DOMAIN g}
  OBVIOUS
<1>2. los \subseteq Int /\ los # {} /\ his \subseteq Int /\ his # {}
  BY DEF Ordered
<1>3. Hull(rs).lo = Min(los) /\ Hull(rs).hi = Max(his)
  BY DEF Hull
<1>4. \A r \in rs : r.lo \in los /\ r.hi \in his
  OBVIOUS
<1>41. (\A x \in los : \E r \in rs : x = r.lo) /\ \A x \in his : \E r \in rs : x = r.hi
  OBVIOUS
<1> HIDE DEF f, g, los, his
<1>5. IsFiniteSet(los) /\ IsFiniteSet(his)
  BY <1>1, FiniteRange
<1>6. Min(los) \in los /\ \A x \in los : Min(los) <= x
  BY <1>2, <1>5, MinIsThere
<1>7. Max(his) \in his /\ \A x \in his : x <= Max(his)
  BY <1>2, <1>5, MaxIsThere
<1>8. \A r \in rs : Hull(rs).lo <= r.lo /\ r.hi <= Hull(rs).hi
  BY <1>3, <1>4, <1>6, <1>7
<1>9. Hull(rs).lo \in Int /\ Hull(rs).hi \in Int
  BY <1>2, <1>3, <1>6, <1>7
<1>10. PICK r \in rs : TRUE
  OBVIOUS
<1>11. (\E q \in rs : Hull(rs).lo = q.lo) /\ \E q \in rs : Hull(rs).hi = q.hi
  BY <1>3, <1>41, <1>6, <1>7
<1> QED
  BY <1>8, <1>9, <1>10, <1>11 DEF Ordered

LEMMA VarietiesAre ==
  ASSUME NEW te, Formed(te)
  PROVE  /\ IsFiniteSet(Varieties(te)) /\ \A r \in Varieties(te) : Ordered(r)
         /\ Varieties(te) # {} => Ordered(Hull(Varieties(te)))
<1> DEFINE ts == {t \in te.tokens : te.token[t].variety # None}
           f == [t \in ts |-> te.span[te.token[t].variety]]
<1>1. IsFiniteSet(ts)
  BY FS_Subset DEF Formed
<1>2. DOMAIN f = ts /\ Varieties(te) = {f[t] : t \in DOMAIN f}
  BY DEF Varieties
<1>3. ASSUME NEW t \in ts PROVE Ordered(te.span[te.token[t].variety])
  <2>1. te.token[t].variety \in DOMAIN te.span
    BY DEF Formed, TokenFormed
  <2> QED
    BY <2>1, SpanIs
<1>4. \A r \in Varieties(te) : Ordered(r)
  BY <1>3 DEF Varieties
<1> HIDE DEF ts, f
<1>5. IsFiniteSet(Varieties(te))
  BY <1>1, <1>2, FiniteRange
<1> QED
  BY <1>4, <1>5, HullIs

------------------------------------------------------------------------------
(* Conditions: one that holds in some period is not one that is said never *)
(* to, unless it comes after the periods that were looked at.              *)
LEMMA MayHoldIsNotNever ==
  ASSUME NEW te, Formed(te), Committed(te), NEW c, Evaluable(c), MayHold(te, c), ~Late(te, c)
  PROVE  Status(c, te) # "never"
<1>1. CASE c.sort = "window" \/ (c.sort = "threshold" /\ c.var = "T")
  BY <1>1 DEF Late
<1>2. CASE c.sort = "threshold" /\ c.var \in {"M", "d"}
  <2>1. c.var = "M"
    BY <1>2 DEF MayHold
  <2>2. ThresholdStatus(c, te) = "ever"
    BY <2>1 DEF ThresholdStatus, Measured
  <2> QED
    BY <1>2, <2>2 DEF Status
<1>3. CASE c.sort = "threshold" /\ c.var \in {"Q", "N"}
  <2>1. Meets(c.op, At(te, c.var), c.value)
    BY <1>3 DEF MayHold
  <2>2. c.var \in DOMAIN te.span
    BY <1>3 DEF Formed
  <2>3. VarBounds(c.var, te) = te.span[c.var] /\ At(te, c.var) = te.span[c.var].lo
    BY <1>3 DEF VarBounds, At
  <2>4. At(te, c.var) \in Within(VarBounds(c.var, te))
    BY <2>2, <2>3, Value DEF Within
  <2>5. Measured(c.var, te)
    BY <1>3 DEF Measured
  <2>6. ThresholdStatus(c, te) # "never"
    BY <2>1, <2>4, <2>5 DEF ThresholdStatus, Decide
  <2> QED
    BY <1>3, <2>6 DEF Status
<1>4. CASE c.sort = "threshold" /\ c.var = "K"
  <2>1. CASE Varieties(te) = {}
    <3>1. ThresholdStatus(c, te) = "ever"
      BY <1>4, <2>1 DEF ThresholdStatus, Measured
    <3> QED
      BY <1>4, <3>1 DEF Status
  <2>2. CASE Varieties(te) # {}
    <3> DEFINE hull == Hull(Varieties(te))
    <3>1. Meets(c.op, hull.hi, c.value)
      BY <1>4, <2>2 DEF MayHold
    <3>2. VarBounds(c.var, te) = hull /\ Measured(c.var, te)
      BY <1>4, <2>2 DEF VarBounds, Measured
    <3>3. Ordered(hull)
      BY <2>2, VarietiesAre
    <3> HIDE DEF hull
    <3>4. hull.hi \in Within(hull)
      BY <3>3 DEF Ordered, Within
    <3>5. ThresholdStatus(c, te) # "never"
      BY <3>1, <3>2, <3>4 DEF ThresholdStatus, Decide
    <3> QED
      BY <1>4, <3>5 DEF Status
  <2> QED
    BY <2>1, <2>2
<1>5. CASE c.sort = "event"
  <2>1. IF c.source = None THEN c.event \in DOMAIN te.event ELSE c.source \in te.tokens
    BY <1>5 DEF MayHold
  <2>2. OccurrenceStatus(c, te) # "never"
    BY <2>1 DEF OccurrenceStatus, Decide
  <2> QED
    BY <1>5, <2>2 DEF Status
<1> QED
  BY <1>1, <1>2, <1>3, <1>4, <1>5 DEF Evaluable

------------------------------------------------------------------------------
(* Rates                                                                   *)
LEMMA FourEnds ==
  ASSUME NEW a \in Int, NEW b \in Int, NEW c \in Int, NEW d \in Int,
         NEW ends, ends = {a, b, c, d}
  PROVE  /\ Min(ends) \in ends /\ Max(ends) \in ends
         /\ \A x \in ends : Min(ends) <= x /\ x <= Max(ends)
<1>1. ends \subseteq Int /\ ends # {}
  OBVIOUS
<1>2. IsFiniteSet({a}) /\ IsFiniteSet({b}) /\ IsFiniteSet({c}) /\ IsFiniteSet({d})
  BY FS_Singleton
<1>3. IsFiniteSet({a} \cup {b}) /\ IsFiniteSet({c} \cup {d})
  BY <1>2, FS_Union
<1>4. ends = ({a} \cup {b}) \cup ({c} \cup {d})
  OBVIOUS
<1> DEFINE ab == {a} \cup {b}
           cd == {c} \cup {d}
<1> HIDE DEF ab, cd
<1>5. IsFiniteSet(ab \cup cd)
  BY <1>3, FS_Union DEF ab, cd
<1>6. IsFiniteSet(ends)
  BY <1>4, <1>5 DEF ab, cd
<1> QED
  BY <1>1, <1>6, MinIsThere, MaxIsThere

LEMMA TimesIs ==
  ASSUME NEW r, NEW s, Ordered(r), Ordered(s)
  PROVE  /\ Ordered(Times(r, s))
         /\ r.lo = r.hi /\ s.lo = s.hi => Times(r, s).lo = r.lo * s.lo /\ Times(r, s).hi = r.lo * s.lo
         /\ r.lo >= 0 /\ s.lo >= 0 => Times(r, s).lo >= 0
<1> DEFINE a == r.lo * s.lo
           b == r.lo * s.hi
           c == r.hi * s.lo
           d == r.hi * s.hi
           ends == {a, b, c, d}
           products == {x * y : x \in Corners(r), y \in Corners(s)}
<1>0. a \in Int /\ b \in Int /\ c \in Int /\ d \in Int
  BY DEF Ordered
<1>1. products = ends
  BY DEF Corners
<1>9. Times(r, s) = [lo |-> Min(products), hi |-> Max(products)]
  BY DEF Times
<1> HIDE DEF products
<1>2. Times(r, s).lo = Min(ends) /\ Times(r, s).hi = Max(ends)
  BY <1>1, <1>9
<1>3. /\ Min(ends) \in ends /\ Max(ends) \in ends /\ ends \subseteq Int
      /\ \A x \in ends : Min(ends) <= x /\ x <= Max(ends)
  <2> HIDE DEF a, b, c, d
  <2> QED
    BY <1>0, FourEnds
<1>4. r.lo = r.hi /\ s.lo = s.hi => ends = {r.lo * s.lo}
  OBVIOUS
<1>5. r.lo >= 0 /\ s.lo >= 0 => \A x \in ends : x >= 0
  <2> SUFFICES ASSUME r.lo >= 0, s.lo >= 0 PROVE \A x \in ends : x >= 0
    OBVIOUS
  <2>1. r.lo \in Nat /\ r.hi \in Nat /\ s.lo \in Nat /\ s.hi \in Nat
    BY DEF Ordered
  <2>2. r.lo * s.lo \in Nat /\ r.lo * s.hi \in Nat /\ r.hi * s.lo \in Nat /\ r.hi * s.hi \in Nat
    BY <2>1
  <2> QED
    BY <2>2
<1> HIDE DEF ends
<1>6. Ordered(Times(r, s))
  BY <1>2, <1>3 DEF Ordered
<1>7. r.lo = r.hi /\ s.lo = s.hi => Times(r, s).lo = r.lo * s.lo /\ Times(r, s).hi = r.lo * s.lo
  BY <1>2, <1>3, <1>4
<1>8. r.lo >= 0 /\ s.lo >= 0 => Times(r, s).lo >= 0
  BY <1>2, <1>3, <1>5
<1> QED
  BY <1>6, <1>7, <1>8

(* Products of amounts that are not below zero.                            *)
LEMMA InProportion ==
  ASSUME NEW a \in Int, NEW b \in Int, NEW m \in Nat, a <= b
  PROVE  a * m \in Int /\ b * m \in Int /\ a * m <= b * m
<1>1. PICK k \in Nat : b = a + k
  <2>1. b - a \in Nat /\ b = a + (b - a)
    OBVIOUS
  <2> QED
    BY <2>1
<1>2. b * m = a * m + k * m /\ k * m \in Nat /\ a * m \in Int
  BY <1>1
<1> QED
  BY <1>2

(* What a line comes to on the average is between its ends.                *)
LEMMA BetweenEnds ==
  ASSUME NEW a \in Int, NEW b \in Int, NEW n \in Nat, NEW m \in Nat, m <= n, b >= 0, a * n + b >= 0
  PROVE  a * m + b >= 0
<1>1. CASE a >= 0
  <2>1. a \in Nat /\ a * m \in Nat
    BY <1>1
  <2> QED
    BY <2>1
<1>2. CASE a < 0
  <2>1. PICK k \in Nat : n = m + k
    <3>1. n - m \in Nat /\ n = m + (n - m)
      OBVIOUS
    <3> QED
      BY <3>1
  <2>2. a * n = a * m + a * k
    BY <2>1
  <2>3. a * k <= 0
    <3>1. (-a) \in Nat /\ (-a) * k \in Nat
      BY <1>2
    <3>2. a * k = -((-a) * k)
      OBVIOUS
    <3> QED
      BY <3>1, <3>2
  <2>4. a * m \in Int /\ a * k \in Int
    BY <2>1
  <2> QED
    BY <2>2, <2>3, <2>4
<1> QED
  BY <1>1, <1>2

LEMMA QuotientAtLeast ==
  ASSUME NEW a \in Int, NEW b \in Int, b > 0, NEW f \in Int, f * b <= a
  PROVE  a \div b >= f
<1> DEFINE q == a \div b
           r == a % b
<1>1. q \in Int /\ r \in 0 .. (b - 1) /\ a = b * q + r
  OBVIOUS
<1> HIDE DEF q, r
<1>2. SUFFICES ASSUME q < f PROVE FALSE
  BY <1>1 DEF q
<1>3. PICK k \in Nat : f = q + 1 + k
  <2>1. f - q - 1 \in Nat /\ f = q + 1 + (f - q - 1)
    BY <1>1, <1>2
  <2> QED
    BY <2>1
<1>4. f * b = b * q + b + k * b
  BY <1>1, <1>3
<1>5. k * b \in Nat /\ b * q \in Int
  BY <1>1, <1>3
<1> QED
  BY <1>1, <1>4, <1>5

LEMMA SlopeIs ==
  ASSUME NEW te, NEW fn, FnFormed(te, fn), fn.family \in {"linear", "polynomial"}
  PROVE  Rise(fn) \in Nat /\ Slope(fn) \in Nat /\ Slope(fn) <= Rise(fn)
<1>1. Rise(fn) \in Nat /\ fn.degree \in Nat
  BY DEF FnFormed, Affine
<1>2. ASSUME NEW n \in Nat, NEW m \in Nat PROVE n \div (m + 1) \in Nat /\ n \div (m + 1) <= n
  OBVIOUS
<1>3. CASE fn.family = "linear"
  <2>1. Slope(fn) = Rise(fn) \div (1 + 1)
    BY <1>3 DEF Slope
  <2> QED
    BY <1>1, <1>2, <2>1
<1>4. CASE fn.family = "polynomial"
  <2>1. Slope(fn) = Rise(fn) \div (fn.degree + 1)
    BY <1>4 DEF Slope
  <2> QED
    BY <1>1, <1>2, <2>1
<1> QED
  BY <1>3, <1>4

LEMMA QuotientsGrow ==
  ASSUME NEW m \in Nat, NEW n \in Nat, m <= n, NEW k \in Nat
  PROVE  m \div (k + 1) \in Nat /\ n \div (k + 1) \in Nat /\ m \div (k + 1) <= n \div (k + 1)
<1> DEFINE q == m \div (k + 1)
           p == n \div (k + 1)
<1>1. q \in Nat /\ q * (k + 1) <= m /\ p \in Nat
  <2> DEFINE d == k + 1
             r == m % d
  <2>1. d \in Nat /\ d > 0
    OBVIOUS
  <2>2. q = m \div d /\ p = n \div d
    OBVIOUS
  <2> HIDE DEF d
  <2>3. m \div d \in Nat /\ n \div d \in Nat /\ r \in Nat /\ m = d * (m \div d) + r
    BY <2>1
  <2> HIDE DEF r, q, p
  <2>4. q \in Nat /\ p \in Nat /\ d * q <= m /\ d * q = q * d
    <3>1. d * q \in Nat
      BY <2>1, <2>2, <2>3
    <3>2. d * q = q * d
      BY <2>1, <2>2, <2>3
    <3> QED
      BY <2>2, <2>3, <3>1, <3>2
  <2> QED
    BY <2>4 DEF d
<1>2. q * (k + 1) <= n /\ q \in Int /\ k + 1 \in Int /\ k + 1 > 0
  <2> HIDE DEF q
  <2>1. q * (k + 1) \in Int
    BY <1>1
  <2> QED
    BY <1>1, <2>1
<1> HIDE DEF q
<1>3. p >= q
  BY <1>2, QuotientAtLeast
<1> HIDE DEF p
<1>4. q <= p
  BY <1>1, <1>3
<1> QED
  BY <1>1, <1>4 DEF q, p

(* Over a longer run the time comes to more on the average.                *)
LEMMA SimSlopeIs ==
  ASSUME NEW te, NEW fn, FnFormed(te, fn), fn.family \in Affine
  PROVE  Slope(fn) \in Nat /\ SimSlope(fn) \in Nat /\ Slope(fn) <= SimSlope(fn)
<1>1. Rise(fn) \in Nat /\ SimRise(fn) \in Nat /\ Rise(fn) <= SimRise(fn) /\ fn.degree \in Nat
  BY DEF FnFormed, Affine
<1>2. CASE fn.family = "linear"
  <2>1. Slope(fn) = Rise(fn) \div (1 + 1) /\ SimSlope(fn) = SimRise(fn) \div (1 + 1)
    BY <1>2 DEF Slope, SimSlope
  <2> HIDE DEF Affine
  <2> QED
    BY <1>1, <2>1, QuotientsGrow
<1>3. CASE fn.family # "linear"
  <2>1. Slope(fn) = Rise(fn) \div (fn.degree + 1) /\ SimSlope(fn) = SimRise(fn) \div (fn.degree + 1)
    BY <1>3 DEF Slope, SimSlope
  <2> QED
    BY <1>1, <2>1, QuotientsGrow
<1> QED
  BY <1>2, <1>3

LEMMA TwoEnds ==
  ASSUME NEW x \in Int, NEW y \in Int
  PROVE  /\ Max({x, y}) \in {x, y} /\ Max({x, y}) >= x /\ Max({x, y}) >= y
         /\ Min({x, y}) \in {x, y} /\ Min({x, y}) <= x /\ Min({x, y}) <= y
<1>1. {x, y} = {x, x, y, y}
  OBVIOUS
<1> DEFINE ends == {x, y}
<1>2. x \in ends /\ y \in ends
  OBVIOUS
<1> HIDE DEF ends
<1>3. /\ Min(ends) \in ends /\ Max(ends) \in ends
      /\ \A e \in ends : Min(ends) <= e /\ e <= Max(ends)
  BY <1>1, FourEnds DEF ends
<1>4. Max(ends) \in Int
  BY <1>3 DEF ends
<1>5. Max(ends) >= x /\ Max(ends) >= y /\ Min(ends) <= x /\ Min(ends) <= y
  BY <1>2, <1>3, <1>4
<1> QED
  BY <1>3, <1>5 DEF ends

LEMMA AverageIs ==
  ASSUME NEW te, Formed(te), NEW fn, FnFormed(te, fn)
  PROVE  /\ Ordered(Average(fn, te))
         /\ ~BelowZero(te, fn) => Average(fn, te).lo >= 0
<1>1. CASE fn.family = "opaque"
  <2>1. Average(fn, te) = [lo |-> 0, hi |-> Top]
    BY <1>1 DEF Average
  <2> QED
    BY <1>1, <2>1, VerdictsAssumption DEF Ordered
<1>2. ASSUME fn.family # "opaque" PROVE Ordered(te.span[fn.a])
  BY <1>2, SpanIs DEF FnFormed
<1>3. CASE fn.family \in {"linear", "polynomial"}
  <2> DEFINE a == te.span[fn.a]
             b == te.span[fn.b]
             m == Slope(fn)
  <2>1. Ordered(a) /\ Ordered(b)
    BY <1>2, <1>3, SpanIs DEF FnFormed, Affine
  <2>2. Rise(fn) \in Nat /\ m \in Nat /\ m <= Rise(fn)
    BY <1>3, SlopeIs
  <2>3. Average(fn, te) = [lo |-> a.lo * m + b.lo, hi |-> a.hi * m + b.hi]
    BY <1>3 DEF Average
  <2>4. ~BelowZero(te, fn) => ~(a.lo * 0 + b.lo < 0) /\ ~(a.lo * Rise(fn) + b.lo < 0)
    BY <1>3 DEF BelowZero, Negative
  <2> HIDE DEF a, b, m
  <2>5. a.lo \in Int /\ a.hi \in Int /\ b.lo \in Int /\ b.hi \in Int /\ a.lo <= a.hi /\ b.lo <= b.hi
    BY <2>1 DEF Ordered
  <2>6. ~BelowZero(te, fn) => a.lo * m + b.lo >= 0
    <3> HAVE ~BelowZero(te, fn)
    <3>1. b.lo >= 0 /\ a.lo * Rise(fn) + b.lo >= 0
      BY <2>2, <2>4, <2>5
    <3> QED
      BY <2>2, <2>5, <3>1, BetweenEnds
  <2>7. a.lo * m \in Int /\ a.hi * m \in Int /\ a.lo * m <= a.hi * m
    BY <2>2, <2>5, InProportion
  <2>8. Ordered([lo |-> a.lo * m + b.lo, hi |-> a.hi * m + b.hi])
    BY <2>5, <2>7 DEF Ordered
  <2> QED
    BY <2>3, <2>6, <2>8
<1>4. CASE fn.family = "distribution"
  <2> DEFINE x == te.span[fn.a].lo
             y == te.span[fn.a].hi
  <2>0. x \in Int /\ y \in Int /\ x <= y
    BY <1>2, <1>4 DEF Ordered
  <2>1. Average(fn, te) = [lo |-> Max({0, x}), hi |-> Max({0, y})]
    BY <1>4 DEF Average
  <2> HIDE DEF x, y
  <2>2. Max({0, x}) \in {0, x} /\ Max({0, x}) >= 0 /\ Max({0, y}) \in {0, y} /\ Max({0, y}) >= 0 /\ Max({0, y}) >= y
    BY <2>0, TwoEnds
  <2> QED
    BY <2>0, <2>1, <2>2 DEF Ordered
<1>5. CASE fn.family \notin {"linear", "polynomial", "distribution", "opaque"}
  <2>1. Average(fn, te) = te.span[fn.a]
    BY <1>5 DEF Average
  <2>2. ~BelowZero(te, fn) => ~(te.span[fn.a].lo < 0)
    BY <1>5 DEF BelowZero, Negative
  <2> QED
    BY <1>2, <1>5, <2>1, <2>2 DEF Ordered
<1> QED
  BY <1>1, <1>3, <1>4, <1>5

LEMMA RateIs ==
  ASSUME NEW te, Formed(te), NEW fn, FnFormed(te, fn), NEW freq, freq # None => freq \in DOMAIN te.span
  PROVE  /\ Ordered(Rate(fn, freq, te))
         /\ ~BelowZero(te, fn) /\ (freq # None => te.span[freq].lo >= 0) => Rate(fn, freq, te).lo >= 0
<1>1. Ordered(Average(fn, te)) /\ (~BelowZero(te, fn) => Average(fn, te).lo >= 0)
  BY AverageIs
<1>2. CASE freq = None
  BY <1>1, <1>2 DEF Rate
<1>3. CASE freq # None
  <2>1. Ordered(te.span[freq])
    BY <1>3, SpanIs
  <2>2. Rate(fn, freq, te) = Times(Average(fn, te), te.span[freq])
    BY <1>3 DEF Rate
  <2> QED
    BY <1>1, <1>3, <2>1, <2>2, TimesIs
<1> QED
  BY <1>2, <1>3

(* What the checks count with is around what any function in force gives.  *)
LEMMA RuleRateIs ==
  ASSUME NEW te, Formed(te), NEW r, RuleFormed(te, r)
  PROVE  /\ Ordered(RuleRate(r, te)) /\ r.fn \in Live(r, te)
         /\ \A fn \in Live(r, te) :
              /\ FnFormed(te, fn) /\ Ordered(Rate(fn, Resolve(r, te).freq, te))
              /\ RuleRate(r, te).lo <= Rate(fn, Resolve(r, te).freq, te).lo
              /\ Rate(fn, Resolve(r, te).freq, te).hi <= RuleRate(r, te).hi
<1> DEFINE freq == Resolve(r, te).freq
           live == Live(r, te)
           f == [fn \in live |-> Rate(fn, freq, te)]
           rates == {Rate(fn, freq, te) : fn \in live}
           places == DOMAIN r.regimes
           g == [i \in places |-> r.regimes[i].fn]
           fns == {r.regimes[i].fn : i \in places}
<1>1. r.fn \in live /\ live \subseteq {r.fn} \cup fns
  BY DEF Live, Range
<1>2. IsFiniteSet(live)
  <2>1. IsFiniteSet(places)
    BY ListIs DEF RuleFormed
  <2>2. DOMAIN g = places /\ fns = {g[i] : i \in DOMAIN g}
    OBVIOUS
  <2> HIDE DEF g, fns, places, live
  <2>3. IsFiniteSet(fns)
    BY <2>1, <2>2, FiniteRange
  <2>4. IsFiniteSet(fns \cup {r.fn})
    BY <2>3, FS_AddElement
  <2> QED
    BY <1>1, <2>4, FS_Subset
<1>3. ASSUME NEW fn \in live PROVE FnFormed(te, fn)
  BY <1>1 DEF RuleFormed, Fns, Range
<1>4. freq # None => freq \in DOMAIN te.span
  BY DEF RuleFormed
<1> HIDE DEF freq, live, fns, g, places
<1>5. \A fn \in live : Ordered(Rate(fn, freq, te))
  BY <1>3, <1>4, RateIs
<1>6. IsFiniteSet(rates) /\ rates # {} /\ \A s \in rates : Ordered(s)
  <2>1. DOMAIN f = live /\ rates = {f[fn] : fn \in DOMAIN f}
    OBVIOUS
  <2> HIDE DEF f
  <2>2. IsFiniteSet(rates)
    BY <1>2, <2>1, FiniteRange
  <2> QED
    BY <1>1, <1>5, <2>2
<1>7. RuleRate(r, te) = Hull(rates)
  BY DEF RuleRate, freq, live
<1>8. Ordered(Hull(rates)) /\ \A s \in rates : Hull(rates).lo <= s.lo /\ s.hi <= Hull(rates).hi
  BY <1>6, HullIs
<1>9. \A fn \in live : Hull(rates).lo <= Rate(fn, freq, te).lo /\ Rate(fn, freq, te).hi <= Hull(rates).hi
  BY <1>8
<1> QED
  BY <1>1, <1>3, <1>5, <1>7, <1>8, <1>9 DEF freq, live

(* How often a rule acts is not below zero, where its event is not.        *)
LEMMA FrequencyIs ==
  ASSUME NEW te, Formed(te), NEW r, RuleFormed(te, r),
         r.event # None /\ Resolve(r, te).freq # None => ~(te.span[Resolve(r, te).freq].lo < 0)
  PROVE  Resolve(r, te).freq # None =>
           /\ Resolve(r, te).freq \in DOMAIN te.span
           /\ Ordered(te.span[Resolve(r, te).freq]) /\ te.span[Resolve(r, te).freq].lo >= 0
<1> DEFINE freq == Resolve(r, te).freq
<1> HAVE freq # None
<1>1. freq \in DOMAIN te.span
  BY DEF RuleFormed
<1>2. CASE r.event = None
  <2>1. freq = r.freq
    BY <1>2 DEF Resolve
  <2> QED
    BY <1>1, <1>2, <2>1, SpanIs DEF RuleFormed
<1>3. CASE r.event # None
  BY <1>1, <1>3, SpanIs DEF Ordered
<1> QED
  BY <1>2, <1>3

(* A rule of creation whose function is not below zero counts with a rate  *)
(* that is not.                                                            *)
LEMMA CreationNotBelowZero ==
  ASSUME NEW te, Formed(te), NEW r, RuleFormed(te, r), ~BelowZero(te, r.fn),
         r.event # None /\ Resolve(r, te).freq # None => ~(te.span[Resolve(r, te).freq].lo < 0)
  PROVE  RuleRate(r, te).hi >= 0
<1> DEFINE freq == Resolve(r, te).freq
<1>1. freq # None => freq \in DOMAIN te.span /\ te.span[freq].lo >= 0
  BY FrequencyIs
<1>2. r.fn \in Live(r, te) /\ Ordered(RuleRate(r, te)) /\ FnFormed(te, r.fn)
      /\ Rate(r.fn, freq, te).hi <= RuleRate(r, te).hi
  BY RuleRateIs
<1> HIDE DEF freq
<1>3. Ordered(Rate(r.fn, freq, te)) /\ Rate(r.fn, freq, te).lo >= 0
  BY <1>1, <1>2, RateIs
<1> QED
  BY <1>2, <1>3 DEF Ordered

------------------------------------------------------------------------------
(* What a rule of a settled design comes to in the simulation              *)

(* A range times a value.                                                  *)
LEMMA TimesByValue ==
  ASSUME NEW r, Ordered(r), NEW s, s.lo \in Nat, s.hi = s.lo
  PROVE  /\ Times(r, s).lo = r.lo * s.lo /\ Times(r, s).hi = r.hi * s.lo /\ Ordered(Times(r, s))
         /\ r.lo >= 0 => Times(r, s).lo >= 0
<1> DEFINE a == r.lo * s.lo
           b == r.hi * s.lo
           ends == {a, b}
           products == {x * y : x \in Corners(r), y \in Corners(s)}
<1>1. products = ends
  BY DEF Corners
<1>9. Times(r, s) = [lo |-> Min(products), hi |-> Max(products)]
  BY DEF Times
<1> HIDE DEF products, ends
<1>2. Times(r, s).lo = Min(ends) /\ Times(r, s).hi = Max(ends)
  BY <1>1, <1>9
<1> USE DEF ends
<1>3. a \in Int /\ b \in Int /\ a <= b
  BY InProportion DEF Ordered
<1>4. r.lo >= 0 => a >= 0
  <2> HAVE r.lo >= 0
  <2>1. r.lo \in Nat
    BY DEF Ordered
  <2> QED
    BY <2>1
<1> HIDE DEF a, b
<1>5. /\ Max({a, b}) \in {a, b} /\ Max({a, b}) >= a /\ Max({a, b}) >= b
      /\ Min({a, b}) \in {a, b} /\ Min({a, b}) <= a /\ Min({a, b}) <= b
  BY <1>3, TwoEnds
<1>6. Min(ends) = a /\ Max(ends) = b
  BY <1>3, <1>5
<1> QED
  BY <1>2, <1>3, <1>4, <1>6 DEF Ordered, a, b

(* A rate that does not grow over a run is drawn no greater than what the  *)
(* checks count with, and one that does not fall no smaller.               *)
LEMMA DrawnIs ==
  ASSUME NEW te, Formed(te), Committed(te), NEW fn, FnFormed(te, fn)
  PROVE  /\ Ordered(Drawn(te, fn))
         /\ ~Lengthens(te, fn, "mint") => Drawn(te, fn).hi <= Average(fn, te).hi
         /\ ~Lengthens(te, fn, "burn") => Average(fn, te).lo <= Drawn(te, fn).lo
<1>1. CASE fn.family \notin Affine
  <2>1. Drawn(te, fn) = Average(fn, te) /\ Ordered(Average(fn, te))
    BY <1>1, AverageIs DEF Drawn
  <2> QED
    BY <2>1 DEF Ordered
<1>2. CASE fn.family \in Affine
  <2> DEFINE a == te.span[fn.a].lo
             b == te.span[fn.b].lo
             m == Slope(fn)
             n == SimSlope(fn)
  <2>1. m \in Nat /\ n \in Nat /\ m <= n
    BY <1>2, SimSlopeIs
  <2>2. a \in Int /\ te.span[fn.a].hi = a /\ b \in Int /\ te.span[fn.b].hi = b
    BY <1>2, Value DEF FnFormed, Affine
  <2>3. Average(fn, te) = [lo |-> a * m + b, hi |-> a * m + b]
    BY <1>2, <2>2 DEF Average, Affine
  <2>4. Drawn(te, fn) = [lo |-> a * n + b, hi |-> a * n + b]
    BY <1>2 DEF Drawn, At
  <2>5. (~Lengthens(te, fn, "mint") => a <= 0) /\ (~Lengthens(te, fn, "burn") => a >= 0)
    BY <1>2, <2>2 DEF Lengthens
  <2> HIDE DEF a, b, m, n
  <2>6. a * m \in Int /\ a * n \in Int
    BY <2>1, <2>2
  <2>7. a >= 0 => a * m <= a * n
    <3> HAVE a >= 0
    <3>1. a \in Nat
      BY <2>2
    <3>2. m * a <= n * a
      BY <2>1, <3>1, InProportion
    <3>3. m * a = a * m /\ n * a = a * n
      BY <2>1, <2>2
    <3> QED
      BY <3>2, <3>3
  <2>8. a <= 0 => a * n <= a * m
    <3> HAVE a <= 0
    <3> DEFINE c == -a
    <3>1. c \in Nat
      BY <2>2
    <3>2. a * m = -(m * c) /\ a * n = -(n * c)
      BY <2>1, <2>2
    <3> HIDE DEF c
    <3>3. m * c <= n * c /\ m * c \in Int /\ n * c \in Int
      BY <2>1, <3>1, InProportion
    <3> QED
      BY <3>2, <3>3
  <2> QED
    BY <2>2, <2>3, <2>4, <2>5, <2>6, <2>7, <2>8 DEF Ordered
<1> QED
  BY <1>1, <1>2

(* What a function in use pays, at the frequency that the checks take.     *)
LEMMA PaidIs ==
  ASSUME NEW te, Formed(te), Committed(te), NEW r, RuleFormed(te, r), NEW fn \in Live(r, te),
         r.event # None /\ Resolve(r, te).freq = None => r.freq = None,
         r.event # None /\ Resolve(r, te).freq # None => ~(te.span[Resolve(r, te).freq].lo < 0)
  PROVE  LET p == Paid(te, r, fn)
         IN /\ Ordered(p) /\ (Drawn(te, fn).lo >= 0 => p.lo >= 0)
            /\ ~Lengthens(te, fn, "mint") => p.hi <= RuleRate(r, te).hi
            /\ ~Lengthens(te, fn, "burn") => RuleRate(r, te).lo <= p.lo
<1> DEFINE freq == Resolve(r, te).freq
           drawn == Drawn(te, fn)
           average == Average(fn, te)
           rate == Rate(fn, freq, te)
           p == Paid(te, r, fn)
<1>1. FnFormed(te, fn) /\ Ordered(rate) /\ RuleRate(r, te).lo <= rate.lo /\ rate.hi <= RuleRate(r, te).hi
  BY RuleRateIs
<1>2. Ordered(RuleRate(r, te)) /\ Ordered(average)
  BY <1>1, RuleRateIs, AverageIs
<1>3. /\ Ordered(drawn) /\ (~Lengthens(te, fn, "mint") => drawn.hi <= average.hi)
      /\ (~Lengthens(te, fn, "burn") => average.lo <= drawn.lo)
  BY <1>1, DrawnIs
<1>4. Often(te, r) = freq
  <2>1. r.event = None => freq = r.freq
    BY DEF Resolve
  <2> QED
    BY <2>1 DEF Often
<1>5. p = (IF freq = None THEN drawn ELSE Times(drawn, te.span[freq]))
  BY <1>4 DEF Paid
<1>6. rate = (IF freq = None THEN average ELSE Times(average, te.span[freq]))
  BY DEF Rate
<1>7. freq # None => te.span[freq].lo \in Nat /\ te.span[freq].hi = te.span[freq].lo
  <2> HAVE freq # None
  <2>1. freq \in DOMAIN te.span /\ te.span[freq].lo >= 0
    BY FrequencyIs
  <2> HIDE DEF freq
  <2>2. te.span[freq].lo \in Int /\ te.span[freq].hi = te.span[freq].lo
    BY <2>1, Value
  <2> QED
    BY <2>1, <2>2
<1> HIDE DEF freq, drawn, average, rate, p
<1>8. CASE freq = None
  <2>1. p = drawn /\ rate = average
    BY <1>5, <1>6, <1>8
  <2>2. Ordered(p) /\ (drawn.lo >= 0 => p.lo >= 0)
    BY <1>3, <2>1
  <2>3. ~Lengthens(te, fn, "mint") => p.hi <= RuleRate(r, te).hi
    BY <1>1, <1>2, <1>3, <2>1 DEF Ordered
  <2>4. ~Lengthens(te, fn, "burn") => RuleRate(r, te).lo <= p.lo
    BY <1>1, <1>2, <1>3, <2>1 DEF Ordered
  <2> QED
    BY <2>2, <2>3, <2>4 DEF p, drawn
<1>9. CASE freq # None
  <2> DEFINE v == te.span[freq].lo
  <2>1. v \in Nat
    BY <1>7, <1>9
  <2>2. /\ p.lo = drawn.lo * v /\ p.hi = drawn.hi * v /\ Ordered(p) /\ (drawn.lo >= 0 => p.lo >= 0)
        /\ rate.lo = average.lo * v /\ rate.hi = average.hi * v
    BY <1>2, <1>3, <1>5, <1>6, <1>7, <1>9, TimesByValue
  <2> HIDE DEF v
  <2>3. ~Lengthens(te, fn, "mint") => p.hi <= RuleRate(r, te).hi
    <3> HAVE ~Lengthens(te, fn, "mint")
    <3>1. drawn.hi \in Int /\ average.hi \in Int /\ drawn.hi <= average.hi
      BY <1>2, <1>3 DEF Ordered
    <3>2. drawn.hi * v <= average.hi * v
      BY <2>1, <3>1, InProportion
    <3> QED
      BY <1>1, <1>2, <2>2, <3>2 DEF Ordered
  <2>4. ~Lengthens(te, fn, "burn") => RuleRate(r, te).lo <= p.lo
    <3> HAVE ~Lengthens(te, fn, "burn")
    <3>1. drawn.lo \in Int /\ average.lo \in Int /\ average.lo <= drawn.lo
      BY <1>2, <1>3 DEF Ordered
    <3>2. average.lo * v <= drawn.lo * v
      BY <2>1, <3>1, InProportion
    <3> QED
      BY <1>1, <1>2, <2>2, <3>2 DEF Ordered
  <2> QED
    BY <2>2, <2>3, <2>4 DEF p, drawn
<1> QED
  BY <1>8, <1>9

(* What comes into force is something the checks have counted with.        *)
LEMMA InForceIsLive ==
  ASSUME NEW te, Formed(te), Committed(te), NEW r, RuleFormed(te, r), ~Misread(te, r), NEW when, NEW fn \in InForce(te, r, when)
  PROVE  fn \in Live(r, te) /\ fn \in Fns(r)
<1>1. PICK g \in Range(r.regimes) : g.fn = fn /\ MayHold(te, g.predicate)
  BY DEF InForce
<1>2. Evaluable(g.predicate) /\ ~Late(te, g.predicate)
  BY <1>1 DEF RuleFormed, Conditions, Misread
<1>3. Status(g.predicate, te) # "never"
  BY <1>1, <1>2, MayHoldIsNotNever
<1>4. r.fn.family \notin {"expression", "opaque"}
  <2>1. r.regimes # <<>>
    BY <1>1 DEF Range
  <2> QED
    BY <2>1 DEF Misread
<1> QED
  BY <1>1, <1>3, <1>4 DEF Live, Fns

(* What a rule comes to, whatever has come into force.                     *)
LEMMA RealisedIs ==
  ASSUME NEW te, Formed(te), Committed(te), NEW r, RuleFormed(te, r), ~Misread(te, r), NEW when,
         r.event # None /\ Resolve(r, te).freq # None => ~(te.span[Resolve(r, te).freq].lo < 0)
  PROVE  LET x == Realised(te, r, when)
         IN /\ Ordered(x) /\ x.lo >= 0 /\ Ordered(RuleRate(r, te)) /\ RuleRate(r, te).hi >= 0
            /\ (\A fn \in Fns(r) : ~Lengthens(te, fn, "mint")) => x.hi <= RuleRate(r, te).hi
            /\ (\A fn \in Fns(r) : ~Lengthens(te, fn, "burn")) => RuleRate(r, te).lo <= x.lo
<1> DEFINE p(fn) == Paid(te, r, fn)
           switched(x) == [lo |-> NotBelowZero(x.lo), hi |-> NotBelowZero(x.hi)]
           fns == InForce(te, r, when)
           f == [fn \in fns |-> switched(p(fn))]
           later == {switched(p(fn)) : fn \in fns}
           all == {p(r.fn)} \cup later
           most == RuleRate(r, te).hi
           least == RuleRate(r, te).lo
           sinks == \A fn \in Fns(r) : ~Lengthens(te, fn, "mint")
           holds == \A fn \in Fns(r) : ~Lengthens(te, fn, "burn")
<1>1. ~BelowZero(te, r.fn) /\ Drawn(te, r.fn).lo >= 0
  <2>1. ~Falls(te, r.fn)
    BY DEF Misread
  <2>2. FnFormed(te, r.fn)
    BY DEF RuleFormed, Fns
  <2>3. Drawn(te, r.fn).lo \in Int
    BY <2>2, DrawnIs DEF Ordered
  <2> QED
    BY <2>1, <2>3 DEF Falls
<1>2. Ordered(RuleRate(r, te)) /\ most >= 0 /\ r.fn \in Live(r, te)
  BY <1>1, CreationNotBelowZero, RuleRateIs
<1>3. r.event # None /\ Resolve(r, te).freq = None => r.freq = None
  BY DEF Misread
<1>4. ASSUME NEW fn \in Live(r, te), fn \in Fns(r)
      PROVE  /\ Ordered(p(fn)) /\ (Drawn(te, fn).lo >= 0 => p(fn).lo >= 0)
             /\ (sinks => p(fn).hi <= most) /\ (holds => least <= p(fn).lo)
  BY <1>3, <1>4, PaidIs
<1>5. Ordered(p(r.fn)) /\ p(r.fn).lo >= 0 /\ (sinks => p(r.fn).hi <= most) /\ (holds => least <= p(r.fn).lo)
  BY <1>1, <1>2, <1>4 DEF Fns
<1>6. ASSUME NEW s \in later
      PROVE  Ordered(s) /\ s.lo >= 0 /\ (sinks => s.hi <= most) /\ (holds => least <= s.lo)
  <2>1. PICK fn \in fns : s = switched(p(fn))
    OBVIOUS
  <2>2. fn \in Live(r, te) /\ fn \in Fns(r)
    BY InForceIsLive
  <2>3. Ordered(p(fn)) /\ (sinks => p(fn).hi <= most) /\ (holds => least <= p(fn).lo)
    BY <1>4, <2>2
  <2>4. s.lo = NotBelowZero(p(fn).lo) /\ s.hi = NotBelowZero(p(fn).hi)
    BY <2>1
  <2> HIDE DEF p, switched, sinks, holds, later, fns
  <2> QED
    BY <1>2, <2>3, <2>4 DEF NotBelowZero, Ordered
<1>7. IsFiniteSet(all)
  <2> DEFINE places == DOMAIN r.regimes
             g == [i \in places |-> r.regimes[i].fn]
             listed == {r.regimes[i].fn : i \in places}
  <2>1. IsFiniteSet(places)
    BY ListIs DEF RuleFormed
  <2>2. DOMAIN g = places /\ listed = {g[i] : i \in DOMAIN g} /\ fns \subseteq listed
    BY DEF InForce, Range
  <2>3. DOMAIN f = fns /\ later = {f[fn] : fn \in DOMAIN f}
    OBVIOUS
  <2> HIDE DEF places, g, listed, fns, f, later
  <2>9. IsFiniteSet(listed)
    BY <2>1, <2>2, FiniteRange
  <2>4. IsFiniteSet(fns)
    BY <2>2, <2>9, FS_Subset
  <2>5. IsFiniteSet(later)
    BY <2>3, <2>4, FiniteRange
  <2>6. IsFiniteSet(later \cup {p(r.fn)})
    BY <2>5, FS_AddElement
  <2>7. later \cup {p(r.fn)} = all
    OBVIOUS
  <2> QED
    BY <2>6, <2>7
<1>8. Realised(te, r, when) = Hull(all)
  BY DEF Realised
<1>9. \A s \in all : Ordered(s) /\ s.lo >= 0 /\ (sinks => s.hi <= most) /\ (holds => least <= s.lo)
  BY <1>5, <1>6
<1>10. all # {}
  OBVIOUS
<1> HIDE DEF all, sinks, holds, most, least, later, p
<1>11. /\ Ordered(Hull(all)) /\ (\E s \in all : Hull(all).lo = s.lo)
       /\ \E s \in all : Hull(all).hi = s.hi
  BY <1>7, <1>9, <1>10, HullIs
<1>12. Hull(all).lo >= 0 /\ (sinks => Hull(all).hi <= most) /\ (holds => least <= Hull(all).lo)
  BY <1>9, <1>11
<1> QED
  BY <1>2, <1>8, <1>11, <1>12 DEF sinks, holds, most, least

------------------------------------------------------------------------------
(* The two sides of a token                                                *)
LEMMA TokenIsFormed ==
  ASSUME NEW te, Formed(te), NEW t \in te.tokens, NEW rules, rules \in {te.token[t].emits, te.token[t].burns}
  PROVE  /\ IsFiniteSet(DOMAIN rules) /\ List(rules)
         /\ \A i \in DOMAIN rules : RuleFormed(te, rules[i]) /\ rules[i] \in Range(rules)
<1>1. List(rules) /\ \A r \in Range(rules) : RuleFormed(te, r)
  BY DEF Formed, TokenFormed
<1>2. \A i \in DOMAIN rules : rules[i] \in Range(rules)
  BY DEF Range
<1>3. IsFiniteSet(DOMAIN rules)
  BY <1>1, ListIs
<1> QED
  BY <1>1, <1>2, <1>3

Counted(te, rules, side) == {i \in DOMAIN rules : Contributes(rules[i], te, side)}
Ruled(te, rules, side, end) == [i \in Counted(te, rules, side) |-> RuleRate(rules[i], te)[end]]
Fed(te, t, act, own, end) == [i \in Flows(te, t, act) |-> FlowRate(te.flows[i], own, te)[end]]

LEMMA SideIs ==
  ASSUME NEW te, NEW t, NEW rules, NEW side, NEW act, NEW own
  PROVE  LET s == Side(te, t, rules, side, act, own)
         IN /\ s.lo = 100 * Sum(Ruled(te, rules, side, "lo")) + Sum(Fed(te, t, act, own, "lo"))
            /\ s.hi = 100 * Sum(Ruled(te, rules, side, "hi")) + Sum(Fed(te, t, act, own, "hi"))
<1> DEFINE ruled == [i \in Counted(te, rules, side) |-> RuleRate(rules[i], te)]
           fed   == [i \in Flows(te, t, act) |-> FlowRate(te.flows[i], own, te)]
<1>1. /\ Side(te, t, rules, side, act, own).lo = 100 * Total(ruled).lo + Total(fed).lo
      /\ Side(te, t, rules, side, act, own).hi = 100 * Total(ruled).hi + Total(fed).hi
  BY DEF Side, Counted
<1>2. /\ [i \in DOMAIN ruled |-> ruled[i].lo] = Ruled(te, rules, side, "lo")
      /\ [i \in DOMAIN ruled |-> ruled[i].hi] = Ruled(te, rules, side, "hi")
  BY DEF Ruled
<1>3. /\ [i \in DOMAIN fed |-> fed[i].lo] = Fed(te, t, act, own, "lo")
      /\ [i \in DOMAIN fed |-> fed[i].hi] = Fed(te, t, act, own, "hi")
  BY DEF Fed
<1> QED
  BY <1>1, <1>2, <1>3 DEF Total

LEMMA FlowsAre ==
  ASSUME NEW te, Formed(te), NEW t, NEW act
  PROVE  /\ IsFiniteSet(Flows(te, t, act))
         /\ \A i \in Flows(te, t, act) : te.flows[i] \in Range(te.flows) /\ te.flows[i].dst = t
<1>1. IsFiniteSet(DOMAIN te.flows)
  BY ListIs DEF Formed
<1>2. Flows(te, t, act) \subseteq DOMAIN te.flows
  BY DEF Flows
<1>3. \A i \in Flows(te, t, act) : te.flows[i] \in Range(te.flows) /\ te.flows[i].dst = t
  BY DEF Flows, Range
<1> QED
  BY <1>1, <1>2, <1>3, FS_Subset

(* The rules that act in a period, and what they and the flows come to.    *)
Acting(rules, when) == {i \in DOMAIN rules : when = "running" \/ rules[i].fn.family # "distribution"}
Acts(te, rules, when, end) == [i \in Acting(rules, when) |-> Realised(te, rules[i], when)[end]]
Brought(te, t, act, end) == [i \in Flows(te, t, act) |-> Drawn(te, te.flows[i].amount)[end]]

LEMMA AmountIs ==
  ASSUME NEW te, NEW t, NEW rules, NEW act, NEW when
  PROVE  LET x == Amount(te, t, rules, act, when)
         IN /\ x.lo = Sum(Acts(te, rules, when, "lo")) + Sum(Brought(te, t, act, "lo"))
            /\ x.hi = Sum(Acts(te, rules, when, "hi")) + Sum(Brought(te, t, act, "hi"))
<1> DEFINE ruled == [i \in Acting(rules, when) |-> Realised(te, rules[i], when)]
           fed   == [i \in Flows(te, t, act) |-> Drawn(te, te.flows[i].amount)]
<1>1. /\ Amount(te, t, rules, act, when).lo = Total(ruled).lo + Total(fed).lo
      /\ Amount(te, t, rules, act, when).hi = Total(ruled).hi + Total(fed).hi
  BY DEF Amount, Acting
<1>2. /\ [i \in DOMAIN ruled |-> ruled[i].lo] = Acts(te, rules, when, "lo")
      /\ [i \in DOMAIN ruled |-> ruled[i].hi] = Acts(te, rules, when, "hi")
  BY DEF Acts
<1>3. /\ [i \in DOMAIN fed |-> fed[i].lo] = Brought(te, t, act, "lo")
      /\ [i \in DOMAIN fed |-> fed[i].hi] = Brought(te, t, act, "hi")
  BY DEF Brought
<1> QED
  BY <1>1, <1>2, <1>3 DEF Total

(* A rule that the simulator reads as the checks do.                       *)
LEMMA RuleIsRead ==
  ASSUME NEW te, Formed(te), Committed(te), NEW t \in te.tokens, ~Apart(te, t), ~Impossible(te, t), NEW when,
         NEW rules, rules \in {te.token[t].emits, te.token[t].burns}, NEW i \in DOMAIN rules
  PROVE  LET x == Realised(te, rules[i], when)
             rate == RuleRate(rules[i], te)
         IN /\ Ordered(x) /\ x.lo >= 0 /\ Ordered(rate) /\ rate.hi >= 0
            /\ rules = te.token[t].emits => Contributes(rules[i], te, "emission") /\ x.hi <= rate.hi
            /\ rules = te.token[t].burns => rate.lo <= x.lo
<1> DEFINE r == rules[i]
<1>1. RuleFormed(te, r) /\ r \in Range(rules)
  BY TokenIsFormed
<1>2. r \in Range(te.token[t].emits) \cup Range(te.token[t].burns)
  BY <1>1
<1>3. ~Misread(te, r)
  BY <1>2 DEF Apart
<1>4. r.event # None /\ Resolve(r, te).freq # None => ~(te.span[Resolve(r, te).freq].lo < 0)
  BY <1>2 DEF Impossible
<1> HIDE DEF r
<1>5. LET x == Realised(te, r, when)
      IN /\ Ordered(x) /\ x.lo >= 0 /\ Ordered(RuleRate(r, te)) /\ RuleRate(r, te).hi >= 0
         /\ (\A fn \in Fns(r) : ~Lengthens(te, fn, "mint")) => x.hi <= RuleRate(r, te).hi
         /\ (\A fn \in Fns(r) : ~Lengthens(te, fn, "burn")) => RuleRate(r, te).lo <= x.lo
  BY <1>1, <1>3, <1>4, RealisedIs
<1>6. rules = te.token[t].emits =>
        Conjunction(r.when, te) # "never" /\ \A fn \in Fns(r) : ~Lengthens(te, fn, "mint")
  BY <1>1 DEF Apart
<1>7. rules = te.token[t].burns => \A fn \in Fns(r) : ~Lengthens(te, fn, "burn")
  BY <1>1 DEF Apart
<1>8. Conjunction(r.when, te) \in {"always", "ever", "never"}
  BY DEF Conjunction, Every, Decide
<1>9. rules = te.token[t].emits => Contributes(r, te, "emission")
  BY <1>6, <1>8 DEF Contributes
<1> QED
  BY <1>5, <1>6, <1>7, <1>9 DEF r

(* A flow that the simulator reads as the checks do.                       *)
LEMMA FlowIsRead ==
  ASSUME NEW te, Formed(te), Committed(te), NEW t \in te.tokens, ~Apart(te, t), NEW own,
         NEW act, NEW i \in Flows(te, t, act)
  PROVE  LET x == Drawn(te, te.flows[i].amount)
             rate == FlowRate(te.flows[i], own, te)
         IN /\ Ordered(x) /\ x.lo >= 0 /\ Ordered(rate)
            /\ act = "mint" => 100 * x.hi <= rate.hi
            /\ act = "burn" => rate.lo <= 100 * x.lo
<1> DEFINE f == te.flows[i]
           fn == f.amount
           x == Drawn(te, fn)
           average == Average(fn, te)
<1>1. f \in Range(te.flows) /\ f.dst = t /\ f.act = act
  BY FlowsAre DEF Flows
<1> HIDE DEF f
<1>2. f.ratio = None /\ ~Falls(te, fn) /\ ~Lengthens(te, fn, act)
  BY <1>1 DEF Apart
<1>3. FnFormed(te, fn)
  BY <1>1, <1>2 DEF Formed, FlowFormed
<1>4. /\ Ordered(x) /\ Ordered(average)
      /\ ~Lengthens(te, fn, "mint") => x.hi <= average.hi
      /\ ~Lengthens(te, fn, "burn") => average.lo <= x.lo
  BY <1>3, DrawnIs, AverageIs
<1>5. FlowRate(f, own, te) = Hundredths(average) /\ ~(x.lo < 0)
  BY <1>2 DEF FlowRate, Falls
<1> HIDE DEF fn, x, average
<1>6. x.lo >= 0 /\ Ordered(Hundredths(average))
  BY <1>4, <1>5 DEF Ordered, Hundredths
<1>7. act = "mint" => 100 * x.hi <= FlowRate(f, own, te).hi
  BY <1>2, <1>4, <1>5 DEF Ordered, Hundredths
<1>8. act = "burn" => FlowRate(f, own, te).lo <= 100 * x.lo
  BY <1>2, <1>4, <1>5 DEF Ordered, Hundredths
<1> QED
  BY <1>4, <1>5, <1>6, <1>7, <1>8 DEF f, fn, x

(* What a period creates or removes is an amount.                          *)
LEMMA AmountIsOrdered ==
  ASSUME NEW te, Formed(te), Committed(te), NEW t \in te.tokens, ~Apart(te, t), ~Impossible(te, t), NEW when,
         NEW rules, rules \in {te.token[t].emits, te.token[t].burns}, NEW act
  PROVE  LET x == Amount(te, t, rules, act, when) IN Ordered(x) /\ x.lo >= 0
<1> DEFINE S == Acting(rules, when)
           F == Flows(te, t, act)
           a == Acts(te, rules, when, "lo")
           b == Acts(te, rules, when, "hi")
           c == Brought(te, t, act, "lo")
           d == Brought(te, t, act, "hi")
<1>1. IsFiniteSet(S) /\ IsFiniteSet(F) /\ S \subseteq DOMAIN rules
  <2>1. IsFiniteSet(DOMAIN rules) /\ S \subseteq DOMAIN rules
    BY TokenIsFormed DEF Acting
  <2> QED
    BY <2>1, FS_Subset, FlowsAre
<1>2. \A i \in S : a[i] \in Int /\ a[i] >= 0 /\ b[i] \in Int /\ a[i] <= b[i]
  BY <1>1, RuleIsRead DEF Acts, Ordered
<1>3. \A i \in F : c[i] \in Int /\ c[i] >= 0 /\ d[i] \in Int /\ c[i] <= d[i]
  BY FlowIsRead DEF Brought, Ordered
<1>4. DOMAIN a = S /\ DOMAIN b = S /\ DOMAIN c = F /\ DOMAIN d = F
  BY DEF Acts, Brought
<1>5. /\ Amount(te, t, rules, act, when).lo = Sum(a) + Sum(c)
      /\ Amount(te, t, rules, act, when).hi = Sum(b) + Sum(d)
  BY AmountIs
<1> HIDE DEF S, F, a, b, c, d
<1>6. Sum(a) \in Int /\ Sum(a) >= 0 /\ Sum(c) \in Int /\ Sum(c) >= 0
  BY <1>1, <1>2, <1>3, <1>4, SumOfNothing
<1>7. Sum(b) \in Int /\ Sum(d) \in Int
  BY <1>1, <1>2, <1>3, <1>4, SumIsInt
<1>8. Sum(a) <= Sum(b)
  BY <1>1, <1>2, <1>4, SumsInOrder
<1>9. Sum(c) <= Sum(d)
  BY <1>1, <1>3, <1>4, SumsInOrder
<1> QED
  BY <1>5, <1>6, <1>7, <1>8, <1>9 DEF Ordered

(* No period creates more than the most that the checks count with.        *)
LEMMA CreationIsCounted ==
  ASSUME NEW te, Formed(te), Committed(te), NEW t \in te.tokens, ~Apart(te, t), ~Impossible(te, t), NEW when, NEW own
  PROVE  LET most == Side(te, t, te.token[t].emits, "emission", "mint", own).hi
         IN most \in Int /\ 100 * Creation(te, t, when).hi <= most
<1> DEFINE rules == te.token[t].emits
           S == DOMAIN rules
           A == Acting(rules, when)
           F == Flows(te, t, "mint")
           b == Acts(te, rules, when, "hi")
           c == Ruled(te, rules, "emission", "hi")
           d == Brought(te, t, "mint", "hi")
           h == [i \in F |-> 100 * d[i]]
           e == Fed(te, t, "mint", own, "hi")
<1>1. Creation(te, t, when).hi = Sum(b) + Sum(d)
  BY AmountIs DEF Creation
<1>2. Side(te, t, rules, "emission", "mint", own).hi = 100 * Sum(c) + Sum(e)
  BY SideIs
<1>3. IsFiniteSet(S) /\ A \subseteq S /\ IsFiniteSet(A)
  <2>1. IsFiniteSet(S) /\ A \subseteq S
    BY TokenIsFormed DEF Acting
  <2> QED
    BY <2>1, FS_Subset
<1>4. ASSUME NEW i \in S
      PROVE  i \in Counted(te, rules, "emission") /\ c[i] \in Int /\ c[i] >= 0 /\ (i \in A => b[i] \in Int /\ b[i] <= c[i])
  <2> DEFINE x == Realised(te, rules[i], when)
             rate == RuleRate(rules[i], te)
  <2>1. Ordered(x) /\ Ordered(rate) /\ rate.hi >= 0 /\ Contributes(rules[i], te, "emission") /\ x.hi <= rate.hi
    BY RuleIsRead
  <2>2. i \in Counted(te, rules, "emission")
    BY <2>1 DEF Counted
  <2>3. c[i] = rate.hi /\ (i \in A => b[i] = x.hi)
    BY <2>2 DEF Ruled, Acts
  <2> HIDE DEF x, rate, b, c
  <2> QED
    BY <2>1, <2>2, <2>3 DEF Ordered
<1>5. IsFiniteSet(F)
  BY FlowsAre
<1>6. ASSUME NEW i \in F PROVE d[i] \in Int /\ e[i] \in Int /\ h[i] = 100 * d[i] /\ h[i] <= e[i]
  BY FlowIsRead DEF Ordered, Brought, Fed
<1>7. DOMAIN b = A /\ DOMAIN c = S /\ DOMAIN d = F /\ DOMAIN e = F /\ DOMAIN h = F
  <2>1. Counted(te, rules, "emission") = S
    BY <1>4 DEF Counted
  <2> QED
    BY <2>1 DEF Acts, Ruled, Brought, Fed
<1> HIDE DEF rules, S, A, F, b, c, d, e, h
<1>8. \A i \in S : Term(b, i) <= Term(c, i)
  BY <1>4, <1>7 DEF Term
<1>9. Sum(b) <= Sum(c)
  BY <1>3, <1>4, <1>7, <1>8, SumGrows
<1>10. 100 * Sum(d) <= Sum(e)
  <2>1. Sum(h) = 100 * Sum(d)
    BY <1>5, <1>6, <1>7, SumOfHundreds
  <2>2. \A i \in F : h[i] \in Int /\ e[i] \in Int /\ h[i] <= e[i]
    BY <1>6
  <2>3. Sum(h) <= Sum(e)
    BY <1>5, <1>7, <2>2, SumsInOrder
  <2> QED
    BY <2>1, <2>3
<1>11. Sum(b) \in Int /\ Sum(c) \in Int /\ Sum(d) \in Int /\ Sum(e) \in Int
  BY <1>3, <1>4, <1>5, <1>6, <1>7, SumIsInt
<1> QED
  BY <1>1, <1>2, <1>9, <1>10, <1>11 DEF rules

(* Every period removes the least that the checks count on, unless it is   *)
(* drawn anew in each period and the economy is not running yet.           *)
LEMMA RemovalIsCounted ==
  ASSUME NEW te, Formed(te), Committed(te), NEW t \in te.tokens, ~Apart(te, t), ~Impossible(te, t), NEW when, NEW own,
         when = "running" \/ \A r \in Range(te.token[t].burns) : r.fn.family # "distribution"
  PROVE  LET least == Side(te, t, te.token[t].burns, "burn", "burn", own).lo
         IN least \in Int /\ least <= 100 * Removal(te, t, when).lo
<1> DEFINE rules == te.token[t].burns
           S == DOMAIN rules
           C == Counted(te, rules, "burn")
           F == Flows(te, t, "burn")
           b == Acts(te, rules, when, "lo")
           c == Ruled(te, rules, "burn", "lo")
           d == Brought(te, t, "burn", "lo")
           h == [i \in F |-> 100 * d[i]]
           e == Fed(te, t, "burn", own, "lo")
<1>1. Removal(te, t, when).lo = Sum(b) + Sum(d)
  BY AmountIs DEF Removal
<1>2. Side(te, t, rules, "burn", "burn", own).lo = 100 * Sum(c) + Sum(e)
  BY SideIs
<1>3. IsFiniteSet(S) /\ C \subseteq S /\ IsFiniteSet(C)
  <2>1. IsFiniteSet(S) /\ C \subseteq S
    BY TokenIsFormed DEF Counted
  <2> QED
    BY <2>1, FS_Subset
<1>4. Acting(rules, when) = S
  BY DEF Acting, Range
<1>5. ASSUME NEW i \in S
      PROVE  b[i] \in Int /\ b[i] >= 0 /\ (i \in C => c[i] \in Int /\ c[i] <= b[i])
  <2> DEFINE x == Realised(te, rules[i], when)
             rate == RuleRate(rules[i], te)
  <2>1. Ordered(x) /\ x.lo >= 0 /\ Ordered(rate) /\ rate.lo <= x.lo
    BY RuleIsRead
  <2>2. b[i] = x.lo /\ (i \in C => c[i] = rate.lo)
    BY <1>4 DEF Ruled, Acts
  <2> HIDE DEF x, rate, b, c
  <2> QED
    BY <2>1, <2>2 DEF Ordered
<1>6. IsFiniteSet(F)
  BY FlowsAre
<1>7. ASSUME NEW i \in F PROVE d[i] \in Int /\ e[i] \in Int /\ h[i] = 100 * d[i] /\ e[i] <= h[i]
  BY FlowIsRead DEF Ordered, Brought, Fed
<1>8. DOMAIN b = S /\ DOMAIN c = C /\ DOMAIN d = F /\ DOMAIN e = F /\ DOMAIN h = F
  BY <1>4 DEF Acts, Ruled, Brought, Fed
<1> HIDE DEF rules, S, C, F, b, c, d, e, h
<1>9. \A i \in S : Term(c, i) <= Term(b, i)
  BY <1>5, <1>8 DEF Term
<1>10. Sum(c) <= Sum(b)
  BY <1>3, <1>5, <1>8, <1>9, SumGrows
<1>11. Sum(e) <= 100 * Sum(d)
  <2>1. Sum(h) = 100 * Sum(d)
    BY <1>6, <1>7, <1>8, SumOfHundreds
  <2>2. \A i \in F : h[i] \in Int /\ e[i] \in Int /\ e[i] <= h[i]
    BY <1>7
  <2>3. Sum(e) <= Sum(h)
    BY <1>6, <1>8, <2>2, SumsInOrder
  <2> QED
    BY <2>1, <2>3
<1>12. Sum(b) \in Int /\ Sum(c) \in Int /\ Sum(d) \in Int /\ Sum(e) \in Int
  BY <1>3, <1>5, <1>6, <1>7, <1>8, SumIsInt
<1> QED
  BY <1>1, <1>2, <1>10, <1>11, <1>12 DEF rules

------------------------------------------------------------------------------
(* A check looks at the most that is created with the least that is        *)
(* removed.                                                                *)
LEMMA WorstIsChecked ==
  ASSUME NEW te, NEW t
  PROVE  \E own :
           /\ \A f \in Range(te.flows) : f.dst = t /\ f.ratio # None => own[f.src] = 100 * OwnRate(f.src, te).lo
           /\ <<Side(te, t, te.token[t].emits, "emission", "mint", own).hi,
                Side(te, t, te.token[t].burns, "burn", "burn", own).lo>> \in Balances(te, t)
<1> DEFINE sources == {f.src : f \in {f \in Range(te.flows) : f.dst = t /\ f.ratio # None}}
           reach   == [s \in sources |-> Ends(Hundredths(OwnRate(s, te)))]
           owns    == {own \in [sources -> UNION {reach[s] : s \in sources}] : \A s \in sources : own[s] \in reach[s]}
           own     == [s \in sources |-> 100 * OwnRate(s, te).lo]
           E(o) == Ends(Side(te, t, te.token[t].emits, "emission", "mint", o))
           B(o) == Ends(Side(te, t, te.token[t].burns, "burn", "burn", o))
<1>1. Balances(te, t) = UNION {E(o) \X B(o) : o \in owns}
  BY DEF Balances
<1>2. own \in owns
  <2>1. \A s \in sources : own[s] \in reach[s]
    BY DEF Ends, Hundredths
  <2> HIDE DEF reach
  <2> QED
    BY <2>1
<1>3. /\ Side(te, t, te.token[t].emits, "emission", "mint", own).hi \in E(own)
      /\ Side(te, t, te.token[t].burns, "burn", "burn", own).lo \in B(own)
  BY DEF Ends
<1>4. \A f \in Range(te.flows) : f.dst = t /\ f.ratio # None => own[f.src] = 100 * OwnRate(f.src, te).lo
  OBVIOUS
<1> HIDE DEF own, owns, E, B, sources, reach
<1>5. \A o \in owns : \A e \in E(o), b \in B(o) : <<e, b>> \in Balances(te, t)
  BY <1>1
<1>6. <<Side(te, t, te.token[t].emits, "emission", "mint", own).hi,
        Side(te, t, te.token[t].burns, "burn", "burn", own).lo>> \in Balances(te, t)
  BY <1>2, <1>3, <1>5
<1> QED
  BY <1>4, <1>6

LEMMA DeclaredInputs ==
  ASSUME NEW te, Formed(te), Committed(te)
  PROVE  /\ \A p \in {"Q", "N", "d"} : p \in DOMAIN te.span /\ te.span[p].lo \in Int /\ te.span[p].hi = te.span[p].lo
         /\ te.span["N"].lo >= 1
  BY Value DEF Formed

LEMMA CapIs ==
  ASSUME NEW te, Formed(te), Committed(te), NEW t \in te.tokens, Capped(te, t)
  PROVE  te.span[te.token[t].cap].lo \in Int
<1>1. te.token[t].cap \in DOMAIN te.span
  BY DEF Formed, TokenFormed, Capped
<1> QED
  BY <1>1, Value

(* What a period does is some creation and some removal, cut at the cap.   *)
LEMMA DoesIs ==
  ASSUME NEW te, NEW t, NEW when, NEW does \in Does(te, t, when)
  PROVE  \E c \in Within(Creation(te, t, when)) :
           /\ does.B \in Within(Removal(te, t, when))
           /\ does.E \in IF when = "running" /\ Capped(te, t)
                         THEN {NotBelowZero(Min({c, room + does.B})) : room \in 0 .. At(te, te.token[t].cap)} ELSE {c}
<1> DEFINE minted(e, b) == IF when = "running" /\ Capped(te, t)
                           THEN {NotBelowZero(Min({e, room + b})) : room \in 0 .. At(te, te.token[t].cap)} ELSE {e}
           made == Within(Creation(te, t, when))
           gone == Within(Removal(te, t, when))
<1>1. Does(te, t, when) = UNION {{[E |-> x, B |-> b] : x \in minted(e, b)} : e \in made, b \in gone}
  BY DEF Does
<1> SUFFICES \E c \in made : does.B \in gone /\ does.E \in minted(c, does.B)
  OBVIOUS
<1> HIDE DEF minted, made, gone
<1>2. PICK e \in made, b \in gone : does \in {[E |-> x, B |-> b] : x \in minted(e, b)}
  BY <1>1
<1>3. does.B = b /\ does.E \in minted(e, b)
  BY <1>2
<1> QED
  BY <1>3

(* Most is created, least removed, and what a period does is within.       *)
LEMMA PeriodIsWithin ==
  ASSUME NEW te, Formed(te), Committed(te), NEW t \in te.tokens, ~Apart(te, t), ~Impossible(te, t), NEW when,
         when = "running" \/ \A r \in Range(te.token[t].burns) : r.fn.family # "distribution",
         NEW x \in Does(te, t, when)
  PROVE  /\ x.E \in Int /\ x.B \in Int
         /\ \E e \in Int, b \in Int :
              <<e, b>> \in Balances(te, t) /\ 100 * x.E <= e /\ b <= 100 * x.B /\ 100 * Creation(te, t, when).lo <= e
         /\ Creation(te, t, when).lo \in Int
         /\ Creation(te, t, when).lo > 0 /\ x.B > 0 => x.E > 0
         /\ when = "running" /\ Capped(te, t) => x.E - x.B <= te.span[te.token[t].cap].lo
<1> DEFINE created == Creation(te, t, when)
           removed == Removal(te, t, when)
           cap == te.span[te.token[t].cap].lo
           held == when = "running" /\ Capped(te, t)
           minted(e, b) == IF held THEN {NotBelowZero(Min({e, room + b})) : room \in 0 .. cap} ELSE {e}
<1>1. PICK own :
           <<Side(te, t, te.token[t].emits, "emission", "mint", own).hi,
             Side(te, t, te.token[t].burns, "burn", "burn", own).lo>> \in Balances(te, t)
  BY WorstIsChecked
<1> DEFINE e == Side(te, t, te.token[t].emits, "emission", "mint", own).hi
           b == Side(te, t, te.token[t].burns, "burn", "burn", own).lo
<1>2. e \in Int /\ 100 * created.hi <= e
  BY CreationIsCounted
<1>3. b \in Int /\ b <= 100 * removed.lo
  BY RemovalIsCounted
<1>4. Ordered(created) /\ created.lo >= 0 /\ Ordered(removed) /\ removed.lo >= 0
  BY AmountIsOrdered DEF Creation, Removal
<1>5. PICK c \in Within(created), r \in Within(removed) : x.B = r /\ x.E \in minted(c, r)
  <2> SUFFICES \E c \in Within(created) : x.B \in Within(removed) /\ x.E \in minted(c, x.B)
    OBVIOUS
  <2> QED
    BY DoesIs DEF At
<1>6. held => cap \in Int
  BY CapIs
<1>7. <<e, b>> \in Balances(te, t)
  BY <1>1
<1> HIDE DEF created, removed, e, b, cap
<1>8. c \in Int /\ created.lo <= c /\ c <= created.hi /\ r \in Int /\ r >= 0 /\ removed.lo <= r
  BY <1>4 DEF Ordered, Within
<1>9. /\ x.E \in Int /\ x.E <= c /\ (created.lo > 0 /\ r > 0 => x.E > 0)
      /\ held => x.E - r <= cap
  <2>1. CASE ~held
    <3>1. x.E = c
      BY <1>5, <2>1
    <3> QED
      BY <1>4, <1>8, <2>1, <3>1 DEF Ordered
  <2>2. CASE held
    <3>1. PICK room \in 0 .. cap : x.E = NotBelowZero(Min({c, room + r}))
      BY <1>5, <2>2
    <3> DEFINE n == room + r
    <3>2. room \in Int /\ room >= 0 /\ room <= cap /\ n \in Int /\ n >= 0
      BY <1>6, <1>8, <2>2
    <3>3. (r > 0 => n > 0) /\ n - r <= cap
      BY <1>6, <1>8, <2>2, <3>2
    <3>4. x.E = NotBelowZero(Min({c, n}))
      BY <3>1
    <3> HIDE DEF n
    <3> DEFINE m == Min({c, n})
    <3>5. m \in {c, n} /\ m <= c /\ m <= n
      BY <1>8, <3>2, TwoEnds
    <3>6. x.E = m
      <4>1. m >= 0
        BY <1>4, <1>8, <3>2, <3>5 DEF Ordered
      <4> HIDE DEF m
      <4> QED
        BY <1>8, <3>2, <3>4, <3>5, <4>1 DEF NotBelowZero, m
    <3> HIDE DEF m
    <3> QED
      BY <1>4, <1>6, <1>8, <2>2, <3>2, <3>3, <3>5, <3>6 DEF Ordered
  <2> QED
    BY <2>1, <2>2
<1> HIDE DEF minted, held
<1>10. x.E \in Int /\ x.B \in Int /\ 100 * x.E <= e /\ b <= 100 * x.B /\ 100 * created.lo <= e
  BY <1>2, <1>3, <1>4, <1>5, <1>8, <1>9 DEF Ordered
<1>11. \E p \in Int, q \in Int : <<p, q>> \in Balances(te, t) /\ 100 * x.E <= p /\ q <= 100 * x.B /\ 100 * created.lo <= p
  BY <1>2, <1>3, <1>7, <1>10
<1>12. created.lo \in Int
  BY <1>4 DEF Ordered
<1> QED
  BY <1>5, <1>9, <1>10, <1>11, <1>12 DEF created, held, cap

(* FM1: what is created beyond what is removed is not more than the        *)
(* transactions, or than the cap, which is not.                            *)
LEMMA SafeFM1 ==
  ASSUME NEW te, Formed(te), Committed(te), NEW t \in te.tokens, ~Apart(te, t), ~Impossible(te, t), FM1(te, t) = "pass",
         NEW when, when = "running" \/ \A r \in Range(te.token[t].burns) : r.fn.family # "distribution",
         when = "running" \/ ~Capped(te, t), NEW x \in Does(te, t, when), NEW c \in Watch1(te, t)
  PROVE  Meets(c.op, Measure(te, c.variable, x), c.threshold)
<1> DEFINE q == te.span["Q"].lo
           cap == te.span[te.token[t].cap].lo
<1>1. c = Clause("net_emission", "<=", q, 1) /\ te.token[t].transferable /\ Emits(te, t)
  BY DEF Watch1
<1>2. c.op = "<=" /\ c.variable = "net_emission" /\ c.threshold = q
  BY <1>1 DEF Clause
<1>3. PICK e \in Int, b \in Int : <<e, b>> \in Balances(te, t) /\ 100 * x.E <= e /\ b <= 100 * x.B
  BY PeriodIsWithin
<1>4. x.E \in Int /\ x.B \in Int /\ q \in Int
  BY PeriodIsWithin, DeclaredInputs
<1>5. 100 * q \in Ends(Hundredths(te.span["Q"]))
  BY DEF Ends, Hundredths
<1>6. ~Oversupplied(te, t, e, b, 100 * q)
  <2>1. \A eb \in Balances(te, t) : ~Oversupplied(te, t, eb[1], eb[2], 100 * q)
    BY <1>1, <1>5 DEF FM1
  <2> DEFINE eb == <<e, b>>
  <2>2. eb[1] = e /\ eb[2] = b /\ eb \in Balances(te, t)
    BY <1>3
  <2> HIDE DEF eb
  <2> QED
    BY <2>1, <2>2
<1>7. Measure(te, "net_emission", x) = x.E - x.B
  BY DEF Measure
<1>8. x.E - x.B <= q
  <2>1. CASE e - b <= 100 * q
    <3> HIDE DEF q
    <3> QED
      BY <1>3, <1>4, <2>1
  <2>2. CASE ~(e - b <= 100 * q)
    <3>1. e - b > 100 * q
      <4> HIDE DEF q
      <4> QED
        BY <1>4, <2>2
    <3>4. 100 * cap \in Ends(Hundredths(te.span[te.token[t].cap]))
      BY DEF Ends, Hundredths
    <3>2. Capped(te, t) /\ ~(100 * cap > 100 * q)
      BY <1>6, <3>1, <3>4 DEF Oversupplied
    <3>3. cap \in Int /\ x.E - x.B <= cap
      BY <3>2, CapIs, PeriodIsWithin
    <3> HIDE DEF q, cap
    <3> QED
      BY <1>4, <3>2, <3>3
  <2> QED
    BY <2>1, <2>2
<1> QED
  BY <1>2, <1>7, <1>8 DEF Meets

(* FM2: the average holding time exceeds a period and a half.              *)
LEMMA SafeFM2 ==
  ASSUME NEW te, NEW t, te.agents # <<>>, FM2(te, t) = "pass", NEW does, NEW c \in Watch2(te, t)
  PROVE  Meets(c.op, Measure(te, c.variable, does), c.threshold)
<1>1. c = Clause("tau_bar", ">", 100 * Ceiling, 1)
  BY DEF Watch2
<1>2. c.op = ">" /\ c.variable = "tau_bar" /\ c.threshold = 100 * Ceiling
  BY <1>1 DEF Clause
<1>3. AverageHolding(te, "lo") > 100 * Ceiling
  BY DEF FM2
<1>4. Measure(te, "tau_bar", does) = AverageHolding(te, "lo")
  BY DEF Measure
<1> QED
  BY <1>2, <1>3, <1>4 DEF Meets

LEMMA FloorIs == ASSUME NEW te, Formed(te) PROVE Floor(te) \in {100, 105, 110}
<1>1. te.nfr.resilience \in {1, 2, 3, 4, 5}
  BY DEF Formed
<1>2. ResilienceFactor[te.nfr.resilience] \in {100, 105, 110}
  BY <1>1 DEF ResilienceFactor
<1>3. Floor(te) = (100 * ResilienceFactor[te.nfr.resilience]) \div 100
  BY DEF Floor, RhoFloor
<1> QED
  BY <1>2, <1>3

(* FM3: removal covers its share of creation.                              *)
LEMMA SafeFM3 ==
  ASSUME NEW te, Formed(te), Committed(te), NEW t \in te.tokens, ~Apart(te, t), ~Impossible(te, t), FM3(te, t) = "pass",
         NEW when, when = "running" \/ \A r \in Range(te.token[t].burns) : r.fn.family # "distribution",
         ~(Creation(te, t, when).lo <= 0), NEW x \in Does(te, t, when), NEW c \in Watch3(te, t)
  PROVE  Meets(c.op, Measure(te, c.variable, x), c.threshold)
<1> DEFINE f == Floor(te)
           least == Creation(te, t, when).lo
<1>1. c = Clause("rho", ">=", f, 1) /\ Emits(te, t) /\ ~Scheduled(te, t)
  BY DEF Watch3
<1>2. c.op = ">=" /\ c.variable = "rho" /\ c.threshold = f
  BY <1>1 DEF Clause
<1>3. PICK e \in Int, b \in Int : <<e, b>> \in Balances(te, t) /\ 100 * x.E <= e /\ b <= 100 * x.B /\ 100 * least <= e
  BY PeriodIsWithin
<1>4. x.E \in Int /\ x.B \in Int /\ f \in {100, 105, 110} /\ least \in Int /\ (least > 0 /\ x.B > 0 => x.E > 0)
  BY PeriodIsWithin, FloorIs
<1>5. ~Short(te, t)
  <2>1. ~StopsAtCap(te, t) /\ ~(Burns(te, t) /\ HeldByCap(te, t)) /\ ~Unburnt(te, t) /\ ~Unheld(te, t)
    BY <1>1 DEF FM3
  <2>2. Burns(te, t)
    BY <1>1, <2>1 DEF StopsAtCap, Unburnt
  <2>3. ~(Capped(te, t) /\ Short(te, t))
    BY <2>1, <2>2 DEF HeldByCap
  <2>4. ~Capped(te, t) => (Short(te, t) <=> Unheld(te, t))
    BY DEF Short, Unheld, Steady
  <2> QED
    BY <2>1, <2>3, <2>4
<1>6. ~Uncovered(te, e, b)
  <2>1. \A eb \in Balances(te, t) : ~Uncovered(te, eb[1], eb[2])
    BY <1>5 DEF Short
  <2> DEFINE eb == <<e, b>>
  <2>2. eb[1] = e /\ eb[2] = b /\ eb \in Balances(te, t)
    BY <1>3
  <2> HIDE DEF eb
  <2> QED
    BY <2>1, <2>2
<1>7. Measure(te, "rho", x) = IF x.E <= 0 THEN 0 ELSE (100 * x.B) \div x.E
  BY DEF Measure
<1>8. ~(e > 0) \/ ~(100 * b < e * f)
  BY <1>6 DEF Uncovered
<1>9. least > 0
  BY <1>4
<1> HIDE DEF f, least
<1>10. e > 0 /\ f * e <= 100 * b
  BY <1>3, <1>4, <1>8, <1>9
<1>11. b > 0
  BY <1>4, <1>10
<1>12. x.B > 0 /\ x.E > 0
  BY <1>3, <1>4, <1>9, <1>11
<1>13. f * x.E <= 100 * x.B
  BY <1>3, <1>4, <1>10
<1>14. f \in Int /\ 100 * x.B \in Int
  BY <1>4
<1>15. (100 * x.B) \div x.E >= f
  BY <1>4, <1>12, <1>13, <1>14, QuotientAtLeast
<1>16. Measure(te, "rho", x) >= f
  BY <1>4, <1>7, <1>12, <1>15
<1> QED
  BY <1>2, <1>16 DEF Meets

------------------------------------------------------------------------------
(* The checks of the whole design                                          *)
LEMMA TablesAreNumbers ==
  /\ \A v \in DOMAIN GammaTable : PhiTable[v] \in Int /\ Ordered(GammaTable[v])
  /\ \A v \in DOMAIN GammaTable \cup {"unspecified"}, i \in 1 .. 6 : GapTable[v][i] \in Int
  /\ \A s \in DOMAIN SanctionTable : SanctionTable[s] \in Int
  /\ \A i \in 1 .. 5 : ProportionalityFactor[i] \in Int
<1>1. ASSUME NEW v \in DOMAIN GammaTable PROVE PhiTable[v] \in Int /\ Ordered(GammaTable[v])
  BY DEF GammaTable, PhiTable, Ordered
<1>2. ASSUME NEW v \in DOMAIN GammaTable \cup {"unspecified"}, NEW i \in 1 .. 6 PROVE GapTable[v][i] \in Int
  <2>1. i \in {1, 2, 3, 4, 5, 6}
    OBVIOUS
  <2>2. v \in {"physical_presence", "smart_contract_automation", "peer_verification", "third_party_certification",
               "self_reporting", "unspecified"}
    BY DEF GammaTable
  <2>3. CASE v = "physical_presence"
    BY <2>1, <2>3 DEF GapTable
  <2>4. CASE v = "smart_contract_automation"
    BY <2>1, <2>4 DEF GapTable
  <2>5. CASE v = "peer_verification"
    BY <2>1, <2>5 DEF GapTable
  <2>6. CASE v = "third_party_certification"
    BY <2>1, <2>6 DEF GapTable
  <2>7. CASE v = "self_reporting"
    BY <2>1, <2>7 DEF GapTable
  <2>8. CASE v = "unspecified"
    BY <2>1, <2>8 DEF GapTable
  <2> QED
    BY <2>2, <2>3, <2>4, <2>5, <2>6, <2>7, <2>8
<1>3. ASSUME NEW s \in DOMAIN SanctionTable PROVE SanctionTable[s] \in Int
  BY DEF SanctionTable
<1>4. ASSUME NEW i \in 1 .. 5 PROVE ProportionalityFactor[i] \in Int
  <2>1. i \in {1, 2, 3, 4, 5}
    OBVIOUS
  <2> QED
    BY <2>1 DEF ProportionalityFactor
<1> QED
  BY <1>1, <1>2, <1>3, <1>4

LEMMA VerifiedAre ==
  ASSUME NEW te, Formed(te)
  PROVE  IsFiniteSet(Verified(te)) /\ Verified(te) \subseteq DOMAIN GammaTable
<1> DEFINE f == [t \in te.tokens |-> te.token[t].verification]
           all == {te.token[t].verification : t \in te.tokens}
<1>1. DOMAIN f = te.tokens /\ all = {f[t] : t \in DOMAIN f}
  OBVIOUS
<1>2. IsFiniteSet(te.tokens) /\ \A t \in te.tokens : te.token[t].verification \in {None, "unspecified"} \cup DOMAIN GammaTable
  BY DEF Formed, TokenFormed
<1>3. Verified(te) \subseteq DOMAIN GammaTable /\ Verified(te) \subseteq all
  BY <1>2 DEF Verified
<1> HIDE DEF f, all
<1>4. IsFiniteSet(all)
  BY <1>1, <1>2, FiniteRange
<1> QED
  BY <1>3, <1>4, FS_Subset

LEMMA ShareIsAmount ==
  ASSUME NEW te, Formed(te), NEW who, who \subseteq DOMAIN te.agents
  PROVE  ShareOf(te, who) \in Int /\ ShareOf(te, who) >= 0
<1> DEFINE f == [i \in who |-> te.agents[i].share]
<1>1. IsFiniteSet(who)
  <2>1. IsFiniteSet(DOMAIN te.agents)
    BY ListIs DEF Formed
  <2> QED
    BY <2>1, FS_Subset
<1>2. \A i \in who : te.agents[i].share \in Nat
  BY DEF Formed, Range
<1>3. DOMAIN f = who /\ \A i \in who : f[i] \in Int /\ f[i] >= 0
  BY <1>2
<1>4. ShareOf(te, who) = Sum(f)
  BY DEF ShareOf
<1> HIDE DEF f
<1> QED
  BY <1>1, <1>3, <1>4, SumOfNothing

(* The shares of contributors that verifications make certain are amounts. *)
LEMMA TablesAreAmounts ==
  /\ \A v \in DOMAIN GammaTable : PhiTable[v] >= 0 /\ GammaTable[v].lo >= 0
  /\ \A s \in DOMAIN SanctionTable : SanctionTable[s] >= 0 /\ SanctionTable[s] <= 100
  /\ \A i \in 1 .. 5 : ProportionalityFactor[i] >= 0
<1>1. ASSUME NEW v \in DOMAIN GammaTable PROVE PhiTable[v] >= 0 /\ GammaTable[v].lo >= 0
  BY DEF GammaTable, PhiTable
<1>2. ASSUME NEW s \in DOMAIN SanctionTable PROVE SanctionTable[s] >= 0 /\ SanctionTable[s] <= 100
  BY DEF SanctionTable
<1>3. ASSUME NEW i \in 1 .. 5 PROVE ProportionalityFactor[i] >= 0
  <2>1. i \in {1, 2, 3, 4, 5}
    OBVIOUS
  <2> QED
    BY <2>1 DEF ProportionalityFactor
<1> QED
  BY <1>1, <1>2, <1>3

(* The share of contributors is an amount, and does not depend on ranges.  *)
LEMMA PhiIs ==
  ASSUME NEW te, Formed(te)
  PROVE  Ordered(PhiRange(te)) /\ PhiRange(te).lo >= 0
<1> DEFINE givers == {i \in DOMAIN te.agents : te.agents[i].role = "contributor"}
           hinted == {i \in DOMAIN te.agents : te.agents[i].hint}
           roles == {i \in DOMAIN te.agents : te.agents[i].role # None}
           giving == ShareOf(te, givers)
           hoped == ShareOf(te, hinted)
           ver == Verified(te)
           phis == {PhiTable[v] : v \in ver}
           sure == IF ver = {} THEN 0 ELSE Max(phis)
           most(n) == 100 * Max({n, 5})
           product == sure * giving
<1>1. giving \in Nat
  <2>1. giving \in Int /\ giving >= 0
    BY ShareIsAmount
  <2> HIDE DEF giving
  <2> QED
    BY <2>1
<1>2. hoped \in Nat
  <2>1. hoped \in Int /\ hoped >= 0
    BY ShareIsAmount
  <2> HIDE DEF hoped
  <2> QED
    BY <2>1
<1>3. sure \in Nat
  <2> DEFINE f == [v \in ver |-> PhiTable[v]]
  <2>1. DOMAIN f = ver /\ phis = {f[v] : v \in DOMAIN f} /\ (ver # {} => phis # {})
    OBVIOUS
  <2>2. IsFiniteSet(ver) /\ phis \subseteq Int /\ \A x \in phis : x >= 0
    BY VerifiedAre, TablesAreNumbers, TablesAreAmounts
  <2> HIDE DEF f, phis
  <2>3. IsFiniteSet(phis)
    BY <2>1, <2>2, FiniteRange
  <2>4. ver # {} => Max(phis) \in phis
    BY <2>1, <2>2, <2>3, MaxIsThere
  <2> DEFINE m == Max(phis)
  <2>5. ver # {} => m \in Nat
    <3>1. ver # {} => Max(phis) \in Int /\ Max(phis) >= 0
      BY <2>2, <2>4
    <3> QED
      BY <3>1
  <2> HIDE DEF m, ver
  <2>6. sure = IF ver = {} THEN 0 ELSE m
    BY DEF m
  <2> HIDE DEF sure
  <2> QED
    BY <2>5, <2>6
<1>4. ASSUME NEW n \in Nat PROVE most(n) \in Nat
  <2>1. Max({n, 5}) \in {n, 5}
    BY TwoEnds
  <2> QED
    BY <2>1
<1>5. PhiRange(te) = IF roles # {} THEN [lo |-> Min({product, most(giving)}), hi |-> most(giving)]
                     ELSE IF hinted # {} THEN [lo |-> 0, hi |-> most(hoped)]
                     ELSE [lo |-> 0, hi |-> 10000]
  BY DEF PhiRange
<1> HIDE DEF giving, hoped, sure
<1>6. product \in Nat
  BY <1>1, <1>3
<1> DEFINE m == most(giving)
           h == most(hoped)
           l == Min({product, m})
<1>7. m \in Nat /\ h \in Nat
  BY <1>1, <1>2, <1>4
<1> HIDE DEF product, m, h
<1>8. l \in {product, m} /\ l <= m
  BY <1>6, <1>7, TwoEnds
<1> HIDE DEF l
<1>9. PhiRange(te) = IF roles # {} THEN [lo |-> l, hi |-> m]
                     ELSE IF hinted # {} THEN [lo |-> 0, hi |-> h]
                     ELSE [lo |-> 0, hi |-> 10000]
  BY <1>5 DEF l, m, h
<1> HIDE DEF roles, hinted
<1> QED
  BY <1>6, <1>7, <1>8, <1>9 DEF Ordered

LEMMA SanctionIsInt == ASSUME NEW te, Formed(te), Committed(te) PROVE SanctionRange(te).lo \in Int
<1>1. CASE Has(te, "S")
  BY <1>1, Value DEF SanctionRange, Has
<1>2. CASE ~Has(te, "S")
  <2> DEFINE x == SanctionTable[te.govern.sanction] - 10
  <2>1. SanctionRange(te).lo = Max({0, x})
    BY <1>2 DEF SanctionRange
  <2>2. x \in Int
    BY TablesAreNumbers DEF Formed
  <2> HIDE DEF x
  <2>3. Max({0, x}) \in {0, x}
    BY <2>2, TwoEnds
  <2> QED
    BY <2>1, <2>2, <2>3
<1> QED
  BY <1>1, <1>2

LEMMA GapIsInt == ASSUME NEW te, Formed(te) PROVE Gap(te) \in Int
<1> DEFINE told == {t \in te.tokens : te.token[t].verification # None /\ te.token[t].redemption # 0}
           gap(t) == GapTable[te.token[t].verification][te.token[t].redemption]
           f == [t \in told |-> gap(t)]
           gaps == {gap(t) : t \in told}
<1>1. Gap(te) = IF told = {} THEN 50 ELSE Max(gaps)
  BY DEF Gap
<1>2. ASSUME NEW t \in told PROVE gap(t) \in Int
  <2>1. /\ te.token[t].verification \in DOMAIN GammaTable \cup {"unspecified"}
        /\ te.token[t].redemption \in 1 .. 6
    BY DEF Formed, TokenFormed
  <2> QED
    BY <2>1, TablesAreNumbers
<1>3. IsFiniteSet(told)
  BY FS_Subset DEF Formed
<1>4. DOMAIN f = told /\ gaps = {f[t] : t \in DOMAIN f} /\ (told # {} => gaps # {}) /\ gaps \subseteq Int
  BY <1>2
<1> HIDE DEF told, f, gaps
<1>5. IsFiniteSet(gaps)
  BY <1>3, <1>4, FiniteRange
<1>6. told # {} => Max(gaps) \in Int
  BY <1>4, <1>5, MaxIsThere
<1> QED
  BY <1>1, <1>6

(* FM4: contributors with their variety cover the demand, and what is seen *)
(* and sanctioned exceeds the temptation.                                  *)
LEMMA SafeFM4 ==
  ASSUME NEW te, Formed(te), Committed(te), Has(te, "gamma"), FM4(te) = "pass", NEW does, NEW c \in Watch4(te)
  PROVE  Meets(c.op, Measure(te, c.variable, does), c.threshold)
<1>1. Varieties(te) # {} /\ ~FewGive(te) /\ ~Tempting(te, "lo")
  BY DEF FM4
<1>2. \/ c = Clause("phi_times_K", ">=", Demand(te, "hi"), 1)
      \/ c = Clause("gamma_times_S", ">", 100 * Gap(te), 2)
  BY DEF Watch4
<1>3. CASE c = Clause("phi_times_K", ">=", Demand(te, "hi"), 1)
  <2> DEFINE phi == PhiRange(te).lo
             k == Hull(Varieties(te)).lo
             m == Hull(Varieties(te)).hi
             need == Demand(te, "hi")
             given == phi * k
             measured == phi * m
  <2>1. c.op = ">=" /\ c.variable = "phi_times_K" /\ c.threshold = need
    BY <1>3 DEF Clause
  <2>2. phi \in Nat /\ k \in Int /\ m \in Int /\ k <= m
    <3>1. phi \in Int /\ phi >= 0
      BY PhiIs DEF Ordered
    <3>2. k \in Int /\ m \in Int /\ k <= m
      BY <1>1, VarietiesAre DEF Ordered
    <3> HIDE DEF phi, k, m
    <3> QED
      BY <3>1, <3>2
  <2>3. need \in Int
    <3>1. te.span["d"].hi \in Int /\ ProportionalityFactor[te.nfr.proportionality] \in Int
      BY DeclaredInputs, TablesAreNumbers DEF Formed
    <3> QED
      BY <3>1 DEF Demand
  <2>4. ~(given < need) /\ Measure(te, "phi_times_K", does) = measured
    BY <1>1 DEF FewGive, Measure
  <2> HIDE DEF phi, k, m, need
  <2>5. given \in Int /\ measured \in Int /\ given <= measured
    <3>1. k * phi \in Int /\ m * phi \in Int /\ k * phi <= m * phi
      BY <2>2, InProportion
    <3>2. given = k * phi /\ measured = m * phi
      BY <2>2
    <3> QED
      BY <3>1, <3>2
  <2> HIDE DEF given, measured
  <2>6. measured >= need
    BY <2>3, <2>4, <2>5
  <2> QED
    BY <2>1, <2>4, <2>6 DEF Meets
<1>4. CASE c = Clause("gamma_times_S", ">", 100 * Gap(te), 2)
  <2> DEFINE gamma == te.span["gamma"].lo
             s == SanctionRange(te).lo
             gap == 100 * Gap(te)
             seen == gamma * s
  <2>1. c.op = ">" /\ c.variable = "gamma_times_S" /\ c.threshold = gap
    BY <1>4 DEF Clause
  <2>2. gamma \in Int /\ s \in Int /\ gap \in Int
    BY SanctionIsInt, GapIsInt, Value DEF Has
  <2>3. ~(seen <= gap) /\ Measure(te, "gamma_times_S", does) = seen
    BY <1>1 DEF Tempting, GammaRange, Measure, At
  <2> HIDE DEF gamma, s, gap
  <2>4. seen \in Int
    BY <2>2
  <2> HIDE DEF seen
  <2>5. seen > gap
    BY <2>2, <2>3, <2>4
  <2> QED
    BY <2>1, <2>3, <2>5 DEF Meets
<1> QED
  BY <1>2, <1>3, <1>4

(* The usual number of contacts is a whole number.                         *)
LEMMA UsualDegreeIsNat == ASSUME NEW n PROVE UsualDegree(n) \in Nat
<1>1. ASSUME NEW k \in Int, NEW T, T \subseteq 1 .. k PROVE Cardinality(T) \in Nat
  <2>1. IsFiniteSet(1 .. k)
    <3>1. 1 \in Int
      OBVIOUS
    <3> QED
      BY <3>1, FS_Interval
  <2> QED
    BY <1>1, <2>1, FS_Subset, FS_CardinalityType
<1> DEFINE near == {i \in 1 .. 36 : n.lo + n.hi > Steps[i]}
           far  == {i \in 1 .. 9 : (n.lo + n.hi) \div 1000 > LargeSteps[i]}
<1>2. Cardinality(near) \in Nat
  <2>1. near \subseteq 1 .. 36 /\ 36 \in Int
    OBVIOUS
  <2> QED
    BY <1>1, <2>1
<1>3. Cardinality(far) \in Nat
  <2>1. far \subseteq 1 .. 9 /\ 9 \in Int
    OBVIOUS
  <2> QED
    BY <1>1, <2>1
<1>4. UsualDegree(n) = 5 + Cardinality(near) + Cardinality(far)
  BY DEF UsualDegree
<1> HIDE DEF near, far
<1> QED
  BY <1>2, <1>3, <1>4

LEMMA DegreeIsInt == ASSUME NEW te, Formed(te) PROVE Degree(te) \in Int
  BY UsualDegreeIsNat, SpanIs DEF Has, Degree, Ordered

(* FM5: the participants bear the variety and demand: where the number of  *)
(* contacts does, in a network, there are more of them than contacts.      *)
LEMMA SafeFM5 ==
  ASSUME NEW te, Formed(te), Committed(te), FM5(te) = "pass", NEW does, NEW c \in Watch5(te)
  PROVE  \E d \in Watch5(te) : d.group = c.group /\ Meets(d.op, Measure(te, d.variable, does), d.threshold)
<1> DEFINE need == Contacts(te)
           n == te.span["N"].lo
           many == Clause("N", ">=", need + 1, 1)
           close == Clause("average_degree", ">=", need, 1)
<1>1. Varieties(te) # {} /\ (Connected(te) \/ ~Sparse(te))
  BY DEF FM5
<1>2. Watch5(te) = {many} \cup (IF te.topology = "network" THEN {close} ELSE {})
  BY <1>1 DEF Watch5
<1>3. c.group = 1
  BY <1>2 DEF Clause
<1>4. many.group = 1 /\ many.op = ">=" /\ many.variable = "N" /\ many.threshold = need + 1
  BY DEF Clause
<1>5. need \in Int
  <2>1. Hull(Varieties(te)).hi \in Int /\ te.span["d"].hi \in Int
    BY <1>1, VarietiesAre, DeclaredInputs DEF Ordered
  <2> QED
    BY <2>1 DEF Contacts
<1>6. n \in Int /\ n >= 1 /\ Measure(te, "N", does) = n
  BY DeclaredInputs DEF Measure, At
<1>7. n >= need + 1
  <2>1. CASE Connected(te)
    <3>1. Degree(te) >= need /\ Degree(te) <= n - 1
      BY <2>1 DEF Connected
    <3>2. Degree(te) \in Int
      BY DegreeIsInt
    <3> HIDE DEF need, n
    <3> QED
      BY <1>5, <1>6, <3>1, <3>2
  <2>2. CASE ~Sparse(te)
    <3>1. ~(Max({1, n}) < need + 1)
      BY <2>2 DEF Sparse
    <3> HIDE DEF n, need
    <3>2. Max({1, n}) \in {1, n} /\ Max({1, n}) >= n
      BY <1>6, TwoEnds
    <3> QED
      BY <1>5, <1>6, <3>1, <3>2
  <2> QED
    BY <1>1, <2>1, <2>2
<1> HIDE DEF many, close
<1>8. many \in Watch5(te) /\ Meets(many.op, Measure(te, many.variable, does), many.threshold)
  BY <1>2, <1>4, <1>6, <1>7 DEF Meets
<1> QED
  BY <1>3, <1>4, <1>8

LEMMA GiniIs ==
  ASSUME NEW te, Formed(te), Committed(te)
  PROVE  EffectiveGini(te) = {} \/ \E g : EffectiveGini(te) = {g} /\ g.hi \in Int
<1> DEFINE all == [lo |-> 100, hi |-> 100]
           cap == te.span["cap_fraction"]
           kept == [lo |-> 100 - cap.hi, hi |-> 100 - cap.lo]
           locked == te.span["avg_lock_fraction"]
           held(p, share) == {Times(te.span[q], share) : q \in {p} \cap DOMAIN te.span}
           squared == {[lo |-> te.span[q].lo * 50, hi |-> te.span[q].hi * 70] : q \in {"gini"} \cap DOMAIN te.span}
           One(G) == G = {} \/ \E g : G = {g} /\ g.hi \in Int
<1>1. ASSUME NEW p, NEW share, Ordered(share) PROVE One(held(p, share))
  <2>1. CASE p \notin DOMAIN te.span
    <3>1. held(p, share) = {}
      BY <2>1
    <3> QED
      BY <3>1
  <2>2. CASE p \in DOMAIN te.span
    <3>1. held(p, share) = {Times(te.span[p], share)}
      BY <2>2
    <3>2. Ordered(te.span[p])
      BY <2>2, Value DEF Ordered
    <3>3. Times(te.span[p], share).hi \in Int
      BY <1>1, <3>2, TimesIs DEF Ordered
    <3> QED
      BY <3>1, <3>3
  <2> QED
    BY <2>1, <2>2
<1>2. One(squared)
  <2>1. CASE "gini" \notin DOMAIN te.span
    <3>1. squared = {}
      BY <2>1
    <3> QED
      BY <3>1
  <2>2. CASE "gini" \in DOMAIN te.span
    <3> DEFINE g == [lo |-> te.span["gini"].lo * 50, hi |-> te.span["gini"].hi * 70]
    <3>1. squared = {g}
      BY <2>2
    <3>2. te.span["gini"].lo \in Int /\ te.span["gini"].hi \in Int
      BY <2>2, Value
    <3>3. g.hi \in Int
      BY <3>2
    <3> QED
      BY <3>1, <3>3
  <2> QED
    BY <2>1, <2>2
<1>3. Ordered(all)
  BY DEF Ordered
<1>4. Has(te, "cap_fraction") => Ordered(kept)
  <2> HAVE Has(te, "cap_fraction")
  <2>1. cap.lo \in Int /\ cap.hi = cap.lo
    BY Value DEF Has
  <2> QED
    BY <2>1 DEF Ordered
<1>5. Has(te, "avg_lock_fraction") => Ordered(locked)
  BY Value DEF Has, Ordered
<1>6. \/ EffectiveGini(te) = squared
      \/ \E share \in {all, kept, locked}, p \in {"gini", "delegate_gini", "reputation_gini"} :
           Ordered(share) /\ EffectiveGini(te) = held(p, share)
  <2> DEFINE w == te.govern.weighting
  <2>1. CASE w = "quadratic"
    BY <2>1 DEF EffectiveGini
  <2>2. CASE w = "capped"
    <3> DEFINE share == IF Has(te, "cap_fraction") THEN kept ELSE all
    <3>1. EffectiveGini(te) = held("gini", share)
      BY <2>2 DEF EffectiveGini
    <3>2. Ordered(share) /\ share \in {all, kept, locked}
      BY <1>3, <1>4
    <3> QED
      BY <3>1, <3>2
  <2>3. CASE w = "time_locked"
    <3> DEFINE share == IF Has(te, "avg_lock_fraction") THEN locked ELSE all
    <3>1. EffectiveGini(te) = held("gini", share)
      BY <2>3 DEF EffectiveGini
    <3>2. Ordered(share) /\ share \in {all, kept, locked}
      BY <1>3, <1>5
    <3> QED
      BY <3>1, <3>2
  <2>4. CASE w = "delegated" /\ Has(te, "delegate_gini")
    <3>1. EffectiveGini(te) = {Times(te.span["delegate_gini"], all)}
      BY <2>4 DEF EffectiveGini
    <3>2. held("delegate_gini", all) = {Times(te.span["delegate_gini"], all)}
      BY <2>4 DEF Has
    <3> QED
      BY <1>3, <3>1, <3>2
  <2>5. CASE w = "reputation"
    <3>1. EffectiveGini(te) = held("reputation_gini", all)
      BY <2>5 DEF EffectiveGini
    <3> QED
      BY <1>3, <3>1
  <2>6. CASE w \notin {"quadratic", "capped", "time_locked", "reputation"} /\ ~(w = "delegated" /\ Has(te, "delegate_gini"))
    <3>1. EffectiveGini(te) = held("gini", all)
      BY <2>6 DEF EffectiveGini
    <3> QED
      BY <1>3, <3>1
  <2> QED
    BY <2>1, <2>2, <2>3, <2>4, <2>5, <2>6
<1> HIDE DEF held, squared, all, kept, locked
<1>7. One(EffectiveGini(te))
  BY <1>1, <1>2, <1>6
<1> QED
  BY <1>7

(* FM6: decisions are not mostly one party's, and votes are not            *)
(* concentrated.                                                           *)
LEMMA SafeFM6 ==
  ASSUME NEW te, Formed(te), Committed(te), FM6(te) = "pass", NEW does, NEW c \in Watch6(te)
  PROVE  Meets(c.op, Measure(te, c.variable, does), c.threshold)
<1> DEFINE alone == Clause("Gamma", "<=", te.govern.decisions, 1)
           equal == Clause("gini", "<=", 100 * GiniThreshold, 2)
<1>1. ~Captured(te) /\ ~Unequal(te)
  BY DEF FM6
<1>2. c = alone \/ (c = equal /\ EffectiveGini(te) # {})
  BY DEF Watch6
<1>3. CASE c = alone
  <2>1. c.op = "<=" /\ c.variable = "Gamma" /\ c.threshold = te.govern.decisions
    BY <1>3 DEF Clause
  <2>2. te.govern.unilateral \in Int /\ te.govern.decisions \in Int
    BY DEF Formed
  <2>3. 2 * te.govern.unilateral <= te.govern.decisions
    BY <1>1, <2>2 DEF Captured
  <2>4. Measure(te, "Gamma", does) = 2 * te.govern.unilateral
    BY DEF Measure
  <2> QED
    BY <2>1, <2>3, <2>4 DEF Meets
<1>4. CASE c = equal /\ EffectiveGini(te) # {}
  <2>1. c.op = "<=" /\ c.variable = "gini" /\ c.threshold = 6000
    BY <1>4 DEF Clause, GiniThreshold
  <2>2. PICK g : EffectiveGini(te) = {g} /\ g.hi \in Int
    BY <1>4, GiniIs
  <2>3. {h.hi : h \in EffectiveGini(te)} = {g.hi, g.hi}
    BY <2>2
  <2>4. Measure(te, "gini", does) = Max({g.hi, g.hi})
    BY <2>3 DEF Measure
  <2>5. ~(g.hi > 6000)
    BY <1>1, <2>2 DEF Unequal, GiniThreshold
  <2>6. Max({g.hi, g.hi}) \in {g.hi, g.hi}
    BY <2>2, TwoEnds
  <2>7. Measure(te, "gini", does) <= 6000
    BY <2>2, <2>4, <2>5, <2>6
  <2> QED
    BY <2>1, <2>7 DEF Meets
<1> QED
  BY <1>2, <1>3, <1>4

------------------------------------------------------------------------------
(* Verdicts                                                                *)
LEMMA SoundIsPass ==
  ASSUME NEW te, System \notin te.tokens, NEW v \in Verdicts(te), v.structural = "sound"
  PROVE  /\ v.fm \in Modes /\ v.subject \in Subjects(te, v.fm) /\ Check(te, v.fm, v.subject) = "pass"
         /\ v.fm \in {"FM1", "FM3"} => ~Impossible(te, v.subject)
<1>0. PICK fm \in Modes : \E t \in Subjects(te, fm) : v = Judge(te, fm, t, Settle(te, fm, t, Check(te, fm, t)))
  BY DEF Verdicts
<1>1. PICK t \in Subjects(te, fm) : v = Judge(te, fm, t, Settle(te, fm, t, Check(te, fm, t)))
  BY <1>0
<1> DEFINE s == Settle(te, fm, t, Check(te, fm, t))
<1>2. v.fm = fm /\ v.subject = t /\ v.structural = Classified(s, Reach(te, fm, t, s))
  BY <1>1 DEF Judge, Structural
<1> HIDE DEF s
<1>3. s = "pass"
  BY <1>2 DEF Classified
<1>4. CASE fm \in PerToken
  <2>1. ByRates(te, fm, t, ByRole(te, fm, t, Check(te, fm, t))) = "pass"
    BY <1>3, <1>4 DEF s, Settle
  <2>2. ByRole(te, fm, t, Check(te, fm, t)) = "pass"
    BY <2>1 DEF ByRates
  <2>3. fm \in {"FM1", "FM3"} => ~Impossible(te, t)
    BY <2>1, <2>2 DEF ByRates
  <2>4. Check(te, fm, t) = "pass"
    BY <2>2 DEF ByRole
  <2> QED
    BY <1>2, <2>3, <2>4
<1>5. CASE fm \notin PerToken
  <2>1. Check(te, fm, t) = "pass"
    BY <1>3, <1>5 DEF s, Settle
  <2> QED
    BY <1>2, <1>5, <2>1 DEF PerToken
<1> QED
  BY <1>4, <1>5

LEMMA SoundMeetsAll ==
  ASSUME NEW te, Formed(te), Committed(te), NEW v \in Verdicts(te), v.structural = "sound",
         NEW when \in Moments(te), ~Excepted(te, v, when), NEW does \in Shown(te, v, when)
  PROVE  Watched(te, v, does)
<1> DEFINE fm == v.fm
           t == v.subject
           clauses == Predicates(te, fm, t)
<1>1. System \notin te.tokens
  BY DEF Formed
<1>2. /\ fm \in Modes /\ t \in Subjects(te, fm) /\ Check(te, fm, t) = "pass"
      /\ fm \in {"FM1", "FM3"} => ~Impossible(te, t)
  BY <1>1, SoundIsPass
<1>3. fm \in Balanced => t \in te.tokens /\ does \in Does(te, t, when)
  BY <1>1, <1>2 DEF Balanced, Subjects, PerToken, Shown
<1>4. when \in {"deployed", "running"}
  BY DEF Moments
<1>5. fm \in Balanced =>
        /\ ~Apart(te, t)
        /\ when = "running" \/ \A r \in Range(te.token[t].burns) : r.fn.family # "distribution"
        /\ fm = "FM1" => when = "running" \/ ~Capped(te, t)
        /\ fm = "FM3" => ~(Creation(te, t, when).lo <= 0)
  <2> HAVE fm \in Balanced
  <2>1. ~(\/ Apart(te, t)
          \/ when = "deployed" /\ \E r \in Range(te.token[t].burns) : r.fn.family = "distribution"
          \/ fm = "FM1" /\ when = "deployed" /\ Capped(te, t)
          \/ fm = "FM3" /\ Creation(te, t, when).lo <= 0)
    BY DEF Excepted, Balanced
  <2> HIDE DEF fm, t
  <2> QED
    BY <1>4, <2>1
<1>6. (fm = "FM2" => te.agents # <<>>) /\ (fm = "FM4" => Has(te, "gamma"))
  BY DEF Excepted, Balanced
<1> SUFFICES \A c \in clauses : \E d \in clauses : d.group = c.group /\ Meets(d.op, Measure(te, d.variable, does), d.threshold)
  BY DEF Watched
<1> HIDE DEF fm, t
<1>7. CASE fm = "FM1"
  <2>1. clauses = Watch1(te, t) /\ FM1(te, t) = "pass"
    BY <1>2, <1>7 DEF Predicates, Check
  <2>2. \A c \in clauses : Meets(c.op, Measure(te, c.variable, does), c.threshold)
    BY <1>2, <1>3, <1>5, <1>7, <2>1, SafeFM1 DEF Balanced
  <2> QED
    BY <2>2
<1>8. CASE fm = "FM2"
  <2>1. clauses = Watch2(te, t) /\ FM2(te, t) = "pass"
    BY <1>2, <1>8 DEF Predicates, Check
  <2>2. \A c \in clauses : Meets(c.op, Measure(te, c.variable, does), c.threshold)
    BY <1>6, <1>8, <2>1, SafeFM2
  <2> QED
    BY <2>2
<1>9. CASE fm = "FM3"
  <2>1. clauses = Watch3(te, t) /\ FM3(te, t) = "pass"
    BY <1>2, <1>9 DEF Predicates, Check
  <2>2. \A c \in clauses : Meets(c.op, Measure(te, c.variable, does), c.threshold)
    BY <1>2, <1>3, <1>5, <1>9, <2>1, SafeFM3 DEF Balanced
  <2> QED
    BY <2>2
<1>10. CASE fm = "FM4"
  <2>1. clauses = Watch4(te) /\ FM4(te) = "pass"
    BY <1>2, <1>10 DEF Predicates, Check
  <2>2. \A c \in clauses : Meets(c.op, Measure(te, c.variable, does), c.threshold)
    BY <1>6, <1>10, <2>1, SafeFM4
  <2> QED
    BY <2>2
<1>11. CASE fm = "FM5"
  <2>1. clauses = Watch5(te) /\ FM5(te) = "pass"
    BY <1>2, <1>11 DEF Predicates, Check
  <2> QED
    BY <2>1, SafeFM5
<1>12. CASE fm = "FM6"
  <2>1. clauses = Watch6(te) /\ FM6(te) = "pass"
    BY <1>2, <1>12 DEF Predicates, Check
  <2>2. \A c \in clauses : Meets(c.op, Measure(te, c.variable, does), c.threshold)
    BY <2>1, SafeFM6
  <2> QED
    BY <2>2
<1> QED
  BY <1>2, <1>7, <1>8, <1>9, <1>10, <1>11, <1>12 DEF Modes, PerToken

(* The report is the one on the design as it stands: every edit is         *)
(* verified anew.                                                          *)
Current == report = Verify(design)

THEOREM ReportIsCurrent == Spec => []Current
<1>1. Init => Current
  BY DEF Init, Current
<1>2. Current /\ [Next]_vars => Current'
  <2> SUFFICES ASSUME Current, [Next]_vars PROVE Current'
    OBVIOUS
  <2>1. CASE Next
    <3>1. PICK te : Edit(te)
      BY <2>1 DEF Next, Narrow, Declare, Follow
    <3> QED
      BY <3>1 DEF Edit, Current
  <2>2. CASE UNCHANGED vars
    BY <2>2 DEF vars, Current
  <2> QED
    BY <2>1, <2>2
<1> QED
  BY <1>1, <1>2, PTL DEF Spec

(* A verdict "sound" on a settled design that the schema accepts: the      *)
(* simulator's own reading of it, which asks no condition, averages over   *)
(* its own periods and keeps what has come into force, meets every clause  *)
(* that it is told to watch, at the deployment and in every period, for    *)
(* every design and however long it has been edited.  Apart from what      *)
(* Excepted names.                                                         *)
THEOREM SoundIsAlwaysSafe == Spec => [](Formed(design) => SoundIsSafe)
<1>1. Current => (Formed(design) => SoundIsSafe)
  <2> SUFFICES ASSUME Current, Formed(design), Committed(design),
                      NEW v \in report.verdicts, NEW when \in Moments(design),
                      v.structural = "sound", ~Excepted(design, v, when), NEW does \in Shown(design, v, when)
               PROVE  Watched(design, v, does)
    BY DEF SoundIsSafe
  <2>1. v \in Verdicts(design)
    BY DEF Current, Verify, Reported, Report
  <2> QED
    BY <2>1, SoundMeetsAll
<1> QED
  BY <1>1, ReportIsCurrent, PTL

------------------------------------------------------------------------------
(* Narrowing.  A design some of whose ranges have been narrowed: every     *)
(* amount that a check computes from ranges lies within what it was, so a  *)
(* check that passed on all of the wider range passes, and one that failed *)
(* on all of it fails.                                                     *)
Inside(r, s) == Ordered(r) /\ Ordered(s) /\ r.lo <= s.lo /\ s.hi <= r.hi
Sharper(te, u) == Formed(te) /\ Formed(u) /\ Narrower(te, u)

LEMMA SameShape ==
  ASSUME NEW te, NEW u, Narrower(te, u)
  PROVE  /\ u.tokens = te.tokens /\ u.token = te.token /\ u.event = te.event /\ u.flows = te.flows
         /\ u.agents = te.agents /\ u.topology = te.topology /\ u.govern = te.govern /\ u.nfr = te.nfr
         /\ u.skipped = te.skipped /\ DOMAIN u.span = DOMAIN te.span
<1> DEFINE a == Shape(te)
           b == Shape(u)
<1>1. a = b /\ DOMAIN u.span = DOMAIN te.span
  BY DEF Narrower
<1>2. /\ a[1] = te.tokens /\ a[2] = te.token /\ a[3] = te.event /\ a[4] = te.flows /\ a[5] = te.agents
      /\ a[6] = te.topology /\ a[7] = te.govern /\ a[8] = te.nfr /\ a[9] = te.skipped
  BY DEF Shape
<1>3. /\ b[1] = u.tokens /\ b[2] = u.token /\ b[3] = u.event /\ b[4] = u.flows /\ b[5] = u.agents
      /\ b[6] = u.topology /\ b[7] = u.govern /\ b[8] = u.nfr /\ b[9] = u.skipped
  BY DEF Shape
<1> HIDE DEF a, b
<1> QED
  BY <1>1, <1>2, <1>3

(* Every range of the sharper design lies within the one it was.           *)
LEMMA SpanInside ==
  ASSUME NEW te, NEW u, Sharper(te, u), NEW p \in DOMAIN te.span
  PROVE  p \in DOMAIN u.span /\ Inside(te.span[p], u.span[p])
<1>1. p \in DOMAIN u.span
  BY SameShape DEF Sharper
<1>2. Ordered(te.span[p]) /\ Ordered(u.span[p])
  BY <1>1, SpanIs DEF Sharper
<1>3. te.span[p].lo <= u.span[p].lo /\ u.span[p].hi <= te.span[p].hi
  BY DEF Sharper, Narrower
<1> QED
  BY <1>1, <1>2, <1>3 DEF Inside

(* A product of amounts that are not below zero grows with both.           *)
LEMMA ProductGrows ==
  ASSUME NEW a \in Nat, NEW b \in Nat, NEW c \in Nat, NEW d \in Nat, a <= c, b <= d
  PROVE  a * b \in Nat /\ c * d \in Nat /\ a * b <= c * d
<1>1. a * b \in Int /\ c * b \in Int /\ a * b <= c * b
  BY InProportion
<1>2. b * c \in Int /\ d * c \in Int /\ b * c <= d * c
  BY InProportion
<1>3. c * b = b * c /\ c * d = d * c
  OBVIOUS
<1>4. a * b \in Nat /\ c * d \in Nat
  OBVIOUS
<1> QED
  BY <1>1, <1>2, <1>3, <1>4

(* A product of amounts that are not below zero is least and greatest      *)
(* where both are.                                                         *)
LEMMA TimesOfAmounts ==
  ASSUME NEW r, NEW s, Ordered(r), Ordered(s), r.lo >= 0, s.lo >= 0
  PROVE  /\ Times(r, s).lo = r.lo * s.lo /\ Times(r, s).hi = r.hi * s.hi
         /\ Ordered(Times(r, s)) /\ Times(r, s).lo >= 0
<1> DEFINE a == r.lo * s.lo
           b == r.lo * s.hi
           c == r.hi * s.lo
           d == r.hi * s.hi
           ends == {a, b, c, d}
<1>1. r.lo \in Nat /\ r.hi \in Nat /\ s.lo \in Nat /\ s.hi \in Nat /\ r.lo <= r.hi /\ s.lo <= s.hi
  BY DEF Ordered
<1>2. {x * y : x \in Corners(r), y \in Corners(s)} = ends
  BY DEF Corners
<1> HIDE DEF ends
<1>3. Times(r, s).lo = Min(ends) /\ Times(r, s).hi = Max(ends)
  BY <1>2 DEF Times
<1> USE DEF ends
<1>4. a \in Nat /\ b \in Nat /\ c \in Nat /\ d \in Nat /\ a <= b /\ a <= c /\ b <= d
  <2>1. a \in Nat /\ b \in Nat /\ a <= b
    BY <1>1, ProductGrows
  <2>2. c \in Nat /\ a <= c
    BY <1>1, ProductGrows
  <2>3. d \in Nat /\ b <= d
    BY <1>1, ProductGrows
  <2> HIDE DEF a, b, c, d
  <2> QED
    BY <2>1, <2>2, <2>3
<1>41. c <= d
  BY <1>1, ProductGrows
<1> HIDE DEF a, b, c, d
<1>5. /\ Min(ends) \in ends /\ Max(ends) \in ends
      /\ \A x \in ends : Min(ends) <= x /\ x <= Max(ends)
  BY <1>4, <1>41, FourEnds
<1>6. Min(ends) = a /\ Max(ends) = d
  BY <1>4, <1>41, <1>5
<1> QED
  BY <1>3, <1>4, <1>6 DEF Ordered, a, d

(* So the product of two narrowed ranges is narrowed.                      *)
LEMMA TimesInside ==
  ASSUME NEW r, NEW s, NEW q, NEW p, Inside(r, q), Inside(s, p), r.lo >= 0, s.lo >= 0
  PROVE  Inside(Times(r, s), Times(q, p)) /\ Times(r, s).lo >= 0
<1>1. /\ r.lo \in Nat /\ r.hi \in Nat /\ q.lo \in Nat /\ q.hi \in Nat /\ r.lo <= q.lo /\ q.hi <= r.hi
      /\ s.lo \in Nat /\ s.hi \in Nat /\ p.lo \in Nat /\ p.hi \in Nat /\ s.lo <= p.lo /\ p.hi <= s.hi
  BY DEF Inside, Ordered
<1>2. /\ Times(r, s).lo = r.lo * s.lo /\ Times(r, s).hi = r.hi * s.hi
      /\ Ordered(Times(r, s)) /\ Times(r, s).lo >= 0
  BY TimesOfAmounts DEF Inside
<1>3. /\ Times(q, p).lo = q.lo * p.lo /\ Times(q, p).hi = q.hi * p.hi /\ Ordered(Times(q, p))
  BY <1>1, TimesOfAmounts DEF Inside
<1>4. r.lo * s.lo <= q.lo * p.lo /\ q.hi * p.hi <= r.hi * s.hi
  BY <1>1, ProductGrows
<1> QED
  BY <1>2, <1>3, <1>4 DEF Inside

(* What is spanned by narrowed ranges is narrowed.                         *)
LEMMA HullInside ==
  ASSUME NEW rs, NEW qs, IsFiniteSet(rs), IsFiniteSet(qs), rs # {}, qs # {},
         \A r \in rs \cup qs : Ordered(r), \A q \in qs : \E r \in rs : Inside(r, q)
  PROVE  Inside(Hull(rs), Hull(qs))
<1>1. Ordered(Hull(rs)) /\ \A r \in rs : Hull(rs).lo <= r.lo /\ r.hi <= Hull(rs).hi
  BY HullIs
<1>2. /\ Ordered(Hull(qs)) /\ (\E q \in qs : Hull(qs).lo = q.lo) /\ \E q \in qs : Hull(qs).hi = q.hi
  BY HullIs
<1>3. Hull(rs).lo <= Hull(qs).lo
  <2>1. PICK q \in qs : Hull(qs).lo = q.lo
    BY <1>2
  <2>2. PICK r \in rs : Inside(r, q)
    OBVIOUS
  <2> QED
    BY <1>1, <2>1, <2>2 DEF Inside, Ordered
<1>4. Hull(qs).hi <= Hull(rs).hi
  <2>1. PICK q \in qs : Hull(qs).hi = q.hi
    BY <1>2
  <2>2. PICK r \in rs : Inside(r, q)
    OBVIOUS
  <2> QED
    BY <1>1, <2>1, <2>2 DEF Inside, Ordered
<1> QED
  BY <1>1, <1>2, <1>3, <1>4 DEF Inside

(* The varieties on offer: the same tokens have one, and each is narrowed. *)
LEMMA VarietiesInside ==
  ASSUME NEW te, NEW u, Sharper(te, u)
  PROVE  /\ Varieties(te) = {} <=> Varieties(u) = {}
         /\ Varieties(te) # {} => Inside(Hull(Varieties(te)), Hull(Varieties(u))) /\ Hull(Varieties(te)).lo >= 1
<1> DEFINE ts == {t \in te.tokens : te.token[t].variety # None}
<1>1. /\ Varieties(te) = {te.span[te.token[t].variety] : t \in ts}
      /\ Varieties(u) = {u.span[te.token[t].variety] : t \in ts}
  BY SameShape DEF Sharper, Varieties
<1>2. ASSUME NEW t \in ts
      PROVE  Inside(te.span[te.token[t].variety], u.span[te.token[t].variety]) /\ te.span[te.token[t].variety].lo >= 1
  <2>1. te.token[t].variety \in DOMAIN te.span /\ te.span[te.token[t].variety].lo >= 1
    BY DEF Sharper, Formed, TokenFormed
  <2> QED
    BY <2>1, SpanInside
<1>3. Varieties(te) = {} <=> Varieties(u) = {}
  BY <1>1
<1>4. /\ \A q \in Varieties(u) : \E r \in Varieties(te) : Inside(r, q)
      /\ \A r \in Varieties(te) : r.lo >= 1
  BY <1>1, <1>2
<1>5. /\ IsFiniteSet(Varieties(te)) /\ (\A r \in Varieties(te) : Ordered(r))
      /\ IsFiniteSet(Varieties(u)) /\ \A r \in Varieties(u) : Ordered(r)
  BY VarietiesAre DEF Sharper
<1>6. ASSUME Varieties(te) # {} PROVE Inside(Hull(Varieties(te)), Hull(Varieties(u))) /\ Hull(Varieties(te)).lo >= 1
  <2> DEFINE rs == Varieties(te)
             qs == Varieties(u)
  <2>1. rs # {} /\ qs # {} /\ \A r \in rs \cup qs : Ordered(r)
    BY <1>3, <1>5, <1>6
  <2>2. IsFiniteSet(rs) /\ IsFiniteSet(qs) /\ (\A q \in qs : \E r \in rs : Inside(r, q)) /\ \A r \in rs : r.lo >= 1
    BY <1>4, <1>5
  <2> HIDE DEF rs, qs
  <2>3. Inside(Hull(rs), Hull(qs))
    BY <2>1, <2>2, HullInside
  <2>4. \E r \in rs : Hull(rs).lo = r.lo
    BY <2>1, <2>2, HullIs
  <2> QED
    BY <2>2, <2>3, <2>4 DEF rs, qs
<1> QED
  BY <1>3, <1>6

------------------------------------------------------------------------------
(* Conditions: what was certain stays certain, and what could not happen   *)
(* still cannot.                                                           *)
LEMMA StatusSharper ==
  ASSUME NEW te, NEW u, Sharper(te, u), NEW c, Evaluable(c)
  PROVE  /\ Status(c, te) = "always" => Status(c, u) = "always"
         /\ Status(c, te) = "never" => Status(c, u) = "never"
<1>1. CASE c.sort = "window"
  BY <1>1 DEF Status
<1>2. CASE c.sort = "event"
  <2>1. u.event = te.event /\ u.tokens = te.tokens /\ u.token = te.token
    BY SameShape DEF Sharper
  <2>2. \A r : Resolve(r, te) = Resolve(r, u)
    BY <2>1 DEF Resolve
  <2>3. OccurrenceStatus(c, te) = OccurrenceStatus(c, u)
    BY <2>1, <2>2 DEF OccurrenceStatus
  <2> QED
    BY <1>2, <2>3 DEF Status
<1>3. CASE c.sort = "threshold"
  <2> DEFINE xs == Within(VarBounds(c.var, te))
             ys == Within(VarBounds(c.var, u))
  <2>1. Measured(c.var, te) <=> Measured(c.var, u)
    BY VarietiesInside DEF Measured
  <2>2. ASSUME Measured(c.var, te) PROVE ys \subseteq xs /\ ys # {}
    <3>1. CASE c.var = "T"
      BY <3>1, VerdictsAssumption DEF VarBounds, Within
    <3>2. CASE c.var # "T"
      <4>1. Inside(VarBounds(c.var, te), VarBounds(c.var, u))
        <5>1. CASE c.var = "K"
          BY <2>2, <5>1, VarietiesInside DEF Measured, VarBounds
        <5>2. CASE c.var # "K"
          <6>1. c.var \in DOMAIN te.span
            BY <2>2, <3>2, <5>2 DEF Measured, Sharper, Formed
          <6> QED
            BY <3>2, <5>2, <6>1, SpanInside DEF VarBounds
        <5> QED
          BY <5>1, <5>2
      <4> QED
        BY <4>1 DEF Inside, Ordered, Within
    <3> QED
      BY <3>1, <3>2
  <2>3. /\ Status(c, te) = ThresholdStatus(c, te)
        /\ Status(c, u) = ThresholdStatus(c, u)
    BY <1>3 DEF Status
  <2>4. CASE ~Measured(c.var, te)
    BY <2>1, <2>3, <2>4 DEF ThresholdStatus
  <2>5. CASE Measured(c.var, te)
    <3> DEFINE met(x) == Meets(c.op, x, c.value)
    <3>1. /\ ThresholdStatus(c, te) = Decide(\A x \in xs : met(x), \A x \in xs : ~met(x))
          /\ ThresholdStatus(c, u) = Decide(\A x \in ys : met(x), \A x \in ys : ~met(x))
      BY <2>1, <2>5 DEF ThresholdStatus
    <3>2. ys \subseteq xs /\ ys # {}
      BY <2>2, <2>5
    <3> HIDE DEF met, xs, ys
    <3> QED
      BY <2>3, <3>1, <3>2 DEF Decide
  <2> QED
    BY <2>4, <2>5
<1> QED
  BY <1>1, <1>2, <1>3 DEF Evaluable

(* What a rule takes from the catalogue of events does not depend on       *)
(* ranges.                                                                 *)
LEMMA ResolveSame ==
  ASSUME NEW te, NEW u, Sharper(te, u), NEW r
  PROVE  Resolve(r, u) = Resolve(r, te)
  BY SameShape DEF Sharper, Resolve

(* A rule of creation that counts did so before, and one of removal that   *)
(* did still counts; where all is certain nothing changes.                 *)
LEMMA ContributesSharper ==
  ASSUME NEW te, NEW u, Sharper(te, u), NEW r, RuleFormed(te, r)
  PROVE  /\ Contributes(r, u, "emission") => Contributes(r, te, "emission")
         /\ Contributes(r, te, "burn") => Contributes(r, u, "burn")
         /\ Conjunction(r.when, te) \in {"always", "never"} =>
              \A side \in {"emission", "burn"} : Contributes(r, u, side) <=> Contributes(r, te, side)
<1> DEFINE ss == {Status(c, te) : c \in r.when}
           vs == {Status(c, u) : c \in r.when}
<1>1. \A c \in r.when : /\ Status(c, te) = "always" => Status(c, u) = "always"
                        /\ Status(c, te) = "never" => Status(c, u) = "never"
  BY StatusSharper DEF RuleFormed, Conditions
<1>2. (ss \subseteq {"always"} => vs \subseteq {"always"}) /\ ("never" \in ss => "never" \in vs)
  BY <1>1
<1>3. Conjunction(r.when, te) = Decide(ss \subseteq {"always"}, "never" \in ss)
      /\ Conjunction(r.when, u) = Decide(vs \subseteq {"always"}, "never" \in vs)
  BY DEF Conjunction, Every
<1> HIDE DEF ss, vs
<1>4. /\ Conjunction(r.when, te) = "always" => Conjunction(r.when, u) = "always"
      /\ Conjunction(r.when, te) = "never" => Conjunction(r.when, u) = "never"
      /\ Conjunction(r.when, te) \in {"always", "never", "ever"}
  <2>1. "never" \in vs => ~(vs \subseteq {"always"})
    OBVIOUS
  <2>2. "never" \in ss => ~(ss \subseteq {"always"})
    OBVIOUS
  <2> QED
    BY <1>2, <1>3, <2>1, <2>2 DEF Decide
<1> QED
  BY <1>4 DEF Contributes

(* A regime that may come to hold after narrowing could before.            *)
LEMMA LiveSharper ==
  ASSUME NEW te, NEW u, Sharper(te, u), NEW r, RuleFormed(te, r)
  PROVE  Live(r, u) \subseteq Live(r, te) /\ Live(r, te) \subseteq Fns(r)
<1>1. \A g \in Range(r.regimes) : Status(g.predicate, te) = "never" => Status(g.predicate, u) = "never"
  BY StatusSharper DEF RuleFormed, Conditions
<1>2. Live(r, u) \subseteq Live(r, te)
  BY <1>1 DEF Live
<1>3. Live(r, te) \subseteq Fns(r)
  BY DEF Live, Fns
<1> QED
  BY <1>2, <1>3

------------------------------------------------------------------------------
(* Rates that do not fall below zero                                       *)
LEMMA AverageInside ==
  ASSUME NEW te, NEW u, Sharper(te, u), NEW fn, FnFormed(te, fn), ~BelowZero(te, fn)
  PROVE  Inside(Average(fn, te), Average(fn, u)) /\ Average(fn, te).lo >= 0 /\ FnFormed(u, fn)
<1>1. FnFormed(u, fn)
  BY SameShape DEF Sharper, FnFormed
<1>2. Ordered(Average(fn, te)) /\ Ordered(Average(fn, u)) /\ Average(fn, te).lo >= 0
  BY <1>1, AverageIs DEF Sharper
<1>3. Average(fn, te).lo <= Average(fn, u).lo /\ Average(fn, u).hi <= Average(fn, te).hi
  <2>1. CASE fn.family = "opaque"
    BY <2>1, VerdictsAssumption DEF Average
  <2>2. fn.family # "opaque" => Inside(te.span[fn.a], u.span[fn.a])
    BY SpanInside DEF FnFormed, Affine
  <2>3. CASE fn.family \in {"linear", "polynomial"}
    <3> DEFINE a == te.span[fn.a]
               b == te.span[fn.b]
               c == u.span[fn.a]
               d == u.span[fn.b]
               m == Slope(fn)
    <3>1. Inside(a, c) /\ Inside(b, d)
      BY <2>2, <2>3, SpanInside DEF FnFormed, Affine
    <3>2. m \in Nat
      BY <2>3, SlopeIs
    <3>3. /\ Average(fn, te).lo = a.lo * m + b.lo /\ Average(fn, te).hi = a.hi * m + b.hi
          /\ Average(fn, u).lo = c.lo * m + d.lo /\ Average(fn, u).hi = c.hi * m + d.hi
      BY <2>3 DEF Average
    <3> HIDE DEF a, b, c, d, m
    <3>4. /\ a.lo * m <= c.lo * m /\ c.hi * m <= a.hi * m
          /\ a.lo * m \in Int /\ c.lo * m \in Int /\ c.hi * m \in Int /\ a.hi * m \in Int
      BY <3>1, <3>2, InProportion DEF Inside, Ordered
    <3> QED
      BY <3>1, <3>3, <3>4 DEF Inside, Ordered
  <2>4. CASE fn.family = "distribution"
    <3> DEFINE a == te.span[fn.a]
               c == u.span[fn.a]
    <3>1. Inside(a, c)
      BY <2>2, <2>4
    <3>2. /\ Average(fn, te).lo = Max({0, a.lo}) /\ Average(fn, te).hi = Max({0, a.hi})
          /\ Average(fn, u).lo = Max({0, c.lo}) /\ Average(fn, u).hi = Max({0, c.hi})
      BY <2>4 DEF Average
    <3> HIDE DEF a, c
    <3>3. /\ a.lo \in Int /\ a.hi \in Int /\ c.lo \in Int /\ c.hi \in Int /\ a.lo <= c.lo /\ c.hi <= a.hi
      BY <3>1 DEF Inside, Ordered
    <3>4. \A x, y \in Int : x <= y => Max({0, x}) <= Max({0, y})
      <4> SUFFICES ASSUME NEW x \in Int, NEW y \in Int, x <= y PROVE Max({0, x}) <= Max({0, y})
        OBVIOUS
      <4>0. 0 \in Int
        OBVIOUS
      <4>1. Max({0, x}) \in {0, x}
        BY <4>0, TwoEnds
      <4>2. Max({0, y}) \in {0, y} /\ Max({0, y}) >= 0 /\ Max({0, y}) >= y
        BY <4>0, TwoEnds
      <4> QED
        BY <4>1, <4>2
    <3> QED
      BY <3>2, <3>3, <3>4
  <2>5. CASE fn.family \notin {"linear", "polynomial", "distribution", "opaque"}
    BY <2>2, <2>5 DEF Average, Inside
  <2> QED
    BY <2>1, <2>3, <2>4, <2>5
<1> QED
  BY <1>1, <1>2, <1>3 DEF Inside

(* The rate of a function with its frequency, narrowed.                    *)
LEMMA RateInside ==
  ASSUME NEW te, NEW u, Sharper(te, u), NEW fn, FnFormed(te, fn), ~BelowZero(te, fn),
         NEW freq, freq # None => freq \in DOMAIN te.span /\ te.span[freq].lo >= 0
  PROVE  Inside(Rate(fn, freq, te), Rate(fn, freq, u)) /\ Rate(fn, freq, te).lo >= 0
<1>1. Inside(Average(fn, te), Average(fn, u)) /\ Average(fn, te).lo >= 0
  BY AverageInside
<1>2. CASE freq = None
  BY <1>1, <1>2 DEF Rate
<1>3. CASE freq # None
  <2>1. Inside(te.span[freq], u.span[freq]) /\ te.span[freq].lo >= 0
    BY <1>3, SpanInside
  <2>2. /\ Rate(fn, freq, te) = Times(Average(fn, te), te.span[freq])
        /\ Rate(fn, freq, u) = Times(Average(fn, u), u.span[freq])
    BY <1>3 DEF Rate
  <2> QED
    BY <1>1, <2>1, <2>2, TimesInside
<1> QED
  BY <1>2, <1>3

(* The rate of a rule with its regimes, narrowed.                          *)
LEMMA RuleRateInside ==
  ASSUME NEW te, NEW u, Sharper(te, u), NEW r, RuleFormed(te, r), RuleFormed(u, r),
         \A fn \in Fns(r) : ~BelowZero(te, fn),
         r.event # None /\ Resolve(r, te).freq # None => ~(te.span[Resolve(r, te).freq].lo < 0)
  PROVE  Inside(RuleRate(r, te), RuleRate(r, u)) /\ RuleRate(r, te).lo >= 0
<1> DEFINE freq == Resolve(r, te).freq
           rs == {Rate(fn, freq, te) : fn \in Live(r, te)}
           qs == {Rate(fn, freq, u) : fn \in Live(r, u)}
<1>1. freq # None => freq \in DOMAIN te.span /\ te.span[freq].lo >= 0
  BY FrequencyIs DEF Sharper
<1>2. RuleRate(r, te) = Hull(rs) /\ RuleRate(r, u) = Hull(qs)
  BY ResolveSame DEF RuleRate
<1>3. ASSUME NEW fn \in Live(r, te)
      PROVE  Inside(Rate(fn, freq, te), Rate(fn, freq, u)) /\ Rate(fn, freq, te).lo >= 0
  <2>1. fn \in Fns(r)
    BY LiveSharper
  <2>2. FnFormed(te, fn) /\ ~BelowZero(te, fn)
    BY <2>1 DEF RuleFormed
  <2> QED
    BY <1>1, <2>2, RateInside
<1>4. IsFiniteSet(Live(r, te)) /\ Live(r, u) \subseteq Live(r, te) /\ r.fn \in Live(r, u)
  <2>1. Live(r, te) \subseteq {r.fn} \cup {g.fn : g \in Range(r.regimes)} /\ r.fn \in Live(r, u)
    BY DEF Live
  <2> DEFINE h == [i \in DOMAIN r.regimes |-> r.regimes[i].fn]
  <2>2. IsFiniteSet(DOMAIN h) /\ {g.fn : g \in Range(r.regimes)} = {h[i] : i \in DOMAIN h}
    BY ListIs DEF RuleFormed, Range
  <2> HIDE DEF h
  <2>3. IsFiniteSet({g.fn : g \in Range(r.regimes)})
    BY <2>2, FiniteRange
  <2>4. IsFiniteSet({g.fn : g \in Range(r.regimes)} \cup {r.fn})
    BY <2>3, FS_AddElement
  <2> QED
    BY <2>1, <2>4, LiveSharper, FS_Subset
<1>5. IsFiniteSet(rs) /\ IsFiniteSet(qs) /\ rs # {} /\ qs # {}
  <2> DEFINE f == [fn \in Live(r, te) |-> Rate(fn, freq, te)]
             g == [fn \in Live(r, u) |-> Rate(fn, freq, u)]
  <2>1. DOMAIN f = Live(r, te) /\ DOMAIN g = Live(r, u) /\ rs = {f[x] : x \in DOMAIN f} /\ qs = {g[x] : x \in DOMAIN g}
    OBVIOUS
  <2>2. rs # {} /\ qs # {}
    BY <1>4
  <2>3. IsFiniteSet(Live(r, u))
    BY <1>4, FS_Subset
  <2> HIDE DEF f, g, rs, qs
  <2> QED
    BY <1>4, <2>1, <2>2, <2>3, FiniteRange
<1>6. /\ \A x \in rs \cup qs : Ordered(x)
      /\ \A q \in qs : \E x \in rs : Inside(x, q)
      /\ \A x \in rs : x.lo >= 0
  BY <1>3, <1>4 DEF Inside
<1> HIDE DEF rs, qs
<1>7. Inside(Hull(rs), Hull(qs)) /\ \E x \in rs : Hull(rs).lo = x.lo
  BY <1>5, <1>6, HullInside, HullIs
<1> QED
  BY <1>2, <1>6, <1>7

(* What is shown of a narrowed design holds of one that is left alone.     *)
LEMMA SharperSelf == ASSUME NEW te, Formed(te) PROVE Sharper(te, te)
<1>1. \A p \in DOMAIN te.span : te.span[p].lo <= te.span[p].lo /\ te.span[p].hi <= te.span[p].hi
  BY SpanIs DEF Ordered
<1> QED
  BY <1>1 DEF Sharper, Narrower

(* The sources of the flows into a token that take a share of what those   *)
(* create, and a choice of what they create, in hundredths.                *)
Sources(te, t) == {f.src : f \in {f \in Range(te.flows) : f.dst = t /\ f.ratio # None}}
Possible(te, t, own) ==
  /\ own \in [Sources(te, t) -> Nat]
  /\ \A s \in Sources(te, t) : 100 * OwnRate(s, te).lo <= own[s] /\ own[s] <= 100 * OwnRate(s, te).hi
AtEnds(te, t, own) ==
  /\ own \in [Sources(te, t) -> Nat]
  /\ \A s \in Sources(te, t) : own[s] \in Ends(Hundredths(OwnRate(s, te)))
(* The same sources create something in both.                              *)
SameCreate(te, t, own, c) == \A s \in Sources(te, t) : own[s] > 0 <=> c[s] > 0

(* A token all of whose rates, and all that flows into it, are at least 0. *)
Amounts(te, t) == Formed(te) /\ t \in te.tokens /\ ~MayFallBelow(te, t) /\ ~Impossible(te, t)

(* What a source creates lies within what it created, and is an amount.    *)
LEMMA OwnInside ==
  ASSUME NEW te, NEW u, Sharper(te, u), NEW t, Amounts(te, t), NEW s \in Sources(te, t)
  PROVE  Inside(OwnRate(s, te), OwnRate(s, u)) /\ OwnRate(s, te).lo >= 0
<1>1. PICK f \in Range(te.flows) : f.dst = t /\ f.ratio # None /\ s = f.src
  BY DEF Sources
<1> DEFINE rules == te.token[s].emits
           S == DOMAIN rules
           a(i) == Rate(rules[i].fn, rules[i].freq, te)
           b(i) == Rate(rules[i].fn, rules[i].freq, u)
<1>2. s \in te.tokens
  BY <1>1 DEF Amounts, Formed, FlowFormed
<1>3. IsFiniteSet(S) /\ \A i \in S : RuleFormed(te, rules[i]) /\ rules[i] \in Range(rules)
  BY <1>2, TokenIsFormed DEF Amounts
<1>4. ASSUME NEW i \in S PROVE Inside(a(i), b(i)) /\ a(i).lo >= 0
  <2> DEFINE r == rules[i]
  <2>1. RuleFormed(te, r) /\ r \in Range(rules)
    BY <1>3
  <2>2. ~BelowZero(te, r.fn) /\ ~(r.freq # None /\ te.span[r.freq].lo < 0)
    BY <1>1, <2>1 DEF Amounts, MayFallBelow
  <2>3. FnFormed(te, r.fn) /\ (r.freq # None => r.freq \in DOMAIN te.span)
    BY <2>1 DEF RuleFormed, Fns
  <2>4. r.freq # None => te.span[r.freq].lo >= 0
    BY <2>2, <2>3, SpanIs DEF Amounts, Ordered
  <2> QED
    BY <2>2, <2>3, <2>4, RateInside
<1> DEFINE alo == [i \in S |-> a(i).lo]
           ahi == [i \in S |-> a(i).hi]
           blo == [i \in S |-> b(i).lo]
           bhi == [i \in S |-> b(i).hi]
<1>5. /\ OwnRate(s, te).lo = Sum(alo) /\ OwnRate(s, te).hi = Sum(ahi)
  <2> DEFINE rs == [i \in S |-> a(i)]
  <2>1. OwnRate(s, te) = [lo |-> Sum([i \in DOMAIN rs |-> rs[i].lo]), hi |-> Sum([i \in DOMAIN rs |-> rs[i].hi])]
    BY DEF OwnRate, Total
  <2>2. [i \in DOMAIN rs |-> rs[i].lo] = alo /\ [i \in DOMAIN rs |-> rs[i].hi] = ahi
    OBVIOUS
  <2> HIDE DEF rs, alo, ahi
  <2> QED
    BY <2>1, <2>2
<1>6. /\ OwnRate(s, u).lo = Sum(blo) /\ OwnRate(s, u).hi = Sum(bhi)
  <2> DEFINE rs == [i \in S |-> b(i)]
  <2>0. u.token = te.token
    BY SameShape DEF Sharper
  <2>1. OwnRate(s, u) = [lo |-> Sum([i \in DOMAIN rs |-> rs[i].lo]), hi |-> Sum([i \in DOMAIN rs |-> rs[i].hi])]
    BY <2>0 DEF OwnRate, Total
  <2>2. [i \in DOMAIN rs |-> rs[i].lo] = blo /\ [i \in DOMAIN rs |-> rs[i].hi] = bhi
    OBVIOUS
  <2> HIDE DEF rs, blo, bhi
  <2> QED
    BY <2>1, <2>2
<1>7. ASSUME NEW i \in S
      PROVE  /\ alo[i] \in Int /\ ahi[i] \in Int /\ blo[i] \in Int /\ bhi[i] \in Int
             /\ alo[i] <= blo[i] /\ blo[i] <= bhi[i] /\ bhi[i] <= ahi[i] /\ alo[i] <= ahi[i] /\ alo[i] >= 0
  <2> DEFINE r == a(i)
             q == b(i)
  <2>1. Inside(r, q) /\ r.lo >= 0
    BY <1>4
  <2> HIDE DEF a, b
  <2>2. alo[i] = r.lo /\ ahi[i] = r.hi /\ blo[i] = q.lo /\ bhi[i] = q.hi
    OBVIOUS
  <2> HIDE DEF r, q, alo, ahi, blo, bhi
  <2> QED
    BY <2>1, <2>2 DEF Inside, Ordered
<1>8. DOMAIN alo = S /\ DOMAIN ahi = S /\ DOMAIN blo = S /\ DOMAIN bhi = S
  OBVIOUS
<1> HIDE DEF S, alo, ahi, blo, bhi
<1>9. Sum(alo) \in Int /\ Sum(ahi) \in Int /\ Sum(blo) \in Int /\ Sum(bhi) \in Int
  BY <1>3, <1>7, <1>8, SumIsInt
<1>10. Sum(alo) <= Sum(blo) /\ Sum(blo) <= Sum(bhi) /\ Sum(bhi) <= Sum(ahi) /\ Sum(alo) >= 0
  <2>1. Sum(alo) <= Sum(blo)
    BY <1>3, <1>7, <1>8, SumsInOrder
  <2>2. Sum(blo) <= Sum(bhi)
    BY <1>3, <1>7, <1>8, SumsInOrder
  <2>3. Sum(bhi) <= Sum(ahi)
    BY <1>3, <1>7, <1>8, SumsInOrder
  <2>4. Sum(alo) >= 0
    BY <1>3, <1>7, <1>8, SumOfNothing
  <2> QED
    BY <2>1, <2>2, <2>3, <2>4
<1> QED
  BY <1>5, <1>6, <1>9, <1>10 DEF Inside, Ordered

(* A source's creation is an ordered range.                                *)
LEMMA OwnIs ==
  ASSUME NEW te, NEW t, Amounts(te, t), NEW s \in Sources(te, t)
  PROVE  Ordered(OwnRate(s, te)) /\ OwnRate(s, te).lo >= 0
BY SharperSelf, OwnInside DEF Amounts, Inside

(* The sources are part of the shape.                                      *)
LEMMA SourcesSame ==
  ASSUME NEW te, NEW u, Sharper(te, u), NEW t
  PROVE  Sources(u, t) = Sources(te, t)
  BY SameShape DEF Sharper, Sources

(* A choice of what sources create after narrowing could be made before.   *)
LEMMA PossibleBefore ==
  ASSUME NEW te, NEW u, Sharper(te, u), NEW t, Amounts(te, t), NEW own, Possible(u, t, own)
  PROVE  Possible(te, t, own)
<1>1. Sources(u, t) = Sources(te, t)
  BY SourcesSame
<1>2. ASSUME NEW s \in Sources(te, t)
      PROVE  100 * OwnRate(s, te).lo <= own[s] /\ own[s] <= 100 * OwnRate(s, te).hi
  <2>1. Inside(OwnRate(s, te), OwnRate(s, u))
    BY OwnInside
  <2>2. 100 * OwnRate(s, u).lo <= own[s] /\ own[s] <= 100 * OwnRate(s, u).hi /\ own[s] \in Nat
    BY <1>1 DEF Possible
  <2> QED
    BY <2>1, <2>2 DEF Inside, Ordered
<1> QED
  BY <1>1, <1>2 DEF Possible

------------------------------------------------------------------------------
(* What flows bring, when their sources create own                         *)
LEMMA FlowAmount ==
  ASSUME NEW te, NEW t, Amounts(te, t), NEW own \in [Sources(te, t) -> Nat], NEW f \in Range(te.flows), f.dst = t
  PROVE  /\ Ordered(FlowRate(f, own, te)) /\ FlowRate(f, own, te).lo >= 0
         /\ f.ratio = None => FlowRate(f, own, te) = Hundredths(Average(f.amount, te)) /\ FnFormed(te, f.amount)
                              /\ ~BelowZero(te, f.amount)
         /\ f.ratio # None =>
              /\ f.src \in Sources(te, t) /\ f.ratio \in DOMAIN te.span /\ te.span[f.ratio].lo >= 0
              /\ FlowRate(f, own, te) = Times(te.span[f.ratio], [lo |-> own[f.src], hi |-> own[f.src]])
              /\ FlowRate(f, own, te).lo = te.span[f.ratio].lo * own[f.src]
              /\ FlowRate(f, own, te).hi = te.span[f.ratio].hi * own[f.src]
<1>1. IF f.ratio = None THEN FnFormed(te, f.amount) ELSE f.ratio \in DOMAIN te.span /\ te.span[f.ratio].lo >= 0
  BY DEF Amounts, Formed, FlowFormed
<1>2. CASE f.ratio = None
  <2>1. ~BelowZero(te, f.amount)
    BY <1>2 DEF Amounts, MayFallBelow
  <2> DEFINE a == Average(f.amount, te)
  <2>2. Ordered(a) /\ a.lo >= 0
    BY <1>1, <1>2, <2>1, AverageIs DEF Amounts
  <2>3. FlowRate(f, own, te) = Hundredths(a)
    BY <1>2 DEF FlowRate
  <2> HIDE DEF a
  <2>4. Ordered(Hundredths(a)) /\ Hundredths(a).lo >= 0
    BY <2>2 DEF Ordered, Hundredths
  <2> QED
    BY <1>1, <1>2, <2>1, <2>3, <2>4 DEF a
<1>3. CASE f.ratio # None
  <2> DEFINE r == te.span[f.ratio]
             o == own[f.src]
             s == [lo |-> o, hi |-> o]
  <2>1. f.src \in Sources(te, t)
    BY <1>3 DEF Sources
  <2>2. o \in Nat
    BY <2>1
  <2>3. Ordered(r) /\ r.lo >= 0
    BY <1>1, <1>3, SpanIs DEF Amounts
  <2>4. FlowRate(f, own, te) = Times(r, s)
    BY <1>3 DEF FlowRate
  <2> HIDE DEF o
  <2>5. Ordered(s) /\ s.lo >= 0 /\ s.lo = o /\ s.hi = o
    BY <2>2 DEF Ordered
  <2> HIDE DEF r, s
  <2>6. Times(r, s).lo = r.lo * o /\ Times(r, s).hi = r.hi * o /\ Ordered(Times(r, s)) /\ Times(r, s).lo >= 0
    BY <2>3, <2>5, TimesOfAmounts
  <2> QED
    BY <1>1, <1>3, <2>1, <2>4, <2>6 DEF r, s, o
<1> QED
  BY <1>2, <1>3

(* What one flow brings, narrowed.                                         *)
LEMMA FlowInside ==
  ASSUME NEW te, NEW u, Sharper(te, u), NEW t, Amounts(te, t), NEW own \in [Sources(te, t) -> Nat],
         NEW f \in Range(te.flows), f.dst = t
  PROVE  Inside(FlowRate(f, own, te), FlowRate(f, own, u))
<1>1. CASE f.ratio = None
  <2>1. FlowRate(f, own, te) = Hundredths(Average(f.amount, te)) /\ FlowRate(f, own, u) = Hundredths(Average(f.amount, u))
    BY <1>1 DEF FlowRate
  <2>2. Inside(Average(f.amount, te), Average(f.amount, u))
    BY <1>1, FlowAmount, AverageInside
  <2> QED
    BY <2>1, <2>2 DEF Inside, Ordered, Hundredths
<1>2. CASE f.ratio # None
  <2> DEFINE s == [lo |-> own[f.src], hi |-> own[f.src]]
  <2>1. /\ f.src \in Sources(te, t) /\ f.ratio \in DOMAIN te.span /\ te.span[f.ratio].lo >= 0
        /\ FlowRate(f, own, te) = Times(te.span[f.ratio], s)
    BY <1>2, FlowAmount
  <2>2. FlowRate(f, own, u) = Times(u.span[f.ratio], s)
    BY <1>2 DEF FlowRate
  <2>3. Inside(s, s) /\ s.lo >= 0
    <3>1. own[f.src] \in Nat
      BY <2>1
    <3> QED
      BY <3>1 DEF Inside, Ordered
  <2>4. Inside(te.span[f.ratio], u.span[f.ratio])
    BY <2>1, SpanInside
  <2> HIDE DEF s
  <2> QED
    BY <2>1, <2>2, <2>3, <2>4, TimesInside
<1> QED
  BY <1>1, <1>2

(* What flows bring is a sum of whole numbers, one for each flow.          *)
LEMMA FedIs ==
  ASSUME NEW te, NEW t, Amounts(te, t), NEW own \in [Sources(te, t) -> Nat], NEW act, NEW end \in {"lo", "hi"}
  PROVE  /\ IsFiniteSet(Flows(te, t, act)) /\ DOMAIN Fed(te, t, act, own, end) = Flows(te, t, act)
         /\ \A i \in Flows(te, t, act) : /\ Fed(te, t, act, own, end)[i] = FlowRate(te.flows[i], own, te)[end]
                                         /\ Fed(te, t, act, own, end)[i] \in Int /\ Fed(te, t, act, own, end)[i] >= 0
         /\ Sum(Fed(te, t, act, own, end)) \in Int /\ Sum(Fed(te, t, act, own, end)) >= 0
<1> DEFINE F == Flows(te, t, act)
           g == Fed(te, t, act, own, end)
<1>1. IsFiniteSet(F) /\ \A i \in F : te.flows[i] \in Range(te.flows) /\ te.flows[i].dst = t
  BY FlowsAre DEF Amounts
<1>2. DOMAIN g = F /\ \A i \in F : g[i] = FlowRate(te.flows[i], own, te)[end]
  BY DEF Fed
<1>3. \A i \in F : Ordered(FlowRate(te.flows[i], own, te)) /\ FlowRate(te.flows[i], own, te).lo >= 0
  BY <1>1, FlowAmount
<1>4. \A i \in F : g[i] \in Int /\ g[i] >= 0
  BY <1>2, <1>3 DEF Ordered
<1> HIDE DEF F, g
<1>5. Sum(g) \in Int /\ Sum(g) >= 0
  BY <1>1, <1>2, <1>4, SumOfNothing
<1> QED
  BY <1>1, <1>2, <1>4, <1>5 DEF F, g

(* What all flows into a token bring, narrowed, for the same creation of   *)
(* their sources.                                                          *)
LEMMA FedInside ==
  ASSUME NEW te, NEW u, Sharper(te, u), NEW t, Amounts(te, t), Amounts(u, t),
         NEW own \in [Sources(te, t) -> Nat], NEW act
  PROVE  /\ Sum(Fed(te, t, act, own, "lo")) <= Sum(Fed(u, t, act, own, "lo"))
         /\ Sum(Fed(u, t, act, own, "lo")) <= Sum(Fed(u, t, act, own, "hi"))
         /\ Sum(Fed(u, t, act, own, "hi")) <= Sum(Fed(te, t, act, own, "hi"))
<1> DEFINE F == Flows(te, t, act)
           a == Fed(te, t, act, own, "lo")
           b == Fed(u, t, act, own, "lo")
           c == Fed(u, t, act, own, "hi")
           d == Fed(te, t, act, own, "hi")
<1>1. u.flows = te.flows /\ Flows(u, t, act) = F /\ own \in [Sources(u, t) -> Nat]
  BY SameShape, SourcesSame DEF Sharper, Flows
<1>2. /\ IsFiniteSet(F) /\ DOMAIN a = F /\ DOMAIN d = F
      /\ \A i \in F : /\ a[i] = FlowRate(te.flows[i], own, te).lo /\ d[i] = FlowRate(te.flows[i], own, te).hi
                      /\ a[i] \in Int /\ d[i] \in Int
  BY FedIs
<1>3. /\ DOMAIN b = F /\ DOMAIN c = F
      /\ \A i \in F : /\ b[i] = FlowRate(te.flows[i], own, u).lo /\ c[i] = FlowRate(te.flows[i], own, u).hi
                      /\ b[i] \in Int /\ c[i] \in Int
  BY <1>1, FedIs
<1>4. \A i \in F : te.flows[i] \in Range(te.flows) /\ te.flows[i].dst = t
  BY FlowsAre DEF Amounts
<1>5. \A i \in F : Inside(FlowRate(te.flows[i], own, te), FlowRate(te.flows[i], own, u))
  BY <1>4, FlowInside
<1>6. \A i \in F : a[i] <= b[i] /\ b[i] <= c[i] /\ c[i] <= d[i]
  BY <1>2, <1>3, <1>5 DEF Inside, Ordered
<1> HIDE DEF F, a, b, c, d
<1>7. Sum(a) <= Sum(b)
  BY <1>2, <1>3, <1>6, SumsInOrder
<1>8. Sum(b) <= Sum(c)
  BY <1>2, <1>3, <1>6, SumsInOrder
<1>9. Sum(c) <= Sum(d)
  BY <1>2, <1>3, <1>6, SumsInOrder
<1> QED
  BY <1>7, <1>8, <1>9 DEF a, b, c, d

(* What a source creates, put in the place of what it was taken to create. *)
With(own, s, v) == [own EXCEPT ![s] = v]
(* The changed choice is one as well.                                      *)
LEMMA WithIs ==
  ASSUME NEW S, NEW own \in [S -> Nat], NEW s \in S, NEW v \in Nat
  PROVE  /\ With(own, s, v) \in [S -> Nat] /\ With(own, s, v)[s] = v
         /\ \A r \in S : r # s => With(own, s, v)[r] = own[r]
BY DEF With

(* What a source creates enters what flows bring in proportion.            *)
FedBy(te, t, act, own, y, end, D, K) == \A v \in Nat : Sum(Fed(te, t, act, With(own, y, v), end)) = D + K * v
LEMMA FedAffine ==
  ASSUME NEW te, NEW t, Amounts(te, t), NEW own \in [Sources(te, t) -> Nat], NEW y \in Sources(te, t),
         NEW act, NEW end \in {"lo", "hi"}
  PROVE  \E D \in Int, K \in Int : FedBy(te, t, act, own, y, end, D, K)
<1> DEFINE F == Flows(te, t, act)
           mine(i) == te.flows[i].ratio # None /\ te.flows[i].src = y
           g == [i \in F |-> IF mine(i) THEN 0 ELSE FlowRate(te.flows[i], own, te)[end]]
           h == [i \in F |-> IF mine(i) THEN te.span[te.flows[i].ratio][end] ELSE 0]
           f(v) == Fed(te, t, act, With(own, y, v), end)
<1>1. IsFiniteSet(F) /\ \A i \in F : te.flows[i] \in Range(te.flows) /\ te.flows[i].dst = t
  BY FlowsAre DEF Amounts
<1>2. ASSUME NEW i \in F PROVE g[i] \in Int /\ h[i] \in Int
  <2>1. Ordered(FlowRate(te.flows[i], own, te))
    BY <1>1, FlowAmount
  <2>2. mine(i) => Ordered(te.span[te.flows[i].ratio])
    BY <1>1, FlowAmount, SpanIs DEF Amounts
  <2> QED
    BY <2>1, <2>2 DEF Ordered
<1>3. ASSUME NEW v \in Nat
      PROVE  DOMAIN f(v) = F /\ \A i \in F : f(v)[i] = g[i] + v * h[i]
  <2> DEFINE o == With(own, y, v)
  <2>1. o \in [Sources(te, t) -> Nat] /\ o[y] = v /\ \A s \in Sources(te, t) : s # y => o[s] = own[s]
    BY WithIs
  <2>2. DOMAIN f(v) = F /\ \A i \in F : f(v)[i] = FlowRate(te.flows[i], o, te)[end]
    BY <2>1, FedIs
  <2> HIDE DEF o
  <2>3. ASSUME NEW i \in F PROVE FlowRate(te.flows[i], o, te)[end] = g[i] + v * h[i]
    <3> DEFINE e == te.flows[i]
    <3>1. e \in Range(te.flows) /\ e.dst = t
      BY <1>1
    <3>2. CASE mine(i)
      <4>1. FlowRate(e, o, te)[end] = te.span[e.ratio][end] * v
        <5>0. e.ratio # None /\ e.src = y
          BY <3>2
        <5> HIDE DEF e, g, h, f, mine, F
        <5>3. o \in [Sources(te, t) -> Nat] /\ Amounts(te, t) /\ e \in Range(te.flows) /\ e.dst = t
          BY <2>1, <3>1
        <5>1. /\ FlowRate(e, o, te).lo = te.span[e.ratio].lo * o[e.src]
              /\ FlowRate(e, o, te).hi = te.span[e.ratio].hi * o[e.src]
          BY <5>0, <5>3, FlowAmount
        <5>2. o[e.src] = v
          BY <2>1, <5>0
        <5> QED
          BY <5>1, <5>2
      <4>2. g[i] = 0 /\ h[i] = te.span[e.ratio][end] /\ h[i] \in Int
        BY <1>2, <3>2
      <4> HIDE DEF g, h
      <4> QED
        BY <4>1, <4>2
    <3>3. CASE ~mine(i)
      <4>1. FlowRate(e, o, te) = FlowRate(e, own, te)
        <5>1. CASE e.ratio = None
          BY <5>1 DEF FlowRate
        <5>2. CASE e.ratio # None
          <6>1. e.src \in Sources(te, t) /\ e.src # y
            BY <3>1, <3>3, <5>2, FlowAmount
          <6>2. o[e.src] = own[e.src]
            BY <2>1, <6>1
          <6> QED
            BY <5>2, <6>2 DEF FlowRate
        <5> QED
          BY <5>1, <5>2
      <4>2. g[i] = FlowRate(e, own, te)[end] /\ h[i] = 0 /\ g[i] \in Int
        BY <1>2, <3>3
      <4> HIDE DEF g, h
      <4> QED
        BY <4>1, <4>2
    <3> QED
      BY <3>2, <3>3
  <2> QED
    BY <2>2, <2>3
<1>4. DOMAIN g = F /\ DOMAIN h = F
  OBVIOUS
<1> HIDE DEF F, g, h
<1>5. ASSUME NEW v \in Nat PROVE Sum(f(v)) = Sum(g) + v * Sum(h)
  <2> DEFINE fv == f(v)
  <2>1. DOMAIN fv = F /\ \A i \in F : fv[i] = g[i] + v * h[i]
    BY <1>3
  <2> HIDE DEF fv
  <2>2. Sum(fv) = Sum(g) + v * Sum(h)
    BY <1>1, <1>2, <1>4, <2>1, SumAffine
  <2> QED
    BY <2>2 DEF fv
<1>6. Sum(g) \in Int /\ Sum(h) \in Int
  BY <1>1, <1>2, <1>4, SumIsInt
<1>7. \A v \in Nat : Sum(f(v)) = Sum(g) + Sum(h) * v
  <2> TAKE v \in Nat
  <2>1. Sum(f(v)) = Sum(g) + v * Sum(h)
    BY <1>5
  <2>2. v * Sum(h) = Sum(h) * v
    BY <1>6
  <2> QED
    BY <2>1, <2>2
<1>8. FedBy(te, t, act, own, y, end, Sum(g), Sum(h))
  BY <1>7 DEF FedBy
<1> QED
  BY <1>6, <1>8

(* Which end of a range is taken                                          *)
BothEnds == {"lo", "hi"}

(* A sum of what is created and what is removed, weighed by p and q.       *)
Weigh(te, t, own, p, x, q, y) == p * Sum(Fed(te, t, "mint", own, x)) + q * Sum(Fed(te, t, "burn", own, y))

Weighed(te, t, own, s, p, x, q, y, D, K) == \A v \in Nat : Weigh(te, t, With(own, s, v), p, x, q, y) = D + K * v
(* So it enters the weighed sum in proportion.                             *)
LEMMA WeighAffine ==
  ASSUME NEW te, NEW t, Amounts(te, t), NEW own \in [Sources(te, t) -> Nat], NEW s \in Sources(te, t),
         NEW p \in Int, NEW x \in BothEnds, NEW q \in Int, NEW y \in BothEnds
  PROVE  \E D \in Int, K \in Int : Weighed(te, t, own, s, p, x, q, y, D, K)
<1> DEFINE a(v) == Sum(Fed(te, t, "mint", With(own, s, v), x))
           b(v) == Sum(Fed(te, t, "burn", With(own, s, v), y))
<1>1. PICK D \in Int, K \in Int : FedBy(te, t, "mint", own, s, x, D, K)
  BY FedAffine DEF BothEnds
<1>2. PICK E \in Int, L \in Int : FedBy(te, t, "burn", own, s, y, E, L)
  BY FedAffine DEF BothEnds
<1>3. ASSUME NEW v \in Nat
      PROVE  Weigh(te, t, With(own, s, v), p, x, q, y) = (p * D + q * E) + (p * K + q * L) * v
  <2>1. Weigh(te, t, With(own, s, v), p, x, q, y) = p * a(v) + q * b(v)
    BY DEF Weigh
  <2>2. a(v) = D + K * v /\ b(v) = E + L * v
    BY <1>1, <1>2 DEF FedBy
  <2> HIDE DEF a, b
  <2>3. p * (D + K * v) = p * D + (p * K) * v /\ q * (E + L * v) = q * E + (q * L) * v
    OBVIOUS
  <2>4. (p * K + q * L) * v = (p * K) * v + (q * L) * v
    OBVIOUS
  <2>5. p * D \in Int /\ q * E \in Int /\ (p * K) * v \in Int /\ (q * L) * v \in Int
    OBVIOUS
  <2> QED
    BY <2>1, <2>2, <2>3, <2>4, <2>5
<1>4. p * D + q * E \in Int /\ p * K + q * L \in Int
  OBVIOUS
<1>5. Weighed(te, t, own, s, p, x, q, y, p * D + q * E, p * K + q * L)
  BY <1>3 DEF Weighed
<1> QED
  BY <1>4, <1>5

(* What is linear in what the sources create is greatest where each of     *)
(* them creates its least or its most, or just above zero in the place of  *)
(* nothing: the sources that create something still do.                    *)
LEMMA CornerReached ==
  ASSUME NEW te, NEW t, Amounts(te, t), NEW own, Possible(te, t, own),
         NEW p \in Int, NEW x \in BothEnds, NEW q \in Int, NEW y \in BothEnds
  PROVE  \E c : /\ AtEnds(te, t, c) /\ SameCreate(te, t, own, c)
                /\ Weigh(te, t, own, p, x, q, y) <= Weigh(te, t, c, p, x, q, y)
<1>0. ASSUME NEW o \in [Sources(te, t) -> Nat], NEW s \in Sources(te, t)
      PROVE  \E D \in Int, K \in Int : Weighed(te, t, o, s, p, x, q, y, D, K)
  BY WeighAffine
<1> DEFINE S == Sources(te, t)
           lo(s) == IF own[s] = 0 THEN 0 ELSE IF OwnRate(s, te).lo = 0 THEN 1 ELSE 100 * OwnRate(s, te).lo
           hi(s) == IF own[s] = 0 THEN 0 ELSE 100 * OwnRate(s, te).hi
           Lies(o) == o \in [S -> Nat] /\ \A s \in S : lo(s) <= o[s] /\ o[s] <= hi(s)
           W(o) == Weigh(te, t, o, p, x, q, y)
           Fixed(o, A) == \A s \in S \ A : o[s] = lo(s) \/ o[s] = hi(s)
           Corner(c) == Lies(c) /\ Fixed(c, {})
           Good(A) == \A o : Lies(o) /\ Fixed(o, A) => \E c : Corner(c) /\ W(o) <= W(c)
           C == {A \in SUBSET S : ~Good(A)}
<1>1. IsFiniteSet(S)
  <2> DEFINE f == [i \in DOMAIN te.flows |-> te.flows[i].src]
             R == {f[i] : i \in DOMAIN f}
  <2>1. IsFiniteSet(DOMAIN f)
    BY ListIs DEF Amounts, Formed
  <2>2. S \subseteq R
    BY DEF Sources, Range
  <2> HIDE DEF f, S
  <2>3. IsFiniteSet(R)
    BY <2>1, FiniteRange
  <2> HIDE DEF R
  <2> QED
    BY <2>2, <2>3, FS_Subset
<1>2. ASSUME NEW s \in S
      PROVE  /\ lo(s) \in Nat /\ hi(s) \in Nat /\ lo(s) <= own[s] /\ own[s] <= hi(s) /\ own[s] \in Nat
             /\ own[s] > 0 => lo(s) > 0
             /\ lo(s) \in Ends(Hundredths(OwnRate(s, te))) /\ hi(s) \in Ends(Hundredths(OwnRate(s, te)))
  <2> DEFINE l == OwnRate(s, te).lo
             h == OwnRate(s, te).hi
             n == own[s]
  <2>1. l \in Int /\ h \in Int /\ l >= 0 /\ l <= h
    BY OwnIs DEF Ordered
  <2>2. n \in Nat /\ 100 * l <= n /\ n <= 100 * h
    BY DEF Possible
  <2>3. /\ 100 * l \in Ends(Hundredths(OwnRate(s, te))) /\ 100 * h \in Ends(Hundredths(OwnRate(s, te)))
        /\ l = 0 /\ h > 0 => 1 \in Ends(Hundredths(OwnRate(s, te)))
    <3> DEFINE r == Hundredths(OwnRate(s, te))
    <3>1. r.lo = 100 * l /\ r.hi = 100 * h
      BY DEF Hundredths
    <3> HIDE DEF r, l, h
    <3>2. r.lo \in Ends(r) /\ r.hi \in Ends(r) /\ (r.lo <= 0 /\ r.hi > 0 => 1 \in Ends(r))
      BY DEF Ends
    <3>3. l = 0 /\ h > 0 => r.lo <= 0 /\ r.hi > 0
      BY <2>1, <3>1
    <3> QED
      BY <3>1, <3>2, <3>3 DEF r
  <2>4. lo(s) = (IF n = 0 THEN 0 ELSE IF l = 0 THEN 1 ELSE 100 * l) /\ hi(s) = (IF n = 0 THEN 0 ELSE 100 * h)
    OBVIOUS
  <2> HIDE DEF l, h, lo, hi
  <2>5. n = 0 => l = 0
    BY <2>1, <2>2
  <2>6. n > 0 => h > 0
    BY <2>1, <2>2
  <2> QED
    BY <2>1, <2>2, <2>3, <2>4, <2>5, <2>6
<1>3. \A o : Lies(o) => W(o) \in Int
  <2> SUFFICES ASSUME NEW o, Lies(o) PROVE W(o) \in Int
    OBVIOUS
  <2>1. o \in [Sources(te, t) -> Nat]
    OBVIOUS
  <2>2. Sum(Fed(te, t, "mint", o, x)) \in Int /\ Sum(Fed(te, t, "burn", o, y)) \in Int
    BY <2>1, FedIs DEF BothEnds
  <2> QED
    BY <2>2 DEF Weigh
<1> SUFFICES ASSUME C # {} PROVE FALSE
  <2>1. Good(S)
    OBVIOUS
  <2>2. Fixed(own, S) /\ Lies(own)
    <3>1. own \in [S -> Nat]
      BY DEF Possible
    <3> QED
      BY <1>2, <3>1
  <2>3. PICK c : Corner(c) /\ W(own) <= W(c)
    <3> HIDE DEF C, W, Fixed, Lies, Corner, S
    <3> QED
      BY <2>1, <2>2
  <2>4. c \in [S -> Nat] /\ \A s \in S : c[s] = lo(s) \/ c[s] = hi(s)
    BY <2>3
  <2>5. AtEnds(te, t, c) /\ SameCreate(te, t, own, c)
    <3>1. ASSUME NEW s \in S PROVE c[s] \in Ends(Hundredths(OwnRate(s, te))) /\ (own[s] > 0 <=> c[s] > 0)
      <4>1. c[s] \in Nat /\ (c[s] = lo(s) \/ c[s] = hi(s))
        BY <2>4
      <4>2. own[s] = 0 => lo(s) = 0 /\ hi(s) = 0
        OBVIOUS
      <4> HIDE DEF lo, hi, S
      <4> QED
        BY <1>2, <4>1, <4>2
    <3> QED
      BY <2>4, <3>1 DEF AtEnds, SameCreate
  <2> QED
    BY <2>3, <2>5
<1>4. PICK A \in C : \A B \in C : B \subseteq A => B = A
  <2> HIDE DEF Good
  <2>1. C \subseteq SUBSET S
    OBVIOUS
  <2> HIDE DEF C, S
  <2> QED
    BY <1>1, <2>1, LeastSet
<1>5. PICK o : Lies(o) /\ Fixed(o, A) /\ ~ \E c : Corner(c) /\ W(o) <= W(c)
  OBVIOUS
<1>6. o \in [S -> Nat] /\ \A s \in S : lo(s) <= o[s] /\ o[s] <= hi(s)
  BY <1>5
<1>7. PICK s : s \in A
  <2>1. A = {} => Corner(o) /\ W(o) <= W(o)
    <3> HAVE A = {}
    <3>2. Corner(o)
      BY <1>5
    <3>3. W(o) \in Int
      BY <1>3, <1>5
    <3> HIDE DEF W, Corner
    <3> QED
      BY <3>2, <3>3
  <2> QED
    BY <1>5, <2>1
<1>8. s \in S /\ A \ {s} \in SUBSET S /\ Good(A \ {s})
  <2>1. s \in S /\ A \ {s} \in SUBSET S
    BY <1>7
  <2>2. A \ {s} \notin C
    BY <1>4, <1>7
  <2> HIDE DEF Good
  <2> QED
    BY <2>1, <2>2
<1> DEFINE ov(v) == With(o, s, v)
<1>9. PICK D \in Int, K \in Int : \A v \in Nat : W(ov(v)) = D + K * v
  <2>1. PICK D \in Int, K \in Int : Weighed(te, t, o, s, p, x, q, y, D, K)
    <3>1. o \in [Sources(te, t) -> Nat] /\ s \in Sources(te, t)
      BY <1>6, <1>8
    <3> HIDE DEF S, lo, hi, W, Fixed, Lies, Corner, Good, C, ov
    <3> QED
      BY <1>0, <3>1
  <2> QED
    BY <2>1 DEF Weighed
<1>10. \A v \in {lo(s), hi(s)} : Lies(ov(v)) /\ Fixed(ov(v), A \ {s})
  <2> SUFFICES ASSUME NEW v \in {lo(s), hi(s)} PROVE Lies(ov(v)) /\ Fixed(ov(v), A \ {s})
    OBVIOUS
  <2>1. v \in Nat /\ lo(s) <= v /\ v <= hi(s)
    BY <1>2, <1>8
  <2>2. ov(v) \in [S -> Nat] /\ ov(v)[s] = v /\ \A r \in S : r # s => ov(v)[r] = o[r]
    <3>1. o \in [S -> Nat] /\ s \in S /\ v \in Nat
      BY <1>6, <1>8, <2>1
    <3> HIDE DEF S, lo, hi, Lies, W, Fixed, Corner, Good, C
    <3> QED
      BY <3>1, WithIs
  <2> HIDE DEF ov
  <2>3. \A r \in S : lo(r) <= ov(v)[r] /\ ov(v)[r] <= hi(r)
    BY <1>6, <2>1, <2>2
  <2>4. Lies(ov(v))
    BY <2>2, <2>3
  <2>5. Fixed(ov(v), A \ {s})
    BY <1>5, <2>2
  <2> QED
    BY <2>4, <2>5
<1>11. \A v \in {lo(s), hi(s)} : \E c : Corner(c) /\ W(ov(v)) <= W(c)
  <2> HIDE DEF ov, W, Fixed, Lies, Corner
  <2> QED
    BY <1>8, <1>10
<1>12. W(o) = D + K * o[s] /\ o[s] \in Nat
  <2>1. ov(o[s]) = o /\ o[s] \in Nat
    BY <1>6, <1>8 DEF With
  <2> HIDE DEF ov, W
  <2> QED
    BY <1>9, <2>1
<1>13. PICK v \in {lo(s), hi(s)} : W(o) <= W(ov(v))
  <2>1. lo(s) \in Nat /\ hi(s) \in Nat /\ lo(s) <= o[s] /\ o[s] <= hi(s)
    BY <1>2, <1>6, <1>8
  <2>2. W(ov(lo(s))) = D + K * lo(s) /\ W(ov(hi(s))) = D + K * hi(s)
    BY <1>9, <2>1
  <2> DEFINE l == lo(s)
             m == hi(s)
             n == o[s]
             wl == W(ov(lo(s)))
             wm == W(ov(hi(s)))
             wn == W(o)
  <2>3. l \in Nat /\ m \in Nat /\ n \in Nat /\ l <= n /\ n <= m /\ wl = D + K * l /\ wm = D + K * m /\ wn = D + K * n
    BY <1>12, <2>1, <2>2
  <2> HIDE DEF l, m, n, wl, wm, wn
  <2>4. wn <= wl \/ wn <= wm
    <3>1. CASE K >= 0
      <4>1. n * K <= m * K /\ n * K \in Int /\ m * K \in Int
        <5>1. K \in Nat
          BY <3>1
        <5> QED
          BY <2>3, <5>1, InProportion
      <4>2. n * K = K * n /\ m * K = K * m
        BY <2>3
      <4> QED
        BY <2>3, <4>1, <4>2
    <3>2. CASE K < 0
      <4> DEFINE J == -K
      <4>1. J \in Nat
        BY <3>2
      <4>2. K * l = -(l * J) /\ K * n = -(n * J)
        BY <2>3
      <4> HIDE DEF J
      <4>3. l * J <= n * J /\ l * J \in Int /\ n * J \in Int
        BY <2>3, <4>1, InProportion
      <4> QED
        BY <2>3, <4>2, <4>3
    <3> QED
      BY <3>1, <3>2
  <2> QED
    BY <2>4 DEF wl, wm, wn
<1>14. PICK c : Corner(c) /\ W(ov(v)) <= W(c)
  BY <1>11
<1>15. W(o) \in Int /\ W(ov(v)) \in Int /\ W(c) \in Int
  <2>1. Lies(ov(v)) /\ Lies(c)
    BY <1>10, <1>14
  <2> HIDE DEF W, ov, Lies
  <2> QED
    BY <1>3, <1>5, <2>1
<1> HIDE DEF W, ov, Corner
<1>16. W(o) <= W(c)
  BY <1>13, <1>14, <1>15
<1> QED
  BY <1>5, <1>14, <1>16

------------------------------------------------------------------------------
(* No rate comes to fall below zero.                                       *)
LEMMA BelowZeroBefore ==
  ASSUME NEW te, NEW u, Sharper(te, u), NEW fn, FnFormed(te, fn)
  PROVE  (Negative(u, fn) => Negative(te, fn)) /\ (BelowZero(u, fn) => BelowZero(te, fn))
<1>1. CASE fn.family = "opaque"
  BY <1>1 DEF Negative, BelowZero
<1>2. CASE fn.family \in {"linear", "polynomial"}
  <2> DEFINE a == te.span[fn.a].lo
             b == te.span[fn.b].lo
             c == u.span[fn.a].lo
             d == u.span[fn.b].lo
  <2>1. Inside(te.span[fn.a], u.span[fn.a]) /\ Inside(te.span[fn.b], u.span[fn.b])
    BY <1>2, SpanInside DEF FnFormed, Affine
  <2>2. a \in Int /\ b \in Int /\ c \in Int /\ d \in Int /\ a <= c /\ b <= d
    BY <2>1 DEF Inside, Ordered
  <2>3. Rise(fn) \in Nat
    BY <1>2, SlopeIs
  <2>4. /\ Negative(te, fn) <=> \E x \in {0, Rise(fn)} : a * x + b < 0
        /\ Negative(u, fn) <=> \E x \in {0, Rise(fn)} : c * x + d < 0
        /\ (BelowZero(te, fn) <=> Negative(te, fn)) /\ (BelowZero(u, fn) <=> Negative(u, fn))
    BY <1>2 DEF Negative, BelowZero
  <2> HIDE DEF a, b, c, d
  <2>5. ASSUME NEW x \in {0, Rise(fn)}, c * x + d < 0 PROVE a * x + b < 0
    <3>1. x \in Nat
      BY <2>3
    <3>2. a * x <= c * x /\ a * x \in Int /\ c * x \in Int
      BY <2>2, <3>1, InProportion
    <3> QED
      BY <2>2, <2>5, <3>2
  <2> QED
    BY <2>4, <2>5
<1>3. CASE fn.family \notin {"opaque", "linear", "polynomial"}
  <2>1. Inside(te.span[fn.a], u.span[fn.a])
    BY <1>3, SpanInside DEF FnFormed, Affine
  <2>2. u.span[fn.a].lo < 0 => te.span[fn.a].lo < 0
    BY <2>1 DEF Inside, Ordered
  <2> QED
    BY <1>3, <2>2 DEF Negative, BelowZero
<1> QED
  BY <1>1, <1>2, <1>3

(* A frequency from the catalogue that may be negative was so before.      *)
LEMMA FrequencyBefore ==
  ASSUME NEW te, NEW u, Sharper(te, u), NEW p \in DOMAIN te.span, u.span[p].lo < 0
  PROVE  te.span[p].lo < 0
  BY SpanInside DEF Inside, Ordered

(* An impossible rate was impossible before.                               *)
LEMMA ImpossibleBefore ==
  ASSUME NEW te, NEW u, Sharper(te, u), NEW t \in te.tokens, Impossible(u, t)
  PROVE  Impossible(te, t)
<1>1. u.token = te.token
  BY SameShape DEF Sharper
<1>2. PICK r \in Range(te.token[t].emits) \cup Range(te.token[t].burns) :
        \/ Negative(u, r.fn)
        \/ r.event # None /\ Resolve(r, u).freq # None /\ u.span[Resolve(r, u).freq].lo < 0
  BY <1>1 DEF Impossible
<1>3. RuleFormed(te, r)
  BY DEF Sharper, Formed, TokenFormed
<1>4. FnFormed(te, r.fn)
  BY <1>3 DEF RuleFormed, Fns
<1>5. CASE Negative(u, r.fn)
  BY <1>4, <1>5, BelowZeroBefore DEF Impossible
<1>6. CASE r.event # None /\ Resolve(r, u).freq # None /\ u.span[Resolve(r, u).freq].lo < 0
  <2>1. Resolve(r, u) = Resolve(r, te)
    BY ResolveSame
  <2>2. Resolve(r, te).freq \in DOMAIN te.span
    BY <1>3, <1>6, <2>1 DEF RuleFormed
  <2>3. te.span[Resolve(r, te).freq].lo < 0
    BY <1>6, <2>1, <2>2, FrequencyBefore
  <2> QED
    BY <1>6, <2>1, <2>3 DEF Impossible
<1> QED
  BY <1>2, <1>5, <1>6

(* A rate that may fall below zero might before.                           *)
LEMMA MayFallBefore ==
  ASSUME NEW te, NEW u, Sharper(te, u), NEW t \in te.tokens, MayFallBelow(u, t)
  PROVE  MayFallBelow(te, t)
<1>1. u.token = te.token /\ u.flows = te.flows
  BY SameShape DEF Sharper
<1>2. CASE \E r \in Range(te.token[t].emits) \cup Range(te.token[t].burns) : \E fn \in Fns(r) : BelowZero(u, fn)
  <2>1. PICK r \in Range(te.token[t].emits) \cup Range(te.token[t].burns) : \E fn \in Fns(r) : BelowZero(u, fn)
    BY <1>2
  <2>2. PICK fn \in Fns(r) : BelowZero(u, fn)
    BY <2>1
  <2>3. FnFormed(te, fn)
    BY DEF Sharper, Formed, TokenFormed, RuleFormed
  <2>4. BelowZero(te, fn)
    BY <2>2, <2>3, BelowZeroBefore
  <2> QED
    BY <2>4 DEF MayFallBelow
<1>3. CASE \E f \in Range(te.flows) : f.dst = t /\
             IF f.ratio = None THEN BelowZero(u, f.amount)
             ELSE \E r \in Range(te.token[f.src].emits) : BelowZero(u, r.fn) \/ (r.freq # None /\ u.span[r.freq].lo < 0)
  <2>1. PICK f \in Range(te.flows) : f.dst = t /\
             IF f.ratio = None THEN BelowZero(u, f.amount)
             ELSE \E r \in Range(te.token[f.src].emits) : BelowZero(u, r.fn) \/ (r.freq # None /\ u.span[r.freq].lo < 0)
    BY <1>3
  <2>2. f.src \in te.tokens /\ (f.ratio = None => FnFormed(te, f.amount))
    BY DEF Sharper, Formed, FlowFormed
  <2>3. CASE f.ratio = None
    <3>1. BelowZero(te, f.amount)
      BY <2>1, <2>2, <2>3, BelowZeroBefore
    <3> QED
      BY <2>1, <2>3, <3>1 DEF MayFallBelow
  <2>4. CASE f.ratio # None
    <3>1. PICK r \in Range(te.token[f.src].emits) : BelowZero(u, r.fn) \/ (r.freq # None /\ u.span[r.freq].lo < 0)
      BY <2>1, <2>4
    <3>2. RuleFormed(te, r)
      BY <2>2 DEF Sharper, Formed, TokenFormed
    <3>3. FnFormed(te, r.fn) /\ (r.freq # None => r.freq \in DOMAIN te.span)
      BY <3>2 DEF RuleFormed, Fns
    <3>4. BelowZero(u, r.fn) => BelowZero(te, r.fn)
      BY <3>3, BelowZeroBefore
    <3>5. r.freq # None /\ u.span[r.freq].lo < 0 => te.span[r.freq].lo < 0
      BY <3>3, FrequencyBefore
    <3>6. BelowZero(te, r.fn) \/ (r.freq # None /\ te.span[r.freq].lo < 0)
      BY <3>1, <3>4, <3>5
    <3> QED
      BY <2>1, <2>4, <3>6 DEF MayFallBelow
  <2> QED
    BY <2>3, <2>4
<1> QED
  BY <1>1, <1>2, <1>3 DEF MayFallBelow

(* So amounts stay amounts.                                                *)
LEMMA AmountsStay ==
  ASSUME NEW te, NEW u, Sharper(te, u), NEW t, Amounts(te, t)
  PROVE  Amounts(u, t)
<1>1. t \in te.tokens /\ u.tokens = te.tokens
  BY SameShape DEF Sharper, Amounts
<1> QED
  BY <1>1, MayFallBefore, ImpossibleBefore DEF Sharper, Amounts

------------------------------------------------------------------------------
(* The two sides of a token, narrowed                                      *)
LEMMA RulesInside ==
  ASSUME NEW te, NEW u, Sharper(te, u), NEW t, Amounts(te, t),
         NEW rules, rules \in {te.token[t].emits, te.token[t].burns}, NEW i \in DOMAIN rules
  PROVE  RuleFormed(te, rules[i]) /\ Inside(RuleRate(rules[i], te), RuleRate(rules[i], u)) /\ RuleRate(rules[i], te).lo >= 0
<1> DEFINE r == rules[i]
<1>1. t \in te.tokens /\ u.tokens = te.tokens /\ u.token = te.token
  BY SameShape DEF Sharper, Amounts
<1>2. RuleFormed(te, r) /\ r \in Range(rules)
  BY <1>1, TokenIsFormed DEF Amounts
<1>3. RuleFormed(u, r)
  BY <1>1, TokenIsFormed DEF Sharper
<1>4. r \in Range(te.token[t].emits) \cup Range(te.token[t].burns)
  BY <1>2
<1> HIDE DEF r
<1>5. \A fn \in Fns(r) : ~BelowZero(te, fn)
  BY <1>4 DEF Amounts, MayFallBelow
<1>6. r.event # None /\ Resolve(r, te).freq # None => ~(te.span[Resolve(r, te).freq].lo < 0)
  BY <1>4 DEF Amounts, Impossible
<1>7. Inside(RuleRate(r, te), RuleRate(r, u)) /\ RuleRate(r, te).lo >= 0
  BY <1>2, <1>3, <1>5, <1>6, RuleRateInside
<1> QED
  BY <1>2, <1>7 DEF r

(* What the same rules create or remove in sum, narrowed.                  *)
LEMMA RuledInside ==
  ASSUME NEW te, NEW u, Sharper(te, u), NEW t, Amounts(te, t),
         NEW rules, rules \in {te.token[t].emits, te.token[t].burns}, NEW side
  PROVE  /\ \A end \in BothEnds : /\ Sum(Ruled(te, rules, side, end)) \in Int /\ Sum(Ruled(u, rules, side, end)) \in Int
                                  /\ Sum(Ruled(te, rules, side, end)) >= 0 /\ Sum(Ruled(u, rules, side, end)) >= 0
         /\ Sum(Ruled(u, rules, side, "lo")) <= Sum(Ruled(u, rules, side, "hi"))
         /\ Counted(u, rules, side) \subseteq Counted(te, rules, side) =>
              Sum(Ruled(u, rules, side, "hi")) <= Sum(Ruled(te, rules, side, "hi"))
         /\ Counted(te, rules, side) \subseteq Counted(u, rules, side) =>
              Sum(Ruled(te, rules, side, "lo")) <= Sum(Ruled(u, rules, side, "lo"))
<1> DEFINE S == DOMAIN rules
           C == Counted(te, rules, side)
           D == Counted(u, rules, side)
           a == Ruled(te, rules, side, "lo")
           b == Ruled(u, rules, side, "lo")
           c == Ruled(u, rules, side, "hi")
           d == Ruled(te, rules, side, "hi")
<1>1. IsFiniteSet(S) /\ C \subseteq S /\ D \subseteq S
  BY TokenIsFormed DEF Amounts, Counted
<1>2. DOMAIN a = C /\ DOMAIN d = C /\ DOMAIN b = D /\ DOMAIN c = D
  BY DEF Ruled
<1>3. /\ \A i \in C : a[i] = RuleRate(rules[i], te).lo /\ d[i] = RuleRate(rules[i], te).hi
      /\ \A i \in D : b[i] = RuleRate(rules[i], u).lo /\ c[i] = RuleRate(rules[i], u).hi
  BY DEF Ruled
<1>4. \A i \in S : /\ Inside(RuleRate(rules[i], te), RuleRate(rules[i], u))
                   /\ RuleRate(rules[i], te).lo >= 0
  BY RulesInside
<1>5. /\ \A i \in C : a[i] \in Int /\ d[i] \in Int /\ a[i] >= 0 /\ d[i] >= 0
      /\ \A i \in D : b[i] \in Int /\ c[i] \in Int /\ b[i] >= 0 /\ c[i] >= 0 /\ b[i] <= c[i]
      /\ \A i \in C : i \in D => a[i] <= b[i] /\ c[i] <= d[i]
  BY <1>1, <1>3, <1>4 DEF Inside, Ordered
<1> HIDE DEF S, C, D, a, b, c, d
<1>6. IsFiniteSet(C) /\ IsFiniteSet(D)
  BY <1>1, FS_Subset
<1>7. Sum(a) \in Int /\ Sum(a) >= 0
  BY <1>2, <1>5, <1>6, SumOfNothing
<1>8. Sum(b) \in Int /\ Sum(b) >= 0
  BY <1>2, <1>5, <1>6, SumOfNothing
<1>9. Sum(c) \in Int /\ Sum(c) >= 0
  BY <1>2, <1>5, <1>6, SumOfNothing
<1>10. Sum(d) \in Int /\ Sum(d) >= 0
  BY <1>2, <1>5, <1>6, SumOfNothing
<1>11. Sum(b) <= Sum(c)
  BY <1>2, <1>5, <1>6, SumsInOrder
<1>12. ASSUME D \subseteq C PROVE Sum(c) <= Sum(d)
  <2>1. \A i \in S : Term(c, i) <= Term(d, i)
    BY <1>2, <1>5, <1>12 DEF Term
  <2> QED
    BY <1>1, <1>2, <1>5, <2>1, SumGrows
<1>13. ASSUME C \subseteq D PROVE Sum(a) <= Sum(b)
  <2>1. \A i \in S : Term(a, i) <= Term(b, i)
    BY <1>2, <1>5, <1>13 DEF Term
  <2> QED
    BY <1>1, <1>2, <1>5, <2>1, SumGrows
<1> QED
  BY <1>7, <1>8, <1>9, <1>10, <1>11, <1>12, <1>13 DEF a, b, c, d, C, D, BothEnds

(* Fewer rules of creation are counted after narrowing and more of         *)
(* removal, and the same ones where all are certain.                       *)
LEMMA CountedSharper ==
  ASSUME NEW te, NEW u, Sharper(te, u), NEW t, Amounts(te, t)
  PROVE  /\ Counted(u, te.token[t].emits, "emission") \subseteq Counted(te, te.token[t].emits, "emission")
         /\ Counted(te, te.token[t].burns, "burn") \subseteq Counted(u, te.token[t].burns, "burn")
         /\ Certain(te, t) =>
              /\ Counted(u, te.token[t].emits, "emission") = Counted(te, te.token[t].emits, "emission")
              /\ Counted(te, te.token[t].burns, "burn") = Counted(u, te.token[t].burns, "burn")
<1>1. \A i \in DOMAIN te.token[t].emits : /\ RuleFormed(te, te.token[t].emits[i])
                                          /\ te.token[t].emits[i] \in Range(te.token[t].emits)
  BY TokenIsFormed DEF Amounts
<1>2. \A i \in DOMAIN te.token[t].burns : /\ RuleFormed(te, te.token[t].burns[i])
                                          /\ te.token[t].burns[i] \in Range(te.token[t].burns)
  BY TokenIsFormed DEF Amounts
<1>3. ASSUME NEW i \in DOMAIN te.token[t].emits
      PROVE  /\ Contributes(te.token[t].emits[i], u, "emission") => Contributes(te.token[t].emits[i], te, "emission")
             /\ Certain(te, t) => (Contributes(te.token[t].emits[i], u, "emission") <=> Contributes(te.token[t].emits[i], te, "emission"))
  BY <1>1, ContributesSharper DEF Certain
<1>4. ASSUME NEW i \in DOMAIN te.token[t].burns
      PROVE  /\ Contributes(te.token[t].burns[i], te, "burn") => Contributes(te.token[t].burns[i], u, "burn")
             /\ Certain(te, t) => (Contributes(te.token[t].burns[i], u, "burn") <=> Contributes(te.token[t].burns[i], te, "burn"))
  BY <1>2, ContributesSharper DEF Certain
<1>5. /\ Counted(u, te.token[t].emits, "emission") \subseteq Counted(te, te.token[t].emits, "emission")
      /\ Certain(te, t) => Counted(u, te.token[t].emits, "emission") = Counted(te, te.token[t].emits, "emission")
  BY <1>3 DEF Counted
<1>6. /\ Counted(te, te.token[t].burns, "burn") \subseteq Counted(u, te.token[t].burns, "burn")
      /\ Certain(te, t) => Counted(te, te.token[t].burns, "burn") = Counted(u, te.token[t].burns, "burn")
  BY <1>4 DEF Counted
<1> QED
  BY <1>5, <1>6

(* What is created and what is removed per period when sources create own. *)
Created(te, t, own) == Side(te, t, te.token[t].emits, "emission", "mint", own)
Removed(te, t, own) == Side(te, t, te.token[t].burns, "burn", "burn", own)

(* For the same creation of the sources, no more is created than before    *)
(* and no less removed; where all is certain, both are narrowed.           *)
LEMMA SidesInside ==
  ASSUME NEW te, NEW u, Sharper(te, u), NEW t, Amounts(te, t), NEW own \in [Sources(te, t) -> Nat]
  PROVE  /\ Ordered(Created(u, t, own)) /\ Created(u, t, own).lo >= 0
         /\ Ordered(Removed(u, t, own)) /\ Removed(u, t, own).lo >= 0
         /\ Created(u, t, own).hi <= Created(te, t, own).hi
         /\ Removed(te, t, own).lo <= Removed(u, t, own).lo
         /\ Certain(te, t) => /\ Created(te, t, own).lo <= Created(u, t, own).lo
                                 /\ Removed(u, t, own).hi <= Removed(te, t, own).hi
<1> DEFINE es == te.token[t].emits
           bs == te.token[t].burns
           re(x, end) == Sum(Ruled(x, es, "emission", end))
           rb(x, end) == Sum(Ruled(x, bs, "burn", end))
           fe(x, end) == Sum(Fed(x, t, "mint", own, end))
           fb(x, end) == Sum(Fed(x, t, "burn", own, end))
<1>0. Amounts(u, t) /\ own \in [Sources(u, t) -> Nat] /\ u.token = te.token
  BY AmountsStay, SourcesSame, SameShape DEF Sharper
<1>1. /\ Created(te, t, own).lo = 100 * re(te, "lo") + fe(te, "lo")
      /\ Created(te, t, own).hi = 100 * re(te, "hi") + fe(te, "hi")
  BY SideIs DEF Created
<1>2. /\ Created(u, t, own).lo = 100 * re(u, "lo") + fe(u, "lo")
      /\ Created(u, t, own).hi = 100 * re(u, "hi") + fe(u, "hi")
  BY <1>0, SideIs DEF Created
<1>3. /\ Removed(te, t, own).lo = 100 * rb(te, "lo") + fb(te, "lo")
      /\ Removed(te, t, own).hi = 100 * rb(te, "hi") + fb(te, "hi")
  BY SideIs DEF Removed
<1>4. /\ Removed(u, t, own).lo = 100 * rb(u, "lo") + fb(u, "lo")
      /\ Removed(u, t, own).hi = 100 * rb(u, "hi") + fb(u, "hi")
  BY <1>0, SideIs DEF Removed
<1>5. /\ fe(te, "lo") <= fe(u, "lo") /\ fe(u, "lo") <= fe(u, "hi") /\ fe(u, "hi") <= fe(te, "hi")
  BY <1>0, FedInside
<1>6. /\ fb(te, "lo") <= fb(u, "lo") /\ fb(u, "lo") <= fb(u, "hi") /\ fb(u, "hi") <= fb(te, "hi")
  BY <1>0, FedInside
<1>7. \A end \in {"lo", "hi"} : /\ fe(te, end) \in Int /\ fe(te, end) >= 0
                                /\ fb(te, end) \in Int /\ fb(te, end) >= 0
  BY FedIs
<1>8. \A end \in {"lo", "hi"} : /\ fe(u, end) \in Int /\ fe(u, end) >= 0
                                /\ fb(u, end) \in Int /\ fb(u, end) >= 0
  BY <1>0, FedIs
<1>9. /\ \A end \in BothEnds : re(te, end) \in Int /\ re(u, end) \in Int /\ re(te, end) >= 0 /\ re(u, end) >= 0
      /\ re(u, "lo") <= re(u, "hi") /\ re(u, "hi") <= re(te, "hi")
      /\ Certain(te, t) => re(te, "lo") <= re(u, "lo")
  BY CountedSharper, RuledInside
<1>10. /\ \A end \in BothEnds : rb(te, end) \in Int /\ rb(u, end) \in Int /\ rb(te, end) >= 0 /\ rb(u, end) >= 0
       /\ rb(u, "lo") <= rb(u, "hi") /\ rb(te, "lo") <= rb(u, "lo")
       /\ Certain(te, t) => rb(u, "hi") <= rb(te, "hi")
  BY CountedSharper, RuledInside
<1> HIDE DEF re, rb, fe, fb
<1>11. "lo" \in BothEnds /\ "hi" \in BothEnds
  BY DEF BothEnds
<1>12. /\ Created(u, t, own).lo \in Int /\ Created(u, t, own).hi \in Int /\ Created(u, t, own).lo <= Created(u, t, own).hi
       /\ Created(u, t, own).lo >= 0 /\ Created(u, t, own).hi <= Created(te, t, own).hi
       /\ Certain(te, t) => Created(te, t, own).lo <= Created(u, t, own).lo
  BY <1>1, <1>2, <1>5, <1>7, <1>8, <1>9, <1>11
<1>13. /\ Removed(u, t, own).lo \in Int /\ Removed(u, t, own).hi \in Int /\ Removed(u, t, own).lo <= Removed(u, t, own).hi
       /\ Removed(u, t, own).lo >= 0 /\ Removed(te, t, own).lo <= Removed(u, t, own).lo
       /\ Certain(te, t) => Removed(u, t, own).hi <= Removed(te, t, own).hi
  BY <1>3, <1>4, <1>6, <1>7, <1>8, <1>10, <1>11
<1> QED
  BY <1>12, <1>13 DEF Ordered

------------------------------------------------------------------------------
(* What a check looks at, before and after                                 *)
LEMMA EndsIn ==
  ASSUME NEW r, Ordered(r), NEW x \in Ends(r)
  PROVE  x \in Int /\ r.lo <= x /\ x <= r.hi
  BY DEF Ends, Ordered

(* A balance is a choice of what the sources create with ends of the two   *)
(* sides, and both of its amounts are whole.                               *)
LEMMA BalanceIs ==
  ASSUME NEW te, NEW t, Amounts(te, t), NEW eb \in Balances(te, t)
  PROVE  \E own : /\ Possible(te, t, own)
                  /\ eb[1] \in Int /\ Created(te, t, own).lo <= eb[1] /\ eb[1] <= Created(te, t, own).hi
                  /\ eb[2] \in Int /\ Removed(te, t, own).lo <= eb[2] /\ eb[2] <= Removed(te, t, own).hi
<1> DEFINE S       == Sources(te, t)
           reach   == [s \in S |-> Ends(Hundredths(OwnRate(s, te)))]
           owns    == {own \in [S -> UNION {reach[s] : s \in S}] : \A s \in S : own[s] \in reach[s]}
           E(o) == Ends(Created(te, t, o))
           B(o) == Ends(Removed(te, t, o))
<1>1. Balances(te, t) = UNION {E(o) \X B(o) : o \in owns}
  BY DEF Balances, Sources, Created, Removed
<1>2. PICK own \in owns : eb \in E(own) \X B(own)
  <2> HIDE DEF owns, E, B
  <2> QED
    BY <1>1
<1>3. \A s \in S : own[s] \in Nat /\ 100 * OwnRate(s, te).lo <= own[s] /\ own[s] <= 100 * OwnRate(s, te).hi
  <2> SUFFICES ASSUME NEW s \in S
               PROVE own[s] \in Nat /\ 100 * OwnRate(s, te).lo <= own[s] /\ own[s] <= 100 * OwnRate(s, te).hi
    OBVIOUS
  <2>1. own[s] \in Ends(Hundredths(OwnRate(s, te)))
    BY <1>2
  <2>2. Ordered(OwnRate(s, te)) /\ OwnRate(s, te).lo >= 0
    BY OwnIs
  <2>3. Ordered(Hundredths(OwnRate(s, te))) /\ Hundredths(OwnRate(s, te)).lo >= 0
    BY <2>2 DEF Ordered, Hundredths
  <2>4. own[s] \in Int /\ Hundredths(OwnRate(s, te)).lo <= own[s] /\ own[s] <= Hundredths(OwnRate(s, te)).hi
    BY <2>1, <2>3, EndsIn
  <2> QED
    BY <2>2, <2>3, <2>4 DEF Hundredths, Ordered
<1>4. Possible(te, t, own)
  <2>1. own \in [S -> Nat]
    BY <1>2, <1>3
  <2> QED
    BY <1>3, <2>1 DEF Possible
<1>5. eb[1] \in E(own) /\ eb[2] \in B(own)
  <2> HIDE DEF E, B
  <2> QED
    BY <1>2
<1>6. Ordered(Created(te, t, own)) /\ Ordered(Removed(te, t, own))
  BY <1>4, SharperSelf, SidesInside DEF Amounts, Possible
<1>7. /\ eb[1] \in Int /\ Created(te, t, own).lo <= eb[1] /\ eb[1] <= Created(te, t, own).hi
      /\ eb[2] \in Int /\ Removed(te, t, own).lo <= eb[2] /\ eb[2] <= Removed(te, t, own).hi
  BY <1>5, <1>6, EndsIn
<1> QED
  BY <1>4, <1>7

(* Of a choice at the ends of what the sources create, or just above zero, *)
(* each pair of the sides' ends is a balance.                              *)
LEMMA CornerIsChecked ==
  ASSUME NEW te, NEW t, Amounts(te, t), NEW own, AtEnds(te, t, own),
         NEW e \in Ends(Created(te, t, own)), NEW b \in Ends(Removed(te, t, own))
  PROVE  <<e, b>> \in Balances(te, t)
<1> DEFINE S       == Sources(te, t)
           reach   == [s \in S |-> Ends(Hundredths(OwnRate(s, te)))]
           owns    == {o \in [S -> UNION {reach[s] : s \in S}] : \A s \in S : o[s] \in reach[s]}
           E(o) == Ends(Created(te, t, o))
           B(o) == Ends(Removed(te, t, o))
<1>1. Balances(te, t) = UNION {E(o) \X B(o) : o \in owns}
  BY DEF Balances, Sources, Created, Removed
<1>2. own \in owns
  <2>1. \A s \in S : own[s] \in reach[s]
    BY DEF AtEnds
  <2>2. own \in [S -> Nat]
    BY DEF AtEnds
  <2> HIDE DEF reach, S
  <2> QED
    BY <2>1, <2>2
<1>3. e \in E(own) /\ b \in B(own)
  OBVIOUS
<1> HIDE DEF owns, E, B
<1> QED
  BY <1>1, <1>2, <1>3

(* Weighing what is created against what is removed: the wider design has  *)
(* a corner at which at least as much is created for what is removed.      *)
Exceeded(te, t, eb, p, q) ==
  \E e \in Nat, b \in Nat : <<e, b>> \in Balances(te, t) /\ p * eb[1] - q * eb[2] <= p * e - q * b
(* A balance after narrowing weighs no more than some balance before: by   *)
(* CornerReached the sources may be taken to be at theirs.                 *)
LEMMA WorstAtCorner ==
  ASSUME NEW te, NEW u, Sharper(te, u), NEW t, Amounts(te, t), NEW eb \in Balances(u, t),
         NEW p \in Nat, NEW q \in Nat
  PROVE  /\ eb[1] \in Int /\ eb[2] \in Int /\ eb[1] >= 0 /\ eb[2] >= 0
         /\ Exceeded(te, t, eb, p, q)
<1>1. PICK own : /\ Possible(u, t, own)
                 /\ eb[1] \in Int /\ Created(u, t, own).lo <= eb[1] /\ eb[1] <= Created(u, t, own).hi
                 /\ eb[2] \in Int /\ Removed(u, t, own).lo <= eb[2] /\ eb[2] <= Removed(u, t, own).hi
  BY AmountsStay, BalanceIs
<1>2. Possible(te, t, own) /\ own \in [Sources(te, t) -> Nat]
  BY <1>1, PossibleBefore DEF Possible
<1>3. /\ Ordered(Created(u, t, own)) /\ Created(u, t, own).lo >= 0
      /\ Ordered(Removed(u, t, own)) /\ Removed(u, t, own).lo >= 0
      /\ Created(u, t, own).hi <= Created(te, t, own).hi
      /\ Removed(te, t, own).lo <= Removed(u, t, own).lo
  BY <1>2, SidesInside
<1>4. PICK c : AtEnds(te, t, c) /\ Weigh(te, t, own, p, "hi", -q, "lo") <= Weigh(te, t, c, p, "hi", -q, "lo")
  <2>1. -q \in Int /\ "hi" \in BothEnds /\ "lo" \in BothEnds
    BY DEF BothEnds
  <2> QED
    BY <1>2, <2>1, CornerReached
<1>5. c \in [Sources(te, t) -> Nat]
  BY <1>4 DEF AtEnds
<1> DEFINE R == 100 * Sum(Ruled(te, te.token[t].emits, "emission", "hi"))
           T == 100 * Sum(Ruled(te, te.token[t].burns, "burn", "lo"))
           fe(o) == Sum(Fed(te, t, "mint", o, "hi"))
           fb(o) == Sum(Fed(te, t, "burn", o, "lo"))
           e == Created(te, t, c).hi
           b == Removed(te, t, c).lo
<1>6. /\ Created(te, t, own).hi = R + fe(own) /\ Removed(te, t, own).lo = T + fb(own)
      /\ e = R + fe(c) /\ b = T + fb(c)
  BY SideIs DEF Created, Removed
<1>7. R \in Int /\ T \in Int
  BY SharperSelf, RuledInside DEF Amounts, BothEnds
<1>8. fe(own) \in Int /\ fb(own) \in Int /\ fe(c) \in Int /\ fb(c) \in Int
  BY <1>2, <1>5, FedIs
<1>9. p * fe(own) + (-q) * fb(own) <= p * fe(c) + (-q) * fb(c)
  BY <1>4 DEF Weigh
<1>10. e \in Nat /\ b \in Nat
  <2>1. /\ Ordered(Created(te, t, c)) /\ Created(te, t, c).lo >= 0
        /\ Ordered(Removed(te, t, c)) /\ Removed(te, t, c).lo >= 0
    BY <1>5, SharperSelf, SidesInside DEF Amounts
  <2> QED
    BY <2>1 DEF Ordered
<1>11. <<e, b>> \in Balances(te, t)
  BY <1>4, CornerIsChecked DEF Ends
<1> DEFINE x == eb[1]
           y == eb[2]
           xo == Created(te, t, own).hi
           yo == Removed(te, t, own).lo
           fo == fe(own)
           go == fb(own)
           fc == fe(c)
           gc == fb(c)
<1>15. x \in Nat /\ y \in Nat /\ x <= xo /\ yo <= y
  <2>1. /\ eb[1] \in Int /\ Created(u, t, own).lo <= eb[1] /\ eb[1] <= Created(u, t, own).hi
        /\ eb[2] \in Int /\ Removed(u, t, own).lo <= eb[2] /\ eb[2] <= Removed(u, t, own).hi
    BY <1>1
  <2>2. xo \in Int /\ yo \in Int
    BY <1>6, <1>7, <1>8
  <2> QED
    BY <1>3, <2>1, <2>2 DEF Ordered
<1>16. xo = R + fo /\ yo = T + go /\ e = R + fc /\ b = T + gc
  BY <1>6
<1>17. /\ fo \in Int /\ go \in Int /\ fc \in Int /\ gc \in Int
       /\ p * fo + (-q) * go <= p * fc + (-q) * gc
  BY <1>8, <1>9
<1> HIDE DEF x, y, xo, yo, fo, go, fc, gc, e, b, R, T
<1>12. /\ x \in Nat /\ y \in Nat /\ x <= xo /\ yo <= y /\ xo = R + fo /\ yo = T + go /\ e = R + fc /\ b = T + gc
       /\ fo \in Int /\ go \in Int /\ fc \in Int /\ gc \in Int
       /\ p * fo + (-q) * go <= p * fc + (-q) * gc
  BY <1>15, <1>16, <1>17
<1>13. p * x - q * y <= p * e - q * b
  <2>1. xo \in Int /\ yo \in Int
    BY <1>7, <1>12
  <2>2. x * p <= xo * p /\ x * p \in Int /\ xo * p \in Int
    BY <1>12, <2>1, InProportion
  <2>3. yo * q <= y * q /\ yo * q \in Int /\ y * q \in Int
    BY <1>12, <2>1, InProportion
  <2>4. x * p = p * x /\ xo * p = p * R + p * fo /\ y * q = q * y /\ yo * q = q * T + q * go
    BY <1>7, <1>12
  <2>5. p * e = p * R + p * fc /\ q * b = q * T + q * gc
    BY <1>7, <1>12
  <2>6. (-q) * go = -(q * go) /\ (-q) * gc = -(q * gc)
    BY <1>12
  <2>7. /\ p * R \in Int /\ p * fo \in Int /\ q * T \in Int /\ q * go \in Int /\ p * fc \in Int /\ q * gc \in Int
    BY <1>7, <1>12
  <2> QED
    BY <1>12, <2>2, <2>3, <2>4, <2>5, <2>6, <2>7
<1>14. /\ eb[1] \in Int /\ eb[2] \in Int /\ eb[1] >= 0 /\ eb[2] >= 0
  BY <1>12 DEF x, y
<1>18. Exceeded(te, t, eb, p, q)
  BY <1>10, <1>11, <1>13 DEF x, y, Exceeded
<1> QED
  BY <1>14, <1>18

(* Where every rule fires for certain, it also has one at which at most as *)
(* much is created for what is removed.                                    *)
Undercut(te, t, eb, p, q) ==
  \E e \in Nat, b \in Nat : <<e, b>> \in Balances(te, t) /\ p * e - q * b <= p * eb[1] - q * eb[2]
(* And no less than some other, where all is certain.                      *)
LEMMA LeastAtCorner ==
  ASSUME NEW te, NEW u, Sharper(te, u), NEW t, Amounts(te, t), Certain(te, t), NEW eb \in Balances(u, t),
         NEW p \in Nat, NEW q \in Nat
  PROVE  Undercut(te, t, eb, p, q)
<1>1. PICK own : /\ Possible(u, t, own)
                 /\ eb[1] \in Int /\ Created(u, t, own).lo <= eb[1] /\ eb[1] <= Created(u, t, own).hi
                 /\ eb[2] \in Int /\ Removed(u, t, own).lo <= eb[2] /\ eb[2] <= Removed(u, t, own).hi
  BY AmountsStay, BalanceIs
<1>2. Possible(te, t, own) /\ own \in [Sources(te, t) -> Nat]
  BY <1>1, PossibleBefore DEF Possible
<1>3. /\ Ordered(Created(u, t, own)) /\ Created(u, t, own).lo >= 0
      /\ Ordered(Removed(u, t, own)) /\ Removed(u, t, own).lo >= 0
      /\ Created(te, t, own).lo <= Created(u, t, own).lo
      /\ Removed(u, t, own).hi <= Removed(te, t, own).hi
  BY <1>2, SidesInside
<1>4. PICK c : AtEnds(te, t, c) /\ Weigh(te, t, own, -p, "lo", q, "hi") <= Weigh(te, t, c, -p, "lo", q, "hi")
  <2>1. -p \in Int /\ "hi" \in BothEnds /\ "lo" \in BothEnds
    BY DEF BothEnds
  <2> QED
    BY <1>2, <2>1, CornerReached
<1>5. c \in [Sources(te, t) -> Nat]
  BY <1>4 DEF AtEnds
<1> DEFINE R == 100 * Sum(Ruled(te, te.token[t].emits, "emission", "lo"))
           T == 100 * Sum(Ruled(te, te.token[t].burns, "burn", "hi"))
           fe(o) == Sum(Fed(te, t, "mint", o, "lo"))
           fb(o) == Sum(Fed(te, t, "burn", o, "hi"))
           e == Created(te, t, c).lo
           b == Removed(te, t, c).hi
<1>6. /\ Created(te, t, own).lo = R + fe(own) /\ Removed(te, t, own).hi = T + fb(own)
      /\ e = R + fe(c) /\ b = T + fb(c)
  BY SideIs DEF Created, Removed
<1>7. R \in Int /\ T \in Int
  BY SharperSelf, RuledInside DEF Amounts, BothEnds
<1>8. fe(own) \in Int /\ fb(own) \in Int /\ fe(c) \in Int /\ fb(c) \in Int
  BY <1>2, <1>5, FedIs
<1>9. (-p) * fe(own) + q * fb(own) <= (-p) * fe(c) + q * fb(c)
  BY <1>4 DEF Weigh
<1>10. e \in Nat /\ b \in Nat
  <2>1. /\ Ordered(Created(te, t, c)) /\ Created(te, t, c).lo >= 0
        /\ Ordered(Removed(te, t, c)) /\ Removed(te, t, c).lo >= 0
    BY <1>5, SharperSelf, SidesInside DEF Amounts
  <2> QED
    BY <2>1 DEF Ordered
<1>11. <<e, b>> \in Balances(te, t)
  BY <1>4, CornerIsChecked DEF Ends
<1> DEFINE x == eb[1]
           y == eb[2]
           xo == Created(te, t, own).lo
           yo == Removed(te, t, own).hi
           fo == fe(own)
           go == fb(own)
           fc == fe(c)
           gc == fb(c)
<1>15. x \in Nat /\ y \in Nat /\ xo <= x /\ y <= yo
  <2>1. /\ eb[1] \in Int /\ Created(u, t, own).lo <= eb[1] /\ eb[1] <= Created(u, t, own).hi
        /\ eb[2] \in Int /\ Removed(u, t, own).lo <= eb[2] /\ eb[2] <= Removed(u, t, own).hi
    BY <1>1
  <2>2. xo \in Int /\ yo \in Int
    BY <1>6, <1>7, <1>8
  <2> QED
    BY <1>3, <2>1, <2>2 DEF Ordered
<1>16. xo = R + fo /\ yo = T + go /\ e = R + fc /\ b = T + gc
  BY <1>6
<1>17. /\ fo \in Int /\ go \in Int /\ fc \in Int /\ gc \in Int
       /\ (-p) * fo + q * go <= (-p) * fc + q * gc
  BY <1>8, <1>9
<1> HIDE DEF x, y, xo, yo, fo, go, fc, gc, e, b, R, T
<1>12. /\ x \in Nat /\ y \in Nat /\ xo <= x /\ y <= yo /\ xo = R + fo /\ yo = T + go /\ e = R + fc /\ b = T + gc
       /\ fo \in Int /\ go \in Int /\ fc \in Int /\ gc \in Int
       /\ (-p) * fo + q * go <= (-p) * fc + q * gc
  BY <1>15, <1>16, <1>17
<1>13. p * e - q * b <= p * x - q * y
  <2>1. xo \in Int /\ yo \in Int
    BY <1>7, <1>12
  <2>2. xo * p <= x * p /\ x * p \in Int /\ xo * p \in Int
    BY <1>12, <2>1, InProportion
  <2>3. y * q <= yo * q /\ yo * q \in Int /\ y * q \in Int
    BY <1>12, <2>1, InProportion
  <2>4. x * p = p * x /\ xo * p = p * R + p * fo /\ y * q = q * y /\ yo * q = q * T + q * go
    BY <1>7, <1>12
  <2>5. p * e = p * R + p * fc /\ q * b = q * T + q * gc
    BY <1>7, <1>12
  <2>6. (-p) * fo = -(p * fo) /\ (-p) * fc = -(p * fc)
    BY <1>12
  <2>7. /\ p * R \in Int /\ p * fo \in Int /\ q * T \in Int /\ q * go \in Int /\ p * fc \in Int /\ q * gc \in Int
    BY <1>7, <1>12
  <2> QED
    BY <1>12, <2>2, <2>3, <2>4, <2>5, <2>6, <2>7
<1> QED
  BY <1>10, <1>11, <1>13 DEF x, y, Undercut

(* There is always a balance.                                              *)
LEMMA SomeBalance ==
  ASSUME NEW te, NEW t
  PROVE  \E eb : eb \in Balances(te, t)
  BY WorstIsChecked

(* A sum of amounts is no less than any of them.                           *)
LEMMA PartOfSum ==
  ASSUME NEW S, IsFiniteSet(S), NEW f, DOMAIN f = S, \A x \in S : f[x] \in Int /\ f[x] >= 0, NEW y \in S
  PROVE  Sum(f) \in Int /\ f[y] <= Sum(f)
<1> DEFINE g == [x \in {y} |-> f[y]]
<1>1. IsFiniteSet(DOMAIN g) /\ \A x \in DOMAIN g : g[x] \in Int /\ g[x] = f[y]
  BY FS_Singleton
<1>2. DOMAIN g = {y}
  OBVIOUS
<1> HIDE DEF g
<1>3. PICK T : Adds(T, g, DOMAIN g)
  BY <1>1, SumExists
<1>4. T[{y}] = g[y] + T[{}] /\ T[{}] = 0
  <2>1. {y} \in SUBSET {y} /\ y \in {y} /\ {y} \ {y} = {}
    OBVIOUS
  <2> QED
    BY <1>2, <1>3, <2>1 DEF Adds
<1>5. Sum(g) = f[y]
  BY <1>1, <1>2, <1>3, <1>4, SumAdds
<1>6. \A x \in S : Term(g, x) <= Term(f, x)
  BY <1>1, <1>2 DEF Term
<1>7. Sum(g) <= Sum(f)
  BY <1>1, <1>2, <1>6, SumGrows
<1> QED
  BY <1>5, <1>7, SumIsInt

(* Flows from sources that create nothing bring nothing, whatever the      *)
(* sources that create something come to.                                  *)
LEMMA NothingFed ==
  ASSUME NEW te, NEW t, Amounts(te, t), NEW own \in [Sources(te, t) -> Nat], NEW c \in [Sources(te, t) -> Nat],
         SameCreate(te, t, own, c), NEW act, NEW end \in BothEnds, Sum(Fed(te, t, act, own, end)) = 0
  PROVE  Sum(Fed(te, t, act, c, end)) = 0
<1> DEFINE F == Flows(te, t, act)
           f == Fed(te, t, act, own, end)
           g == Fed(te, t, act, c, end)
<1>1. /\ IsFiniteSet(F) /\ DOMAIN f = F
      /\ \A i \in F : f[i] = FlowRate(te.flows[i], own, te)[end] /\ f[i] \in Int /\ f[i] >= 0
  BY FedIs DEF BothEnds
<1>2. /\ DOMAIN g = F
      /\ \A i \in F : g[i] = FlowRate(te.flows[i], c, te)[end] /\ g[i] \in Int /\ g[i] >= 0
  BY FedIs DEF BothEnds
<1>3. \A i \in F : te.flows[i] \in Range(te.flows) /\ te.flows[i].dst = t
  BY FlowsAre DEF Amounts
<1>4. ASSUME NEW i \in F PROVE g[i] <= f[i] \/ g[i] = 0
  <2> DEFINE e == te.flows[i]
  <2>1. e \in Range(te.flows) /\ e.dst = t
    BY <1>3
  <2>2. CASE e.ratio = None
    <3>1. FlowRate(e, own, te) = FlowRate(e, c, te)
      BY <2>2 DEF FlowRate
    <3> HIDE DEF F, f, g
    <3> QED
      BY <1>1, <1>2, <3>1
  <2>3. CASE e.ratio # None
    <3> DEFINE r == te.span[e.ratio][end]
               n == own[e.src]
               m == c[e.src]
    <3>1. e.src \in Sources(te, t) /\ e.ratio \in DOMAIN te.span /\ te.span[e.ratio].lo >= 0
      BY <2>1, <2>3, FlowAmount
    <3>2. r \in Int /\ r >= 0
      BY <3>1, SpanIs DEF Amounts, Ordered, BothEnds
    <3>3. f[i] = r * n
      <4>1. /\ FlowRate(e, own, te).lo = te.span[e.ratio].lo * own[e.src]
            /\ FlowRate(e, own, te).hi = te.span[e.ratio].hi * own[e.src]
        <5> HIDE DEF e, F, f, g, r, n, m
        <5> QED
          BY <2>1, <2>3, FlowAmount
      <4>2. f[i] = FlowRate(e, own, te)[end]
        BY <1>1
      <4> HIDE DEF f, e
      <4> QED
        BY <4>1, <4>2 DEF BothEnds
    <3>4. g[i] = r * m
      <4>1. /\ FlowRate(e, c, te).lo = te.span[e.ratio].lo * c[e.src]
            /\ FlowRate(e, c, te).hi = te.span[e.ratio].hi * c[e.src]
        <5> HIDE DEF e, F, f, g, r, n, m
        <5> QED
          BY <2>1, <2>3, FlowAmount
      <4>2. g[i] = FlowRate(e, c, te)[end]
        BY <1>2
      <4> HIDE DEF g, e
      <4> QED
        BY <4>1, <4>2 DEF BothEnds
    <3>5. n \in Nat /\ m \in Nat /\ (n > 0 <=> m > 0)
      BY <3>1 DEF SameCreate
    <3>6. f[i] <= 0
      <4>1. f[i] <= Sum(f)
        <5> HIDE DEF F, f, g
        <5> QED
          BY <1>1, PartOfSum
      <4> QED
        BY <4>1
    <3> HIDE DEF r, n, m
    <3>7. r = 0 \/ n = 0
      <4>1. r \in Nat /\ (r > 0 /\ n > 0 => r * n > 0)
        <5>1. r > 0 /\ n > 0 => 1 * n <= r * n
          BY <3>2, <3>5, InProportion
        <5> QED
          BY <3>2, <3>5, <5>1
      <4> HIDE DEF F, f, g
      <4> QED
        BY <3>2, <3>3, <3>5, <3>6, <4>1
    <3>8. r * m = 0
      BY <3>2, <3>5, <3>7
    <3> HIDE DEF F, f, g
    <3> QED
      BY <3>4, <3>8
  <2> QED
    BY <2>2, <2>3
<1>5. Sum(f) = 0
  OBVIOUS
<1> HIDE DEF F, f, g
<1>6. \A i \in F : f[i] <= 0
  <2> SUFFICES ASSUME NEW i \in F PROVE f[i] <= 0
    OBVIOUS
  <2>1. f[i] <= Sum(f)
    BY <1>1, PartOfSum
  <2> QED
    BY <1>5, <2>1
<1>7. \A i \in F : f[i] \in Int /\ g[i] \in Int /\ g[i] <= f[i]
  <2> SUFFICES ASSUME NEW i \in F PROVE g[i] <= f[i]
    BY <1>1, <1>2
  <2>1. f[i] = 0
    BY <1>1, <1>6
  <2> QED
    BY <1>4, <2>1
<1>8. Sum(g) <= Sum(f)
  BY <1>1, <1>2, <1>7, SumsInOrder
<1>9. Sum(g) \in Int /\ Sum(g) >= 0
  BY <1>1, <1>2, SumOfNothing
<1> QED
  BY <1>5, <1>8, <1>9 DEF g

(* Which sources create something is compared both ways.                   *)
LEMMA SameCreateBack ==
  ASSUME NEW te, NEW t, NEW own, NEW c, SameCreate(te, t, own, c)
  PROVE  SameCreate(te, t, c, own)
  BY DEF SameCreate

(* So with all that enters a token: what its own rules create does not     *)
(* depend on the sources.                                                  *)
LEMMA NothingCreated ==
  ASSUME NEW te, NEW t, Amounts(te, t), NEW own \in [Sources(te, t) -> Nat], NEW c \in [Sources(te, t) -> Nat],
         SameCreate(te, t, own, c)
  PROVE  /\ Created(te, t, own).lo = 0 => Created(te, t, c).lo = 0
         /\ Created(te, t, own).hi = 0 => Created(te, t, c).hi = 0
<1> DEFINE R(end) == Sum(Ruled(te, te.token[t].emits, "emission", end))
           f(o, end) == Sum(Fed(te, t, "mint", o, end))
<1>1. /\ Created(te, t, own).lo = 100 * R("lo") + f(own, "lo") /\ Created(te, t, own).hi = 100 * R("hi") + f(own, "hi")
      /\ Created(te, t, c).lo = 100 * R("lo") + f(c, "lo") /\ Created(te, t, c).hi = 100 * R("hi") + f(c, "hi")
  BY SideIs DEF Created
<1>2. \A end \in BothEnds : R(end) \in Int /\ R(end) >= 0
  BY SharperSelf, RuledInside DEF Amounts
<1>3. \A end \in BothEnds : f(own, end) \in Int /\ f(own, end) >= 0
  BY FedIs DEF BothEnds
<1>4. \A end \in BothEnds : f(own, end) = 0 => f(c, end) = 0
  BY NothingFed
<1> HIDE DEF R, f
<1>5. "lo" \in BothEnds /\ "hi" \in BothEnds
  BY DEF BothEnds
<1>6. Created(te, t, own).lo = 0 => Created(te, t, c).lo = 0
  BY <1>1, <1>2, <1>3, <1>4, <1>5
<1>7. Created(te, t, own).hi = 0 => Created(te, t, c).hi = 0
  BY <1>1, <1>2, <1>3, <1>4, <1>5
<1> QED
  BY <1>6, <1>7

(* Where every rule fires for certain and a balance of the narrowed design *)
(* creates something that its removal covers, so did one of the wider.     *)
Covering(te, t, p, q) == \E e \in Nat, b \in Nat : <<e, b>> \in Balances(te, t) /\ e > 0 /\ p * e <= q * b
LEMMA CoveredBefore ==
  ASSUME NEW te, NEW u, Sharper(te, u), NEW t, Amounts(te, t), Certain(te, t), NEW eb \in Balances(u, t),
         NEW p \in Nat, NEW q \in Nat, eb[1] > 0, p * eb[1] <= q * eb[2]
  PROVE  Covering(te, t, p, q)
<1>1. PICK own : /\ Possible(u, t, own)
                 /\ eb[1] \in Int /\ Created(u, t, own).lo <= eb[1] /\ eb[1] <= Created(u, t, own).hi
                 /\ eb[2] \in Int /\ Removed(u, t, own).lo <= eb[2] /\ eb[2] <= Removed(u, t, own).hi
  BY AmountsStay, BalanceIs
<1>2. Possible(te, t, own) /\ own \in [Sources(te, t) -> Nat]
  BY <1>1, PossibleBefore DEF Possible
<1>3. \A c \in [Sources(te, t) -> Nat] : /\ Ordered(Created(te, t, c)) /\ Created(te, t, c).lo >= 0
                                         /\ Ordered(Removed(te, t, c)) /\ Removed(te, t, c).lo >= 0
  BY SharperSelf, SidesInside DEF Amounts
<1> DEFINE x == eb[1]
           y == eb[2]
           xo == Created(te, t, own).lo
           xh == Created(te, t, own).hi
           yo == Removed(te, t, own).hi
<1>4. x \in Nat /\ x > 0 /\ y \in Nat /\ xo \in Nat /\ xo <= x /\ x <= xh /\ xh \in Nat /\ yo \in Nat /\ y <= yo
  <2>1. /\ Ordered(Created(u, t, own)) /\ Created(u, t, own).lo >= 0
        /\ Ordered(Removed(u, t, own)) /\ Removed(u, t, own).lo >= 0
        /\ Created(u, t, own).hi <= Created(te, t, own).hi
        /\ Created(te, t, own).lo <= Created(u, t, own).lo
        /\ Removed(u, t, own).hi <= Removed(te, t, own).hi
    BY <1>2, SidesInside
  <2>2. /\ Ordered(Created(te, t, own)) /\ Created(te, t, own).lo >= 0
        /\ Ordered(Removed(te, t, own)) /\ Removed(te, t, own).lo >= 0
    BY <1>2, <1>3
  <2>3. eb[1] > 0
    OBVIOUS
  <2> QED
    BY <1>1, <2>1, <2>2, <2>3 DEF Ordered
<1>5. p * x <= q * y
  OBVIOUS
<1>6. ASSUME NEW c \in [Sources(te, t) -> Nat], AtEnds(te, t, c), NEW e \in Nat, e \in Ends(Created(te, t, c)), e > 0,
             p * e <= q * Removed(te, t, c).hi
      PROVE  Covering(te, t, p, q)
  <2> DEFINE b == Removed(te, t, c).hi
  <2>1. b \in Nat
    BY <1>3 DEF Ordered
  <2>2. <<e, b>> \in Balances(te, t)
    <3>1. b \in Ends(Removed(te, t, c))
      BY DEF Ends
    <3> HIDE DEF b
    <3> QED
      BY <1>6, <3>1, CornerIsChecked
  <2>3. p * e <= q * b
    BY <1>6
  <2> HIDE DEF b
  <2> QED
    BY <1>6, <2>1, <2>2, <2>3 DEF Covering
<1> DEFINE R == 100 * Sum(Ruled(te, te.token[t].emits, "emission", "lo"))
           T == 100 * Sum(Ruled(te, te.token[t].burns, "burn", "hi"))
           fe(o) == Sum(Fed(te, t, "mint", o, "lo"))
           fb(o) == Sum(Fed(te, t, "burn", o, "hi"))
<1>7. \A o : Created(te, t, o).lo = R + fe(o) /\ Removed(te, t, o).hi = T + fb(o)
  BY SideIs DEF Created, Removed
<1>8. R \in Int /\ T \in Int
  BY SharperSelf, RuledInside DEF Amounts, BothEnds
<1>9. \A o \in [Sources(te, t) -> Nat] : fe(o) \in Int /\ fb(o) \in Int
  BY FedIs
<1>10. CASE xo > 0
  <2>1. PICK c : /\ AtEnds(te, t, c) /\ SameCreate(te, t, own, c)
                 /\ Weigh(te, t, own, -p, "lo", q, "hi") <= Weigh(te, t, c, -p, "lo", q, "hi")
    <3>1. -p \in Int /\ "hi" \in BothEnds /\ "lo" \in BothEnds
      BY DEF BothEnds
    <3> QED
      BY <1>2, <3>1, CornerReached
  <2>2. c \in [Sources(te, t) -> Nat]
    BY <2>1 DEF AtEnds
  <2> DEFINE e == Created(te, t, c).lo
             b == Removed(te, t, c).hi
             fo == fe(own)
             go == fb(own)
             fc == fe(c)
             gc == fb(c)
  <2>3. (-p) * fo + q * go <= (-p) * fc + q * gc
    BY <2>1 DEF Weigh
  <2>4. /\ fo \in Int /\ go \in Int /\ fc \in Int /\ gc \in Int
        /\ xo = R + fo /\ yo = T + go /\ e = R + fc /\ b = T + gc
    BY <1>2, <1>7, <1>9, <2>2
  <2>5. e \in Nat /\ e > 0 /\ b \in Nat
    <3>1. e \in Nat /\ b \in Nat
      BY <1>3, <2>2 DEF Ordered
    <3>2. e = 0 => xo = 0
      BY <1>2, <2>1, <2>2, SameCreateBack, NothingCreated
    <3> HIDE DEF e, b, xo
    <3> QED
      BY <1>10, <3>1, <3>2
  <2>6. e \in Ends(Created(te, t, c))
    BY DEF Ends
  <2>7. p * e <= q * b
    <3> HIDE DEF x, y, xo, xh, yo, R, T, fe, fb, e, b, fo, go, fc, gc
    <3>1. xo * p <= x * p /\ x * p \in Int /\ xo * p \in Int
      BY <1>4, InProportion
    <3>2. y * q <= yo * q /\ yo * q \in Int /\ y * q \in Int
      BY <1>4, InProportion
    <3>3. x * p = p * x /\ xo * p = p * R + p * fo /\ y * q = q * y /\ yo * q = q * T + q * go
      BY <1>4, <1>8, <2>4
    <3>4. p * e = p * R + p * fc /\ q * b = q * T + q * gc
      BY <1>8, <2>4
    <3>5. (-p) * fo = -(p * fo) /\ (-p) * fc = -(p * fc)
      BY <2>4
    <3>6. /\ p * R \in Int /\ p * fo \in Int /\ q * T \in Int /\ q * go \in Int /\ p * fc \in Int /\ q * gc \in Int
      BY <1>8, <2>4
    <3> QED
      BY <1>5, <2>3, <3>1, <3>2, <3>3, <3>4, <3>5, <3>6
  <2> HIDE DEF e
  <2> QED
    BY <1>6, <2>1, <2>2, <2>5, <2>6, <2>7
<1>11. CASE xo = 0
  <2>1. PICK c : /\ AtEnds(te, t, c) /\ SameCreate(te, t, own, c)
                 /\ Weigh(te, t, own, 0, "lo", 1, "hi") <= Weigh(te, t, c, 0, "lo", 1, "hi")
    <3>1. 0 \in Int /\ 1 \in Int /\ "hi" \in BothEnds /\ "lo" \in BothEnds
      BY DEF BothEnds
    <3> QED
      BY <1>2, <3>1, CornerReached
  <2>2. c \in [Sources(te, t) -> Nat]
    BY <2>1 DEF AtEnds
  <2> DEFINE r == Created(te, t, c)
             b == Removed(te, t, c).hi
  <2>3. fb(own) <= fb(c)
    <3>1. 0 * fe(own) + 1 * fb(own) <= 0 * fe(c) + 1 * fb(c)
      BY <2>1 DEF Weigh
    <3>2. fe(own) \in Int /\ fe(c) \in Int /\ fb(own) \in Int /\ fb(c) \in Int
      BY <1>2, <1>9, <2>2
    <3> HIDE DEF fe, fb
    <3> QED
      BY <3>1, <3>2
  <2>4. yo <= b /\ b \in Nat
    <3>1. yo = T + fb(own) /\ b = T + fb(c) /\ fb(own) \in Int /\ fb(c) \in Int
      BY <1>2, <1>7, <1>9, <2>2
    <3>2. b \in Nat
      BY <1>3, <2>2 DEF Ordered
    <3> HIDE DEF T, fb, yo, b
    <3> QED
      BY <1>8, <2>3, <3>1, <3>2
  <2>5. r.lo = 0
    BY <1>2, <1>11, <2>1, <2>2, NothingCreated
  <2>6. r.hi > 0
    <3>1. r.hi \in Int /\ r.lo \in Int /\ r.lo <= r.hi
      BY <1>3, <2>2 DEF Ordered
    <3>2. r.hi = 0 => xh = 0
      BY <1>2, <2>1, <2>2, SameCreateBack, NothingCreated
    <3> HIDE DEF r, xh, xo, x, y, yo
    <3> QED
      BY <1>4, <2>5, <3>1, <3>2
  <2>7. 1 \in Ends(r)
    BY <2>5, <2>6 DEF Ends
  <2>8. p * 1 <= q * b
    <3> HIDE DEF x, y, xo, xh, yo, b
    <3>1. 1 * p <= x * p /\ x * p \in Int
      BY <1>4, InProportion
    <3>2. y * q <= b * q /\ b * q \in Int /\ y * q \in Int
      <4>1. y <= b /\ y \in Int /\ b \in Int
        BY <1>4, <2>4
      <4> QED
        BY <4>1, InProportion
    <3>3. x * p = p * x /\ y * q = q * y /\ b * q = q * b
      BY <1>4, <2>4
    <3> QED
      BY <1>5, <3>1, <3>2, <3>3
  <2> QED
    BY <1>6, <2>1, <2>2, <2>7, <2>8
<1> QED
  BY <1>4, <1>10, <1>11

------------------------------------------------------------------------------
(* FM1.  What is not a range is the same before and after.                 *)
LEMMA ShapeSame ==
  ASSUME NEW te, NEW u, Sharper(te, u), NEW t
  PROVE  /\ Emits(u, t) <=> Emits(te, t)
         /\ Burns(u, t) <=> Burns(te, t)
         /\ Reputation(u, t) <=> Reputation(te, t)
         /\ Capped(u, t) <=> Capped(te, t)
         /\ Scheduled(u, t) <=> Scheduled(te, t)
         /\ MeantToCirculate(u, t) <=> MeantToCirculate(te, t)
         /\ Ruling(u, t) <=> Ruling(te, t)
         /\ Floor(u) = Floor(te)
         /\ u.token = te.token
<1>1. u.token = te.token /\ u.flows = te.flows /\ u.nfr = te.nfr
  BY SameShape DEF Sharper
<1>2. \A act : Flows(u, t, act) = Flows(te, t, act)
  BY <1>1 DEF Flows
<1>3. (Emits(u, t) <=> Emits(te, t)) /\ (Burns(u, t) <=> Burns(te, t))
  BY <1>1, <1>2 DEF Emits, Burns
<1>4. (Reputation(u, t) <=> Reputation(te, t)) /\ (Capped(u, t) <=> Capped(te, t))
  BY <1>1 DEF Reputation, Capped
<1>5. Scheduled(u, t) <=> Scheduled(te, t)
  BY <1>1, <1>2 DEF Scheduled
<1>6. (MeantToCirculate(u, t) <=> MeantToCirculate(te, t)) /\ (Ruling(u, t) <=> Ruling(te, t))
  BY <1>1 DEF MeantToCirculate, Ruling
<1>7. Floor(u) = Floor(te)
  BY <1>1 DEF Floor
<1> QED
  BY <1>1, <1>3, <1>4, <1>5, <1>6, <1>7

(* The ends of a range that is in whole numbers, in hundredths             *)
LEMMA HundredthsInside ==
  ASSUME NEW r, NEW s, Inside(r, s)
  PROVE  /\ 100 * r.lo \in Ends(Hundredths(r)) /\ 100 * r.hi \in Ends(Hundredths(r))
         /\ 100 * s.lo \in Ends(Hundredths(s)) /\ 100 * s.hi \in Ends(Hundredths(s))
         /\ 100 * r.lo \in Int /\ 100 * r.hi \in Int /\ 100 * s.lo \in Int /\ 100 * s.hi \in Int
         /\ \A x \in Ends(Hundredths(s)) : x \in Int /\ 100 * r.lo <= x /\ x <= 100 * r.hi
<1>1. Ordered(Hundredths(s))
  BY DEF Inside, Ordered, Hundredths
<1>2. \A x \in Ends(Hundredths(s)) : x \in Int /\ Hundredths(s).lo <= x /\ x <= Hundredths(s).hi
  BY <1>1, EndsIn
<1>3. \A x \in Ends(Hundredths(s)) : x \in Int /\ 100 * r.lo <= x /\ x <= 100 * r.hi
  <2> TAKE x \in Ends(Hundredths(s))
  <2>1. x \in Int /\ 100 * s.lo <= x /\ x <= 100 * s.hi
    BY <1>2 DEF Hundredths
  <2> QED
    BY <2>1 DEF Inside, Ordered
<1>4. /\ 100 * r.lo \in Ends(Hundredths(r)) /\ 100 * r.hi \in Ends(Hundredths(r))
      /\ 100 * s.lo \in Ends(Hundredths(s)) /\ 100 * s.hi \in Ends(Hundredths(s))
  BY DEF Ends, Hundredths
<1>5. 100 * r.lo \in Int /\ 100 * r.hi \in Int /\ 100 * s.lo \in Int /\ 100 * s.hi \in Int
  BY DEF Inside, Ordered
<1> QED
  BY <1>3, <1>4, <1>5

(* The cap in hundredths, narrowed.                                        *)
LEMMA CapInside ==
  ASSUME NEW te, NEW u, Sharper(te, u), NEW t \in te.tokens, Capped(te, t)
  PROVE  Inside(te.span[te.token[t].cap], u.span[te.token[t].cap])
<1>1. te.token[t].cap \in DOMAIN te.span
  BY DEF Sharper, Formed, TokenFormed, Capped
<1> QED
  BY <1>1, SpanInside

(* Oversupply after narrowing is oversupply before.                        *)
LEMMA OversuppliedBefore ==
  ASSUME NEW te, NEW u, Sharper(te, u), NEW t, Amounts(te, t), NEW eb \in Balances(u, t),
         NEW q \in Ends(Hundredths(u.span["Q"])), Oversupplied(u, t, eb[1], eb[2], q)
  PROVE  \E ab \in Balances(te, t), p \in Ends(Hundredths(te.span["Q"])) : Oversupplied(te, t, ab[1], ab[2], p)
<1> DEFINE p == 100 * te.span["Q"].lo
           c == te.span[te.token[t].cap]
           d == u.span[te.token[t].cap]
<1>1. Inside(te.span["Q"], u.span["Q"])
  BY SpanInside DEF Sharper, Formed
<1>2. p \in Ends(Hundredths(te.span["Q"])) /\ p \in Int /\ q \in Int /\ p <= q
  BY <1>1, HundredthsInside
<1>3. PICK e \in Nat, b \in Nat : <<e, b>> \in Balances(te, t) /\ 1 * eb[1] - 1 * eb[2] <= 1 * e - 1 * b
  <2>1. Exceeded(te, t, eb, 1, 1)
    BY WorstAtCorner
  <2> QED
    BY <2>1 DEF Exceeded
<1>4. eb[1] \in Int /\ eb[2] \in Int
  BY WorstAtCorner
<1>5. eb[1] - eb[2] > q /\ (Capped(te, t) => \E x \in Ends(Hundredths(d)) : x > q)
  BY ShapeSame DEF Oversupplied
<1>6. e - b > p
  <2> HIDE DEF p
  <2> QED
    BY <1>2, <1>3, <1>4, <1>5
<1>7. ASSUME Capped(te, t) PROVE \E x \in Ends(Hundredths(c)) : x > p
  <2>1. t \in te.tokens
    BY DEF Amounts
  <2>2. Inside(c, d)
    BY <1>7, <2>1, CapInside
  <2>3. PICK x \in Ends(Hundredths(d)) : x > q
    BY <1>5, <1>7
  <2> HIDE DEF c, d, p
  <2>4. x \in Int /\ x <= 100 * c.hi /\ 100 * c.hi \in Ends(Hundredths(c)) /\ 100 * c.hi \in Int
    BY <2>2, HundredthsInside
  <2>5. 100 * c.hi > p
    BY <1>2, <2>3, <2>4
  <2> QED
    BY <2>4, <2>5
<1>8. Oversupplied(te, t, e, b, p)
  BY <1>6, <1>7 DEF Oversupplied
<1>9. \E ab \in Balances(te, t) : Oversupplied(te, t, ab[1], ab[2], p)
  <2> DEFINE ab == <<e, b>>
  <2>1. ab \in Balances(te, t) /\ ab[1] = e /\ ab[2] = b
    BY <1>3
  <2> HIDE DEF ab
  <2> QED
    BY <1>8, <2>1
<1> HIDE DEF p
<1> QED
  BY <1>2, <1>9

(* FM1: a token without oversupply stays without.                          *)
LEMMA FM1Passes ==
  ASSUME NEW te, NEW u, Sharper(te, u), NEW t, Amounts(te, t), FM1(te, t) = "pass"
  PROVE  FM1(u, t) = "pass"
<1>1. /\ te.token[t].transferable /\ u.token = te.token
      /\ Emits(u, t) <=> Emits(te, t)
      /\ Reputation(u, t) <=> Reputation(te, t)
  BY ShapeSame DEF FM1
<1>2. CASE ~Emits(te, t)
  BY <1>1, <1>2 DEF FM1
<1>3. CASE Emits(te, t)
  <2>1. /\ ~Reputation(te, t)
        /\ ~ \E eb \in Balances(te, t), q \in Ends(Hundredths(te.span["Q"])) : Oversupplied(te, t, eb[1], eb[2], q)
    BY <1>3, <1>1 DEF FM1
  <2>2. ~ \E eb \in Balances(u, t), q \in Ends(Hundredths(u.span["Q"])) : Oversupplied(u, t, eb[1], eb[2], q)
    BY <2>1, OversuppliedBefore
  <2> QED
    BY <1>1, <1>3, <2>1, <2>2 DEF FM1
<1> QED
  BY <1>2, <1>3

(* A balance that is absorbed after narrowing: one was before.             *)
LEMMA AbsorbedBefore ==
  ASSUME NEW te, NEW u, Sharper(te, u), NEW t, Amounts(te, t), Certain(te, t), NEW eb \in Balances(u, t),
         NEW q \in Ends(Hundredths(u.span["Q"])),
         ~ \E ab \in Balances(te, t), p \in Ends(Hundredths(te.span["Q"])) : Absorbed(te, t, ab[1], ab[2], p)
  PROVE  ~Absorbed(u, t, eb[1], eb[2], q) /\ Oversupplied(u, t, eb[1], eb[2], q)
<1> DEFINE p == 100 * te.span["Q"].hi
           c == te.span[te.token[t].cap]
           d == u.span[te.token[t].cap]
<1>1. Inside(te.span["Q"], u.span["Q"])
  BY SpanInside DEF Sharper, Formed
<1>2. p \in Ends(Hundredths(te.span["Q"])) /\ p \in Int /\ q \in Int /\ q <= p
  BY <1>1, HundredthsInside
<1>3. PICK e \in Nat, b \in Nat : <<e, b>> \in Balances(te, t) /\ 1 * e - 1 * b <= 1 * eb[1] - 1 * eb[2]
  <2>1. Undercut(te, t, eb, 1, 1)
    BY LeastAtCorner
  <2> QED
    BY <2>1 DEF Undercut
<1>4. eb[1] \in Int /\ eb[2] \in Int
  BY WorstAtCorner
<1>5. ~Absorbed(te, t, e, b, p)
  <2> DEFINE ab == <<e, b>>
  <2>1. ab \in Balances(te, t) /\ ab[1] = e /\ ab[2] = b
    BY <1>3
  <2> HIDE DEF ab, p
  <2> QED
    BY <1>2, <2>1
<1>6. e - b > p /\ (Capped(te, t) => \A x \in Ends(Hundredths(c)) : ~(x <= p))
  BY <1>2, <1>5 DEF Absorbed
<1>7. eb[1] - eb[2] > q
  <2> HIDE DEF p
  <2> QED
    BY <1>2, <1>3, <1>4, <1>6
<1>8. ASSUME Capped(te, t) PROVE 100 * d.lo \in Ends(Hundredths(d)) /\ \A x \in Ends(Hundredths(d)) : x \in Int /\ x > q
  <2>1. t \in te.tokens
    BY DEF Amounts
  <2>2. Inside(c, d)
    BY <1>8, <2>1, CapInside
  <2>3. \A x \in Ends(Hundredths(c)) : ~(x <= p)
    BY <1>6, <1>8
  <2> HIDE DEF c, d, p
  <2>4. 100 * c.lo \in Ends(Hundredths(c)) /\ 100 * c.lo \in Int /\ 100 * d.lo \in Ends(Hundredths(d))
    BY <2>2, HundredthsInside
  <2>5. \A x \in Ends(Hundredths(d)) : x \in Int /\ 100 * c.lo <= x
    BY <2>2, HundredthsInside
  <2>6. 100 * c.lo > p
    BY <1>2, <2>3, <2>4
  <2>7. \A x \in Ends(Hundredths(d)) : x > q
    BY <1>2, <2>4, <2>5, <2>6
  <2> QED
    BY <2>4, <2>5, <2>7
<1>9. u.token[t].cap = te.token[t].cap /\ (Capped(u, t) <=> Capped(te, t))
  BY ShapeSame
<1> HIDE DEF c, p
<1>10. Oversupplied(u, t, eb[1], eb[2], q)
  BY <1>7, <1>8, <1>9 DEF Oversupplied
<1>11. ~Absorbed(u, t, eb[1], eb[2], q)
  <2>1. ~(eb[1] - eb[2] <= q)
    BY <1>2, <1>4, <1>7
  <2>2. Capped(te, t) => \A x \in Ends(Hundredths(d)) : ~(x <= q)
    BY <1>2, <1>8
  <2> QED
    BY <1>9, <2>1, <2>2 DEF Absorbed
<1> QED
  BY <1>10, <1>11

(* FM1: a token that nothing keeps from oversupply, whose rules are        *)
(* certain, is not kept from it after narrowing.                           *)
LEMMA FM1Fails ==
  ASSUME NEW te, NEW u, Sharper(te, u), NEW t, Amounts(te, t), Certain(te, t),
         FM1(te, t) = "fail", FM1Reach(te, t) = "false"
  PROVE  FM1(u, t) = "fail" /\ FM1Reach(u, t) = "false"
<1>1. /\ te.token[t].transferable /\ Emits(te, t) /\ ~Reputation(te, t)
  BY DEF FM1
<1>2. ~ \E ab \in Balances(te, t), p \in Ends(Hundredths(te.span["Q"])) : Absorbed(te, t, ab[1], ab[2], p)
  BY <1>1 DEF FM1Reach
<1>3. u.token = te.token /\ Emits(u, t) /\ ~Reputation(u, t)
  BY <1>1, ShapeSame
<1>4. \A eb \in Balances(u, t), q \in Ends(Hundredths(u.span["Q"])) :
        ~Absorbed(u, t, eb[1], eb[2], q) /\ Oversupplied(u, t, eb[1], eb[2], q)
  BY <1>2, AbsorbedBefore
<1>5. PICK eb : eb \in Balances(u, t)
  BY SomeBalance
<1>6. PICK q : q \in Ends(Hundredths(u.span["Q"]))
  BY DEF Ends
<1>7. Oversupplied(u, t, eb[1], eb[2], q)
  BY <1>4, <1>5, <1>6
<1>8. FM1(u, t) = "fail"
  BY <1>1, <1>3, <1>5, <1>6, <1>7 DEF FM1
<1>9. FM1Reach(u, t) = "false"
  BY <1>1, <1>3, <1>4 DEF FM1Reach
<1> QED
  BY <1>8, <1>9

------------------------------------------------------------------------------
(* FM2                                                                     *)
LEMMA HoldingInside ==
  ASSUME NEW te, NEW u, Sharper(te, u)
  PROVE  /\ AverageHolding(te, "lo") \in Int /\ AverageHolding(u, "lo") \in Int
         /\ AverageHolding(te, "hi") \in Int /\ AverageHolding(u, "hi") \in Int
         /\ AverageHolding(te, "lo") <= AverageHolding(u, "lo")
         /\ AverageHolding(u, "lo") <= AverageHolding(u, "hi")
         /\ AverageHolding(u, "hi") <= AverageHolding(te, "hi")
<1> DEFINE S == DOMAIN te.agents
           share(i) == te.agents[i].share
           r(i) == te.span[te.agents[i].tau]
           s(i) == u.span[te.agents[i].tau]
           a == [i \in S |-> te.agents[i].share * te.span[te.agents[i].tau]["lo"]]
           b == [i \in S |-> te.agents[i].share * u.span[te.agents[i].tau]["lo"]]
           c == [i \in S |-> te.agents[i].share * u.span[te.agents[i].tau]["hi"]]
           d == [i \in S |-> te.agents[i].share * te.span[te.agents[i].tau]["hi"]]
<1>1. u.agents = te.agents
  BY SameShape DEF Sharper
<1>2. /\ AverageHolding(te, "lo") = Sum(a) /\ AverageHolding(u, "lo") = Sum(b)
      /\ AverageHolding(u, "hi") = Sum(c) /\ AverageHolding(te, "hi") = Sum(d)
  BY <1>1 DEF AverageHolding
<1>3. IsFiniteSet(S)
  BY ListIs DEF Sharper, Formed
<1>4. ASSUME NEW i \in S
      PROVE  /\ a[i] \in Int /\ b[i] \in Int /\ c[i] \in Int /\ d[i] \in Int
             /\ a[i] <= b[i] /\ b[i] <= c[i] /\ c[i] <= d[i]
  <2>1. share(i) \in Nat /\ te.agents[i].tau \in DOMAIN te.span
    <3>1. te.agents[i] \in Range(te.agents)
      BY DEF Range
    <3> QED
      BY <3>1 DEF Sharper, Formed
  <2>2. Inside(r(i), s(i))
    BY <2>1, SpanInside
  <2>3. /\ a[i] = share(i) * r(i).lo /\ b[i] = share(i) * s(i).lo
        /\ c[i] = share(i) * s(i).hi /\ d[i] = share(i) * r(i).hi
    OBVIOUS
  <2> DEFINE m == share(i)
             x == r(i).lo
             y == s(i).lo
             z == s(i).hi
             w == r(i).hi
  <2>4. x \in Int /\ y \in Int /\ z \in Int /\ w \in Int /\ m \in Nat /\ x <= y /\ y <= z /\ z <= w
    BY <2>1, <2>2 DEF Inside, Ordered
  <2> HIDE DEF a, b, c, d
  <2>5. a[i] = m * x /\ b[i] = m * y /\ c[i] = m * z /\ d[i] = m * w
    BY <2>3
  <2> HIDE DEF m, x, y, z, w
  <2>6. x * m <= y * m /\ y * m <= z * m /\ z * m <= w * m
    <3>1. x * m <= y * m
      BY <2>4, InProportion
    <3>2. y * m <= z * m
      BY <2>4, InProportion
    <3>3. z * m <= w * m
      BY <2>4, InProportion
    <3> QED
      BY <3>1, <3>2, <3>3
  <2>7. x * m = m * x /\ y * m = m * y /\ z * m = m * z /\ w * m = m * w
    BY <2>4
  <2>8. m * x \in Int /\ m * y \in Int /\ m * z \in Int /\ m * w \in Int
    BY <2>4
  <2> QED
    BY <2>5, <2>6, <2>7, <2>8
<1>5. DOMAIN a = S /\ DOMAIN b = S /\ DOMAIN c = S /\ DOMAIN d = S
  OBVIOUS
<1> HIDE DEF S, a, b, c, d
<1>6. Sum(a) \in Int /\ Sum(b) \in Int /\ Sum(c) \in Int /\ Sum(d) \in Int
  BY <1>3, <1>4, <1>5, SumIsInt
<1>7. Sum(a) <= Sum(b)
  BY <1>3, <1>4, <1>5, SumsInOrder
<1>8. Sum(b) <= Sum(c)
  BY <1>3, <1>4, <1>5, SumsInOrder
<1>9. Sum(c) <= Sum(d)
  BY <1>3, <1>4, <1>5, SumsInOrder
<1> QED
  BY <1>2, <1>6, <1>7, <1>8, <1>9

(* FM2: tokens that are held long enough are so after narrowing.           *)
LEMMA FM2Passes ==
  ASSUME NEW te, NEW u, Sharper(te, u), NEW t, FM2(te, t) = "pass"
  PROVE  FM2(u, t) = "pass"
<1>1. /\ u.token = te.token /\ u.agents = te.agents
      /\ Reputation(u, t) <=> Reputation(te, t)
  BY SameShape, ShapeSame DEF Sharper
<1>2. /\ te.token[t].transferable /\ ~Reputation(te, t)
      /\ ~(te.agents = <<>> /\ te.token[t].incentives = {})
      /\ IF te.agents = <<>> THEN TauFloor(te.token[t].incentives) > Ceiling
                             ELSE AverageHolding(te, "lo") > 100 * Ceiling
  BY DEF FM2
<1>3. te.agents # <<>> => AverageHolding(u, "lo") > 100 * Ceiling
  BY <1>2, HoldingInside DEF Ceiling
<1> QED
  BY <1>1, <1>2, <1>3 DEF FM2

(* FM2: tokens that nobody can hold long enough cannot be so after         *)
(* narrowing.                                                              *)
LEMMA FM2Fails ==
  ASSUME NEW te, NEW u, Sharper(te, u), NEW t, FM2(te, t) = "fail", FM2Reach(te, t) = "false"
  PROVE  FM2(u, t) = "fail" /\ FM2Reach(u, t) = "false"
<1>1. /\ u.token = te.token /\ u.agents = te.agents
      /\ Reputation(u, t) <=> Reputation(te, t)
      /\ MeantToCirculate(u, t) <=> MeantToCirculate(te, t)
  BY SameShape, ShapeSame DEF Sharper
<1>2. /\ te.token[t].transferable /\ ~Reputation(te, t) /\ te.agents # <<>>
      /\ ~(AverageHolding(te, "hi") > 100 * Ceiling)
  BY DEF FM2, FM2Reach
<1>3. ~MeantToCirculate(te, t)
  BY DEF FM2
<1>4. ~(AverageHolding(u, "lo") > 100 * Ceiling) /\ ~(AverageHolding(u, "hi") > 100 * Ceiling)
  BY <1>2, HoldingInside DEF Ceiling
<1> QED
  BY <1>1, <1>2, <1>3, <1>4 DEF FM2, FM2Reach

------------------------------------------------------------------------------
(* FM3                                                                     *)
LEMMA ShortBefore ==
  ASSUME NEW te, NEW u, Sharper(te, u), NEW t, Amounts(te, t), Short(u, t)
  PROVE  Short(te, t)
<1>1. PICK eb \in Balances(u, t) : Uncovered(u, eb[1], eb[2])
  BY DEF Short
<1> DEFINE F == Floor(te)
<1>2. F \in Nat /\ Floor(u) = F
  BY ShapeSame, FloorIs DEF Sharper
<1>3. eb[1] \in Int /\ eb[2] \in Int
  BY WorstAtCorner
<1>4. PICK e \in Nat, b \in Nat : <<e, b>> \in Balances(te, t) /\ F * eb[1] - 100 * eb[2] <= F * e - 100 * b
  <2>1. F \in Nat /\ 100 \in Nat
    BY <1>2
  <2> HIDE DEF F
  <2>2. Exceeded(te, t, eb, F, 100)
    BY <2>1, WorstAtCorner
  <2> QED
    BY <2>2 DEF Exceeded
<1>5. eb[1] > 0 /\ 100 * eb[2] < eb[1] * F
  BY <1>1, <1>2 DEF Uncovered
<1> DEFINE x == eb[1]
           y == eb[2]
<1>6. x \in Int /\ y \in Int /\ x > 0 /\ 100 * y < x * F /\ F * x - 100 * y <= F * e - 100 * b
  BY <1>3, <1>4, <1>5
<1> HIDE DEF x, y, F
<1>7. F * x = x * F /\ F * x \in Int /\ F * e = e * F /\ F * e \in Int
  BY <1>2, <1>6
<1>8. 100 * b < e * F
  BY <1>6, <1>7
<1>9. e > 0
  <2>1. e = 0 => e * F = 0
    BY <1>2
  <2> QED
    BY <1>8, <2>1
<1> DEFINE ab == <<e, b>>
<1>10. ab \in Balances(te, t) /\ ab[1] = e /\ ab[2] = b
  BY <1>4
<1>11. Uncovered(te, ab[1], ab[2])
  BY <1>8, <1>9, <1>10 DEF Uncovered, F
<1> HIDE DEF ab
<1> QED
  BY <1>10, <1>11 DEF Short

(* What a cap leaves uncovered was uncovered without it.                   *)
LEMMA SteadyIsLess ==
  ASSUME NEW te, Formed(te), NEW t, NEW e \in Int, NEW b \in Int, Uncovered(te, Steady(te, t, e, b), b)
  PROVE  Uncovered(te, e, b)
<1>1. CASE ~Capped(te, t)
  BY <1>1 DEF Steady
<1>2. CASE Capped(te, t)
  <2> DEFINE m == Min({e, b})
             F == Floor(te)
  <2>1. m \in Int /\ m <= e
    BY TwoEnds
  <2>2. m > 0 /\ 100 * b < m * F
    BY <1>2 DEF Steady, Uncovered
  <2>3. F \in Nat
    BY FloorIs
  <2> HIDE DEF m, F
  <2>4. m * F <= e * F /\ m * F \in Int /\ e * F \in Int
    BY <2>1, <2>3, InProportion
  <2>5. e > 0 /\ 100 * b < e * F
    BY <2>1, <2>2, <2>4
  <2> QED
    BY <2>5 DEF Uncovered, F
<1> QED
  BY <1>1, <1>2

(* What no cap holds is short of removal.                                  *)
LEMMA UnheldIsShort ==
  ASSUME NEW te, NEW t, Amounts(te, t), Unheld(te, t)
  PROVE  Short(te, t)
<1>1. PICK eb \in Balances(te, t) : Uncovered(te, Steady(te, t, eb[1], eb[2]), eb[2])
  BY DEF Unheld
<1>2. eb[1] \in Int /\ eb[2] \in Int
  BY SharperSelf, WorstAtCorner DEF Amounts
<1>3. Uncovered(te, eb[1], eb[2])
  BY <1>1, <1>2, SteadyIsLess DEF Amounts
<1> QED
  BY <1>3 DEF Short

(* FM3: a token whose removal covers its share of creation has removal     *)
(* that covers it after narrowing.                                         *)
LEMMA FM3Passes ==
  ASSUME NEW te, NEW u, Sharper(te, u), NEW t, Amounts(te, t), FM3(te, t) = "pass"
  PROVE  FM3(u, t) = "pass"
<1>1. /\ Emits(u, t) <=> Emits(te, t)
      /\ Burns(u, t) <=> Burns(te, t)
      /\ Reputation(u, t) <=> Reputation(te, t)
      /\ Capped(u, t) <=> Capped(te, t)
      /\ Scheduled(u, t) <=> Scheduled(te, t)
  BY ShapeSame
<1>2. ~Reputation(te, t)
  BY DEF FM3
<1>3. CASE ~Emits(te, t)
  BY <1>1, <1>2, <1>3 DEF FM3
<1>4. CASE Emits(te, t)
  <2>1. /\ ~RunsOut(te, t) /\ ~StopsAtCap(te, t) /\ ~(Burns(te, t) /\ HeldByCap(te, t))
        /\ ~Unburnt(te, t) /\ ~Unheld(te, t)
    BY <1>2, <1>4 DEF FM3
  <2>2. Burns(te, t)
    BY <2>1 DEF RunsOut, StopsAtCap, Unburnt
  <2>3. ~Short(te, t)
    <3>1. CASE Capped(te, t)
      BY <2>1, <2>2, <3>1 DEF HeldByCap
    <3>2. CASE ~Capped(te, t)
      BY <2>1, <3>2 DEF Unheld, Short, Steady
    <3> QED
      BY <3>1, <3>2
  <2>4. ~Short(u, t) /\ ~Unheld(u, t)
    BY <2>3, AmountsStay, ShortBefore, UnheldIsShort
  <2>5. /\ ~RunsOut(u, t) /\ ~StopsAtCap(u, t) /\ ~(Burns(u, t) /\ HeldByCap(u, t)) /\ ~Unburnt(u, t)
    BY <1>1, <2>2, <2>4 DEF RunsOut, StopsAtCap, HeldByCap, Unburnt
  <2> QED
    BY <1>1, <1>2, <1>4, <2>4, <2>5 DEF FM3
<1> QED
  BY <1>3, <1>4

(* A removal that no balance of the wider design lets cover its share of   *)
(* creation does not cover it after narrowing either: under a cap, ...     *)
LEMMA UncoveredUnderCap ==
  ASSUME NEW te, NEW u, Sharper(te, u), NEW t, Amounts(te, t), Certain(te, t), Capped(te, t),
         \A ab \in Balances(te, t) : Uncovered(te, Steady(te, t, ab[1], ab[2]), ab[2]),
         NEW eb \in Balances(u, t)
  PROVE  Uncovered(u, Steady(u, t, eb[1], eb[2]), eb[2])
<1> DEFINE F == Floor(te)
           x == eb[1]
           y == eb[2]
<1>1. F \in Nat /\ F \in {100, 105, 110} /\ Floor(u) = F /\ Capped(u, t)
  <2>1. Floor(te) \in {100, 105, 110}
    BY FloorIs DEF Sharper
  <2> QED
    BY <2>1, ShapeSame
<1>2. x \in Int /\ y \in Int
  BY WorstAtCorner
<1>3. ASSUME NEW e \in Nat, NEW b \in Nat, <<e, b>> \in Balances(te, t)
      PROVE  e > 0 /\ 100 * b < e * F /\ b > 0 /\ F > 100
  <2> DEFINE ab == <<e, b>>
             m == Steady(te, t, e, b)
  <2>1. ab \in Balances(te, t) /\ ab[1] = e /\ ab[2] = b
    BY <1>3
  <2> HIDE DEF ab
  <2>2. Uncovered(te, m, b)
    <3>1. Uncovered(te, Steady(te, t, ab[1], ab[2]), ab[2])
      BY <2>1
    <3> QED
      BY <2>1, <3>1
  <2>3. m > 0 /\ 100 * b < m * F
    BY <2>2 DEF Uncovered
  <2>4. Uncovered(te, e, b)
    BY <2>2, SteadyIsLess DEF Sharper
  <2>5. e > 0 /\ 100 * b < e * F
    BY <2>4 DEF Uncovered
  <2>6. m = Min({e, b})
    BY DEF Steady
  <2>7. m \in Int /\ m <= b
    <3>1. Min({e, b}) \in Int /\ Min({e, b}) <= b
      BY TwoEnds
    <3> HIDE DEF m
    <3> QED
      BY <2>6, <3>1
  <2> HIDE DEF m
  <2>8. b > 0
    BY <2>3, <2>7
  <2>9. F = 100 => m * F <= 100 * b
    BY <2>7
  <2>10. F # 100
    BY <1>1, <2>3, <2>7, <2>9
  <2> QED
    BY <1>1, <2>5, <2>8, <2>10
<1>5. x > 0
  <2>1. PICK e \in Nat, b \in Nat : <<e, b>> \in Balances(te, t) /\ 1 * e - 0 * b <= 1 * eb[1] - 0 * eb[2]
    <3>1. Undercut(te, t, eb, 1, 0)
      BY LeastAtCorner
    <3> QED
      BY <3>1 DEF Undercut
  <2>2. e > 0
    BY <1>3, <2>1
  <2> QED
    BY <1>2, <2>1, <2>2
<1>6. 100 * y < x * F
  <2>1. F \in Nat /\ 100 \in Nat
    BY <1>1
  <2> HIDE DEF F
  <2>2. PICK e \in Nat, b \in Nat : <<e, b>> \in Balances(te, t) /\ F * e - 100 * b <= F * eb[1] - 100 * eb[2]
    <3>1. Undercut(te, t, eb, F, 100)
      BY <2>1, LeastAtCorner
    <3> QED
      BY <3>1 DEF Undercut
  <2>3. 100 * b < e * F
    BY <1>3, <2>2
  <2>4. F * e - 100 * b <= F * x - 100 * y
    BY <2>2
  <2> HIDE DEF x, y
  <2>5. F * e = e * F /\ F * x = x * F /\ e * F \in Int /\ x * F \in Int
    BY <1>2, <2>1
  <2> QED
    BY <1>2, <2>3, <2>4, <2>5
<1>7. y > 0 /\ F > 100
  <2>1. PICK e \in Nat, b \in Nat : <<e, b>> \in Balances(te, t) /\ 0 * eb[1] - 1 * eb[2] <= 0 * e - 1 * b
    <3>1. Exceeded(te, t, eb, 0, 1)
      BY WorstAtCorner
    <3> QED
      BY <3>1 DEF Exceeded
  <2>2. b > 0 /\ F > 100
    BY <1>3, <2>1
  <2> QED
    BY <1>2, <2>1, <2>2
<1> DEFINE m == Min({x, y})
<1>8. Steady(u, t, x, y) = m
  BY <1>1 DEF Steady
<1>9. m \in {x, y}
  BY <1>2, TwoEnds
<1>10. 100 * y < y * F
  <2> HIDE DEF x, y, F
  <2>1. 101 * y <= F * y
    <3>1. 101 \in Int /\ F \in Int /\ 101 <= F /\ y \in Nat
      BY <1>1, <1>2, <1>7
    <3> QED
      BY <3>1, InProportion
  <2>2. F * y = y * F /\ F * y \in Int
    BY <1>1, <1>2
  <2> QED
    BY <1>2, <1>7, <2>1, <2>2
<1> HIDE DEF m, x, y, F
<1>11. m > 0 /\ 100 * y < m * F
  BY <1>5, <1>6, <1>7, <1>9, <1>10
<1>12. Uncovered(u, m, y)
  BY <1>1, <1>11 DEF Uncovered
<1> QED
  BY <1>8, <1>12 DEF x, y

(* ... and without one, wherever something is created.                     *)
LEMMA UncoveredUncapped ==
  ASSUME NEW te, NEW u, Sharper(te, u), NEW t, Amounts(te, t), Certain(te, t), ~Capped(te, t),
         \A ab \in Balances(te, t) : ab[1] > 0 => Uncovered(te, ab[1], ab[2]),
         NEW eb \in Balances(u, t), eb[1] > 0
  PROVE  Uncovered(u, eb[1], eb[2])
<1> DEFINE F == Floor(te)
           x == eb[1]
           y == eb[2]
<1>1. F \in Nat /\ Floor(u) = F
  BY ShapeSame, FloorIs DEF Sharper
<1>2. x \in Int /\ y \in Int /\ x > 0
  BY WorstAtCorner
<1>3. ASSUME F * x <= 100 * y PROVE FALSE
  <2>1. F \in Nat /\ 100 \in Nat /\ F * eb[1] <= 100 * eb[2]
    BY <1>1, <1>3
  <2> HIDE DEF F
  <2>2. Covering(te, t, F, 100)
    BY <2>1, CoveredBefore
  <2>3. PICK e \in Nat, b \in Nat : <<e, b>> \in Balances(te, t) /\ e > 0 /\ F * e <= 100 * b
    BY <2>2 DEF Covering
  <2> DEFINE ab == <<e, b>>
  <2>4. ab \in Balances(te, t) /\ ab[1] = e /\ ab[2] = b
    BY <2>3
  <2> HIDE DEF ab
  <2>5. Uncovered(te, e, b)
    BY <2>3, <2>4
  <2>6. 100 * b < e * F
    BY <2>5 DEF Uncovered, F
  <2>7. e * F = F * e /\ F * e \in Int
    BY <2>1
  <2> QED
    BY <2>3, <2>6, <2>7
<1>4. 100 * y < x * F
  <2> HIDE DEF F, x, y
  <2>1. F * x = x * F /\ F * x \in Int
    BY <1>1, <1>2
  <2> QED
    BY <1>2, <1>3, <2>1
<1> QED
  BY <1>1, <1>2, <1>4 DEF Uncovered

(* FM3: where no removal covers what is created and all rules are certain, *)
(* none does after narrowing, unless nothing is created any more.          *)
LEMMA FM3Fails ==
  ASSUME NEW te, NEW u, Sharper(te, u), NEW t, Amounts(te, t),
         Burns(te, t) => Certain(te, t) /\ Creates(u, t), FM3(te, t) = "fail", FM3Reach(te, t) = "false"
  PROVE  FM3(u, t) = "fail" /\ FM3Reach(u, t) = "false"
<1>1. /\ Emits(u, t) <=> Emits(te, t)
      /\ Burns(u, t) <=> Burns(te, t)
      /\ Reputation(u, t) <=> Reputation(te, t)
      /\ Capped(u, t) <=> Capped(te, t)
      /\ Scheduled(u, t) <=> Scheduled(te, t)
  BY ShapeSame
<1>2. ~Reputation(te, t) /\ Emits(te, t)
  BY DEF FM3
<1>3. ~Scheduled(te, t)
  BY <1>2 DEF FM3Reach
<1>4. CASE ~Burns(te, t)
  <2>1. ~Capped(te, t)
    BY <1>2, <1>3, <1>4 DEF FM3Reach
  <2>2. Unburnt(u, t) /\ ~RunsOut(u, t) /\ ~StopsAtCap(u, t)
    BY <1>1, <1>3, <1>4, <2>1 DEF Unburnt, RunsOut, StopsAtCap
  <2> QED
    BY <1>1, <1>2, <1>3, <1>4, <2>1, <2>2 DEF FM3, FM3Reach
<1>5. CASE Burns(te, t)
  <2>1. ~ \E eb \in Balances(te, t) :
            /\ ~Uncovered(te, Steady(te, t, eb[1], eb[2]), eb[2])
            /\ Capped(te, t) \/ eb[1] > 0
    BY <1>2, <1>3, <1>5 DEF FM3Reach
  <2>2. Certain(te, t) /\ Creates(u, t)
    BY <1>5
  <2>3. ASSUME Capped(te, t)
      PROVE  /\ Unheld(u, t)
             /\ \A eb \in Balances(u, t) : (Capped(u, t) \/ eb[1] > 0) => Uncovered(u, Steady(u, t, eb[1], eb[2]), eb[2])
    <3>1. \A eb \in Balances(te, t) : Uncovered(te, Steady(te, t, eb[1], eb[2]), eb[2])
      BY <2>1, <2>3
    <3>2. \A eb \in Balances(u, t) : Uncovered(u, Steady(u, t, eb[1], eb[2]), eb[2])
      BY <2>2, <2>3, <3>1, UncoveredUnderCap
    <3>3. Unheld(u, t)
      BY <3>2, SomeBalance DEF Unheld
    <3> QED
      BY <3>2, <3>3
  <2>4. ASSUME ~Capped(te, t)
      PROVE  /\ Unheld(u, t)
             /\ \A eb \in Balances(u, t) : (Capped(u, t) \/ eb[1] > 0) => Uncovered(u, Steady(u, t, eb[1], eb[2]), eb[2])
    <3>1. \A eb \in Balances(te, t) : eb[1] > 0 => Uncovered(te, eb[1], eb[2])
      BY <2>1, <2>4 DEF Steady
    <3>2. \A eb \in Balances(u, t) : eb[1] > 0 => Uncovered(u, eb[1], eb[2])
      BY <2>2, <2>4, <3>1, UncoveredUncapped
    <3>3. \A eb \in Balances(u, t) : Steady(u, t, eb[1], eb[2]) = eb[1]
      BY <1>1, <2>4 DEF Steady
    <3>4. Unheld(u, t)
      BY <2>2, <3>2, <3>3 DEF Unheld, Creates
    <3> QED
      BY <1>1, <2>4, <3>2, <3>3, <3>4
  <2>5. /\ Unheld(u, t)
        /\ \A eb \in Balances(u, t) : (Capped(u, t) \/ eb[1] > 0) => Uncovered(u, Steady(u, t, eb[1], eb[2]), eb[2])
    BY <2>3, <2>4
  <2>6. ~RunsOut(u, t) /\ ~StopsAtCap(u, t) /\ ~HeldByCap(u, t)
    BY <1>1, <1>3, <1>5, <2>5 DEF RunsOut, StopsAtCap, HeldByCap
  <2>7. FM3(u, t) = "fail"
    BY <1>1, <1>2, <2>5, <2>6 DEF FM3
  <2>8. FM3Reach(u, t) = "false"
    BY <1>1, <1>2, <1>3, <1>5, <2>5 DEF FM3Reach
  <2> QED
    BY <2>7, <2>8
<1> QED
  BY <1>4, <1>5

------------------------------------------------------------------------------
(* FM4: the share of contributors is the same before and after.           *)
LEMMA PhiSame ==
  ASSUME NEW te, NEW u, Sharper(te, u)
  PROVE  /\ PhiRange(u) = PhiRange(te) /\ Gap(u) = Gap(te) /\ (Rewarding(u) <=> Rewarding(te))
         /\ Verified(u) = Verified(te)
<1>1. u.tokens = te.tokens /\ u.token = te.token /\ u.agents = te.agents
  BY SameShape DEF Sharper
<1>2. Verified(u) = Verified(te)
  BY <1>1 DEF Verified
<1>3. PhiRange(u) = PhiRange(te)
  BY <1>1, <1>2 DEF PhiRange, ShareOf
<1>4. Gap(u) = Gap(te)
  BY <1>1 DEF Gap
<1>5. \A r : Resolve(r, u) = Resolve(r, te)
  BY ResolveSame
<1>6. Rewarding(u) <=> Rewarding(te)
  BY <1>1, <1>5 DEF Rewarding
<1> QED
  BY <1>2, <1>3, <1>4, <1>6

(* A range that is left alone lies within itself.                          *)
LEMMA InsideItself == ASSUME NEW r, Ordered(r) PROVE Inside(r, r)
  BY DEF Inside, Ordered

(* What is observed of a defection, narrowed.                              *)
LEMMA GammaInside ==
  ASSUME NEW te, NEW u, Sharper(te, u)
  PROVE  Inside(GammaRange(te), GammaRange(u)) /\ GammaRange(te).lo >= 0
<1>1. (Has(te, "gamma") <=> Has(u, "gamma")) /\ Verified(u) = Verified(te)
  BY SameShape, PhiSame DEF Has, Sharper
<1>2. CASE Has(te, "gamma")
  <2>1. "gamma" \in DOMAIN te.span
    BY <1>2 DEF Has
  <2>2. te.span["gamma"].lo >= 0
    BY <2>1 DEF Sharper, Formed, Shares
  <2>3. Inside(te.span["gamma"], u.span["gamma"])
    BY <2>1, SpanInside
  <2> QED
    BY <1>1, <1>2, <2>2, <2>3 DEF GammaRange
<1>3. CASE ~Has(te, "gamma") /\ Verified(te) # {}
  <2> DEFINE ver == Verified(te)
             f == [v \in ver |-> GammaTable[v]]
             rs == {GammaTable[v] : v \in ver}
  <2>1. GammaRange(te) = Hull(rs) /\ GammaRange(u) = Hull(rs)
    BY <1>1, <1>3 DEF GammaRange
  <2>2. DOMAIN f = ver /\ rs = {f[v] : v \in DOMAIN f} /\ rs # {}
    BY <1>3
  <2>3. IsFiniteSet(ver) /\ (\A r \in rs : Ordered(r)) /\ \A r \in rs : r.lo >= 0
    BY VerifiedAre, TablesAreNumbers, TablesAreAmounts DEF Sharper
  <2> HIDE DEF f, rs
  <2>4. IsFiniteSet(rs)
    BY <2>2, <2>3, FiniteRange
  <2>5. Ordered(Hull(rs)) /\ \E r \in rs : Hull(rs).lo = r.lo
    BY <2>2, <2>3, <2>4, HullIs
  <2> QED
    BY <2>1, <2>3, <2>5, InsideItself
<1>4. CASE ~Has(te, "gamma") /\ Verified(te) = {}
  <2>1. GammaRange(te) = [lo |-> 0, hi |-> 100] /\ GammaRange(u) = [lo |-> 0, hi |-> 100]
    BY <1>1, <1>4 DEF GammaRange
  <2> QED
    BY <2>1 DEF Inside, Ordered
<1> QED
  BY <1>2, <1>3, <1>4

(* The sanction, narrowed.                                                 *)
LEMMA SanctionInside ==
  ASSUME NEW te, NEW u, Sharper(te, u)
  PROVE  Inside(SanctionRange(te), SanctionRange(u)) /\ SanctionRange(te).lo >= 0
<1>1. (Has(te, "S") <=> Has(u, "S")) /\ u.govern = te.govern
  BY SameShape DEF Has, Sharper
<1>2. CASE Has(te, "S")
  <2>1. "S" \in DOMAIN te.span
    BY <1>2 DEF Has
  <2>2. te.span["S"].lo >= 0
    BY <2>1 DEF Sharper, Formed, Shares
  <2>3. Inside(te.span["S"], u.span["S"])
    BY <2>1, SpanInside
  <2> QED
    BY <1>1, <1>2, <2>2, <2>3 DEF SanctionRange
<1>3. CASE ~Has(te, "S")
  <2> DEFINE s == SanctionTable[te.govern.sanction]
             x == s - 10
             y == s + 10
             l == Max({0, x})
             h == Min({100, y})
  <2>1. SanctionRange(te) = [lo |-> l, hi |-> h] /\ SanctionRange(u) = [lo |-> l, hi |-> h]
    BY <1>1, <1>3 DEF SanctionRange
  <2>2. s \in Int /\ s >= 0 /\ s <= 100
    BY TablesAreNumbers, TablesAreAmounts DEF Sharper, Formed
  <2> HIDE DEF s
  <2>3. x \in Int /\ y \in Int /\ 0 \in Int /\ 100 \in Int /\ x <= 100 /\ x <= y /\ y >= 0
    BY <2>2
  <2> HIDE DEF x, y
  <2>4. l \in {0, x} /\ l >= 0
    BY <2>3, TwoEnds
  <2>5. h \in {100, y}
    BY <2>3, TwoEnds
  <2> HIDE DEF l, h
  <2> QED
    BY <2>1, <2>3, <2>4, <2>5 DEF Inside, Ordered
<1> QED
  BY <1>2, <1>3

(* Products of two ranges' ends, in order                                  *)
LEMMA EndsGrow ==
  ASSUME NEW r, NEW s, NEW q, NEW p, Inside(r, q), Inside(s, p), r.lo >= 0, s.lo >= 0
  PROVE  /\ r.lo * s.lo \in Nat /\ q.lo * p.lo \in Nat /\ q.hi * p.hi \in Nat /\ r.hi * s.hi \in Nat
         /\ r.lo * s.lo <= q.lo * p.lo /\ q.lo * p.lo <= q.hi * p.hi /\ q.hi * p.hi <= r.hi * s.hi
<1>1. /\ r.lo \in Nat /\ r.hi \in Nat /\ q.lo \in Nat /\ q.hi \in Nat /\ r.lo <= q.lo /\ q.lo <= q.hi /\ q.hi <= r.hi
      /\ s.lo \in Nat /\ s.hi \in Nat /\ p.lo \in Nat /\ p.hi \in Nat /\ s.lo <= p.lo /\ p.lo <= p.hi /\ p.hi <= s.hi
  BY DEF Inside, Ordered
<1>2. r.lo * s.lo \in Nat /\ q.lo * p.lo \in Nat /\ r.lo * s.lo <= q.lo * p.lo
  BY <1>1, ProductGrows
<1>3. q.hi * p.hi \in Nat /\ q.lo * p.lo <= q.hi * p.hi
  BY <1>1, ProductGrows
<1>4. r.hi * s.hi \in Nat /\ q.hi * p.hi <= r.hi * s.hi
  BY <1>1, ProductGrows
<1> QED
  BY <1>2, <1>3, <1>4

(* What never tempts does not come to tempt, and what always does still    *)
(* does.                                                                   *)
LEMMA TemptingSharper ==
  ASSUME NEW te, NEW u, Sharper(te, u)
  PROVE  /\ Tempting(u, "lo") => Tempting(te, "lo")
         /\ Tempting(te, "hi") => Tempting(u, "hi")
         /\ Tempting(u, "hi") => Tempting(u, "lo")
<1> DEFINE r == GammaRange(te)
           s == SanctionRange(te)
           q == GammaRange(u)
           p == SanctionRange(u)
           g == 100 * Gap(te)
<1>1. Inside(r, q) /\ Inside(s, p) /\ r.lo >= 0 /\ s.lo >= 0
  BY GammaInside, SanctionInside
<1>2. g \in Int
  <2>1. Gap(te) \in Int
    BY GapIsInt DEF Sharper
  <2> QED
    BY <2>1
<1>3. /\ Tempting(te, "lo") <=> r.lo * s.lo <= g
      /\ Tempting(te, "hi") <=> r.hi * s.hi <= g
  BY DEF Tempting
<1>4. /\ Tempting(u, "lo") <=> q.lo * p.lo <= g
      /\ Tempting(u, "hi") <=> q.hi * p.hi <= g
  BY PhiSame DEF Tempting
<1> HIDE DEF r, s, q, p, g
<1> DEFINE a == r.lo * s.lo
           b == q.lo * p.lo
           c == q.hi * p.hi
           d == r.hi * s.hi
<1>5. a \in Nat /\ b \in Nat /\ c \in Nat /\ d \in Nat /\ a <= b /\ b <= c /\ c <= d
  BY <1>1, EndsGrow
<1>6. /\ Tempting(te, "lo") <=> a <= g
      /\ Tempting(te, "hi") <=> d <= g
      /\ Tempting(u, "lo") <=> b <= g
      /\ Tempting(u, "hi") <=> c <= g
  BY <1>3, <1>4
<1> HIDE DEF a, b, c, d
<1> QED
  BY <1>2, <1>5, <1>6

(* The demand that is to be covered, narrowed.                             *)
LEMMA DemandInside ==
  ASSUME NEW te, NEW u, Sharper(te, u)
  PROVE  /\ Demand(te, "lo") \in Int /\ Demand(te, "hi") \in Int /\ Demand(u, "lo") \in Int /\ Demand(u, "hi") \in Int
         /\ Demand(te, "lo") <= Demand(u, "lo") /\ Demand(u, "lo") <= Demand(u, "hi") /\ Demand(u, "hi") <= Demand(te, "hi")
<1> DEFINE r == te.span["d"]
           s == u.span["d"]
           f == ProportionalityFactor[te.nfr.proportionality]
           a == 100 * r.lo
           b == 100 * s.lo
           c == 100 * s.hi
           d == 100 * r.hi
<1>1. Inside(r, s)
  BY SpanInside DEF Sharper, Formed
<1>2. f \in Nat
  <2>1. te.nfr.proportionality \in 1 .. 5
    BY DEF Sharper, Formed
  <2>2. f \in Int /\ f >= 0
    BY <2>1, TablesAreNumbers, TablesAreAmounts
  <2> HIDE DEF f
  <2> QED
    BY <2>2
<1>3. /\ Demand(te, "lo") = a * f /\ Demand(te, "hi") = d * f
      /\ Demand(u, "lo") = b * f /\ Demand(u, "hi") = c * f
  BY SameShape DEF Sharper, Demand
<1> HIDE DEF r, s, f
<1>4. a \in Int /\ b \in Int /\ c \in Int /\ d \in Int /\ a <= b /\ b <= c /\ c <= d
  BY <1>1 DEF Inside, Ordered
<1> HIDE DEF a, b, c, d
<1>5. a * f \in Int /\ b * f \in Int /\ a * f <= b * f
  BY <1>2, <1>4, InProportion
<1>6. b * f <= c * f
  BY <1>2, <1>4, InProportion
<1>7. c * f \in Int /\ d * f \in Int /\ c * f <= d * f
  BY <1>2, <1>4, InProportion
<1> QED
  BY <1>3, <1>5, <1>6, <1>7

(* Enough contributors stay enough, and too few too few.                   *)
LEMMA GivingSharper ==
  ASSUME NEW te, NEW u, Sharper(te, u), Varieties(te) # {}
  PROVE  /\ FewGive(u) => FewGive(te)
         /\ ~EnoughGive(te) => ~EnoughGive(u)
         /\ ~EnoughGive(u) => FewGive(u)
<1> DEFINE r == PhiRange(te)
           s == Hull(Varieties(te))
           p == Hull(Varieties(u))
<1>1. Inside(r, r) /\ r.lo >= 0 /\ PhiRange(u) = r
  BY PhiIs, PhiSame, InsideItself DEF Sharper
<1>2. Inside(s, p) /\ s.lo >= 0
  <2>1. Inside(s, p) /\ s.lo >= 1
    BY VarietiesInside
  <2> HIDE DEF s, p
  <2> QED
    BY <2>1 DEF Inside, Ordered
<1>3. /\ FewGive(te) <=> r.lo * s.lo < Demand(te, "hi")
      /\ EnoughGive(te) <=> r.hi * s.hi >= Demand(te, "lo")
  BY DEF FewGive, EnoughGive
<1>4. /\ FewGive(u) <=> r.lo * p.lo < Demand(u, "hi")
      /\ EnoughGive(u) <=> r.hi * p.hi >= Demand(u, "lo")
  BY <1>1 DEF FewGive, EnoughGive
<1> HIDE DEF r, s, p
<1> DEFINE a == r.lo * s.lo
           b == r.lo * p.lo
           c == r.hi * p.hi
           d == r.hi * s.hi
           ml == Demand(te, "lo")
           nl == Demand(u, "lo")
           nh == Demand(u, "hi")
           mh == Demand(te, "hi")
<1>5. a \in Nat /\ b \in Nat /\ c \in Nat /\ d \in Nat /\ a <= b /\ b <= c /\ c <= d
  BY <1>1, <1>2, EndsGrow
<1>6. ml \in Int /\ nl \in Int /\ nh \in Int /\ mh \in Int /\ ml <= nl /\ nl <= nh /\ nh <= mh
  BY DemandInside
<1>7. /\ (FewGive(te) <=> a < mh) /\ (EnoughGive(te) <=> d >= ml)
      /\ (FewGive(u) <=> b < nh) /\ (EnoughGive(u) <=> c >= nl)
  BY <1>3, <1>4
<1> HIDE DEF a, b, c, d, ml, nl, nh, mh
<1> QED
  BY <1>5, <1>6, <1>7

(* FM4: a design without free riders stays without.                        *)
LEMMA FM4Passes ==
  ASSUME NEW te, NEW u, Sharper(te, u), FM4(te) = "pass"
  PROVE  FM4(u) = "pass"
<1>1. Rewarding(te) /\ Varieties(te) # {} /\ ~FewGive(te) /\ ~Tempting(te, "lo")
  BY DEF FM4
<1>2. Rewarding(u) /\ Varieties(u) # {}
  BY <1>1, PhiSame, VarietiesInside
<1>3. ~FewGive(u) /\ ~Tempting(u, "lo")
  BY <1>1, GivingSharper, TemptingSharper
<1> QED
  BY <1>2, <1>3 DEF FM4

(* FM4: free riders that no value prevents are not prevented after         *)
(* narrowing.                                                              *)
LEMMA FM4Fails ==
  ASSUME NEW te, NEW u, Sharper(te, u), FM4(te) = "fail", FM4Reach(te) = "false"
  PROVE  FM4(u) = "fail" /\ FM4Reach(u) = "false"
<1>1. Rewarding(te) /\ Varieties(te) # {} /\ ~(EnoughGive(te) /\ ~Tempting(te, "hi"))
  BY DEF FM4, FM4Reach
<1>2. Rewarding(u) /\ Varieties(u) # {}
  BY <1>1, PhiSame, VarietiesInside
<1>3. ~(EnoughGive(u) /\ ~Tempting(u, "hi")) /\ (FewGive(u) \/ Tempting(u, "lo"))
  BY <1>1, GivingSharper, TemptingSharper
<1> QED
  BY <1>2, <1>3 DEF FM4, FM4Reach

------------------------------------------------------------------------------
(* FM5                                                                     *)
LEMMA ContactsInside ==
  ASSUME NEW te, NEW u, Sharper(te, u), Varieties(te) # {}
  PROVE  LET a == Hull(Varieties(te)).lo * te.span["d"].lo
             b == Hull(Varieties(u)).lo * u.span["d"].lo
         IN /\ a \in Nat /\ b \in Nat /\ Contacts(u) \in Nat /\ Contacts(te) \in Nat
            /\ a <= b /\ 2 * b <= Contacts(u) /\ Contacts(u) <= Contacts(te)
<1> DEFINE r == Hull(Varieties(te))
           q == Hull(Varieties(u))
           s == te.span["d"]
           p == u.span["d"]
           a == r.lo * s.lo
           b == q.lo * p.lo
           c == q.hi * p.hi
           d == r.hi * s.hi
<1>1. Inside(r, q) /\ r.lo >= 0
  <2>1. Inside(r, q) /\ r.lo >= 1
    BY VarietiesInside
  <2> HIDE DEF r, q
  <2> QED
    BY <2>1 DEF Inside, Ordered
<1>2. Inside(s, p) /\ s.lo >= 0
  <2>1. "d" \in DOMAIN te.span /\ s.lo >= 0
    BY DEF Sharper, Formed
  <2> QED
    BY <2>1, SpanInside
<1>3. Contacts(te) = 2 * r.hi * s.hi /\ Contacts(u) = 2 * q.hi * p.hi
  BY DEF Contacts
<1> HIDE DEF r, q, s, p
<1>4. a \in Nat /\ b \in Nat /\ c \in Nat /\ d \in Nat /\ a <= b /\ b <= c /\ c <= d
  BY <1>1, <1>2, EndsGrow
<1>5. 2 * r.hi * s.hi = 2 * d /\ 2 * q.hi * p.hi = 2 * c
  BY <1>1, <1>2 DEF Inside, Ordered
<1>6. Contacts(te) = 2 * d /\ Contacts(u) = 2 * c
  BY <1>3, <1>5
<1> HIDE DEF a, b, c, d
<1>7. 2 * b <= 2 * c /\ 2 * c <= 2 * d /\ 2 * c \in Nat /\ 2 * d \in Nat
  BY <1>4
<1> QED
  BY <1>4, <1>6, <1>7 DEF a, b, r, s, q, p

(* The number of participants, narrowed, is at least 1.                    *)
LEMMA ParticipantsInside ==
  ASSUME NEW te, NEW u, Sharper(te, u)
  PROVE  /\ te.span["N"].lo \in Nat /\ u.span["N"].lo \in Nat /\ u.span["N"].hi \in Nat /\ te.span["N"].hi \in Nat
         /\ 1 <= te.span["N"].lo /\ te.span["N"].lo <= u.span["N"].lo
         /\ u.span["N"].lo <= u.span["N"].hi /\ u.span["N"].hi <= te.span["N"].hi
         /\ Max({1, te.span["N"].lo}) = te.span["N"].lo /\ Max({1, u.span["N"].lo}) = u.span["N"].lo
<1> DEFINE m == te.span["N"].lo
           n == u.span["N"].lo
<1>1. Inside(te.span["N"], u.span["N"]) /\ 1 <= m
  <2>1. "N" \in DOMAIN te.span /\ 1 <= m
    BY DEF Sharper, Formed
  <2> QED
    BY <2>1, SpanInside
<1>2. m \in Nat /\ n \in Nat /\ 1 <= m /\ m <= n /\ u.span["N"].hi \in Nat /\ te.span["N"].hi \in Nat
      /\ n <= u.span["N"].hi /\ u.span["N"].hi <= te.span["N"].hi
  BY <1>1 DEF Inside, Ordered
<1>3. ASSUME NEW k \in Int, 1 <= k PROVE Max({1, k}) = k
  <2>1. Max({1, k}) \in {1, k} /\ Max({1, k}) >= k
    BY TwoEnds
  <2> QED
    BY <1>3, <2>1
<1>4. Max({1, m}) = m /\ Max({1, n}) = n
  <2> HIDE DEF m, n
  <2>1. m \in Int /\ n \in Int /\ 1 <= m /\ 1 <= n
    BY <1>2
  <2> QED
    BY <1>3, <2>1
<1> QED
  BY <1>2, <1>4

(* FM5: a critical mass that is reached for certain is reached after       *)
(* narrowing.                                                              *)
LEMMA FM5Passes ==
  ASSUME NEW te, NEW u, Sharper(te, u), FM5(te) = "pass"
  PROVE  FM5(u) = "pass"
<1>1. Varieties(te) # {} /\ Varieties(u) # {} /\ (Connected(te) \/ ~Sparse(te))
  BY VarietiesInside DEF FM5
<1> DEFINE m == te.span["N"].lo
           n == u.span["N"].lo
<1>2. m \in Nat /\ n \in Nat /\ m <= n /\ Max({1, m}) = m /\ Max({1, n}) = n
  BY ParticipantsInside
<1>3. Contacts(u) \in Nat /\ Contacts(te) \in Nat /\ Contacts(u) <= Contacts(te)
  BY <1>1, ContactsInside
<1>4. Degree(te) \in Int
  BY DegreeIsInt DEF Sharper
<1>5. (Connected(te) => Degree(te) >= Contacts(te) /\ Degree(te) <= m - 1)
      /\ (Sparse(te) <=> m < Contacts(te) + 1) /\ (Sparse(u) <=> n < Contacts(u) + 1)
  BY <1>2 DEF Connected, Sparse
<1> HIDE DEF m, n
<1>6. ~Sparse(u)
  BY <1>1, <1>2, <1>3, <1>4, <1>5
<1> QED
  BY <1>1, <1>6 DEF FM5

(* FM5: one that is out of reach stays out of reach.                       *)
LEMMA FM5Fails ==
  ASSUME NEW te, NEW u, Sharper(te, u), FM5(te) = "fail", FM5Reach(te) = "false"
  PROVE  FM5(u) = "fail" /\ FM5Reach(u) = "false"
<1>1. Varieties(te) # {} /\ Varieties(u) # {} /\ te.topology = "well_mixed" /\ u.topology = te.topology
  BY VarietiesInside, SameShape DEF FM5, Sharper
<1> DEFINE n == u.span["N"].lo
           h == u.span["N"].hi
           k == te.span["N"].hi
           x == 2 * Hull(Varieties(te)).lo * te.span["d"].lo
           y == 2 * Hull(Varieties(u)).lo * u.span["d"].lo
           a == Hull(Varieties(te)).lo * te.span["d"].lo
           b == Hull(Varieties(u)).lo * u.span["d"].lo
<1>2. n \in Nat /\ h \in Nat /\ k \in Nat /\ n <= h /\ h <= k /\ Max({1, n}) = n
  BY ParticipantsInside
<1>3. a \in Nat /\ b \in Nat /\ Contacts(u) \in Nat /\ a <= b /\ 2 * b <= Contacts(u)
  BY <1>1, ContactsInside
<1>4. x = 2 * a /\ y = 2 * b
  <2>1. /\ Hull(Varieties(te)).lo \in Int /\ Hull(Varieties(u)).lo \in Int
        /\ te.span["d"].lo \in Int /\ u.span["d"].lo \in Int
    <3>1. Inside(te.span["d"], u.span["d"])
      BY SpanInside DEF Sharper, Formed
    <3>2. Inside(Hull(Varieties(te)), Hull(Varieties(u)))
      BY <1>1, VarietiesInside
    <3> QED
      BY <3>1, <3>2 DEF Inside, Ordered
  <2> QED
    BY <2>1
<1>5. ~(k >= x + 1)
  BY <1>1 DEF FM5Reach
<1>6. (FM5Reach(u) = IF h >= y + 1 THEN "true" ELSE "false") /\ (Sparse(u) <=> n < Contacts(u) + 1)
  BY <1>1, <1>2 DEF FM5Reach, Sparse
<1> HIDE DEF n, h, k, x, y, a, b
<1>7. FM5Reach(u) = "false" /\ Sparse(u)
  BY <1>2, <1>3, <1>4, <1>5, <1>6
<1>8. ~Connected(u)
  BY <1>1 DEF Connected
<1> QED
  BY <1>1, <1>7, <1>8 DEF FM5

------------------------------------------------------------------------------
(* FM6: what is known of the concentration of votes does not change, and   *)
(* its range only shrinks.                                                 *)
Tighter(G, H) == (G = {} <=> H = {}) /\ \A g \in G, h \in H : Inside(g, h)

(* The effective Gini coefficient, in each way of weighing votes: 100      *)
(* percent of a share is not exceeded, so no factor is below zero.         *)
LEMMA GiniInside ==
  ASSUME NEW te, NEW u, Sharper(te, u)
  PROVE  Tighter(EffectiveGini(te), EffectiveGini(u))
<1> DEFINE all == [lo |-> 100, hi |-> 100]
           less(d) == [lo |-> 100 - d.span["cap_fraction"].hi, hi |-> 100 - d.span["cap_fraction"].lo]
           locked(d) == d.span["avg_lock_fraction"]
           held(d, p, share) == {Times(d.span[q], share) : q \in {p} \cap DOMAIN d.span}
           squared(d) == {[lo |-> d.span[q].lo * 50, hi |-> d.span[q].hi * 70] : q \in {"gini"} \cap DOMAIN d.span}
           w == te.govern.weighting
<1>1. u.govern = te.govern /\ DOMAIN u.span = DOMAIN te.span /\ \A p : Has(u, p) <=> Has(te, p)
  BY SameShape DEF Sharper, Has
<1>2. \A p \in Shares \cap DOMAIN te.span :
        Inside(te.span[p], u.span[p]) /\ te.span[p].lo >= 0 /\ te.span[p].hi <= 100
  BY SpanInside DEF Sharper, Formed
<1>3. Inside(all, all)
  BY DEF Inside, Ordered
<1>4. ASSUME NEW p \in Shares, NEW r, NEW s, Inside(r, s), r.lo >= 0
      PROVE  Tighter(held(te, p, r), held(u, p, s))
  <2>1. CASE p \notin DOMAIN te.span
    <3>1. held(te, p, r) = {} /\ held(u, p, s) = {}
      BY <1>1, <2>1
    <3> HIDE DEF held
    <3> QED
      BY <3>1 DEF Tighter
  <2>2. CASE p \in DOMAIN te.span
    <3> DEFINE g == Times(te.span[p], r)
               h == Times(u.span[p], s)
    <3>1. held(te, p, r) = {g} /\ held(u, p, s) = {h}
      BY <1>1, <2>2
    <3>2. Inside(te.span[p], u.span[p]) /\ te.span[p].lo >= 0
      BY <1>2, <2>2
    <3>3. Inside(g, h)
      BY <1>4, <3>2, TimesInside
    <3> HIDE DEF held, g, h
    <3> QED
      BY <3>1, <3>3 DEF Tighter
  <2> QED
    BY <2>1, <2>2
<1>5. Tighter(squared(te), squared(u))
  <2>1. CASE "gini" \notin DOMAIN te.span
    <3>1. squared(te) = {} /\ squared(u) = {}
      BY <1>1, <2>1
    <3> HIDE DEF squared
    <3> QED
      BY <3>1 DEF Tighter
  <2>2. CASE "gini" \in DOMAIN te.span
    <3> DEFINE g == [lo |-> te.span["gini"].lo * 50, hi |-> te.span["gini"].hi * 70]
               h == [lo |-> u.span["gini"].lo * 50, hi |-> u.span["gini"].hi * 70]
    <3>1. squared(te) = {g} /\ squared(u) = {h}
      BY <1>1, <2>2
    <3>2. Inside(te.span["gini"], u.span["gini"]) /\ te.span["gini"].lo >= 0
      BY <1>2, <2>2 DEF Shares
    <3>3. Inside(g, h)
      BY <3>2 DEF Inside, Ordered
    <3> HIDE DEF squared, g, h
    <3> QED
      BY <3>1, <3>3 DEF Tighter
  <2> QED
    BY <2>1, <2>2
<1>6. Has(te, "cap_fraction") => Inside(less(te), less(u)) /\ less(te).lo >= 0
  <2> HAVE Has(te, "cap_fraction")
  <2>1. /\ Inside(te.span["cap_fraction"], u.span["cap_fraction"])
        /\ te.span["cap_fraction"].lo >= 0 /\ te.span["cap_fraction"].hi <= 100
    BY <1>2 DEF Has, Shares
  <2> QED
    BY <2>1 DEF Inside, Ordered
<1>7. Has(te, "avg_lock_fraction") => Inside(locked(te), locked(u)) /\ locked(te).lo >= 0
  BY <1>2 DEF Has, Shares
<1>8. all.lo >= 0 /\ {"gini", "delegate_gini", "reputation_gini"} \subseteq Shares
  BY DEF Shares
<1>9. CASE w = "quadratic"
  <2>1. EffectiveGini(te) = squared(te) /\ EffectiveGini(u) = squared(u)
    BY <1>1, <1>9 DEF EffectiveGini
  <2> HIDE DEF squared
  <2> QED
    BY <1>5, <2>1
<1>10. CASE w = "capped"
  <2> DEFINE r == IF Has(te, "cap_fraction") THEN less(te) ELSE all
             s == IF Has(te, "cap_fraction") THEN less(u) ELSE all
  <2>1. EffectiveGini(te) = held(te, "gini", r) /\ EffectiveGini(u) = held(u, "gini", s)
    BY <1>1, <1>10 DEF EffectiveGini
  <2>2. Inside(r, s) /\ r.lo >= 0
    BY <1>3, <1>6, <1>8
  <2> HIDE DEF held, r, s
  <2> QED
    BY <1>4, <1>8, <2>1, <2>2
<1>11. CASE w = "time_locked"
  <2> DEFINE r == IF Has(te, "avg_lock_fraction") THEN locked(te) ELSE all
             s == IF Has(te, "avg_lock_fraction") THEN locked(u) ELSE all
  <2>1. EffectiveGini(te) = held(te, "gini", r) /\ EffectiveGini(u) = held(u, "gini", s)
    BY <1>1, <1>11 DEF EffectiveGini
  <2>2. Inside(r, s) /\ r.lo >= 0
    BY <1>3, <1>7, <1>8
  <2> HIDE DEF held, r, s
  <2> QED
    BY <1>4, <1>8, <2>1, <2>2
<1>12. CASE w = "delegated" /\ Has(te, "delegate_gini")
  <2>1. /\ EffectiveGini(te) = {Times(te.span["delegate_gini"], all)}
        /\ EffectiveGini(u) = {Times(u.span["delegate_gini"], all)}
    BY <1>1, <1>12 DEF EffectiveGini
  <2>2. /\ held(te, "delegate_gini", all) = {Times(te.span["delegate_gini"], all)}
        /\ held(u, "delegate_gini", all) = {Times(u.span["delegate_gini"], all)}
    BY <1>1, <1>12 DEF Has
  <2> HIDE DEF held, all
  <2> QED
    BY <1>3, <1>4, <1>8, <2>1, <2>2
<1>13. CASE w = "reputation"
  <2>1. EffectiveGini(te) = held(te, "reputation_gini", all) /\ EffectiveGini(u) = held(u, "reputation_gini", all)
    BY <1>1, <1>13 DEF EffectiveGini
  <2> HIDE DEF held, all
  <2> QED
    BY <1>3, <1>4, <1>8, <2>1
<1>14. CASE w \notin {"quadratic", "capped", "time_locked", "reputation"} /\ ~(w = "delegated" /\ Has(te, "delegate_gini"))
  <2>1. EffectiveGini(te) = held(te, "gini", all) /\ EffectiveGini(u) = held(u, "gini", all)
    BY <1>1, <1>14 DEF EffectiveGini
  <2> HIDE DEF held, all
  <2> QED
    BY <1>3, <1>4, <1>8, <2>1
<1> QED
  BY <1>9, <1>10, <1>11, <1>12, <1>13, <1>14

(* FM6: votes that are equal enough stay so, and who decides is not a      *)
(* range.                                                                  *)
LEMMA FM6Passes ==
  ASSUME NEW te, NEW u, Sharper(te, u), FM6(te) = "pass"
  PROVE  FM6(u) = "pass"
<1>1. te.govern.decisions # 0 /\ ~Captured(te) /\ ~Unequal(te)
  BY DEF FM6
<1>2. u.govern = te.govern
  BY SameShape DEF Sharper
<1>3. ~Unequal(u)
  <2> SUFFICES ASSUME NEW h \in EffectiveGini(u), h.hi > 100 * GiniThreshold PROVE FALSE
    BY DEF Unequal
  <2>1. PICK g \in EffectiveGini(te) : Inside(g, h)
    BY GiniInside DEF Tighter
  <2>2. g.hi > 100 * GiniThreshold
    BY <2>1 DEF Inside, Ordered, GiniThreshold
  <2> QED
    BY <1>1, <2>2 DEF Unequal
<1> QED
  BY <1>1, <1>2, <1>3 DEF FM6, Captured

(* FM6: capture stays, and so does inequality that no value removes; where *)
(* capture is meant, see SharpenOnly.                                      *)
LEMMA FM6Fails ==
  ASSUME NEW te, NEW u, Sharper(te, u), ~Excused(te), FM6(te) = "fail", FM6Reach(te) = "false"
  PROVE  FM6(u) = "fail" /\ FM6Reach(u) = "false"
<1>1. u.govern = te.govern /\ u.nfr = te.nfr
  BY SameShape DEF Sharper
<1>2. ~Excused(u) /\ (Captured(u) <=> Captured(te))
  BY <1>1 DEF Excused, Captured
<1>3. CASE te.govern.decisions > 0 /\ Captured(te)
  <2>1. te.govern.decisions # 0
    BY <1>3 DEF Sharper, Formed
  <2> QED
    BY <1>1, <1>2, <1>3, <2>1 DEF FM6, FM6Reach
<1>4. CASE ~(te.govern.decisions > 0 /\ Captured(te))
  <2>1. PICK g \in EffectiveGini(te) : ~(g.lo <= 100 * GiniThreshold)
    BY <1>4 DEF FM6Reach
  <2>2. PICK h \in EffectiveGini(u) : TRUE
    BY <2>1, GiniInside DEF Tighter
  <2>3. Inside(g, h)
    BY <2>1, <2>2, GiniInside DEF Tighter
  <2>4. ~(h.lo <= 100 * GiniThreshold) /\ h.hi > 100 * GiniThreshold
    BY <2>1, <2>3 DEF Inside, Ordered, GiniThreshold
  <2>5. FM6Reach(u) = "false"
    BY <1>1, <1>2, <1>4, <2>2, <2>4 DEF FM6Reach
  <2>6. Unequal(u)
    BY <2>2, <2>4 DEF Unequal
  <2>7. FM6(u) = "fail"
    BY <1>2, <2>6 DEF FM6
  <2> QED
    BY <2>5, <2>7
<1> QED
  BY <1>3, <1>4

------------------------------------------------------------------------------
(* What the checks leave standing: a check that passes still passes on a   *)
(* sharper design, and one that nothing can satisfy still fails.           *)
LEMMA PassStays ==
  ASSUME NEW te, NEW u, Sharper(te, u), NEW fm \in Modes, NEW t, fm \in Balanced => Amounts(te, t),
         Check(te, fm, t) = "pass"
  PROVE  Check(u, fm, t) = "pass"
<1>1. CASE fm = "FM1"
  BY <1>1, FM1Passes DEF Check, Balanced
<1>2. CASE fm = "FM2"
  BY <1>2, FM2Passes DEF Check
<1>3. CASE fm = "FM3"
  BY <1>3, FM3Passes DEF Check, Balanced
<1>4. CASE fm = "FM4"
  BY <1>4, FM4Passes DEF Check
<1>5. CASE fm = "FM5"
  BY <1>5, FM5Passes DEF Check
<1>6. CASE fm = "FM6"
  BY <1>6, FM6Passes DEF Check
<1> QED
  BY <1>1, <1>2, <1>3, <1>4, <1>5, <1>6 DEF Modes, PerToken

(* What is broken in a check lasts, as SharpenOnly has it.                 *)
Enduring(te, u, fm, t) == Lasts(te, u, [fm |-> fm, subject |-> t])

(* The conditions are those of SharpenOnly: amounts where creation is      *)
(* weighed against removal, certain rules, something still created, and    *)
(* capture that is not meant.                                              *)
LEMMA FailStays ==
  ASSUME NEW te, NEW u, Sharper(te, u), NEW fm \in Modes, NEW t, fm \in Balanced => Amounts(te, t),
         Enduring(te, u, fm, t), Check(te, fm, t) = "fail", Reach(te, fm, t, "fail") = "false"
  PROVE  Check(u, fm, t) = "fail" /\ Reach(u, fm, t, "fail") = "false"
<1>1. CASE fm = "FM1"
  <2>1. Amounts(te, t) /\ Certain(te, t) /\ FM1(te, t) = "fail" /\ FM1Reach(te, t) = "false"
    BY <1>1 DEF Check, Reach, Balanced, Enduring, Lasts
  <2>2. FM1(u, t) = "fail" /\ FM1Reach(u, t) = "false"
    BY <2>1, FM1Fails
  <2> QED
    BY <1>1, <2>2 DEF Check, Reach
<1>2. CASE fm = "FM2"
  <2>1. FM2(te, t) = "fail" /\ FM2Reach(te, t) = "false"
    BY <1>2 DEF Check, Reach
  <2>2. FM2(u, t) = "fail" /\ FM2Reach(u, t) = "false"
    BY <2>1, FM2Fails
  <2> QED
    BY <1>2, <2>2 DEF Check, Reach
<1>3. CASE fm = "FM3"
  <2>1. Amounts(te, t) /\ FM3(te, t) = "fail" /\ FM3Reach(te, t) = "false"
    BY <1>3 DEF Check, Reach, Balanced
  <2>3. Burns(te, t) => Certain(te, t) /\ Creates(u, t)
    BY <1>3 DEF Enduring, Lasts
  <2>2. FM3(u, t) = "fail" /\ FM3Reach(u, t) = "false"
    BY <2>1, <2>3, FM3Fails
  <2> QED
    BY <1>3, <2>2 DEF Check, Reach
<1>4. CASE fm = "FM4"
  <2>1. FM4(te) = "fail" /\ FM4Reach(te) = "false"
    BY <1>4 DEF Check, Reach
  <2>2. FM4(u) = "fail" /\ FM4Reach(u) = "false"
    BY <2>1, FM4Fails
  <2> QED
    BY <1>4, <2>2 DEF Check, Reach
<1>5. CASE fm = "FM5"
  <2>1. FM5(te) = "fail" /\ FM5Reach(te) = "false"
    BY <1>5 DEF Check, Reach
  <2>2. FM5(u) = "fail" /\ FM5Reach(u) = "false"
    BY <2>1, FM5Fails
  <2> QED
    BY <1>5, <2>2 DEF Check, Reach
<1>6. CASE fm = "FM6"
  <2>1. FM6(te) = "fail" /\ FM6Reach(te) = "false"
    BY <1>6 DEF Check, Reach
  <2>2. FM6(u) = "fail" /\ FM6Reach(u) = "false"
    BY <1>6, <2>1, FM6Fails DEF Enduring, Lasts
  <2> QED
    BY <1>6, <2>2 DEF Check, Reach
<1> QED
  BY <1>1, <1>2, <1>3, <1>4, <1>5, <1>6 DEF Modes, PerToken

(* What roles and impossible rates leave of a check's verdict.             *)
Stands(te, fm, t) == /\ fm \in PerToken => ~Reputation(te, t) /\ ~(Ruling(te, t) /\ fm = "FM2")
                     /\ fm \in Balanced => ~Impossible(te, t)

(* A check gives one of the five statuses.                                 *)
LEMMA CheckIs == ASSUME NEW te, NEW fm \in Modes, NEW t PROVE Check(te, fm, t) \in Statuses
BY DEF Modes, PerToken, Check, Statuses, FM1, FM2, FM3, FM4, FM5, FM6

(* What settles as a pass is a check that passes and stands.               *)
LEMMA SettledPass ==
  ASSUME NEW te, NEW fm \in Modes, NEW t
  PROVE  Settle(te, fm, t, Check(te, fm, t)) = "pass" <=> Stands(te, fm, t) /\ Check(te, fm, t) = "pass"
BY DEF Settle, ByRates, ByRole, Stands, Balanced, PerToken, Modes

(* What settles as a failure is one that fails and stands; a token that    *)
(* only rules is excused from FM3.                                         *)
LEMMA SettledFail ==
  ASSUME NEW te, NEW fm \in Modes, NEW t
  PROVE  Settle(te, fm, t, Check(te, fm, t)) = "fail" <=>
           Stands(te, fm, t) /\ Check(te, fm, t) = "fail" /\ ~(Ruling(te, t) /\ fm = "FM3")
BY DEF Settle, ByRates, ByRole, Stands, Balanced, PerToken, Modes

(* Roles and impossible rates give no other statuses.                      *)
LEMMA SettledIs == ASSUME NEW te, NEW fm \in Modes, NEW t PROVE Settle(te, fm, t, Check(te, fm, t)) \in Statuses
BY CheckIs DEF Settle, ByRates, ByRole, Statuses

(* Roles are part of the shape, and no rate becomes impossible.            *)
LEMMA StandsStill ==
  ASSUME NEW te, NEW u, Sharper(te, u), NEW fm \in Modes, NEW t \in Subjects(te, fm), Stands(te, fm, t)
  PROVE  Stands(u, fm, t)
<1>1. (Reputation(u, t) <=> Reputation(te, t)) /\ (Ruling(u, t) <=> Ruling(te, t))
  BY ShapeSame
<1>2. fm \in Balanced => t \in te.tokens
  BY DEF Balanced, Subjects, PerToken
<1> QED
  BY <1>1, <1>2, ImpossibleBefore DEF Stands

(* Sound is what passes.                                                   *)
LEMMA SoundIff ==
  ASSUME NEW te, NEW fm, NEW t, NEW s
  PROVE  Structural(te, fm, t, s) = "sound" <=> s = "pass"
BY DEF Structural, Classified, Reach

(* Broken is a failure that nothing in the ranges removes.                 *)
LEMMA BrokenIff ==
  ASSUME NEW te, NEW fm, NEW t, NEW s \in Statuses
  PROVE  Structural(te, fm, t, s) = "broken" <=> s = "fail" /\ Reach(te, fm, t, "fail") = "false"
<1>1. CASE s = "fail"
  BY <1>1 DEF Structural, Classified
<1>2. CASE s # "fail"
  <2>1. s \in {"pass", "pass_as_intended", "inconclusive", "not_applicable"}
    BY <1>2 DEF Statuses
  <2> QED
    BY <1>2, <2>1 DEF Structural, Classified, Reach
<1> QED
  BY <1>1, <1>2

(* The row of a check, on a token or on the whole design.                  *)
Classification(te, fm, t) == Structural(te, fm, t, Settle(te, fm, t, Check(te, fm, t)))

(* A row of the report is a check that was skipped, or one made on a       *)
(* subject.                                                                *)
LEMMA RowIs ==
  ASSUME NEW te, NEW v \in Verdicts(te)
  PROVE  \/ v.fm \in te.skipped /\ v.structural = "not_applicable"
         \/ /\ v.fm \in Modes \ te.skipped /\ v.subject \in Subjects(te, v.fm)
            /\ v.structural = Classification(te, v.fm, v.subject)
<1>1. CASE \E fm \in te.skipped :
             v = [fm |-> fm, subject |-> System, status |-> "not_applicable", risk |-> 0,
                  structural |-> "not_applicable", advice |-> {}]
  BY <1>1
<1>2. CASE \E fm \in Modes \ te.skipped : \E t \in Subjects(te, fm) :
             v = Judge(te, fm, t, Settle(te, fm, t, Check(te, fm, t)))
  <2>1. PICK fm \in Modes \ te.skipped : \E t \in Subjects(te, fm) :
               v = Judge(te, fm, t, Settle(te, fm, t, Check(te, fm, t)))
    BY <1>2
  <2>2. PICK t \in Subjects(te, fm) : v = Judge(te, fm, t, Settle(te, fm, t, Check(te, fm, t)))
    BY <2>1
  <2>3. v.fm = fm /\ v.subject = t /\ v.structural = Classification(te, fm, t)
    BY <2>2 DEF Judge, Classification
  <2> QED
    BY <2>3
<1> QED
  BY <1>1, <1>2 DEF Verdicts

(* What is sound stays sound.                                              *)
LEMMA SoundStays ==
  ASSUME NEW te, NEW u, Sharper(te, u), NEW fm \in Modes, NEW t \in Subjects(te, fm),
         fm \in Balanced => ~MayFallBelow(te, t), Classification(te, fm, t) = "sound"
  PROVE  Classification(u, fm, t) = "sound"
<1>1. Stands(te, fm, t) /\ Check(te, fm, t) = "pass"
  BY SoundIff, SettledPass DEF Classification
<1>2. fm \in Balanced => Amounts(te, t)
  BY <1>1 DEF Sharper, Amounts, Stands, Balanced, Subjects, PerToken
<1>3. Check(u, fm, t) = "pass"
  BY <1>1, <1>2, PassStays
<1>4. Stands(u, fm, t)
  BY <1>1, StandsStill
<1> QED
  BY <1>3, <1>4, SoundIff, SettledPass DEF Classification

(* What is broken stays broken, under the conditions of SharpenOnly.       *)
LEMMA BrokenStays ==
  ASSUME NEW te, NEW u, Sharper(te, u), NEW fm \in Modes, NEW t \in Subjects(te, fm),
         fm \in Balanced => ~MayFallBelow(te, t), Enduring(te, u, fm, t),
         Classification(te, fm, t) = "broken"
  PROVE  Classification(u, fm, t) = "broken"
<1>1. Settle(te, fm, t, Check(te, fm, t)) = "fail" /\ Reach(te, fm, t, "fail") = "false"
  BY SettledIs, BrokenIff DEF Classification
<1>2. Stands(te, fm, t) /\ Check(te, fm, t) = "fail" /\ ~(Ruling(te, t) /\ fm = "FM3")
  BY <1>1, SettledFail
<1>3. fm \in Balanced => Amounts(te, t)
  BY <1>2 DEF Sharper, Amounts, Stands, Balanced, Subjects, PerToken
<1>4. Check(u, fm, t) = "fail" /\ Reach(u, fm, t, "fail") = "false"
  BY <1>1, <1>2, <1>3, FailStays
<1>5. Stands(u, fm, t) /\ ~(Ruling(u, t) /\ fm = "FM3")
  BY <1>2, StandsStill, ShapeSame
<1>6. Settle(u, fm, t, Check(u, fm, t)) = "fail"
  BY <1>4, <1>5, SettledFail
<1> QED
  BY <1>4, <1>6, SettledIs, BrokenIff DEF Classification

(* Row by row, the report on a sharper design only sharpens what was said. *)
LEMMA VerdictsSharpen ==
  ASSUME NEW te, NEW u, Sharper(te, u), NEW v \in Verdicts(te), NEW w \in Verdicts(u)
  PROVE  Sharpens(te, u, v, w)
<1> SUFFICES ASSUME v.fm = w.fm, v.subject = w.subject, v.fm \in Balanced => ~MayFallBelow(te, v.subject)
             PROVE  /\ v.structural = "sound" => w.structural = "sound"
                    /\ v.structural = "broken" /\ Lasts(te, u, v) => w.structural = "broken"
  BY DEF Sharpens
<1>1. u.skipped = te.skipped
  BY SameShape DEF Sharper
<1>2. v.fm \in te.skipped => v.structural = "not_applicable"
  BY RowIs
<1>3. CASE v.fm \notin te.skipped
  <2>1. /\ v.fm \in Modes /\ v.subject \in Subjects(te, v.fm)
        /\ v.structural = Classification(te, v.fm, v.subject)
    BY <1>3, RowIs
  <2>2. w.structural = Classification(u, v.fm, v.subject)
    BY <1>1, <1>3, RowIs
  <2>3. v.structural = "sound" => w.structural = "sound"
    BY <2>1, <2>2, SoundStays
  <2>4. v.structural = "broken" /\ Lasts(te, u, v) => w.structural = "broken"
    <3> HAVE v.structural = "broken" /\ Lasts(te, u, v)
    <3>1. Enduring(te, u, v.fm, v.subject)
      BY DEF Lasts, Enduring
    <3> QED
      BY <2>1, <2>2, <3>1, BrokenStays
  <2> QED
    BY <2>3, <2>4
<1> QED
  BY <1>2, <1>3

(* Settling a range only sharpens the report: for every design the schema  *)
(* accepts, whatever edits came before, a sound verdict stays sound and a  *)
(* broken one stays broken, with the exceptions that SharpenOnly names.    *)
(* The schema accepts each design, or the edit would not have been         *)
(* verified (te_ir.py); AdviceHelps checks that of the edits advised.      *)
THEOREM SettlingSharpens == Spec /\ []Formed(design) => SharpenOnly
<1>1. Current /\ Current' /\ Formed(design) /\ Formed(design)' =>
        (Narrower(design, design') => \A v \in report.verdicts, w \in report'.verdicts : Sharpens(design, design', v, w))
  <2> SUFFICES ASSUME Current, Current', Formed(design), Formed(design)', Narrower(design, design'),
                      NEW v \in report.verdicts, NEW w \in report'.verdicts
               PROVE  Sharpens(design, design', v, w)
    OBVIOUS
  <2>1. v \in Verdicts(design) /\ w \in Verdicts(design')
    BY DEF Current, Verify, Reported, Report
  <2>2. Sharper(design, design')
    BY DEF Sharper
  <2> QED
    BY <2>1, <2>2, VerdictsSharpen
<1> QED
  BY <1>1, ReportIsCurrent, PTL DEF SharpenOnly
=============================================================================
