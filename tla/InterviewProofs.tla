--------------------------- MODULE InterviewProofs ---------------------------
(***************************************************************************)
(* Proofs about the interview and what it is built from: the forms that    *)
(* carry questions and answers, and the checks whose verdicts it is to     *)
(* settle.                                                                 *)
(***************************************************************************)
EXTENDS Interview, FiniteSetTheorems, WellFoundedInduction, TLAPS

------------------------------------------------------------------------------
(* Among sets that are subsets of a finite one there is a least.           *)
LEMMA LeastSet ==
  ASSUME NEW S, IsFiniteSet(S), NEW C, C \subseteq SUBSET S, C # {}
  PROVE  \E s \in C : \A t \in C : t \subseteq s => t = s
<1> DEFINE R == StrictSubsetOrdering(S)
<1>1. IsWellFoundedOn(R, FiniteSubsetsOf(S))
  BY FS_StrictSubsetOrderingWellFounded
<1>2. C \subseteq FiniteSubsetsOf(S)
  BY FS_FiniteSubsetsOfFinite
<1> HIDE DEF R
<1>3. PICK s \in C : \A t \in C : ~(<<t, s>> \in R)
  BY <1>1, <1>2, WFMin
<1>4. ASSUME NEW t \in C, t \subseteq s PROVE t = s
  <2>1. ~(<<t, s>> \in R)
    BY <1>3
  <2> QED
    BY <1>4, <2>1 DEF R, StrictSubsetOrdering
<1> QED
  BY <1>4

(* A finite set of integers has a greatest member, and that is its Max.    *)
Greatest(s, m) == m \in s /\ \A x \in s : m >= x

LEMMA GreatestExists ==
  ASSUME NEW S, IsFiniteSet(S), \A x \in S : x \in Int
  PROVE  \A s \in SUBSET S : s # {} => \E m : Greatest(s, m)
<1> DEFINE C == {s \in SUBSET S : s # {} /\ ~ \E m : Greatest(s, m)}
<1> SUFFICES ASSUME C # {} PROVE FALSE
  OBVIOUS
<1>1. PICK s \in C : \A t \in C : t \subseteq s => t = s
  <2> HIDE DEF C
  <2>1. C \subseteq SUBSET S
    BY DEF C
  <2> QED
    BY <2>1, LeastSet
<1>2. PICK y : y \in s
  OBVIOUS
<1>3. s \subseteq Int /\ y \in Int
  BY <1>2
<1>4. s \ {y} # {}
  <2>1. s = {y} => Greatest(s, y)
    BY <1>3 DEF Greatest
  <2> QED
    BY <1>2, <2>1
<1>5. PICK m : Greatest(s \ {y}, m)
  <2>1. s \ {y} \notin C
    BY <1>1, <1>2
  <2> QED
    BY <1>4, <2>1
<1>6. m >= y => Greatest(s, m)
  BY <1>5 DEF Greatest
<1>7. y >= m => Greatest(s, y)
  BY <1>2, <1>3, <1>5 DEF Greatest
<1>8. m \in Int
  BY <1>3, <1>5 DEF Greatest
<1> QED
  BY <1>3, <1>6, <1>7, <1>8

LEMMA MaxIsThere ==
  ASSUME NEW S, IsFiniteSet(S), S \subseteq Int, S # {}
  PROVE  Max(S) \in S /\ \A x \in S : x <= Max(S)
<1>1. \A s \in SUBSET S : s # {} => \E m : Greatest(s, m)
  BY GreatestExists
<1>2. \E m : Greatest(S, m)
  BY <1>1
<1>3. Max(S) \in S /\ \A x \in S : Max(S) >= x
  BY <1>2 DEF Max, Greatest
<1> QED
  BY <1>3

------------------------------------------------------------------------------
(* Questions, answers and slots: an estimate that is shown can be kept, an *)
(* argument may be written as text, and the one answer that counts as kept *)
(* although the designer added to it.                                      *)

(* "The designer keeps it with one click" (forms.py:22-24): an estimate    *)
(* that was shown is accepted as an answer, as the estimate, unchanged.    *)
THEOREM EstimateCanBeKept ==
  ASSUME NEW q, Showable(q), q.estimate # Null
  PROVE  /\ Accepts(q, Answered(q.estimate))
         /\ Entry(q, Answered(q.estimate)).kept
<1>1. Fits(q, Answered(q.estimate))
  BY DEF Showable, EstimateFits
<1>2. Answered(q.estimate).status = "answered"
  BY DEF Answered
<1>3. Kept(q, Answered(q.estimate))
  BY DEF Kept, Same
<1> QED
  BY <1>1, <1>2, <1>3 DEF Accepts, Entry

(* "Some models send every tool argument as a string" (answers.py): what   *)
(* is stored, or refused, does not depend on it.  The exception is a       *)
(* number or flag for a slot of another kind, which stays a text.          *)
THEOREM TextIsNoObstacle ==
  ASSUME NEW slot, NEW status, NEW v, v.type # "text",
         \/ slot.answer \in {"range", "number"}
         \/ v.type \in {"word", "list", "span", "table"}
  PROVE  Stored(slot, Text(v), status) = Stored(slot, v, status)
<1>1. CASE v.type = "word"
  BY <1>1 DEF Text
<1>2. CASE v.type # "word"
  <2> DEFINE t == Text(v)
  <2>1. t.type = "text" /\ t.of = v
    BY <1>2 DEF Text
  <2>2. Structured(v) = v
    BY DEF Structured
  <2> HIDE DEF t
  <2>3. CASE v.type \in {"list", "span", "table"}
    <3>1. Structured(t) = v
      BY <2>1, <2>3 DEF Structured
    <3> QED
      BY <3>1, <2>2 DEF Stored, t
  <2>4. CASE v.type \notin {"list", "span", "table"}
    <3>1. Structured(t) = t
      BY <2>1, <2>4 DEF Structured
    <3>2. slot.answer \in {"range", "number"}
      BY <2>4, <1>2
    <3>3. Decoded(t) = v /\ Decoded(v) = v
      BY <2>1 DEF Decoded
    <3>4. Shaped(slot, t) = Shaped(slot, v)
      BY <3>2, <3>3 DEF Shaped
    <3> QED
      BY <3>1, <3>4, <2>2 DEF Stored, t
  <2> QED
    BY <2>3, <2>4
<1> QED
  BY <1>1, <1>2

(* A range the form accepts is the range the design holds, if its field    *)
(* takes such values at all (forms.py, _check_range; answers.py, _range).  *)
THEOREM RangeArrives ==
  ASSUME NEW slot, slot.answer = "range", slot.holds = "span", NEW q, q.kind = "range",
         NEW a, a.status = "answered", Accepts(q, a),
         {a.value.min, a.value.max} \subseteq slot.least .. slot.most
  PROVE  Stored(slot, Entry(q, a).value, "committed") = a.value
<1> DEFINE v == a.value
<1>1. Fits(q, a)
  BY DEF Accepts
<1>2. v.type = "span" /\ v.min <= v.max
  BY <1>1 DEF Fits, FitsRange
<1>3. Entry(q, a).value = v
  BY DEF Entry, Checked
<1>4. Structured(v) = v /\ Decoded(v) = v
  BY <1>2 DEF Structured, Decoded
<1>5. Shaped(slot, v) = v
  BY <1>2, <1>4 DEF Shaped, PointOrSpan
<1>6. FieldTakes(slot, v)
  BY <1>2 DEF FieldTakes
<1> QED
  BY <1>3, <1>4, <1>5, <1>6 DEF Stored

(* "Kept = the same value as proposed (the designer did not change it)"    *)
(* (forms.py, _check_one): not so.  A designer who ticks what was proposed *)
(* and writes something under "Other" has changed it, and it counts as     *)
(* kept.                                                                   *)
THEOREM OtherGoesUnnoticed ==
  \E q, a : Showable(q) /\ Accepts(q, a) /\ a.other # "" /\ Entry(q, a).kept
<1> DEFINE yes == Word("yes")
           no  == Word("no")
           est == List(<<yes>>)
           q == [kind |-> "multiple_choice", options |-> {yes, no}, other |-> TRUE, unknown |-> TRUE, required |-> TRUE,
                 unit |-> "", min |-> Null, max |-> Null, estimate |-> est, basis |-> TRUE]
           a == [status |-> "answered", value |-> est, other |-> "more"]
<1>1. yes # no /\ yes # Null /\ est # Null /\ est.type = "list" /\ est.items = <<yes>>
  BY DEF Word, List, Null
<1>2. Elements(est) = {yes}
  BY <1>1 DEF Elements
<1>3. Cardinality({yes}) = 1 /\ Cardinality({yes, no}) = 2
  <2> HIDE DEF yes, no
  <2>1. IsFiniteSet({yes}) /\ Cardinality({yes}) = 1
    BY FS_Singleton
  <2>2. Cardinality({yes} \cup {no}) = Cardinality({yes}) + 1
    BY <1>1, <2>1, FS_AddElement
  <2>3. {yes} \cup {no} = {yes, no}
    OBVIOUS
  <2> QED
    BY <2>1, <2>2, <2>3
<1>4. Len(est.items) = 1 /\ est.items # <<>>
  BY <1>1
<1> HIDE DEF yes, no, est
<1>5. FitsMultiple(q, a) /\ FitsMultiple(q, Answered(q.estimate))
  BY <1>1, <1>2, <1>3, <1>4 DEF FitsMultiple, Answered
<1>6. Fits(q, a) /\ Fits(q, Answered(q.estimate))
  BY <1>5 DEF Fits, ChoiceKinds
<1>7. Showable(q)
  <2>1. EstimateFits(q)
    BY <1>1, <1>6 DEF EstimateFits
  <2>2. q.kind \in ChoiceKinds /\ q.kind \notin NumericKinds
    BY DEF ChoiceKinds, NumericKinds
  <2>3. q.unit = "" /\ q.min = Null /\ q.max = Null /\ q.options = {yes, no}
    OBVIOUS
  <2>4. Cardinality(q.options) >= 2
    BY <2>3, <1>3
  <2> HIDE DEF q
  <2>5. q.min # Null /\ q.max # Null => q.min.n <= q.max.n
    BY <2>3, Zenon
  <2> QED
    BY <2>1, <2>2, <2>3, <2>4, <2>5, Zenon DEF Showable
<1>8. Accepts(q, a) /\ Entry(q, a).kept
  <2>1. Checked(q, a) = est /\ Checked(q, Answered(q.estimate)) = est
    BY <1>1 DEF Checked, Answered
  <2>2. Kept(q, a)
    BY <2>1, <1>1 DEF Kept, Same
  <2> QED
    BY <2>2, <1>6 DEF Accepts, Entry
<1> QED
  BY <1>7, <1>8

------------------------------------------------------------------------------
(* The checks, for every design: what their formulas say of each other     *)
(* over ranges of any width.                                               *)

LEMMA MaxOfTwo ==
  ASSUME NEW a \in Int, NEW b \in Int
  PROVE  Max({a, b}) \in Int /\ Max({a, b}) >= a /\ Max({a, b}) >= b
<1>1. \E x \in {a, b} : \A y \in {a, b} : x >= y
  <2>1. CASE a >= b
    BY <2>1
  <2>2. CASE b >= a
    BY <2>2
  <2> QED
    BY <2>1, <2>2
<1>2. Max({a, b}) \in {a, b} /\ \A y \in {a, b} : Max({a, b}) >= y
  BY <1>1 DEF Max
<1> QED
  BY <1>2

(* The usual number of contacts is a whole number.                         *)
LEMMA UsualDegreeIsNat == ASSUME NEW n PROVE UsualDegree(n) \in Nat
<1>1. ASSUME NEW k \in Int, NEW T, T \subseteq 1 .. k PROVE Cardinality(T) \in Nat
  <2>1. IsFiniteSet(1 .. k)
    <3>1. 1 \in Int
      OBVIOUS
    <3> QED
      BY <3>1, FS_Interval
  <2> QED
    BY <1>1, <2>1, FS_Subset, FS_CardinalityType
<1> DEFINE near == {i \in 1 .. 36 : n.lo + n.hi > Steps[i]}
           far  == {i \in 1 .. 9 : (n.lo + n.hi) \div 1000 > LargeSteps[i]}
<1>2. Cardinality(near) \in Nat
  <2>1. near \subseteq 1 .. 36 /\ 36 \in Int
    OBVIOUS
  <2> QED
    BY <1>1, <2>1
<1>3. Cardinality(far) \in Nat
  <2>1. far \subseteq 1 .. 9 /\ 9 \in Int
    OBVIOUS
  <2> QED
    BY <1>1, <2>1
<1>4. UsualDegree(n) = 5 + Cardinality(near) + Cardinality(far)
  BY DEF UsualDegree
<1> HIDE DEF near, far
<1> QED
  BY <1>2, <1>3, <1>4

(* The amounts a design compares in FM5 are whole numbers.                 *)
Counted(te) == te.span["N"].lo \in Int /\ Degree(te) \in Int /\ Contacts(te) \in Int

(* FM5's rule for networks decides nothing that its rule for well-mixed    *)
(* communities does not: a degree that suffices for the contacts, and that *)
(* the least number of participants allows, is only there when that number *)
(* suffices by itself (fm5_critical_mass.py:178: "regardless of the        *)
(* well-mixed Z3 outcome").                                                *)
THEOREM NetworkDecidesNothing ==
  ASSUME NEW te, Counted(te), Connected(te)
  PROVE  ~Sparse(te)
<1> DEFINE n == te.span["N"].lo
           d == Degree(te)
           c == Contacts(te)
           m == Max({1, n})
<1>1. n \in Int /\ d \in Int /\ c \in Int
  BY DEF Counted
<1>2. d >= c /\ d <= n - 1
  BY DEF Connected
<1>3. m \in Int /\ m >= n
  <2>1. 1 \in Int
    OBVIOUS
  <2> QED
    BY <1>1, <2>1, MaxOfTwo
<1>4. Sparse(te) <=> m < c + 1
  BY DEF Sparse
<1> HIDE DEF n, d, c, m
<1>5. ~(m < c + 1)
  BY <1>1, <1>2, <1>3
<1> QED
  BY <1>4, <1>5

(* Of the two amounts FM3 compares, more creation never ends an imbalance  *)
(* and less removal never does: raising the lower end of what is created,  *)
(* which the report recommends where little is created, cannot help        *)
(* (fm3_burn_emission.py:463: "lower bound of your declared emission").    *)
THEOREM CreationNeverCures ==
  ASSUME NEW te, Floor(te) \in Nat,
         NEW e \in Int, NEW more \in Int, more >= e,
         NEW b \in Int, NEW less \in Int, less <= b,
         Uncovered(te, e, b)
  PROVE  Uncovered(te, more, less)
<1> DEFINE f == Floor(te)
<1>1. e > 0 /\ 100 * b < e * f
  BY DEF Uncovered
<1> HIDE DEF f
<1>2. f \in Nat
  BY DEF f
<1>3. PICK k \in Nat : more = e + k
  <2>1. more - e \in Nat /\ more = e + (more - e)
    OBVIOUS
  <2> QED
    BY <2>1
<1>4. (e + k) * f = e * f + k * f /\ k * f >= 0 /\ e * f \in Int /\ k * f \in Int
  BY <1>2
<1>5. 100 * less <= 100 * b
  OBVIOUS
<1>6. more > 0 /\ 100 * less < more * f
  BY <1>1, <1>3, <1>4, <1>5
<1> QED
  BY <1>6 DEF Uncovered, f

------------------------------------------------------------------------------
Alike(te, u) == /\ te.tokens = u.tokens /\ te.token = u.token /\ te.event = u.event
                /\ te.agents = u.agents /\ te.govern = u.govern
SameAt(te, u, p) == (Has(te, p) <=> Has(u, p)) /\ (Has(te, p) => te.span[p] = u.span[p])

LEMMA SameVerified == ASSUME NEW te, NEW u, Alike(te, u) PROVE Verified(te) = Verified(u)
  BY DEF Alike, Verified

LEMMA SameGap == ASSUME NEW te, NEW u, Alike(te, u) PROVE Gap(te) = Gap(u)
  BY DEF Alike, Gap

LEMMA SamePhi == ASSUME NEW te, NEW u, Alike(te, u) PROVE PhiRange(te) = PhiRange(u)
<1> DEFINE roles(d)  == {i \in DOMAIN d.agents : d.agents[i].role # None}
           givers(d) == {i \in DOMAIN d.agents : d.agents[i].role = "contributor"}
           hinted(d) == {i \in DOMAIN d.agents : d.agents[i].hint}
           sure(d)   == IF Verified(d) = {} THEN 0 ELSE Max({PhiTable[v] : v \in Verified(d)})
<1>1. te.agents = u.agents
  BY DEF Alike
<1>2. roles(te) = roles(u) /\ givers(te) = givers(u) /\ hinted(te) = hinted(u)
  BY <1>1
<1>3. ASSUME NEW who PROVE ShareOf(te, who) = ShareOf(u, who)
  BY <1>1 DEF ShareOf
<1>4. ShareOf(te, givers(te)) = ShareOf(u, givers(u)) /\ ShareOf(te, hinted(te)) = ShareOf(u, hinted(u))
  <2> HIDE DEF givers, hinted
  <2> QED
    BY <1>2, <1>3
<1>5. sure(te) = sure(u)
  BY SameVerified
<1>6. PhiRange(te) = PhiRange(u)
  <2> DEFINE most(share) == 100 * Max({share, 5})
             range(r, g, h, i, s) == IF r # {} THEN [lo |-> Min({s * g, most(g)}), hi |-> most(g)]
                                     ELSE IF h # {} THEN [lo |-> 0, hi |-> most(i)]
                                     ELSE [lo |-> 0, hi |-> 10000]
             of(d) == range(roles(d), ShareOf(d, givers(d)), hinted(d), ShareOf(d, hinted(d)), sure(d))
  <2>1. PhiRange(te) = of(te) /\ PhiRange(u) = of(u)
    BY DEF PhiRange
  <2>2. of(te) = of(u)
    <3> HIDE DEF range, roles, givers, hinted, sure
    <3> QED
      BY <1>2, <1>4, <1>5
  <2> QED
    BY <2>1, <2>2
<1> QED
  BY <1>6

LEMMA SameRewarding == ASSUME NEW te, NEW u, Alike(te, u) PROVE Rewarding(te) <=> Rewarding(u)
  BY DEF Alike, Rewarding, Resolve

LEMMA SameGamma == ASSUME NEW te, NEW u, Alike(te, u), SameAt(te, u, "gamma") PROVE GammaRange(te) = GammaRange(u)
  BY SameVerified DEF SameAt, GammaRange

LEMMA SameSanction == ASSUME NEW te, NEW u, Alike(te, u), SameAt(te, u, "S") PROVE SanctionRange(te) = SanctionRange(u)
  BY DEF Alike, SameAt, SanctionRange
LEMMA SameVarieties ==
  ASSUME NEW te, NEW u, Alike(te, u),
         \A t \in te.tokens : te.token[t].variety # None => SameAt(te, u, te.token[t].variety) /\ Has(te, te.token[t].variety)
  PROVE  Varieties(te) = Varieties(u)
  BY DEF Alike, SameAt, Varieties

Offers(te, u) ==
  /\ Alike(te, u)
  /\ \A t \in te.tokens : te.token[t].variety # None => SameAt(te, u, te.token[t].variety) /\ Has(te, te.token[t].variety)

LEMMA SameFM4 ==
  ASSUME NEW te, NEW u, Offers(te, u), SameAt(te, u, "gamma"), SameAt(te, u, "S"), te.span["d"] = u.span["d"],
         ProportionalityFactor[te.nfr.proportionality] = ProportionalityFactor[u.nfr.proportionality]
  PROVE  Standing(te, "FM4") = Standing(u, "FM4")
<1>1. Varieties(te) = Varieties(u) /\ GammaRange(te) = GammaRange(u) /\ SanctionRange(te) = SanctionRange(u)
      /\ Gap(te) = Gap(u) /\ PhiRange(te) = PhiRange(u) /\ (Rewarding(te) <=> Rewarding(u))
  BY SameVarieties, SameGamma, SameSanction, SameGap, SamePhi, SameRewarding DEF Offers
<1>2. \A end : Demand(te, end) = Demand(u, end)
  BY DEF Demand
<1>3. (FewGive(te) <=> FewGive(u)) /\ (EnoughGive(te) <=> EnoughGive(u))
  BY <1>1, <1>2 DEF FewGive, EnoughGive
<1>4. \A end : Tempting(te, end) <=> Tempting(u, end)
  BY <1>1 DEF Tempting
<1>5. FM4(te) = FM4(u)
  BY <1>1, <1>3, <1>4 DEF FM4
<1>6. FM4Reach(te) = FM4Reach(u)
  BY <1>1, <1>3, <1>4 DEF FM4Reach
<1>7. Check(te, "FM4", "system") = FM4(te) /\ Check(u, "FM4", "system") = FM4(u)
  BY DEF Check
<1>8. Reach(te, "FM4", "system", FM4(te)) = Reach(u, "FM4", "system", FM4(te))
  BY <1>6 DEF Reach
<1> QED
  BY <1>5, <1>7, <1>8 DEF Standing, Structural

LEMMA SameContacts ==
  ASSUME NEW te, NEW u, Offers(te, u), te.span["d"] = u.span["d"]
  PROVE  Varieties(te) = Varieties(u) /\ Contacts(te) = Contacts(u)
<1>1. Varieties(te) = Varieties(u)
  BY SameVarieties DEF Offers
<1> QED
  BY <1>1 DEF Contacts

LEMMA SameFM5 ==
  ASSUME NEW te, NEW u, Offers(te, u), te.span["d"] = u.span["d"], te.span["N"] = u.span["N"],
         SameAt(te, u, "degree"), te.topology = u.topology
  PROVE  Standing(te, "FM5") = Standing(u, "FM5")
<1>1. Varieties(te) = Varieties(u) /\ Contacts(te) = Contacts(u)
  BY SameContacts
<1>2. Degree(te) = Degree(u)
  BY DEF Degree, SameAt
<1>3. (Connected(te) <=> Connected(u)) /\ (Sparse(te) <=> Sparse(u))
  BY <1>1, <1>2 DEF Connected, Sparse
<1>4. FM5(te) = FM5(u) /\ FM5Reach(te) = FM5Reach(u)
  BY <1>1, <1>3 DEF FM5, FM5Reach
<1>5. Check(te, "FM5", "system") = FM5(te) /\ Check(u, "FM5", "system") = FM5(u)
  BY DEF Check
<1>6. Reach(te, "FM5", "system", FM5(te)) = Reach(u, "FM5", "system", FM5(te))
  BY <1>4 DEF Reach
<1> QED
  BY <1>4, <1>5, <1>6 DEF Standing, Structural

(* Once FM5 has settled it is for the number of participants, and no       *)
(* topology or degree changes that.                                        *)
LEMMA SettledFM5 ==
  ASSUME NEW te, NEW u, Offers(te, u), te.span["d"] = u.span["d"], te.span["N"] = u.span["N"],
         Varieties(te) # {} => te.span["N"].lo \in Int /\ Degree(te) \in Int /\ Contacts(te) \in Int,
         Standing(te, "FM5") \in {"sound", "not_applicable"}
  PROVE  Standing(u, "FM5") = Standing(te, "FM5")
<1>1. Varieties(te) = Varieties(u) /\ Contacts(te) = Contacts(u)
  BY SameContacts
<1>2. Check(te, "FM5", "system") = FM5(te) /\ Check(u, "FM5", "system") = FM5(u)
  BY DEF Check
<1>3. FM5(te) \in {"pass", "fail", "inconclusive"}
  BY DEF FM5
<1>4. FM5(te) = "pass"
  <2>1. CASE FM5(te) = "fail"
    BY <1>2, <2>1 DEF Standing, Structural, Classified
  <2>2. CASE FM5(te) = "inconclusive"
    BY <1>2, <2>2 DEF Standing, Structural, Classified
  <2> QED
    BY <1>3, <2>1, <2>2
<1>5. Varieties(te) # {} /\ (Connected(te) \/ ~Sparse(te))
  BY <1>4 DEF FM5
<1>6. ~Sparse(te)
  BY <1>5, NetworkDecidesNothing DEF Counted
<1>7. ~Sparse(u)
  BY <1>1, <1>6 DEF Sparse
<1>8. FM5(u) = "pass"
  BY <1>1, <1>5, <1>7 DEF FM5
<1>9. Reach(te, "FM5", "system", "pass") = "true" /\ Reach(u, "FM5", "system", "pass") = "true"
  BY DEF Reach
<1> QED
  BY <1>2, <1>4, <1>8, <1>9 DEF Standing, Structural

LEMMA ProductFits ==
  ASSUME NEW x \in Int, NEW y \in Int, 0 <= x, x <= 100, y <= 60
  PROVE  x * y <= 6000
<1>1. x * (60 - y) >= 0
  <2> DEFINE z == 60 - y
  <2>1. z \in Int /\ z >= 0
    OBVIOUS
  <2> HIDE DEF z
  <2>2. x * z >= 0
    BY <2>1
  <2> QED
    BY <2>2 DEF z
<1>2. x * (60 - y) = 60 * x - x * y
  OBVIOUS
<1>3. x * y \in Int
  OBVIOUS
<1> DEFINE p == x * y
<1> QED
  BY <1>1, <1>2, <1>3

LEMMA TimesHasHi ==
  ASSUME NEW r, NEW s, r.lo \in Int, r.hi \in Int, s.lo \in Int, s.hi \in Int
  PROVE  /\ Times(r, s).hi \in {x * y : x \in Corners(r), y \in Corners(s)}
         /\ \A x \in Corners(r), y \in Corners(s) : x * y <= Times(r, s).hi
<1> DEFINE ends == {x * y : x \in Corners(r), y \in Corners(s)}
           a == r.lo * s.lo
           b == r.lo * s.hi
           c == r.hi * s.lo
           d == r.hi * s.hi
<1>1. ends = {a, b, c, d}
  BY DEF Corners
<1>2. a \in Int /\ b \in Int /\ c \in Int /\ d \in Int
  OBVIOUS
<1>3. Times(r, s).hi = Max(ends)
  BY DEF Times
<1>4. \A x \in Corners(r), y \in Corners(s) : x * y \in ends
  OBVIOUS
<1>5. IsFiniteSet({a, b, c, d})
  <2>1. IsFiniteSet({a})
    BY FS_Singleton
  <2>2. IsFiniteSet({a} \cup {b})
    BY <2>1, FS_AddElement
  <2>3. IsFiniteSet(({a} \cup {b}) \cup {c})
    BY <2>2, FS_AddElement
  <2>4. IsFiniteSet((({a} \cup {b}) \cup {c}) \cup {d})
    BY <2>3, FS_AddElement
  <2>5. {a, b, c, d} = (({a} \cup {b}) \cup {c}) \cup {d}
    BY Zenon
  <2> QED
    BY <2>4, <2>5
<1> HIDE DEF ends, a, b, c, d
<1>6. Max(ends) \in ends /\ \A e \in ends : e <= Max(ends)
  <2>1. ends \subseteq Int /\ ends # {}
    BY <1>1, <1>2
  <2>2. IsFiniteSet(ends)
    BY <1>1, <1>5
  <2> QED
    BY <2>1, <2>2, MaxIsThere
<1>7. Times(r, s).hi \in ends /\ \A x \in Corners(r), y \in Corners(s) : x * y <= Times(r, s).hi
  BY <1>3, <1>4, <1>6
<1> QED
  BY <1>7 DEF ends

LEMMA SmallerGini ==
  ASSUME NEW g, NEW s, g.lo \in 0..100, g.hi \in 0..100, s.lo \in Int, s.hi \in Int,
         ~(Times([lo |-> 0, hi |-> 100], s).hi > 6000)
  PROVE  ~(Times(g, s).hi > 6000)
<1> DEFINE all == [lo |-> 0, hi |-> 100]
<1>1. all.lo = 0 /\ all.hi = 100
  OBVIOUS
<1> HIDE DEF all
<1>2. 100 \in Corners(all)
  BY <1>1 DEF Corners
<1>3. \A y \in Corners(s) : y \in Int
  BY DEF Corners
<1>4. /\ Times(all, s).hi \in {x * y : x \in Corners(all), y \in Corners(s)}
      /\ \A x \in Corners(all), y \in Corners(s) : x * y <= Times(all, s).hi
  BY <1>1, TimesHasHi
<1>5. ASSUME NEW y \in Corners(s) PROVE y <= 60
  <2>1. 100 * y <= Times(all, s).hi
    BY <1>2, <1>4
  <2>2. Times(all, s).hi \in Int
    BY <1>1, <1>3, <1>4 DEF Corners
  <2>3. y \in Int /\ ~(Times(all, s).hi > 6000)
    BY <1>3 DEF all
  <2> DEFINE most == Times(all, s).hi
  <2> HIDE DEF most
  <2> QED
    BY <2>1, <2>2, <2>3 DEF most
<1>6. Times(g, s).hi \in {x * y : x \in Corners(g), y \in Corners(s)}
  BY TimesHasHi
<1>7. PICK x \in Corners(g), y \in Corners(s) : Times(g, s).hi = x * y
  BY <1>6
<1>8. x \in Int /\ 0 <= x /\ x <= 100 /\ y \in Int /\ y <= 60
  BY <1>3, <1>5, <1>7 DEF Corners
<1>9. x * y <= 6000 /\ x * y \in Int
  BY <1>8, ProductFits
<1> HIDE DEF Times
<1> QED
  BY <1>7, <1>9

Weighed == {"cap_fraction", "avg_lock_fraction", "delegate_gini", "reputation_gini"}

LEMMA SameFM6 ==
  ASSUME NEW te, NEW u, Alike(te, u), Excused(te) <=> Excused(u), \A p \in Weighed \cup {"gini"} : SameAt(te, u, p)
  PROVE  Standing(te, "FM6") = Standing(u, "FM6")
<1>1. EffectiveGini(te) = EffectiveGini(u)
  <2> DEFINE all         == [lo |-> 100, hi |-> 100]
             gini(v)     == {"gini"} \cap DOMAIN v.span
             quad(v)     == {[lo |-> v.span[p].lo * 50, hi |-> v.span[p].hi * 70] : p \in gini(v)}
             held(v, x)  == {Times(v.span[p], x) : p \in gini(v)}
             capped(v)   == IF Has(v, "cap_fraction")
                            THEN [lo |-> 100 - v.span["cap_fraction"].hi, hi |-> 100 - v.span["cap_fraction"].lo] ELSE all
             locked(v)   == IF Has(v, "avg_lock_fraction") THEN v.span["avg_lock_fraction"] ELSE all
             lent(v)     == {Times(v.span["delegate_gini"], all)}
             standing(v) == {Times(v.span[p], all) : p \in {"reputation_gini"} \cap DOMAIN v.span}
             Of(w, q, c, l, lends, d, r, o) ==
               CASE w = "quadratic" -> q [] w = "capped" -> c [] w = "time_locked" -> l
                 [] w = "delegated" /\ lends -> d [] w = "reputation" -> r [] OTHER -> o
             Gini(v) == Of(v.govern.weighting, quad(v), held(v, capped(v)), held(v, locked(v)),
                           Has(v, "delegate_gini"), lent(v), standing(v), held(v, all))
  <2>1. EffectiveGini(te) = Gini(te) /\ EffectiveGini(u) = Gini(u)
    BY Zenon DEF EffectiveGini
  <2>2. te.govern = u.govern
    BY DEF Alike
  <2>3. gini(te) = gini(u) /\ \A p \in gini(te) : te.span[p] = u.span[p]
    BY DEF SameAt, Has
  <2>4. quad(te) = quad(u) /\ \A x : held(te, x) = held(u, x)
    BY <2>3
  <2>5. capped(te) = capped(u) /\ locked(te) = locked(u)
    BY DEF SameAt, Weighed
  <2>6. standing(te) = standing(u)
    BY DEF SameAt, Weighed, Has
  <2>7. Has(te, "delegate_gini") <=> Has(u, "delegate_gini")
    BY DEF SameAt, Weighed
  <2>8. Has(te, "delegate_gini") => lent(te) = lent(u)
    BY DEF SameAt, Weighed
  <2> HIDE DEF quad, held, capped, locked, lent, standing, all
  <2>9. Gini(te) = Gini(u)
    <3>1. CASE Has(te, "delegate_gini")
      BY <2>2, <2>4, <2>5, <2>6, <2>7, <2>8, <3>1
    <3>2. CASE ~Has(te, "delegate_gini")
      BY <2>2, <2>4, <2>5, <2>6, <2>7, <3>2
    <3> QED
      BY <3>1, <3>2
  <2> QED
    BY <2>1, <2>9
<1>2. (Unequal(te) <=> Unequal(u)) /\ (Captured(te) <=> Captured(u))
  BY <1>1 DEF Unequal, Captured, Alike
<1>3. FM6(te) = FM6(u) /\ FM6Reach(te) = FM6Reach(u)
  BY <1>1, <1>2 DEF FM6, FM6Reach, Alike
<1>4. Check(te, "FM6", "system") = FM6(te) /\ Check(u, "FM6", "system") = FM6(u)
  BY DEF Check
<1>5. Reach(te, "FM6", "system", FM6(te)) = Reach(u, "FM6", "system", FM6(te))
  BY <1>3 DEF Reach
<1> QED
  BY <1>3, <1>4, <1>5 DEF Standing, Structural

(* Once FM6 has settled over every possible inequality, the shares that    *)
(* temper it hold it below the threshold, and no answer raises it.         *)
LEMMA SettledFM6 ==
  ASSUME NEW te, NEW u, Alike(te, u), \A p \in Weighed : SameAt(te, u, p),
         \A p \in Weighed : Has(te, p) => te.span[p].lo \in Int /\ te.span[p].hi \in Int,
         Has(te, "gini"), te.span["gini"] = [lo |-> 0, hi |-> 100],
         Has(u, "gini"), u.span["gini"].lo \in 0..100, u.span["gini"].hi \in 0..100,
         Standing(te, "FM6") \in {"sound", "not_applicable"}
  PROVE  Standing(u, "FM6") = Standing(te, "FM6")
<1>1. Check(te, "FM6", "system") = FM6(te) /\ Check(u, "FM6", "system") = FM6(u)
  BY DEF Check
<1>2. FM6(te) \in {"pass", "pass_as_intended", "fail", "inconclusive"}
  BY DEF FM6
<1>3. FM6(te) = "pass"
  <2>1. CASE FM6(te) = "fail"
    BY <1>1, <2>1 DEF Standing, Structural, Classified
  <2>2. CASE FM6(te) = "inconclusive"
    BY <1>1, <2>2 DEF Standing, Structural, Classified
  <2>3. CASE FM6(te) = "pass_as_intended"
    <3>1. Reach(te, "FM6", "system", FM6(te)) = "true"
      BY <2>3, Zenon DEF Reach
    <3> QED
      BY <1>1, <2>3, <3>1 DEF Standing, Structural, Classified
  <2> QED
    BY <1>2, <2>1, <2>2, <2>3
<1>4. te.govern.decisions # 0 /\ ~Captured(te) /\ ~Unequal(te)
  BY <1>3 DEF FM6
<1> DEFINE all        == [lo |-> 100, hi |-> 100]
           none       == [lo |-> 0, hi |-> 100]
           gini       == u.span["gini"]
           w          == te.govern.weighting
           capped(v)  == IF Has(v, "cap_fraction")
                         THEN [lo |-> 100 - v.span["cap_fraction"].hi, hi |-> 100 - v.span["cap_fraction"].lo] ELSE all
           locked(v)  == IF Has(v, "avg_lock_fraction") THEN v.span["avg_lock_fraction"] ELSE all
<1>5. ASSUME NEW v, Has(v, "gini")
      PROVE  {"gini"} \cap DOMAIN v.span = {"gini"}
  BY <1>5 DEF Has
<1>6. \A g \in EffectiveGini(te) : ~(g.hi > 6000)
  BY <1>4 DEF Unequal, GiniThreshold
<1>7. w = u.govern.weighting
  BY DEF Alike
<1>8. \A g \in EffectiveGini(u) : ~(g.hi > 6000)
  <2>1. ASSUME NEW x, EffectiveGini(te) = {Times(none, x)}, EffectiveGini(u) = {Times(gini, x)}, x.lo \in Int, x.hi \in Int
        PROVE  ~(Times(gini, x).hi > 6000)
    <3>1. ~(Times(none, x).hi > 6000)
      BY <1>6, <2>1
    <3> HIDE DEF gini
    <3> QED
      BY <2>1, <3>1, SmallerGini DEF gini
  <2>2. CASE w = "quadratic"
    <3>1. EffectiveGini(te) = {[lo |-> te.span[p].lo * 50, hi |-> te.span[p].hi * 70] : p \in {"gini"}}
      BY <1>5, <2>2, Zenon DEF EffectiveGini
    <3>2. [lo |-> te.span["gini"].lo * 50, hi |-> te.span["gini"].hi * 70] \in EffectiveGini(te)
      BY <3>1
    <3> QED
      BY <1>6, <3>2
  <2>3. CASE w = "capped"
    <3>1. EffectiveGini(te) = {Times(none, capped(te))}
      <4>1. EffectiveGini(te) = {Times(te.span[p], capped(te)) : p \in {"gini"}}
        BY <1>5, <2>3, Zenon DEF EffectiveGini
      <4> QED
        BY <4>1
    <3>2. EffectiveGini(u) = {Times(gini, capped(u))}
      <4>1. EffectiveGini(u) = {Times(u.span[p], capped(u)) : p \in {"gini"}}
        BY <1>5, <1>7, <2>3, Zenon DEF EffectiveGini
      <4> QED
        BY <4>1
    <3>3. capped(te) = capped(u)
      BY DEF SameAt, Weighed
    <3>4. capped(te).lo \in Int /\ capped(te).hi \in Int
      BY DEF Weighed
    <3> HIDE DEF capped, none, gini
    <3> QED
      BY <2>1, <3>1, <3>2, <3>3, <3>4
  <2>4. CASE w = "time_locked"
    <3>1. EffectiveGini(te) = {Times(none, locked(te))}
      <4>1. EffectiveGini(te) = {Times(te.span[p], locked(te)) : p \in {"gini"}}
        BY <1>5, <2>4, Zenon DEF EffectiveGini
      <4> QED
        BY <4>1
    <3>2. EffectiveGini(u) = {Times(gini, locked(u))}
      <4>1. EffectiveGini(u) = {Times(u.span[p], locked(u)) : p \in {"gini"}}
        BY <1>5, <1>7, <2>4, Zenon DEF EffectiveGini
      <4> QED
        BY <4>1
    <3>3. locked(te) = locked(u)
      BY DEF SameAt, Weighed
    <3>4. locked(te).lo \in Int /\ locked(te).hi \in Int
      BY DEF Weighed
    <3> HIDE DEF locked, none, gini
    <3> QED
      BY <2>1, <3>1, <3>2, <3>3, <3>4
  <2>5. CASE w = "delegated" /\ Has(te, "delegate_gini")
    <3>1. Has(u, "delegate_gini") /\ te.span["delegate_gini"] = u.span["delegate_gini"]
      BY <2>5 DEF SameAt, Weighed
    <3>2. EffectiveGini(te) = {Times(te.span["delegate_gini"], all)}
      BY <2>5, Zenon DEF EffectiveGini
    <3>3. EffectiveGini(u) = {Times(u.span["delegate_gini"], all)}
      BY <1>7, <2>5, <3>1, Zenon DEF EffectiveGini
    <3> QED
      BY <1>6, <3>1, <3>2, <3>3
  <2>6. CASE w = "reputation"
    <3>1. EffectiveGini(te) = {Times(te.span[p], all) : p \in {"reputation_gini"} \cap DOMAIN te.span}
      BY <2>6, Zenon DEF EffectiveGini
    <3>2. EffectiveGini(u) = {Times(u.span[p], all) : p \in {"reputation_gini"} \cap DOMAIN u.span}
      BY <1>7, <2>6, Zenon DEF EffectiveGini
    <3>3. /\ {"reputation_gini"} \cap DOMAIN te.span = {"reputation_gini"} \cap DOMAIN u.span
          /\ \A p \in {"reputation_gini"} \cap DOMAIN te.span : te.span[p] = u.span[p]
      BY DEF SameAt, Weighed, Has
    <3>4. EffectiveGini(te) = EffectiveGini(u)
      BY <3>1, <3>2, <3>3
    <3> QED
      BY <1>6, <3>4
  <2>7. CASE w \notin {"quadratic", "capped", "time_locked", "reputation"} /\ ~(w = "delegated" /\ Has(te, "delegate_gini"))
    <3>1. EffectiveGini(te) = {Times(te.span[p], all) : p \in {"gini"}}
      BY <1>5, <2>7, Zenon DEF EffectiveGini
    <3>2. ~(w = "delegated" /\ Has(u, "delegate_gini"))
      BY <2>7 DEF SameAt, Weighed
    <3>3. EffectiveGini(u) = {Times(u.span[p], all) : p \in {"gini"}}
      BY <1>5, <1>7, <2>7, <3>2, Zenon DEF EffectiveGini
    <3>4. EffectiveGini(te) = {Times(none, all)} /\ EffectiveGini(u) = {Times(gini, all)}
      BY <3>1, <3>3
    <3>5. all.lo \in Int /\ all.hi \in Int
      OBVIOUS
    <3>6. ~(Times(gini, all).hi > 6000)
      <4> HIDE DEF all, none, gini
      <4> QED
        BY <2>1, <3>4, <3>5
    <3> HIDE DEF all, none, gini
    <3> QED
      BY <3>4, <3>6
  <2> QED
    BY <2>2, <2>3, <2>4, <2>5, <2>6, <2>7
<1>9. ~Unequal(u)
  BY <1>8 DEF Unequal, GiniThreshold
<1>10. FM6(u) = "pass"
  BY <1>4, <1>9 DEF FM6, Alike, Captured
<1>11. Reach(te, "FM6", "system", "pass") = "true" /\ Reach(u, "FM6", "system", "pass") = "true"
  BY Zenon DEF Reach
<1> QED
  BY <1>1, <1>3, <1>10, <1>11 DEF Standing, Structural

------------------------------------------------------------------------------
(* The interview's stopping rule.  The inductive invariant: what a field   *)
(* holds is something it takes, and participants and demand, which no form *)
(* may leave out, are there once they were answered.                       *)
Filled ==
  /\ tokens \in 0 .. Len(TokenIds)
  /\ DOMAIN field = Fields /\ DOMAIN answered = Items
  /\ \A it \in Fields : field[it] = Null \/ FieldTakes(Slot[it[1]], field[it])
  /\ \A p \in {"N", "d"} : answered[<<p, 0>>] # None => field[<<p, 0>>] # Null

LEMMA StoredFits ==
  ASSUME NEW slot, NEW v, NEW status, Stored(slot, v, status) # Refused
  PROVE  FieldTakes(slot, Stored(slot, v, status))
BY DEF Stored

LEMMA SlotsOfSystem ==
  /\ \A p \in {"N", "d", "gini", "degree", "topology", "rules", "governance", "maturity", "proportionality"} : <<p, 0>> \in Fields
  /\ \A it \in Items : it \in Fields <=> it # Ids
  /\ \A it \in Fields : it \in Items /\ it[1] \in Slots \ {"ids"}
  /\ Ids \in Items
<1>1. \A p \in {"N", "d", "gini", "degree", "topology", "rules", "governance", "maturity", "proportionality"} : <<p, 0>> \in Items /\ <<p, 0>> # Ids
  BY DEF Items, Ids, Slots
<1>2. \A it \in Items : it # Ids => it[1] \in Slots \ {"ids"}
  BY DEF Items, Ids, Slots
<1>3. Ids \in Items
  BY DEF Items, Ids, Slots
<1> QED
  BY <1>1, <1>2, <1>3 DEF Fields, Ids

LEMMA RangesHeld ==
  \A p \in {"N", "d", "gini", "degree", "K"} : \A v : FieldTakes(Slot[p], v) => v.type = "span" /\ v # Null
  BY DEF FieldTakes, Slot, Interval, Null

LEMMA FillKeeps ==
  ASSUME Filled, NEW it \in Fields, NEW v, NEW status, NEW said, Fill(it, Stored(Slot[it[1]], v, status), said)
  PROVE  Filled'
<1> DEFINE w == Stored(Slot[it[1]], v, status)
<1>1. FieldTakes(Slot[it[1]], w)
  BY StoredFits DEF Fill
<1>2. tokens' = tokens /\ field' = [field EXCEPT ![it] = w] /\ answered' = [answered EXCEPT ![it] = said]
  BY DEF Fill
<1> HIDE DEF w
<1>3. DOMAIN field' = Fields /\ DOMAIN answered' = Items /\ tokens' \in 0 .. Len(TokenIds)
  BY <1>2 DEF Filled
<1>4. \A i \in Fields : field'[i] = IF i = it THEN w ELSE field[i]
  BY <1>2 DEF Filled
<1>5. \A i \in Items : answered'[i] = IF i = it THEN said ELSE answered[i]
  BY <1>2 DEF Filled
<1>6. \A i \in Fields : field'[i] = Null \/ FieldTakes(Slot[i[1]], field'[i])
  BY <1>1, <1>4 DEF Filled
<1>7. ASSUME NEW p \in {"N", "d"}, answered'[<<p, 0>>] # None PROVE field'[<<p, 0>>] # Null
  <2>1. <<p, 0>> \in Fields /\ <<p, 0>> \in Items
    BY SlotsOfSystem
  <2>2. CASE it = <<p, 0>>
    <3>1. it[1] = p
      BY <2>2
    <3> QED
      BY <1>1, <1>4, <2>1, <2>2, <3>1, RangesHeld
  <2>3. CASE it # <<p, 0>>
    BY <1>4, <1>5, <1>7, <2>1, <2>3 DEF Filled
  <2> QED
    BY <2>2, <2>3
<1> QED
  BY <1>3, <1>6, <1>7 DEF Filled

LEMMA NameKeeps ==
  ASSUME Filled, NEW names, NEW status, Name(names, status)
  PROVE  Filled'
<1>1. tokens' = Len(names) /\ Len(names) \in 1 .. Len(TokenIds)
  BY InterviewAssumption DEF Name
<1>2. field' = [it \in Fields |-> IF Exists(Len(names), it) THEN field[it] ELSE Null]
  BY DEF Name
<1>3. answered' = [answered EXCEPT ![Ids] = status]
  BY DEF Name
<1>4. tokens' \in 0 .. Len(TokenIds) /\ DOMAIN field' = Fields /\ DOMAIN answered' = Items
  BY <1>1, <1>2, <1>3, InterviewAssumption DEF Filled
<1>5. \A it \in Fields : field'[it] = Null \/ FieldTakes(Slot[it[1]], field'[it])
  BY <1>2 DEF Filled
<1>6. ASSUME NEW p \in {"N", "d"}, answered'[<<p, 0>>] # None PROVE field'[<<p, 0>>] # Null
  <2>1. <<p, 0>> \in Fields /\ <<p, 0>> \in Items /\ <<p, 0>> # Ids
    BY SlotsOfSystem
  <2>2. Exists(Len(names), <<p, 0>>)
    BY DEF Exists
  <2>3. field'[<<p, 0>>] = field[<<p, 0>>] /\ answered'[<<p, 0>>] = answered[<<p, 0>>]
    BY <1>2, <1>3, <2>1, <2>2 DEF Filled
  <2> QED
    BY <1>6, <2>3 DEF Filled
<1> QED
  BY <1>4, <1>5, <1>6 DEF Filled

LEMMA RecordKeeps ==
  ASSUME Filled, NEW it \in Items, NEW v, NEW status, Record(it, v, status)
  PROVE  Filled'
<1>1. CASE it = Ids
  BY <1>1, NameKeeps DEF Record
<1>2. CASE it # Ids
  BY <1>2, FillKeeps, SlotsOfSystem DEF Record
<1> QED
  BY <1>1, <1>2

THEOREM FilledAlways == Spec => []Filled
<1>1. Init => Filled
  <2> SUFFICES ASSUME Init PROVE Filled
    OBVIOUS
  <2>1. tokens \in 0 .. Len(TokenIds)
    BY InterviewAssumption DEF Init
  <2>2. DOMAIN field = Fields /\ DOMAIN answered = Items
    BY DEF Init
  <2>3. \A it \in Fields : field[it] = Null
    BY DEF Init
  <2>4. \A p \in {"N", "d"} : answered[<<p, 0>>] = None
    BY SlotsOfSystem DEF Init
  <2> QED
    BY <2>1, <2>2, <2>3, <2>4 DEF Filled
<1>2. Filled /\ [Next]_vars => Filled'
  <2> SUFFICES ASSUME Filled, [Next]_vars PROVE Filled'
    OBVIOUS
  <2>1. CASE UNCHANGED vars
    BY <2>1 DEF vars, Filled
  <2>2. CASE Ask
    BY <2>2 DEF Ask, Filled
  <2>3. ASSUME NEW it \in Items, Reply(it) PROVE Filled'
    <3>1. CASE Fills(it)
      <4>1. it # Ids /\ it \in Fields
        BY <3>1, SlotsOfSystem DEF Fills
      <4>2. PICK a \in Told[it[1]] : Fill(it, a.value, a.status)
        BY <3>1 DEF Fills
      <4>3. it[1] \in Slots \ {"ids"}
        BY <4>1, SlotsOfSystem
      <4>4. \E v, status : a.value = Stored(Slot[it[1]], v, status)
        BY <4>2, <4>3 DEF Told
      <4> QED
        BY <4>1, <4>2, <4>4, FillKeeps
    <3>2. CASE Describes(it)
      BY <3>2, RecordKeeps DEF Describes
    <3> QED
      BY <2>3, <3>1, <3>2 DEF Reply
  <2>4. ASSUME NEW it \in Items, Volunteer(it) PROVE Filled'
    BY <2>4, RecordKeeps DEF Volunteer
  <2>5. ASSUME NEW it \in Fields, Save(it) PROVE Filled'
    <3>1. PICK v : /\ v = Null \/ FieldTakes(Slot[it[1]], v)
                   /\ field' = [field EXCEPT ![it] = v]
      BY <2>5, StoredFits DEF Save
    <3>2. UNCHANGED <<tokens, answered>> /\ it[1] \notin {"N", "d"}
      BY <2>5 DEF Save, Optional
    <3>3. \A i \in Fields : field'[i] = IF i = it THEN v ELSE field[i]
      BY <3>1 DEF Filled
    <3>4. DOMAIN field' = Fields /\ DOMAIN answered' = Items /\ tokens' \in 0 .. Len(TokenIds)
      BY <3>1, <3>2 DEF Filled
    <3>5. \A i \in Fields : field'[i] = Null \/ FieldTakes(Slot[i[1]], field'[i])
      BY <3>1, <3>3 DEF Filled
    <3>6. ASSUME NEW p \in {"N", "d"}, answered'[<<p, 0>>] # None PROVE field'[<<p, 0>>] # Null
      <4>1. <<p, 0>> \in Fields /\ it # <<p, 0>>
        BY <3>2, SlotsOfSystem
      <4> QED
        BY <3>2, <3>3, <3>6, <4>1 DEF Filled
    <3> QED
      BY <3>4, <3>5, <3>6 DEF Filled
  <2> QED
    BY <2>1, <2>2, <2>3, <2>4, <2>5 DEF Next
<1> QED
  BY <1>1, <1>2, PTL DEF Spec

(* What a design has of the values that were given for it                  *)
Ranged(v) == [lo |-> v.min, hi |-> v.max]

Gives(te, n, f) ==
  /\ te.tokens = {TokenIds[i] : i \in 1 .. n}
  /\ \A p \in Once : /\ Has(te, p) <=> f[<<p, 0>>] # Null
                     /\ Has(te, p) => te.span[p] = Ranged(f[<<p, 0>>])
  /\ \A i \in 1 .. n : /\ Has(te, TokenIds[i]) <=> f[<<"K", i>>] # Null
                       /\ Has(te, TokenIds[i]) => te.span[TokenIds[i]] = Ranged(f[<<"K", i>>])
  /\ te.token = [t \in te.tokens |-> [Base.token EXCEPT !.variety = IF Has(te, t) THEN t ELSE None]]
  /\ \A p \in Temper : /\ Has(te, p) <=> p \in DOMAIN Base.span
                       /\ Has(te, p) => te.span[p] = Base.span[p]

LEMMA DesignGives ==
  ASSUME NEW n \in 1 .. Len(TokenIds), NEW f
  PROVE  Gives(Design(n, f), n, f)
<1> DEFINE ids      == {TokenIds[i] : i \in 1 .. n}
           place(t) == CHOOSE i \in 1 .. n : TokenIds[i] = t
           item(p)  == IF p \in Once THEN <<p, 0>> ELSE <<"K", place(p)>>
           held     == {p \in Once \cup ids : Holds(n, f, item(p))}
           te       == Design(n, f)
<1>1. /\ te.tokens = ids
      /\ te.span = [p \in held \cup DOMAIN Base.span |-> IF p \in held THEN Ranged(f[item(p)]) ELSE Base.span[p]]
      /\ te.token = [t \in ids |-> [Base.token EXCEPT !.variety = IF t \in held THEN t ELSE None]]
  BY DEF Design, Ranged
<1>2. \A i \in 1 .. n : i \in DOMAIN TokenIds
  BY InterviewAssumption
<1>3. ASSUME NEW i \in 1 .. n
      PROVE  /\ place(TokenIds[i]) = i /\ TokenIds[i] \in ids
             /\ TokenIds[i] \notin Once \cup Temper \cup DOMAIN Base.span
  <2>1. TokenIds[i] \in ids /\ TokenIds[i] \notin Once \cup Temper \cup DOMAIN Base.span
    BY <1>2, InterviewAssumption
  <2>2. \A j \in 1 .. n : TokenIds[j] = TokenIds[i] => j = i
    BY <1>2, InterviewAssumption
  <2> QED
    BY <2>1, <2>2
<1>4. \A p \in Once : item(p) = <<p, 0>> /\ p \notin DOMAIN Base.span /\ p # "K" /\ p # "ids"
  BY InterviewAssumption DEF Once
<1>5. \A i \in 1 .. n : item(TokenIds[i]) = <<"K", i>>
  BY <1>3
<1>6. \A p \in Once : p \in held <=> f[<<p, 0>>] # Null
  BY <1>4 DEF Holds, Exists, Ids, Once
<1>7. \A i \in 1 .. n : TokenIds[i] \in held <=> f[<<"K", i>>] # Null
  <2> SUFFICES ASSUME NEW i \in 1 .. n PROVE TokenIds[i] \in held <=> f[<<"K", i>>] # Null
    OBVIOUS
  <2>1. <<"K", i>> # Ids /\ Exists(n, <<"K", i>>)
    BY InterviewAssumption DEF Ids, Exists
  <2> QED
    BY <1>3, <1>5, <2>1 DEF Holds
<1>8. held \subseteq Once \cup ids
  OBVIOUS
<1>9. \A p \in Temper : p \notin held
  <2>1. \A p \in Temper : p \notin Once
    BY DEF Once, Temper
  <2>2. \A t \in ids : t \notin Temper
    BY <1>3
  <2> QED
    BY <1>8, <2>1, <2>2
<1> HIDE DEF item, held, place, te
<1>10. \A p : Has(te, p) <=> p \in held \cup DOMAIN Base.span
  BY <1>1 DEF Has
<1>11. \A p \in Once : /\ Has(te, p) <=> f[<<p, 0>>] # Null
                       /\ Has(te, p) => te.span[p] = Ranged(f[<<p, 0>>])
  BY <1>1, <1>4, <1>6, <1>10
<1>12. \A i \in 1 .. n : /\ Has(te, TokenIds[i]) <=> f[<<"K", i>>] # Null
                         /\ Has(te, TokenIds[i]) => te.span[TokenIds[i]] = Ranged(f[<<"K", i>>])
  <2> SUFFICES ASSUME NEW i \in 1 .. n
               PROVE  /\ Has(te, TokenIds[i]) <=> f[<<"K", i>>] # Null
                      /\ Has(te, TokenIds[i]) => te.span[TokenIds[i]] = Ranged(f[<<"K", i>>])
    OBVIOUS
  <2>1. Has(te, TokenIds[i]) <=> TokenIds[i] \in held
    BY <1>3, <1>10
  <2>2. TokenIds[i] \in held => te.span[TokenIds[i]] = Ranged(f[item(TokenIds[i])])
    BY <1>1
  <2> QED
    BY <1>5, <1>7, <2>1, <2>2
<1>13. te.token = [t \in te.tokens |-> [Base.token EXCEPT !.variety = IF Has(te, t) THEN t ELSE None]]
  <2>1. \A t \in ids : Has(te, t) <=> t \in held
    BY <1>3, <1>10
  <2> QED
    BY <1>1, <2>1
<1>14. \A p \in Temper : /\ Has(te, p) <=> p \in DOMAIN Base.span
                         /\ Has(te, p) => te.span[p] = Base.span[p]
  BY <1>1, <1>9, <1>10
<1> QED
  BY <1>1, <1>11, <1>12, <1>13, <1>14 DEF te, Gives

LEMMA DesignQualities ==
  ASSUME NEW n, NEW f
  PROVE  /\ Design(n, f).nfr.maturity = IF f[<<"maturity", 0>>] = Null THEN "medium_term" ELSE f[<<"maturity", 0>>].word
         /\ Design(n, f).nfr.proportionality = IF f[<<"proportionality", 0>>] = Null THEN 3 ELSE f[<<"proportionality", 0>>].n
BY InterviewAssumption DEF Design

LEMMA DesignRest ==
  ASSUME NEW n, NEW f, NEW g
  PROVE  LET te == Design(n, f) u == Design(n, g)
         IN /\ te.event = u.event /\ te.agents = u.agents
            /\ f[<<"maturity", 0>>] = g[<<"maturity", 0>>] => te.nfr.maturity = u.nfr.maturity
            /\ f[<<"proportionality", 0>>] = g[<<"proportionality", 0>>] => te.nfr.proportionality = u.nfr.proportionality
            /\ f[<<"rules", 0>>] = g[<<"rules", 0>>] /\ f[<<"governance", 0>>] = g[<<"governance", 0>>] => te.govern = u.govern
            /\ f[<<"topology", 0>>] = g[<<"topology", 0>>] => te.topology = u.topology
<1>1. LET te == Design(n, f) u == Design(n, g)
      IN /\ te.event = u.event /\ te.agents = u.agents
         /\ f[<<"rules", 0>>] = g[<<"rules", 0>>] /\ f[<<"governance", 0>>] = g[<<"governance", 0>>] => te.govern = u.govern
         /\ f[<<"topology", 0>>] = g[<<"topology", 0>>] => te.topology = u.topology
  BY DEF Design
<1> QED
  BY <1>1, DesignQualities

(* Two designs that agree on who decides and on the varieties              *)
LEMMA DesignsAlike ==
  ASSUME NEW n \in 1 .. Len(TokenIds), NEW f, NEW g,
         f[<<"rules", 0>>] = g[<<"rules", 0>>], f[<<"governance", 0>>] = g[<<"governance", 0>>],
         \A i \in 1 .. n : f[<<"K", i>>] = g[<<"K", i>>]
  PROVE  LET te == Design(n, f) u == Design(n, g)
         IN /\ Offers(te, u)
            /\ \A p \in Temper : SameAt(te, u, p)
            /\ \A p \in Once : f[<<p, 0>>] = g[<<p, 0>>] => SameAt(te, u, p)
<1> DEFINE te == Design(n, f)
           u  == Design(n, g)
<1>1. Gives(te, n, f)
  BY DesignGives
<1>2. Gives(u, n, g)
  BY DesignGives
<1>3. te.event = u.event /\ te.agents = u.agents /\ te.govern = u.govern
  BY DesignRest
<1> HIDE DEF te, u
<1>4. \A t \in te.tokens : SameAt(te, u, t)
  <2> SUFFICES ASSUME NEW i \in 1 .. n PROVE SameAt(te, u, TokenIds[i])
    BY <1>1 DEF Gives
  <2>1. f[<<"K", i>>] = g[<<"K", i>>]
    OBVIOUS
  <2>2. (Has(te, TokenIds[i]) <=> f[<<"K", i>>] # Null) /\ (Has(te, TokenIds[i]) => te.span[TokenIds[i]] = Ranged(f[<<"K", i>>]))
    BY <1>1 DEF Gives
  <2>3. (Has(u, TokenIds[i]) <=> g[<<"K", i>>] # Null) /\ (Has(u, TokenIds[i]) => u.span[TokenIds[i]] = Ranged(g[<<"K", i>>]))
    BY <1>2 DEF Gives
  <2> QED
    BY <2>1, <2>2, <2>3 DEF SameAt
<1>5. te.tokens = u.tokens
  BY <1>1, <1>2 DEF Gives
<1>6. te.token = u.token
  <2>1. \A t \in te.tokens : Has(te, t) <=> Has(u, t)
    BY <1>4 DEF SameAt
  <2> QED
    BY <1>1, <1>2, <1>5, <2>1 DEF Gives
<1>7. ASSUME NEW t \in te.tokens, te.token[t].variety # None
      PROVE  SameAt(te, u, te.token[t].variety) /\ Has(te, te.token[t].variety)
  <2>1. te.token[t].variety = IF Has(te, t) THEN t ELSE None
    BY <1>1, InterviewAssumption DEF Gives
  <2> QED
    BY <1>4, <1>7, <2>1
<1>8. Offers(te, u)
  BY <1>3, <1>5, <1>6, <1>7 DEF Offers, Alike
<1>9. \A p \in Temper : SameAt(te, u, p)
  BY <1>1, <1>2 DEF SameAt, Gives
<1>10. \A p \in Once : f[<<p, 0>>] = g[<<p, 0>>] => SameAt(te, u, p)
  BY <1>1, <1>2 DEF SameAt, Gives
<1> QED
  BY <1>8, <1>9, <1>10 DEF te, u

(* What is left open once the interview is complete, and what answers to   *)
(* it can change                                                           *)
Gini     == <<"gini", 0>>
Topology == <<"topology", 0>>
Contact  == <<"degree", 0>>
Maturity == <<"maturity", 0>>
Closeness == <<"proportionality", 0>>

LEMMA LeftOpen ==
  ASSUME Filled, Complete(tokens, field, Done)
  PROVE  LET open == Open(tokens, field, Done)
             swept == Design(tokens, Swept(tokens, field, Done))
         IN /\ tokens \in 1 .. Len(TokenIds)
            /\ open \subseteq {Gini, Topology, Contact, Maturity, Closeness}
            /\ Gini \in open => Settled(swept, "FM6")
            /\ (Topology \in open \/ Contact \in open) => Settled(swept, "FM5")
            /\ field[<<"N", 0>>] # Null /\ field[<<"d", 0>>] # Null
<1> DEFINE open  == Open(tokens, field, Done)
           swept == Design(tokens, Swept(tokens, field, Done))
<1>1. tokens \in 1 .. Len(TokenIds)
  BY InterviewAssumption DEF Complete, Valid, Filled
<1>2. \A it \in open : it[1] \notin Decisive /\ Feeds[it[1]] \cap {fm \in Asked : ~Settled(swept, fm)} = {}
  BY DEF Complete, Needed
<1>3. open \subseteq Items
  BY DEF Open
<1> HIDE DEF open, swept
<1>4. ASSUME NEW it \in open PROVE it \in {Gini, Topology, Contact, Maturity, Closeness}
  <2>1. it[1] \notin {"ids", "governance", "rules", "N", "d", "K"} /\ it \in Items
    BY <1>2, <1>3, <1>4 DEF Decisive
  <2> QED
    BY <2>1 DEF Items, Slots, Gini, Topology, Contact, Maturity, Closeness
<1>5. Gini \in open => Settled(swept, "FM6")
  <2>1. Gini[1] = "gini" /\ Feeds["gini"] = {"FM6"} /\ "FM6" \in Asked
    BY DEF Gini, Feeds, Asked
  <2> QED
    BY <1>2, <2>1
<1>6. (Topology \in open \/ Contact \in open) => Settled(swept, "FM5")
  <2>1. /\ Topology[1] = "topology" /\ Contact[1] = "degree"
        /\ Feeds["topology"] = {"FM5"} /\ Feeds["degree"] = {"FM5"} /\ "FM5" \in Asked
    BY DEF Topology, Contact, Feeds, Asked
  <2> QED
    BY <1>2, <2>1
<1>7. ASSUME NEW p \in {"N", "d"} PROVE field[<<p, 0>>] # Null
  <2>1. <<p, 0>> \in Items /\ <<p, 0>> # Ids
    BY SlotsOfSystem
  <2>2. <<p, 0>> \notin open
    BY <1>4 DEF Gini, Topology, Contact, Maturity, Closeness
  <2>3. Applies(tokens, field, <<p, 0>>)
    BY DEF Applies, Exists
  <2>4. <<p, 0>> \in Done \/ Holds(tokens, field, <<p, 0>>)
    BY <2>1, <2>2, <2>3 DEF Open, open
  <2> QED
    BY <2>1, <2>4 DEF Done, Holds, Filled
<1> QED
  BY <1>1, <1>4, <1>5, <1>6, <1>7 DEF open, swept

LEMMA Future ==
  ASSUME Filled, Complete(tokens, field, Done), NEW f \in Futures(Open(tokens, field, Done))
  PROVE  LET open == Open(tokens, field, Done)
             swept == Swept(tokens, field, Done)
         IN /\ Maturity \notin open => f[Maturity] = field[Maturity] /\ swept[Maturity] = field[Maturity]
            /\ Maturity \in open => swept[Maturity] = Word("medium_term")
            /\ Closeness \notin open => f[Closeness] = field[Closeness] /\ swept[Closeness] = field[Closeness]
            /\ Closeness \in open => swept[Closeness] = Number(3) /\ FieldTakes(Slot["proportionality"], f[Closeness])
            /\ \A it \in Fields \ {Gini, Topology, Contact, Maturity, Closeness} : f[it] = field[it] /\ swept[it] = field[it]
            /\ Gini \notin open => f[Gini] = field[Gini] /\ swept[Gini] = field[Gini]
            /\ Gini \in open => FieldTakes(Slot["gini"], f[Gini]) /\ swept[Gini] = Span(0, 100)
            /\ Topology \notin open /\ Contact \notin open =>
                 /\ f[Topology] = field[Topology] /\ swept[Topology] = field[Topology]
                 /\ f[Contact] = field[Contact] /\ swept[Contact] = field[Contact]
<1> DEFINE open  == Open(tokens, field, Done)
           swept == Swept(tokens, field, Done)
           with(g) == [it \in Fields |-> IF it \in open THEN g[it] ELSE field[it]]
<1>1. open \subseteq {Gini, Topology, Contact, Maturity, Closeness}
  BY LeftOpen
<1>2. PICK g : /\ \A it \in open : g[it] \in Sayings[it[1]]
               /\ IF Contact \in Open(tokens, with(g), Done \cup open)
                  THEN f \in {[with(g) EXCEPT ![Contact] = v] : v \in Sayings["degree"]} ELSE f = with(g)
  BY DEF Futures, Contact
<1>3. \A it \in Fields : it # Contact => f[it] = IF it \in open THEN g[it] ELSE field[it]
  BY <1>2
<1>4. \A it \in Fields : swept[it] = IF it \in open /\ Slot[it[1]].unknown # Refused THEN Slot[it[1]].unknown ELSE field[it]
  BY DEF Swept
<1>5. Gini \in Fields /\ Topology \in Fields /\ Contact \in Fields /\ Maturity \in Fields /\ Closeness \in Fields
  BY SlotsOfSystem DEF Gini, Topology, Contact, Maturity, Closeness
<1>6. /\ Gini # Contact /\ Topology # Contact /\ Maturity # Contact /\ Closeness # Contact
      /\ Gini[1] = "gini" /\ Maturity[1] = "maturity" /\ Closeness[1] = "proportionality"
  BY DEF Gini, Topology, Contact, Maturity, Closeness
<1>7. Contact \notin open /\ Topology \notin open => f[Contact] = field[Contact]
  <2> SUFFICES ASSUME Contact \notin open, Topology \notin open PROVE f[Contact] = field[Contact]
    OBVIOUS
  <2>1. with(g)[Contact] = field[Contact] /\ with(g)[Topology] = field[Topology]
    BY <1>5
  <2> HIDE DEF with
  <2>2. Contact \in Open(tokens, with(g), Done \cup open) => Contact \in open
    BY <2>1 DEF Open, Applies, Holds, Topology, Contact, Ids, open
  <2> QED
    BY <1>2, <2>1, <2>2
<1>8. Gini \in open => FieldTakes(Slot["gini"], f[Gini]) /\ swept[Gini] = Span(0, 100)
  <2> SUFFICES ASSUME Gini \in open PROVE FieldTakes(Slot["gini"], f[Gini]) /\ swept[Gini] = Span(0, 100)
    OBVIOUS
  <2>1. f[Gini] \in Sayings["gini"]
    BY <1>2, <1>3, <1>5, <1>6
  <2>2. Slot["gini"].unknown = Span(0, 100)
    BY DEF Slot, Interval
  <2>3. FieldTakes(Slot["gini"], Span(0, 100))
    BY DEF FieldTakes, Slot, Interval, Span
  <2>4. Sayings["gini"] = ({Stored(Slot["gini"], v, "committed") : v \in Values["gini"]} \ {Refused}) \cup {Slot["gini"].unknown}
    BY DEF Sayings, Slots
  <2>5. FieldTakes(Slot["gini"], f[Gini])
    BY <2>1, <2>2, <2>3, <2>4, StoredFits
  <2>6. Slot["gini"].unknown # Refused
    BY <2>2 DEF Span, Refused
  <2> QED
    BY <1>4, <1>5, <1>6, <2>2, <2>5, <2>6
<1>12. Maturity \in open => swept[Maturity] = Word("medium_term")
  <2>1. Slot["maturity"].unknown = Word("medium_term") /\ Word("medium_term") # Refused
    BY DEF Slot, Choosing, Word, Refused
  <2> QED
    BY <1>4, <1>5, <1>6, <2>1
<1>14. Closeness \in open => swept[Closeness] = Number(3) /\ FieldTakes(Slot["proportionality"], f[Closeness])
  <2> SUFFICES ASSUME Closeness \in open PROVE swept[Closeness] = Number(3) /\ FieldTakes(Slot["proportionality"], f[Closeness])
    OBVIOUS
  <2>1. f[Closeness] \in Sayings["proportionality"]
    BY <1>2, <1>3, <1>5, <1>6
  <2>2. Slot["proportionality"].unknown = Number(3) /\ Number(3) # Refused
    BY DEF Slot, Number, Refused
  <2>3. FieldTakes(Slot["proportionality"], Number(3))
    BY DEF FieldTakes, Slot, Number
  <2>4. Sayings["proportionality"] = ({Stored(Slot["proportionality"], v, "committed") : v \in Values["proportionality"]} \ {Refused})
                                       \cup {Slot["proportionality"].unknown}
    BY DEF Sayings, Slots
  <2>5. FieldTakes(Slot["proportionality"], f[Closeness])
    BY <2>1, <2>2, <2>3, <2>4, StoredFits
  <2> QED
    BY <1>4, <1>5, <1>6, <2>2, <2>5
<1> HIDE DEF open, swept, with
<1>15. Closeness \notin open => f[Closeness] = field[Closeness] /\ swept[Closeness] = field[Closeness]
  BY <1>3, <1>4, <1>5, <1>6
<1>13. Maturity \notin open => f[Maturity] = field[Maturity] /\ swept[Maturity] = field[Maturity]
  BY <1>3, <1>4, <1>5, <1>6
<1>9. \A it \in Fields \ {Gini, Topology, Contact, Maturity, Closeness} : f[it] = field[it] /\ swept[it] = field[it]
  BY <1>1, <1>3, <1>4
<1>10. Gini \notin open => f[Gini] = field[Gini] /\ swept[Gini] = field[Gini]
  BY <1>3, <1>4, <1>5, <1>6
<1>11. Topology \notin open /\ Contact \notin open =>
                 /\ f[Topology] = field[Topology] /\ swept[Topology] = field[Topology]
                 /\ f[Contact] = field[Contact] /\ swept[Contact] = field[Contact]
  BY <1>3, <1>4, <1>5, <1>6, <1>7
<1> QED
  BY <1>8, <1>9, <1>10, <1>11, <1>12, <1>13, <1>14, <1>15 DEF open, swept

LEMMA RangedInts ==
  ASSUME NEW p \in {"N", "d", "gini", "degree", "K"}, NEW v, FieldTakes(Slot[p], v)
  PROVE  /\ v.min \in Int /\ v.max \in Int
         /\ p = "gini" => v.min \in 0 .. 100 /\ v.max \in 0 .. 100
<1>1. v.type = "span" /\ {v.min, v.max} \subseteq Slot[p].least .. Slot[p].most
  BY RangesHeld DEF FieldTakes
<1>2. Slot[p].least \in Int /\ Slot[p].most \in Int /\ (p = "gini" => Slot[p].least = 0 /\ Slot[p].most = 100)
  BY DEF Slot, Interval, Anything
<1> QED
  BY <1>1, <1>2

LEMMA MostIsInt ==
  ASSUME NEW n \in Nat, NEW T, T # {}, T \subseteq Int, NEW h \in [1 .. n -> Int], \A x \in T : \E i \in 1 .. n : x = h[i]
  PROVE  Max(T) \in Int
<1> DEFINE R == {h[i] : i \in 1 .. n}
<1>1. h \in Surjection(1 .. n, R)
  <2>1. h \in [1 .. n -> R]
    OBVIOUS
  <2> QED
    BY <2>1 DEF Surjection
<1>2. IsFiniteSet(1 .. n)
  BY FS_Interval
<1>3. IsFiniteSet(R)
  BY <1>1, <1>2, FS_Surjection
<1>4. T \in SUBSET R
  OBVIOUS
<1> HIDE DEF R
<1>5. IsFiniteSet(T)
  BY <1>3, <1>4, FS_Subset
<1> QED
  BY <1>5, MaxIsThere

LEMMA DesignCounted ==
  ASSUME NEW n \in 1 .. Len(TokenIds), NEW f,
         \A it \in Fields : f[it] = Null \/ FieldTakes(Slot[it[1]], f[it]),
         f[<<"N", 0>>] # Null, f[<<"d", 0>>] # Null, Varieties(Design(n, f)) # {}
  PROVE  Counted(Design(n, f))
<1> DEFINE te == Design(n, f)
<1>1. Gives(te, n, f) /\ Varieties(te) # {}
  BY DesignGives
<1> HIDE DEF te
<1>2. ASSUME NEW p \in Once, Has(te, p) PROVE te.span[p].lo \in Int /\ te.span[p].hi \in Int
  <2>1. te.span[p] = Ranged(f[<<p, 0>>]) /\ f[<<p, 0>>] # Null
    BY <1>1, <1>2 DEF Gives
  <2>2. <<p, 0>> \in Fields
    BY SlotsOfSystem DEF Once
  <2>3. FieldTakes(Slot[p], f[<<p, 0>>])
    BY <2>1, <2>2
  <2> QED
    BY <2>1, <2>3, RangedInts DEF Ranged, Once
<1>3. Has(te, "N") /\ Has(te, "d")
  BY <1>1 DEF Gives, Once
<1>4. te.span["N"].lo \in Int /\ te.span["d"].hi \in Int
  BY <1>2, <1>3 DEF Once
<1>5. Degree(te) \in Int
  <2>1. CASE Has(te, "degree")
    BY <1>2, <2>1 DEF Degree, Once
  <2>2. CASE ~Has(te, "degree")
    BY <2>2, UsualDegreeIsNat DEF Degree
  <2> QED
    BY <2>1, <2>2
<1>6. Hull(Varieties(te)).hi \in Int
  <2> DEFINE h == [i \in 1 .. n |-> IF f[<<"K", i>>] = Null THEN 0 ELSE f[<<"K", i>>].max]
             T == {r.hi : r \in Varieties(te)}
  <2>1. n \in Nat /\ \A i \in 1 .. n : <<"K", i>> \in Fields
    BY InterviewAssumption DEF Fields, Items
  <2>2. h \in [1 .. n -> Int]
    <3> SUFFICES ASSUME NEW i \in 1 .. n, f[<<"K", i>>] # Null PROVE f[<<"K", i>>].max \in Int
      OBVIOUS
    <3>1. <<"K", i>>[1] = "K" /\ <<"K", i>> \in Fields
      BY <2>1
    <3>2. FieldTakes(Slot["K"], f[<<"K", i>>])
      BY <3>1
    <3> QED
      BY <3>2, RangedInts
  <2>3. ASSUME NEW r \in Varieties(te) PROVE \E i \in 1 .. n : r.hi = h[i]
    <3>1. PICK t \in te.tokens : te.token[t].variety # None /\ r = te.span[te.token[t].variety]
      BY <2>3 DEF Varieties
    <3>2. te.token[t].variety = IF Has(te, t) THEN t ELSE None
      BY <1>1, InterviewAssumption DEF Gives
    <3>3. PICK i \in 1 .. n : t = TokenIds[i]
      BY <1>1, <3>1 DEF Gives
    <3>4. Has(te, TokenIds[i]) /\ r = te.span[TokenIds[i]]
      BY <3>1, <3>2, <3>3
    <3>5. f[<<"K", i>>] # Null /\ te.span[TokenIds[i]] = Ranged(f[<<"K", i>>])
      BY <1>1, <3>4 DEF Gives
    <3> QED
      BY <3>4, <3>5 DEF Ranged
  <2> HIDE DEF h
  <2>4. T # {} /\ \A x \in T : \E i \in 1 .. n : x = h[i]
    BY <1>1, <2>3
  <2>5. T \subseteq Int
    BY <2>2, <2>4
  <2>6. Hull(Varieties(te)).hi = Max(T)
    BY DEF Hull
  <2> HIDE DEF T
  <2>7. Max(T) \in Int
    BY <2>1, <2>2, <2>4, <2>5, MostIsInt
  <2> QED
    BY <2>6, <2>7
<1>7. Contacts(te) \in Int
  <2> DEFINE k == Hull(Varieties(te)).hi
             d == te.span["d"].hi
  <2>1. Contacts(te) = 2 * k * d
    BY DEF Contacts
  <2>2. k \in Int /\ d \in Int
    BY <1>4, <1>6
  <2> HIDE DEF k, d
  <2> QED
    BY <2>1, <2>2
<1>8. Counted(te)
  BY <1>4, <1>5, <1>7 DEF Counted
<1> QED
  BY <1>8 DEF te

(* The stopping rule (ranking.py): once the interview says it is complete, *)
(* no answer to anything still open can change what FM4, FM5 or FM6 says   *)
(* of the design, for any base design, names and values, except the two    *)
(* answers a check reads although the protocol says they feed none.        *)
THEOREM StoppingIsSound == Spec => []NothingOpenMatters
<1>1. Filled => NothingOpenMatters
  <2> SUFFICES ASSUME Filled, Complete(tokens, field, Done), NEW f \in Futures(Open(tokens, field, Done)), NEW fm \in Asked,
                      ~Unfed(fm, f)
               PROVE  Standing(Design(tokens, f), fm) = Standing(Design(tokens, Swept(tokens, field, Done)), fm)
    BY DEF NothingOpenMatters
  <2> DEFINE open  == Open(tokens, field, Done)
             swept == Swept(tokens, field, Done)
             te    == Design(tokens, swept)
             u     == Design(tokens, f)
  <2>1. /\ tokens \in 1 .. Len(TokenIds)
        /\ open \subseteq {Gini, Topology, Contact, Maturity, Closeness}
        /\ Gini \in open => Settled(te, "FM6")
        /\ (Topology \in open \/ Contact \in open) => Settled(te, "FM5")
        /\ field[<<"N", 0>>] # Null /\ field[<<"d", 0>>] # Null
    BY LeftOpen
  <2>2. /\ Maturity \notin open => f[Maturity] = field[Maturity] /\ swept[Maturity] = field[Maturity]
        /\ Maturity \in open => swept[Maturity] = Word("medium_term")
        /\ Closeness \notin open => f[Closeness] = field[Closeness] /\ swept[Closeness] = field[Closeness]
        /\ Closeness \in open => swept[Closeness] = Number(3) /\ FieldTakes(Slot["proportionality"], f[Closeness])
        /\ \A it \in Fields \ {Gini, Topology, Contact, Maturity, Closeness} : f[it] = field[it] /\ swept[it] = field[it]
        /\ Gini \notin open => f[Gini] = field[Gini] /\ swept[Gini] = field[Gini]
        /\ Gini \in open => FieldTakes(Slot["gini"], f[Gini]) /\ swept[Gini] = Span(0, 100)
        /\ Topology \notin open /\ Contact \notin open =>
             /\ f[Topology] = field[Topology] /\ swept[Topology] = field[Topology]
             /\ f[Contact] = field[Contact] /\ swept[Contact] = field[Contact]
    BY Future
  <2>3. \A it \in Fields : swept[it] = Null \/ FieldTakes(Slot[it[1]], swept[it])
    <3>1. \A it \in Fields : swept[it] = IF it \in open /\ Slot[it[1]].unknown # Refused THEN Slot[it[1]].unknown ELSE field[it]
      BY DEF Swept
    <3>2. \A it \in {Gini, Topology, Contact, Maturity, Closeness} : FieldTakes(Slot[it[1]], Slot[it[1]].unknown)
      <4>1. FieldTakes(Slot["gini"], Slot["gini"].unknown)
        BY DEF FieldTakes, Slot, Interval, Span
      <4>2. FieldTakes(Slot["topology"], Slot["topology"].unknown)
        BY DEF FieldTakes, Slot, Choosing, Word
      <4>3. FieldTakes(Slot["degree"], Slot["degree"].unknown)
        BY DEF FieldTakes, Slot, Interval, Span, Anything
      <4>4. FieldTakes(Slot["maturity"], Slot["maturity"].unknown)
        BY DEF FieldTakes, Slot, Choosing, Word
      <4>5. FieldTakes(Slot["proportionality"], Slot["proportionality"].unknown)
        BY DEF FieldTakes, Slot, Number
      <4> QED
        BY <4>1, <4>2, <4>3, <4>4, <4>5 DEF Gini, Topology, Contact, Maturity, Closeness
    <3> HIDE DEF open, swept
    <3> QED
      BY <2>1, <3>1, <3>2 DEF Filled
  <2> HIDE DEF open, swept
  <2>4. /\ swept[<<"rules", 0>>] = f[<<"rules", 0>>] /\ swept[<<"governance", 0>>] = f[<<"governance", 0>>]
        /\ \A i \in 1 .. tokens : swept[<<"K", i>>] = f[<<"K", i>>]
    <3>1. \A i \in 1 .. tokens : <<"K", i>> \in Fields
      BY <2>1, InterviewAssumption DEF Fields, Items
    <3> QED
      BY <2>2, <3>1, SlotsOfSystem DEF Gini, Topology, Contact, Maturity, Closeness
  <2>5. swept[<<"N", 0>>] = f[<<"N", 0>>] /\ swept[<<"d", 0>>] = f[<<"d", 0>>] /\ swept[<<"N", 0>>] # Null /\ swept[<<"d", 0>>] # Null
    BY <2>1, <2>2, SlotsOfSystem DEF Gini, Topology, Contact, Maturity, Closeness
  <2>6. /\ Offers(te, u)
        /\ \A p \in Temper : SameAt(te, u, p)
        /\ \A p \in Once : swept[<<p, 0>>] = f[<<p, 0>>] => SameAt(te, u, p)
    BY <2>1, <2>4, DesignsAlike
  <2>7. Gives(te, tokens, swept) /\ Gives(u, tokens, f)
    BY <2>1, DesignGives
  <2>8. te.span["d"] = u.span["d"] /\ te.span["N"] = u.span["N"]
    BY <2>5, <2>6, <2>7 DEF SameAt, Gives, Once
  <2>9. Varieties(te) # {} => Counted(te)
    BY <2>1, <2>3, <2>5, DesignCounted
  <2>10. f[Topology] = swept[Topology] => te.topology = u.topology
    BY DesignRest DEF Topology
  <2>14. te.govern = u.govern
    BY <2>4, DesignRest
  <2>15. fm = "FM6" => (Excused(te) <=> Excused(u))
    <3>1. CASE Maturity \notin open
      <4>1. te.nfr.maturity = u.nfr.maturity
        BY <2>2, <3>1, DesignRest DEF Maturity
      <4> QED
        BY <2>14, <4>1 DEF Excused
    <3>2. CASE Maturity \in open
      <4>1. fm = "FM6" => ~Excused(u)
        BY <3>2 DEF Unfed, Maturity, open
      <4>2. swept[<<"maturity", 0>>] # Null /\ swept[<<"maturity", 0>>].word = "medium_term"
        BY <2>2, <3>2 DEF Maturity, Word, Null
      <4>3. te.nfr.maturity = "medium_term"
        BY <4>2, DesignQualities
      <4>4. ~Excused(te)
        BY <4>3 DEF Excused
      <4> QED
        BY <4>1, <4>4
    <3> QED
      BY <3>1, <3>2
  <2>16. fm = "FM4" => ProportionalityFactor[te.nfr.proportionality] = ProportionalityFactor[u.nfr.proportionality]
    <3>1. CASE Closeness \notin open
      <4>1. te.nfr.proportionality = u.nfr.proportionality
        BY <2>2, <3>1, DesignRest DEF Closeness
      <4> QED
        BY <4>1
    <3>2. CASE Closeness \in open
      <4>1. fm = "FM4" => ~(u.nfr.proportionality > 3)
        BY <3>2 DEF Unfed, Closeness, open
      <4>2. swept[<<"proportionality", 0>>] # Null /\ swept[<<"proportionality", 0>>].n = 3
        BY <2>2, <3>2 DEF Closeness, Number, Null
      <4>3. te.nfr.proportionality = 3
        BY <4>2, DesignQualities
      <4>4. f[<<"proportionality", 0>>] # Null /\ f[<<"proportionality", 0>>].n \in 1 .. 5
        BY <2>2, <3>2 DEF FieldTakes, Slot, Closeness, Null
      <4>5. u.nfr.proportionality \in 1 .. 5
        BY <4>4, DesignQualities
      <4>6. \A q \in 1 .. 5 : ~(q > 3) => ProportionalityFactor[q] = 100
        <5>1. \A q \in 1 .. 5 : ~(q > 3) => q = 1 \/ q = 2 \/ q = 3
          OBVIOUS
        <5> QED
          BY <5>1 DEF ProportionalityFactor
      <4> HIDE DEF te, u
      <4> QED
        BY <4>1, <4>3, <4>5, <4>6
    <3> QED
      BY <3>1, <3>2
  <2> HIDE DEF te, u
  <2>11. CASE fm = "FM4"
    <3>1. SameAt(te, u, "gamma") /\ SameAt(te, u, "S")
      BY <2>6 DEF Temper
    <3> QED
      BY <2>6, <2>8, <2>11, <2>16, <3>1, SameFM4 DEF te, u, swept
  <2>12. CASE fm = "FM5"
    <3>1. CASE Topology \notin open /\ Contact \notin open
      <4>1. SameAt(te, u, "degree")
        BY <2>2, <2>6, <3>1 DEF Once, Contact
      <4>2. te.topology = u.topology
        BY <2>2, <2>10, <3>1
      <4> QED
        BY <2>6, <2>8, <2>12, <4>1, <4>2, SameFM5 DEF te, u, swept
    <3>2. CASE Topology \in open \/ Contact \in open
      <4>1. Standing(te, "FM5") \in {"sound", "not_applicable"}
        BY <2>1, <3>2 DEF Settled
      <4> QED
        BY <2>6, <2>8, <2>9, <2>12, <4>1, SettledFM5 DEF Counted, te, u, swept
    <3> QED
      BY <3>1, <3>2
  <2>13. CASE fm = "FM6"
    <3>1. \A p \in Weighed : SameAt(te, u, p)
      BY <2>6 DEF Temper, Weighed
    <3>2. Alike(te, u)
      BY <2>6 DEF Offers
    <3>3. CASE Gini \notin open
      <4>1. SameAt(te, u, "gini")
        BY <2>2, <2>6, <3>3 DEF Once, Gini
      <4>2. \A p \in Weighed \cup {"gini"} : SameAt(te, u, p)
        BY <3>1, <4>1
      <4> QED
        BY <2>13, <2>15, <3>2, <4>2, SameFM6 DEF te, u, swept
    <3>4. CASE Gini \in open
      <4>1. Standing(te, "FM6") \in {"sound", "not_applicable"}
        BY <2>1, <3>4 DEF Settled
      <4>2. swept[Gini] = Span(0, 100) /\ FieldTakes(Slot["gini"], f[Gini])
        BY <2>2, <3>4
      <4>3. f[Gini] # Null /\ f[Gini].min \in 0 .. 100 /\ f[Gini].max \in 0 .. 100
        BY <4>2, RangesHeld, RangedInts
      <4>4. Has(te, "gini") /\ te.span["gini"] = [lo |-> 0, hi |-> 100]
        BY <2>7, <4>2 DEF Gives, Once, Gini, Span, Null, Ranged
      <4>5. Has(u, "gini") /\ u.span["gini"].lo \in 0 .. 100 /\ u.span["gini"].hi \in 0 .. 100
        BY <2>7, <4>3 DEF Gives, Once, Gini, Ranged
      <4>6. \A p \in Weighed : Has(te, p) => te.span[p].lo \in Int /\ te.span[p].hi \in Int
        <5> SUFFICES ASSUME NEW p \in Weighed, Has(te, p) PROVE te.span[p].lo \in Int /\ te.span[p].hi \in Int
          OBVIOUS
        <5>1. p \in Temper
          BY DEF Weighed, Temper
        <5>2. p \in DOMAIN Base.span /\ te.span[p] = Base.span[p]
          BY <2>7, <5>1 DEF Gives
        <5> QED
          BY <5>2, InterviewAssumption
      <4> QED
        BY <2>13, <3>1, <3>2, <4>1, <4>4, <4>5, <4>6, SettledFM6 DEF te, u, swept
    <3> QED
      BY <3>3, <3>4
  <2> QED
    BY <2>11, <2>12, <2>13 DEF Asked
<1> QED
  BY <1>1, FilledAlways, PTL
==============================================================================
