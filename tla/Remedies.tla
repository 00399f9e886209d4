------------------------------ MODULE Remedies ------------------------------
(***************************************************************************)
(* What a failing check tells the author to do: the recommendations and    *)
(* critical values of verifier/failure_modes/*, the levers they name and   *)
(* the mechanisms that elicitation.py lists beside them, and which inputs  *)
(* are marked as still open.                                               *)
(*                                                                         *)
(* Advice is a set of [param, value, dir].  Some of it is in closed form;  *)
(* the rest is read off the assignment that the solver returned, which may *)
(* be any that violates the check, here one at the ends of the ranges.     *)
(***************************************************************************)
EXTENDS FailureModes

(* Mutant: rounded down *)
MutRatio(n, m) == n \div m
Ratio(n, m) == (n + m - 1) \div m   \* the threshold n/m, in the next whole number
AtLeast(p, v) == [param |-> p, value |-> v, dir |-> ">="]
AtMost(p, v)  == [param |-> p, value |-> v, dir |-> "<="]

(***************************************************************************)
(* FM1 and FM3 compare the most that the rules declare to what is plain:   *)
(* flows, regimes and conditions are left out, a polynomial is taken for a *)
(* slope, and what cannot be evaluated counts as nothing.                  *)
(***************************************************************************)
Highest(fn, te) ==
  CASE fn.family = "linear"       -> te.span[fn.a].hi * (Horizon \div 2) + te.span[fn.b].hi
    [] fn.family = "polynomial"   -> te.span[fn.a].hi * (Horizon \div 4) + 1
    [] fn.family = "distribution" -> Max({0, te.span[fn.a].hi})
    [] fn.family = "opaque"       -> 0
    [] OTHER                      -> te.span[fn.a].hi
DeclaredCreation(te, t) ==
  LET rules == te.token[t].emits
      often(r) == IF Resolve(r, te).freq = None THEN 1 ELSE te.span[Resolve(r, te).freq].hi
  IN Sum([i \in DOMAIN rules |-> Highest(rules[i].fn, te) * often(rules[i])])
Wide(te, t) == DeclaredCreation(te, t) > 3 * te.span["Q"].hi

FM1Advice(te, t) ==
  {AtMost(IF Wide(te, t) THEN "emission_range" ELSE "net_emission", te.span["Q"].lo)}
  \cup (IF Capped(te, t) THEN {AtMost("cap", te.span["Q"].lo)} ELSE {})

(***************************************************************************)
(* FM2: the holding time of the agents with the largest share, raised by   *)
(* what is missing to the average.                                         *)
(***************************************************************************)
Leading(te) == CHOOSE i \in DOMAIN te.agents :
                 \A j \in DOMAIN te.agents : te.agents[j].share <= te.agents[i].share /\ (j < i => te.agents[j].share < te.agents[i].share)
Holdings(te) ==
  LET spans == [i \in DOMAIN te.agents |-> te.span[te.agents[i].tau]]
  IN {h \in [DOMAIN te.agents -> UNION {{spans[i].lo, spans[i].hi} : i \in DOMAIN te.agents}] :
        \A i \in DOMAIN h : h[i] \in {spans[i].lo, spans[i].hi}}
FM2Advice(te) ==
  IF te.agents = <<>> THEN {}
  ELSE LET i == Leading(te)
           w == te.agents[i].share
           average(h) == Sum([j \in DOMAIN h |-> te.agents[j].share * h[j]])
       IN IF w = 0 THEN {}
          ELSE {AtLeast(te.agents[i].tau, Ratio(w * h[i] + 100 * Ceiling - average(h), w)) :
                  h \in {h \in Holdings(te) : average(h) <= 100 * Ceiling}}

(***************************************************************************)
(* FM3: how much must be removed.  Where separate events of unsettled      *)
(* frequency create and remove, the highest of the one is set against the  *)
(* floor; where little is created in the assignment, creation is to be     *)
(* settled from below.                                                     *)
(***************************************************************************)
Ranged(te, rules) ==
  {r.event : r \in {r \in Range(rules) : r.event # None /\ Resolve(r, te).freq # None
                                          /\ te.span[Resolve(r, te).freq].lo < te.span[Resolve(r, te).freq].hi}}
Independent(te, t) ==
  LET created == Ranged(te, te.token[t].emits)
      removed == Ranged(te, te.token[t].burns)
  IN created # {} /\ removed # {} /\ created \cap removed = {}

(* The least that expressions remove; other families count as nothing *)
DeclaredRemoval(te, t) ==
  LET rules == te.token[t].burns
  IN IF \E r \in Range(rules) : r.fn.family # "expression" THEN 0
     ELSE Max({0, Sum([i \in DOMAIN rules |-> LET freq == Resolve(rules[i], te).freq
                                              IN te.span[rules[i].fn.a].lo * (IF freq = None THEN 1 ELSE te.span[freq].lo)])})

(* What leads the text, given what the assignment creates, in hundredths *)
Lever3(te, t, e) ==
  LET top == 100 * DeclaredCreation(te, t)
  IN CASE te.span["Q"].hi > 0 /\ Wide(te, t) -> "emission_range"
       [] ~(te.span["Q"].hi > 0 /\ Wide(te, t)) /\ Independent(te, t) -> "separate"
       [] ~(te.span["Q"].hi > 0 /\ Wide(te, t)) /\ ~Independent(te, t) /\ 10 * e < top -> "emission_floor"
       [] OTHER -> "removal"

FM3Advice(te, t) ==
  IF ~Burns(te, t) THEN {}
  ELSE LET worst == {eb \in Balances(te, t) : Uncovered(te, Steady(te, t, eb[1], eb[2]), eb[2])}
           floor(e) == Ratio(e * Floor(te), 10000)
       IN {LET lever == Lever3(te, t, eb[1])
           IN AtLeast(lever, IF lever = "separate" THEN floor(100 * DeclaredCreation(te, t)) ELSE floor(eb[1])) : eb \in worst}

(***************************************************************************)
(* FM4: a verification that sees enough, or variety, or contributors; it   *)
(* depends on which of its two clauses fail in the assignment.             *)
(***************************************************************************)
GammaStar(te) == Ratio(100 * Gap(te), SanctionRange(te).lo)
KStar(te)     == Ratio(Demand(te, "hi"), PhiRange(te).lo)
Hopeless(te)  == Demand(te, "hi") > 10000 * Hull(Varieties(te)).lo   \* more contributors than everybody
Clears(te, v) == GammaTable[v].lo * SanctionRange(te).lo >= 100 * Gap(te)
Failing(te) ==   \* the clauses that fail in some assignment, and whether the other may hold there
  [gives |-> FewGive(te), deters |-> Tempting(te, "lo"), givesAlone |-> FewGive(te) /\ ~Tempting(te, "hi")]

FM4Advice(te) ==
  LET phi    == PhiRange(te)
      lever  == SanctionRange(te).lo > 0 /\ 100 * Gap(te) > GammaRange(te).lo * SanctionRange(te).lo
      gives  == IF Hopeless(te) THEN {AtLeast("K", Max({te.span["d"].hi} \cup IF phi.lo > 0 THEN {KStar(te)} ELSE {}))}
                ELSE IF phi.lo > 0 THEN {AtLeast("K", KStar(te))} ELSE {AtLeast("role", te.span["d"].hi)}
  IN (IF Failing(te).deters /\ lever THEN {AtLeast("gamma", GammaStar(te))} ELSE {})
     \cup (IF Failing(te).givesAlone \/ (Failing(te).gives /\ ~lever) THEN gives ELSE {})

(***************************************************************************)
(* FM5 and FM6                                                             *)
(***************************************************************************)
FM5Advice(te) == {AtLeast("N", Contacts(te) + 1)}
KMost(te) == (te.span["N"].lo - 1) \div (2 * te.span["d"].hi)   \* the variety that the participants can bear

Demotions(te) == Max({0, Ratio(2 * te.govern.unilateral - te.govern.decisions, 2)})
(* Mutant: "generic advice", whatever the votes are weighted by *)
MutLevers6(te) == {AtMost("gini", GiniThreshold)}
Levers6(te) ==
  LET less(p) == IF Has(te, p) THEN Max({0, te.span[p].lo - 1}) ELSE 0
      more(p) == IF Has(te, p) THEN Min({100, te.span[p].lo + 1}) ELSE 100
      gini == AtMost("gini", GiniThreshold)
  IN CASE te.govern.weighting = "capped"      -> {AtMost("cap_fraction", less("cap_fraction")), gini}
       [] te.govern.weighting = "time_locked" -> {AtLeast("avg_lock_fraction", more("avg_lock_fraction")), gini}
       [] te.govern.weighting = "delegated"   -> {AtMost("delegate_gini", GiniThreshold)}
       [] te.govern.weighting = "reputation"  -> {AtMost("reputation_gini", GiniThreshold)}
       [] OTHER                               -> {gini}
FM6Advice(te) ==
  IF te.govern.decisions > 0 /\ Captured(te) THEN {AtLeast("n_demote", Demotions(te))} ELSE Levers6(te)

Advice(te, fm, t) ==
  CASE fm = "FM1" -> FM1Advice(te, t) [] fm = "FM2" -> FM2Advice(te) [] fm = "FM3" -> FM3Advice(te, t)
    [] fm = "FM4" -> FM4Advice(te)    [] fm = "FM5" -> FM5Advice(te) [] fm = "FM6" -> FM6Advice(te)

(***************************************************************************)
(* The inputs a verdict marks as swept: the others are said to be settled. *)
(***************************************************************************)
Unsettled(te, ps) == {p \in ps : Has(te, p) => te.span[p].lo < te.span[p].hi}
Kinds4(te) == {te.token[t].variety : t \in te.tokens} \ {None}
Swept2(te) == Unsettled(te, {te.agents[i].tau : i \in DOMAIN te.agents})
Swept4(te) == Unsettled(te, {"d", "gamma", "S"} \cup Kinds4(te)) \cup (IF te.agents = <<>> THEN {"phi"} ELSE {})
Swept5(te) == Unsettled(te, {"N", "d"}) \cup (IF Hull(Varieties(te)).lo < Hull(Varieties(te)).hi THEN {"K"} ELSE {})
=============================================================================
