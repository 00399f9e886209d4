---------------------------- MODULE FailureModes ----------------------------
(***************************************************************************)
(* The static verifier's six checks (verifier/failure_modes/*, with the    *)
(* rates of asymptotic.py, the conditions of conditions.py and the tables  *)
(* of elicitation.py and config.py): for each, whether some assignment of  *)
(* the declared ranges violates it, whether some assignment satisfies it,  *)
(* and what the simulator is to watch for it.                              *)
(*                                                                         *)
(* A design te is a record.  te.span gives every declared range by name;   *)
(* the rest of te is its shape, which refers to ranges by those names:     *)
(*   token[t]: transferable, functions, anchor, emits and burns (sequences *)
(*     of rules), cap and variety (ranges or None), verification,          *)
(*     redemption, incentives;                                             *)
(*   a rule: fn, freq, event, kind, when, regimes, schedule;               *)
(*   event[e]: kind, label, freq, when;  flows;  agents;  govern;  nfr.    *)
(*                                                                         *)
(* Z3 ranges over reals; here a range is its whole numbers.  The formulas  *)
(* compare sums and products of ranges, which are largest and smallest at  *)
(* ends of ranges.  Fractions are in hundredths, holding times in tenths.  *)
(***************************************************************************)
EXTENDS Integers, Sequences, FiniteSets, FiniteSetsExt, SequencesExt

CONSTANTS Horizon,  \* the periods of a verification (52)
          Top       \* stands for the upper end of a rate without one

None == "none"
NoSchedule == [cap |-> 0, every |-> 0, offset |-> 0, vesting |-> 0]   \* 0 where one is left out
Within(r) == r.lo .. r.hi
Corners(r) == {r.lo, r.hi}
Times(r, s) == LET ends == {x * y : x \in Corners(r), y \in Corners(s)}
               IN [lo |-> Min(ends), hi |-> Max(ends)]
Sum(f) == MapThenSumSet(LAMBDA i : f[i], DOMAIN f)

(* Ranges over the whole design *)
Hull(rs) == [lo |-> Min({r.lo : r \in rs}), hi |-> Max({r.hi : r \in rs})]
Varieties(te) == {te.span[te.token[t].variety] : t \in {t \in te.tokens : te.token[t].variety # None}}
Has(te, p) == p \in DOMAIN te.span

(***************************************************************************)
(* Conditions: always, ever or never true over the declared ranges.        *)
(***************************************************************************)
Resolve(rule, te) ==
  IF rule.event = None THEN [kind |-> rule.kind, label |-> None, freq |-> rule.freq, when |-> {}]
                       ELSE te.event[rule.event]

Meets(op, x, v) == CASE op = ">"  -> x > v  [] op = ">=" -> x >= v
                     [] op = "<"  -> x < v  [] op = "<=" -> x <= v
                     [] op = "==" -> x = v

Measured(var, te) == var \in {"T", "Q", "N", "d"} \/ (var = "K" /\ Varieties(te) # {})
VarBounds(var, te) == CASE var = "T" -> [lo |-> 0, hi |-> Horizon]
                        [] var = "K" -> Hull(Varieties(te))
                        [] OTHER     -> te.span[var]

Decide(all, none) == IF all THEN "always" ELSE IF none THEN "never" ELSE "ever"

ThresholdStatus(c, te) ==
  IF ~Measured(c.var, te) THEN "ever"
  ELSE LET xs == Within(VarBounds(c.var, te))
       IN Decide(\A x \in xs : Meets(c.op, x, c.value), \A x \in xs : ~Meets(c.op, x, c.value))

OccurrenceStatus(c, te) ==
  IF c.source = None THEN Decide(c.event \in DOMAIN te.event, c.event \notin DOMAIN te.event)
  ELSE IF c.source \notin te.tokens THEN "never"
  ELSE LET names(r) == {Resolve(r, te).label, Resolve(r, te).kind, r.event}
       IN Decide(\E i \in DOMAIN te.token[c.source].emits :
                   c.event \in names(te.token[c.source].emits[i]), FALSE)

Status(c, te) ==
  CASE c.sort = "threshold" -> ThresholdStatus(c, te)
    [] c.sort = "window"    -> Decide(c.from <= 0 /\ c.to >= Horizon, c.from > Horizon \/ c.to < 0)
    [] c.sort = "event"     -> OccurrenceStatus(c, te)

Every(ss) == Decide(ss \subseteq {"always"}, "never" \in ss)
Conjunction(cs, te) == Every({Status(c, te) : c \in cs})

Contributes(rule, te, side) ==
  Conjunction(rule.when, te) \in IF side = "burn" THEN {"always"} ELSE {"always", "ever"}

(***************************************************************************)
(* Rates per period.  A function is a family over ranges: the affine ones  *)
(* average a slope over the horizon; a distribution is its support, cut at *)
(* nothing; an expression the solver can decide is its own range, and one  *)
(* it cannot is any amount.                                                *)
(***************************************************************************)
(* What the time of an affine family comes to at the horizon, and on the average *)
Rise(fn)  == IF fn.family = "linear" THEN Horizon ELSE Horizon ^ fn.degree
Slope(fn) == IF fn.family = "linear" THEN Rise(fn) \div 2 ELSE Rise(fn) \div (fn.degree + 1)

Average(fn, te) ==
  CASE fn.family \in {"linear", "polynomial"} ->
         [lo |-> te.span[fn.a].lo * Slope(fn) + te.span[fn.b].lo,
          hi |-> te.span[fn.a].hi * Slope(fn) + te.span[fn.b].hi]
    [] fn.family = "distribution" -> [lo |-> Max({0, te.span[fn.a].lo}), hi |-> Max({0, te.span[fn.a].hi})]
    [] fn.family = "opaque"       -> [lo |-> 0, hi |-> Top]
    [] OTHER                      -> te.span[fn.a]

Rate(fn, freq, te) == IF freq = None THEN Average(fn, te) ELSE Times(Average(fn, te), te.span[freq])

(* Mutant: what a rule may change over to is not looked at *)
MutLive(rule, te) == {rule.fn}
Live(rule, te) ==
  {rule.fn} \cup (IF rule.fn.family \in {"expression", "opaque"} THEN {}
                  ELSE {g.fn : g \in {g \in Range(rule.regimes) : Status(g.predicate, te) # "never"}})

RuleRate(rule, te) == Hull({Rate(fn, Resolve(rule, te).freq, te) : fn \in Live(rule, te)})

Total(rs) == [lo |-> Sum([i \in DOMAIN rs |-> rs[i].lo]), hi |-> Sum([i \in DOMAIN rs |-> rs[i].hi])]

(* A source's own emission is taken without the design: no frequency from  *)
(* the catalogue, no regime, no condition.                                 *)
OwnRate(t, te) == Total([i \in DOMAIN te.token[t].emits |->
                           Rate(te.token[t].emits[i].fn, te.token[t].emits[i].freq, te)])

(* In hundredths, as are the emissions of the sources                      *)
Hundredths(r) == [lo |-> 100 * r.lo, hi |-> 100 * r.hi]
FlowRate(flow, own, te) ==
  IF flow.ratio = None THEN Hundredths(Average(flow.amount, te))
  ELSE Times(te.span[flow.ratio], [lo |-> own[flow.src], hi |-> own[flow.src]])

(* The flows into a token, by their places in the list *)
Flows(te, t, act) == {i \in DOMAIN te.flows : te.flows[i].dst = t /\ te.flows[i].act = act}

Side(te, t, rules, side, act, own) ==
  LET ruled == Total([i \in {i \in DOMAIN rules : Contributes(rules[i], te, side)} |-> RuleRate(rules[i], te)])
      fed   == Total([i \in Flows(te, t, act) |-> FlowRate(te.flows[i], own, te)])
  IN [lo |-> 100 * ruled.lo + fed.lo, hi |-> 100 * ruled.hi + fed.hi]

(* Every pair of creation and removal per period that can decide a check:  *)
(* at the ends of their ranges or just above zero, for the same emission   *)
(* of the sources on both sides, at its ends or just above zero.           *)
Ends(r) == {r.lo, r.hi} \cup (IF r.lo <= 0 /\ r.hi > 0 THEN {1} ELSE {})
Balances(te, t) ==
  LET sources == {f.src : f \in {f \in Range(te.flows) : f.dst = t /\ f.ratio # None}}
      reach   == [s \in sources |-> Ends(Hundredths(OwnRate(s, te)))]
      owns    == {own \in [sources -> UNION {reach[s] : s \in sources}] : \A s \in sources : own[s] \in reach[s]}
  IN UNION {Ends(Side(te, t, te.token[t].emits, "emission", "mint", own))
            \X Ends(Side(te, t, te.token[t].burns, "burn", "burn", own)) : own \in owns}

Emits(te, t) == te.token[t].emits # <<>> \/ Flows(te, t, "mint") # {}
Burns(te, t) == te.token[t].burns # <<>> \/ Flows(te, t, "burn") # {}
Reputation(te, t) == te.token[t].functions = {"reputation"}
Capped(te, t) == te.token[t].cap # None

(***************************************************************************)
(* FM1, oversupply: creation less removal exceeds the transactions Q, and  *)
(* an outstanding cap, if any, does too.                                   *)
(***************************************************************************)
Oversupplied(te, t, e, b, q) ==
  e - b > q /\ (Capped(te, t) => \E c \in Ends(Hundredths(te.span[te.token[t].cap])) : c > q)
Absorbed(te, t, e, b, q) ==
  e - b <= q \/ (Capped(te, t) /\ \E c \in Ends(Hundredths(te.span[te.token[t].cap])) : c <= q)

FM1(te, t) ==
  IF ~te.token[t].transferable THEN "not_applicable"
  ELSE IF ~Emits(te, t) THEN "pass"
  ELSE IF Reputation(te, t) THEN "not_applicable"
  ELSE IF \E eb \in Balances(te, t), q \in Ends(Hundredths(te.span["Q"])) : Oversupplied(te, t, eb[1], eb[2], q)
       THEN "fail" ELSE "pass"

FM1Reach(te, t) ==
  IF ~te.token[t].transferable THEN "unknown"
  ELSE IF ~Emits(te, t) \/ \E eb \in Balances(te, t), q \in Ends(Hundredths(te.span["Q"])) : Absorbed(te, t, eb[1], eb[2], q)
       THEN "true" ELSE "false"

(***************************************************************************)
(* FM2, velocity trap: the average holding time does not exceed a period   *)
(* and a half.                                                             *)
(***************************************************************************)
Ceiling == 15
HoldingPeriods == [none |-> 1, tiered_redemption |-> 2, governance_rights |-> 4, staking |-> 4,
                   reputation |-> 2, time_locked_rewards |-> 4]
TauFloor(incentives) == 10 * Max({HoldingPeriods[i] : i \in incentives})
AverageHolding(te, end) ==
  Sum([i \in DOMAIN te.agents |-> te.agents[i].share * te.span[te.agents[i].tau][end]])
MeantToCirculate(te, t) == te.nfr.circulation = "fast" /\ "medium" \in te.token[t].functions

FM2(te, t) ==
  IF ~te.token[t].transferable \/ Reputation(te, t) THEN "not_applicable"
  ELSE IF te.agents = <<>> /\ te.token[t].incentives = {} THEN "inconclusive"
  ELSE IF IF te.agents = <<>> THEN TauFloor(te.token[t].incentives) > Ceiling
                              ELSE AverageHolding(te, "lo") > 100 * Ceiling
       THEN "pass"
  ELSE IF MeantToCirculate(te, t) THEN "pass_as_intended" ELSE "fail"

FM2Reach(te, t) ==
  IF ~te.token[t].transferable \/ te.agents = <<>> THEN "unknown"
  ELSE IF AverageHolding(te, "hi") > 100 * Ceiling THEN "true" ELSE "false"

(***************************************************************************)
(* FM3, imbalance: removal does not cover its share of creation.  A cap on *)
(* what is outstanding turns away the excess in the long run, and every    *)
(* emission rule's own cap ends the emission.                              *)
(***************************************************************************)
RhoFloor == 100
ResilienceFactor == <<100, 100, 100, 105, 110>>
Floor(te) == (RhoFloor * ResilienceFactor[te.nfr.resilience]) \div 100
Uncovered(te, e, b) == e > 0 /\ 100 * b < e * Floor(te)
Steady(te, t, e, b) == IF Capped(te, t) THEN Min({e, b}) ELSE e
Scheduled(te, t) ==
  /\ te.token[t].emits # <<>> /\ Flows(te, t, "mint") = {}
  /\ \A i \in DOMAIN te.token[t].emits : te.token[t].emits[i].schedule.cap # 0

Short(te, t)  == \E eb \in Balances(te, t) : Uncovered(te, eb[1], eb[2])
Unheld(te, t) == \E eb \in Balances(te, t) : Uncovered(te, Steady(te, t, eb[1], eb[2]), eb[2])

(* Held by a cap alone, by the end of the schedule, or by nothing *)
HeldByCap(te, t)  == Capped(te, t) /\ Short(te, t) /\ ~Unheld(te, t)
RunsOut(te, t)    == Scheduled(te, t) /\ (Burns(te, t) => Short(te, t))
StopsAtCap(te, t) == ~Burns(te, t) /\ Capped(te, t)
Unburnt(te, t)    == ~Burns(te, t) /\ ~Scheduled(te, t) /\ ~Capped(te, t)

FM3(te, t) ==
  IF Reputation(te, t) THEN "not_applicable"
  ELSE IF ~Emits(te, t) THEN "pass"
  ELSE IF RunsOut(te, t) \/ StopsAtCap(te, t) \/ (Burns(te, t) /\ HeldByCap(te, t)) THEN "pass_as_intended"
  ELSE IF Unburnt(te, t) \/ Unheld(te, t) THEN "fail" ELSE "pass"

FM3Reach(te, t) ==
  IF Reputation(te, t) THEN "unknown"
  ELSE IF ~Emits(te, t) \/ Scheduled(te, t) THEN "true"
  ELSE IF ~Burns(te, t) THEN IF Capped(te, t) THEN "true" ELSE "false"
  ELSE IF \E eb \in Balances(te, t) :
            /\ ~Uncovered(te, Steady(te, t, eb[1], eb[2]), eb[2])
            /\ Capped(te, t) \/ eb[1] > 0
       THEN "true" ELSE "false"

(***************************************************************************)
(* FM4, free riders: contributors times variety covers demand, and what is *)
(* seen of a defection times its sanction exceeds the temptation.          *)
(***************************************************************************)
GammaTable == [physical_presence |-> [lo |-> 85, hi |-> 95], smart_contract_automation |-> [lo |-> 90, hi |-> 100],
               peer_verification |-> [lo |-> 50, hi |-> 80], third_party_certification |-> [lo |-> 40, hi |-> 70],
               self_reporting |-> [lo |-> 5, hi |-> 20]]
GapTable ==   \* goods, borrowing, access, market, peer to peer, unspecified
  [physical_presence |-> <<10, 10, 20, 40, 50, 50>>, smart_contract_automation |-> <<5, 5, 10, 30, 40, 40>>,
   peer_verification |-> <<30, 30, 40, 50, 60, 50>>, third_party_certification |-> <<20, 25, 35, 45, 55, 45>>,
   self_reporting |-> <<60, 65, 75, 85, 95, 80>>, unspecified |-> <<50, 50, 50, 50, 60, 50>>]
SanctionTable == [none |-> 0, warning |-> 10, token_penalty |-> 50, exclusion |-> 90, graduated |-> 70, economic |-> 80]
PhiTable == [smart_contract_automation |-> 90, third_party_certification |-> 70, physical_presence |-> 60,
             peer_verification |-> 50, self_reporting |-> 0]
ProportionalityFactor == <<100, 100, 100, 110, 120>>

Verified(te) == {te.token[t].verification : t \in te.tokens} \ {None, "unspecified"}
GammaRange(te) == IF Has(te, "gamma") THEN te.span["gamma"]
                  ELSE IF Verified(te) # {} THEN Hull({GammaTable[v] : v \in Verified(te)})
                  ELSE [lo |-> 0, hi |-> 100]
SanctionRange(te) == IF Has(te, "S") THEN te.span["S"]
                     ELSE LET s == SanctionTable[te.govern.sanction]
                          IN [lo |-> Max({0, s - 10}), hi |-> Min({100, s + 10})]
Gap(te) == LET told == {t \in te.tokens : te.token[t].verification # None /\ te.token[t].redemption # 0}
           IN IF told = {} THEN 50
              ELSE Max({GapTable[te.token[t].verification][te.token[t].redemption] : t \in told})

(* The share of contributors, in ten-thousandths *)
ShareOf(te, who) == Sum([i \in who |-> te.agents[i].share])
PhiRange(te) ==
  LET roles  == {i \in DOMAIN te.agents : te.agents[i].role # None}
      giving == ShareOf(te, {i \in DOMAIN te.agents : te.agents[i].role = "contributor"})
      hinted == {i \in DOMAIN te.agents : te.agents[i].hint}
      sure   == IF Verified(te) = {} THEN 0 ELSE Max({PhiTable[v] : v \in Verified(te)})
      most(share) == 100 * Max({share, 5})
  IN IF roles # {} THEN [lo |-> Min({sure * giving, most(giving)}), hi |-> most(giving)]
     ELSE IF hinted # {} THEN [lo |-> 0, hi |-> most(ShareOf(te, hinted))]
     ELSE [lo |-> 0, hi |-> 10000]

Contribution == {"behavioral_event", "behavioral", "physical_resource_flow"}
Rewarding(te) ==
  \E t \in te.tokens :
    /\ ~(te.token[t].anchor = "pegged" /\ te.token[t].verification = "smart_contract_automation")
    /\ te.token[t].functions \cap {"medium", "access"} # {}
    /\ \E i \in DOMAIN te.token[t].emits : Resolve(te.token[t].emits[i], te).kind \in Contribution

Demand(te, end) == 100 * te.span["d"][end] * ProportionalityFactor[te.nfr.proportionality]
FewGive(te)     == PhiRange(te).lo * Hull(Varieties(te)).lo < Demand(te, "hi")
EnoughGive(te)  == PhiRange(te).hi * Hull(Varieties(te)).hi >= Demand(te, "lo")
Tempting(te, end) == GammaRange(te)[end] * SanctionRange(te)[end] <= 100 * Gap(te)

FM4(te) == IF ~Rewarding(te) THEN "not_applicable"
           ELSE IF Varieties(te) = {} THEN "inconclusive"
           ELSE IF FewGive(te) \/ Tempting(te, "lo") THEN "fail" ELSE "pass"

FM4Reach(te) == IF ~Rewarding(te) \/ Varieties(te) = {} THEN "unknown"
                ELSE IF EnoughGive(te) /\ ~Tempting(te, "hi") THEN "true" ELSE "false"

(***************************************************************************)
(* FM5, critical mass: too few participants for the variety and demand; in *)
(* a network the number of contacts may do instead.                        *)
(***************************************************************************)
(* Mutant: the least variety and demand *)
MutContacts(te) == 2 * Hull(Varieties(te)).lo * te.span["d"].lo
Contacts(te) == 2 * Hull(Varieties(te)).hi * te.span["d"].hi
(* Half of 4 ln of the middle of N, within 10 and 100: whole contacts, by  *)
(* how many of 2 e^3, 2 e^3.5, ... 2 e^25 the ends of N add up to (the     *)
(* largest in thousands).                                                  *)
Steps == <<40, 66, 109, 180, 296, 489, 806, 1330, 2193, 3616, 5961, 9829, 16206, 26719, 44052, 72631,
          119748, 197431, 325509, 536674, 884826, 1458832, 2405208, 3965518, 6538034, 10779396,
          17772221, 29301438, 48309905, 79649568, 131319938, 216509975, 356964601, 588535132,
          970330390, 1599804354>>
LargeSteps == <<2637631, 4348719, 7169825, 11821044, 19489606, 32132929, 52978244, 87346358, 144009798>>
UsualDegree(n) == 5 + Cardinality({i \in 1 .. 36 : n.lo + n.hi > Steps[i]})
                    + Cardinality({i \in 1 .. 9 : (n.lo + n.hi) \div 1000 > LargeSteps[i]})
Degree(te) == IF Has(te, "degree") THEN te.span["degree"].lo ELSE UsualDegree(te.span["N"])
Connected(te) == te.topology = "network" /\ Degree(te) >= Contacts(te) /\ Degree(te) <= te.span["N"].lo - 1
Sparse(te) == Max({1, te.span["N"].lo}) < Contacts(te) + 1

FM5(te) == IF Varieties(te) = {} THEN "inconclusive"
           ELSE IF Connected(te) \/ ~Sparse(te) THEN "pass"
           ELSE IF te.topology # "well_mixed" THEN "inconclusive" ELSE "fail"

FM5Reach(te) == IF Varieties(te) = {} THEN "unknown"
                ELSE IF te.span["N"].hi >= 2 * Hull(Varieties(te)).lo * te.span["d"].lo + 1 THEN "true" ELSE "false"

(***************************************************************************)
(* FM6, capture: most decisions are one party's, or votes are concentrated.*)
(***************************************************************************)
GiniThreshold == 60
EffectiveGini(te) ==   \* in ten-thousandths; empty when not known
  LET all == [lo |-> 100, hi |-> 100]
      cap == te.span["cap_fraction"]
      held(share) == {Times(te.span[p], share) : p \in {"gini"} \cap DOMAIN te.span}
  IN CASE te.govern.weighting = "quadratic"   -> {[lo |-> te.span[p].lo * 50, hi |-> te.span[p].hi * 70] : p \in {"gini"} \cap DOMAIN te.span}
       [] te.govern.weighting = "capped"      -> held(IF Has(te, "cap_fraction") THEN [lo |-> 100 - cap.hi, hi |-> 100 - cap.lo] ELSE all)
       [] te.govern.weighting = "time_locked" -> held(IF Has(te, "avg_lock_fraction") THEN te.span["avg_lock_fraction"] ELSE all)
       [] te.govern.weighting = "delegated" /\ Has(te, "delegate_gini") -> {Times(te.span["delegate_gini"], all)}
       [] te.govern.weighting = "reputation"  -> {Times(te.span[p], all) : p \in {"reputation_gini"} \cap DOMAIN te.span}
       [] OTHER -> held(all)

Unequal(te)  == \E g \in EffectiveGini(te) : g.hi > 100 * GiniThreshold
Captured(te) == 2 * te.govern.unilateral > te.govern.decisions

(* One party is meant to decide for good                                   *)
Excused(te)  == te.nfr.maturity = "indefinite" /\ te.govern.type = "centralized"

FM6(te) ==
  IF te.govern.decisions = 0 THEN IF Unequal(te) THEN "fail" ELSE "inconclusive"
  ELSE IF ~Captured(te) /\ ~Unequal(te) THEN "pass"
  ELSE IF Excused(te) /\ ~Unequal(te) THEN "pass_as_intended"
  ELSE "fail"

FM6Reach(te) ==
  IF te.govern.decisions > 0 /\ Captured(te) THEN "false"
  ELSE IF EffectiveGini(te) = {} THEN "unknown"
  ELSE IF \A g \in EffectiveGini(te) : g.lo <= 100 * GiniThreshold THEN "true" ELSE "false"

(***************************************************************************)
(* What the simulator is asked to watch: clauses on named measures, each   *)
(* in a group of which one must hold.                                      *)
(***************************************************************************)
Clause(v, op, threshold, group) == [variable |-> v, op |-> op, threshold |-> threshold, group |-> group]
Watch1(te, t) == IF ~te.token[t].transferable \/ ~Emits(te, t) THEN {}
                 ELSE {Clause("net_emission", "<=", te.span["Q"].lo, 1)}
Watch2(te, t) == IF ~te.token[t].transferable THEN {} ELSE {Clause("tau_bar", ">", 100 * Ceiling, 1)}
Watch3(te, t) == IF ~Emits(te, t) \/ Scheduled(te, t) \/ (Capped(te, t) /\ Floor(te) <= 100) THEN {}
                 ELSE {Clause("rho", ">=", Floor(te), 1)}
Watch4(te) == IF ~Rewarding(te) \/ Varieties(te) = {} THEN {}
              ELSE {Clause("phi_times_K", ">=", Demand(te, "hi"), 1), Clause("gamma_times_S", ">", 100 * Gap(te), 2)}
Watch5(te) == IF Varieties(te) = {} THEN {}
              ELSE {Clause("N", ">=", Contacts(te) + 1, 1)}
                   \cup (IF te.topology = "network" THEN {Clause("average_degree", ">=", Contacts(te), 1)} ELSE {})
Watch6(te) == (IF te.govern.decisions = 0 THEN {} ELSE {Clause("Gamma", "<=", te.govern.decisions, 1)})
              \cup (IF EffectiveGini(te) = {} THEN {} ELSE {Clause("gini", "<=", 100 * GiniThreshold, 2)})
Predicates(te, fm, t) ==
  CASE fm = "FM1" -> Watch1(te, t)  [] fm = "FM2" -> Watch2(te, t)  [] fm = "FM3" -> Watch3(te, t)
    [] fm = "FM4" -> Watch4(te)     [] fm = "FM5" -> Watch5(te)     [] fm = "FM6" -> Watch6(te)

(***************************************************************************)
(* The six together                                                        *)
(***************************************************************************)
PerToken == {"FM1", "FM2", "FM3"}
Modes    == PerToken \cup {"FM4", "FM5", "FM6"}

Check(te, fm, t) ==
  CASE fm = "FM1" -> FM1(te, t)  [] fm = "FM2" -> FM2(te, t)  [] fm = "FM3" -> FM3(te, t)
    [] fm = "FM4" -> FM4(te)     [] fm = "FM5" -> FM5(te)     [] fm = "FM6" -> FM6(te)

(***************************************************************************)
(* minimal.py: whether the violation and its absence are within reach      *)
(***************************************************************************)
Reach(te, fm, t, status) ==
  IF status \in {"pass", "pass_as_intended"} THEN "true"
  ELSE IF status \in {"not_applicable", "inconclusive"} THEN "unknown"
  ELSE CASE fm = "FM1" -> FM1Reach(te, t)  [] fm = "FM2" -> FM2Reach(te, t)  [] fm = "FM3" -> FM3Reach(te, t)
         [] fm = "FM4" -> FM4Reach(te)     [] fm = "FM5" -> FM5Reach(te)     [] fm = "FM6" -> FM6Reach(te)

Classified(status, reach) ==
  IF status = "not_applicable" THEN "not_applicable"
  ELSE IF status = "inconclusive" \/ reach = "unknown" THEN "inconclusive"
  ELSE IF status = "pass" THEN "sound"
  ELSE IF reach = "false" THEN "broken" ELSE "fragile"
Structural(te, fm, t, status) == Classified(status, Reach(te, fm, t, status))
=============================================================================
