------------------------------ MODULE Verdicts ------------------------------
(***************************************************************************)
(* The static verifier at work on a design that its author keeps editing:  *)
(* dispatcher.verify and what it calls on the six checks' verdicts (roles, *)
(* impossible rates, risk bands, coherence issues, severity), minimal.py's *)
(* classification, and the edits that its reports ask for.                 *)
(*                                                                         *)
(* The author settles a range by narrowing it, declares what was missing,  *)
(* or follows a recommendation; each edit is verified anew.  A design all  *)
(* of whose ranges are single values can be simulated: what a period of it *)
(* measures is computed as the simulator computes it, which does not read  *)
(* rules and flows as the checks do.                                       *)
(***************************************************************************)
EXTENDS Remedies

CONSTANTS Designs,    \* the designs an author may start from, with the ranges each may declare later
          SimHorizon, \* the periods that the simulator averages a rate over (260)
          RunLength   \* the periods it runs (260, or what the design asks for, 1 to 10000)

VARIABLES design, report
vars == <<design, report>>

ASSUME VerdictsAssumption ==
  /\ Horizon \in Nat \ {0} /\ Top \in Nat
  /\ SimHorizon \in Nat /\ SimHorizon >= Horizon /\ RunLength \in Nat

System   == "system"
Statuses == {"pass", "fail", "pass_as_intended", "inconclusive", "not_applicable"}

(***************************************************************************)
(* The checks' verdicts, as roles and impossible rates leave them          *)
(***************************************************************************)
Ruling(te, t) ==
  /\ "governance" \in te.token[t].functions
  /\ te.token[t].transferable => te.token[t].functions \subseteq {"governance", "store_of_value"}

ByRole(te, fm, t, status) ==
  IF Reputation(te, t) THEN "not_applicable"
  ELSE IF Ruling(te, t) /\ fm = "FM2" THEN "not_applicable"
  ELSE IF Ruling(te, t) /\ fm = "FM3" /\ status = "fail" THEN "pass_as_intended"
  ELSE status

(* A rate that goes below zero at the start or the end of the horizon *)
Negative(te, fn) ==
  CASE fn.family \in {"expression", "opaque"} -> FALSE
    [] fn.family \in {"linear", "polynomial"} ->
         \E x \in {0, Rise(fn)} : te.span[fn.a].lo * x + te.span[fn.b].lo < 0
    [] OTHER -> te.span[fn.a].lo < 0

Impossible(te, t) ==
  \E r \in Range(te.token[t].emits) \cup Range(te.token[t].burns) :
    \/ Negative(te, r.fn)
    \/ r.event # None /\ Resolve(r, te).freq # None /\ te.span[Resolve(r, te).freq].lo < 0

ByRates(te, fm, t, status) ==
  IF fm \in {"FM1", "FM3"} /\ status # "not_applicable" /\ Impossible(te, t) THEN "inconclusive" ELSE status

Settle(te, fm, t, status) ==
  IF fm \in PerToken THEN ByRates(te, fm, t, ByRole(te, fm, t, status)) ELSE status

(***************************************************************************)
(* risk.py: a band for each verdict, read at the middle of the ranges.     *)
(* Bands are their scores, green 0 to critical 4; one that does not apply  *)
(* scores as green.  Middles are doubled, rates in eighths.                *)
(***************************************************************************)
Mid(r) == r.lo + r.hi
RuleMid(te, r) == IF r.fn.family = "opaque" THEN 0
                  ELSE Mid(Average(r.fn, te)) * (IF Resolve(r, te).freq = None THEN 2 ELSE Mid(te.span[Resolve(r, te).freq]))
RulesMid(te, rules) == Sum([i \in DOMAIN rules |-> RuleMid(te, rules[i])])
FlowMid(te, f) == IF f.ratio = None THEN 4 * Mid(Average(f.amount, te))
                  ELSE Mid(te.span[f.ratio]) * RulesMid(te, te.token[f.src].emits)
SideMid(te, t, rules, act) ==
  2 * RulesMid(te, rules) + Sum([i \in Flows(te, t, act) |-> FlowMid(te, te.flows[i])])
EmittedMid(te, t) == SideMid(te, t, te.token[t].emits, "mint")
BurntMid(te, t)   == SideMid(te, t, te.token[t].burns, "burn")

(* The band of the first limit that the ratio n/m stays within *)
Banded(n, m, limits) ==
  LET within == {i \in DOMAIN limits : 10 * n <= limits[i].tenths * m}
  IN IF within = {} THEN 4 ELSE limits[Min(within)].band

Risk1(te, t) ==
  LET net == EmittedMid(te, t) - BurntMid(te, t)
      kept == IF Capped(te, t) THEN Min({net, 4 * Mid(te.span[te.token[t].cap])}) ELSE net
  IN IF Mid(te.span["Q"]) <= 0 THEN 4 ELSE IF EmittedMid(te, t) <= 0 THEN 0
     ELSE Banded(kept, 4 * Mid(te.span["Q"]),
                 <<[tenths |-> 10, band |-> 0], [tenths |-> 15, band |-> 2], [tenths |-> 25, band |-> 3]>>)

Risk2(te) ==
  LET tau == Sum([i \in DOMAIN te.agents |-> te.agents[i].share * Mid(te.span[te.agents[i].tau])])
      all == 2 * ShareOf(te, DOMAIN te.agents)
  IN CASE te.agents = <<>>    -> 0
       [] tau > 20 * all      -> 0  [] 20 * all >= tau /\ tau > 10 * all -> 1
       [] 10 * all >= tau /\ 7 * tau > 30 * all -> 2
       [] 30 * all >= 7 * tau /\ 7 * tau > 10 * all -> 3  [] OTHER -> 4

Risk3(te, t) ==
  LET b == BurntMid(te, t)
      e == IF Capped(te, t) THEN Min({EmittedMid(te, t), b}) ELSE EmittedMid(te, t)
  IN IF e <= 0 \/ (b > 0 /\ b >= e) THEN 0 ELSE IF b <= 0 THEN 4 ELSE IF 2 * b >= e THEN 2 ELSE 3

(* The assignment the solver returned is taken to be the worst corner *)
Risk4(te, status) ==
  LET k == Hull(Varieties(te)).lo
      few == PhiRange(te).lo * k < 10000 * te.span["d"].hi
      tempting == Tempting(te, "lo")
  IN IF status = "pass" THEN 0 ELSE IF 10 * te.span["d"].hi > 8 * k THEN 4
     ELSE IF few /\ tempting THEN 3 ELSE IF few \/ tempting THEN 2 ELSE 0

Risk5(te) ==
  LET with == {t \in te.tokens : te.token[t].variety # None}
      k == MapThenSumSet(LAMBDA t : Mid(te.span[te.token[t].variety]), with)
      need == k * Mid(te.span["d"]) + 2 * Cardinality(with)
      n == Cardinality(with) * Mid(te.span["N"])
  IN CASE 2 * n < need -> 4
       [] 2 * n >= need /\ n < need -> 3
       [] n >= need /\ 10 * n < 12 * need -> 2
       [] 10 * n >= 12 * need /\ n < 2 * need -> 1
       [] OTHER -> 0

Risk6(te) ==
  LET unequal == IF \E g \in EffectiveGini(te) : Mid(g) > 200 * GiniThreshold THEN 2 ELSE 0
      ruled == IF te.govern.decisions = 0 THEN 0
               ELSE Min({3, Banded(te.govern.unilateral, te.govern.decisions,
                         <<[tenths |-> 3, band |-> 0], [tenths |-> 5, band |-> 1], [tenths |-> 8, band |-> 2]>>)})
  IN Max({unequal, ruled})

Risk(te, fm, t, status) ==
  IF status \in {"not_applicable", "inconclusive"} \/ (status = "pass_as_intended" /\ fm \in {"FM2", "FM3", "FM6"}) THEN 0
  ELSE CASE fm = "FM1" -> Risk1(te, t)      [] fm = "FM2" -> Risk2(te) [] fm = "FM3" -> Risk3(te, t)
         [] fm = "FM4" -> Risk4(te, status) [] fm = "FM5" -> Risk5(te) [] fm = "FM6" -> Risk6(te)

EffectiveBand(v) == CASE v.status = "fail" -> Max({2, v.risk}) [] v.status = "inconclusive" -> Max({1, v.risk})
                      [] OTHER -> v.risk

(* Weights and penalties are doubled: 66 is the most a design can score *)
Weight == [FM1 |-> 3, FM2 |-> 2, FM3 |-> 3, FM4 |-> 2, FM5 |-> 2, FM6 |-> 1]
Overall(vs, errors, warns) ==
  LET worst(fm) == Max({0} \cup {EffectiveBand(v) : v \in {w \in vs : w.fm = fm}})
      score == MapThenSumSet(LAMBDA fm : Weight[fm] * worst(fm), Modes) + 2 * errors + warns
  IN CASE 100 * score <= 20 * 66 -> "low"
       [] 100 * score > 20 * 66 /\ 100 * score <= 40 * 66 -> "moderate"
       [] 100 * score > 40 * 66 /\ 100 * score <= 60 * 66 -> "high"
       [] OTHER -> "critical"

(***************************************************************************)
(* elicitation.coherence_violations: choices that contradict each other    *)
(***************************************************************************)
Kinds(te, rules) == {Resolve(r, te).kind : r \in Range(rules)}
PeerToPeer == 5   \* the column of GapTable

Tokens(te, issue, P(_)) == {issue} \X {t \in te.tokens : P(t)}
Whole(issue, holds)     == IF holds THEN {<<issue, System>>} ELSE {}

Errors(te, vs) ==
  Tokens(te, "redemption", LAMBDA t : te.token[t].redemption = PeerToPeer /\ "demand_driven" \in Kinds(te, te.token[t].burns))
  \cup Tokens(te, "self_reporting", LAMBDA t : te.nfr.proportionality >= 4 /\ te.token[t].verification = "self_reporting")
  \cup Tokens(te, "resilience", LAMBDA t : te.nfr.resilience >= 4 /\ te.token[t].emits # <<>> /\ ~Burns(te, t))
  \cup Tokens(te, "negative", LAMBDA t : Impossible(te, t))
  \cup Whole("capture",
        /\ te.govern.decisions > 0 /\ 100 * te.govern.unilateral >= 95 * te.govern.decisions
        /\ \E v \in vs : v.fm = "FM1" /\ v.risk >= 3
        /\ \E w \in vs : w.fm = "FM3" /\ w.risk = 4)

Warnings(te) ==
  Tokens(te, "retain", LAMBDA t : te.nfr.circulation = "retain" /\ te.token[t].incentives = {"none"})
  \cup Tokens(te, "accessible", LAMBDA t : te.nfr.accessibility >= 4 /\ te.token[t].verification = "smart_contract_automation")
  \cup Tokens(te, "expiry", LAMBDA t : te.nfr.circulation = "retain" /\ "expiry" \in Kinds(te, te.token[t].burns))
  \cup Whole("immediate", te.nfr.maturity = "immediate" /\ te.govern.decisions > 0
                            /\ te.govern.unilateral = te.govern.decisions)
  \cup Whole("dao", te.nfr.accessibility >= 4 /\ te.govern.type = "dao")

(***************************************************************************)
(* The report                                                              *)
(***************************************************************************)
Judge(te, fm, t, s) ==
  [fm |-> fm, subject |-> t, status |-> s, risk |-> Risk(te, fm, t, s),
   structural |-> Structural(te, fm, t, s),
   advice |-> IF s = "fail" \/ (fm = "FM5" /\ s = "inconclusive" /\ Varieties(te) # {}) THEN Advice(te, fm, t) ELSE {}]

Subjects(te, fm) == IF fm \in PerToken THEN te.tokens ELSE {System}
Verdicts(te) ==
  (UNION {{Judge(te, fm, t, Settle(te, fm, t, Check(te, fm, t))) : t \in Subjects(te, fm)} : fm \in Modes \ te.skipped})
  \cup {[fm |-> fm, subject |-> System, status |-> "not_applicable", risk |-> 0,
         structural |-> "not_applicable", advice |-> {}] : fm \in te.skipped}

Severity(vs, errors) ==
  CASE \E v \in vs : v.status = "fail" -> "fail"
    [] (\A v \in vs : v.status # "fail") /\ (errors # {} \/ \E v \in vs : v.status = "inconclusive") -> "warn"
    [] OTHER -> "ok"

Report(te, vs, errors) ==
  [verdicts |-> vs, severity |-> Severity(vs, errors), errors |-> errors, warnings |-> Warnings(te),
   band |-> Overall(vs, Cardinality(errors), Cardinality(Warnings(te)))]
Reported(te, vs) == Report(te, vs, Errors(te, vs))
Verify(te) == Reported(te, Verdicts(te))

(***************************************************************************)
(* The author's edits                                                      *)
(***************************************************************************)
Init == design \in Designs /\ report = Verify(design)

Edit(te) == design' = te /\ report' = Verify(te)

(* A declared range is narrowed at one end *)
Narrow(p) ==
  LET r == design.span[p]
  IN r.lo < r.hi /\ \E s \in {[r EXCEPT !.lo = @ + 1], [r EXCEPT !.hi = @ - 1]} : Edit([design EXCEPT !.span[p] = s])

(* A range that was left out is declared *)
Declare(p) ==
  ~Has(design, p) /\ \E r \in design.later[p] : Edit([design EXCEPT !.span = @ @@ (p :> r)])

(* A recommendation is followed: the end of the range that decides is      *)
(* brought to its threshold, or as far past it as clears it.               *)
Raise(r, v) == [lo |-> Max({r.lo, v}), hi |-> Max({r.hi, v})]
Lower(r, v) == [lo |-> Min({r.lo, v}), hi |-> Min({r.hi, v})]
Plain(r) == r.freq = None /\ r.event = None /\ r.when = {} /\ r.regimes = <<>>
Uses(te, p) ==
  {u \in te.tokens \X {"emits", "burns"} \X (1 .. 3) :
     /\ u[3] \in DOMAIN te.token[u[1]][u[2]]
     /\ LET r == te.token[u[1]][u[2]][u[3]]
        IN p \in {r.fn.a, r.fn.b, r.freq} \cup {g.fn.a : g \in Range(r.regimes)}}
(* The range of a side's only rule, if it is plain and has it to itself *)
Simple(te, t, side) ==
  {r.fn.a : r \in {r \in Range(te.token[t][side]) :
     /\ Len(te.token[t][side]) = 1 /\ r.fn.family = "constant" /\ Plain(r)
     /\ Cardinality(Uses(te, r.fn.a)) = 1 /\ \A f \in Range(te.flows) : r.fn.a \notin {f.ratio, f.amount.a}}}
Verifying(te, v) == [te EXCEPT !.token = [t \in DOMAIN @ |->
                        IF @[t].verification \in {None, "unspecified"} THEN @[t] ELSE [@[t] EXCEPT !.verification = v]]]
Edits(te, ps, E(_)) == {[te EXCEPT !.span[p] = E(@)] : p \in ps \cap DOMAIN te.span}
Heeding(te, a, t) ==
  CASE a.param = "K" -> {[te EXCEPT !.span = [p \in DOMAIN @ |-> IF p \in Kinds4(te) THEN Raise(@[p], a.value) ELSE @[p]]]}
    [] a.param = "gamma" -> {[te EXCEPT !.span = ("gamma" :> Raise(GammaRange(te), v)) @@ @] : v \in {a.value + 1} \cap 0..100}
                            \cup {Verifying(te, v) : v \in {v \in DOMAIN GammaTable : Clears(te, v)}}
    [] a.param = "n_demote" -> {[te EXCEPT !.govern.unilateral = @ - a.value]}
    [] a.param = "cap"      -> Edits(te, {te.token[t].cap}, LAMBDA r : Lower(r, a.value))
    [] a.param \in {"net_emission", "emission_range"} /\ a.dir = "<=" ->
         Edits(te, Simple(te, t, "emits"), LAMBDA r : Lower(r, a.value))
    [] a.param = "emission_range" /\ a.dir = ">=" ->
         Edits(te, Simple(te, t, "emits"), LAMBDA r : [r EXCEPT !.hi = Max({r.lo, @ - 1})])
         \cup Edits(te, Simple(te, t, "burns"), LAMBDA r : Raise(r, a.value))
    [] a.param = "emission_floor" -> Edits(te, Simple(te, t, "emits"), LAMBDA r : [r EXCEPT !.lo = Min({r.hi, @ + 1})])
    [] a.param \in {"removal", "separate"} -> Edits(te, Simple(te, t, "burns"), LAMBDA r : Raise(r, a.value))
    [] a.param \in {te.agents[i].tau : i \in DOMAIN te.agents} -> Edits(te, {a.param}, LAMBDA r : Raise(r, a.value + 1))
    [] OTHER -> Edits(te, {a.param}, LAMBDA r : IF a.dir = ">=" THEN Raise(r, a.value) ELSE Lower(r, a.value))
Advised == (UNION {UNION {Heeding(design, a, v.subject) : a \in v.advice} : v \in report.verdicts}) \ {design}
Follow == \E te \in Advised : Edit(te)

Next == \/ \E p \in DOMAIN design.span : Narrow(p)
        \/ \E p \in DOMAIN design.later : Declare(p)
        \/ Follow

Spec == Init /\ [][Next]_vars
(* The report follows from the design: it need not be in what is fair *)
Heed == \E te \in Advised : design' = te
Persistent == Spec /\ WF_design(Heed)

Bands == {"low", "moderate", "high", "critical"}
TypeOK ==
  /\ report.severity \in {"ok", "warn", "fail"} /\ report.band \in Bands
  /\ \A v \in report.verdicts :
       /\ v.fm \in Modes /\ v.subject \in design.tokens \cup {System}
       /\ v.status \in Statuses /\ v.risk \in 0..4
       /\ v.structural \in {"sound", "fragile", "broken", "inconclusive", "not_applicable"}

(***************************************************************************)
(* What the schema has seen to when a design is loaded: ranges are in      *)
(* order, and what is referred to is there (te_ir.py).                     *)
(***************************************************************************)
Affine   == {"linear", "polynomial"}
(* What the time comes to in a simulation, at its end and on the average   *)
SimRise(fn)  == IF fn.family = "linear" THEN SimHorizon ELSE SimHorizon ^ fn.degree
SimSlope(fn) == SimRise(fn) \div (IF fn.family = "linear" THEN 2 ELSE fn.degree + 1)
FnFormed(te, fn) ==
  fn.family # "opaque" =>
    /\ fn.a \in DOMAIN te.span
    /\ fn.family \in Affine =>
         /\ fn.b \in DOMAIN te.span /\ fn.degree \in Nat
         /\ Rise(fn) \in Nat /\ SimRise(fn) \in Nat /\ Rise(fn) <= SimRise(fn)   \* so it is for every degree
Evaluable(c) ==
  CASE c.sort = "threshold" -> c.var \in {"T", "Q", "N", "d", "K", "M"}
    [] c.sort = "window"    -> c.from \in Int /\ c.to \in Int
    [] OTHER                -> c.sort = "event"
Conditions(te, r) == r.when \cup Resolve(r, te).when \cup {g.predicate : g \in Range(r.regimes)}
List(s) == s \in Seq(Range(s))
Fns(r)  == {r.fn} \cup {g.fn : g \in Range(r.regimes)}
RuleFormed(te, r) ==
  /\ List(r.regimes) /\ (r.event # None => r.event \in DOMAIN te.event)
  /\ \A fn \in Fns(r) : FnFormed(te, fn)
  /\ \A c \in Conditions(te, r) : Evaluable(c)
  /\ r.freq # None => r.freq \in DOMAIN te.span
  /\ Resolve(r, te).freq # None =>
       /\ Resolve(r, te).freq \in DOMAIN te.span
       /\ r.event = None => te.span[r.freq].lo >= 0
TokenFormed(te, token) ==
  /\ \A rules \in {token.emits, token.burns} : List(rules) /\ \A r \in Range(rules) : RuleFormed(te, r)
  /\ {token.cap, token.variety} \subseteq {None} \cup DOMAIN te.span
  /\ token.variety # None => te.span[token.variety].lo >= 1
  /\ token.verification \in {None, "unspecified"} \cup DOMAIN GammaTable /\ token.redemption \in 0..6
  /\ token.incentives \subseteq DOMAIN HoldingPeriods
FlowFormed(te, f) ==
  /\ f.src \in te.tokens
  /\ IF f.ratio = None THEN FnFormed(te, f.amount) ELSE f.ratio \in DOMAIN te.span /\ te.span[f.ratio].lo >= 0
(* Of what is observed, sanctioned, or held by few: between none and all   *)
Shares == {"gamma", "S", "gini", "cap_fraction", "avg_lock_fraction", "delegate_gini", "reputation_gini"}
Formed(te) ==
  /\ \A p \in DOMAIN te.span : te.span[p].lo \in Int /\ te.span[p].hi \in Int /\ te.span[p].lo <= te.span[p].hi
  /\ {"Q", "N", "d"} \subseteq DOMAIN te.span /\ te.span["N"].lo >= 1 /\ te.span["d"].lo >= 0
  /\ \A p \in Shares \cap DOMAIN te.span : te.span[p].lo >= 0 /\ te.span[p].hi <= 100
  /\ IsFiniteSet(te.tokens) /\ System \notin te.tokens /\ \A t \in te.tokens : TokenFormed(te, te.token[t])
  /\ List(te.flows) /\ \A f \in Range(te.flows) : FlowFormed(te, f)
  /\ List(te.agents) /\ \A a \in Range(te.agents) : a.share \in Nat /\ a.tau \in DOMAIN te.span
  /\ te.govern.unilateral \in Int /\ te.govern.decisions \in Int /\ te.govern.sanction \in DOMAIN SanctionTable
  /\ te.nfr.resilience \in 1..5 /\ te.nfr.proportionality \in 1..5

(***************************************************************************)
(* What the simulator makes of a settled design (abm/engine.py): as it is  *)
(* deployed, and in a later period of a run without agents, where a period *)
(* adds up the rates of the rules.  It asks no condition of a rule, only   *)
(* which of its regimes have come into force, and those stay; it averages  *)
(* over its own periods and knows no flow's ratio.  The participants       *)
(* neither grow in number nor leave, and frequencies are constant.         *)
(***************************************************************************)
Committed(te) == \A p \in DOMAIN te.span : te.span[p].lo = te.span[p].hi
At(te, p) == te.span[p].lo

(* What a function draws, and how often its rule acts: by its event, or by *)
(* its own frequency where the event has none.                             *)
Drawn(te, fn) ==
  IF fn.family \in Affine THEN LET x == At(te, fn.a) * SimSlope(fn) + At(te, fn.b) IN [lo |-> x, hi |-> x]
  ELSE Average(fn, te)
Often(te, r) ==
  IF Resolve(r, te).freq = None /\ r.fn.family # "distribution" THEN r.freq ELSE Resolve(r, te).freq
Paid(te, r, fn) == IF Often(te, r) = None THEN Drawn(te, fn) ELSE Times(Drawn(te, fn), te.span[Often(te, r)])

(* Whether a regime's condition may hold in some period.  Demand is not    *)
(* read, no variety reads as 0, supply may be anything, and an event may   *)
(* occur if it is there.                                                   *)
MayHold(te, c) ==
  CASE c.sort = "window" -> \E now \in 1 .. RunLength : c.from <= now /\ now <= c.to
    [] c.sort = "event"  -> IF c.source = None THEN c.event \in DOMAIN te.event ELSE c.source \in te.tokens
    [] c.sort = "threshold" ->
         CASE c.var = "T" -> \E now \in 1 .. RunLength : Meets(c.op, now, c.value)
           [] c.var = "K" -> Meets(c.op, IF Varieties(te) = {} THEN 0 ELSE Hull(Varieties(te)).hi, c.value)
           [] c.var \in {"Q", "N"} -> Meets(c.op, At(te, c.var), c.value)
           [] OTHER -> c.var # "d"

(* The rate of a rule: its function's, or that of a regime in force, which *)
(* is at least 0.  What is drawn anew in each period has no regimes, and   *)
(* is not there at the deployment.                                         *)
NotBelowZero(x) == IF x < 0 THEN 0 ELSE x
InForce(te, r, when) ==
  {g.fn : g \in {g \in Range(r.regimes) : when = "running" /\ r.fn.family # "distribution" /\ MayHold(te, g.predicate)}}
Realised(te, r, when) ==
  LET switched(x) == [lo |-> NotBelowZero(x.lo), hi |-> NotBelowZero(x.hi)]
  IN Hull({Paid(te, r, r.fn)} \cup {switched(Paid(te, r, fn)) : fn \in InForce(te, r, when)})
Amount(te, t, rules, act, when) ==
  LET ruled == Total([i \in {i \in DOMAIN rules : when = "running" \/ rules[i].fn.family # "distribution"} |->
                        Realised(te, rules[i], when)])
      fed   == Total([i \in Flows(te, t, act) |-> Drawn(te, te.flows[i].amount)])
  IN [lo |-> ruled.lo + fed.lo, hi |-> ruled.hi + fed.hi]
Creation(te, t, when) == Amount(te, t, te.token[t].emits, "mint", when)
Removal(te, t, when)  == Amount(te, t, te.token[t].burns, "burn", when)

(* Creation and removal of a period.  A running economy creates no more    *)
(* than what is outstanding, and removed in the period, leaves to the cap. *)
Does(te, t, when) ==
  LET minted(e, b) == IF when = "running" /\ Capped(te, t)
                      THEN {NotBelowZero(Min({e, room + b})) : room \in 0 .. At(te, te.token[t].cap)} ELSE {e}
  IN UNION {{[E |-> x, B |-> b] : x \in minted(e, b)} : e \in Within(Creation(te, t, when)), b \in Within(Removal(te, t, when))}

(* With agents, a period is what they choose: only the deployment is as    *)
(* declared.                                                               *)
Moments(te) == {"deployed"} \cup (IF te.agents = <<>> THEN {"running"} ELSE {})

(* What the predicates' variables measure (derived_variable, and what is   *)
(* not declared as _build_initial_state has it): the worst of what is      *)
(* drawn.                                                                  *)
Measure(te, variable, does) ==
  CASE variable = "net_emission"   -> does.E - does.B
    [] variable = "rho"            -> IF does.E <= 0 THEN 0 ELSE (100 * does.B) \div does.E
    [] variable = "tau_bar"        -> IF te.agents = <<>> THEN 0 ELSE AverageHolding(te, "lo")
    [] variable = "phi_times_K"    -> PhiRange(te).lo * Hull(Varieties(te)).hi
    [] variable = "gamma_times_S"  -> (IF Has(te, "gamma") THEN At(te, "gamma") ELSE 50) * SanctionRange(te).lo
    [] variable = "N"              -> At(te, "N")
    [] variable = "average_degree" -> IF Has(te, "degree") THEN At(te, "degree") ELSE 0
    [] variable = "Gamma"          -> 2 * te.govern.unilateral
    [] variable = "gini"           -> Max({g.hi : g \in EffectiveGini(te)})

(***************************************************************************)
(* Where the simulator does not do what the checks count with, on the side *)
(* that a verdict rests on.  A rule is misread if it may fall below zero   *)
(* (the simulator cuts the sum), if it has regimes on an expression (the   *)
(* checks pass over them), if a regime comes after their horizon, or if it *)
(* has a frequency beside its event's; an average of what changes with     *)
(* time is another over a longer run; a rule that the checks count as      *)
(* never firing does create; and a flow's ratio is not applied.            *)
(***************************************************************************)
Balanced == {"FM1", "FM3"}   \* the checks of creation and removal
BelowZero(te, fn) == Negative(te, fn) \/ (fn.family = "expression" /\ te.span[fn.a].lo < 0)
Falls(te, fn) == BelowZero(te, fn) \/ Drawn(te, fn).lo < 0
Late(te, c) == Status(c, te) = "never" /\ (c.sort = "window" \/ (c.sort = "threshold" /\ c.var = "T"))
Misread(te, r) ==
  \/ Falls(te, r.fn)
  \/ r.regimes # <<>> /\ r.fn.family \in {"expression", "opaque"}
  \/ \E g \in Range(r.regimes) : Late(te, g.predicate)
  \/ r.event # None /\ Resolve(r, te).freq = None /\ r.freq # None
Lengthens(te, fn, act) ==
  fn.family \in Affine /\ IF act = "mint" THEN te.span[fn.a].hi > 0 ELSE te.span[fn.a].lo < 0
Apart(te, t) ==
  \/ \E r \in Range(te.token[t].emits) :
       Misread(te, r) \/ Conjunction(r.when, te) = "never" \/ \E fn \in Fns(r) : Lengthens(te, fn, "mint")
  \/ \E r \in Range(te.token[t].burns) : Misread(te, r) \/ \E fn \in Fns(r) : Lengthens(te, fn, "burn")
  \/ \E f \in Range(te.flows) :
       f.dst = t /\ (f.ratio # None \/ Falls(te, f.amount) \/ Lengthens(te, f.amount, f.act))

(* Beside these, nothing is said where what a check supposes is not there: *)
(* at the deployment no cap holds and nothing drawn anew in each period is *)
(* removed; where nothing is created, nothing covers it; and without       *)
(* agents or a declared monitoring, the simulator takes 0 and a half.      *)
Excepted(te, v, when) ==
  LET t == v.subject
  IN CASE v.fm \in Balanced ->
            \/ Apart(te, t)
            \/ when = "deployed" /\ \E r \in Range(te.token[t].burns) : r.fn.family = "distribution"
            \/ v.fm = "FM1" /\ when = "deployed" /\ Capped(te, t)
            \/ v.fm = "FM3" /\ Creation(te, t, when).lo <= 0
       [] v.fm = "FM2" -> te.agents = <<>>
       [] v.fm = "FM4" -> ~Has(te, "gamma")
       [] v.fm \in {"FM5", "FM6"} -> FALSE

(* Every clause the simulator is told to watch, or one of its group, holds *)
Watched(te, v, does) ==
  LET clauses == Predicates(te, v.fm, v.subject)
  IN \A c \in clauses : \E d \in clauses :
       d.group = c.group /\ Meets(d.op, Measure(te, d.variable, does), d.threshold)
Shown(te, v, when) == IF v.subject = System THEN {[E |-> 0, B |-> 0]} ELSE Does(te, v.subject, when)

(* A verdict "sound" on a settled design means that its simulation meets   *)
(* every clause the simulator is told to watch, at the deployment and in   *)
(* every period, whichever regimes have come into force: "SOUND: violation *)
(* unreachable" (minimal.py:22).  The cases of Excepted apart, in which    *)
(* the simulator does not simulate what was checked.                       *)
SoundIsSafe ==
  Committed(design) =>
    \A v \in report.verdicts, when \in Moments(design) :
      v.structural = "sound" /\ ~Excepted(design, v, when) =>
        \A does \in Shown(design, v, when) : Watched(design, v, does)

(* The same with no case excepted, which does not hold.                    *)
SoundIsUnreachable ==
  Committed(design) =>
    \A v \in report.verdicts, when \in Moments(design) :
      v.structural = "sound" => \A does \in Shown(design, v, when) : Watched(design, v, does)

(* Settling ranges only sharpens what was said: a sound design stays sound *)
(* and a broken one stays broken, where                                    *)
(*   - no rate may fall below zero: settling a condition may take away     *)
(*     what offsets the rest;                                              *)
(*   - what is broken in creation and removal has rules that all fire for  *)
(*     certain, and, where removal does not cover creation, the ranges are *)
(*     not settled at creating nothing;                                    *)
(*   - capture is not meant: an unequal community whose one party is meant *)
(*     to decide is broken until the votes are known to be equal.          *)
Shape(te) == <<te.tokens, te.token, te.event, te.flows, te.agents, te.topology, te.govern, te.nfr, te.skipped>>
Narrower(te, other) ==
  /\ Shape(te) = Shape(other) /\ DOMAIN te.span = DOMAIN other.span
  /\ \A p \in DOMAIN te.span : te.span[p].lo <= other.span[p].lo /\ other.span[p].hi <= te.span[p].hi
MayFallBelow(te, t) ==
  \/ \E r \in Range(te.token[t].emits) \cup Range(te.token[t].burns) : \E fn \in Fns(r) : BelowZero(te, fn)
  \/ \E f \in Range(te.flows) : f.dst = t /\
       IF f.ratio = None THEN BelowZero(te, f.amount)
       ELSE \E r \in Range(te.token[f.src].emits) : BelowZero(te, r.fn) \/ (r.freq # None /\ te.span[r.freq].lo < 0)
Certain(te, t) ==
  \A r \in Range(te.token[t].emits) \cup Range(te.token[t].burns) : Conjunction(r.when, te) \in {"always", "never"}
Creates(te, t) == \E eb \in Balances(te, t) : eb[1] > 0
Lasts(te, other, v) ==
  CASE v.fm = "FM1" -> Certain(te, v.subject)
    [] v.fm = "FM3" -> Burns(te, v.subject) => Certain(te, v.subject) /\ Creates(other, v.subject)
    [] v.fm = "FM6" -> ~Excused(te)
    [] OTHER        -> TRUE
Sharpens(te, other, v, w) ==
  v.fm = w.fm /\ v.subject = w.subject /\ (v.fm \in Balanced => ~MayFallBelow(te, v.subject)) =>
    /\ v.structural = "sound" => w.structural = "sound"
    /\ v.structural = "broken" /\ Lasts(te, other, v) => w.structural = "broken"
SharpenOnly ==
  [][Narrower(design, design') => \A v \in report.verdicts, w \in report'.verdicts : Sharpens(design, design', v, w)]_vars

(* An author's edits leave a design one that the schema accepts, and what  *)
(* the closed forms ask for is enough: with the range brought there,       *)
(* the clause of the check that asked for it no longer fails.  "binding    *)
(* constraint", "a repair" (fm4_freerider.py:199), "suffices" (fm6:546).   *)
(* For FM4's variety that supposes some contributor for certain, and for   *)
(* its verification, that the mechanism is left alone: another one changes *)
(* the temptation as well.  FM6's levers are those that its measure falls  *)
(* with: the advice on caps and locks moves it the other way.              *)
Cured(v, a, te) ==
  CASE v.fm = "FM1" -> FM1(te, v.subject) # "fail" \/ (a.param # "cap" /\ Flows(te, v.subject, "mint") # {})
    [] v.fm = "FM4" /\ a.param = "K"     -> ~FewGive(te) \/ PhiRange(te).lo = 0
    [] v.fm = "FM4" /\ a.param = "gamma" -> ~Tempting(te, "lo") \/ te.token # design.token
    [] v.fm = "FM5" -> FM5(te) = "pass"
    [] v.fm = "FM6" /\ a.param = "n_demote" -> ~Captured(te)
    [] v.fm = "FM6" /\ a.param # "n_demote" -> ~Unequal(te) \/ a.param \in {"cap_fraction", "avg_lock_fraction"}
    [] OTHER -> TRUE

(* What the texts claim of the amounts that they quote: creation declared  *)
(* within the least Q is never oversupply (fm1:349), a cap ends an         *)
(* imbalance where removal need not exceed creation (fm3:424), and so does *)
(* a least removal that covers the declared creation (fm3:421); among the  *)
(* mechanisms said to be safe one is (fm4:396), and the participants bear  *)
(* the variety K* (fm5:96).  Where flows, regimes and families that the    *)
(* declared amount leaves out play no part.                                *)
Declared(te, t) == /\ Flows(te, t, "mint") = {}
                   /\ \A r \in Range(te.token[t].emits) : r.regimes = <<>> /\ r.fn.family \notin {"polynomial", "opaque"}
LeastRemoved(te, t) ==   \* in hundredths
  Side(te, t, te.token[t].burns, "burn", "burn", [s \in te.tokens |-> 100 * OwnRate(s, te).lo]).lo
QuotedAmountsHold(te) ==
  /\ \A t \in te.tokens :
       /\ Declared(te, t) /\ DeclaredCreation(te, t) <= te.span["Q"].lo => FM1(te, t) # "fail" \/ LeastRemoved(te, t) < 0
       /\ Floor(te) <= 100 /\ FM3(te, t) = "fail" => FM3([te EXCEPT !.token[t].cap = "Q"], t) = "pass_as_intended"
       /\ Declared(te, t) /\ LeastRemoved(te, t) >= DeclaredCreation(te, t) * Floor(te) /\ Burns(te, t) =>
            FM3(te, t) # "fail"
  /\ LET safe == {v \in DOMAIN GammaTable : Clears(te, v)}
     IN Tempting(te, "lo") /\ ~Has(te, "gamma") /\ Verified(te) # {} /\ SanctionRange(te).lo > 0 /\ safe # {} =>
          \E v \in safe : ~Tempting(Verifying(te, v), "lo")
  /\ Varieties(te) # {} /\ Has(te, "K") /\ Kinds4(te) = {"K"} /\ te.span["d"].hi > 0 =>
       ~Sparse([te EXCEPT !.span["K"] = Lower(@, KMost(te))])

(* A failure that depends on the ranges has an input marked as open, by    *)
(* which the author is told why; FM4 calls its share of contributors       *)
(* committed once agents are declared, also where it is a range.           *)
OpenInputs(te, v) == CASE v.fm = "FM2" -> Swept2(te)
                       [] v.fm = "FM4" -> Swept4(te) \cup (IF PhiRange(te).lo < PhiRange(te).hi THEN {"phi"} ELSE {})
                       [] v.fm = "FM5" -> Swept5(te) [] OTHER -> {"rules"}

AdviceHelps ==
  /\ TypeOK /\ Formed(design)
  /\ \A v \in report.verdicts : \A a \in v.advice : \A te \in Heeding(design, a, v.subject) : Cured(v, a, te)
  /\ QuotedAmountsHold(design)
  /\ \A v \in report.verdicts : v.status = "fail" /\ v.structural = "fragile" => OpenInputs(design, v) # {}

(* An author who keeps following the recommendations comes to their end:   *)
(* no threshold leaves its own verdict standing, and an edit made for the  *)
(* sake of one check does not call for undoing what another asked for.     *)
(* Not so where there is nothing to edit (several rules at once, a role, a *)
(* verification that would have to see more than everything).              *)
Beside(a, t) == Heeding(design, a, t) = {}
AdviceRunsOut == <>[](\A v \in report.verdicts : \A a \in v.advice : Beside(a, v.subject))
=============================================================================
