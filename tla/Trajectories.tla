---------------------------- MODULE Trajectories ----------------------------
(***************************************************************************)
(* What the verifier shows beside its verdicts: the course of a token over *)
(* the horizon at the middle of the declared ranges                        *)
(* (simulate/trajectory.py), which inputs turn a failure into something    *)
(* else, alone or two at a time (simulate/sensitivity.py), and the         *)
(* diagnosis that puts both in words (simulate/refinement.py).             *)
(*                                                                         *)
(* A rule's schedule is [cap, every, offset, vesting], 0 where a part is   *)
(* left out; a rate halves.  te.initial[t] is the range of the supply at   *)
(* the start, or None.  Amounts are in units of 1/512, so that the middle  *)
(* of a product of ranges can be halved six times.                         *)
(***************************************************************************)
EXTENDS Verdicts, TLC

Unit == 512
Middle(r) == (Unit \div 2) * Mid(r)    \* the middle of a range

(***************************************************************************)
(* A rule at a time: its rate, then what its schedule leaves of it.        *)
(* Conditions and regimes are not looked at.                               *)
(***************************************************************************)
AtTime(te, fn, at) ==   \* doubled
  CASE fn.family \in {"linear", "polynomial"} ->
         Max({0, Mid(te.span[fn.a]) * at ^ (IF fn.family = "linear" THEN 1 ELSE fn.degree) + Mid(te.span[fn.b])})
    [] fn.family = "distribution" -> Max({0, Mid(te.span[fn.a])})
    [] fn.family = "opaque"       -> 0
    [] OTHER                      -> Mid(te.span[fn.a])

BaseRate(te, r, at) ==
  LET freq == Resolve(r, te).freq
  IN (Unit \div 4) * AtTime(te, r.fn, at) * (IF freq = None THEN 2 ELSE Mid(te.span[freq]))

ByThen(s, amount, at, emitted) ==
  IF s.cap # 0 /\ emitted >= Unit * s.cap THEN 0
  ELSE LET halved == IF s.every = 0 THEN amount ELSE amount \div 2 ^ ((at + s.offset) \div s.every)
       IN IF s.vesting = 0 THEN halved ELSE (halved * Min({s.vesting, at})) \div s.vesting

Given(te, rules, at, emitted) == [i \in DOMAIN rules |-> ByThen(rules[i].schedule, BaseRate(te, rules[i], at), at, emitted[i])]
Zeros(rules) == [i \in DOMAIN rules |-> 0]

(***************************************************************************)
(* The course.  The supply counts from the first period on; what a rule    *)
(* has emitted is what it would have, before the outstanding cap turns the *)
(* excess away, and another token's rules never come to have emitted       *)
(* anything, so that their own caps do not bind.                           *)
(***************************************************************************)
Initial(te, t) == IF te.initial[t] = None THEN 0 ELSE Middle(te.span[te.initial[t]])
Coupled(te, t, act, at, own) ==
  LET source(s) == IF s = t THEN own ELSE Sum(Given(te, te.token[s].emits, at, Zeros(te.token[s].emits)))
      brings(f) == IF f.ratio = None THEN (Unit \div 2) * AtTime(te, f.amount, at)
                   ELSE (Mid(te.span[f.ratio]) * source(f.src)) \div 2
  IN Sum([i \in Flows(te, t, act) |-> brings(te.flows[i])])

Kept(te, t, e, b, m) ==
  IF Capped(te, t) THEN Max({0, Min({e, Middle(te.span[te.token[t].cap]) - m + b})}) ELSE e

Launch(te, t) == [M |-> Initial(te, t), E |-> 0, B |-> 0, cumE |-> 0, cumB |-> 0,
                  emits |-> Zeros(te.token[t].emits), burns |-> Zeros(te.token[t].burns)]
Period(te, t, s, at) ==
  LET emits == Given(te, te.token[t].emits, at, s.emits)
      burns == Given(te, te.token[t].burns, at, s.burns)
      b == Sum(burns) + Coupled(te, t, "burn", at, Sum(emits))
      e == Kept(te, t, Sum(emits) + Coupled(te, t, "mint", at, Sum(emits)), b, s.M)
  IN [M |-> Max({0, s.M + e - b}), E |-> e, B |-> b, cumE |-> s.cumE + e, cumB |-> s.cumB + b,
      emits |-> [i \in DOMAIN emits |-> s.emits[i] + emits[i]], burns |-> [i \in DOMAIN burns |-> s.burns[i] + burns[i]]]

Course(te, t) ==
  LET path[at \in 0..Horizon] == IF at = 0 THEN Launch(te, t) ELSE Period(te, t, path[at - 1], at)
  IN path

(* What FM3 says of a supply that a cap holds: in how many periods it gets *)
(* there, at given rates, and what a schedule adds in all.                 *)
PeriodsToCap(te, t, e, b) ==
  LET room == te.span[te.token[t].cap].lo - (IF te.initial[t] = None THEN 0 ELSE te.span[te.initial[t]].hi)
  IN IF e > b THEN -((-room) \div (e - b)) ELSE 0
TotalCap(te, t) == Sum([i \in DOMAIN te.token[t].emits |-> te.token[t].emits[i].schedule.cap])

(***************************************************************************)
(* What is said of it                                                      *)
(***************************************************************************)
First(S) == IF S = {} THEN None ELSE ToString(Min(S))
Change(p, at) == p[at].E - p[at].B
Size(x) == Max({x, -x})
Metrics(p) ==
  LET moving == {at \in 1..Horizon : Change(p, at) # 0}
      still(at) == moving # {} /\ at > Min(moving) /\ 100 * Size(Change(p, at)) < Size(Change(p, Min(moving)))
      base == Max({p[0].M, Unit})
  IN [first |-> p[0].M, last |-> p[Horizon].M,
      covered |-> p[Horizon].cumB >= p[Horizon].cumE,
      below |-> First({at \in 1..Horizon : p[at].cumE > 0 /\ p[at].cumB < p[at].cumE}),
      saturates |-> First({at \in 1..Horizon : still(at)}),
      grows |-> 100 * (p[Horizon].M - p[0].M) > base,
      shrinks |-> 100 * (p[0].M - p[Horizon].M) > base,
      diverges |-> p[Horizon].M > 100 * base]
Movement(m) ==
  CASE m.first = 0 /\ m.last > 0 -> "appears" [] m.diverges /\ m.first > 0 -> "diverges"
    [] m.grows /\ ~m.diverges /\ m.first > 0 -> "grows" [] m.shrinks -> "contracts" [] OTHER -> "flat"

(***************************************************************************)
(* The inputs that turn a failure: at the ends of their ranges, alone, and *)
(* two at a time of those that do not turn it alone.                       *)
(***************************************************************************)
Candidates(te, fm) ==
  LET kinds == {te.token[t].variety : t \in te.tokens}
  IN DOMAIN te.span \cap (CASE fm \in {"FM1", "FM3"} -> {"Q"}
                            [] fm = "FM4" -> {"d", "gamma", "S"} \cup kinds
                            [] fm = "FM5" -> {"N", "d"} \cup kinds
                            [] fm = "FM6" -> {"gini"}
                            [] OTHER      -> {})
Fixing(te, f) == [te EXCEPT !.span = [p \in DOMAIN @ |-> IF p \in DOMAIN f THEN [lo |-> f[p], hi |-> f[p]] ELSE @[p]]]
Settings(values) ==   \* one of its values for each
  {f \in [DOMAIN values -> UNION Range(values)] : \A p \in DOMAIN values : f[p] \in values[p]}
(* Mutant: only the lower end is tried *)
MutTried(r) == {r.lo}
Tried(r) == {r.lo, r.hi}
Turns(te, v, f) == Check(Fixing(te, f), v.fm, v.subject) # v.status
Binding(te, v) == {p \in Candidates(te, v.fm) : \E f \in Settings([q \in {p} |-> Tried(te.span[q])]) : Turns(te, v, f)}
JointFlips(te, v, binding) ==
  {S \in kSubset(2, Candidates(te, v.fm) \ binding) : \E f \in Settings([p \in S |-> Tried(te.span[p])]) : Turns(te, v, f)}

(* The diagnosis, of what is neither a pass nor out of place *)
Followed(te, v) == v.fm \in {"FM1", "FM3"} /\ v.subject \in te.tokens
Turned(te, v)   == v.status = "fail" /\ Candidates(te, v.fm) # {}
Diagnosable(te, vs) ==
  {v \in vs : /\ v.status \notin {"pass", "not_applicable"}
              /\ Followed(te, v) \/ Turned(te, v) \/ v.status = "pass_as_intended"}
Diagnosed(te, v, turning) ==
  [intended |-> v.status = "pass_as_intended",
   movement |-> IF Followed(te, v) THEN Movement(Metrics(Course(te, v.subject))) ELSE None,
   turning  |-> turning,
   robust   |-> Turned(te, v) /\ turning = {},
   jointly  |-> IF Turned(te, v) THEN JointFlips(te, v, turning) ELSE {}]
Diagnosis(te, v) == Diagnosed(te, v, IF Turned(te, v) THEN Binding(te, v) ELSE {})

(***************************************************************************)
(* Properties                                                              *)
(***************************************************************************)
(* Rules whose course is what the checks bound: the checks do not look at  *)
(* schedules, the course not at conditions and regimes, and a rate that    *)
(* changes is averaged by the one and followed by the other.               *)
Even(r) == r.when = {} /\ r.regimes = <<>> /\ r.fn.family \notin {"linear", "polynomial", "opaque"}
Tame(te, t) ==
  /\ \A r \in Range(te.token[t].emits) : Even(r) /\ Resolve(r, te).when = {}
  /\ \A r \in Range(te.token[t].burns) : Even(r) /\ r.schedule = NoSchedule /\ Resolve(r, te).when = {}
  /\ \A f \in Range(te.flows) : f.dst = t /\ f.ratio # None =>
       \A r \in Range(te.token[f.src].emits) : Even(r) /\ Plain(r) /\ r.schedule = NoSchedule

(* The course shown for a token contradicts no sound verdict on it: where  *)
(* oversupply is out of reach no period creates more, after removal, than  *)
(* there are transactions; where imbalance is, what was removed covers     *)
(* what was created at every time.  Where FM3 passes as intended, creation *)
(* ends within a period's amount of the scheduled total, or the supply is  *)
(* at its cap from the period that was named on (fm3:583).  And it never   *)
(* passes the cap on what is outstanding.  trajectory.py:62-76.            *)
Steadily(te, t) == /\ Flows(te, t, "mint") = {} /\ Flows(te, t, "burn") = {}
                   /\ \A r \in Range(te.token[t].emits) : r.schedule = NoSchedule
SoundCourse(t, p) ==
  LET sound(fm) == \E v \in report.verdicts : v.fm = fm /\ v.subject = t /\ v.structural = "sound"
  IN /\ sound("FM1") /\ design.token[t].transferable =>
          \A at \in 1..Horizon : Change(p, at) <= Middle(design.span["Q"])
     /\ sound("FM3") /\ ~Capped(design, t) => \A at \in 1..Horizon : p[at].cumB >= p[at].cumE
     /\ FM3(design, t) = "pass_as_intended" /\ RunsOut(design, t) =>
          \A at \in 1..Horizon : p[at].cumE <= Unit * TotalCap(design, t)
                                              + Sum([i \in DOMAIN p[0].emits |-> BaseRate(design, design.token[t].emits[i], 1)])
     /\ Committed(design) /\ Steadily(design, t) /\ HeldByCap(design, t) =>
          LET cap  == Middle(design.span[design.token[t].cap])
              full == PeriodsToCap(design, t, p[1].E \div Unit, p[1].B \div Unit)
          IN p[0].M < cap /\ p[1].M < cap => \A at \in 0..Horizon : p[at].M = cap <=> at >= full
     /\ Capped(design, t) /\ p[0].M <= Middle(design.span[design.token[t].cap]) =>
          \A at \in 1..Horizon : p[at].M <= Middle(design.span[design.token[t].cap])
SoundCourses == \A t \in {t \in design.tokens : Tame(design, t)} : SoundCourse(t, Course(design, t))

(* A failure said to be robust to one-at-a-time changes is: no value       *)
(* within the range of an input turns it, though only the ends were tried; *)
(* and where no two ends turn it together either, no two values do.        *)
(* Unless a rule's conditions or regimes read an input: they may hold      *)
(* between the ends alone.  refinement.py:119, sensitivity.py:196-204.     *)
Reads(te) == \E t \in te.tokens : \E r \in Range(te.token[t].emits) \cup Range(te.token[t].burns) :
               \E c \in r.when \cup {g.predicate : g \in Range(r.regimes)} : c.sort = "threshold" /\ c.var # "T"
Robust(v, d) ==
  LET settled(k) == UNION {Settings([p \in S |-> Within(design.span[p])]) : S \in kSubset(k, Candidates(design, v.fm))}
  IN d.robust => /\ \A f \in settled(1) : ~Turns(design, v, f)
                 /\ d.jointly = {} => \A f \in settled(2) : ~Turns(design, v, f)
RobustIsRobust == ~Reads(design) => \A v \in Diagnosable(design, report.verdicts) : Robust(v, Diagnosis(design, v))

(* Both: what is added to the verdicts, a token's course and what turns a  *)
(* failure, is so.                                                         *)
DiagnosisHolds == SoundCourses /\ RobustIsRobust
=============================================================================
