------------------------------ MODULE Explore -------------------------------
(***************************************************************************)
(* What is reported of a run of the simulator: the snapshots, summary and  *)
(* headlines of the explore page (abm/explore.py), the comparison of a run *)
(* with the static verdicts (abm/coherence.py), the first violation of a   *)
(* Monte Carlo run (_run_once in abm/engine.py) and the flows laid over    *)
(* the graph of the design (annotate_with_realised in abm/flow_graph.py).  *)
(*                                                                         *)
(* A snapshot is taken at the start and after every period; the rest is    *)
(* computed from the snapshots.  Of what the predicates measure, the rates *)
(* and supplies are here; the averages over agents are left out.           *)
(***************************************************************************)
EXTENDS Engine, Integers, SequencesExt

CONSTANTS
  Watched,  \* the failure modes: [status, clauses], a clause [variable, token, op, threshold, group]
  SkipDecided, \* skip_non_fragile: what the verdicts settle is not simulated
  Window    \* RATE_WINDOW: the periods over which a rate is measured

VARIABLE snaps  \* report.snapshots

Startup == 2 * Window

(* What is watched, as the failure modes state it: a rate of removal is    *)
(* bounded from below (fm3_burn_emission.py).  The nodes of the graph      *)
(* where tokens come from and go to are not among the types.               *)
ASSUME ExploreAssumption ==
  /\ Window \in Nat \ {0} /\ IsFiniteSet(Types) /\ {"mint", "burn"} \cap Types = {}
  /\ \A fm \in DOMAIN Watched :
       /\ Watched[fm].status \in {"sound", "fragile", "broken", "inconclusive"}
       /\ \A c \in Watched[fm].clauses :
            /\ c.variable \in {"net", "rho", "M"} /\ c.token \in Tokens /\ c.threshold \in Int
            /\ c.op \in IF c.variable = "rho" THEN {">="} ELSE {"<=", ">="}

Add(f) == FoldLeft(LAMBDA a, b : a + b, 0, f)
Larger(a, b) == IF a > b THEN a ELSE b

(* What a period shows; before the first no pool has been prepared         *)
Shot == [M |-> M, E |-> [k \in Tokens |-> rate[k].E], B |-> [k \in Tokens |-> rate[k].B],
         plan |-> IF period = 0 THEN rate ELSE pool, live |-> Cardinality(agents)]

ExploreInit == Init /\ snaps = <<Shot>>
Watching(A) == A /\ snaps' = IF stage' = "ready" /\ stage # "ready" THEN Append(snaps, Shot') ELSE snaps
ExploreNext ==
  \/ Watching(Begin) \/ Watching(Event) \/ Watching(Decide) \/ Watching(Aggregate)
  \/ Watching(Rest) \/ Watching(Flow) \/ Watching(Close)
  \/ \E a \in Ids : \/ Watching(Hold(a)) \/ Watching(Earn(a)) \/ Watching(Transfer(a))
                    \/ Watching(Redeem(a)) \/ Watching(Stake(a)) \/ Watching(Vote(a))
ExploreSpec == ExploreInit /\ [][ExploreNext]_<<vars, snaps>>

First == snaps[1]
Latest == snaps[Len(snaps)]
At(t) == snaps[t + 1]
Periods == 0..(Len(snaps) - 1)

(***************************************************************************)
(* The summary.  Every snapshot counts, that of the start with the rates   *)
(* that were planned for it.                                               *)
(***************************************************************************)
Emitted(s, k) == Add([i \in DOMAIN s |-> s[i].E[k]])
Burned(s, k)  == Add([i \in DOMAIN s |-> s[i].B[k]])
CumulativeE(k) == Emitted(snaps, k)
CumulativeB(k) == Burned(snaps, k)
Exited == Less(First.live, Latest.live)
ByType == [ty \in {kind[a] : a \in agents} |->
             LET members == {a \in agents : kind[a] = ty}
             IN [count |-> Cardinality(members), held |-> Held(members, balance)]]
Richest == {ty \in DOMAIN ByType : \A other \in DOMAIN ByType : ByType[ty].held >= ByType[other].held}
Headlines ==
  {[about |-> "supply", of |-> k, from |-> First.M[k], to |-> Latest.M[k], created |-> CumulativeE(k), removed |-> CumulativeB(k)] :
     k \in {k \in Tokens : First.M[k] # Latest.M[k]}}
  \cup {[about |-> "holds", of |-> ty, count |-> ByType[ty].count, held |-> ByType[ty].held] : ty \in Richest}
  \cup (IF Exited > 0 THEN {[about |-> "exits", gone |-> Exited, from |-> First.live, to |-> Latest.live]} ELSE {})

(***************************************************************************)
(* What a clause measures in a period.  In a run with agents a rate is     *)
(* left alone until the startup is over, and then measured over the last   *)
(* periods, where creation and removal that were planned in proportion     *)
(* count if most of it was done.  A measure is a fraction.                 *)
(***************************************************************************)
Over(n, d) == [n |-> n, d |-> d]
Reading(s, c) ==
  CASE c.variable = "net" -> Over(s.E[c.token] - s.B[c.token], 1)
    [] c.variable = "rho" -> IF s.E[c.token] > 0 THEN Over(100 * s.B[c.token], s.E[c.token]) ELSE Over(0, 1)
    [] c.variable = "M"   -> Over(s.M[c.token], 1)
IsRate(c) == c.variable \in {"net", "rho"}

Enough == 75   \* SUPPLY_LIMITED_COVERAGE, in hundredths
SteadyRate(c, recent) ==
  LET created  == Emitted(recent, c.token)
      removed  == Burned(recent, c.token)
      creating == Add([i \in DOMAIN recent |-> recent[i].plan[c.token].E])
      removing == Add([i \in DOMAIN recent |-> recent[i].plan[c.token].B])
  IN CASE c.variable = "net"                     -> Over(created - removed, Len(recent))
       [] c.variable = "rho" /\ created = 0      -> Over(c.threshold, 1)
       [] OTHER -> IF /\ creating > 0 /\ 100 * removing >= c.threshold * creating
                      /\ 100 * removed >= Enough * created
                   THEN Over(100 * removing, creating) ELSE Over(100 * removed, created)

(* The last entries of rates                                               *)
Recent(t) == SubSeq(snaps, Larger(1, t + 2 - Window), t + 1)

Settled(c, t) == Start # <<>> /\ t > 0 /\ IsRate(c)
Value(c, t) == IF Settled(c, t) THEN SteadyRate(c, Recent(t)) ELSE Reading(At(t), c)

Meets(op, m, threshold) == CASE op = "<=" -> m.n <= threshold * m.d
                             [] op = ">=" -> m.n >= threshold * m.d

(* fm_safe: of the clauses in a group one holds, and every group holds     *)
AllSafe(clauses, held) == \A c \in clauses : \E d \in held : d.group = c.group

Safe(fm, t) ==
  LET clauses == Watched[fm].clauses
  IN AllSafe(clauses, {c \in clauses : (Settled(c, t) /\ t < Startup) \/ Meets(c.op, Value(c, t), c.threshold)})
Violations(fm) == {t \in Periods : ~Safe(fm, t)}
FirstViolation(fm) == Min(Violations(fm))

(* run_simulation: what is simulated, and how a run is counted             *)
Simulated(fm) == /\ Watched[fm].clauses # {}
                 /\ SkipDecided => Watched[fm].status \in {"fragile", "inconclusive"}
Outcome(fm) == CASE ~Simulated(fm)                    -> "skipped"
                 [] Simulated(fm) /\ Violations(fm) = {} -> "safe"
                 [] OTHER -> IF FirstViolation(fm) = 0 THEN "at_deployment" ELSE "dynamic"

(***************************************************************************)
(* The comparison with the verdict: a clause is crossed in the periods in  *)
(* which what is read, as it is, does not meet it.                         *)
(***************************************************************************)
(* Mutant: a period at the end is not looked at *)
MutCrossed(c) == {t \in Periods \ {Len(snaps) - 1} : ~Meets(c.op, Reading(At(t), c), c.threshold)}
Crossed(c) == {t \in Periods : ~Meets(c.op, Reading(At(t), c), c.threshold)}
Coherence(fm) ==
  LET clauses == Watched[fm].clauses
      status  == Watched[fm].status
      crossed == \E c \in clauses : Crossed(c) # {}
      clean   == AllSafe(clauses, {c \in clauses : Crossed(c) = {}})
  IN CASE status = "inconclusive"        -> "inconclusive"
       [] status = "sound" /\ clean      -> "aligned"
       [] status = "sound" /\ ~clean     -> "abm_drift"
       [] status = "broken"              -> IF crossed THEN "confirmed" ELSE "verifier_pessimistic"
       [] status = "fragile"             -> IF crossed THEN "fragile_realised" ELSE "fragile_avoided"

(***************************************************************************)
(* The graph: what was created of a token goes in equal parts to the types *)
(* that may earn it, what was removed comes from those that may spend it.  *)
(***************************************************************************)
RealisedB(k) == Latest.B[k]
RealisedE(k) == Less(Latest.M[k] + RealisedB(k), First.M[k])
May(act) == {ty \in Types : ActionsOf[ty] = {} \/ act \in ActionsOf[ty]}
Edges ==
  {[from |-> "mint", to |-> ty, token |-> k, realised |-> RealisedE(k) \div Cardinality(May("earn"))] :
     k \in Tokens, ty \in May("earn")}
  \cup {[from |-> ty, to |-> "burn", token |-> k, realised |-> RealisedB(k) \div Cardinality(May("redeem"))] :
     k \in Tokens, ty \in May("redeem")}
Carried(k, where) ==
  LET amounts == [e \in Edges |-> e.realised]
  IN  MapThenSumSet(LAMBDA e : amounts[e], {e \in Edges : e.token = k /\ where \in {e.from, e.to}})

(***************************************************************************)
(* Properties                                                              *)
(***************************************************************************)
(* The summary and its headlines add up as long as there are agents: what  *)
(* they call the cumulative emission and burn explains the change of every *)
(* supply over the run, once the rates planned for the start are taken off *)
(* (explore.py:515-524, where every snapshot counts); who holds most does  *)
(* not hold more than there is; and the graph lays over its edges no more  *)
(* than the summary counts (flow_graph.py:494-510, which takes the burn of *)
(* the last period for that of the run).                                   *)
SummaryReconciles ==
  (Len(snaps) > 1 /\ \A t \in Periods \ {0} : At(t).live > 0) =>
    /\ \A h \in Headlines :
         CASE h.about = "supply" -> h.to + h.removed - First.B[h.of] = h.from + h.created - First.E[h.of]
           [] h.about = "holds"  -> h.held <= Latest.M[Primary]
           [] h.about = "exits"  -> h.gone + h.to = h.from
    /\ \A k \in Tokens : /\ Carried(k, "mint") <= CumulativeE(k) - First.E[k]
                         /\ Carried(k, "burn") <= CumulativeB(k) - First.B[k]

(* The two ways in which a run is measured agree where it matters: a run   *)
(* that the comparison calls aligned, or a fragile one avoided, is not one *)
(* in which the Monte Carlo counts a violation, though the one reads each  *)
(* period as it is and the other its windows and plans (coherence.py:      *)
(* 184-206, _run_once and _steady_rate in engine.py).                      *)
CleanIsSafe ==
  \A fm \in DOMAIN Watched :
    Coherence(fm) \in {"aligned", "fragile_avoided", "verifier_pessimistic"} => Outcome(fm) \in {"safe", "skipped"}

(* The reports of a run agree with it and with each other.                 *)
ReportsAgree == stage = "ready" => SummaryReconciles /\ CleanIsSafe
=============================================================================
