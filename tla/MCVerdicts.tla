----------------------------- MODULE MCVerdicts -----------------------------
(* Designs for TLC, each of which has a few ranges to settle: rules under  *)
(* conditions and regimes; two tokens joined by flows, one of them capped; *)
(* a community with everything to be tuned; networks.                      *)
EXTENDS Trajectories

R(lo, hi) == [lo |-> lo, hi |-> hi]
Fn(family, a, b) == [family |-> family, a |-> a, b |-> b, degree |-> 1]
Rule(a) == [fn |-> Fn("constant", a, None), freq |-> None, event |-> None, kind |-> "time_based",
            when |-> {}, regimes |-> <<>>, schedule |-> NoSchedule]
Threshold(var, op, v) == [sort |-> "threshold", var |-> var, op |-> op, value |-> v]
Window(a, b) == [sort |-> "window", from |-> a, to |-> b]
Occurs(e, src) == [sort |-> "event", event |-> e, source |-> src]

Token == [transferable |-> TRUE, functions |-> {"medium"}, anchor |-> "market", emits |-> <<>>, burns |-> <<>>,
          cap |-> None, variety |-> "K", verification |-> "peer_verification", redemption |-> 1, incentives |-> {}]
Settled == ("Q" :> R(3, 3)) @@ ("N" :> R(9, 9)) @@ ("d" :> R(1, 1)) @@ ("K" :> R(2, 2)) @@ ("tau" :> R(20, 20))
Base == [tokens |-> {"A"}, skipped |-> {}, later |-> <<>>, token |-> ("A" :> Token), initial |-> ("A" :> None), span |-> Settled, event |-> <<>>, flows |-> <<>>,
         agents |-> <<[share |-> 100, role |-> "contributor", hint |-> FALSE, tau |-> "tau"]>>,
         topology |-> "well_mixed",
         govern |-> [unilateral |-> 1, decisions |-> 3, weighting |-> "linear", type |-> "dao", sanction |-> "exclusion"],
         nfr |-> [circulation |-> "neutral", resilience |-> 3, proportionality |-> 3, accessibility |-> 3, maturity |-> "medium_term"]]

(* Conditions, a regime, a frequency from the catalogue *)
Conditional ==
  [Base EXCEPT !.skipped = {"FM2"}, !.agents = <<>>, !.span = ("Q" :> R(2, 4)) @@ ("e" :> R(1, 2)) @@ ("b" :> R(0, 2)) @@ ("f" :> R(0, 1)) @@ ("r" :> R(3, 4)) @@ Settled,
    !.event = ("sale" :> [kind |-> "demand_driven", label |-> "sale", freq |-> "f", when |-> {}]),
    !.token = ("A" :> [Token EXCEPT
      !.emits = << [Rule("e") EXCEPT !.regimes = << [predicate |-> Threshold("Q", ">", 3), fn |-> Fn("constant", "r", None)] >>],
                   [Rule("b") EXCEPT !.when = {Occurs("sale", None)}] >>,
      !.burns = << [Rule("b") EXCEPT !.event = "sale"], [Rule("e") EXCEPT !.when = {Threshold("Q", ">=", 3)}],
                   [Rule("b") EXCEPT !.when = {Window(1, 2)}] >>])]

(* A capped token fed by another *)
Flowing ==
  [Base EXCEPT !.tokens = {"A", "B"}, !.initial = ("A" :> None) @@ ("B" :> "x"),
    !.span = ("e" :> R(0, 2)) @@ ("b" :> R(1, 3)) @@ ("x" :> R(1, 2)) @@ ("cap" :> R(2, 4)) @@ Settled,
    !.flows = << [src |-> "A", dst |-> "B", act |-> "mint", ratio |-> "x", amount |-> Fn("constant", "x", None)],
                 [src |-> "A", dst |-> "B", act |-> "burn", ratio |-> None, amount |-> Fn("constant", "b", None)] >>,
    !.nfr.resilience = 5,
    !.token = ("A" :> [Token EXCEPT !.emits = << Rule("e") >>, !.burns = << [Rule("b") EXCEPT !.kind = "demand_driven"] >>])
           @@ ("B" :> [Token EXCEPT !.cap = "cap", !.emits = << [Rule("e") EXCEPT !.schedule.cap = 4] >>])]

(* Everything of a community is open *)
Community ==
  [Base EXCEPT !.span = ("K" :> R(2, 2)) @@ ("d" :> R(1, 2)) @@ ("N" :> R(7, 7)) @@ ("e" :> R(1, 1)) @@ Settled,
    !.agents = << [share |-> 40, role |-> "contributor", hint |-> FALSE, tau |-> "tau"],
                  [share |-> 60, role |-> "consumer", hint |-> FALSE, tau |-> "tau"] >>,
    !.govern.unilateral = 3, !.govern.sanction = "token_penalty", !.later = "S" :> {R(45, 45)},
    !.token = ("A" :> [Token EXCEPT !.verification = "third_party_certification", !.redemption = 2,
                                    !.emits = << [Rule("e") EXCEPT !.kind = "behavioral_event"] >>])]

(* A network whose contacts may be declared *)
Network ==
  [Base EXCEPT !.span = ("K" :> R(1, 2)) @@ ("d" :> R(1, 2)) @@ ("N" :> R(5, 10)) @@ ("e" :> R(1, 1)) @@ Settled,
    !.topology = "network", !.later = "degree" :> {R(4, 4), R(9, 9)},
    !.token = ("A" :> [Token EXCEPT !.emits = << Rule("e") >>, !.burns = << Rule("e") >>])]

(* Rates that change over the horizon, one of which may start below zero *)
Changing ==
  [Base EXCEPT !.span = ("a" :> R(-1, 1)) @@ ("b" :> R(0, 2)) @@ ("s" :> R(-1, 1)) @@ ("tau" :> R(15, 16)) @@ Settled,
    !.govern.unilateral = 3,
    !.token = ("A" :> [Token EXCEPT
      !.emits = << [Rule("a") EXCEPT !.fn = Fn("linear", "a", "b")], [Rule("s") EXCEPT !.fn = Fn("distribution", "s", None)] >>,
      !.burns = << [Rule("b") EXCEPT !.fn = Fn("expression", "b", None)] >>])]

(* Votes that are delegated, capped, earned *)
Voting(weighting, p, range) ==
  [Base EXCEPT !.span = (p :> range) @@ ("gini" :> R(59, 61)) @@ ("e" :> R(1, 1)) @@ Settled,
    !.govern.weighting = weighting,
    !.token = ("A" :> [Token EXCEPT !.functions = {"governance"}, !.emits = << Rule("e") >>])]

(* Schedules on creation: a rate that halves, one that vests, one that ends *)
Scheduling ==
  [Base EXCEPT !.span = ("e" :> R(1, 3)) @@ ("b" :> R(0, 3)) @@ ("m" :> R(2, 3)) @@ ("Q" :> R(3, 4)) @@ Settled,
    !.skipped = {"FM2"}, !.agents = <<>>, !.initial = "A" :> "m",
    !.token = ("A" :> [Token EXCEPT
      !.emits = << [Rule("e") EXCEPT !.schedule = [cap |-> 0, every |-> 2, offset |-> 1, vesting |-> 0]],
                   [Rule("b") EXCEPT !.schedule = [cap |-> 5, every |-> 0, offset |-> 0, vesting |-> 2]] >>,
      !.burns = << Rule("b") >>])]

(* Creation that only a cap holds, or only the end of its schedule *)
Held ==
  [Base EXCEPT !.span = ("e" :> R(1, 2)) @@ ("b" :> R(0, 1)) @@ ("m" :> R(0, 1)) @@ ("cap" :> R(3, 5)) @@ Settled,
    !.skipped = {"FM2"}, !.agents = <<>>, !.initial = "A" :> "m",
    !.token = ("A" :> [Token EXCEPT !.cap = "cap", !.emits = << Rule("e") >>, !.burns = << Rule("b") >>])]
Ending ==
  [Base EXCEPT !.span = ("e" :> R(1, 2)) @@ ("b" :> R(0, 2)) @@ ("m" :> R(0, 1)) @@ Settled,
    !.skipped = {"FM2"}, !.agents = <<>>, !.initial = "A" :> "m",
    !.token = ("A" :> [Token EXCEPT !.emits = << [Rule("e") EXCEPT !.schedule.cap = 3] >>, !.burns = << Rule("b") >>])]

(* Separate events create and remove *)
Separate ==
  [Base EXCEPT !.span = ("e" :> R(1, 2)) @@ ("b" :> R(1, 2)) @@ ("f" :> R(0, 2)) @@ ("g" :> R(1, 2)) @@ ("Q" :> R(2, 3)) @@ Settled,
    !.skipped = {"FM2"}, !.agents = <<>>,
    !.event = ("earn" :> [kind |-> "behavioral", label |-> "earn", freq |-> "f", when |-> {}])
           @@ ("spend" :> [kind |-> "demand_driven", label |-> "spend", freq |-> "g", when |-> {}]),
    !.token = ("A" :> [Token EXCEPT !.emits = << [Rule("e") EXCEPT !.event = "earn"] >>,
                                    !.burns = << [Rule("b") EXCEPT !.event = "spend", !.fn.family = "expression"] >>])]

(* Rates that fall over a run, one that changes over while it lasts, and a *)
(* removal that is drawn anew in each period                               *)
Fading ==
  [Base EXCEPT !.tokens = {"A", "B"}, !.initial = ("A" :> None) @@ ("B" :> None), !.skipped = {"FM2"}, !.agents = <<>>,
    !.span = ("a" :> R(-1, 0)) @@ ("h" :> R(4, 5)) @@ ("e" :> R(1, 2)) @@ ("b" :> R(3, 4)) @@ ("Q" :> R(2, 3)) @@ Settled,
    !.flows = << [src |-> "A", dst |-> "B", act |-> "mint", ratio |-> None, amount |-> Fn("linear", "a", "h")] >>,
    !.token = ("A" :> [Token EXCEPT !.emits = << [Rule("a") EXCEPT !.fn = Fn("linear", "a", "h")] >>,
                                    !.burns = << [Rule("b") EXCEPT !.fn.family = "distribution"] >>])
           @@ ("B" :> [Token EXCEPT !.burns = << Rule("h") >>,
                !.emits = << [Rule("e") EXCEPT !.regimes = << [predicate |-> Threshold("T", ">", 2), fn |-> Fn("constant", "b", None)] >>] >>])]

(* Far more is declared to be created than is used *)
Loose ==
  [Base EXCEPT !.span = ("e" :> R(0, 7)) @@ ("b" :> R(0, 1)) @@ ("Q" :> R(1, 2)) @@ Settled, !.skipped = {"FM2"}, !.agents = <<>>,
    !.token = ("A" :> [Token EXCEPT !.emits = << Rule("e") >>, !.burns = << Rule("b") >>])]

AllDesigns == {Conditional, Flowing, Held, Ending, Separate, Loose, Fading, Scheduling, Community, Network, Changing,
               Voting("delegated", "delegate_gini", R(59, 61)), Voting("capped", "cap_fraction", R(1, 3)),
               Voting("reputation", "reputation_gini", R(59, 61))}
=============================================================================
