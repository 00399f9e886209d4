-------------------------- MODULE MCDesignLanguage --------------------------
(* Documents for TLC: two tokens that share nothing, and two joined by a   *)
(* flow.                                                                   *)
EXTENDS FlowGraph

R(lo, hi) == [lo |-> lo, hi |-> hi]
Fn(family, a) == [family |-> family, a |-> a, b |-> None, degree |-> 1]
Rule(kind, label, freq) == [fn |-> Fn("constant", "e"), freq |-> freq, event |-> None, kind |-> kind, label |-> label,
                            when |-> {}, regimes |-> <<>>, schedule |-> NoSchedule]
Linked(id) == [Rule(None, None, None) EXCEPT !.event = id]
Token == [transferable |-> TRUE, functions |-> {"medium"}, anchor |-> "market", emits |-> <<>>, burns |-> <<>>,
          cap |-> None, variety |-> None, verification |-> "peer_verification", redemption |-> 1, incentives |-> {}]
Span == ("Q" :> R(1, 2)) @@ ("N" :> R(9, 9)) @@ ("d" :> R(1, 1)) @@ ("tau" :> R(20, 20)) @@ ("cap" :> R(2, 2))
        @@ ("e" :> R(1, 2)) @@ ("f" :> R(2, 3)) @@ ("big" :> R(3, 3)) @@ ("many" :> R(9, 9)) @@ ("zero" :> R(0, 0))
Base == [tokens |-> {"A"}, order |-> <<"A">>, token |-> ("A" :> Token), span |-> Span, event |-> <<>>, flows |-> <<>>,
         catalogue |-> <<>>, assets |-> {}, initial |-> ("A" :> None),
         agents |-> <<[share |-> 100, role |-> "contributor", hint |-> FALSE, tau |-> "tau", acts |-> {}]>>,
         topology |-> "well_mixed",
         govern |-> [unilateral |-> 1, decisions |-> 3, weighting |-> "linear", type |-> "dao", sanction |-> "exclusion"],
         nfr |-> [circulation |-> "neutral", resilience |-> 3, proportionality |-> 3, accessibility |-> 3, maturity |-> "medium_term"]]

One == [Base EXCEPT !.tokens = {"A", "B"}, !.order = <<"A", "B">>, !.initial = ("A" :> "big") @@ ("B" :> None),
          !.token = ("A" :> [Token EXCEPT !.emits = <<Rule("behavioral_event", "work", "f")>>])
                 @@ ("B" :> [Token EXCEPT !.burns = <<Rule("time_based", None, "f")>>])]
Two == [Base EXCEPT !.tokens = {"A", "B"}, !.order = <<"B", "A">>, !.initial = ("A" :> None) @@ ("B" :> None),
          !.flows = << [src |-> "A", dst |-> "B", act |-> "mint", ratio |-> "f", amount |-> Fn("constant", "e")] >>,
          !.catalogue = << [id |-> "sale", kind |-> "demand_driven", label |-> "sale", freq |-> "f", spread |-> FALSE, when |-> {}] >>,
          !.agents = << [Base.agents[1] EXCEPT !.hint = TRUE, !.role = None, !.share = 60], [Base.agents[1] EXCEPT !.role = None, !.share = 40, !.acts = {"earn", "transfer"}] >>,
          !.token = ("A" :> [Token EXCEPT !.emits = <<Rule("algorithmic", None, None)>>, !.burns = <<Linked("sale")>>])
                 @@ ("B" :> [Token EXCEPT !.burns = <<Rule("demand_driven", "spend", "f")>>])]
AllDocuments == {One, Two}

Rules == {Linked("sale"), [Rule("time_based", None, None) EXCEPT !.fn = [Fn("distribution", "f") EXCEPT !.b = "e"]],
          [Rule("demand_driven", "sold", None) EXCEPT !.when = {[sort |-> "threshold", var |-> "Q", op |-> ">", value |-> 1]}]}
Events == {[id |-> "sale", kind |-> "demand_driven", label |-> "sold", freq |-> f, spread |-> f # None, when |-> {}] : f \in {None, "many"}}
Assets == {[id |-> "shop", tokens |-> {"A"}, variety |-> 2], [id |-> "class", tokens |-> {"A", "B"}, variety |-> 1]}
Caps == {"cap"}
Ranges == "N" :> R(0, 3)
=============================================================================
