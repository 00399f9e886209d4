---------------------------- MODULE MCInterview -----------------------------
(* A small community for TLC: two tokens, two or three values a slot. *)
EXTENDS Interview

R(lo, hi) == [lo |-> lo, hi |-> hi]
Constant(a) == [family |-> "constant", a |-> a, b |-> None, degree |-> 1]
Earned == [fn |-> Constant("e"), freq |-> None, event |-> None, kind |-> "behavioral_event",
           when |-> {}, regimes |-> <<>>, schedule |-> NoSchedule]
Credit == [transferable |-> TRUE, functions |-> {"medium"}, anchor |-> "market", emits |-> <<Earned>>, burns |-> <<>>,
           cap |-> None, variety |-> None, verification |-> "peer_verification", redemption |-> 1, incentives |-> {}]
Community == [tokens |-> {}, token |-> Credit, span |-> ("e" :> R(1, 1)), event |-> <<>>, flows |-> <<>>,
              agents |-> <<[share |-> 100, role |-> "contributor", hint |-> FALSE, tau |-> "tau"]>>, topology |-> "well_mixed",
              govern |-> [unilateral |-> 0, decisions |-> 0, weighting |-> "linear", type |-> "dao", sanction |-> "exclusion"],
              nfr |-> [circulation |-> "neutral", resilience |-> 3, proportionality |-> 3, accessibility |-> 3, maturity |-> "medium_term"]]

TwoTokens == <<"HOUR", "MEAL">>
Names(n) == List([i \in 1..n |-> Word(TwoTokens[i])])
Given == [ids |-> {Names(1), Names(2), Word("HOUR")}, rules |-> {Decisions(1, 3), Decisions(2, 3)},
          gini |-> {Span(20, 30)}, N |-> {Span(6, 9), Number(5000)}, d |-> {Number(1)},
          topology |-> {Word("network")},
          governance |-> {Word("centralized")}, maturity |-> {Word("indefinite")}, proportionality |-> {Number(5)}, degree |-> {Span(8, 12)}, K |-> {Span(2, 4)}]
Mistakes == {Span(9, 2), Number(0), Flag(TRUE), Word("elsewhere")}
Estimates == [ids |-> Null, rules |-> Null, N |-> Null, d |-> Null, governance |-> Null, maturity |-> Null, proportionality |-> Null, gini |-> Span(20, 30), topology |-> Word("network"),
              degree |-> Span(8, 12), K |-> Span(2, 4)]
Least == [slot \in DOMAIN Given |-> IF slot \in {"N", "d", "K", "degree"} THEN Number(1) ELSE Null]
=============================================================================
