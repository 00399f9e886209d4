------------------------------ MODULE MCEngine ------------------------------
(* Instances of Engine for TLC: a primary token that burns into a second   *)
(* one; one type that works, one that spends.                              *)
EXTENDS Explore

CONSTANTS gold, silver, work, spend

MCTokens == {gold, silver}
MCCaps == [k \in MCTokens |-> IF k = gold THEN {4} ELSE {1}]
MCRates == [k \in MCTokens |-> IF k = gold THEN [E |-> {1}, B |-> {1}] ELSE [E |-> {0}, B |-> {0}]]
MCNoise == [k \in MCTokens |-> IF k = gold THEN [E |-> {0}, B |-> {0, 2}] ELSE [E |-> {0}, B |-> {0}]]
MCFlows == << [src |-> gold, tgt |-> silver, mint |-> TRUE, amount |-> 1],
              [src |-> gold, tgt |-> silver, mint |-> FALSE, amount |-> 1],
              [src |-> silver, tgt |-> gold, mint |-> TRUE, amount |-> 1] >>
MCTypes == {work, spend}
MCActionsOf == [ty \in MCTypes |-> IF ty = work THEN {"earn", "stake", "transfer"} ELSE {"redeem", "vote"}]
MCGain == [ty \in MCTypes |-> 1]
MCStart == <<work, spend, work>>
MCStartSupply == [k \in MCTokens |-> IF k = gold THEN 3 ELSE 0]
MCPopulation ==
  << [kind |-> "spawn", at |-> {}, when |-> {4}, type |-> spend, count |-> 1, balance |-> 0],
     [kind |-> "despawn", at |-> {2, 3}, when |-> {}, type |-> work, count |-> 1, balance |-> 0],
     [kind |-> "despawn", at |-> {4}, when |-> {}, type |-> spend, count |-> 2, balance |-> 0] >>

(* For the counterexamples: an agent arrives when another may have left,   *)
(* with a balance or without; everyone leaves; a flow burns the primary.   *)
MCArrival == << [kind |-> "spawn", at |-> {2}, when |-> {}, type |-> work, count |-> 1, balance |-> 0] >>
MCEndowed == << [kind |-> "spawn", at |-> {1}, when |-> {}, type |-> work, count |-> 1, balance |-> 1] >>
MCPrimaryBurned == [MCFlows EXCEPT ![3].mint = FALSE]
MCEveryoneLeaves ==
  << [kind |-> "despawn", at |-> {1}, when |-> {}, type |-> work, count |-> 2, balance |-> 0],
     [kind |-> "despawn", at |-> {1}, when |-> {}, type |-> spend, count |-> 2, balance |-> 0] >>

(* What is watched of a run *)
Watch(variable, token, op, threshold, group) ==
  [variable |-> variable, token |-> token, op |-> op, threshold |-> threshold, group |-> group]
MCWatched ==
  [FM1 |-> [status |-> "sound", clauses |-> {Watch("net", gold, "<=", 1, 1)}],
   FM3 |-> [status |-> "fragile", clauses |-> {Watch("rho", gold, ">=", 80, 1)}],
   FM5 |-> [status |-> "sound", clauses |-> {Watch("M", gold, "<=", 3, 1), Watch("M", silver, "<=", 0, 1), Watch("rho", silver, ">=", 100, 2)}]]
=============================================================================
