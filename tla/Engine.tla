------------------------------- MODULE Engine -------------------------------
(***************************************************************************)
(* The agent-based simulator: one run of the Monte Carlo engine, period by *)
(* period (verifier/abm/engine.py, actions.py, agents.py, events.py,       *)
(* exit.py, delegation.py, regimes.py, topology.py, state.py).             *)
(*                                                                         *)
(* A period is one call of _step_state.  Its stages are actions: the rates *)
(* are brought up to date, the population events fire, every agent chooses *)
(* an action, the agents act one after another, the rest of the burn pool  *)
(* is drawn, the flows between tokens follow, and agents may leave.        *)
(*                                                                         *)
(* Amounts are whole units (the code's are floats): a share is rounded     *)
(* down, and the tenth of a balance that is transferred is any part of it. *)
(* What is sampled is any member of its set.  What has no part in who      *)
(* holds what is left out: the aggregates (Gini, tau, phi), reputations,   *)
(* the events' counts, non-tokenized assets, growth.                       *)
(***************************************************************************)
EXTENDS Naturals, Sequences, FiniteSets, FiniteSetsExt

CONSTANTS
  Tokens, Primary,  \* the tokens; the first of them, which agents hold
  NoCap,            \* a token without an outstanding supply cap
  Caps,             \* per token: the caps a run may sample, or none
  Rates,            \* per token and side: the rates its fixed rules may have
  Noise,            \* per token and side: what its stochastic rules may add
  RegimeRates,      \* rates of the primary's emission rule in its two regimes
  RegimeAt,         \* the supply at which the second regime starts
  StateShare,       \* divisor of the burn rule that reads the supply
  Flows,            \* the cross-token flows, in order
  Types, ActionsOf, \* agent types, and the action set of each
  Declared,         \* types whose action set the author declared
  Leaving, Gain,    \* types that may leave; weight of a balance in their utility
  Delta,            \* weight of the social comparison
  Start,            \* the types of the first agents, in order
  StartBalance,     \* what each of them holds
  StartSupply,      \* per token: the initial supply
  Population,       \* the population events, in order
  Delegated, Seats, \* whether votes are delegated, and to how many
  StakeFor,         \* periods a stake lasts
  MaxId, Horizon    \* bounds: ids of agents, periods

Ids     == 0..MaxId
Actions == {"hold", "earn", "transfer", "redeem", "stake", "vote"}
Sides   == [E: Nat, B: Nat]
Zero    == [E |-> 0, B |-> 0]

ASSUME EngineAssumption ==
  /\ Primary \in Tokens /\ NoCap \notin Nat /\ MaxId \in Nat /\ Horizon \in Nat
  /\ Caps \in [Tokens -> SUBSET Nat]
  /\ Rates \in [Tokens -> [E: SUBSET Nat, B: SUBSET Nat]]
  /\ Noise \in [Tokens -> [E: SUBSET Nat, B: SUBSET Nat]]
  /\ RegimeRates \subseteq Nat /\ RegimeAt \in Nat /\ StateShare \in Nat \ {0}
  /\ Flows \in Seq([src: Tokens, tgt: Tokens, mint: BOOLEAN, amount: Nat])
  /\ ActionsOf \in [Types -> SUBSET Actions] /\ Types # {} /\ Declared \subseteq Types
  /\ Leaving \subseteq Types /\ Gain \in [Types -> Nat] /\ Delta \in Nat
  /\ Start \in Seq(Types) /\ Len(Start) - 1 \in Ids \cup {-1} /\ StartBalance \in Nat
  /\ StartSupply \in [Tokens -> Nat]
  /\ \A k \in Tokens : \A c \in Caps[k] : StartSupply[k] <= c
  /\ Population \in Seq([kind: {"spawn", "despawn"}, at: SUBSET Nat, when: SUBSET Nat,
                         type: Types, count: Nat, balance: Nat])
  /\ Delegated \in BOOLEAN /\ Seats \in Nat \ {0} /\ StakeFor \in Nat

VARIABLES
  period,   \* state["t"]
  stage,    \* what of the period comes next
  M,        \* supply of each token
  rate,     \* what was created and removed this period, per token
  cap,      \* the caps of this run
  fixed,    \* the rates of the rules that do not change in a run
  part,     \* what the regime's and the supply's rule contribute now
  base,     \* static_rates: what the rules plan for a period
  regime,   \* whether the second regime has started
  agents,   \* ids of the agents there are
  kind, balance, until, delegate,  \* of each id: type, balance, end of its stake, delegate
  fired,    \* conditional population events that have fired
  queue,    \* population events that still fire in this period
  choice,   \* what each agent does this period
  todo,     \* agents that have not acted
  pool,     \* what may be created and removed this period
  share,    \* what one earner, one redeemer gets of the pool
  flow,     \* number of the next flow
  opened,   \* supply of each token at the start of the period
  past,     \* ids given to an agent so far
  votes     \* votes_by_delegate: the delegates with votes

people == <<agents, kind, balance, until, delegate, past>>
plans  == <<cap, fixed, part, base, regime>>
vars   == <<period, stage, M, rate, plans, people, fired, queue, choice, todo, pool, share,
            flow, opened, votes>>

(* max(0, a - b), and min(a, b).                                           *)
Less(a, b)  == IF a > b THEN a - b ELSE 0
Least(a, b) == IF a < b THEN a ELSE b
Held(s, b) == MapThenSumSet(LAMBDA a : b[a], s)
Supply == MapThenSumSet(LAMBDA k : M[k], Tokens)

(* Mutant: the clip of one of the creation sites is forgotten.             *)
NoRoom(k, amount) == amount

(* mint_room: a share of what may be created, cut to what the cap leaves.  *)
Room(k, amount) == IF cap[k] = NoCap THEN amount ELSE Least(amount, Less(cap[k], M[k]))

(* resolve_action_set and with_spending_path (every design here has a burn *)
(* rule): when nobody could spend, those who earn may do so too, unless    *)
(* the author declared their actions.                                      *)
Spend == \E ty \in Types : "redeem" \in ActionsOf[ty]
ActionSet(ty) ==
  ActionsOf[ty] \cup (IF ~Spend /\ ty \notin Declared /\ "earn" \in ActionsOf[ty]
                      THEN {"redeem"} ELSE {})

(* assign_delegates: the wealthiest are delegates, the others choose one.  *)
Wealthiest(s, b) == {d \in SUBSET s : /\ Cardinality(d) = Least(Seats, Cardinality(s))
                                     /\ \A x \in d, y \in s \ d : b[x] >= b[y]}
Assignments(s, b) ==
  IF ~Delegated THEN {[a \in Ids |-> a]}
  ELSE UNION {{f \in [Ids -> Ids] : \A a \in Ids : IF a \in s \ d THEN f[a] \in d
                                                 ELSE f[a] = a} : d \in Wealthiest(s, b)}

FirstAgents == 0..(Len(Start) - 1)
SomeType == CHOOSE ty \in Types : TRUE

(* _build_initial_state and spawn_agents: what a run samples once.  A flow *)
(* adds its amount to the plan of its target.                              *)
FlowPlan(k, mint) ==
  LET amounts == [n \in 1..Len(Flows) |-> Flows[n].amount]
  IN  MapThenSumSet(LAMBDA n : amounts[n], {n \in 1..Len(Flows) : Flows[n].tgt = k /\ Flows[n].mint = mint})

(* The caps and rates of a run, and its first agents.                      *)
SampledCaps == {c \in [Tokens -> {NoCap} \cup UNION {Caps[k] : k \in Tokens}] :
                  \A k \in Tokens : IF Caps[k] = {} THEN c[k] = NoCap ELSE c[k] \in Caps[k]}
SampledRates ==
  \E e \in [Tokens -> UNION {Rates[k].E : k \in Tokens}], b \in [Tokens -> UNION {Rates[k].B : k \in Tokens}] :
    /\ \A k \in Tokens : e[k] \in Rates[k].E /\ b[k] \in Rates[k].B
    /\ fixed = [k \in Tokens |-> [E |-> e[k] + FlowPlan(k, TRUE), B |-> b[k] + FlowPlan(k, FALSE)]]
FirstPeople ==
  /\ agents = FirstAgents /\ past = FirstAgents
  /\ kind = [a \in Ids |-> IF a \in FirstAgents THEN Start[a + 1] ELSE SomeType]
  /\ balance = [a \in Ids |-> IF a \in FirstAgents THEN StartBalance ELSE 0]
  /\ until = [a \in Ids |-> 0] /\ delegate \in Assignments(FirstAgents, balance)

Init ==
  /\ period = 0 /\ stage = "ready" /\ M = StartSupply /\ opened = StartSupply
  /\ cap \in SampledCaps /\ SampledRates
  /\ \E r \in RegimeRates \cup {0} :
       part = [regime |-> r, state |-> StartSupply[Primary] \div StateShare]
  /\ base = [fixed EXCEPT ![Primary] = [E |-> @.E + part.regime, B |-> @.B + part.state]]
  /\ rate = base /\ regime = FALSE /\ FirstPeople
  /\ fired = {} /\ queue = << >> /\ choice = [a \in Ids |-> "hold"] /\ todo = {}
  /\ pool = [k \in Tokens |-> Zero] /\ share = Zero /\ flow = 1 /\ votes = {}

------------------------------------------------------------------------------
(* The start of a period: _step_state up to the population events.         *)

(* active_function_for_rule: the second regime starts when the supply      *)
(* crosses its threshold, and stays.                                       *)
RegimeStarts == ~regime /\ RegimeRates # {} /\ Supply >= RegimeAt

(* Mutant: the old contribution of a rule is left in the plan.             *)
PatchOver(old, new, sum) == sum + new

(* static_rates with a rule's old contribution replaced by its new one.    *)
Patch(old, new, sum) == Less(sum + new, old)

(* is_condition_active, for thresholds on the whole supply.                *)
Holds(ev) == ev.when # {} /\ \A w \in ev.when : Supply >= w

(* apply_population_events: what fires in period t, in order of declaration. *)
Scheduled(n, t) == t \in Population[n].at
Fires(t) == {n \in 1..Len(Population) :
               Scheduled(n, t) \/ (n \notin fired /\ Holds(Population[n]))}
Orders(s) == {q \in [1..Cardinality(s) -> s] :
                \A i, j \in 1..Cardinality(s) : i < j => q[i] < q[j]}

Begin ==
  /\ stage = "ready" /\ period < Horizon
  /\ period' = period + 1
  /\ regime' = (regime \/ RegimeStarts)
  /\ \E r \in IF RegimeStarts THEN RegimeRates ELSE {part.regime} :
       LET now == [regime |-> r, state |-> M[Primary] \div StateShare] IN
         /\ part' = now
         /\ base' = [base EXCEPT ![Primary] = [E |-> Patch(part.regime, now.regime, @.E),
                                              B |-> Patch(part.state, now.state, @.B)]]
  /\ queue' \in Orders(Fires(period + 1))
  /\ fired' = fired \cup {n \in Fires(period + 1) : ~Scheduled(n, period + 1)}
  /\ opened' = M /\ stage' = "people"
  /\ UNCHANGED <<M, rate, cap, fixed, people, choice, todo, pool, share, flow, votes>>

(* _spawn_event: the ids continue past the largest there is.               *)
Spawn(ev) ==
  LET next == IF agents = {} THEN 0 ELSE Max(agents) + 1
      new  == next..(next + ev.count - 1)
  IN  /\ new \subseteq Ids
      /\ agents' = agents \cup new /\ past' = past \cup new
      /\ kind' = [a \in Ids |-> IF a \in new THEN ev.type ELSE kind[a]]
      /\ balance' = [a \in Ids |-> IF a \in new THEN ev.balance ELSE balance[a]]
      /\ until' = [a \in Ids |-> IF a \in new THEN 0 ELSE until[a]]

(* _despawn_event: the agents of the type that hold least.  What they hold *)
(* goes with them.                                                         *)
Poorer(a, b) == balance[a] < balance[b] \/ (balance[a] = balance[b] /\ a < b)
Poorest(ev) ==
  LET theirs == {a \in agents : kind[a] = ev.type}
  IN  {a \in theirs : Cardinality({b \in theirs : Poorer(b, a)}) < ev.count}
Without(gone) ==
  /\ agents' = agents \ gone
  /\ balance' = [a \in Ids |-> IF a \in gone THEN 0 ELSE balance[a]]
  /\ UNCHANGED <<kind, until, past>>

Event ==
  /\ stage = "people" /\ queue # << >>
  /\ LET ev == Population[Head(queue)]
     IN  IF ev.kind = "spawn" THEN Spawn(ev) ELSE Without(Poorest(ev))
  /\ delegate' \in Assignments(agents', balance')
  /\ queue' = Tail(queue)
  /\ UNCHANGED <<period, stage, M, rate, plans, fired, choice, todo, pool, share, flow,
                 opened, votes>>

(* prepare_pools, pick_action_cached and compute_pool_shares.  An agent    *)
(* whose stake runs holds.                                                 *)
Locked(a) == until[a] > period

(* Mutant: a stake does not keep its owner from acting.                    *)
Unlocked(a) == ActionSet(kind[a])

MayChoose(a) == IF Locked(a) \/ ActionSet(kind[a]) = {} THEN {"hold"} ELSE ActionSet(kind[a])
Sampled == {n \in [Tokens -> [E: UNION {Noise[k].E : k \in Tokens}, B: UNION {Noise[k].B : k \in Tokens}]] :
              \A k \in Tokens : n[k].E \in Noise[k].E /\ n[k].B \in Noise[k].B}
Each(amount, s) == IF s = {} THEN 0 ELSE amount \div Cardinality(s)
Doing(act, c) == {a \in agents : c[a] = act}

Decide ==
  /\ stage = "people" /\ queue = << >> /\ agents # {}
  /\ \E n \in Sampled : pool' = [k \in Tokens |-> [E |-> base[k].E + n[k].E, B |-> base[k].B + n[k].B]]
  /\ \E c \in [agents -> Actions] :
       /\ \A a \in agents : c[a] \in MayChoose(a)
       /\ choice' = [a \in Ids |-> IF a \in agents THEN c[a] ELSE "hold"]
       /\ share' = [E |-> Each(pool'[Primary].E, Doing("earn", c)),
                    B |-> Each(pool'[Primary].B, Doing("redeem", c))]
  /\ rate' = [k \in Tokens |-> Zero] /\ todo' = agents /\ stage' = "act"
  /\ UNCHANGED <<period, M, plans, people, fired, queue, flow, opened, votes>>

(* No agents: the rules' rates apply as they are, the cap cuts creation.   *)
Clipped(k, e, b) == IF cap[k] = NoCap THEN e ELSE Least(e, Less(cap[k], M[k]) + b)
Aggregate ==
  /\ stage = "people" /\ queue = << >> /\ agents = {}
  /\ \E n \in Sampled :
       rate' = [k \in Tokens |-> [E |-> Clipped(k, base[k].E + n[k].E, base[k].B + n[k].B),
                                 B |-> base[k].B + n[k].B]]
  /\ M' = [k \in Tokens |-> Less(M[k] + rate'[k].E, rate'[k].B)]
  /\ stage' = "ready"
  /\ UNCHANGED <<period, plans, people, fired, queue, choice, todo, pool, share, flow, opened, votes>>

------------------------------------------------------------------------------
(* execute_action: the agents act in the order of the list.                *)

Turn(a, act) == /\ stage = "act" /\ a \in todo /\ \A b \in todo : a <= b
                /\ choice[a] = act /\ todo' = todo \ {a}
                /\ UNCHANGED <<period, stage, plans, agents, kind, delegate, past, fired, queue,
                               choice, pool, share, flow, opened>>

Created(a, amount) == /\ balance' = [balance EXCEPT ![a] = @ + amount]
                      /\ M' = [M EXCEPT ![Primary] = @ + amount]
                      /\ rate' = [rate EXCEPT ![Primary].E = @ + amount]
Removed(b, amount) == /\ balance' = b
                      /\ M' = [M EXCEPT ![Primary] = Less(@, amount)]
                      /\ rate' = [rate EXCEPT ![Primary].B = @ + amount]

Hold(a) == Turn(a, "hold") /\ UNCHANGED <<M, rate, balance, until, votes>>

Earn(a) ==
  /\ Turn(a, "earn")
  /\ Created(a, Room(Primary, share.E))
  /\ UNCHANGED <<until, votes>>

(* _pick_peer: a neighbour in the graph of the run.  In a random graph     *)
(* that may be any other agent, or none.                                   *)
Peers(a) == agents \ {a}

Transfer(a) ==
  /\ Turn(a, "transfer")
  /\ \/ /\ balance[a] > 0
        /\ \E b \in Peers(a), amount \in 1..balance[a] :
             balance' = [balance EXCEPT ![a] = @ - amount, ![b] = @ + amount]
     \/ UNCHANGED balance
  /\ UNCHANGED <<M, rate, until, votes>>

Redeem(a) ==
  /\ Turn(a, "redeem")
  /\ LET spent == Least(share.B, balance[a]) IN Removed([balance EXCEPT ![a] = @ - spent], spent)
  /\ UNCHANGED <<until, votes>>

Stake(a) ==
  /\ Turn(a, "stake")
  /\ until' = [until EXCEPT ![a] = period + StakeFor]
  /\ UNCHANGED <<M, rate, balance, votes>>

Vote(a) ==
  /\ Turn(a, "vote")
  /\ votes' = votes \cup {delegate[a]}
  /\ UNCHANGED <<M, rate, balance, until>>

(* redeem_remaining: what some could not pay of the burn pool, the others  *)
(* who redeem pay, by what they hold (any split of it).                    *)
Redeemers == Doing("redeem", choice)
Splits(paid, s) == {f \in [s -> 0..paid] : /\ \A a \in s : f[a] <= balance[a]
                                          /\ Held(s, f) = paid}

(* Mutant: what is left is not drawn.                                      *)
NothingLeft == 0

Left == Least(Less(pool[Primary].B, rate[Primary].B), Held(Redeemers, balance))

Rest ==
  /\ stage = "act" /\ todo = {}
  /\ \E paid \in 0..Less(pool[Primary].B, rate[Primary].B) :
       /\ paid = Left
       /\ \E f \in Splits(paid, Redeemers) :
            Removed([a \in Ids |-> IF a \in Redeemers THEN balance[a] - f[a] ELSE balance[a]], paid)
  /\ flow' = 1 /\ stage' = "flows"
  /\ UNCHANGED <<period, plans, agents, kind, until, delegate, past, fired, queue, choice, todo,
                 pool, share, opened, votes>>

(* The flows between tokens: what is burned of the source this period      *)
(* creates, or removes, so many times as much of the target.               *)
Flow ==
  /\ stage = "flows" /\ flow <= Len(Flows)
  /\ LET f      == Flows[flow]
         amount == rate[f.src].B * f.amount
         more   == Room(f.tgt, amount)
         gone   == Least(amount, M[f.tgt])
     IN  IF f.mint
         THEN /\ M' = [M EXCEPT ![f.tgt] = @ + more]
              /\ rate' = [rate EXCEPT ![f.tgt].E = @ + more]
         ELSE /\ M' = [M EXCEPT ![f.tgt] = Less(@, gone)]
              /\ rate' = [rate EXCEPT ![f.tgt].B = @ + gone]
  /\ flow' = flow + 1
  /\ UNCHANGED <<period, stage, plans, people, fired, queue, choice, todo, pool, share, opened, votes>>

(* apply_exit_decisions: an agent may leave when the shortfall from the    *)
(* mean utility, with its weight, exceeds its own utility (the probability *)
(* is positive); its holdings leave with it.  The delegates stay as they   *)
(* were assigned.                                                          *)
Utility(a) == Gain[kind[a]] * balance[a]
Total == MapThenSumSet(Utility, agents)
Size  == Cardinality(agents)

MayLeave(a) == kind[a] \in Leaving /\ Delta * Less(Total, Size * Utility(a)) > Size * Utility(a)

Close ==
  /\ stage = "flows" /\ flow > Len(Flows)
  /\ \E gone \in SUBSET {a \in agents : MayLeave(a)} : Without(gone)
  /\ stage' = "ready"
  /\ UNCHANGED <<period, M, rate, plans, delegate, fired, queue, choice, todo, pool, share, flow,
                 opened, votes>>

Next ==
  \/ Begin \/ Event \/ Decide \/ Aggregate \/ Rest \/ Flow \/ Close
  \/ \E a \in Ids : Hold(a) \/ Earn(a) \/ Transfer(a) \/ Redeem(a) \/ Stake(a) \/ Vote(a)

Spec == Init /\ [][Next]_vars

------------------------------------------------------------------------------
(* Properties.                                                             *)

(* Types of the variables.                                                 *)
TypeOK ==
  /\ period \in Nat /\ stage \in {"ready", "people", "act", "flows"}
  /\ M \in [Tokens -> Nat] /\ rate \in [Tokens -> Sides] /\ cap \in [Tokens -> Nat \cup {NoCap}]
  /\ fixed \in [Tokens -> Sides] /\ base \in [Tokens -> Sides]
  /\ part \in [regime: Nat, state: Nat] /\ regime \in BOOLEAN
  /\ agents \subseteq Ids /\ past \subseteq Ids /\ kind \in [Ids -> Types]
  /\ balance \in [Ids -> Nat] /\ until \in [Ids -> Nat] /\ delegate \in [Ids -> Ids]
  /\ fired \subseteq 1..Len(Population) /\ queue \in Seq(1..Len(Population))
  /\ choice \in [Ids -> Actions] /\ todo \subseteq agents
  /\ pool \in [Tokens -> Sides] /\ share \in Sides /\ flow \in Nat \ {0}
  /\ opened \in [Tokens -> Nat] /\ votes \subseteq Ids

(* The supply of a capped token never exceeds the cap sampled for the run, *)
(* whatever creates it, and in whatever order: the rules, each earner in   *)
(* turn, a flow (mint_room: "M(t) <= C holds in every run").               *)
CapHolds == \A k \in Tokens : cap[k] # NoCap => M[k] <= cap[k]

(* Where the books can balance: nobody comes with tokens that were not     *)
(* issued, neither at the start nor with an event, and no flow removes     *)
(* supply of the primary token, which it would take from no balance.       *)
NothingUnissued ==
  /\ Len(Start) * StartBalance <= StartSupply[Primary]
  /\ \A n \in 1..Len(Population) : Population[n].kind = "spawn" => Population[n].balance = 0
  /\ \A n \in 1..Len(Flows) : Flows[n].tgt = Primary => Flows[n].mint

(* The books balance.  The cap holds.  What the agents hold was issued:    *)
(* their balances never add up to more than the supply of the primary      *)
(* token, after any order of earning, spending, transfers, leaving and     *)
(* arriving without a balance.  And the rates a period reports explain its *)
(* change of supply, for every token (the failure modes read the rates,    *)
(* the charts the supply).  What the design must have is NothingUnissued.  *)
HeldIsIssued == Held(agents, balance) <= M[Primary]
SupplyExplained ==
  (stage = "flows" /\ flow > Len(Flows)) =>
    \A k \in Tokens : M[k] + rate[k].B = opened[k] + rate[k].E
BooksBalance == TypeOK /\ CapHolds /\ HeldIsIssued /\ SupplyExplained

(* The agents realize at most what the rules plan; and when they have      *)
(* acted, the whole burn pool is drawn unless those who redeem have spent  *)
(* everything (redeem_remaining).                                          *)
PlanRealised ==
  /\ stage = "act" => /\ rate[Primary].E <= pool[Primary].E
                      /\ rate[Primary].B <= pool[Primary].B
  /\ (stage = "flows" /\ flow = 1) =>
       \/ rate[Primary].B = pool[Primary].B
       \/ \A a \in Redeemers : balance[a] = 0

(* However often rates are replaced in a run, when a regime starts and     *)
(* whenever the supply changes, the plan is the sum of what its rules      *)
(* contribute now.                                                         *)
BaselineIsTheRules ==
  \A k \in Tokens :
    IF k = Primary THEN base[k] = [E |-> fixed[k].E + part.regime, B |-> fixed[k].B + part.state]
    ELSE base[k] = fixed[k]

(* What an agent has staked stays until the stake ends, unless the agent   *)
(* itself goes: neither an action nor the rest of the burn pool touches it *)
(* (execute_action: "don't transfer/redeem until unlock").                 *)
StakedStays ==
  [][\A a \in agents : (Locked(a) /\ stage # "people" /\ a \in agents') => balance'[a] >= balance[a]]_vars

(* The ids of agents stay unique: no agent gets the id of one that was     *)
(* there before it (_spawn_event: "so analytics and the explore-page node  *)
(* ids stay unique").                                                      *)
IdsStayUnique == [][past \cap (agents' \ agents) = {}]_vars

(* Where nobody is left to act, nothing is created: the pool goes unspent  *)
(* (compute_pool_shares: "If no agent picked the action, the pool goes     *)
(* unspent").                                                              *)
PoolGoesUnspent == [][(agents = {} /\ Start # << >>) => \A k \in Tokens : M'[k] <= M[k]]_vars

(* The votes shown are those of this period's voters (explore.py: "Vote    *)
(* weight aggregated by delegate this period").                            *)
VotesAreCurrent ==
  stage = "flows" => votes \subseteq {delegate[a] : a \in Doing("vote", choice)}

(* A vote is cast by a delegate who is there (delegation.py).              *)
DelegatesPresent == \A a \in agents : delegate[a] \in agents
==============================================================================
