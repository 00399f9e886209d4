----------------------------- MODULE Expressions -----------------------------
(***************************************************************************)
(* The expressions a rule's rate may be written in: the parser             *)
(* (schema/expr_parser.py), the trees it makes (schema/expr.py), what they *)
(* evaluate to in a simulation and what the checks' solver makes of them   *)
(* (verifier/expr_eval.py, asymptotic.py).                                 *)
(*                                                                         *)
(* A text is a sequence of tokens.  A number is a fraction [n, d]; with    *)
(* d = 0 it is what division by zero (n = 0) or the logarithm of zero      *)
(* (n = -1) gives.  A quoted name in brackets is written without quotes.   *)
(* The values of log and exp are stand-ins: no property compares them with *)
(* a number, and both evaluators call the same library.                    *)
(***************************************************************************)
EXTENDS Integers, Sequences, FiniteSets, SequencesExt, TLC

CONSTANTS Texts,     \* the texts an author starts from
          Words,     \* the tokens an author may type
          NumberOf,  \* the numbers the numerals stand for
          MaxEdits,  \* bound: tokens inserted, replaced or removed
          Params, Payload,  \* ranges of the rule's parameters and of its event's fields
          Tokens, Agents,   \* the design's tokens; a population to evaluate over
          Horizon,   \* the periods the checks look at (52)
          RunLength  \* the periods a simulation runs (260 by default)

VARIABLES text, rule, edits
vars == <<text, rule, edits>>

None == "none"

(***************************************************************************)
(* Trees.  kind is "const", "param", "var", "op" or "agg".                 *)
(***************************************************************************)
Operators == {"+", "-", "*", "/", "^", ">", ">=", "<", "<=", "==", "!=", "&&", "||"}
Arity == ("if" :> 3) @@ ("min" :> 2) @@ ("max" :> 2) @@ ("abs" :> 1) @@ ("clamp" :> 3) @@ ("log" :> 1) @@ ("exp" :> 1)
Calls == DOMAIN Arity
Aggregators == {"sum_over", "mean_over", "count_of", "fraction_of"}
Collections == {"agents", "agents_of_type", "tokens", "events", "assets"}
Namespaces == {"state", "event", "agent", "asset", "param", "const"}
Symbols == Operators \cup {"(", ")", ",", ".", "[", "]", "EOF"}
Numeral(w) == w \in DOMAIN NumberOf
Name(w) == w \notin Symbols /\ ~Numeral(w)

Whole(n) == [n |-> n, d |-> 1]
Const(v) == [kind |-> "const", value |-> v]
Param(name) == [kind |-> "param", name |-> name]
Var(ns, path) == [kind |-> "var", ns |-> ns, path |-> path]
Op(op, args) == [kind |-> "op", op |-> op, args |-> args]
Agg(agg, collection, filter, body) ==
  [kind |-> "agg", agg |-> agg, collection |-> collection, filter |-> filter, body |-> body]

(***************************************************************************)
(* The parser: each level gives the tree and the place after it, or fails. *)
(***************************************************************************)
Fail == [ok |-> FALSE, tree |-> Const(Whole(0)), at |-> 0]
Ok(tree, at) == [ok |-> TRUE, tree |-> tree, at |-> at]
Levels == << {"||"}, {"&&"}, {">", ">=", "<", "<=", "==", "!="}, {"+", "-"}, {"*", "/"} >>
Compares == 3

RECURSIVE Level(_, _, _), Chain(_, _, _), Unary(_, _), Power(_, _), Atom(_, _), PathFrom(_, _, _, _), Arguments(_, _, _)
(* Mutant: operators associate to the right *)
MutChain(s, left, l) ==
  IF ~left.ok \/ s[left.at] \notin Levels[l] THEN left
  ELSE LET right == Level(s, left.at + 1, l)
       IN IF right.ok THEN Ok(Op(s[left.at], <<left.tree, right.tree>>), right.at) ELSE Fail
Chain(s, left, l) ==
  IF ~left.ok \/ s[left.at] \notin Levels[l] THEN left
  ELSE LET right == Level(s, left.at + 1, l + 1)
           both  == Ok(Op(s[left.at], <<left.tree, right.tree>>), right.at)
       IN IF ~right.ok THEN Fail ELSE IF l = Compares THEN both ELSE Chain(s, both, l)
Level(s, i, l) == IF l > Len(Levels) THEN Unary(s, i) ELSE Chain(s, Level(s, i, l + 1), l)
Expression(s, i) == Level(s, i, 1)

Unary(s, i) ==
  IF s[i] # "-" THEN Power(s, i)
  ELSE LET sub == Unary(s, i + 1) IN IF sub.ok THEN Ok(Op("-", <<Const(Whole(0)), sub.tree>>), sub.at) ELSE Fail
Power(s, i) ==
  LET base == Atom(s, i)
  IN IF ~base.ok \/ s[base.at] # "^" THEN base
     ELSE LET k == s[base.at + 1]
          IN IF Numeral(k) /\ NumberOf[k].d = 1 THEN Ok(Op("^", <<base.tree, Const(NumberOf[k])>>), base.at + 2) ELSE Fail

(* .name and [key], as often as they come *)
PathFrom(s, i, ns, path) ==
  CASE s[i] = "." -> IF Name(s[i + 1]) THEN PathFrom(s, i + 2, ns, Append(path, s[i + 1])) ELSE Fail
    [] s[i] = "[" -> IF s[i + 1] \notin Symbols /\ s[i + 2] = "]" THEN PathFrom(s, i + 3, ns, Append(path, s[i + 1])) ELSE Fail
    [] OTHER -> IF path = <<>> THEN Fail
                ELSE IF ns = "param" /\ Len(path) = 1 THEN Ok(Param(path[1]), i) ELSE Ok(Var(ns, path), i)

(* The arguments of a call, after those found so far *)
Arguments(s, i, found) ==
  LET arg == Expression(s, i)
      all == Append(found, arg.tree)
  IN IF ~arg.ok THEN [ok |-> FALSE, args |-> <<>>, at |-> 0]
     ELSE IF s[arg.at] = "," THEN Arguments(s, arg.at + 1, all) ELSE [ok |-> TRUE, args |-> all, at |-> arg.at]
Call(s, i) ==
  LET found == IF s[i + 2] = ")" THEN [ok |-> TRUE, args |-> <<>>, at |-> i + 2] ELSE Arguments(s, i + 2, <<>>)
  IN IF found.ok /\ s[found.at] = ")" /\ Len(found.args) = Arity[s[i]] THEN Ok(Op(s[i], found.args), found.at + 1) ELSE Fail
Aggregate(s, i) ==
  LET filtered == s[i + 3] = "[" /\ Name(s[i + 4]) /\ s[i + 5] = "]"
      comma == IF filtered THEN i + 6 ELSE i + 3
  IN IF s[i + 2] \notin Collections \/ s[comma] # "," THEN Fail
     ELSE LET body == Expression(s, comma + 1)
          IN IF body.ok /\ s[body.at] = ")"
             THEN Ok(Agg(s[i], s[i + 2], IF filtered THEN s[i + 4] ELSE None, body.tree), body.at + 1) ELSE Fail
Atom(s, i) ==
  CASE Numeral(s[i]) -> Ok(Const(NumberOf[s[i]]), i + 1)
    [] s[i] = "(" -> LET inner == Expression(s, i + 1)
                     IN IF inner.ok /\ s[inner.at] = ")" THEN [inner EXCEPT !.at = @ + 1] ELSE Fail
    [] s[i] \in Aggregators /\ s[i + 1] = "(" -> Aggregate(s, i)
    [] s[i] \in Calls /\ s[i + 1] = "(" -> Call(s, i)
    [] s[i] \in Namespaces -> PathFrom(s, i + 1, s[i], <<>>)
    [] OTHER -> Fail

(* Past the end there is nothing but the end *)
Ended(s) == s \o [i \in 1 .. 7 |-> "EOF"]
Parse(s) == LET r == Expression(Ended(s), 1) IN IF r.ok /\ r.at = Len(s) + 1 THEN r ELSE Fail

(***************************************************************************)
(* Numbers                                                                 *)
(***************************************************************************)
NaN == [n |-> 0, d |-> 0]
Over(n, d) == IF d < 0 THEN [n |-> -n, d |-> -d] ELSE [n |-> n, d |-> d]
Add(a, b) == [n |-> a.n * b.d + b.n * a.d, d |-> a.d * b.d]
Negated(a) == [a EXCEPT !.n = -@]
Mul(a, b) == [n |-> a.n * b.n, d |-> a.d * b.d]
Zero(a) == a.n = 0 /\ a.d # 0
Div(a, b) == IF Zero(b) THEN NaN ELSE Over(a.n * b.d, a.d * b.n)
Less(a, b) == IF a.d = 0 /\ b.d = 0 THEN a.n < b.n /\ a.n # 0 /\ b.n # 0 ELSE a.n * b.d < b.n * a.d
Same(a, b) == a # NaN /\ b # NaN /\ ~Less(a, b) /\ ~Less(b, a)
Pow(a, k) == FoldLeft(Mul, Whole(1), [i \in 1 .. k |-> a])
Truth(b) == IF b THEN Whole(1) ELSE Whole(0)
Total(values) == FoldLeft(Add, Whole(0), values)

Compare(op, a, b) ==
  CASE op = ">" -> Less(b, a) [] op = ">=" -> Less(b, a) \/ Same(a, b) [] op = "<" -> Less(a, b)
    [] op = "<=" -> Less(a, b) \/ Same(a, b) [] op = "==" -> Same(a, b) [] op = "!=" -> ~Same(a, b)
    [] op = "&&" -> ~Zero(a) /\ ~Zero(b) [] op = "||" -> ~Zero(a) \/ ~Zero(b)
Arithmetic(op, x) ==
  CASE op = "+" -> Add(x[1], x[2]) [] op = "-" -> Add(x[1], Negated(x[2])) [] op = "*" -> Mul(x[1], x[2])
    [] op = "/" -> Div(x[1], x[2]) [] op = "^" -> Pow(x[1], x[2].n)
    [] OTHER -> Truth(Compare(op, x[1], x[2]))

(***************************************************************************)
(* A simulation's value of a tree                                          *)
(***************************************************************************)
Error == [n |-> 0, d |-> -1]
Lookup(f, key) == IF key \in DOMAIN f THEN f[key] ELSE Error

(* Mutant: the lower end of clamp does not hold *)
MutClamp(x, lo, hi) == IF Less(x, hi) THEN x ELSE hi
Clamp(x, lo, hi) == LET inner == IF Less(x, hi) THEN x ELSE hi IN IF Less(lo, inner) THEN inner ELSE lo
Library(op, x) ==
  CASE op = "min" -> IF Less(x[2], x[1]) THEN x[2] ELSE x[1]
    [] op = "max" -> IF Less(x[1], x[2]) THEN x[2] ELSE x[1]
    [] op = "abs" -> IF Less(x[1], Whole(0)) THEN Negated(x[1]) ELSE x[1]
    [] op = "clamp" -> Clamp(x[1], x[2], x[3])
    [] op = "log" -> IF Less(Whole(0), x[1]) THEN Add(x[1], Whole(-1)) ELSE [n |-> -1, d |-> 0]
    [] op = "exp" -> Add(x[1], Whole(1))

Resolve(ns, path, env) ==
  CASE ns = "state" -> Lookup(env.state, path)
    [] ns = "asset" -> Lookup(env.state, <<"assets">> \o path)
    [] ns = "param" -> Lookup(env.params, path[1])
    [] OTHER -> IF Len(path) # 1 THEN Error
                ELSE Lookup(CASE ns = "event" -> env.event [] ns = "agent" -> env.agent [] ns = "const" -> env.consts, path[1])

(* An agent is [type, has]: the name of its type, and its numbers *)
Items(e, env) ==
  CASE e.collection = "agents" \/ (e.collection = "agents_of_type" /\ e.filter = None) -> env.agents
    [] e.collection = "agents_of_type" /\ e.filter # None -> SelectSeq(env.agents, LAMBDA a : a.type = e.filter)
    [] OTHER -> IF e.collection = "tokens" THEN env.tokens ELSE <<>>
Bound(e, env, item) == IF e.collection \in {"agents", "agents_of_type"} THEN [env EXCEPT !.agent = item.has] ELSE env
Aggregated(agg, values) ==
  LET n == Whole(Len(values))
      met == Total([i \in DOMAIN values |-> Truth(~Zero(values[i]))])
  IN CASE agg = "sum_over" -> Total(values) [] agg = "mean_over" -> Div(Total(values), n)
       [] agg = "count_of" -> met [] agg = "fraction_of" -> Div(met, n)

RECURSIVE Evaluate(_, _)
Evaluate(e, env) ==
  CASE e.kind = "const" -> e.value
    [] e.kind = "param" -> Lookup(env.params, e.name)
    [] e.kind = "var" -> Resolve(e.ns, e.path, env)
    [] e.kind = "agg" ->
         LET items  == Items(e, env)
             values == [i \in DOMAIN items |-> Evaluate(e.body, Bound(e, env, items[i]))]
         IN IF items = <<>> THEN Whole(0) ELSE IF Error \in Range(values) THEN Error ELSE Aggregated(e.agg, values)
    [] OTHER ->
         IF e.op = "if"
         THEN LET p == Evaluate(e.args[1], env)
              IN IF p = Error THEN Error ELSE Evaluate(e.args[IF Zero(p) THEN 3 ELSE 2], env)
         ELSE LET x == [i \in DOMAIN e.args |-> Evaluate(e.args[i], env)]
              IN IF Error \in Range(x) THEN Error ELSE IF e.op \in Calls THEN Library(e.op, x) ELSE Arithmetic(e.op, x)

(***************************************************************************)
(* The checks' reading of a tree: a term over the solver's variables.      *)
(* Given their values it is a number, anything at all (a quotient by       *)
(* zero), or there is no term.                                             *)
(***************************************************************************)
Anything == NaN
(* Names are joined and looked up whole: state and asset share a table *)
ResolveFormal(ns, path, env) ==
  IF ns \in {"state", "asset"} THEN Lookup(env.state, path) ELSE IF ns = "const" THEN Lookup(env.consts, path[1]) ELSE Resolve(ns, path, env)

FormalLibrary(op, x) ==
  CASE op = "min" -> IF Less(x[2], x[1]) THEN x[2] ELSE x[1]
    [] op = "max" -> IF Less(x[1], x[2]) THEN x[2] ELSE x[1]
    [] op = "abs" -> IF Less(x[1], Whole(0)) THEN Negated(x[1]) ELSE x[1]
    [] op = "clamp" -> IF Less(x[1], x[2]) THEN x[2] ELSE IF Less(x[3], x[1]) THEN x[3] ELSE x[1]
    [] OTHER -> Library(op, x)

RECURSIVE Formal(_, _)
Formal(e, env) ==
  CASE e.kind = "const" -> e.value
    [] e.kind = "param" -> Lookup(env.params, e.name)
    [] e.kind = "var" -> ResolveFormal(e.ns, e.path, env)
    [] e.kind = "agg" ->
         LET items  == Items(e, env)
             values == [i \in DOMAIN items |-> Formal(e.body, Bound(e, env, items[i]))]
         IN IF items = <<>> THEN Whole(0) ELSE IF Error \in Range(values) THEN Error
            ELSE IF Anything \in Range(values) THEN Anything ELSE Aggregated(e.agg, values)
    [] OTHER ->
         LET x == [i \in DOMAIN e.args |-> Formal(e.args[i], env)]
         IN IF Error \in Range(x) \/ (e.op \in {"log", "exp"} /\ e.args[1].kind # "const") THEN Error
            ELSE IF e.op = "if" /\ x[1] # Anything THEN x[IF Zero(x[1]) THEN 3 ELSE 2]
            ELSE IF Anything \in Range(x) THEN Anything
            ELSE IF e.op \in Calls THEN FormalLibrary(e.op, x) ELSE Arithmetic(e.op, x)

RECURSIVE Parts(_)
Parts(e) == {e} \cup CASE e.kind = "agg" -> Parts(e.body)
                      [] e.kind = "op" -> UNION {Parts(e.args[i]) : i \in DOMAIN e.args}
                      [] OTHER -> {}
Undecided(e) ==
  /\ e.kind = "op"
  /\ \/ e.op \in {"log", "exp"} /\ e.args[1].kind # "const"
     \/ e.op = "/" /\ e.args[2].kind \notin {"const", "param"}
Decidable(e) == \A part \in Parts(e) : ~Undecided(part)
ReadsState(e) == \E part \in Parts(e) : part.kind = "var" /\ part.ns \in {"state", "asset"}

(***************************************************************************)
(* The rates of a rule: those a simulation runs with, and those the checks *)
(* reason over.  A simulation draws parameters and payload once and has no *)
(* agents at hand.  A rule that reads the state is evaluated in every      *)
(* period of the run, and there a negative rate is taken for none; one     *)
(* that does not is evaluated once and added as it is.                     *)
(***************************************************************************)
RECURSIVE Draws(_, _)
Draws(names, ranges) ==
  IF names = {} THEN {<<>>}
  ELSE LET n == CHOOSE n \in names : TRUE
       IN {(n :> Whole(v)) @@ rest : v \in ranges[n].lo .. ranges[n].hi, rest \in Draws(names \ {n}, ranges)}

Environment(p, event, state, consts, tokens, agents) ==
  [params |-> p, event |-> event, state |-> state, consts |-> consts, tokens |-> tokens, agents |-> agents, agent |-> <<>>]
Periods(e) == IF ReadsState(e) THEN 0 .. RunLength ELSE {0}
Supplies == [t \in {<<"M", t>> : t \in Tokens} |-> Whole(1)]
Simulations(e) ==
  {Environment(p, f, (<<"t">> :> Whole(t)) @@ Supplies, <<>>, SetToSeq(Tokens), <<>>) :
     p \in Draws(DOMAIN Params, Params), f \in Draws(DOMAIN Payload, Payload), t \in Periods(e)}
Simulated(e) == {Evaluate(e, env) : env \in Simulations(e)}
Run(e, v) == IF ReadsState(e) /\ ~Less(Whole(0), v) THEN Whole(0) ELSE v

(* Mutant: the horizon is taken for the last period before it *)
MutAssignments ==
  {Environment(p, f, <<"t">> :> Whole(t), "horizon" :> Whole(Horizon), <<>>, <<>>) :
     p \in Draws(DOMAIN Params, Params), f \in Draws(DOMAIN Payload, Payload), t \in 0 .. Horizon - 1}
Assignments ==
  {Environment(p, f, <<"t">> :> Whole(t), "horizon" :> Whole(Horizon), <<>>, <<>>) :
     p \in Draws(DOMAIN Params, Params), f \in Draws(DOMAIN Payload, Payload), t \in 0 .. Horizon}
(* The terms of a rule; a rate is free where there is none *)
Terms(e) == IF Decidable(e) THEN {Formal(e, env) : env \in Assignments} ELSE {Error}
Checked(terms, v) == IF Error \in terms THEN ~Less(v, Whole(0)) ELSE Anything \in terms \/ \E w \in terms : Same(v, w)

(***************************************************************************)
(* The author                                                              *)
(***************************************************************************)
Edit(new) == edits < MaxEdits /\ edits' = edits + 1 /\ text' = new /\ UNCHANGED rule
Insert(i, w)  == Edit(InsertAt(text, i, w))
Replace(i, w) == text[i] # w /\ Edit([text EXCEPT ![i] = w])
Erase(i)      == Edit(RemoveAt(text, i))
Save == Parse(text).ok /\ rule' = Parse(text).tree /\ UNCHANGED <<text, edits>>

Init == text \in Texts /\ rule = Parse(text).tree /\ edits = 0
Next == \/ \E i \in 1 .. Len(text) + 1, w \in Words : Insert(i, w)
        \/ \E i \in DOMAIN text : Erase(i) \/ \E w \in Words : Replace(i, w)
        \/ Save
Spec == Init /\ [][Next]_vars

(***************************************************************************)
(* Properties                                                              *)
(***************************************************************************)
(* A tree in writing, with the brackets precedence requires and no others *)
LevelOf(e) ==
  IF e.kind = "op" /\ e.op \in Operators
  THEN IF e.op = "^" THEN 7 ELSE CHOOSE l \in DOMAIN Levels : e.op \in Levels[l]
  ELSE 8
Numerals(v) == CHOOSE w \in DOMAIN NumberOf : NumberOf[w] = v
RECURSIVE Written(_, _)
Written(e, level) ==
  LET body == CASE e.kind = "const" -> << Numerals(e.value) >>
                [] e.kind = "param" -> << "param", ".", e.name >>
                [] e.kind = "var" -> <<e.ns>> \o FlattenSeq([i \in DOMAIN e.path |-> << "[", e.path[i], "]" >>])
                [] e.kind = "agg" -> << e.agg, "(", e.collection >> \o (IF e.filter = None THEN <<>> ELSE << "[", e.filter, "]" >>)
                                     \o <<",">> \o Written(e.body, 1) \o <<")">>
                [] e.kind = "op" /\ e.op \in Calls -> << e.op, "(" >>
                     \o FlattenSeq([i \in DOMAIN e.args |-> Written(e.args[i], 1) \o (IF i = Len(e.args) THEN <<")">> ELSE <<",">>)])
                [] OTHER -> LET l == LevelOf(e)
                            IN Written(e.args[1], IF l \in {Compares, 7} THEN l + 1 ELSE l) \o <<e.op>> \o Written(e.args[2], l + 1)
  IN IF LevelOf(e) < level THEN <<"(">> \o body \o <<")">> ELSE body

(* Operators bind as the grammar at the head of expr_parser.py ranks them: *)
(* any tree the parser makes, written with the fewest brackets that ranking*)
(* allows, parses back to that tree.                                       *)
PrecedenceHolds ==
  LET parsed == Parse(text)
      again  == Written(parsed.tree, 1)
  IN parsed.ok => Parse(again) = [parsed EXCEPT !.at = Len(again) + 1]

(* clamp with its ends the wrong way around, wherever it occurs *)
RECURSIVE Inverted(_, _)
Inverted(e, env) ==
  \/ e.kind = "agg" /\ \E i \in DOMAIN Items(e, env) : Inverted(e.body, Bound(e, env, Items(e, env)[i]))
  \/ /\ e.kind = "op"
     /\ \/ e.op = "clamp" /\ Less(Evaluate(e.args[3], env), Evaluate(e.args[2], env))
        \/ \E i \in DOMAIN e.args : Inverted(e.args[i], env)

(* An expression means the same to a simulation and to the checks, with    *)
(* the same names bound to the same values: where the checks make a number *)
(* of it, evaluating it gives that number (test_numeric_and_z3_agree).     *)
(* The checks take asset.t for state.t; a simulation knows no such asset.  *)
ReadsAssets(e) == \E part \in Parts(e) : part.kind = "var" /\ part.ns = "asset"
MeaningsAgree ==
  \A p \in Draws(DOMAIN Params, Params), agents \in {<<>>, Agents} :
    LET env == Environment(p, [f \in DOMAIN Payload |-> Whole(Payload[f].hi)], <<"t">> :> Whole(1),
                           "horizon" :> Whole(Horizon), SetToSeq(Tokens), agents)
        formal == Formal(rule, env)
    IN formal \in {Error, Anything} \/ ReadsAssets(rule) \/ Inverted(rule, env) \/ Same(formal, Evaluate(rule, env))

(* Every rate a simulation can run with is one the checks considered.      *)
(* Excepted are a rate read from the period after the last one the checks  *)
(* look at (Late), a negative rate that is run as none or that the checks  *)
(* have no term for, tokens counted (the checks are given none), and a     *)
(* clamp inverted.                                                         *)
ReadsPeriod(e) == \E part \in Parts(e) : part.kind = "var" /\ part.ns = "state" /\ part.path = <<"t">>
Late(e, env) == ReadsPeriod(e) /\ env.state[<<"t">>].n > Horizon
CountsTokens(e) == \E part \in Parts(e) : part.kind = "agg" /\ part.collection = "tokens"
RatesAreChecked ==
  LET terms == Terms(rule)
  IN \A env \in Simulations(rule) :
       LET v == Evaluate(rule, env)
       IN \/ v = Error \/ Late(rule, env) \/ CountsTokens(rule) \/ Inverted(rule, env)
          \/ Less(v, Whole(0)) /\ (ReadsState(rule) \/ Error \in terms)
          \/ Checked(terms, Run(rule, v))

(* "The static verifier reasons over the rates".  The first is refuted for *)
(* a negative rate, which a simulation takes for none where the state is   *)
(* read, and which the checks do not consider where they have no term; the *)
(* second for a rate that goes on changing after the checks' horizon.      *)
NegativeRatesAreChecked ==
  \A env \in Simulations(rule) :
    LET v == Evaluate(rule, env) IN v = Error \/ Late(rule, env) \/ Checked(Terms(rule), Run(rule, v))
LaterRatesAreChecked ==
  \A env \in Simulations(rule) :
    LET v == Evaluate(rule, env) IN v = Error \/ Less(v, Whole(0)) \/ Checked(Terms(rule), Run(rule, v))

(* "const.*: global constants (horizon, ...)" (expr.py:43): refuted, since *)
(* the checks bind the horizon and a simulation fails on it.               *)
CheckedRulesRun == Error \in Terms(rule) \/ Error \notin Simulated(rule)
=============================================================================
