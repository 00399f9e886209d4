------------------------------ MODULE Interview ------------------------------
(***************************************************************************)
(* The interview that fills a design (te_platform/elicitation/* with       *)
(* policy/elicitation_protocol.yaml, and the tools elicit.next_questions   *)
(* and elicit.record_answer): what is still open, which open items can     *)
(* still change a verdict, when to stop, and what an answer of each status *)
(* writes.                                                                 *)
(*                                                                         *)
(* The slots are those of the protocol that FM5 and FM6 turn on: the       *)
(* tokens, one offer variety each, participants, demand, topology and its  *)
(* average degree, who governs, the decisions, the equality of holdings;   *)
(* and two the checks read although the protocol says that they feed none: *)
(* when decisions pass to the members (FM6) and how closely rewards must   *)
(* follow effort (FM4).  The rest of the design is Base.                   *)
(* An item is a slot and an index, 0 for a slot that every design has      *)
(* once.  Questions go through forms and answers are shaped for their      *)
(* fields: module Forms.                                                   *)
(***************************************************************************)
EXTENDS FailureModes, Forms

CONSTANTS Base,      \* the rest of the design
          TokenIds,  \* the names a designer may give to tokens, in order
          Values,    \* for each slot, the values a designer may give
          Slips,     \* values that answer nothing, which a browser may send as well
          Proposal,  \* for each slot, what the agent estimates; Null for none
          Lowest,    \* for each slot, the least possible number a form names, or Null
          Known,     \* the slots to which no asked designer says "I don't know"
          Stringly,  \* whether the agent's model writes every argument as text
          MaxExtra   \* bound: answers no one asked for, and designs saved from the form

VARIABLES tokens,    \* how many tokens the design has
          field,     \* for each item, the value the design holds, or Null
          answered,  \* for each item, the status of its latest answer
          form,      \* the items of the last round of questions
          extra
vars == <<tokens, field, answered, form, extra>>

(* The ranges that the slots give, and those that temper FM4 and FM6.  The *)
(* ranges of a design have one space of names, which the code keeps apart  *)
(* by where each is held: a token's name is its variety's.                 *)
Once   == {"N", "d", "gini", "degree"}
Temper == {"gamma", "S", "cap_fraction", "avg_lock_fraction", "delegate_gini", "reputation_gini"}
ASSUME InterviewAssumption ==
  /\ MaxExtra \in Nat /\ Stringly \in BOOLEAN
  /\ TokenIds # <<>> /\ DOMAIN TokenIds = 1 .. Len(TokenIds) /\ Len(TokenIds) \in Nat
  /\ \A i, j \in DOMAIN TokenIds : TokenIds[i] = TokenIds[j] => i = j
  /\ \A i \in DOMAIN TokenIds : TokenIds[i] \notin {None} \cup Once \cup Temper \cup DOMAIN Base.span
  /\ Once \cap DOMAIN Base.span = {}
  /\ \A p \in DOMAIN Base.span : Base.span[p].lo \in Int /\ Base.span[p].hi \in Int
  /\ "variety" \in DOMAIN Base.token /\ {"proportionality", "maturity"} \subseteq DOMAIN Base.nfr

(***************************************************************************)
(* The protocol                                                            *)
(***************************************************************************)
Decisions(alone, all) == [type |-> "table", unilateral |-> alone, decisions |-> all]

Slots     == {"ids", "governance", "rules", "gini", "N", "d", "topology", "degree", "K", "maturity", "proportionality"}
Decisive  == {"ids", "governance", "rules", "N", "d", "K"}
Estimated == Slots \ {"governance", "N", "d"}                  \* approach: estimate
(* Mutant: the equality of holdings feeds no check *)
MutFeeds  == [ids |-> {}, governance |-> {"FM6"}, rules |-> {"FM6"}, gini |-> {}, N |-> {"FM5"}, d |-> {"FM4", "FM5"},
              topology |-> {"FM5"}, degree |-> {"FM5"}, K |-> {"FM4", "FM5"}, maturity |-> {}, proportionality |-> {}]
Feeds     == [ids |-> {}, governance |-> {"FM6"}, rules |-> {"FM6"}, gini |-> {"FM6"}, N |-> {"FM5"}, d |-> {"FM4", "FM5"},
              topology |-> {"FM5"}, degree |-> {"FM5"}, K |-> {"FM4", "FM5"}, maturity |-> {}, proportionality |-> {}]

Interval(unknown, least, most) == [answer |-> "range", holds |-> "span", choices |-> {}, unknown |-> unknown,
                                   least |-> least, most |-> most]
Choosing(words, unknown) == [answer |-> "enum", holds |-> "word", choices |-> words, unknown |-> unknown, least |-> 0, most |-> 0]
Governments == {Word("centralized"), Word("committee"), Word("dao"), Word("algorithmic"), Word("hybrid")}
Topologies  == {Word("well_mixed"), Word("spatial"), Word("network")}
Maturities  == {Word("immediate"), Word("short_term"), Word("medium_term"), Word("indefinite")}
Anything    == 1000000000
Slot ==   \* shares in hundredths
  [ids      |-> [answer |-> "list", holds |-> "word", choices |-> {}, unknown |-> Refused, least |-> 0, most |-> 0],
   rules    |-> [answer |-> "table", holds |-> "table", choices |-> {}, unknown |-> Decisions(0, 0), least |-> 0, most |-> 0],
   governance |-> Choosing(Governments, Refused),
   topology |-> Choosing(Topologies, Word("well_mixed")),
   maturity |-> Choosing(Maturities, Word("medium_term")),
   proportionality |-> [answer |-> "number", holds |-> "number", choices |-> {}, unknown |-> Number(3), least |-> 1, most |-> 5],
   gini     |-> Interval(Span(0, 100), 0, 100),
   N        |-> Interval(Span(2, 100000), 1, Anything),
   d        |-> Interval(Span(0, 20), 0, Anything),
   degree   |-> Interval(Span(1, 50), 0, Anything),
   K        |-> Interval(Span(1, 100), 1, Anything)]

Items   == ((Slots \ {"K"}) \X {0}) \cup ({"K"} \X DOMAIN TokenIds)
Fields  == Items \ {<<"ids", 0>>}
Ids     == <<"ids", 0>>

(***************************************************************************)
(* What is open: it applies, no answer is recorded and no value is held    *)
(***************************************************************************)
Exists(n, it)  == it[1] = "K" => it[2] <= n
Applies(n, f, it) == Exists(n, it) /\ (it[1] = "degree" => f[<<"topology", 0>>] = Word("network"))
Holds(n, f, it) == IF it = Ids THEN n > 0 ELSE Exists(n, it) /\ f[it] # Null

Open(n, f, done) == {it \in Items : Applies(n, f, it) /\ it \notin done /\ ~Holds(n, f, it)}
Done == {it \in Items : answered[it] # None}

(* Every open item that can be is answered "unknown", in the order of the  *)
(* protocol: a topology that was open leaves no degree to ask for.         *)
Swept(n, f, done) ==
  LET open == {it \in Open(n, f, done) : Slot[it[1]].unknown # Refused}
  IN [it \in Fields |-> IF it \in open THEN Slot[it[1]].unknown ELSE f[it]]

(* The design with these values: a range is held for each of Once, and     *)
(* for each token that has a variety, under its name.                      *)
Design(n, f) ==
  LET ids      == {TokenIds[i] : i \in 1..n}
      place(t) == CHOOSE i \in 1..n : TokenIds[i] = t
      item(p)  == IF p \in Once THEN <<p, 0>> ELSE <<"K", place(p)>>
      held     == {p \in Once \cup ids : Holds(n, f, item(p))}
      said(slot, default) == IF f[<<slot, 0>>] = Null THEN default ELSE f[<<slot, 0>>].word
      power    == IF f[<<"rules", 0>>] = Null THEN Decisions(0, 0) ELSE f[<<"rules", 0>>]
  IN [tokens   |-> ids,
      token    |-> [t \in ids |-> [Base.token EXCEPT !.variety = IF t \in held THEN t ELSE None]],
      span     |-> [p \in held \cup DOMAIN Base.span |->
                      IF p \in held THEN [lo |-> f[item(p)].min, hi |-> f[item(p)].max] ELSE Base.span[p]],
      topology |-> said("topology", "well_mixed"),
      govern   |-> [Base.govern EXCEPT !.type = said("governance", @), !.unilateral = power.unilateral, !.decisions = power.decisions],
      nfr      |-> [Base.nfr EXCEPT !.maturity = said("maturity", "medium_term"),
                                    !.proportionality = IF f[<<"proportionality", 0>>] = Null THEN 3 ELSE f[<<"proportionality", 0>>].n],
      event    |-> Base.event, flows |-> Base.flows, agents |-> Base.agents]

(***************************************************************************)
(* The next questions.  A recommendation's parameter is a slot that feeds  *)
(* the check it comes from, so it ranks an item but never makes it needed. *)
(***************************************************************************)
Asked == {"FM4", "FM5", "FM6"}
Standing(te, fm) == Structural(te, fm, "system", Check(te, fm, "system"))
Settled(te, fm) == Standing(te, fm) \in {"sound", "not_applicable"}

Needed(n, f, done) ==
  LET te == Design(n, Swept(n, f, done))
      unsettled == {fm \in Asked : ~Settled(te, fm)}
  IN {it \in Open(n, f, done) : it[1] \in Decisive \/ Feeds[it[1]] \cap unsettled # {}}

(* A design without a token, or without who governs, is not valid: nothing is ranked *)
Valid(n, f) == n > 0 /\ f[<<"governance", 0>>] # Null
Complete(n, f, done) == Valid(n, f) /\ Needed(n, f, done) = {}

(* One form: the needed questions, and an estimate for every open slot that has one *)
Offered(n, f, done) ==
  LET open == Open(n, f, done)
      asks == IF Valid(n, f) THEN Needed(n, f, done) ELSE open
  IN {it \in open : it[1] \in Estimated \/ it \in asks}

(***************************************************************************)
(* The steps                                                               *)
(***************************************************************************)
Init == /\ tokens = 0 /\ field = [it \in Fields |-> Null] /\ answered = [it \in Items |-> None]
        /\ form = {} /\ extra = 0

(* elicit.next_questions *)
Ask == /\ UNCHANGED <<tokens, field, answered, extra>>
       /\ form' = Offered(tokens, field, Done)

(* elicit.record_answer: the names of the tokens keep what the tokens of   *)
(* the same places hold, and drop the rest.  What no field takes changes   *)
(* nothing.  The model has places for as many tokens as TokenIds has.      *)
Name(names, status) ==
  /\ Len(names) \in DOMAIN TokenIds /\ \A i \in DOMAIN names : FieldTakes(Slot["ids"], names[i])
  /\ tokens' = Len(names)
  /\ field' = [it \in Fields |-> IF Exists(Len(names), it) THEN field[it] ELSE Null]
  /\ answered' = [answered EXCEPT ![Ids] = status]

Fill(it, value, status) ==
  /\ Exists(tokens, it) /\ value # Refused
  /\ field' = [field EXCEPT ![it] = value]
  /\ answered' = [answered EXCEPT ![it] = status]
  /\ UNCHANGED tokens

Record(it, v, status) ==
  \/ it = Ids /\ status # "unknown" /\ Name(Column(v), status)
  \/ it # Ids /\ Fill(it, Stored(Slot[it[1]], v, status), status)

(* The form that asks for a slot, as the agent is told to make it *)
Drafts(slot) ==
  LET question(kind, options) ==
        [kind |-> kind, options |-> options, other |-> FALSE, unknown |-> Slot[slot].unknown # Refused, required |-> TRUE,
         unit |-> "", min |-> Lowest[slot], max |-> Null, estimate |-> Proposal[slot], basis |-> Proposal[slot] # Null]
  IN CASE Slot[slot].answer = "range" -> {question("range", {}), question("number", {})}
       [] Slot[slot].answer = "number" -> {question("number", {})}
       [] Slot[slot].answer = "enum" -> {question("single_choice", Slot[slot].choices)}
       [] OTHER -> {}
Browser(slot) == {Answered(v) : v \in Values[slot] \cup Slips} \cup (IF slot \in Known THEN {} ELSE {Unknowing}) \cup {Skipping}

StatusOf(e) == IF e.status = "unknown" THEN "unknown" ELSE IF e.kept THEN "estimated" ELSE "committed"
Wire(v) == IF Stringly THEN Text(v) ELSE v

(* The designer sends the form, and the agent records what it is told: *)
(* for each slot, what may come to be stored                            *)
Told ==
  [slot \in Slots \ {"ids"} |->
     LET sent == {s \in Drafts(slot) \X Browser(slot) : Showable(s[1]) /\ Accepts(s[1], s[2])}
         entries == {e \in {Entry(s[1], s[2]) : s \in sent} : e.status # "skipped"}
     IN {[value |-> Stored(Slot[slot], Wire(e.value), StatusOf(e)), status |-> StatusOf(e)] : e \in entries}]
Fills(it) == it # Ids /\ \E a \in Told[it[1]] : Fill(it, a.value, a.status)
(* The agent makes a list or a table of what the designer tells *)
Describes(it) ==
  /\ Slot[it[1]].answer \in {"list", "table"}
  /\ \/ \E v \in Values[it[1]] : Record(it, Wire(v), "committed")
     \/ it[1] \notin Known /\ Record(it, Null, "unknown")

Reply(it) == it \in form /\ form' = form \ {it} /\ UNCHANGED extra /\ (Fills(it) \/ Describes(it))

(* An answer nobody asked for, or a second one *)
Volunteer(it) ==
  /\ extra < MaxExtra /\ extra' = extra + 1 /\ UNCHANGED form
  /\ \/ \E v \in Values[it[1]] : Record(it, v, "committed")
     \/ Record(it, Null, "unknown")

(* The designer saves the form: the design may lose a value the schema     *)
(* does not require, and no answer is recorded.                            *)
Optional == {"gini", "degree", "K", "maturity", "proportionality"}
Save(it) ==
  /\ extra < MaxExtra /\ extra' = extra + 1
  /\ it[1] \in Optional /\ Exists(tokens, it)
  /\ \E v \in ({Stored(Slot[it[1]], v, "committed") : v \in Values[it[1]]} \ {Refused}) \cup {Null} :
       field' = [field EXCEPT ![it] = v]
  /\ UNCHANGED <<tokens, answered, form>>

Next == \/ Ask
        \/ \E it \in Items : Reply(it) \/ Volunteer(it)
        \/ \E it \in Fields : Save(it)

Spec == Init /\ [][Next]_vars
(* The agent goes on asking, and the designer answers what is asked *)
Diligent == Spec /\ WF_vars(Ask) /\ WF_vars(\E it \in Items : Reply(it))

(***************************************************************************)
(* Properties                                                              *)
(***************************************************************************)
(* Every design that answers to some valueless items could still give.     *)
(* Answering the topology may open the degree, which may stay unanswered.  *)
Sayings == [slot \in Slots \ {"ids"} |-> ({Stored(Slot[slot], v, "committed") : v \in Values[slot]} \ {Refused}) \cup {Slot[slot].unknown}]
Futures(items) ==
  LET choices == [items -> UNION {Sayings[it[1]] : it \in items}]
      fits(g) == \A it \in items : g[it] \in Sayings[it[1]]
      with(g) == [it \in Fields |-> IF it \in items THEN g[it] ELSE field[it]]
      degree  == <<"degree", 0>>
      more(f) == IF degree \in Open(tokens, f, Done \cup items)
                 THEN {[f EXCEPT ![degree] = v] : v \in Sayings["degree"]} ELSE {f}
  IN UNION {more(with(g)) : g \in {g \in choices : fits(g)}}

(* Once the interview says it is complete, no answer to anything still     *)
(* open can change a verdict (ranking.py: the stopping rule), whatever was *)
(* answered, corrected, renamed or saved on the way.  The exceptions are   *)
(* the answers that no check is said to read and one does: that control is *)
(* meant to stay with one party, which excuses what FM6 found, and that    *)
(* rewards must follow effort closely, which raises what FM4 asks for.     *)
Unfed(fm, f) ==
  LET open == Open(tokens, field, Done)
      told == Design(tokens, f)
  IN \/ fm = "FM6" /\ <<"maturity", 0>> \in open /\ Excused(told)
     \/ fm = "FM4" /\ <<"proportionality", 0>> \in open /\ told.nfr.proportionality > 3

NothingOpenMatters ==
  Complete(tokens, field, Done) =>
    LET swept == Design(tokens, Swept(tokens, field, Done))
    IN \A f \in Futures(Open(tokens, field, Done)), fm \in Asked :
         Standing(Design(tokens, f), fm) = Standing(swept, fm) \/ Unfed(fm, f)

(* The same without the exceptions, as the rule is worded ("stopping rule:  *)
(* nothing still unknown can change a verdict", ranking.py:41): refuted.   *)
NothingAtAllMatters ==
  Complete(tokens, field, Done) =>
    LET swept == Design(tokens, Swept(tokens, field, Done))
    IN \A f \in Futures(Open(tokens, field, Done)), fm \in Asked :
         Standing(Design(tokens, f), fm) = Standing(swept, fm)

(* The same of everything that the design has no value for: refuted.       *)
(* A token removed and put back is new, and its old answer, which is gone  *)
(* from the design, still counts as given.                                 *)
NothingUnknownMatters ==
  Complete(tokens, field, Done) =>
    LET empty == {it \in Fields : Applies(tokens, field, it) /\ ~Holds(tokens, field, it)}
        swept == Design(tokens, Swept(tokens, field, Done))
    IN \A f \in Futures(empty), fm \in Asked : Standing(Design(tokens, f), fm) = Standing(swept, fm)

(* The interview ends and stays ended: each round offers what is needed,   *)
(* and no answer to what was not needed makes something needed.            *)
InterviewEnds == <>[]Complete(tokens, field, Done)
==============================================================================
