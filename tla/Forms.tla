------------------------------- MODULE Forms -------------------------------
(***************************************************************************)
(* The forms in which the agent asks (te_platform/agent/forms.py) and the  *)
(* shape in which an answer enters a design                                *)
(* (te_platform/elicitation/answers.py).  No state: a question the model   *)
(* sends is shown or refused, an answer from the browser is taken or       *)
(* refused, and a value is written as its field holds it or refused.       *)
(*                                                                         *)
(* A value is what JSON says: null, a number, a word, a flag, a list, a    *)
(* span {min, max}, a table (any other object), or the JSON text of one    *)
(* of these, which is what models send that write every argument as text.  *)
(* Numbers are whole.                                                      *)
(***************************************************************************)
EXTENDS Integers, Sequences, FiniteSets

Null       == [type |-> "null"]
Number(n)  == [type |-> "number", n |-> n]
Word(w)    == [type |-> "word", word |-> w]
Flag(b)    == [type |-> "flag", b |-> b]
List(s)    == [type |-> "list", items |-> s]
Span(a, b) == [type |-> "span", min |-> a, max |-> b]
Text(v)    == IF v.type = "word" THEN v ELSE [type |-> "text", of |-> v]
Refused    == [type |-> "refused"]

IsString(v) == v.type \in {"word", "text"}
Elements(v) == {v.items[i] : i \in DOMAIN v.items}

(***************************************************************************)
(* Questions.  A question: kind, options (words), other and unknown and    *)
(* required (flags), unit, min and max (numbers or Null), estimate (a      *)
(* value or Null), basis (whether one is given).                           *)
(***************************************************************************)
ChoiceKinds  == {"single_choice", "multiple_choice"}
NumericKinds == {"number", "range"}

InBounds(q, x) == (q.min # Null => q.min.n <= x) /\ (q.max # Null => x <= q.max.n)

(* An answer: a status, a value, and the text of "Other", "" for none *)
Answered(v) == [status |-> "answered", value |-> v, other |-> ""]
Unknowing   == [status |-> "unknown", value |-> Null, other |-> ""]
Skipping    == [status |-> "skipped", value |-> Null, other |-> ""]

FitsSingle(q, a) ==
  \/ a.value = Null /\ a.other # "" /\ q.other
  \/ a.value \in q.options /\ a.other = ""
FitsMultiple(q, a) ==
  /\ a.other # "" => q.other
  /\ \/ a.value = Null /\ a.other # ""
     \/ /\ a.value.type = "list" /\ Elements(a.value) \subseteq q.options
        /\ Cardinality(Elements(a.value)) = Len(a.value.items)
        /\ a.value.items # <<>> \/ a.other # ""
FitsRange(q, v) == v.type = "span" /\ v.min <= v.max /\ InBounds(q, v.min) /\ InBounds(q, v.max)

Fits(q, a) ==
  /\ q.kind \notin ChoiceKinds => a.other = ""
  /\ \/ q.kind = "single_choice" /\ FitsSingle(q, a)
     \/ q.kind = "multiple_choice" /\ FitsMultiple(q, a)
     \/ q.kind = "yes_no" /\ a.value.type = "flag"
     \/ q.kind = "number" /\ a.value.type = "number" /\ InBounds(q, a.value.n)
     \/ q.kind = "range" /\ FitsRange(q, a.value)
     \/ q.kind = "text" /\ IsString(a.value)

EstimateFits(q) == IF q.estimate = Null THEN ~q.basis
                   ELSE q.basis /\ Fits(q, Answered(q.estimate))

(* The question may be shown *)
Showable(q) ==
  /\ IF q.kind \in ChoiceKinds THEN Cardinality(q.options) >= 2 ELSE q.options = {} /\ ~q.other
  /\ q.kind \notin NumericKinds => q.unit = "" /\ q.min = Null /\ q.max = Null
  /\ q.min # Null /\ q.max # Null => q.min.n <= q.max.n
  /\ EstimateFits(q)

(* What the model is told of an answer: the value, and whether it is the   *)
(* estimate, unchanged.  Ticks count in any order.                         *)
Checked(q, a) == IF q.kind = "multiple_choice" /\ a.value = Null THEN List(<<>>) ELSE a.value
Same(v, w)    == \/ v = w
                 \/ /\ v.type = "list" /\ w.type = "list"
                    /\ Elements(v) = Elements(w) /\ Len(v.items) = Len(w.items)
Kept(q, a)    == q.estimate # Null /\ Same(Checked(q, a), Checked(q, Answered(q.estimate)))

Accepts(q, a) ==
  \/ a.status = "answered" /\ Fits(q, a)
  \/ a.status = "unknown" /\ q.unknown
  \/ a.status = "skipped" /\ ~q.required
Entry(q, a) ==
  IF a.status = "answered"
    THEN [status |-> "answered", value |-> Checked(q, a), other |-> a.other, kept |-> Kept(q, a)]
    ELSE [status |-> a.status, value |-> Null, other |-> "", kept |-> FALSE]

(***************************************************************************)
(* Writing.  A slot: answer (its answer type), holds, least and most (what *)
(* its field takes), choices (words), unknown (the value that "I don't     *)
(* know" stands for, Refused where it is no answer).                       *)
(***************************************************************************)
(* Mutant: numbers and ranges are never read from text *)
MutDecoded(v) == v
Decoded(v)    == IF v.type = "text" THEN v.of ELSE v
Structured(v) == IF v.type = "text" /\ v.of.type \in {"list", "span", "table"} THEN v.of ELSE v

PointOrSpan(v) ==
  CASE v.type = "number" -> Span(v.n, v.n)
    [] v.type = "span" /\ v.min <= v.max -> v
    [] OTHER -> Refused

ShapedNumber(slot, v) ==
  IF v.type # "number" THEN Refused
  ELSE IF slot.holds = "span" THEN Span(v.n, v.n) ELSE v
ShapedChoice(slot, v) ==
  LET chosen == IF v.type = "list" THEN v ELSE List(<<v>>)
  IN IF ~(Elements(chosen) \subseteq slot.choices) THEN Refused
     ELSE IF slot.holds = "list" THEN chosen ELSE v
Shaped(slot, v) ==
  CASE slot.answer = "range" -> PointOrSpan(Decoded(v))
    [] slot.answer = "number" -> ShapedNumber(slot, Decoded(v))
    [] slot.answer = "enum" -> ShapedChoice(slot, v)
    [] OTHER -> v

(* What the field takes, as the schema has it *)
FieldTakes(slot, v) ==
  /\ v.type = slot.holds
  /\ v.type = "span" => {v.min, v.max} \subseteq slot.least .. slot.most
  /\ v.type = "number" => v.n \in slot.least .. slot.most

Stored(slot, v, status) ==
  LET shaped == IF status = "unknown" THEN slot.unknown ELSE Shaped(slot, Structured(v))
  IN IF FieldTakes(slot, shaped) THEN shaped ELSE Refused

(* A list slot: one value per element, a bare word a list of one *)
Column(v) ==
  LET w == Structured(v)
  IN CASE IsString(w) -> <<w>>
       [] w.type = "list" -> w.items
       [] OTHER -> <<>>
============================================================================
