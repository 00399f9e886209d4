------------------------- MODULE DesignSessionProofs -------------------------
(***************************************************************************)
(* For any number of calls, questions, tokens and turns: an answer and the *)
(* version it made belong together, no value the designer gave disappears  *)
(* silently, the model is told of a form's edit once, and the session      *)
(* implements the ledger of designs.                                       *)
(*                                                                         *)
(* The properties are not inductive: a recorded answer is written into the *)
(* design its call read when it began.  What is missing is that a call     *)
(* inside its transaction holds the row lock, and that what it read is     *)
(* still the current design (HoldsCurrent); and, for the note, that of the *)
(* turns since the form's save one was given it before any spoke (Since).  *)
(***************************************************************************)
EXTENDS DesignSessionRefinement, TLAPS

HoldsCurrent ==
  \A c \in Writers : call[c].at = "locked" => lock = c /\ call[c].base = Current

Inv == TypeOK /\ HoldsCurrent /\ AnswersBelongToVersions /\ NoSilentLoss

Store == <<versions, answers, named>>

------------------------------------------------------------------------------
(* The designs that the operations write are designs.                      *)

LEMMA EmptyIsDesign == Empty \in Design
BY DesignSessionAssumption DEF Empty, Design, Held

LEMMA CurrentIsDesign == ASSUME versions \in Seq(Version) PROVE Current \in Design
<1>1. CASE versions = << >>
  BY <1>1, EmptyIsDesign DEF Current
<1>2. CASE versions # << >>
  <2>1. Len(versions) \in 1..Len(versions)
    BY <1>2
  <2>2. versions[Len(versions)] \in Version
    BY <2>1
  <2> QED BY <1>2, <2>2 DEF Current, Version
<1> QED BY <1>1, <1>2

LEMMA ApplyShape ==
  ASSUME NEW d \in Design, NEW i \in Items, NEW x \in Values \cup {"unknown"}
  PROVE  /\ Apply(d, i, x) \in Design
         /\ Apply(d, i, x).tokens = d.tokens
         /\ Apply(d, i, x).val[i] = Written(i, x)
         /\ \A j \in Items \ {i} : Apply(d, i, x).val[j] = d.val[j]
<1>1. Written(i, x) \in Held
  BY DEF Written, Held
<1> QED BY <1>1 DEF Apply, Design

LEMMA ResizeShape ==
  ASSUME NEW d \in Design, NEW n \in 0..MaxTokens
  PROVE  /\ Resize(d, n) \in Design
         /\ Resize(d, n).tokens = n
         /\ \A i \in Items : i[2] <= n => Resize(d, n).val[i] = d.val[i]
<1>1. "none" \in Held
  BY DEF Held
<1> QED BY <1>1 DEF Resize, Design

LEMMA FillShape ==
  ASSUME answers \in [Items -> Answer], NEW d \in Design, NEW S
  PROVE  /\ Fill(d, S) \in Design
         /\ Fill(d, S).tokens = d.tokens
         /\ \A i \in Items : d.val[i] # "none" => Fill(d, S).val[i] # "none"
         /\ \A i \in Items : i \in S /\ answers[i].val \in Values /\ i \notin Unfit(d, S)
                             => Fill(d, S).val[i] # "none"
<1> DEFINE w == [i \in Items |-> IF i \in Lacks(d, S) /\ Fits(d, i) THEN answers[i].val ELSE d.val[i]]
<1>1. \A i \in Items : i \in Lacks(d, S) => answers[i].val \in Values
  BY DEF Lacks
<1>2. w \in [Items -> Held]
  BY <1>1 DEF Held, Design
<1>3. Fill(d, S) = [d EXCEPT !.val = w]
  BY DEF Fill
<1>4. Fill(d, S) \in Design /\ Fill(d, S).tokens = d.tokens /\ Fill(d, S).val = w
  BY <1>2, <1>3 DEF Design
<1>5. \A i \in Items : d.val[i] # "none" => i \notin Lacks(d, S)
  BY DEF Lacks
<1>6. \A i \in Items : w[i] = IF i \in Lacks(d, S) /\ Fits(d, i) THEN answers[i].val ELSE d.val[i]
  OBVIOUS
<1>7. ASSUME NEW i \in Items, i \in S, answers[i].val \in Values, i \notin Unfit(d, S)
      PROVE  w[i] # "none"
  <2>1. CASE i \in Lacks(d, S)
    BY <1>6, <1>7, <2>1, DesignSessionAssumption DEF Unfit
  <2>2. CASE i \notin Lacks(d, S)
    BY <1>6, <1>7, <2>2 DEF Lacks
  <2> QED BY <2>1, <2>2
<1> QED BY <1>4, <1>5, <1>6, <1>7

(* What a save stores: every answer whose token the result has is in it,   *)
(* or among those reported.                                                *)
LEMMA MergeShape ==
  ASSUME answers \in [Items -> Answer], named \in Named, NEW d \in Design
  PROVE  /\ Merge(d) \in Design
         /\ Failed(d) \subseteq Items
         /\ \A i \in Items : answers[i].val \in Values /\ i \notin Failed(d) /\ i[2] <= Merge(d).tokens
                             => Merge(d).val[i] # "none"
<1> DEFINE d1 == Fill(d, Early)  d2 == Renamed(d1)  d3 == Fill(d2, Items \ Early)
<1>1. d1 \in Design
  BY FillShape
<1>2. named.val \in 0..MaxTokens
  BY DEF Named
<1>3. /\ d2 \in Design
      /\ \A i \in Items : i[2] <= d2.tokens => d2.val[i] = d1.val[i]
  <2>1. CASE named.val = 0
    BY <1>1, <2>1 DEF Renamed
  <2>2. CASE named.val # 0
    <3>1. d2 = Resize(d1, named.val)
      BY <2>2 DEF Renamed
    <3> HIDE DEF d1
    <3> QED BY <1>1, <1>2, <3>1, ResizeShape
  <2> QED BY <2>1, <2>2
<1>4. Merge(d) = d3 /\ Failed(d) = Unfit(d, Early) \cup Unfit(d2, Items \ Early)
  BY DEF Merge, Failed
<1>5. Failed(d) \subseteq Items
  BY <1>4 DEF Unfit, Lacks, Early
<1> HIDE DEF d2
<1>6. /\ d3 \in Design /\ d3.tokens = d2.tokens
      /\ \A i \in Items : d2.val[i] # "none" => d3.val[i] # "none"
      /\ \A i \in Items : i \in Items \ Early /\ answers[i].val \in Values
                          /\ i \notin Unfit(d2, Items \ Early) => d3.val[i] # "none"
  BY <1>3, FillShape
<1>7. \A i \in Items : i \in Early /\ answers[i].val \in Values /\ i \notin Unfit(d, Early)
                       => d1.val[i] # "none"
  BY FillShape
<1> HIDE DEF d1, d3
<1>8. ASSUME NEW i \in Items, answers[i].val \in Values, i \notin Failed(d), i[2] <= Merge(d).tokens
      PROVE  Merge(d).val[i] # "none"
  <2>1. CASE i \in Early
    BY <1>3, <1>4, <1>6, <1>7, <1>8, <2>1
  <2>2. CASE i \notin Early
    BY <1>4, <1>6, <1>8, <2>2
  <2> QED BY <2>1, <2>2
<1> QED BY <1>4, <1>5, <1>6, <1>8

LEMMA AddShape ==
  ASSUME versions \in Seq(Version), NEW from \in {"answer", "names", "save", "form"},
         NEW d \in Design, NEW given \in Design, NEW lost \in SUBSET Items, NEW quiet \in BOOLEAN,
         Add(from, d, given, lost, quiet)
  PROVE  /\ versions' \in Seq(Version)
         /\ Len(versions) \in Nat /\ Len(versions') = Len(versions) + 1
         /\ \A n \in 1..Len(versions) : versions'[n] = versions[n]
         /\ versions'[Len(versions) + 1] =
              [from |-> from, spec |-> d, given |-> given, lost |-> lost, quiet |-> quiet]
         /\ Current' = d
<1> DEFINE v == [from |-> from, spec |-> d, given |-> given, lost |-> lost, quiet |-> quiet]
<1>1. v \in Version
  BY DEF Version
<1>2. versions' = Append(versions, v)
  BY DEF Add
<1>3. versions'[Len(versions) + 1] = v
  BY <1>1, <1>2
<1> HIDE DEF v
<1>4. versions' \in Seq(Version) /\ Len(versions) \in Nat /\ Len(versions') = Len(versions) + 1
      /\ \A n \in 1..Len(versions) : versions'[n] = versions[n]
  BY <1>1, <1>2
<1>5. versions' # << >>
  BY <1>4
<1>6. Current' = v.spec
  BY <1>3, <1>4, <1>5 DEF Current
<1> QED BY <1>3, <1>4, <1>6 DEF v

------------------------------------------------------------------------------
(* The invariant.                                                          *)

LEMMA InitInv == Init => Inv
<1> SUFFICES ASSUME Init PROVE Inv
  OBVIOUS
<1> USE DesignSessionAssumption DEF Init
<1>1. TypeOK
  BY EmptyIsDesign DEF TypeOK, Answer, Named, Call, Turn, Calls
<1>2. \A c \in Writers : c \in Calls
  BY DEF Calls
<1>3. HoldsCurrent
  BY <1>2 DEF HoldsCurrent
<1>4. AnswersBelongToVersions /\ NoSilentLoss
  BY DEF AnswersBelongToVersions, NoSilentLoss
<1> QED BY <1>1, <1>3, <1>4 DEF Inv

LEMMA SetCallShape ==
  ASSUME call \in [Calls -> Call], NEW c \in Calls, NEW at \in {"idle", "locked", "asked", "over"},
         SetCall(c, at)
  PROVE  /\ call' \in [Calls -> Call] /\ call'[c].at = at
         /\ \A d \in Calls \ {c} : call'[d] = call[d]
BY DEF SetCall, Call

(* The end of a transaction frees the row, and no call is inside another.  *)
LEMMA EndsTransaction ==
  ASSUME Inv, NEW c \in Writers, call[c].at = "locked",
         lock' = Free, SetCall(c, "over"), Unsaid, after' = {} \/ UNCHANGED after
  PROVE  /\ HoldsCurrent'
         /\ lock' \in Writers \cup {Free} /\ (lock' # Free => call'[lock'].at = "locked")
         /\ call' \in [Calls -> Call] /\ turn' \in [Turns -> Turn]
         /\ after' \subseteq Turns /\ announced' \subseteq Turns \X Nat
<1> USE DEF Inv, TypeOK
<1>1. \A d \in Writers : d \in Calls
  BY DEF Calls
<1>2. call' \in [Calls -> Call] /\ call'[c].at = "over" /\ \A d \in Calls \ {c} : call'[d] = call[d]
  BY <1>1, SetCallShape
<1>3. \A d \in Writers \ {c} : call[d].at # "locked"
  BY DEF HoldsCurrent
<1>4. \A d \in Writers : call'[d].at # "locked"
  BY <1>1, <1>2, <1>3
<1>5. HoldsCurrent'
  BY <1>4 DEF HoldsCurrent
<1> QED BY <1>2, <1>5 DEF Unsaid

(* A step that stores no version and no answer only has to keep the types  *)
(* and what the calls in a transaction know.                               *)
LEMMA StoreKept ==
  ASSUME Inv, UNCHANGED Store, TypeOK', HoldsCurrent'
  PROVE  Inv'
<1>1. Current' = Current
  BY DEF Store, Current
<1> QED BY <1>1 DEF Inv, Store, AnswersBelongToVersions, NoSilentLoss

LEMMA BeginKeeps == ASSUME Inv, NEW c \in Writers, Begin(c) PROVE Inv'
<1> USE DesignSessionAssumption DEF Inv
<1>1. c \in Calls /\ Current \in Design /\ Current' = Current /\ UNCHANGED Store
  BY CurrentIsDesign DEF Calls, TypeOK, Begin, Current, Store
<1>2. /\ call' \in [Calls -> Call] /\ call'[c].at = "locked" /\ call'[c].base = Current
      /\ \A d \in Calls \ {c} : call'[d] = call[d]
  BY <1>1 DEF TypeOK, Begin, Call
<1>3. TypeOK'
  BY <1>1, <1>2 DEF TypeOK, Begin, Unsaid
<1>4. \A d \in Writers : call[d].at # "locked"
  BY DEF Begin, HoldsCurrent, Writers, Calls
<1>5. HoldsCurrent'
  BY <1>1, <1>2, <1>4 DEF HoldsCurrent, Begin, Calls
<1> QED BY <1>1, <1>3, <1>5, StoreKept

LEMMA RollbackKeeps == ASSUME Inv, NEW c \in Writers, Rollback(c) PROVE Inv'
<1>1. call[c].at = "locked" /\ lock' = Free /\ SetCall(c, "over") /\ UNCHANGED after /\ Unsaid
      /\ UNCHANGED Store
  BY DEF Rollback, Store
<1>2. HoldsCurrent' /\ TypeOK'
  BY <1>1, EndsTransaction DEF Inv, TypeOK, Store
<1> QED BY <1>1, <1>2, StoreKept

LEMMA AskKeeps == ASSUME Inv, NEW c \in Tabs, Ask(c) PROVE Inv'
<1> USE DesignSessionAssumption DEF Inv
<1>1. /\ c \in Calls /\ c \notin Writers /\ UNCHANGED Store /\ UNCHANGED lock /\ UNCHANGED after
      /\ Current' = Current
  BY DEF Calls, Ask, Store, Current
<1> DEFINE b == Active = {}
<1>a. call' = [call EXCEPT ![c] = [@ EXCEPT !.at = "asked", !.alone = b]] /\ b \in BOOLEAN
  BY DEF Ask
<1> HIDE DEF b
<1>2. /\ call' \in [Calls -> Call] /\ call'[c].at = "asked"
      /\ \A d \in Calls \ {c} : call'[d] = call[d]
  BY <1>1, <1>a DEF TypeOK, Call
<1>3. TypeOK'
  BY <1>1, <1>2 DEF TypeOK, Ask, Unsaid, Store, Calls
<1>4. HoldsCurrent'
  BY <1>1, <1>2 DEF HoldsCurrent, Calls
<1> QED BY <1>1, <1>3, <1>4, StoreKept

(* Turns change what the calls of the form know of them, and nothing else  *)
(* of a call.                                                              *)
LEMMA TurnKeeps ==
  ASSUME Inv, NEW t \in Turns,
         TurnLoad(t) \/ TurnSay(t) \/ TurnMore(t) \/ TurnEnd(t) \/ TurnFails(t)
  PROVE  Inv'
<1> USE DEF Inv
<1>1. UNCHANGED Store /\ UNCHANGED lock /\ Current' = Current
  BY DEF TurnLoad, TurnSay, TurnMore, TurnEnd, TurnFails, Store, Current
<1>2. /\ call' \in [Calls -> Call]
      /\ \A c \in Calls : call'[c].at = call[c].at /\ call'[c].base = call[c].base
  <2>1. CASE TurnLoad(t)
    BY <2>1 DEF TypeOK, TurnLoad, Call
  <2>2. CASE TurnSay(t) \/ TurnMore(t)
    BY <2>2 DEF TypeOK, TurnSay, TurnMore, Stores, Call
  <2>3. CASE TurnEnd(t)
    BY <2>3 DEF TypeOK, TurnEnd, Call
  <2>4. CASE TurnFails(t)
    BY <2>4 DEF TypeOK, TurnFails, Call
  <2> QED BY <2>1, <2>2, <2>3, <2>4
<1>3. versions \in Seq(Version) /\ Len(versions) \in Nat
  BY DEF TypeOK
<1>4. turn' \in [Turns -> Turn]
  BY <1>3 DEF TypeOK, TurnLoad, TurnSay, TurnMore, TurnEnd, TurnFails, SetTurn, Turn
<1>5. after' \subseteq Turns
  BY DEF TypeOK, TurnLoad, TurnSay, TurnMore, TurnEnd, TurnFails, Stores
<1>6. announced' \subseteq Turns \X Nat
  <2>1. turn[t].note \in Nat
    BY DEF TypeOK, Turn
  <2> QED BY <2>1 DEF TypeOK, TurnLoad, TurnSay, TurnMore, TurnEnd, TurnFails
<1>7. TypeOK'
  BY <1>1, <1>2, <1>4, <1>5, <1>6 DEF TypeOK, Store, Calls
<1>8. HoldsCurrent'
  BY <1>1, <1>2 DEF HoldsCurrent, Calls
<1> QED BY <1>1, <1>7, <1>8, StoreKept

(* What a step that adds a version does to the two properties: the answers *)
(* it leaves alone still name the versions they did, and only an answer    *)
(* written by the step needs an argument.                                  *)
LEMMA AnswersKept ==
  ASSUME Inv, NEW from \in {"answer", "names", "save", "form"},
         NEW d \in Design, NEW given \in Design, NEW lost \in SUBSET Items, NEW quiet \in BOOLEAN,
         Add(from, d, given, lost, quiet), NEW i \in Items, answers'[i] = answers[i],
         answers[i].val # "none"
  PROVE  /\ answers'[i].at \in 1..Len(versions')
         /\ versions'[answers'[i].at].from = "answer"
         /\ versions'[answers'[i].at].spec.val[i] = Written(i, answers'[i].val)
<1>1. versions \in Seq(Version)
  BY DEF Inv, TypeOK
<1>2. /\ Len(versions) \in Nat /\ Len(versions') = Len(versions) + 1
      /\ \A n \in 1..Len(versions) : versions'[n] = versions[n]
  BY <1>1, AddShape
<1>3. /\ answers[i].at \in 1..Len(versions)
      /\ versions[answers[i].at].from = "answer"
      /\ versions[answers[i].at].spec.val[i] = Written(i, answers[i].val)
  BY DEF Inv, AnswersBelongToVersions
<1>4. versions'[answers[i].at] = versions[answers[i].at]
  BY <1>2, <1>3
<1> QED BY <1>2, <1>3, <1>4

LEMMA NamesKept ==
  ASSUME Inv, NEW from \in {"answer", "names", "save", "form"},
         NEW d \in Design, NEW given \in Design, NEW lost \in SUBSET Items, NEW quiet \in BOOLEAN,
         Add(from, d, given, lost, quiet), UNCHANGED named, named.val # 0
  PROVE  /\ named'.at \in 1..Len(versions')
         /\ versions'[named'.at].from = "names" /\ versions'[named'.at].spec.tokens = named'.val
<1>1. versions \in Seq(Version)
  BY DEF Inv, TypeOK
<1>2. /\ Len(versions) \in Nat /\ Len(versions') = Len(versions) + 1
      /\ \A n \in 1..Len(versions) : versions'[n] = versions[n]
  BY <1>1, AddShape
<1>3. /\ named.at \in 1..Len(versions)
      /\ versions[named.at].from = "names" /\ versions[named.at].spec.tokens = named.val
  BY DEF Inv, AnswersBelongToVersions
<1>4. versions'[named.at] = versions[named.at]
  BY <1>2, <1>3
<1> QED BY <1>2, <1>3, <1>4

LEMMA RecordKeeps == ASSUME Inv, NEW c \in Recorders, Record(c) PROVE Inv'
<1>1. PICK i \in Items, x \in Values \cup {"unknown"} :
        /\ call[c].at = "locked" /\ Fits(call[c].base, i)
        /\ Add("answer", Apply(call[c].base, i, x), Apply(call[c].base, i, x), {}, FALSE)
        /\ answers' = [answers EXCEPT ![i] =
             [val |-> x, at |-> Len(versions) + 1,
              early |-> IF @.val = "none" THEN named.val = 0 ELSE @.early]]
        /\ lock' = Free /\ after' = {} /\ SetCall(c, "over") /\ UNCHANGED named /\ Unsaid
  BY DEF Record
<1>2. c \in Writers /\ c \in Calls /\ call[c].base = Current
  BY <1>1 DEF Writers, Calls, Inv, HoldsCurrent
<1>t. /\ versions \in Seq(Version) /\ answers \in [Items -> Answer] /\ named \in Named
      /\ Current \in Design /\ Len(versions) \in Nat
  BY CurrentIsDesign DEF Inv, TypeOK
<1> DEFINE d == Apply(Current, i, x)
           e == IF answers[i].val = "none" THEN named.val = 0 ELSE answers[i].early
<1>3. /\ d \in Design /\ d.tokens = Current.tokens /\ d.val[i] = Written(i, x)
      /\ \A j \in Items \ {i} : d.val[j] = Current.val[j]
  BY <1>t, ApplyShape
<1>4. e \in BOOLEAN
  BY <1>t DEF Answer
<1>5. Add("answer", d, d, {}, FALSE)
  BY <1>1, <1>2
<1>6. answers' = [answers EXCEPT ![i] = [val |-> x, at |-> Len(versions) + 1, early |-> e]]
  BY <1>1
<1> HIDE DEF d, e
<1>7. /\ versions' \in Seq(Version) /\ Len(versions') = Len(versions) + 1
      /\ \A n \in 1..Len(versions) : versions'[n] = versions[n]
      /\ versions'[Len(versions) + 1] =
           [from |-> "answer", spec |-> d, given |-> d, lost |-> {}, quiet |-> FALSE]
      /\ Current' = d
  BY <1>t, <1>3, <1>5, AddShape
<1>8. /\ answers' \in [Items -> Answer]
      /\ answers'[i].val = x /\ answers'[i].at = Len(versions) + 1
      /\ \A j \in Items \ {i} : answers'[j] = answers[j]
  BY <1>t, <1>4, <1>6 DEF Answer
<1>9. /\ HoldsCurrent'
      /\ lock' \in Writers \cup {Free} /\ (lock' # Free => call'[lock'].at = "locked")
      /\ call' \in [Calls -> Call] /\ turn' \in [Turns -> Turn]
      /\ after' \subseteq Turns /\ announced' \subseteq Turns \X Nat
  BY <1>1, <1>2, EndsTransaction
<1>10. TypeOK'
  BY <1>1, <1>t, <1>7, <1>8, <1>9 DEF TypeOK
<1>11. AnswersBelongToVersions'
  <2>1. ASSUME NEW j \in Items, answers'[j].val # "none"
        PROVE  /\ answers'[j].at \in 1..Len(versions')
               /\ versions'[answers'[j].at].from = "answer"
               /\ versions'[answers'[j].at].spec.val[j] = Written(j, answers'[j].val)
    <3>1. CASE j = i
      BY <1>t, <1>3, <1>7, <1>8, <3>1
    <3>2. CASE j # i
      BY <1>3, <1>5, <1>8, <2>1, <3>2, AnswersKept
    <3> QED BY <3>1, <3>2
  <2>2. named'.val # 0 => /\ named'.at \in 1..Len(versions')
                          /\ versions'[named'.at].from = "names"
                          /\ versions'[named'.at].spec.tokens = named'.val
    BY <1>1, <1>3, <1>5, NamesKept
  <2> QED BY <2>1, <2>2 DEF AnswersBelongToVersions, Written
<1>12. NoSilentLoss'
  <2>1. SUFFICES ASSUME NEW j \in Items, answers'[j].val \in Values,
                        j[2] <= Current'.tokens, Current'.val[j] = "none"
                 PROVE  \E n \in answers'[j].at + 1..Len(versions') :
                          versions'[n].from \in {"form", "names"} \/ j \in versions'[n].lost
    BY DEF NoSilentLoss
  <2>2. j # i
    BY <1>3, <1>7, <1>8, <2>1, DesignSessionAssumption DEF Written
  <2>3. PICK n \in answers[j].at + 1..Len(versions) :
          versions[n].from \in {"form", "names"} \/ j \in versions[n].lost
    BY <1>3, <1>7, <1>8, <2>1, <2>2 DEF Inv, NoSilentLoss
  <2>4. answers[j].at \in Nat
    BY <1>t DEF Answer
  <2> QED BY <1>t, <1>7, <1>8, <2>2, <2>3, <2>4
<1> QED BY <1>9, <1>10, <1>11, <1>12 DEF Inv

LEMMA RecordNamesKeeps == ASSUME Inv, NEW c \in Recorders, RecordNames(c) PROVE Inv'
<1>1. PICK m \in 1..MaxTokens :
        /\ call[c].at = "locked"
        /\ Add("names", Resize(call[c].base, m), Resize(call[c].base, m), {}, FALSE)
        /\ named' = [val |-> m, at |-> Len(versions) + 1]
        /\ lock' = Free /\ after' = {} /\ SetCall(c, "over") /\ UNCHANGED answers /\ Unsaid
  BY DEF RecordNames
<1>2. c \in Writers /\ call[c].base = Current
  BY <1>1 DEF Writers, Inv, HoldsCurrent
<1>t. /\ versions \in Seq(Version) /\ answers \in [Items -> Answer] /\ Current \in Design
      /\ Len(versions) \in Nat /\ m \in 0..MaxTokens
  BY CurrentIsDesign, DesignSessionAssumption DEF Inv, TypeOK
<1> DEFINE d == Resize(Current, m)
<1>3. d \in Design /\ d.tokens = m
  BY <1>t, ResizeShape
<1>4. Add("names", d, d, {}, FALSE)
  BY <1>1, <1>2
<1> HIDE DEF d
<1>5. /\ versions' \in Seq(Version) /\ Len(versions') = Len(versions) + 1
      /\ versions'[Len(versions) + 1] =
           [from |-> "names", spec |-> d, given |-> d, lost |-> {}, quiet |-> FALSE]
  BY <1>t, <1>3, <1>4, AddShape
<1>6. /\ HoldsCurrent'
      /\ lock' \in Writers \cup {Free} /\ (lock' # Free => call'[lock'].at = "locked")
      /\ call' \in [Calls -> Call] /\ turn' \in [Turns -> Turn]
      /\ after' \subseteq Turns /\ announced' \subseteq Turns \X Nat
  BY <1>1, <1>2, EndsTransaction
<1>7. TypeOK'
  BY <1>1, <1>t, <1>5, <1>6 DEF TypeOK, Named
<1>8. AnswersBelongToVersions'
  <2>1. ASSUME NEW j \in Items, answers'[j].val # "none"
        PROVE  /\ answers'[j].at \in 1..Len(versions')
               /\ versions'[answers'[j].at].from = "answer"
               /\ versions'[answers'[j].at].spec.val[j] = Written(j, answers'[j].val)
    BY <1>1, <1>3, <1>4, <2>1, AnswersKept
  <2>2. /\ named'.at \in 1..Len(versions')
        /\ versions'[named'.at].from = "names" /\ versions'[named'.at].spec.tokens = named'.val
    BY <1>1, <1>t, <1>3, <1>5
  <2> QED BY <2>1, <2>2 DEF AnswersBelongToVersions, Written
<1>9. NoSilentLoss'
  <2>1. ASSUME NEW j \in Items, answers[j].val \in Values
        PROVE  Len(versions') \in answers[j].at + 1..Len(versions')
    BY <1>t, <1>5, <2>1, DesignSessionAssumption DEF Inv, AnswersBelongToVersions
  <2> QED BY <1>1, <1>5, <2>1 DEF NoSilentLoss
<1> QED BY <1>6, <1>7, <1>8, <1>9 DEF Inv

(* A whole design: what the merge could not put back is in the report.     *)
LEMMA SaveKeeps == ASSUME Inv, NEW c \in Savers, Save(c) PROVE Inv'
<1>1. PICK g \in Drafts :
        /\ call[c].at = "locked" /\ Add("save", Merge(g), g, Failed(g), FALSE)
        /\ lock' = Free /\ after' = {} /\ SetCall(c, "over")
        /\ UNCHANGED <<answers, named>> /\ Unsaid
  BY DEF Save
<1>2. c \in Writers /\ g \in Design
  BY DesignSessionAssumption DEF Writers
<1>t. /\ versions \in Seq(Version) /\ answers \in [Items -> Answer] /\ named \in Named
      /\ Len(versions) \in Nat
  BY DEF Inv, TypeOK
<1> DEFINE d == Merge(g)  lost == Failed(g)
<1>3. /\ d \in Design /\ lost \in SUBSET Items
      /\ \A i \in Items : answers[i].val \in Values /\ i \notin lost /\ i[2] <= d.tokens
                          => d.val[i] # "none"
  BY <1>2, <1>t, MergeShape
<1>4. Add("save", d, g, lost, FALSE)
  BY <1>1
<1> HIDE DEF d, lost
<1>5. /\ versions' \in Seq(Version) /\ Len(versions') = Len(versions) + 1
      /\ versions'[Len(versions) + 1] =
           [from |-> "save", spec |-> d, given |-> g, lost |-> lost, quiet |-> FALSE]
      /\ Current' = d
  BY <1>2, <1>t, <1>3, <1>4, AddShape
<1>6. /\ HoldsCurrent'
      /\ lock' \in Writers \cup {Free} /\ (lock' # Free => call'[lock'].at = "locked")
      /\ call' \in [Calls -> Call] /\ turn' \in [Turns -> Turn]
      /\ after' \subseteq Turns /\ announced' \subseteq Turns \X Nat
  BY <1>1, <1>2, EndsTransaction
<1>7. TypeOK'
  BY <1>1, <1>t, <1>5, <1>6 DEF TypeOK
<1>8. AnswersBelongToVersions'
  <2>1. ASSUME NEW j \in Items, answers'[j].val # "none"
        PROVE  /\ answers'[j].at \in 1..Len(versions')
               /\ versions'[answers'[j].at].from = "answer"
               /\ versions'[answers'[j].at].spec.val[j] = Written(j, answers'[j].val)
    BY <1>1, <1>2, <1>3, <1>4, <2>1, AnswersKept
  <2>2. named'.val # 0 => /\ named'.at \in 1..Len(versions')
                          /\ versions'[named'.at].from = "names"
                          /\ versions'[named'.at].spec.tokens = named'.val
    BY <1>1, <1>2, <1>3, <1>4, NamesKept
  <2> QED BY <2>1, <2>2 DEF AnswersBelongToVersions, Written
<1>9. NoSilentLoss'
  <2>1. ASSUME NEW j \in Items, answers[j].val \in Values
        PROVE  Len(versions') \in answers[j].at + 1..Len(versions')
    BY <1>t, <1>5, <2>1, DesignSessionAssumption DEF Inv, AnswersBelongToVersions
  <2> QED BY <1>1, <1>3, <1>5, <2>1 DEF NoSilentLoss
<1> QED BY <1>6, <1>7, <1>8, <1>9 DEF Inv

(* The form waits for the row, so no call is inside a transaction whose    *)
(* reading it would make stale.                                            *)
LEMMA PutKeeps == ASSUME Inv, NEW c \in Tabs, Put(c) PROVE Inv'
<1>1. PICK d \in Drafts :
        /\ call[c].at = "asked" /\ lock = Free /\ Add("form", d, d, {}, call[c].alone)
        /\ after' = call[c].said /\ SetCall(c, "over")
        /\ UNCHANGED <<answers, named, lock>> /\ Unsaid
  BY DEF Put
<1>2. c \in Calls /\ d \in Design
  BY DesignSessionAssumption DEF Calls
<1>t. /\ versions \in Seq(Version) /\ answers \in [Items -> Answer] /\ named \in Named
      /\ call \in [Calls -> Call] /\ Len(versions) \in Nat
  BY DEF Inv, TypeOK
<1>3. call[c].alone \in BOOLEAN /\ call[c].said \subseteq Turns
  BY <1>2, <1>t DEF Call
<1> DEFINE alone == call[c].alone
<1>4. Add("form", d, d, {}, alone) /\ alone \in BOOLEAN
  BY <1>1, <1>3
<1> HIDE DEF alone
<1>5. /\ versions' \in Seq(Version) /\ Len(versions') = Len(versions) + 1
      /\ versions'[Len(versions) + 1] =
           [from |-> "form", spec |-> d, given |-> d, lost |-> {}, quiet |-> alone]
  BY <1>2, <1>t, <1>4, AddShape
<1>6. call' \in [Calls -> Call] /\ call'[c].at = "over" /\ \A b \in Calls \ {c} : call'[b] = call[b]
  BY <1>1, <1>2, <1>t, SetCallShape
<1>7. TypeOK'
  BY <1>1, <1>t, <1>3, <1>5, <1>6 DEF Inv, TypeOK, Unsaid
<1>8. \A b \in Writers : call[b].at # "locked"
  BY <1>1, DesignSessionAssumption DEF Inv, HoldsCurrent, Calls
<1>9. HoldsCurrent'
  BY <1>6, <1>8, DesignSessionAssumption DEF HoldsCurrent, Calls
<1>10. AnswersBelongToVersions'
  <2>1. ASSUME NEW j \in Items, answers'[j].val # "none"
        PROVE  /\ answers'[j].at \in 1..Len(versions')
               /\ versions'[answers'[j].at].from = "answer"
               /\ versions'[answers'[j].at].spec.val[j] = Written(j, answers'[j].val)
    BY <1>1, <1>2, <1>3, <2>1, AnswersKept
  <2>2. named'.val # 0 => /\ named'.at \in 1..Len(versions')
                          /\ versions'[named'.at].from = "names"
                          /\ versions'[named'.at].spec.tokens = named'.val
    BY <1>1, <1>2, <1>3, NamesKept
  <2> QED BY <2>1, <2>2 DEF AnswersBelongToVersions, Written
<1>11. NoSilentLoss'
  <2>1. ASSUME NEW j \in Items, answers[j].val \in Values
        PROVE  Len(versions') \in answers[j].at + 1..Len(versions')
    BY <1>t, <1>5, <2>1, DesignSessionAssumption DEF Inv, AnswersBelongToVersions
  <2> QED BY <1>1, <1>5, <2>1 DEF NoSilentLoss
<1> QED BY <1>7, <1>9, <1>10, <1>11 DEF Inv

LEMMA NextInv == Inv /\ [Next]_vars => Inv'
<1> SUFFICES ASSUME Inv, [Next]_vars PROVE Inv'
  OBVIOUS
<1>1. CASE Next
  BY <1>1, BeginKeeps, RollbackKeeps, RecordKeeps, RecordNamesKeeps, SaveKeeps, AskKeeps,
     PutKeeps, TurnKeeps DEF Next
<1>2. CASE UNCHANGED vars
  <2>1. UNCHANGED Store /\ UNCHANGED <<lock, call, turn, after, announced>>
    BY <1>2 DEF vars, Store
  <2>2. TypeOK' /\ HoldsCurrent'
    BY <2>1 DEF Inv, TypeOK, HoldsCurrent, Store, Current
  <2> QED BY <2>1, <2>2, StoreKept
<1> QED BY <1>1, <1>2

LEMMA SessionInv == Spec => []Inv
<1>1. Init => Inv
  BY InitInv
<1>2. Inv /\ [Next]_vars => Inv'
  BY NextInv
<1> QED BY <1>1, <1>2, PTL DEF Spec

(* Every state of a session is well typed, the holder of the row lock      *)
(* being a call inside its transaction.                                    *)
THEOREM SessionType == Spec => []TypeOK
BY SessionInv, PTL DEF Inv

(* An answer's row and the version it names were written together.         *)
THEOREM SavedTogether == Spec => []AnswersBelongToVersions
BY SessionInv, PTL DEF Inv

(* No value the designer gave leaves the design silently.                  *)
THEOREM NothingLostSilently == Spec => []NoSilentLoss
BY SessionInv, PTL DEF Inv

------------------------------------------------------------------------------
(* The note of a form edit.                                                *)

(* A form's save during which no turn ran waits in a session where no turn *)
(* runs, and nothing has been said since it began.                         *)
Alone ==
  \A c \in Tabs :
    /\ call[c].at = "idle" => call[c].said = {}
    /\ call[c].at = "asked" /\ call[c].alone => Active = {} /\ call[c].said = {}

(* Notes are about versions that exist.                                    *)
Noted == /\ \A t \in Turns : turn[t].note <= Len(versions)
         /\ \A e \in announced : e[2] \in 1..Len(versions)

(* The latest design, saved by the form while no turn was running.  A      *)
(* message stored since is of a turn that did not fail; it tells of the    *)
(* design if its turn had the note, and if not, another turn had it.       *)
Heard(n) == \E t \in Turns : turn[t].note = n /\ (turn[t].at = "failed" \/ <<t, n>> \in announced)
Since(n) ==
  /\ \A t \in after : turn[t].at \in {"said", "more", "over"}
  /\ \A t \in Turns : turn[t].note = n /\ (turn[t].at \in {"said", "more"} \/ t \in after)
                      => <<t, n>> \in announced
  /\ \A t \in Turns : <<t, n>> \in announced => t \in after /\ turn[t].note = n
  /\ \A t \in Active \cup after : turn[t].note = n \/ Heard(n)
Quietly == /\ versions # << >> /\ versions[Len(versions)].from = "form"
           /\ versions[Len(versions)].quiet
Heeded == Quietly => Since(Len(versions))

Telling == Alone /\ Noted /\ Heeded

LEMMA InitTelling == Init => Telling
<1> SUFFICES ASSUME Init PROVE Telling
  OBVIOUS
<1>1. Alone
  BY DesignSessionAssumption DEF Init, Alone, Calls
<1>2. Noted /\ Heeded
  BY DEF Init, Noted, Heeded, Quietly
<1> QED
  BY <1>1, <1>2 DEF Telling

(* Nothing of it is touched by a step that leaves turns and messages, and  *)
(* adds no version.                                                        *)
LEMMA TellingKept ==
  ASSUME Telling, UNCHANGED <<versions, turn, after, announced>>, Alone'
  PROVE  Telling'
<1>1. Active' = Active
  BY DEF Active
<1> QED
  BY <1>1 DEF Telling, Noted, Heeded, Quietly, Since, Heard

LEMMA AloneKept ==
  ASSUME Alone, UNCHANGED turn,
         \A c \in Tabs : call'[c] = call[c] \/ call'[c].at = "over"
  PROVE  Alone'
<1>1. Active' = Active
  BY DEF Active
<1> QED
  BY <1>1 DEF Alone

(* A version that was not saved quietly by the form needs no note.         *)
LEMMA AddTelling ==
  ASSUME Inv, Telling, UNCHANGED <<turn, announced>>, Alone',
         Len(versions') = Len(versions) + 1,
         Quietly' => Active = {} /\ after' = {}
  PROVE  Telling'
<1>1. Len(versions) \in Nat /\ turn \in [Turns -> Turn]
  BY DEF Inv, TypeOK
<1>2. Noted'
  <2>1. \A t \in Turns : turn[t].note \in Nat
    BY <1>1 DEF Turn
  <2> QED
    BY <1>1, <2>1 DEF Telling, Noted
<1>3. ASSUME Quietly' PROVE Since(Len(versions))'
  <2>1. Active' = {} /\ after' = {}
    BY <1>3 DEF Active
  <2>2. \A t \in Turns : <<t, Len(versions) + 1>> \notin announced
    BY <1>1 DEF Telling, Noted
  <2>3. \A t \in Turns : turn'[t].at \notin {"said", "more"}
    BY <2>1 DEF Active
  <2> QED
    BY <2>1, <2>2, <2>3 DEF Since
<1> QED
  BY <1>2, <1>3 DEF Telling, Heeded

LEMMA WriterTelling ==
  ASSUME Inv, Telling, NEW c \in Writers,
         \/ Begin(c) \/ Rollback(c)
         \/ c \in Recorders /\ (Record(c) \/ RecordNames(c))
         \/ c \in Savers /\ Save(c)
  PROVE  Telling'
<1>1. call \in [Calls -> Call] /\ c \in Calls /\ c \notin Tabs /\ versions \in Seq(Version)
  BY DesignSessionAssumption DEF Inv, TypeOK, Calls
<1>2. \A d \in Tabs : d \in Calls /\ call'[d] = call[d]
  BY <1>1 DEF Calls, Begin, Rollback, Record, RecordNames, Save, SetCall
<1>3. UNCHANGED <<turn, announced>>
  BY DEF Begin, Rollback, Record, RecordNames, Save, Unsaid
<1>4. Alone'
  BY <1>2, <1>3, AloneKept DEF Telling
<1>5. CASE UNCHANGED <<versions, after>>
  BY <1>3, <1>4, <1>5, TellingKept
<1>6. ASSUME NEW from \in {"answer", "names", "save"}, NEW d, NEW given, NEW lost,
             Add(from, d, given, lost, FALSE)
      PROVE  Telling'
  <2> DEFINE v == [from |-> from, spec |-> d, given |-> given, lost |-> lost, quiet |-> FALSE]
  <2>1. versions' = Append(versions, v) /\ v.quiet = FALSE
    BY <1>6 DEF Add
  <2> HIDE DEF v
  <2>2. Len(versions') = Len(versions) + 1 /\ versions'[Len(versions')] = v
    BY <1>1, <2>1
  <2>3. ~Quietly'
    BY <2>1, <2>2 DEF Quietly
  <2> QED
    BY <1>3, <1>4, <2>2, <2>3, AddTelling
<1> QED
  BY <1>5, <1>6 DEF Begin, Rollback, Record, RecordNames, Save

LEMMA TabTelling ==
  ASSUME Inv, Telling, NEW c \in Tabs, Ask(c) \/ Put(c)
  PROVE  Telling'
<1>1. call \in [Calls -> Call] /\ c \in Calls /\ Tabs \subseteq Calls /\ versions \in Seq(Version)
  BY DEF Inv, TypeOK, Calls
<1>2. CASE Ask(c)
  <2> DEFINE b == Active = {}
  <2>1. /\ call' = [call EXCEPT ![c] = [@ EXCEPT !.at = "asked", !.alone = b]]
        /\ call[c].at = "idle" /\ UNCHANGED <<versions, turn, after, announced>>
    BY <1>2 DEF Ask, Unsaid
  <2> HIDE DEF b
  <2>2. /\ call'[c].at = "asked" /\ call'[c].alone = b /\ call'[c].said = call[c].said
        /\ \A d \in Tabs \ {c} : call'[d] = call[d]
    BY <1>1, <2>1 DEF Call
  <2>3. Active' = Active /\ call[c].said = {}
    BY <2>1 DEF Active, Telling, Alone
  <2>4. Alone'
    BY <2>2, <2>3 DEF Telling, Alone, b
  <2> QED
    BY <2>1, <2>4, TellingKept
<1>3. CASE Put(c)
  <2>1. PICK d \in Drafts :
          /\ call[c].at = "asked" /\ Add("form", d, d, {}, call[c].alone)
          /\ after' = call[c].said /\ SetCall(c, "over") /\ UNCHANGED <<turn, announced>>
    BY <1>3 DEF Put, Unsaid
  <2> DEFINE alone == call[c].alone
             v == [from |-> "form", spec |-> d, given |-> d, lost |-> {}, quiet |-> alone]
  <2>2. versions' = Append(versions, v)
    BY <2>1 DEF Add
  <2> HIDE DEF alone
  <2>3. v.quiet = alone
    OBVIOUS
  <2> HIDE DEF v
  <2>4. Len(versions') = Len(versions) + 1 /\ versions'[Len(versions')] = v
    BY <1>1, <2>2
  <2>5. Quietly' => alone
    BY <2>3, <2>4 DEF Quietly
  <2>6. alone => Active = {} /\ after' = {}
    BY <2>1 DEF Telling, Alone, alone
  <2>7. Alone'
    BY <1>1, <2>1, SetCallShape, AloneKept DEF Telling
  <2> QED
    BY <2>1, <2>4, <2>5, <2>6, <2>7, AddTelling
<1> QED
  BY <1>2, <1>3

(* A turn loads what there is to be told, and a form's save that waits is  *)
(* no longer alone.                                                        *)
LEMMA LoadTelling ==
  ASSUME Inv, Telling, NEW t \in Turns, TurnLoad(t)
  PROVE  Telling'
<1> DEFINE n == Len(versions)
           note == IF Unseen THEN n ELSE 0
<1>1. /\ turn' = [turn EXCEPT ![t] = [at |-> "loaded", note |-> note]]
      /\ turn[t].at = "idle" /\ call' = [c \in Calls |-> [call[c] EXCEPT !.alone = FALSE]]
      /\ UNCHANGED <<versions, after, announced>>
  BY DEF TurnLoad
<1>2. /\ turn \in [Turns -> Turn] /\ call \in [Calls -> Call] /\ n \in Nat /\ Tabs \subseteq Calls
      /\ after \subseteq Turns
  BY DEF Inv, TypeOK, Calls
<1>3. note \in Nat /\ note <= n
  BY <1>2
<1> HIDE DEF note
<1>4. /\ turn'[t].at = "loaded" /\ turn'[t].note = note
      /\ \A u \in Turns \ {t} : turn'[u] = turn[u]
  BY <1>1, <1>2
<1>5. Alone'
  <2>1. \A c \in Tabs : /\ call'[c].at = call[c].at /\ call'[c].alone = FALSE
                        /\ call'[c].said = call[c].said
    BY <1>1, <1>2 DEF Call
  <2> QED
    BY <2>1 DEF Telling, Alone
<1>6. Noted'
  BY <1>1, <1>3, <1>4 DEF Telling, Noted
<1>7. ASSUME Quietly PROVE Since(n)'
  <2>1. Since(n)
    BY <1>7 DEF Telling, Heeded
  <2>2. t \notin after /\ <<t, n>> \notin announced
    BY <1>1, <2>1 DEF Since
  <2>3. ASSUME Heard(n) PROVE Heard(n)'
    <3>1. PICK u \in Turns : turn[u].note = n /\ (turn[u].at = "failed" \/ <<u, n>> \in announced)
      BY <2>3 DEF Heard
    <3>2. u # t
      BY <1>1, <2>2, <3>1
    <3> QED
      BY <1>1, <1>4, <3>1, <3>2 DEF Heard
  <2>4. note = n \/ Heard(n)
    <3>1. CASE after = {}
      BY <1>7, <3>1 DEF note, Unseen, Quietly
    <3>2. CASE after # {}
      BY <1>2, <2>1, <3>2 DEF Since, Heard
    <3> QED
      BY <3>1, <3>2
  <2>5. \A u \in Active' : u = t \/ u \in Active
    BY <1>4 DEF Active
  <2>6. \A u \in Active' \cup after' : turn'[u].note = n \/ Heard(n)'
    BY <1>1, <1>2, <1>4, <2>1, <2>2, <2>3, <2>4, <2>5 DEF Since, Active
  <2> QED
    BY <1>1, <1>2, <1>4, <2>1, <2>2, <2>6 DEF Since
<1> QED
  BY <1>1, <1>5, <1>6, <1>7 DEF Telling, Heeded, Quietly

(* A message is stored, the first of a turn with its note.                 *)
LEMMA SayTelling ==
  ASSUME Inv, Telling, NEW t \in Turns, TurnSay(t) \/ TurnMore(t)
  PROVE  Telling'
<1> DEFINE n == Len(versions)
<1>1. PICK at \in {"said", "more"} :
        /\ SetTurn(t, at) /\ Stores(t) /\ UNCHANGED versions /\ t \in Active
        /\ at = "said" => /\ turn[t].at = "loaded"
                          /\ announced' = announced \cup (IF turn[t].note = 0 THEN {} ELSE {<<t, turn[t].note>>})
        /\ at = "more" => turn[t].at \in {"said", "more"} /\ UNCHANGED announced
  BY DEF TurnSay, TurnMore, Active
<1>2. /\ turn \in [Turns -> Turn] /\ call \in [Calls -> Call] /\ n \in Nat /\ Tabs \subseteq Calls
      /\ after \subseteq Turns
  BY DEF Inv, TypeOK, Calls
<1>3. /\ turn'[t].at = at /\ turn'[t].note = turn[t].note
      /\ \A u \in Turns \ {t} : turn'[u] = turn[u]
  BY <1>1, <1>2 DEF SetTurn, Turn
<1>4. /\ after' = after \cup {t} /\ announced \subseteq announced'
      /\ \A e \in announced' : e \in announced \/ (e = <<t, turn[t].note>> /\ turn[t].note # 0)
  BY <1>1 DEF Stores
<1>5. Active' = Active
  BY <1>1, <1>3 DEF Active
<1>6. Alone'
  <2>1. \A c \in Tabs : /\ call'[c].at = call[c].at /\ call'[c].alone = call[c].alone
                        /\ call[c].at # "asked" => call'[c].said = call[c].said
    BY <1>1, <1>2 DEF Stores, Call
  <2>2. Active # {}
    BY <1>1
  <2> QED
    BY <1>5, <2>1, <2>2 DEF Telling, Alone
<1>7. Noted'
  <2>1. turn[t].note \in Nat /\ turn[t].note <= n
    BY <1>2 DEF Telling, Noted, Turn
  <2>2. turn[t].note # 0 => turn[t].note \in 1..n
    BY <1>2, <2>1
  <2> QED
    BY <1>1, <1>3, <1>4, <2>1, <2>2 DEF Telling, Noted
<1>8. ASSUME Quietly PROVE Since(n)'
  <2>1. Since(n) /\ n # 0
    BY <1>2, <1>8 DEF Telling, Heeded, Quietly, Inv, TypeOK
  <2>2. Heard(n) => Heard(n)'
    BY <1>1, <1>3, <1>4 DEF Heard, Active
  <2>3. ASSUME turn[t].note = n PROVE <<t, n>> \in announced'
    <3>1. CASE at = "said"
      BY <1>1, <2>1, <2>3, <3>1
    <3>2. CASE at = "more"
      BY <1>1, <1>4, <2>1, <2>3, <3>2 DEF Since
    <3> QED
      BY <3>1, <3>2
  <2>4. \A u \in Active' \cup after' : turn'[u].note = n \/ Heard(n)'
    BY <1>1, <1>2, <1>3, <1>4, <1>5, <2>1, <2>2 DEF Since, Active
  <2>5. \A u \in Turns : <<u, n>> \in announced' => u \in after' /\ turn'[u].note = n
    BY <1>1, <1>3, <1>4, <2>1 DEF Since
  <2>6. \A u \in Turns : turn'[u].note = n /\ (turn'[u].at \in {"said", "more"} \/ u \in after')
                         => <<u, n>> \in announced'
    BY <1>2, <1>3, <1>4, <2>1, <2>3 DEF Since
  <2>7. \A u \in after' : turn'[u].at \in {"said", "more", "over"}
    BY <1>2, <1>3, <1>4, <2>1 DEF Since
  <2> QED
    BY <1>1, <2>4, <2>5, <2>6, <2>7 DEF Since
<1> QED
  BY <1>1, <1>6, <1>7, <1>8 DEF Telling, Heeded, Quietly

LEMMA EndTelling ==
  ASSUME Inv, Telling, NEW t \in Turns, TurnEnd(t)
  PROVE  Telling'
<1> DEFINE n == Len(versions)
<1>1. /\ SetTurn(t, "over") /\ t \in Active /\ UNCHANGED <<versions, call, after, announced>>
      /\ turn \in [Turns -> Turn] /\ after \subseteq Turns
  BY DEF TurnEnd, Inv, TypeOK
<1>2. /\ turn'[t].at = "over" /\ turn'[t].note = turn[t].note
      /\ \A u \in Turns \ {t} : turn'[u] = turn[u]
  BY <1>1 DEF SetTurn, Turn
<1>3. Active' \subseteq Active
  BY <1>1, <1>2 DEF Active
<1>4. Alone' /\ Noted'
  BY <1>1, <1>2, <1>3 DEF Telling, Alone, Noted
<1>5. ASSUME Quietly PROVE Since(n)'
  <2>1. Since(n)
    BY <1>5 DEF Telling, Heeded
  <2>2. Heard(n) => Heard(n)'
    BY <1>1, <1>2 DEF Heard, Active
  <2>3. \A u \in Active' \cup after' : turn'[u].note = n \/ Heard(n)'
    BY <1>1, <1>2, <1>3, <2>1, <2>2 DEF Since, Active
  <2>4. \A u \in Turns : turn'[u].note = n /\ (turn'[u].at \in {"said", "more"} \/ u \in after')
                         => <<u, n>> \in announced'
    BY <1>1, <1>2, <2>1 DEF Since
  <2> QED
    BY <1>1, <1>2, <2>1, <2>3, <2>4 DEF Since
<1> QED
  BY <1>1, <1>4, <1>5 DEF Telling, Heeded, Quietly

(* What the message told is told no longer, but its turn has had the note. *)
LEMMA FailTelling ==
  ASSUME Inv, Telling, NEW t \in Turns, TurnFails(t)
  PROVE  Telling'
<1> DEFINE n == Len(versions)
<1>1. /\ SetTurn(t, "failed") /\ turn[t].at = "said" /\ UNCHANGED versions
      /\ after' = after \ {t} /\ announced' = announced \ ({t} \X Nat)
      /\ call' = [c \in Calls |-> [call[c] EXCEPT !.said = @ \ {t}]]
  BY DEF TurnFails
<1>2. /\ turn \in [Turns -> Turn] /\ call \in [Calls -> Call] /\ n \in Nat /\ Tabs \subseteq Calls
      /\ after \subseteq Turns /\ announced \subseteq Turns \X Nat
  BY DEF Inv, TypeOK, Calls
<1>3. /\ turn'[t].at = "failed" /\ turn'[t].note = turn[t].note
      /\ \A u \in Turns \ {t} : turn'[u] = turn[u]
  BY <1>1, <1>2 DEF SetTurn, Turn
<1>4. /\ announced' \subseteq announced /\ <<t, n>> \notin announced'
      /\ \A u \in Turns \ {t} : <<u, n>> \in announced => <<u, n>> \in announced'
  BY <1>1, <1>2
<1>5. Active' \subseteq Active \ {t}
  BY <1>1, <1>3 DEF Active
<1>6. Alone'
  <2>1. \A c \in Tabs : /\ call'[c].at = call[c].at /\ call'[c].alone = call[c].alone
                        /\ call'[c].said \subseteq call[c].said
    BY <1>1, <1>2 DEF Call
  <2> QED
    BY <1>5, <2>1 DEF Telling, Alone
<1>7. Noted'
  BY <1>1, <1>3, <1>4 DEF Telling, Noted
<1>8. ASSUME Quietly PROVE Since(n)'
  <2>1. Since(n)
    BY <1>8 DEF Telling, Heeded
  <2>2. ASSUME Heard(n) PROVE Heard(n)'
    <3>1. PICK u \in Turns : turn[u].note = n /\ (turn[u].at = "failed" \/ <<u, n>> \in announced)
      BY <2>2 DEF Heard
    <3>2. turn'[u].note = n /\ (turn'[u].at = "failed" \/ <<u, n>> \in announced')
      BY <1>3, <1>4, <3>1
    <3> QED
      BY <1>1, <3>2 DEF Heard
  <2>3. \A u \in Active' \cup after' : turn'[u].note = n \/ Heard(n)'
    BY <1>1, <1>2, <1>3, <1>5, <2>1, <2>2 DEF Since, Active
  <2>4. \A u \in Turns : turn'[u].note = n /\ (turn'[u].at \in {"said", "more"} \/ u \in after')
                         => <<u, n>> \in announced'
    BY <1>1, <1>3, <1>4, <2>1 DEF Since
  <2>5. \A u \in Turns : <<u, n>> \in announced' => u \in after' /\ turn'[u].note = n
    BY <1>1, <1>3, <1>4, <2>1 DEF Since
  <2>6. \A u \in after' : turn'[u].at \in {"said", "more", "over"}
    BY <1>1, <1>2, <1>3, <2>1 DEF Since
  <2> QED
    BY <1>1, <2>3, <2>4, <2>5, <2>6 DEF Since
<1> QED
  BY <1>1, <1>6, <1>7, <1>8 DEF Telling, Heeded, Quietly

LEMMA NextTelling ==
  ASSUME Inv, Telling, [Next]_vars
  PROVE  Telling'
<1>1. CASE UNCHANGED vars
  <2>1. UNCHANGED <<versions, turn, after, announced>> /\ UNCHANGED call
    BY <1>1 DEF vars
  <2>2. Alone'
    BY <2>1, AloneKept DEF Telling
  <2> QED
    BY <2>1, <2>2, TellingKept
<1>2. ASSUME NEW c \in Recorders, Record(c) \/ RecordNames(c) PROVE Telling'
  BY <1>2, WriterTelling DEF Writers
<1>3. ASSUME NEW c \in Savers, Save(c) PROVE Telling'
  BY <1>3, WriterTelling DEF Writers
<1>4. ASSUME NEW c \in Writers, Begin(c) \/ Rollback(c) PROVE Telling'
  BY <1>4, WriterTelling
<1> QED
  BY <1>1, <1>2, <1>3, <1>4, TabTelling, LoadTelling, SayTelling, EndTelling, FailTelling DEF Next

(* The note follows from what has been said since.                         *)
LEMMA LoadIsNews ==
  ASSUME Inv, Telling, [Next]_vars, NEW t \in Turns, Loads(t), Active = {}, Quietly
  PROVE  /\ turn'[t].note # 0 => ~Told(Len(versions))
         /\ ~Told(Len(versions)) => turn'[t].note # 0 \/ Hidden(Len(versions))
<1> DEFINE n == Len(versions)
<1>1. n \in Nat /\ n # 0 /\ turn \in [Turns -> Turn] /\ after \subseteq Turns
  BY DEF Inv, TypeOK, Quietly
<1>2. TurnLoad(t)
  <2>1. turn' # turn
    BY DEF Loads
  <2>2. PICK u \in Turns : TurnLoad(u) \/ TurnSay(u) \/ TurnMore(u) \/ TurnEnd(u) \/ TurnFails(u)
    BY <2>1 DEF Next, vars, Begin, Rollback, Record, RecordNames, Save, Ask, Put, Unsaid
  <2>3. TurnLoad(u)
    BY <1>1, <2>2 DEF Loads, TurnSay, TurnMore, TurnEnd, TurnFails, SetTurn, Turn, Active
  <2>4. u = t
    BY <1>1, <2>3 DEF Loads, TurnLoad
  <2> QED
    BY <2>3, <2>4
<1>3. turn'[t].note = IF after = {} THEN n ELSE 0
  BY <1>1, <1>2 DEF TurnLoad, Unseen, Quietly
<1>4. Since(n)
  BY DEF Telling, Heeded
<1>5. CASE after = {}
  BY <1>1, <1>3, <1>4, <1>5 DEF Since, Told
<1>6. ASSUME after # {}, ~Told(n) PROVE Hidden(n)
  <2>1. PICK u \in after : TRUE
    BY <1>6
  <2>2. Heard(n)
    BY <1>1, <1>4, <2>1 DEF Since, Heard
  <2>3. PICK w \in Turns : turn[w].note = n /\ turn[w].at = "failed"
    BY <1>6, <2>2 DEF Heard, Told
  <2>4. u # w
    BY <1>4, <2>1, <2>3 DEF Since
  <2> QED
    BY <2>1, <2>3, <2>4 DEF Hidden
<1> QED
  BY <1>3, <1>5, <1>6

(* A turn that starts alone tells the model of a design the form saved     *)
(* while nobody spoke exactly when no message does, unless the message     *)
(* that did was deleted from beside another (spec_from_form_unseen).       *)
THEOREM NoteOnce == Spec => NoteIsNews
<1>1. Init => Telling
  BY InitTelling
<1>2. Inv /\ Telling /\ [Next]_vars => Telling'
  BY NextTelling
<1>3. Inv /\ Telling /\ [Next]_vars =>
        [\A t \in Turns :
           Loads(t) /\ Active = {} /\ versions # << >> =>
             LET n == Len(versions) IN
               versions[n].from = "form" /\ versions[n].quiet =>
                 /\ turn'[t].note # 0 => ~Told(n)
                 /\ ~Told(n) => turn'[t].note # 0 \/ Hidden(n)]_vars
  BY LoadIsNews DEF Quietly
<1> QED
  BY <1>1, <1>2, <1>3, SessionInv, PTL DEF Spec, NoteIsNews

------------------------------------------------------------------------------
(* The refinement.                                                         *)

History == [n \in 1..Len(versions) |-> Entry(versions[n])]
Given   == [i \in Items |-> answers[i].val]

LEMMA EntriesShape ==
  ASSUME NEW w \in Seq(Version)
  PROVE  LET h == [n \in 1..Len(w) |-> Entry(w[n])] IN
           h \in Seq({Entry(v) : v \in Version}) /\ Len(h) = Len(w) /\ Len(w) \in Nat
<1>1. \A n \in 1..Len(w) : w[n] \in Version
  OBVIOUS
<1> QED BY <1>1

LEMMA HistoryShape ==
  ASSUME versions \in Seq(Version)
  PROVE  /\ Len(History) = Len(versions) /\ Len(versions) \in Nat
         /\ \A n \in 1..Len(versions) : History[n] = Entry(versions[n])
         /\ Ledger!Latest = Current
<1>1. Len(versions) \in Nat
  OBVIOUS
<1>2. History \in Seq({Entry(v) : v \in Version})
  BY EntriesShape DEF History
<1>3. Len(History) = Len(versions)
  BY EntriesShape DEF History
<1>4. \A n \in 1..Len(versions) : History[n] = Entry(versions[n])
  BY DEF History
<1>5. Ledger!Latest = IF History = << >> THEN Empty ELSE History[Len(History)].design
  BY DEF Ledger!Latest, History
<1>6. ASSUME versions = << >> PROVE Ledger!Latest = Current
  <2>1. History = << >>
    BY <1>2, <1>3, <1>6
  <2> QED BY <1>5, <1>6, <2>1 DEF Current
<1>7. ASSUME versions # << >> PROVE Ledger!Latest = Current
  <2>1. Len(versions) \in 1..Len(versions) /\ History # << >>
    BY <1>1, <1>2, <1>3, <1>7
  <2>2. History[Len(History)].design = versions[Len(versions)].spec
    <3>1. History[Len(versions)] = Entry(versions[Len(versions)])
      BY <1>4, <2>1
    <3>2. Entry(versions[Len(versions)]).design = versions[Len(versions)].spec
      BY DEF Entry
    <3> QED BY <1>3, <3>1, <3>2
  <2> QED BY <1>5, <1>7, <2>1, <2>2 DEF Current
<1> QED BY <1>1, <1>3, <1>4, <1>6, <1>7

(* A version that is added is one entry more of the history.               *)
LEMMA GrowsShape ==
  ASSUME versions \in Seq(Version), NEW from \in {"answer", "names", "save", "form"},
         NEW d \in Design, NEW given \in Design, NEW lost \in SUBSET Items, NEW quiet \in BOOLEAN,
         Add(from, d, given, lost, quiet)
  PROVE  /\ Ledger!Grows(from)
         /\ Ledger!New = [from |-> from, design |-> d, lost |-> lost]
<1>1. /\ versions' \in Seq(Version) /\ Len(versions) \in Nat /\ Len(versions') = Len(versions) + 1
      /\ \A n \in 1..Len(versions) : versions'[n] = versions[n]
      /\ versions'[Len(versions) + 1] =
           [from |-> from, spec |-> d, given |-> given, lost |-> lost, quiet |-> quiet]
  BY AddShape
<1>2. /\ Len(History) = Len(versions)
      /\ \A n \in 1..Len(versions) : History[n] = Entry(versions[n])
  BY HistoryShape
<1>3. /\ Len(History)' = Len(versions')
      /\ \A n \in 1..Len(versions') : History'[n] = Entry(versions'[n])
  <2>1. History' = [n \in 1..Len(versions') |-> Entry(versions'[n])]
    BY DEF History, Entry
  <2>2. Len(History') = Len(versions')
    <3> DEFINE w == versions'
    <3>1. w \in Seq(Version) /\ History' = [n \in 1..Len(w) |-> Entry(w[n])]
      BY <1>1, <2>1
    <3> HIDE DEF w
    <3>2. Len(History') = Len(w)
      BY <3>1, EntriesShape
    <3> QED BY <3>2 DEF w
  <2> QED BY <2>1, <2>2
<1>4. Ledger!New = History'[Len(History) + 1]
  BY DEF Ledger!New, History
<1>5. Ledger!New = [from |-> from, design |-> d, lost |-> lost]
  BY <1>1, <1>2, <1>3, <1>4 DEF Entry
<1>6. /\ Len(History)' = Len(History) + 1
      /\ \A n \in 1..Len(History) : History'[n] = History[n]
  BY <1>1, <1>2, <1>3
<1>7. Ledger!Grows(from)
  BY <1>5, <1>6 DEF Ledger!Grows, History
<1> QED BY <1>5, <1>7

LEMMA RecordAnswers == ASSUME Inv, NEW c \in Recorders, Record(c) PROVE Ledger!Answer
<1>1. PICK i \in Items, x \in Values \cup {"unknown"} :
        /\ call[c].at = "locked" /\ Fits(call[c].base, i)
        /\ Add("answer", Apply(call[c].base, i, x), Apply(call[c].base, i, x), {}, FALSE)
        /\ answers' = [answers EXCEPT ![i] =
             [val |-> x, at |-> Len(versions) + 1,
              early |-> IF @.val = "none" THEN named.val = 0 ELSE @.early]]
        /\ UNCHANGED named
  BY DEF Record
<1>2. c \in Writers /\ call[c].base = Current
  BY <1>1 DEF Writers, Inv, HoldsCurrent
<1>t. /\ versions \in Seq(Version) /\ answers \in [Items -> Answer] /\ Current \in Design
  BY CurrentIsDesign DEF Inv, TypeOK
<1> DEFINE d == Apply(Current, i, x)
           e == IF answers[i].val = "none" THEN named.val = 0 ELSE answers[i].early
<1>3. d \in Design /\ d.val[i] = Written(i, x)
  BY <1>t, ApplyShape
<1>4. d = [Current EXCEPT !.val = [@ EXCEPT ![i] = d.val[i]]]
  BY <1>3 DEF Apply
<1>5. Add("answer", d, d, {}, FALSE)
  BY <1>1, <1>2
<1>6. answers' = [answers EXCEPT ![i] = [val |-> x, at |-> Len(versions) + 1, early |-> e]]
  BY <1>1
<1> HIDE DEF d, e
<1>7. Ledger!Grows("answer") /\ Ledger!New = [from |-> "answer", design |-> d, lost |-> {}]
  BY <1>3, <1>5, <1>t, GrowsShape
<1>8. Ledger!Latest = Current
  BY <1>t, HistoryShape
<1>9. Given' = [Given EXCEPT ![i] = x] /\ Given'[i] = x
  BY <1>t, <1>6 DEF Given
<1>10. x \in Values => d.val[i] = x
  BY <1>3, DesignSessionAssumption DEF Written
<1>11. i[2] <= Current.tokens
  BY <1>1, <1>2 DEF Fits
<1>12. /\ Ledger!New.design = [Ledger!Latest EXCEPT !.val = [@ EXCEPT ![i] = Ledger!New.design.val[i]]]
       /\ Given' = [Given EXCEPT ![i] = Given'[i]]
       /\ Given'[i] \in Values => Ledger!New.design.val[i] = Given'[i]
       /\ i[2] <= Ledger!Latest.tokens
  BY <1>4, <1>7, <1>8, <1>9, <1>10, <1>11
<1> QED BY <1>1, <1>7, <1>12 DEF Ledger!Answer, Given

LEMMA RecordNamesNames == ASSUME Inv, NEW c \in Recorders, RecordNames(c) PROVE Ledger!Name
<1>1. PICK m \in 1..MaxTokens :
        /\ call[c].at = "locked"
        /\ Add("names", Resize(call[c].base, m), Resize(call[c].base, m), {}, FALSE)
        /\ named' = [val |-> m, at |-> Len(versions) + 1] /\ UNCHANGED answers
  BY DEF RecordNames
<1>2. c \in Writers /\ call[c].base = Current
  BY <1>1 DEF Writers, Inv, HoldsCurrent
<1>t. /\ versions \in Seq(Version) /\ Current \in Design /\ m \in 0..MaxTokens
  BY CurrentIsDesign, DesignSessionAssumption DEF Inv, TypeOK
<1> DEFINE d == Resize(Current, m)
<1>3. d \in Design /\ d.tokens = m /\ \A i \in Items : i[2] <= m => d.val[i] = Current.val[i]
  BY <1>t, ResizeShape
<1>4. Add("names", d, d, {}, FALSE)
  BY <1>1, <1>2
<1> HIDE DEF d
<1>5. Ledger!Grows("names") /\ Ledger!New = [from |-> "names", design |-> d, lost |-> {}]
  BY <1>3, <1>4, <1>t, GrowsShape
<1>6. Ledger!Latest = Current
  BY <1>t, HistoryShape
<1>7. named'.val = m /\ Given' = Given
  BY <1>1 DEF Given
<1> QED BY <1>3, <1>5, <1>6, <1>7 DEF Ledger!Name, Given

LEMMA SaveSaves == ASSUME Inv, NEW c \in Savers, Save(c) PROVE Ledger!Save
<1>1. PICK g \in Drafts :
        Add("save", Merge(g), g, Failed(g), FALSE) /\ UNCHANGED <<answers, named>>
  BY DEF Save
<1>2. g \in Design
  BY DesignSessionAssumption
<1>t. /\ versions \in Seq(Version) /\ answers \in [Items -> Answer] /\ named \in Named
  BY DEF Inv, TypeOK
<1> DEFINE d == Merge(g)  lost == Failed(g)
<1>3. /\ d \in Design /\ lost \in SUBSET Items
      /\ \A i \in Items : answers[i].val \in Values /\ i \notin lost /\ i[2] <= d.tokens
                          => d.val[i] # "none"
  BY <1>2, <1>t, MergeShape
<1>4. Add("save", d, g, lost, FALSE)
  BY <1>1
<1> HIDE DEF d, lost
<1>5. Ledger!Grows("save") /\ Ledger!New = [from |-> "save", design |-> d, lost |-> lost]
  BY <1>2, <1>3, <1>4, <1>t, GrowsShape
<1>6. \A i \in Items : Given[i] = answers[i].val
  BY DEF Given
<1>7. UNCHANGED Given /\ named'.val = named.val
  BY <1>1 DEF Given
<1> QED BY <1>3, <1>5, <1>6, <1>7 DEF Ledger!Save, Given

LEMMA PutPuts == ASSUME Inv, NEW c \in Tabs, Put(c) PROVE Ledger!Put
<1>1. PICK d \in Drafts :
        Add("form", d, d, {}, call[c].alone) /\ UNCHANGED <<answers, named>>
  BY DEF Put
<1>2. d \in Design /\ versions \in Seq(Version) /\ call[c].alone \in BOOLEAN
  BY DesignSessionAssumption DEF Inv, TypeOK, Call, Calls
<1> DEFINE alone == call[c].alone
<1>3. Add("form", d, d, {}, alone) /\ alone \in BOOLEAN
  BY <1>1, <1>2
<1> HIDE DEF alone
<1>4. Ledger!Grows("form")
  BY <1>2, <1>3, GrowsShape
<1>5. UNCHANGED Given /\ named'.val = named.val
  BY <1>1 DEF Given
<1> QED BY <1>4, <1>5 DEF Ledger!Put, Given

(* Every other step leaves what the ledger sees alone.                     *)
LEMMA StoreStutters ==
  ASSUME UNCHANGED Store PROVE UNCHANGED <<History, Given, named.val>>
BY DEF Store, History, Given, Entry

LEMMA StepRefines ==
  ASSUME Inv, [Next]_vars
  PROVE  [Ledger!Answer \/ Ledger!Name \/ Ledger!Save \/ Ledger!Put]_<<History, Given, named.val>>
<1>1. ASSUME NEW c \in Writers, Begin(c) \/ Rollback(c) PROVE UNCHANGED Store
  BY <1>1 DEF Begin, Rollback, Store
<1>2. ASSUME NEW c \in Tabs, Ask(c) PROVE UNCHANGED Store
  BY <1>2 DEF Ask, Store
<1>3. ASSUME NEW t \in Turns,
             TurnLoad(t) \/ TurnSay(t) \/ TurnMore(t) \/ TurnEnd(t) \/ TurnFails(t)
      PROVE  UNCHANGED Store
  BY <1>3 DEF TurnLoad, TurnSay, TurnMore, TurnEnd, TurnFails, Store
<1>4. UNCHANGED vars => UNCHANGED Store
  BY DEF vars, Store
<1> QED BY <1>1, <1>2, <1>3, <1>4, StoreStutters, RecordAnswers, RecordNamesNames, SaveSaves,
           PutPuts DEF Next

LEMMA InitRefines == Init => Ledger!Init
<1> SUFFICES ASSUME Init PROVE Ledger!Init
  OBVIOUS
<1>1. versions = << >> /\ named.val = 0 /\ \A i \in Items : answers[i].val = "none"
  BY DEF Init
<1>2. History = << >>
  BY <1>1 DEF History
<1>3. Given = [i \in Items |-> "none"]
  BY <1>1 DEF Given
<1> QED BY <1>1, <1>2, <1>3 DEF Ledger!Init, History, Given

(* The session implements the ledger: reading, merging and writing under   *)
(* the row lock is as good as one step, whoever else writes.               *)
THEOREM Implements == Spec => ImplementsLedger
<1>1. Init => Ledger!Init
  BY InitRefines
<1>2. Inv /\ [Next]_vars =>
        [Ledger!Answer \/ Ledger!Name \/ Ledger!Save \/ Ledger!Put]_<<History, Given, named.val>>
  BY StepRefines
<1> QED BY <1>1, <1>2, SessionInv, PTL DEF Spec, ImplementsLedger, Ledger!Spec, History, Given

=============================================================================
