---------------------------- MODULE DesignLedger ----------------------------
(***************************************************************************)
(* What a design session promises about its design and its answers, as if  *)
(* every operation happened at once: versions are only ever added; an      *)
(* answer changes one item of the latest version, or its list of tokens,   *)
(* and nothing else; a design the agent saves holds every value the        *)
(* designer gave for its tokens, except those it reports as not put back;  *)
(* a design the form saves is taken as it is.                              *)
(***************************************************************************)
EXTENDS Naturals, Sequences

CONSTANTS Items, Values, Empty

VARIABLES
  history,  \* the versions, oldest first: who wrote it, the design, the report
  given,    \* the latest answer to each item
  names     \* how many tokens the designer has named

Latest == IF history = << >> THEN Empty ELSE history[Len(history)].design
New    == history'[Len(history) + 1]

Grows(from) == /\ Len(history') = Len(history) + 1
               /\ \A n \in 1..Len(history) : history'[n] = history[n]
               /\ New.from = from

Init == history = << >> /\ given = [i \in Items |-> "none"] /\ names = 0

Answer == \E i \in Items :
  /\ Grows("answer") /\ i[2] <= Latest.tokens
  /\ New.design = [Latest EXCEPT !.val = [@ EXCEPT ![i] = New.design.val[i]]]
  /\ given' = [given EXCEPT ![i] = given'[i]]
  /\ given'[i] \in Values => New.design.val[i] = given'[i]
  /\ UNCHANGED names

Name ==
  /\ Grows("names")
  /\ names' = New.design.tokens
  /\ \A i \in Items : i[2] <= names' => New.design.val[i] = Latest.val[i]
  /\ UNCHANGED given

Save ==
  /\ Grows("save")
  /\ \A i \in Items \ New.lost :
       given[i] \in Values /\ i[2] <= New.design.tokens => New.design.val[i] # "none"
  /\ UNCHANGED <<given, names>>

Put == Grows("form") /\ UNCHANGED <<given, names>>

Spec == Init /\ [][Answer \/ Name \/ Save \/ Put]_<<history, given, names>>

=============================================================================
