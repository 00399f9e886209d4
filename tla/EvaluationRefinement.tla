------------------------ MODULE EvaluationRefinement ------------------------
(* The tools implement the rule "formal first".                            *)
EXTENDS Evaluation

Policy == INSTANCE FormalFirst WITH
  verified  <- Stored,
  evaluated <- {[design |-> call[c].design, ref |-> call[c].ref] : c \in {c \in Calls : job[c] # "none"}}
         \cup {[design |-> seeded[s].design, ref |-> s[2]] : s \in {s \in Seeded : seeded[s].row # "none"}}

(* Nothing is simulated and no report is queued but for a design whose own *)
(* verification is stored, whatever is edited and deployed meanwhile.      *)
ImplementsFormalFirst == Policy!Spec
=============================================================================
