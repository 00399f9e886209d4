---------------------------- MODULE MCEvaluation ----------------------------
(* Instances of Evaluation for TLC.                                        *)
EXTENDS EvaluationRefinement, TLC

Symmetry == Permutations(Designs) \cup Permutations(Calls \ Stateless)
=============================================================================
