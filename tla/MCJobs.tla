------------------------------- MODULE MCJobs -------------------------------
(* Instances of Jobs for TLC.  The daily quota bounds the number of runs,  *)
(* so no other bound is needed.                                            *)
EXTENDS JobsRefinement, TLC

Symmetry == Permutations(Callers) \cup Permutations(Workers)
=============================================================================
