--------------------------- MODULE MCDesignSession ---------------------------
(* Instances of DesignSession for TLC: one question asked per token.       *)
EXTENDS DesignSessionRefinement, TLC

CONSTANTS q, some

Draft(n, x, y) ==
  [tokens |-> n, val |-> [i \in Items |-> IF i = <<q, 1>> THEN x ELSE IF i = <<q, 2>> THEN y ELSE "none"]]

FewDrafts == {Draft(1, "none", "none"), Draft(2, "none", "swept")}

Symmetry == Permutations(Recorders) \cup Permutations(Savers) \cup Permutations(Turns)
=============================================================================
