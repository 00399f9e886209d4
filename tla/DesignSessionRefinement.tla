----------------------- MODULE DesignSessionRefinement -----------------------
(* The session implements the ledger of designs: under the row lock every  *)
(* operation that reads, merges and writes happens as if at once.          *)
EXTENDS DesignSession

Entry(v) == [from |-> v.from, design |-> v.spec, lost |-> v.lost]

Ledger == INSTANCE DesignLedger WITH
  history <- [n \in 1..Len(versions) |-> Entry(versions[n])],
  given   <- [i \in Items |-> answers[i].val],
  names   <- named.val

(* Every step of the session is a step of the ledger or none: no answer is *)
(* lost to another written at the same time, and a whole design that the   *)
(* agent saves leaves out no answer without saying so.                     *)
ImplementsLedger == Ledger!Spec
=============================================================================
