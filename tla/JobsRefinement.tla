--------------------------- MODULE JobsRefinement ---------------------------
(* The jobs queue implements the ledger: the table's status column and the *)
(* slots counted in Redis, two stores no transaction spans, move together  *)
(* as JobLedger prescribes, for every id that met no window (Jobs, W1-W5). *)
EXTENDS Jobs

Ledger == INSTANCE JobLedger WITH
  status <- [j \in Job |-> IF j \in tainted THEN "lost" ELSE row[j]],
  slot   <- SlotTaken \ tainted

(* Every step of Jobs is a step of the ledger or none: in particular no    *)
(* end is recorded for a job whose slot was not counted, and no slot comes *)
(* back before the job's end is in the table.                              *)
ImplementsLedger == Ledger!Spec
=============================================================================
