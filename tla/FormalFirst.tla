----------------------------- MODULE FormalFirst -----------------------------
(***************************************************************************)
(* What the policy promises of every evaluation: formal verification comes *)
(* before simulation and reporting, and it is the verification of exactly  *)
(* the design that is simulated or reported on.                            *)
(***************************************************************************)
VARIABLES
  verified,   \* references of stored verifications: <<design, version>>
  evaluated   \* designs simulated or reported on, with the reference used

Init == verified = {} /\ evaluated = {}

Verify == \E r \in verified' : verified' = verified \cup {r} /\ UNCHANGED evaluated

Evaluate == \E e \in evaluated' :
  /\ e.ref \in verified /\ e.ref[1] = e.design
  /\ evaluated' = evaluated \cup {e}
  /\ UNCHANGED verified

Spec == Init /\ [][Verify \/ Evaluate]_<<verified, evaluated>>

=============================================================================
