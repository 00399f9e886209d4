----------------------------- MODULE MCToolCalls -----------------------------
(* Instances of ToolCalls for TLC: calls b1 and b2 are another caller's,   *)
(* every other call has the same caller, tool and input.                   *)
EXTENDS ToolCalls, TLC

CONSTANTS b1, b2

KeyOf == [c \in Calls |-> IF c \in {b1, b2} THEN "b" ELSE "a"]
=============================================================================
