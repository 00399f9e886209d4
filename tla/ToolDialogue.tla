---------------------------- MODULE ToolDialogue ----------------------------
(***************************************************************************)
(* What a conversation promises the model's API about tool calls: the      *)
(* calls of one reply are answered all together, and the model is not      *)
(* asked again before they are.                                            *)
(***************************************************************************)
CONSTANT Uses

VARIABLE life  \* of each tool_use id: "new", "open" or "closed"

Open == {u \in Uses : life[u] = "open"}

Init == life = [u \in Uses |-> "new"]

(* A reply that makes calls, while none is open. *)
Ask == /\ Open = {}
       /\ \E calls \in SUBSET {u \in Uses : life[u] = "new"} :
            life' = [u \in Uses |-> IF u \in calls THEN "open" ELSE life[u]]

(* One message answers every open call. *)
Answer == life' = [u \in Uses |-> IF u \in Open THEN "closed" ELSE life[u]]

Next == Ask \/ Answer

Spec == Init /\ [][Next]_life
=============================================================================
