----------------------- MODULE ConversationRefinement -----------------------
(* Conversation implements ToolDialogue: a call is open from the stored    *)
(* message that makes it to the stored message that answers it.            *)
EXTENDS Conversation

Closed == UNION {Answered(log[i]) : i \in 1..Len(log)}

Dialogue == INSTANCE ToolDialogue WITH
  life <- [u \in Uses |-> IF u \in Closed THEN "closed"
                          ELSE IF u \in Issued THEN "open" ELSE "new"]

(* Turns that follow one another and are not cut short keep the promise:   *)
(* pauses, confirmations, forms, limits and failed model requests never    *)
(* leave a call of a reply behind (loop.py _step, _settle_pending).        *)
ImplementsDialogue == Dialogue!Spec
=============================================================================
