--------------------------- MODULE MCConversation ---------------------------
(* Instances of Conversation for TLC.  The calls of a conversation are     *)
(* bounded by Uses and its turns by Posts; f1 and f2 ask for the same tool *)
(* with the same arguments, every other call for something else.           *)
EXTENDS ConversationRefinement, TLC

CONSTANTS f1, f2

SameArgs == [u \in Uses |-> IF u = f2 THEN f1 ELSE u]
Symmetry == Permutations(Posts)
=============================================================================
