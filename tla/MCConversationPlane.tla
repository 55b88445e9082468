------------------------ MODULE MCConversationPlane ------------------------
(* Instances of ConversationPlane for TLC. *)
EXTENDS ConversationPlane, TLC

\* Requests are interchangeable, so safety may be checked up to their names.
HandlerSymmetry == Permutations(Handler)
=============================================================================
