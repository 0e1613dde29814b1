--------------------------- MODULE MCConversations ---------------------------
(* TLC instances of Conversations. *)
EXTENDS Conversations, TLC

ConversationSymmetry ==
  Permutations(Turns) \cup Permutations(Deleters) \cup Permutations(Conversations)

=============================================================================
