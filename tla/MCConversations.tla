--------------------------- MODULE MCConversations ---------------------------
EXTENDS Conversations, TLC
Symmetry == Permutations(Users) \cup Permutations(Conversations)
=============================================================================
