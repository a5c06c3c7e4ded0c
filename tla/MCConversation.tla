--------------------------- MODULE MCConversation ---------------------------
\* Instances of Conversation for TLC.
EXTENDS Conversation, TLC

Interchangeable == Permutations(Turns)
=============================================================================
