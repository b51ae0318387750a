--------------------------- MODULE MCConversation ---------------------------
EXTENDS Conversation

\* Two samples, which is one character.
MCChunkBytes == {4}
=============================================================================
