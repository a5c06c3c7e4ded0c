----------------------------- MODULE MCChatClient -----------------------------
(* Instances of ChatClient for TLC: see MCChatClient.cfg. *)
EXTENDS ChatClient

CONSTANTS f1, f2, d1

SameBytes == [f \in Files |-> d1]

NoDeletes == \A c \in Existing : removing[c] = "no"
Quiet ==
  /\ \A s \in Sends : stream[s].phase = "unused"
  /\ selected = 0 /\ base = 0 /\ ~loading /\ NoDeletes

\* Bound (CONSTRAINT): the second attachment, and a document that fails, are for a tab in
\* which nothing is asked or loaded, and of the chat they get no more than clear(), which
\* NewChat is; a conversation is deleted, which leaves the attachments alone, in a tab
\* that has none.
Apart ==
  /\ chip[f2] # "none" => chip[f1] # "none"
  /\ \/ Quiet
     \/ chip[f2] = "none" /\ doc[d1] # "failed" /\ (chip[f1] = "none" \/ NoDeletes)
=============================================================================
