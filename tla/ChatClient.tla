------------------------------ MODULE ChatClient ------------------------------
(***************************************************************************)
(* The chat of one browser tab (hooks/useChat.ts, api/stream.ts, App.tsx)  *)
(* with its uploads: which conversation is selected, what the message list *)
(* shows, the answers that stream into it, and the refs they share         *)
(* (bufferRef, assistantIdRef, abortRef).                                  *)
(*                                                                         *)
(* JavaScript runs one handler at a time: an action is a click or the      *)
(* continuation of one await, with the microtasks it causes. Aborting a    *)
(* fetch or a read rejects it at once, so an aborted stream ends within    *)
(* the click; a token refresh (api/auth.ts) takes no signal, and a stream  *)
(* that waits for one ends only after it. A conversation that a send       *)
(* creates is named by the number of that send.                            *)
(***************************************************************************)
EXTENDS Uploads, Naturals

CONSTANTS
  Existing,   \* conversations there are from the start; only these get deleted (bound)
  MaxSends,   \* bound on the questions asked
  MaxLoads    \* bound on the loads of a conversation under way at once

ASSUME ChatClientAssumption ==
  /\ MaxSends \in Nat /\ MaxLoads \in Nat
  /\ Existing \cap Nat = {}

VARIABLES
  selected,  \* conversationId, 0 for a new chat
  base,      \* the conversation whose loaded messages the list begins with, 0 for none
  answers,   \* the questions of this visit, with their answers, that follow in the list
  text,      \* per answer: the streams its text came from
  stream,    \* per question: [phase, conv, aborted], conv as its closure knows it
  buffer,    \* bufferRef: the streams whose tokens wait for the next frame
  target,    \* assistantIdRef
  handle,    \* abortRef, 0 for null
  streaming, \* isStreaming
  loads,     \* answers to getConversation still to come, per conversation
  loading,   \* loadingConversation
  removing,  \* deletes under way: conversation |-> was it the selected one
  lateEnd,   \* an aborted stream ended after another one had started (history)
  crossed    \* a load was shown that nobody waited for any more (history)

\* Everything but `removing`.
listVars == <<selected, base, answers, text, stream, buffer, target, handle, streaming,
              loads, loading, lateEnd, crossed>>
chatVars == <<listVars, removing>>
vars == <<chatVars, uploadVars>>

Sends == 1 .. MaxSends
Conversations == Existing \cup Sends
Phases == {"unused", "opening", "refreshing", "retrying", "reading", "ended"}
Open(s) == stream[s].phase \notin {"unused", "ended"}
Running(s) == Open(s) /\ ~stream[s].aborted

NoText == [s \in Sends |-> {}]

Init ==
  /\ UploadsInit
  /\ selected = 0 /\ base = 0 /\ answers = {}
  /\ text = NoText
  /\ stream = [s \in Sends |-> [phase |-> "unused", conv |-> 0, aborted |-> FALSE]]
  /\ buffer = {} /\ target = 0 /\ handle = 0 /\ streaming = FALSE
  /\ loads = [c \in Conversations |-> 0] /\ loading = FALSE
  /\ removing = [c \in Existing |-> "no"]
  /\ lateEnd = FALSE /\ crossed = FALSE

\* flushBuffer: what is pending goes to the answer that is current now, if the
\* list still has it.
Flushed ==
  [s \in Sends |-> IF s = target /\ s \in answers THEN text[s] \cup buffer ELSE text[s]]
Flush == text' = Flushed /\ buffer' = {}

\* The finally of send(), its flush apart: it does not ask whose stream the refs
\* belong to by now.
EndRefs == buffer' = {} /\ streaming' = FALSE /\ handle' = 0

Phase(s, phase) == stream' = [stream EXCEPT ![s].phase = phase]
End(s) == stream' = [stream EXCEPT ![s].phase = "ended", ![s].aborted = FALSE]

\* abortRef.current?.abort(): the stream ends within the click, unless it waits for
\* a token refresh.
Aborting == handle # 0 /\ stream[handle].phase # "refreshing"
MarkAborted ==
  IF handle = 0 THEN UNCHANGED stream
  ELSE IF Aborting THEN End(handle)
  ELSE stream' = [stream EXCEPT ![handle].aborted = TRUE]
Abort ==
  /\ MarkAborted
  /\ IF Aborting THEN EndRefs ELSE UNCHANGED <<buffer, streaming, handle>>

-----------------------------------------------------------------------------
(* What the user does; App.tsx clears the prompt box along with it. *)

IsNext(s) ==
  stream[s].phase = "unused" /\ \A p \in 1 .. s - 1 : stream[p].phase # "unused"

\* Mutant: a question can be sent while an answer streams.
MaySendAlways(s) == IsNext(s)
MaySend(s) == ~streaming /\ IsNext(s)

Send(s) ==
  /\ MaySend(s)
  /\ stream' = [stream EXCEPT ![s].phase = "opening", ![s].conv = selected]
  /\ answers' = answers \cup {s}
  /\ target' = s /\ handle' = s /\ buffer' = {} /\ streaming' = TRUE
  /\ ClearFiles
  /\ UNCHANGED <<selected, base, text, loads, loading, removing, lateEnd, crossed>>

Stop ==
  /\ streaming
  /\ Flush /\ streaming' = FALSE /\ handle' = 0
  /\ MarkAborted
  /\ UNCHANGED <<selected, base, answers, target, loads, loading, removing, lateEnd,
                 crossed, uploadVars>>

\* It is in the sidebar.
Known(c) ==
  \/ c \in Existing /\ removing[c] # "done"
  \/ c \in Sends /\ stream[c].conv = c

Select(c) ==
  /\ Known(c) /\ loads[c] < MaxLoads
  /\ Abort /\ text' = IF Aborting THEN Flushed ELSE text
  /\ selected' = c
  /\ loads' = [loads EXCEPT ![c] = @ + 1] /\ loading' = TRUE
  /\ ClearFiles
  /\ UNCHANGED <<base, answers, target, removing, lateEnd, crossed>>

\* Mutant: the messages of the last conversation stay.
StartOverKeepingMessages ==
  /\ Abort
  /\ selected' = 0
  /\ UNCHANGED <<text, base, answers, crossed, target, loads, loading, lateEnd>>
\* newConversation; the flag of a load under way is not touched.
StartOver ==
  /\ Abort
  /\ selected' = 0 /\ base' = 0 /\ answers' = {} /\ text' = NoText /\ crossed' = FALSE
  /\ UNCHANGED <<target, loads, loading, lateEnd>>

NewChat == StartOver /\ ClearFiles /\ UNCHANGED removing

Delete(c) ==
  /\ Known(c) /\ removing[c] = "no"
  /\ removing' = [removing EXCEPT ![c] = IF c = selected THEN "selected" ELSE "other"]
  /\ UNCHANGED <<selected, base, answers, text, stream, buffer, target, handle, streaming,
                 loads, loading, lateEnd, crossed, uploadVars>>

-----------------------------------------------------------------------------
(* Continuations. *)

\* The delete is done: whether it was the open conversation is what the closure of
\* the click knew. The row is gone from the sidebar.
DeleteDone(c) ==
  /\ removing[c] \in {"selected", "other"}
  /\ IF removing[c] = "selected" THEN StartOver ELSE UNCHANGED listVars
  /\ removing' = [removing EXCEPT ![c] = "done"]
  /\ UNCHANGED uploadVars

\* The answer to getConversation, shown whoever is selected by now.
Loaded(c) ==
  /\ loads[c] > 0 /\ loads' = [loads EXCEPT ![c] = @ - 1] /\ loading' = FALSE
  /\ base' = c /\ answers' = {} /\ text' = NoText
  /\ crossed' = (c # selected \/ \E s \in Sends : Running(s))
  /\ UNCHANGED <<selected, stream, buffer, target, handle, streaming, removing,
                 lateEnd, uploadVars>>

LoadFails(c) ==
  /\ loads[c] > 0 /\ loads' = [loads EXCEPT ![c] = @ - 1] /\ loading' = FALSE
  /\ base' = 0 /\ answers' = {} /\ text' = NoText
  /\ crossed' = (c # selected \/ \E s \in Sends : Running(s))
  /\ UNCHANGED <<selected, stream, buffer, target, handle, streaming, removing,
                 lateEnd, uploadVars>>

\* fetch answers: a stream, or 401 the first time.
Goes(s, from, to) ==
  /\ stream[s].phase \in from /\ ~stream[s].aborted
  /\ Phase(s, to)
  /\ UNCHANGED <<selected, base, answers, text, buffer, target, handle, streaming, loads,
                 loading, removing, lateEnd, crossed, uploadVars>>
Opens(s) == Goes(s, {"opening", "retrying"}, "reading")
Unauthorized(s) == Goes(s, {"opening"}, "refreshing")
Refreshed(s) == Goes(s, {"refreshing"}, "retrying")

\* onStart: a new chat learns the conversation the server made for it.
Starts(s) ==
  /\ Running(s) /\ stream[s].phase = "reading" /\ stream[s].conv = 0
  /\ stream' = [stream EXCEPT ![s].conv = s]
  /\ selected' = s
  /\ UNCHANGED <<base, answers, text, buffer, target, handle, streaming, loads, loading,
                 removing, lateEnd, crossed, uploadVars>>

\* onToken appends to the one buffer; a frame will flush it.
Token(s) ==
  /\ Running(s) /\ stream[s].phase = "reading" /\ stream[s].conv # 0
  /\ buffer' = buffer \cup {s}
  /\ UNCHANGED <<selected, base, answers, text, stream, target, handle, streaming, loads,
                 loading, removing, lateEnd, crossed, uploadVars>>

Frame ==
  /\ buffer # {} /\ Flush
  /\ UNCHANGED <<selected, base, answers, stream, target, handle, streaming, loads,
                 loading, removing, lateEnd, crossed, uploadVars>>

\* A stream ends: done, error frame, error status, broken connection, a refresh
\* that failed, or an abort met after the refresh.
Ends(s) ==
  /\ Open(s)
  /\ End(s) /\ EndRefs /\ text' = Flushed
  /\ lateEnd' = (lateEnd \/ target # s)
  /\ UNCHANGED <<selected, base, answers, target, loads, loading, removing, crossed,
                 uploadVars>>

StreamStep(s) ==
  \/ Opens(s) \/ Unauthorized(s) \/ Refreshed(s) \/ Starts(s) \/ Token(s) \/ Ends(s)

Next ==
  \/ \E s \in Sends : Send(s) \/ StreamStep(s)
  \/ \E c \in Conversations : Select(c) \/ Loaded(c) \/ LoadFails(c)
  \/ \E c \in Existing : Delete(c) \/ DeleteDone(c)
  \/ Stop \/ NewChat \/ Frame
  \/ UploadsNext /\ UNCHANGED chatVars

Spec == Init /\ [][Next]_vars

\* Requests are answered or fail, and timers fire; of ingestion nothing is assumed.
FairSpec == Spec /\ \A f \in Files : WF_vars(Deliver(f) /\ UNCHANGED chatVars)
-----------------------------------------------------------------------------
(* Correctness. *)

TypeOK ==
  /\ UploadsTypeOK
  /\ {selected, base} \subseteq Conversations \cup {0}
  /\ answers \subseteq Sends /\ buffer \subseteq Sends
  /\ text \in [Sends -> SUBSET Sends]
  /\ stream \in [Sends -> [phase : Phases, conv : Conversations \cup {0}, aborted : BOOLEAN]]
  /\ {target, handle} \subseteq Sends \cup {0}
  /\ loads \in [Conversations -> 0 .. MaxLoads]
  /\ removing \in [Existing -> {"no", "selected", "other", "done"}]
  /\ {streaming, loading, lateEnd, crossed} \subseteq BOOLEAN

\* An answer gets its own tokens only, and the one that is streaming is the one
\* that Stop and the refs refer to (useChat.ts:45-54, 150-205), unless a stopped
\* stream was held up by a token refresh and ended after the next had begun.
OwnStream ==
  lateEnd \/ \A s \in Sends :
    text[s] \subseteq {s} /\ (Running(s) => handle = s /\ streaming)

\* Once nothing is loading, the list shows the selected conversation and the answer
\* that is streaming (useChat.ts:61-102), unless the answer to an earlier load, or
\* to one from before the question, came in later (or, for the answer, a stopped
\* stream ended late, see OwnStream).
ShownIsSelected ==
  ~loading /\ ~crossed =>
    /\ base \in {0, selected}
    /\ lateEnd \/ \A s \in Sends : Running(s) => s \in answers

\* A document is polled for a chip that is shown, unless a chip was removed while one of
\* its requests was under way, or two polls of the document overwrote each other's
\* handle (useUploads.ts:19-62, 113-136).
PollsForSomeone ==
  \A f \in Files : Polling(f) =>
    \/ \E g \in FilesOf(Document[f]) : HasDocument(g)
    \/ mishaps[Document[f]] \cap {"late", "doubled"} # {}

\* If its document does not stay in progress for ever, a chip ends up ready, failed or
\* removed, unless a poll of the document failed (useUploads.ts:55-57) or another chip
\* of it was removed, which stops the polling for both (useUploads.ts:113-116).
ChipSettles ==
  \A f \in Files :
    <>[](doc[Document[f]] # "processing") =>
      (chip[f] \in {"uploading", "processing"}
         ~> \/ chip[f] \notin {"uploading", "processing"}
            \/ mishaps[Document[f]] \cap {"deaf", "robbed"} # {})
=============================================================================
