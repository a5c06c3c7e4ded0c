--------------------------- MODULE ChatClientProofs ---------------------------
(***************************************************************************)
(* The invariants of ChatClient, for every number of questions, loads,     *)
(* conversations and files.                                                *)
(***************************************************************************)
EXTENDS ChatClient, TLAPS

StreamType == [phase : Phases, conv : Conversations \cup {0}, aborted : BOOLEAN]
ChatTypeOK ==
  /\ {selected, base} \subseteq Conversations \cup {0}
  /\ answers \subseteq Sends /\ buffer \subseteq Sends
  /\ text \in [Sends -> SUBSET Sends]
  /\ stream \in [Sends -> StreamType]
  /\ {target, handle} \subseteq Sends \cup {0}
  /\ loads \in [Conversations -> 0 .. MaxLoads]
  /\ removing \in [Existing -> {"no", "selected", "other", "done"}]
  /\ {streaming, loading, lateEnd, crossed} \subseteq BOOLEAN

\* Why a document may be polled for nobody.
Excused(d) == mishaps[d] \cap {"late", "doubled"} # {}

\* What can arm a timer is for a chip that is shown, or excused; a timer that the hook
\* cannot clear is one of two; and what is polled is a document.
Waited ==
  \A f \in Files :
    /\ upload[f] # "no" => chip[f] = "uploading" \/ (chip[f] = "gone" /\ Excused(Document[f]))
    /\ Polling(f) => Excused(Document[f]) \/ \E g \in FilesOf(Document[f]) : HasDocument(g)
    /\ chain[f] = "armed" => f \in slot[Document[f]] \/ "doubled" \in mishaps[Document[f]]
    /\ Polling(f) \/ upload[f] \in Statuses => doc[Document[f]] # "none"

\* The refs belong to the one stream that runs, and so do the pending tokens.
Own ==
  /\ buffer \subseteq {target}
  /\ \A s \in Sends :
       /\ text[s] \subseteq {s}
       /\ Running(s) => handle = s /\ target = s /\ streaming

\* What the list begins with, and that it has the answer that streams.
Listed ==
  ~crossed =>
    /\ selected = 0 => base = 0
    /\ \A s \in Sends : Running(s) /\ stream[s].conv = 0 => base = 0
    /\ loading \/ base \in {0, selected}
    /\ lateEnd \/ \A s \in Sends : Running(s) => s \in answers

ChatInv == ChatTypeOK /\ (lateEnd \/ Own) /\ Listed

\* The two halves of the type invariant.
LEMMA Types == TypeOK <=> UploadsTypeOK /\ ChatTypeOK
BY DEF TypeOK, ChatTypeOK, StreamType

-----------------------------------------------------------------------------
(* The attachments. *)

\* A chip that goes takes the timer of its document along; what is under way goes on.
LEMMA UploadsKeep ==
  ASSUME UploadsTypeOK, Waited, UploadsNext \/ ClearFiles \/ UNCHANGED uploadVars
  PROVE  UploadsTypeOK' /\ Waited'
<1> USE UploadsAssumption DEF Statuses, Settled
<1>1. ASSUME NEW f \in Files, AddFile(f) PROVE UploadsTypeOK' /\ Waited'
  <2>1. UploadsTypeOK'
    BY <1>1 DEF AddFile, UploadsTypeOK, Shown, HasDocument
  <2>2. Waited'
    BY <1>1, <2>1 DEF AddFile, UploadsTypeOK, Waited, Excused, Shown, HasDocument, FilesOf, Polling
  <2> QED BY <2>1, <2>2
<1>2. ASSUME NEW f \in Files, UploadHandled(f) PROVE UploadsTypeOK' /\ Waited'
  <2>1. UploadsTypeOK'
    BY <1>2 DEF UploadHandled, UploadsTypeOK, Shown, HasDocument
  <2>2. Waited'
    BY <1>2, <2>1 DEF UploadHandled, UploadsTypeOK, Waited, Excused, Shown, HasDocument, FilesOf, Polling
  <2> QED BY <2>1, <2>2
<1>3. ASSUME NEW f \in Files, UploadAnswered(f) PROVE UploadsTypeOK' /\ Waited'
  <2>1. UploadsTypeOK'
    BY <1>3 DEF UploadAnswered, UploadsTypeOK, Shown, HasDocument, Arm, Mark, Mishaps
  <2>2. Waited'
    BY <1>3, <2>1 DEF UploadAnswered, UploadsTypeOK, Waited, Excused, Shown, HasDocument, FilesOf, Polling, Arm, Mark, Mishaps
  <2> QED BY <2>1, <2>2
<1>4. ASSUME NEW f \in Files, UploadFails(f) PROVE UploadsTypeOK' /\ Waited'
  <2>1. UploadsTypeOK'
    BY <1>4 DEF UploadFails, UploadsTypeOK, Shown, HasDocument
  <2>2. Waited'
    BY <1>4, <2>1 DEF UploadFails, UploadsTypeOK, Waited, Excused, Shown, HasDocument, FilesOf, Polling
  <2> QED BY <2>1, <2>2
<1>5. ASSUME NEW f \in Files, TimerFires(f) PROVE UploadsTypeOK' /\ Waited'
  <2>1. UploadsTypeOK'
    BY <1>5 DEF TimerFires, UploadsTypeOK, Shown, HasDocument
  <2>2. Waited'
    BY <1>5, <2>1 DEF TimerFires, UploadsTypeOK, Waited, Excused, Shown, HasDocument, FilesOf, Polling
  <2> QED BY <2>1, <2>2
<1>6. ASSUME NEW f \in Files, TickHandled(f) PROVE UploadsTypeOK' /\ Waited'
  <2>1. UploadsTypeOK'
    BY <1>6 DEF TickHandled, UploadsTypeOK, Waited, Polling
  <2>2. Waited'
    BY <1>6, <2>1 DEF TickHandled, UploadsTypeOK, Waited, Excused, Shown, HasDocument, FilesOf, Polling
  <2> QED BY <2>1, <2>2
<1>7. ASSUME NEW f \in Files, TickAnswered(f) PROVE UploadsTypeOK' /\ Waited'
  <2>1. /\ chain[f] \in Statuses /\ ShowStatus(Document[f], chain[f])
        /\ UNCHANGED <<doc, upload>>
    BY <1>7 DEF TickAnswered
  <2>2. /\ chip' \in [Files -> {"none", "uploading", "unsent", "gone"} \cup Statuses]
        /\ \A g \in Files : HasDocument(g)' <=> HasDocument(g)
        /\ \A g \in Files : ~HasDocument(g) => chip'[g] = chip[g]
    BY <2>1 DEF UploadsTypeOK, ShowStatus, HasDocument
  <2>3. CASE Arm(f)
    <3>1. UploadsTypeOK'
      BY <2>1, <2>2, <2>3 DEF UploadsTypeOK, Arm, Mark, Mishaps
    <3>2. Waited'
      BY <2>1, <2>2, <2>3 DEF UploadsTypeOK, Waited, Excused, HasDocument, FilesOf, Polling, Arm, Mark
    <3> QED BY <3>1, <3>2
  <2>4. CASE StopPolling(Document[f], f) /\ UNCHANGED mishaps
    <3>1. UploadsTypeOK'
      BY <2>1, <2>2, <2>4 DEF UploadsTypeOK, StopPolling, Cleared
    <3>2. Waited'
      BY <2>1, <2>2, <2>4 DEF UploadsTypeOK, Waited, Excused, HasDocument, FilesOf, Polling, StopPolling, Cleared
    <3> QED BY <3>1, <3>2
  <2> QED BY <1>7, <2>3, <2>4 DEF TickAnswered
<1>8. ASSUME NEW f \in Files, TickFails(f) PROVE UploadsTypeOK' /\ Waited'
  <2>1. UploadsTypeOK'
    BY <1>8 DEF TickFails, UploadsTypeOK, Shown, HasDocument, UnderWay, StopPolling, Cleared, Mark, Mishaps
  <2>2. Waited'
    BY <1>8, <2>1 DEF TickFails, UploadsTypeOK, Waited, Excused, Shown, HasDocument, FilesOf, Polling, UnderWay, StopPolling, Cleared, Mark, Mishaps
  <2> QED BY <2>1, <2>2
<1>9. ASSUME NEW f \in Files, RemoveFile(f) PROVE UploadsTypeOK' /\ Waited'
  <2>1. UploadsTypeOK'
    BY <1>9 DEF RemoveFile, UploadsTypeOK, Shown, HasDocument, UnderWay, StopFor, Cleared, Mishaps
  <2>2. Waited'
    BY <1>9, <2>1 DEF RemoveFile, UploadsTypeOK, Waited, Excused, Shown, HasDocument, FilesOf, Polling, UnderWay, StopFor, Cleared, Mishaps
  <2> QED BY <2>1, <2>2
<1>10. ASSUME NEW d \in Documents, DocumentMoves(d) PROVE UploadsTypeOK' /\ Waited'
  BY <1>10 DEF DocumentMoves, UploadsTypeOK, Waited, Excused, Shown, HasDocument, FilesOf, Polling
<1>11. CASE ClearFiles
  <2>1. UploadsTypeOK'
    BY <1>11 DEF ClearFiles, UploadsTypeOK, Shown, HasDocument, Cleared, Mishaps
  <2>2. \A d \in Documents : Excused(d) => Excused(d)'
    BY <1>11 DEF ClearFiles, UploadsTypeOK, Excused
  <2>3. ASSUME NEW f \in Files, UnderWay(f) \/ (Shown(f) /\ upload[f] # "no")
        PROVE  Excused(Document[f])'
    BY <1>11, <2>3 DEF ClearFiles, UploadsTypeOK, Excused, FilesOf
  <2>4. ASSUME NEW f \in Files
        PROVE  /\ upload[f] # "no" => chip'[f] = "gone" /\ Excused(Document[f])'
               /\ Polling(f)' => chain[f] # "idle" /\ Excused(Document[f])'
               /\ chain'[f] = "armed" => "doubled" \in mishaps'[Document[f]]
    <3>1. upload[f] # "no" => chip'[f] = "gone" /\ Excused(Document[f])'
      BY <1>11, <2>2, <2>3 DEF ClearFiles, UploadsTypeOK, Waited, Shown
    <3>2. chain'[f] = "armed" => chain[f] = "armed" /\ "doubled" \in mishaps'[Document[f]]
      BY <1>11 DEF ClearFiles, Cleared, UploadsTypeOK, Waited
    <3>3. Polling(f)' => chain'[f] = chain[f]
      BY <1>11 DEF ClearFiles, Cleared, UploadsTypeOK, Polling
    <3> QED BY <2>1, <2>3, <3>1, <3>2, <3>3 DEF Polling, UnderWay, Excused, UploadsTypeOK
  <2>5. Waited'
    BY <1>11, <2>4 DEF ClearFiles, Waited, Polling
  <2> QED BY <2>1, <2>5
<1>12. CASE UNCHANGED uploadVars
  BY <1>12 DEF uploadVars, UploadsTypeOK, Waited, Excused, Shown, HasDocument, FilesOf, Polling
<1> QED
  BY <1>1, <1>2, <1>3, <1>4, <1>5, <1>6, <1>7, <1>8, <1>9, <1>10, <1>11, <1>12 DEF UploadsNext, Deliver

-----------------------------------------------------------------------------
(* The chat. *)

\* No conversation is the new chat.
LEMMA Named ==
  /\ 0 \notin Conversations /\ 0 \notin Sends /\ Sends \subseteq Conversations
  /\ Existing \subseteq Conversations
BY ChatClientAssumption DEF Conversations, Sends

\* An empty chat is well-formed.
LEMMA InitChat == Init => ChatInv
<1> SUFFICES ASSUME Init PROVE ChatInv
  OBVIOUS
<1>1. ChatTypeOK
  <2>1. [phase |-> "unused", conv |-> 0, aborted |-> FALSE] \in StreamType
    BY DEF StreamType, Phases
  <2>2. 0 \in 0 .. MaxLoads
    BY ChatClientAssumption
  <2>3. stream \in [Sends -> StreamType] /\ loads \in [Conversations -> 0 .. MaxLoads]
    BY <2>1, <2>2 DEF Init
  <2>4. text \in [Sends -> SUBSET Sends]
    BY DEF Init, NoText
  <2>5. removing \in [Existing -> {"no", "selected", "other", "done"}]
    BY DEF Init
  <2> QED BY <2>3, <2>4, <2>5 DEF Init, ChatTypeOK
<1>2. \A s \in Sends : ~Running(s) /\ text[s] = {}
  BY DEF Init, Running, Open, NoText
<1> QED BY <1>1, <1>2 DEF Init, ChatInv, Own, Listed

\* The tokens that are flushed are the current answer's.
LEMMA Flushing ==
  ASSUME ChatTypeOK
  PROVE  /\ Flushed \in [Sends -> SUBSET Sends]
         /\ Own => \A s \in Sends : Flushed[s] \subseteq {s}
BY DEF ChatTypeOK, Flushed, Own

\* A stream changes its phase.
LEMMA Phasing ==
  ASSUME stream \in [Sends -> StreamType], NEW s \in Sends, NEW phase \in Phases, Phase(s, phase)
  PROVE  /\ stream' \in [Sends -> StreamType] /\ stream'[s].phase = phase
         /\ stream'[s].conv = stream[s].conv /\ stream'[s].aborted = stream[s].aborted
         /\ \A r \in Sends : r # s => stream'[r] = stream[r]
<1> DEFINE e == [stream[s] EXCEPT !.phase = phase]
<1>1. /\ e \in StreamType /\ e.phase = phase
      /\ e.conv = stream[s].conv /\ e.aborted = stream[s].aborted
  BY DEF StreamType
<1>2. stream' = [stream EXCEPT ![s] = e]
  BY DEF Phase
<1> HIDE DEF e
<1> QED BY <1>1, <1>2
\* A stream that ends has ended, and keeps the conversation it knew.
LEMMA Ending ==
  ASSUME stream \in [Sends -> StreamType], NEW s \in Sends, End(s)
  PROVE  /\ stream' \in [Sends -> StreamType] /\ stream'[s].phase = "ended"
         /\ \A r \in Sends : stream'[r].conv = stream[r].conv
         /\ \A r \in Sends : r # s => stream'[r] = stream[r]
<1> DEFINE d == [stream[s] EXCEPT !.phase = "ended"]
           e == [d EXCEPT !.aborted = FALSE]
<1>1. d \in StreamType /\ d.phase = "ended" /\ d.conv = stream[s].conv
  BY DEF StreamType, Phases
<1>2. stream' = [stream EXCEPT ![s] = e]
  BY DEF End
<1> HIDE DEF d
<1>3. e \in StreamType /\ e.phase = "ended" /\ e.conv = stream[s].conv
  BY <1>1 DEF StreamType
<1> HIDE DEF e
<1> QED BY <1>2, <1>3

\* After an abort the stream of the handle does not run, and no other starts to.
LEMMA Aborted ==
  ASSUME ChatTypeOK, MarkAborted
  PROVE  /\ stream' \in [Sends -> StreamType]
         /\ \A r \in Sends : stream'[r].conv = stream[r].conv
         /\ \A r \in Sends : Running(r)' => Running(r) /\ handle # r
<1>1. stream \in [Sends -> StreamType] /\ handle \in Sends \cup {0}
  BY DEF ChatTypeOK
<1>2. CASE handle = 0
  BY <1>1, <1>2, Named DEF MarkAborted, Running, Open
<1>3. CASE handle # 0 /\ Aborting
  <2>1. handle \in Sends /\ End(handle)
    BY <1>1, <1>3 DEF MarkAborted
  <2> QED BY <1>1, <2>1, Ending DEF Running, Open
<1>4. CASE handle # 0 /\ ~Aborting
  <2> DEFINE e == [stream[handle] EXCEPT !.aborted = TRUE]
  <2>1. handle \in Sends /\ stream' = [stream EXCEPT ![handle] = e]
    BY <1>1, <1>4 DEF MarkAborted
  <2>2. e \in StreamType /\ e.aborted = TRUE /\ e.conv = stream[handle].conv
    BY <1>1, <2>1 DEF StreamType
  <2> HIDE DEF e
  <2> QED BY <1>1, <2>1, <2>2 DEF Running, Open
<1> QED BY <1>2, <1>3, <1>4

\* After a click that aborts, nothing runs that the refs knew of.
LEMMA AbortKeeps ==
  ASSUME ChatTypeOK, Abort, lateEnd \/ Own
  PROVE  /\ stream' \in [Sends -> StreamType] /\ buffer' \subseteq Sends
         /\ {handle'} \subseteq Sends \cup {0} /\ {streaming'} \subseteq BOOLEAN
         /\ \A r \in Sends : stream'[r].conv = stream[r].conv
         /\ \A r \in Sends : Running(r)' => Running(r)
         /\ lateEnd \/ \A r \in Sends : ~Running(r)'
         /\ buffer' \subseteq buffer
<1>1. /\ stream' \in [Sends -> StreamType]
      /\ \A r \in Sends : stream'[r].conv = stream[r].conv
      /\ \A r \in Sends : Running(r)' => Running(r) /\ handle # r
  BY Aborted DEF Abort
<1>2. CASE Aborting
  <2>1. buffer' = {} /\ streaming' = FALSE /\ handle' = 0
    BY <1>2 DEF Abort, EndRefs
  <2> QED BY <1>1, <2>1 DEF Own
<1>3. CASE ~Aborting
  <2>1. buffer' = buffer /\ streaming' = streaming /\ handle' = handle
    BY <1>3 DEF Abort
  <2>2. buffer \subseteq Sends /\ {handle} \subseteq Sends \cup {0} /\ {streaming} \subseteq BOOLEAN
    BY DEF ChatTypeOK
  <2> QED BY <1>1, <2>1, <2>2 DEF Own
<1> QED BY <1>2, <1>3

\* A question is asked only when nothing runs.
LEMMA SendKeeps ==
  ASSUME ChatInv, NEW s \in Sends, Send(s)
  PROVE  ChatInv'
<1> DEFINE d == [stream[s] EXCEPT !.phase = "opening"]
           e == [d EXCEPT !.conv = selected]
<1>1. d \in StreamType /\ d.phase = "opening" /\ d.aborted = stream[s].aborted
  BY DEF ChatInv, ChatTypeOK, StreamType, Phases
<1>2. stream' = [stream EXCEPT ![s] = e]
  BY DEF Send
<1> HIDE DEF d
<1>3. e \in StreamType /\ e.conv = selected
  BY <1>1 DEF ChatInv, ChatTypeOK, StreamType
<1> HIDE DEF e
<1>4. /\ answers' = answers \cup {s} /\ target' = s /\ handle' = s /\ buffer' = {}
      /\ streaming' = TRUE /\ ~streaming
      /\ UNCHANGED <<selected, base, text, loads, loading, removing, lateEnd, crossed>>
  BY DEF Send, MaySend
<1>5. stream' \in [Sends -> StreamType] /\ \A r \in Sends : r # s => stream'[r] = stream[r]
  BY <1>2, <1>3 DEF ChatInv, ChatTypeOK
<1>6. ChatTypeOK'
  BY <1>4, <1>5 DEF ChatInv, ChatTypeOK
<1>7. \A r \in Sends : r # s /\ Running(r)' => Running(r)
  BY <1>5 DEF Running, Open
<1>8. (lateEnd \/ Own)'
  BY <1>4, <1>7 DEF ChatInv, Own
<1>9. stream'[s].conv = selected
  BY <1>2, <1>3 DEF ChatInv, ChatTypeOK
<1>10. Listed'
  BY <1>4, <1>5, <1>7, <1>9 DEF ChatInv, Listed
<1> QED BY <1>6, <1>8, <1>10 DEF ChatInv

\* Stop flushes, and forgets the stream.
LEMMA StopKeeps ==
  ASSUME ChatInv, Stop
  PROVE  ChatInv'
<1>1. /\ text' = Flushed /\ buffer' = {} /\ streaming' = FALSE /\ handle' = 0 /\ MarkAborted
      /\ UNCHANGED <<selected, base, answers, target, loads, loading, removing, lateEnd, crossed>>
  BY DEF Stop, Flush
<1>2. /\ stream' \in [Sends -> StreamType]
      /\ \A r \in Sends : stream'[r].conv = stream[r].conv
      /\ \A r \in Sends : Running(r)' => Running(r) /\ handle # r
  BY <1>1, Aborted DEF ChatInv
<1>3. /\ Flushed \in [Sends -> SUBSET Sends]
      /\ Own => \A s \in Sends : Flushed[s] \subseteq {s}
  BY Flushing DEF ChatInv
<1>4. ChatTypeOK'
  <2>1. {streaming, loading, lateEnd, crossed}' \subseteq BOOLEAN
    BY <1>1 DEF ChatInv, ChatTypeOK
  <2>2. {target, handle}' \subseteq Sends \cup {0} /\ buffer' \subseteq Sends
    BY <1>1 DEF ChatInv, ChatTypeOK
  <2> QED BY <1>1, <1>2, <1>3, <2>1, <2>2 DEF ChatInv, ChatTypeOK
<1>5. (lateEnd \/ Own)'
  BY <1>1, <1>2, <1>3 DEF ChatInv, Own
<1>6. Listed'
  BY <1>1, <1>2 DEF ChatInv, Listed
<1> QED BY <1>4, <1>5, <1>6 DEF ChatInv

\* Another conversation is selected.
LEMMA SelectKeeps ==
  ASSUME ChatInv, NEW c \in Conversations, Select(c)
  PROVE  ChatInv'
<1>1. /\ Abort /\ text' \in {text, Flushed} /\ selected' = c /\ loading' = TRUE
      /\ loads[c] < MaxLoads /\ loads' = [loads EXCEPT ![c] = @ + 1]
      /\ UNCHANGED <<base, answers, target, removing, lateEnd, crossed>>
  BY DEF Select
<1>2. /\ stream' \in [Sends -> StreamType] /\ buffer' \subseteq Sends
      /\ {handle'} \subseteq Sends \cup {0} /\ {streaming'} \subseteq BOOLEAN
      /\ \A r \in Sends : stream'[r].conv = stream[r].conv
      /\ \A r \in Sends : Running(r)' => Running(r)
      /\ lateEnd \/ \A r \in Sends : ~Running(r)'
      /\ buffer' \subseteq buffer
  BY <1>1, AbortKeeps DEF ChatInv
<1>3. /\ Flushed \in [Sends -> SUBSET Sends]
      /\ Own => \A s \in Sends : Flushed[s] \subseteq {s}
  BY Flushing DEF ChatInv
<1>4. loads' \in [Conversations -> 0 .. MaxLoads]
  BY <1>1, ChatClientAssumption DEF ChatInv, ChatTypeOK
<1>5. ChatTypeOK'
  BY <1>1, <1>2, <1>3, <1>4 DEF ChatInv, ChatTypeOK
<1>6. (lateEnd \/ Own)'
  BY <1>1, <1>2, <1>3 DEF ChatInv, Own
<1>7. Listed'
  BY <1>1, <1>2, Named DEF ChatInv, Listed
<1> QED BY <1>5, <1>6, <1>7 DEF ChatInv

\* The list is emptied for a new chat.
LEMMA StartOverKeeps ==
  ASSUME ChatInv, StartOver, removing' \in [Existing -> {"no", "selected", "other", "done"}]
  PROVE  ChatInv'
<1>1. /\ Abort /\ selected' = 0 /\ base' = 0 /\ answers' = {} /\ text' = NoText /\ crossed' = FALSE
      /\ UNCHANGED <<target, loads, loading, lateEnd>>
  BY DEF StartOver
<1>2. /\ stream' \in [Sends -> StreamType] /\ buffer' \subseteq Sends
      /\ {handle'} \subseteq Sends \cup {0} /\ {streaming'} \subseteq BOOLEAN
      /\ \A r \in Sends : stream'[r].conv = stream[r].conv
      /\ \A r \in Sends : Running(r)' => Running(r)
      /\ lateEnd \/ \A r \in Sends : ~Running(r)'
      /\ buffer' \subseteq buffer
  BY <1>1, AbortKeeps DEF ChatInv
<1>3. text' \in [Sends -> SUBSET Sends] /\ \A s \in Sends : text'[s] = {}
  BY <1>1 DEF NoText
<1>4. ChatTypeOK'
  BY <1>1, <1>2, <1>3 DEF ChatInv, ChatTypeOK
<1>5. (lateEnd \/ Own)'
  BY <1>1, <1>2, <1>3 DEF ChatInv, Own
<1>6. Listed'
  BY <1>1, <1>2 DEF ChatInv, Listed
<1> QED BY <1>4, <1>5, <1>6 DEF ChatInv

\* Messages come, or their load fails.
LEMMA LoadKeeps ==
  ASSUME ChatInv, NEW c \in Conversations, Loaded(c) \/ LoadFails(c)
  PROVE  ChatInv'
<1>1. /\ loads[c] > 0 /\ loads' = [loads EXCEPT ![c] = @ - 1] /\ loading' = FALSE
      /\ base' \in {c, 0} /\ answers' = {} /\ text' = NoText
      /\ crossed' = (c # selected \/ \E s \in Sends : Running(s))
      /\ UNCHANGED <<selected, stream, buffer, target, handle, streaming, removing, lateEnd>>
  BY DEF Loaded, LoadFails
<1>2. text' \in [Sends -> SUBSET Sends] /\ \A s \in Sends : text'[s] = {}
  BY <1>1 DEF NoText
<1>3. loads' \in [Conversations -> 0 .. MaxLoads]
  BY <1>1, ChatClientAssumption DEF ChatInv, ChatTypeOK
<1>4. crossed' \in BOOLEAN
  BY <1>1
<1>5. ChatTypeOK'
  <2>1. {selected, base}' \subseteq Conversations \cup {0} /\ answers' \subseteq Sends
    BY <1>1 DEF ChatInv, ChatTypeOK
  <2>2. {streaming, loading, lateEnd, crossed}' \subseteq BOOLEAN
    BY <1>1, <1>4 DEF ChatInv, ChatTypeOK
  <2> QED BY <1>1, <1>2, <1>3, <2>1, <2>2 DEF ChatInv, ChatTypeOK
<1>6. \A r \in Sends : Running(r)' <=> Running(r)
  BY <1>1 DEF Running, Open
<1>7. (lateEnd \/ Own)'
  BY <1>1, <1>2, <1>6 DEF ChatInv, Own
<1>8. Listed'
  BY <1>1, <1>6, Named DEF Listed
<1> QED BY <1>5, <1>7, <1>8 DEF ChatInv

\* A step of a stream.
LEMMA StreamKeeps ==
  ASSUME ChatInv, NEW s \in Sends, StreamStep(s)
  PROVE  ChatInv'
<1>0. stream \in [Sends -> StreamType]
  BY DEF ChatInv, ChatTypeOK
<1>1. CASE Opens(s) \/ Unauthorized(s) \/ Refreshed(s)
  <2>1. PICK phase \in {"reading", "refreshing", "retrying"} :
          /\ Phase(s, phase) /\ Running(s)
          /\ UNCHANGED <<selected, base, answers, text, buffer, target, handle, streaming,
                         loads, loading, removing, lateEnd, crossed>>
    BY <1>1 DEF Opens, Unauthorized, Refreshed, Goes, Running, Open
  <2>2. /\ stream' \in [Sends -> StreamType]
        /\ \A r \in Sends : stream'[r].conv = stream[r].conv
        /\ \A r \in Sends : Running(r)' => Running(r)
    BY <1>0, <2>1, Phasing DEF Running, Open, Phases
  <2>3. ChatTypeOK'
    BY <2>1, <2>2 DEF ChatInv, ChatTypeOK
  <2>4. (lateEnd \/ Own)' /\ Listed'
    BY <2>1, <2>2 DEF ChatInv, Own, Listed
  <2> QED BY <2>3, <2>4 DEF ChatInv
<1>2. CASE Starts(s)
  <2> DEFINE e == [stream[s] EXCEPT !.conv = s]
  <2>1. /\ Running(s) /\ stream[s].conv = 0 /\ stream' = [stream EXCEPT ![s] = e] /\ selected' = s
        /\ UNCHANGED <<base, answers, text, buffer, target, handle, streaming, loads, loading,
                       removing, lateEnd, crossed>>
    BY <1>2 DEF Starts
  <2>2. /\ e \in StreamType /\ e.conv = s /\ e.phase = stream[s].phase
        /\ e.aborted = stream[s].aborted
    BY <1>0, Named DEF StreamType
  <2> HIDE DEF e
  <2>3. /\ stream' \in [Sends -> StreamType] /\ stream'[s].conv = s
        /\ \A r \in Sends : r # s => stream'[r] = stream[r]
        /\ \A r \in Sends : Running(r)' <=> Running(r)
    BY <1>0, <2>1, <2>2 DEF Running, Open
  <2>4. ChatTypeOK'
    BY <2>1, <2>3, Named DEF ChatInv, ChatTypeOK
  <2>5. (lateEnd \/ Own)'
    BY <2>1, <2>3 DEF ChatInv, Own
  <2>6. Listed'
    BY <2>1, <2>3, Named DEF ChatInv, Listed
  <2> QED BY <2>4, <2>5, <2>6 DEF ChatInv
<1>3. CASE Token(s)
  <2>1. /\ Running(s) /\ buffer' = buffer \cup {s}
        /\ UNCHANGED <<selected, base, answers, text, stream, target, handle, streaming, loads,
                       loading, removing, lateEnd, crossed>>
    BY <1>3 DEF Token
  <2>2. \A r \in Sends : Running(r)' <=> Running(r)
    BY <2>1 DEF Running, Open
  <2>3. ChatTypeOK'
    BY <2>1 DEF ChatInv, ChatTypeOK
  <2>4. (lateEnd \/ Own)' /\ Listed'
    BY <2>1, <2>2 DEF ChatInv, Own, Listed
  <2> QED BY <2>3, <2>4 DEF ChatInv
<1>4. CASE Ends(s)
  <2>1. /\ End(s) /\ buffer' = {} /\ streaming' = FALSE /\ handle' = 0 /\ text' = Flushed
        /\ lateEnd' = (lateEnd \/ target # s)
        /\ UNCHANGED <<selected, base, answers, target, loads, loading, removing, crossed>>
    BY <1>4 DEF Ends, EndRefs
  <2>2. /\ stream' \in [Sends -> StreamType]
        /\ \A r \in Sends : stream'[r].conv = stream[r].conv
        /\ \A r \in Sends : Running(r)' => Running(r) /\ r # s
    BY <1>0, <2>1, Ending DEF Running, Open
  <2>3. /\ Flushed \in [Sends -> SUBSET Sends]
        /\ Own => \A r \in Sends : Flushed[r] \subseteq {r}
    BY Flushing DEF ChatInv
  <2>4. lateEnd' \in BOOLEAN /\ (lateEnd => lateEnd')
    BY <2>1
  <2>5. ChatTypeOK'
    <3>1. {streaming, loading, lateEnd, crossed}' \subseteq BOOLEAN
      BY <2>1, <2>4 DEF ChatInv, ChatTypeOK
    <3>2. {target, handle}' \subseteq Sends \cup {0} /\ buffer' \subseteq Sends
      BY <2>1 DEF ChatInv, ChatTypeOK
    <3> QED BY <2>1, <2>2, <2>3, <3>1, <3>2 DEF ChatInv, ChatTypeOK
  <2>6. (lateEnd \/ Own)'
    BY <2>1, <2>2, <2>3 DEF ChatInv, Own
  <2>7. Listed'
    BY <2>1, <2>2, <2>4 DEF ChatInv, Listed
  <2> QED BY <2>5, <2>6, <2>7 DEF ChatInv
<1> QED BY <1>1, <1>2, <1>3, <1>4 DEF StreamStep

\* Every step keeps the invariant of the chat.
LEMMA StepChat == ChatInv /\ [Next]_vars => ChatInv'
<1> SUFFICES ASSUME ChatInv, [Next]_vars PROVE ChatInv'
  OBVIOUS
<1>1. CASE \E s \in Sends : Send(s) \/ StreamStep(s)
  BY <1>1, SendKeeps, StreamKeeps
<1>2. CASE \E c \in Conversations : Select(c) \/ Loaded(c) \/ LoadFails(c)
  BY <1>2, SelectKeeps, LoadKeeps
<1>3. CASE \E c \in Existing : Delete(c)
  <2>1. PICK c \in Existing : Delete(c)
    BY <1>3
  <2>2. /\ removing' \in [Existing -> {"no", "selected", "other", "done"}]
        /\ UNCHANGED listVars
    BY <2>1 DEF Delete, listVars, ChatInv, ChatTypeOK
  <2> QED BY <2>2 DEF listVars, ChatInv, ChatTypeOK, Own, Listed, Running, Open
<1>4. CASE \E c \in Existing : DeleteDone(c)
  <2>1. PICK c \in Existing : DeleteDone(c)
    BY <1>4
  <2>2. /\ removing' \in [Existing -> {"no", "selected", "other", "done"}]
        /\ StartOver \/ UNCHANGED listVars
    BY <2>1 DEF DeleteDone, ChatInv, ChatTypeOK
  <2>3. CASE UNCHANGED listVars
    BY <2>2, <2>3 DEF listVars, ChatInv, ChatTypeOK, Own, Listed, Running, Open
  <2> QED BY <2>2, <2>3, StartOverKeeps
<1>5. CASE Stop
  BY <1>5, StopKeeps
<1>6. CASE NewChat
  BY <1>6, StartOverKeeps DEF NewChat, ChatInv, ChatTypeOK
<1>7. CASE Frame
  <2>1. /\ text' = Flushed /\ buffer' = {}
        /\ UNCHANGED <<selected, base, answers, stream, target, handle, streaming, loads,
                       loading, removing, lateEnd, crossed>>
    BY <1>7 DEF Frame, Flush
  <2>2. /\ Flushed \in [Sends -> SUBSET Sends]
        /\ Own => \A r \in Sends : Flushed[r] \subseteq {r}
    BY Flushing DEF ChatInv
  <2>3. \A r \in Sends : Running(r)' <=> Running(r)
    BY <2>1 DEF Running, Open
  <2>4. ChatTypeOK'
    BY <2>1, <2>2 DEF ChatInv, ChatTypeOK
  <2>5. (lateEnd \/ Own)' /\ Listed'
    BY <2>1, <2>2, <2>3 DEF ChatInv, Own, Listed
  <2> QED BY <2>4, <2>5 DEF ChatInv
<1>8. CASE UNCHANGED chatVars
  BY <1>8 DEF chatVars, listVars, ChatInv, ChatTypeOK, Own, Listed, Running, Open
<1> QED
  BY <1>1, <1>2, <1>3, <1>4, <1>5, <1>6, <1>7, <1>8 DEF Next, vars

\* In every reachable state.
LEMMA AlwaysChat == Spec => []ChatInv
BY InitChat, StepChat, PTL DEF Spec

\* Every step is one for the attachments as well.
LEMMA AlwaysWaited == Spec => [](UploadsTypeOK /\ Waited)
<1>1. Init => UploadsTypeOK /\ Waited
  BY UploadsAssumption DEF Init, UploadsInit, UploadsTypeOK, Waited, Polling, Statuses, Settled
<1>2. UploadsTypeOK /\ Waited /\ [Next]_vars => UploadsTypeOK' /\ Waited'
  <2>1. [Next]_vars => UploadsNext \/ ClearFiles \/ UNCHANGED uploadVars
    <3>1. \A s \in Sends : Send(s) \/ StreamStep(s) => ClearFiles \/ UNCHANGED uploadVars
      BY DEF Send, StreamStep, Opens, Unauthorized, Refreshed, Goes, Starts, Token, Ends
    <3>2. \A c \in Conversations : Select(c) \/ Loaded(c) \/ LoadFails(c) => ClearFiles \/ UNCHANGED uploadVars
      BY DEF Select, Loaded, LoadFails
    <3>3. \A c \in Existing : Delete(c) \/ DeleteDone(c) => UNCHANGED uploadVars
      BY DEF Delete, DeleteDone
    <3>4. Stop \/ NewChat \/ Frame => ClearFiles \/ UNCHANGED uploadVars
      BY DEF Stop, NewChat, Frame
    <3> QED BY <3>1, <3>2, <3>3, <3>4 DEF Next, vars
  <2> QED BY <2>1, UploadsKeep
<1> QED BY <1>1, <1>2, PTL DEF Spec

\* Every variable of the chat and its attachments has its type.
THEOREM TypeOKHolds == Spec => []TypeOK
<1>1. UploadsTypeOK /\ ChatInv => TypeOK
  BY Types DEF ChatInv
<1> QED BY <1>1, AlwaysChat, AlwaysWaited, PTL

\* An answer gets its own tokens only, and Stop reaches the stream that runs, unless
\* a stopped stream was held up by a token refresh (useChat.ts:45-54, 150-205).
THEOREM OwnStreamHolds == Spec => []OwnStream
<1>1. ChatInv => OwnStream
  BY DEF ChatInv, Own, OwnStream
<1> QED BY <1>1, AlwaysChat, PTL

\* Once nothing is loading the list shows the selected conversation and the answer
\* that is streaming, unless an earlier load came in later (useChat.ts:61-102).
THEOREM ShownIsSelectedHolds == Spec => []ShownIsSelected
<1>1. ChatInv => ShownIsSelected
  BY DEF ChatInv, Listed, ShownIsSelected
<1> QED BY <1>1, AlwaysChat, PTL

\* A document is polled for a chip that is shown, unless a chip was removed while one of
\* its requests was under way, or two polls of the document overwrote each other's
\* handle, for any files and any sharing of documents (useUploads.ts:19-62, 113-136).
THEOREM PollsForSomeoneHolds == Spec => []PollsForSomeone
<1>1. UploadsTypeOK /\ Waited => PollsForSomeone
  BY DEF Waited, Excused, PollsForSomeone
<1> QED BY <1>1, AlwaysWaited, PTL
=============================================================================
