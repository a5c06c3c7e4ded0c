------------------------------- MODULE Uploads -------------------------------
(***************************************************************************)
(* The attachments of the prompt box (hooks/useUploads.ts): each file is   *)
(* uploaded, then its document is polled by a timer that every answer arms *)
(* again until the document is settled. The same bytes are one document,   *)
(* however often they are attached (documents.py:78-92), and the hook has  *)
(* one handle per document (timers.current): the chips of a document share *)
(* it, and the handle of one poll overwrites that of another. A request    *)
(* that is under way cannot be recalled. ChatClient composes this module   *)
(* with the chat.                                                          *)
(***************************************************************************)
CONSTANTS
  Files,     \* what a user attaches, each once
  Documents,
  Document   \* per file: the id the server has for its bytes

ASSUME UploadsAssumption == Document \in [Files -> Documents]

VARIABLES
  chip,    \* per file: what the prompt box shows of it
  doc,     \* per document: its status on the server
  upload,  \* per file: "no" upload, "sent", or the status it is answered with
  chain,   \* per file: the poll that its upload started: "idle", "armed" by a timer,
           \* "asking", or the status it is answered with
  slot,    \* per document: the file whose poll set its handle last, if there is one
  mishaps  \* history per document: how its polling came to differ from what is shown

uploadVars == <<chip, doc, upload, chain, slot, mishaps>>

Settled == {"ready", "failed"}
Statuses == {"processing"} \cup Settled

\* The chip has a document_id. One that failed to upload is "unsent" and has none.
HasDocument(f) == chip[f] \in Statuses
Shown(f) == HasDocument(f) \/ chip[f] \in {"uploading", "unsent"}
FilesOf(d) == {f \in Files : Document[f] = d}

Polling(f) == chain[f] # "idle"
UnderWay(f) == chain[f] \notin {"idle", "armed"}

\* "deaf": a poll failed; "robbed": a chip was removed while another one was shown;
\* "late": a chip was removed while a request of it was under way; "doubled": a poll
\* was armed while another one was.
Mishaps == {"deaf", "robbed", "late", "doubled"}
Mark(d, mishap, happens) ==
  mishaps' = [mishaps EXCEPT ![d] = IF happens THEN @ \cup {mishap} ELSE @]

UploadsInit ==
  /\ chip = [f \in Files |-> "none"] /\ doc = [d \in Documents |-> "none"]
  /\ upload = [f \in Files |-> "no"] /\ chain = [f \in Files |-> "idle"]
  /\ slot = [d \in Documents |-> {}] /\ mishaps = [d \in Documents |-> {}]

\* setAttachments maps over the chips that have the document_id.
ShowStatus(d, status) ==
  chip' = [f \in Files |-> IF f \in FilesOf(d) /\ HasDocument(f) THEN status ELSE chip[f]]

\* timers.current.set: an older handle is lost, its timer is not cleared.
Arm(f) ==
  /\ chain' = [chain EXCEPT ![f] = "armed"]
  /\ slot' = [slot EXCEPT ![Document[f]] = {f}]
  /\ Mark(Document[f], "doubled",
          \E g \in FilesOf(Document[f]) \ {f} : chain[g] = "armed")

\* The polls after the handles of D were cleared; a request under way goes on.
Cleared(D) ==
  [f \in Files |-> IF Document[f] \in D /\ f \in slot[Document[f]] /\ chain[f] = "armed"
                   THEN "idle" ELSE chain[f]]

\* stopPolling(d), in the poll of f, which then ends.
StopPolling(d, f) ==
  /\ chain' = [Cleared({d}) EXCEPT ![f] = "idle"]
  /\ slot' = [slot EXCEPT ![d] = {}]

-----------------------------------------------------------------------------
AddFile(f) ==
  /\ chip[f] = "none"
  /\ chip' = [chip EXCEPT ![f] = "uploading"]
  /\ upload' = [upload EXCEPT ![f] = "sent"]
  /\ UNCHANGED <<doc, chain, slot, mishaps>>

\* upload_document: a document that failed is processed again, any other one of these
\* bytes is returned as it is.
UploadHandled(f) ==
  LET d == Document[f] IN
  /\ upload[f] = "sent"
  /\ doc' = [doc EXCEPT ![d] = IF @ \in {"none", "failed"} THEN "processing" ELSE @]
  /\ upload' = [upload EXCEPT ![f] = doc'[d]]
  /\ UNCHANGED <<chip, chain, slot, mishaps>>

UploadAnswered(f) ==
  /\ upload[f] \in Statuses /\ upload' = [upload EXCEPT ![f] = "no"]
  /\ chip' = [chip EXCEPT ![f] = IF Shown(f) THEN upload[f] ELSE @]
  /\ IF upload[f] \in Settled THEN UNCHANGED <<chain, slot, mishaps>> ELSE Arm(f)
  /\ UNCHANGED doc

UploadFails(f) ==
  /\ upload[f] # "no" /\ upload' = [upload EXCEPT ![f] = "no"]
  /\ chip' = [chip EXCEPT ![f] = IF Shown(f) THEN "unsent" ELSE @]
  /\ UNCHANGED <<doc, chain, slot, mishaps>>

TimerFires(f) ==
  /\ chain[f] = "armed" /\ chain' = [chain EXCEPT ![f] = "asking"]
  /\ UNCHANGED <<chip, doc, upload, slot, mishaps>>

TickHandled(f) ==
  /\ chain[f] = "asking" /\ chain' = [chain EXCEPT ![f] = doc[Document[f]]]
  /\ UNCHANGED <<chip, doc, upload, slot, mishaps>>

\* Mutant: the document is polled once.
RearmNever(f) == FALSE
Rearm(f) == chain[f] \notin Settled

\* The answer, old as it may be, is for every chip of the document; it arms the next
\* poll whatever became of them.
TickAnswered(f) ==
  LET d == Document[f] IN
  /\ chain[f] \in Statuses
  /\ ShowStatus(d, chain[f])
  /\ IF Rearm(f) THEN Arm(f) ELSE StopPolling(d, f) /\ UNCHANGED mishaps
  /\ UNCHANGED <<doc, upload>>

\* One failed poll is the last one; the chips keep the status they had.
TickFails(f) ==
  LET d == Document[f] IN
  /\ UnderWay(f)
  /\ StopPolling(d, f)
  /\ Mark(d, "deaf", TRUE)
  /\ UNCHANGED <<chip, doc, upload>>

\* Ingestion, first or again (IngestionService).
DocumentMoves(d) ==
  /\ doc[d] # "none"
  /\ \E status \in Statuses : doc' = [doc EXCEPT ![d] = status]
  /\ UNCHANGED <<chip, upload, chain, slot, mishaps>>

\* Mutant: a removed chip keeps its timer.
StopForKeepingTimers(f) == UNCHANGED <<chain, slot>>
StopFor(f) ==
  IF HasDocument(f) THEN /\ chain' = Cleared({Document[f]})
                         /\ slot' = [slot EXCEPT ![Document[f]] = {}]
                    ELSE UNCHANGED <<chain, slot>>

\* remove(): the one handle of the document is cleared, whoever else is shown.
RemoveFile(f) ==
  LET others == FilesOf(Document[f]) \ {f} IN
  /\ Shown(f)
  /\ chip' = [chip EXCEPT ![f] = "gone"]
  /\ StopFor(f)
  /\ mishaps' = [mishaps EXCEPT ![Document[f]] = @
       \cup {m \in {"late"} :
               \/ upload[f] # "no"
               \/ HasDocument(f) /\ \E g \in FilesOf(Document[f]) : UnderWay(g)}
       \cup {m \in {"robbed"} : HasDocument(f) /\ \E g \in others : HasDocument(g)}]
  /\ UNCHANGED <<doc, upload>>

\* clear(): every handle there is.
ClearFiles ==
  /\ chip' = [f \in Files |-> IF Shown(f) THEN "gone" ELSE chip[f]]
  /\ chain' = Cleared(Documents)
  /\ slot' = [d \in Documents |-> {}]
  /\ mishaps' = [d \in Documents |-> mishaps[d]
       \cup {m \in {"late"} :
               \E f \in FilesOf(d) : UnderWay(f) \/ (Shown(f) /\ upload[f] # "no")}]
  /\ UNCHANGED <<doc, upload>>

Deliver(f) ==
  \/ UploadHandled(f) \/ UploadAnswered(f) \/ UploadFails(f)
  \/ TimerFires(f) \/ TickHandled(f) \/ TickAnswered(f) \/ TickFails(f)

UploadsNext ==
  \/ \E f \in Files : AddFile(f) \/ Deliver(f) \/ RemoveFile(f)
  \/ \E d \in Documents : DocumentMoves(d)

UploadsTypeOK ==
  /\ chip \in [Files -> {"none", "uploading", "unsent", "gone"} \cup Statuses]
  /\ doc \in [Documents -> {"none"} \cup Statuses]
  /\ upload \in [Files -> {"no", "sent"} \cup Statuses]
  /\ chain \in [Files -> {"idle", "armed", "asking"} \cup Statuses]
  /\ slot \in [Documents -> SUBSET Files]
  /\ mishaps \in [Documents -> SUBSET Mishaps]
=============================================================================
