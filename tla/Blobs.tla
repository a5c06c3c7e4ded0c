--------------------------------- MODULE Blobs ---------------------------------
(***************************************************************************)
(* The stored file of a document (services/storage.py), in no transaction  *)
(* with its row: an upload writes the file and then looks for the row      *)
(* (api/routes/documents.py), a removal commits the DELETE of the row and  *)
(* then deletes the file (services/ingestion.py). A file is addressed by   *)
(* content and filename, a row by user and content: users share files, and *)
(* a row remembers the filename it was inserted with.                      *)
(*                                                                         *)
(* A document is named by the upload that inserted it. Ingestion and       *)
(* IngestionService have what becomes of the row.                          *)
(***************************************************************************)
CONSTANTS
  Posts,    \* the uploads, each made once
  Removals, \* the requests to remove a document, each made once
  UserOf,   \* per upload
  BytesOf,  \* per upload
  NameOf,   \* per upload: its filename
  Breaks    \* whether a request can die and the store refuse to delete

ASSUME BlobsAssumption == Breaks \in BOOLEAN

VARIABLES
  post,     \* per upload: its next step
  rows,     \* the documents in the table
  store,    \* the keys in the store
  removal,  \* per removal: its next step and what it has selected
  overlaps  \* per upload: the removals under way during it (history)

blobVars == <<post, rows, store, removal, overlaps>>

\* The key of store_bytes; what identifies a row under the unique index.
Key(p) == <<BytesOf[p], NameOf[p]>>
Upload(p) == <<UserOf[p], BytesOf[p]>>

BlobTypeOK ==
  /\ post \in [Posts -> {"new", "lookup", "insert", "done"}]
  /\ rows \subseteq Posts
  /\ store \subseteq {Key(p) : p \in Posts}
  /\ removal \in [Removals -> [step : {"new", "row", "file", "done", "kept"}, of : SUBSET Posts]]
  /\ overlaps \in [Posts -> SUBSET Removals]

BlobInit ==
  /\ post = [p \in Posts |-> "new"]
  /\ rows = {} /\ store = {}
  /\ removal = [r \in Removals |-> [step |-> "new", of |-> {}]]
  /\ overlaps = [p \in Posts |-> {}]

Advances(p, step) == post' = [post EXCEPT ![p] = step]
UnderWay(r) == removal[r].step \in {"row", "file"}

-----------------------------------------------------------------------------
(* upload_document. *)

\* store_bytes: a file that is there already is written again.
StoreBytes(p) ==
  /\ post[p] = "new"
  /\ store' = store \cup {Key(p)}
  /\ overlaps' = [overlaps EXCEPT ![p] = {r \in Removals : UnderWay(r)}]
  /\ Advances(p, "lookup")
  /\ UNCHANGED <<rows, removal>>

Taken(p) == \E d \in rows : Upload(d) = Upload(p)

\* A document of the same bytes is returned, whatever its filename: the file just
\* stored may have no row.
FindDocument(p) ==
  /\ post[p] = "lookup"
  /\ Advances(p, IF Taken(p) THEN "done" ELSE "insert")
  /\ UNCHANGED <<rows, store, removal, overlaps>>

\* Mutant: without the unique index.
InsertAnyway(p) ==
  /\ post[p] = "insert"
  /\ rows' = rows \cup {p}
  /\ Advances(p, "done")
  /\ UNCHANGED <<store, removal, overlaps>>

\* The INSERT and its commit; the unique index refuses a second row.
InsertDocument(p) ==
  /\ post[p] = "insert"
  /\ rows' = IF Taken(p) THEN rows ELSE rows \cup {p}
  /\ Advances(p, "done")
  /\ UNCHANGED <<store, removal, overlaps>>

\* The request dies, or its database does; what it has stored stays.
UploadDies(p) ==
  /\ Breaks
  /\ post[p] \in {"lookup", "insert"}
  /\ Advances(p, "done")
  /\ UNCHANGED <<rows, store, removal, overlaps>>

-----------------------------------------------------------------------------
(* delete_document. *)

Proceeds(r, step, of) == removal' = [removal EXCEPT ![r] = [step |-> step, of |-> of]]

\* The SELECT, with the uri.
SelectDocument(r) ==
  /\ removal[r].step = "new"
  /\ \E d \in rows : Proceeds(r, "row", {d})
  /\ overlaps' = [p \in Posts |->
                    IF post[p] \in {"lookup", "insert"} THEN overlaps[p] \cup {r} ELSE overlaps[p]]
  /\ UNCHANGED <<post, rows, store>>

\* The DELETE and its commit; a row that is gone by now is not missed.
DeleteRow(r) ==
  /\ removal[r].step = "row"
  /\ rows' = rows \ removal[r].of
  /\ Proceeds(r, "file", removal[r].of)
  /\ UNCHANGED <<post, store, overlaps>>

\* storage.delete
DeleteFile(r) ==
  /\ removal[r].step = "file"
  /\ store' = store \ {Key(d) : d \in removal[r].of}
  /\ Proceeds(r, "done", removal[r].of)
  /\ UNCHANGED <<post, rows, overlaps>>

\* The DELETE fails or the process dies; a store that fails is logged and forgotten.
RemovalDies(r) ==
  /\ Breaks
  /\ UnderWay(r)
  /\ Proceeds(r, "kept", removal[r].of)
  /\ UNCHANGED <<post, rows, store, overlaps>>

BlobNext ==
  \/ \E p \in Posts :
       StoreBytes(p) \/ FindDocument(p) \/ InsertDocument(p) \/ UploadDies(p)
  \/ \E r \in Removals :
       SelectDocument(r) \/ DeleteRow(r) \/ DeleteFile(r) \/ RemovalDies(r)

BlobSpec == BlobInit /\ [][BlobNext]_blobVars

-----------------------------------------------------------------------------
(* What the documents may rely on. *)

\* download_to_temp finds the file.
Readable(d) == Key(d) \in store

\* A removal of another document took the file: one of another user, or one that was
\* under way during the upload.
Took(r, d) ==
  /\ removal[r].step = "done"
  /\ \E x \in removal[r].of :
       /\ x # d /\ Key(x) = Key(d)
       /\ UserOf[x] # UserOf[d] \/ r \in overlaps[d]

\* A document keeps its file as long as it has its row, whatever uploads and removals
\* of its user come before and after it: it loses the file only to a removal that
\* overlapped its upload, or to another user's document of the same bytes and name
\* (services/storage.py:39-43, documents.py:70-121, ingestion.py:172-188).
FilesKept == \A d \in rows : Readable(d) \/ \E r \in Removals : Took(r, d)
=============================================================================
