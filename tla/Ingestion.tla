------------------------------ MODULE Ingestion ------------------------------
(***************************************************************************)
(* backend/app/services/ingestion.py against PostgreSQL at READ COMMITTED: *)
(* any number of concurrent executions ("runs") of `ingest_document`, over *)
(* the `documents` and `chunks` tables, next to the API's writes to them.  *)
(*                                                                         *)
(* Each `_set_status` is a transaction of its own, one step here. The      *)
(* replacement of the passages is one transaction of three statements, in  *)
(* the order in which SQLAlchemy sends them (autoflush is off): DELETE the *)
(* chunks its snapshot shows, UPDATE the row, INSERT at the flush before   *)
(* COMMIT. delete_document has three as well: DELETE the chunks it loaded, *)
(* DELETE the row, and the cascade over the chunks that came since. Each   *)
(* statement waits for what other open transactions have locked, which may *)
(* be a cycle: PostgreSQL then aborts one of its transactions.             *)
(***************************************************************************)
EXTENDS FiniteSets

CONSTANTS
  Docs,    \* document ids; a UUID is never used again
  Runs,    \* executions of ingest_document
  Deletes, \* executions of delete_document
  NoRun,
  Faulty   \* whether parsing, OCR, providers, the database or the process fail

ASSUME IngestionAssumption ==
  NoRun \notin Runs /\ Runs \cap Deletes = {} /\ Faulty \in BOOLEAN

Txns == Runs \cup Deletes

VARIABLES
  row,      \* per document: its status column, or "none" / "deleted" without a row
  chunks,   \* per document: the runs whose passages are in the chunks table
  counted,  \* per document: the run that wrote chunk_count, or NoRun
  pc,       \* per execution: the step it is about to take, or how it ended
  target,   \* per execution: its document
  seen,     \* per execution: the passages its DELETE can see, then those it deleted
  holder    \* per document: the open transaction that has its row locked, if any

docVars == <<row, chunks, counted>>
runVars == <<pc, target, seen, holder>>
vars == <<row, chunks, counted, pc, target, seen, holder>>

InProgress == {"parsing", "chunking", "embedding"}
Statuses == {"pending", "ready", "failed"} \cup InProgress
\* "deleting" passages, "locking" the row, "writing" passages or cascading over them
Open == {"deleting", "locking", "writing"}
Working == {"loaded", "failing"} \cup InProgress \cup Open
Ended == {"ready", "failed", "raised", "crashed"}

Exists(d) == row[d] \in Statuses

TypeOK ==
  /\ row \in [Docs -> Statuses \cup {"none", "deleted"}]
  /\ chunks \in [Docs -> SUBSET Runs]
  /\ counted \in [Docs -> Runs \cup {NoRun}]
  /\ pc \in [Txns -> {"idle", "done"} \cup Working \cup Ended]
  /\ target \in [Txns -> Docs]
  /\ seen \in [Txns -> SUBSET Runs]
  /\ holder \in [Docs -> SUBSET Txns]

Init ==
  /\ row = [d \in Docs |-> "none"]
  /\ chunks = [d \in Docs |-> {}]
  /\ counted = [d \in Docs |-> NoRun]
  /\ pc = [t \in Txns |-> "idle"]
  /\ target \in [Txns -> Docs]
  /\ seen = [t \in Txns |-> {}]
  /\ holder = [d \in Docs |-> {}]

-----------------------------------------------------------------------------
(* Locks. *)

\* The passages that t has deleted and not committed yet.
Deleted(t) == IF pc[t] \in {"locking", "writing"} THEN seen[t] ELSE {}

\* The open transactions that the next statement of t has to wait for.
WaitsFor(t) ==
  {u \in Txns \ {t} :
     /\ pc[t] \in Open /\ target[u] = target[t]
     /\ \/ pc[t] = "deleting" /\ Deleted(u) \cap seen[t] # {}
        \/ pc[t] = "locking" /\ u \in holder[target[t]]
        \/ pc[t] = "writing" /\ Deleted(u) \cap (chunks[target[t]] \ Deleted(t)) # {}}

\* It waits for itself, by way of others: it is in every set that has those it
\* waits for and, with each transaction, those which that one waits for.
InCycle(t) ==
  /\ WaitsFor(t) # {}
  /\ \A S \in SUBSET Txns :
       WaitsFor(t) \subseteq S /\ (\A u \in S : WaitsFor(u) \subseteq S) => t \in S

\* Nobody has the row locked: what `_set_status` and a requeue wait for.
RowFree(d) == holder[d] = {}

\* The transaction is over: it keeps no lock and no snapshot.
Release(t) ==
  /\ holder' = [holder EXCEPT ![target[t]] = @ \ {t}]
  /\ seen' = [seen EXCEPT ![t] = {}]
Goes(t, step) == pc' = [pc EXCEPT ![t] = step]

\* Mutant: the failure is handled inside the block of the session, whose transaction
\* is still open.
RollbackLater(t) == Goes(t, IF t \in Runs THEN "failing" ELSE "done") /\ UNCHANGED <<holder, seen>>

\* session_scope rolls back; a run goes to its except clause.
Rollback(t) == Goes(t, IF t \in Runs THEN "failing" ELSE "done") /\ Release(t)

\* The chunks: what the DELETE sees, less what others have deleted meanwhile.
DeletePassages(t) ==
  /\ pc[t] = "deleting" /\ WaitsFor(t) = {}
  /\ Goes(t, "locking")
  /\ seen' = [seen EXCEPT ![t] = @ \cap chunks[target[t]]]
  /\ UNCHANGED <<docVars, target, holder>>

\* The row; a statement that finds none locks none and is no error.
LockRow(t) ==
  /\ pc[t] = "locking" /\ RowFree(target[t])
  /\ Goes(t, "writing")
  /\ holder' = [holder EXCEPT ![target[t]] = IF Exists(target[t]) THEN {t} ELSE {}]
  /\ UNCHANGED <<docVars, target, seen>>

DeadlockVictim(t) == InCycle(t) /\ Rollback(t) /\ UNCHANGED <<docVars, target>>

-----------------------------------------------------------------------------
(* The API's transactions on a document. *)

Create(d) ==
  /\ row[d] = "none"
  /\ row' = [row EXCEPT ![d] = "pending"]
  /\ UNCHANGED <<chunks, counted, runVars>>

\* reingest, and the upload of bytes whose document has failed.
Requeue(d) ==
  /\ Exists(d) /\ RowFree(d)
  /\ row' = [row EXCEPT ![d] = "pending"]
  /\ UNCHANGED <<chunks, counted, runVars>>

\* delete_document: session.delete loads the chunks, the flush deletes them.
BeginRemove(x) ==
  LET d == target[x] IN
  /\ pc[x] = "idle" /\ row[d] # "none"
  /\ Goes(x, IF Exists(d) THEN "deleting" ELSE "done")
  /\ seen' = [seen EXCEPT ![x] = chunks[d]]
  /\ UNCHANGED <<docVars, target, holder>>

\* ON DELETE CASCADE takes the chunks that are left, then COMMIT.
CommitRemove(x) ==
  LET d == target[x] IN
  /\ pc[x] = "writing" /\ WaitsFor(x) = {}
  /\ IF Exists(d) THEN /\ row' = [row EXCEPT ![d] = "deleted"]
                       /\ chunks' = [chunks EXCEPT ![d] = {}]
                       /\ counted' = [counted EXCEPT ![d] = NoRun]
                  ELSE UNCHANGED docVars
  /\ Goes(x, "done") /\ Release(x)
  /\ UNCHANGED target

\* The connection breaks or the request is cancelled.
RemoveFails(x) ==
  Faulty /\ pc[x] \in Open /\ Rollback(x) /\ UNCHANGED <<docVars, target>>

RemoveProgress(x) ==
  DeletePassages(x) \/ LockRow(x) \/ CommitRemove(x) \/ DeadlockVictim(x)
RemoveStep(x) == BeginRemove(x) \/ RemoveProgress(x) \/ RemoveFails(x)

-----------------------------------------------------------------------------
(* One run. *)

\* A document that is not there is a ValueError, outside the try.
Start(r) ==
  /\ pc[r] = "idle"
  /\ row[target[r]] # "none"
  /\ Goes(r, IF Exists(target[r]) THEN "loaded" ELSE "raised")
  /\ UNCHANGED <<docVars, target, seen, holder>>

\* `_set_status`: an UPDATE that finds no row changes nothing and is no error.
SetStatus(d, status) ==
  RowFree(d) /\ row' = IF Exists(d) THEN [row EXCEPT ![d] = status] ELSE row

\* The step succeeds and announces the next one in the status column.
Advance(r, from, to) ==
  /\ pc[r] = from
  /\ SetStatus(target[r], to) /\ Goes(r, to)
  /\ UNCHANGED <<chunks, counted, target, seen, holder>>

\* Mutant: the old passages are dropped when processing starts.
AnnounceDroppingChunks(r) ==
  /\ pc[r] = "loaded"
  /\ SetStatus(target[r], "parsing") /\ Goes(r, "parsing")
  /\ chunks' = [chunks EXCEPT ![target[r]] = {}]
  /\ UNCHANGED <<counted, target, seen, holder>>

Announce(r) == Advance(r, "loaded", "parsing")
Extract(r) == Advance(r, "parsing", "chunking")
Split(r) == Advance(r, "chunking", "embedding")

\* The vectors are there; DELETE FROM chunks starts.
BeginReplace(r) ==
  /\ pc[r] = "embedding" /\ Goes(r, "deleting")
  /\ seen' = [seen EXCEPT ![r] = chunks[target[r]]]
  /\ UNCHANGED <<docVars, target, holder>>

\* Mutants: without the unique index; without the foreign key.
ConflictWithoutUnique(r) == ~Exists(target[r])
ConflictWithoutForeignKey(r) == ~(chunks[target[r]] \subseteq seen[r])

\* The passages left after the DELETE belong to a run that committed meanwhile.
Conflict(r) ==
  \/ ~Exists(target[r])                     \* foreign key violation
  \/ ~(chunks[target[r]] \subseteq seen[r]) \* uq_chunk_ordinal violation

\* INSERT, COMMIT. When the connection breaks after the commit, the code sees an
\* exception although the transaction has happened.
CommitReplace(r) ==
  LET d == target[r] IN
  /\ pc[r] = "writing" /\ WaitsFor(r) = {}
  /\ ~Conflict(r)
  /\ row' = [row EXCEPT ![d] = "ready"]
  /\ chunks' = [chunks EXCEPT ![d] = (@ \ seen[r]) \cup {r}]
  /\ counted' = [counted EXCEPT ![d] = r]
  /\ Release(r) /\ (Goes(r, "ready") \/ (Faulty /\ Goes(r, "failing")))
  /\ UNCHANGED target

AbortReplace(r) ==
  /\ pc[r] = "writing" /\ WaitsFor(r) = {}
  /\ Conflict(r) /\ Rollback(r)
  /\ UNCHANGED <<docVars, target>>

\* Any exception inside the try, the transaction it was in rolled back.
Fault(r) ==
  /\ Faulty
  /\ pc[r] \in Working \ {"failing"} /\ Rollback(r)
  /\ UNCHANGED <<docVars, target>>

\* Mutant: a failure is returned but not recorded.
MarkFailedSilently(r) ==
  /\ pc[r] = "failing" /\ Goes(r, "failed")
  /\ UNCHANGED <<docVars, target, seen, holder>>

\* The except clause.
MarkFailed(r) ==
  /\ pc[r] = "failing"
  /\ SetStatus(target[r], "failed") /\ Goes(r, "failed")
  /\ UNCHANGED <<chunks, counted, target, seen, holder>>

\* Its own `_set_status` raises.
FailsToRecord(r) ==
  /\ Faulty /\ pc[r] = "failing" /\ Goes(r, "raised")
  /\ UNCHANGED <<docVars, target, seen, holder>>

\* The process dies, or the task is cancelled, which no `except` catches.
Crash(r) ==
  /\ Faulty
  /\ pc[r] \in Working /\ Goes(r, "crashed") /\ Release(r)
  /\ UNCHANGED <<docVars, target>>

RunProgress(r) ==
  \/ Announce(r) \/ Extract(r) \/ Split(r) \/ BeginReplace(r) \/ DeletePassages(r)
  \/ LockRow(r) \/ CommitReplace(r) \/ AbortReplace(r) \/ DeadlockVictim(r) \/ MarkFailed(r)
RunFails(r) == Fault(r) \/ FailsToRecord(r) \/ Crash(r)

Next ==
  \/ \E d \in Docs : Create(d) \/ Requeue(d)
  \/ \E x \in Deletes : RemoveStep(x)
  \/ \E r \in Runs : Start(r) \/ RunProgress(r) \/ RunFails(r)

Spec == Init /\ [][Next]_vars

\* An execution that has been started is not suspended for ever, and PostgreSQL
\* looks for deadlocks; that anything fails is not assumed.
FairSpec ==
  /\ Spec
  /\ \A r \in Runs : WF_vars(RunProgress(r))
  /\ \A x \in Deletes : WF_vars(RemoveProgress(x))

-----------------------------------------------------------------------------
(* Correctness. *)

\* The chunks of a document are all of one run: two builds are never mixed,
\* however many runs replace them at once (ingestion.py:67).
OneBuild == \A d \in Docs : \A p, q \in chunks[d] : p = q

\* A ready document offers the passages that its chunk_count counts, although
\* other runs, requeues and failures came in between.
ReadyIsBuilt == \A d \in Docs : row[d] = "ready" => chunks[d] = {counted[d]}

\* Passages of a document that was deleted never come back, whatever runs were
\* about to insert theirs.
NoOrphanChunks == \A d \in Docs : ~Exists(d) => chunks[d] = {}

\* Only a crash, or an error while recording an error, leaves a document in an
\* in-progress status that nobody works on: the UI polls such a row for ever.
NoAbandonedStatus ==
  \A d \in Docs : row[d] \in InProgress =>
    \E r \in Runs : target[r] = d /\ pc[r] \in Working \cup {"raised", "crashed"}

\* No run waits for ever. The locks of replacements and deletes do form cycles,
\* which PostgreSQL breaks; no execution waits for a lock of its own or for one that
\* is never released (ingestion.py:66-107, 161-188).
RunsEnd == \A r \in Runs : pc[r] \in Working ~> pc[r] \in Ended

\* What a search sees is what Library promises.
BuildOf(stored) == IF stored = {} THEN NoRun ELSE CHOOSE r \in Runs : r \in stored
Searchable(d) == BuildOf(chunks[d])
Phase(d) == IF Exists(d) THEN "live" ELSE IF row[d] = "none" THEN "new" ELSE "gone"

L == INSTANCE Library WITH
       Builds <- Runs, NoBuild <- NoRun,
       phase <- [d \in Docs |-> Phase(d)],
       passages <- [d \in Docs |-> Searchable(d)]

ImplementsLibrary == L!Spec

\* "Delivery is at-least-once, which is safe here because `ingest_document`
\* replaces a document's chunks rather than appending: reprocessing converges
\* on the same result" (queue.py:12-14): without any fault, processing a
\* document twice never leaves it failed.
Converges == \A d \in Docs : row[d] # "failed"
=============================================================================
