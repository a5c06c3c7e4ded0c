--------------------------- MODULE IngestionProofs ---------------------------
(*************************************************************************)
(* For every number of documents, runs, deletes, requests, messages and  *)
(* workers: what a search can see of a document is one whole build, and  *)
(* ingestion implements the Library; the service around it implements    *)
(* ingestion and, but for three named ways, loses no document. Last the  *)
(* stored files, for every number of uploads and removals.               *)
(*************************************************************************)
EXTENDS IngestionService, Blobs, TLAPS

-----------------------------------------------------------------------------
(* Ingestion. *)

\* The inductive invariant: the invariants support each other and need nothing
\* beyond the types. NoOrphanChunks is what lets Create and SetStatus keep
\* ReadyIsBuilt, since neither of them writes "ready".
IngestionInv ==
  /\ TypeOK
  /\ OneBuild
  /\ ReadyIsBuilt
  /\ NoOrphanChunks
  /\ NoAbandonedStatus

\* Empty tables satisfy the invariant.
LEMMA IngestionInit == Init => IngestionInv
  BY IngestionAssumption
  DEF Init, IngestionInv, TypeOK, OneBuild, ReadyIsBuilt, NoOrphanChunks,
      NoAbandonedStatus, Exists, Statuses, InProgress

\* What a commit does, once nothing conflicts: its passages alone remain.
LEMMA CommitEffect ==
  ASSUME TypeOK, NEW r \in Runs, CommitReplace(r)
  PROVE  /\ target[r] \in Docs
         /\ Exists(target[r])
         /\ row' = [row EXCEPT ![target[r]] = "ready"]
         /\ chunks' = [chunks EXCEPT ![target[r]] = {r}]
         /\ counted' = [counted EXCEPT ![target[r]] = r]
         /\ UNCHANGED target /\ Release(r)
         /\ pc' \in {[pc EXCEPT ![r] = "ready"], [pc EXCEPT ![r] = "failing"]}
  <1>1. target[r] \in Docs /\ Exists(target[r]) /\ chunks[target[r]] \subseteq seen[r]
    BY DEF CommitReplace, Conflict, TypeOK, Txns
  <1>2. (chunks[target[r]] \ seen[r]) \cup {r} = {r}
    BY <1>1
  <1>3. QED BY <1>1, <1>2 DEF CommitReplace, Goes

\* A run writes a status other than "ready".
Announces(r) ==
  /\ UNCHANGED <<chunks, counted>>
  /\ \E s \in InProgress \cup {"failed"} : SetStatus(target[r], s)

\* A delete takes the row, its columns and its passages.
Takes(x) ==
  /\ target[x] \in Docs /\ Exists(target[x])
  /\ row' = [row EXCEPT ![target[x]] = "deleted"]
  /\ chunks' = [chunks EXCEPT ![target[x]] = {}]
  /\ counted' = [counted EXCEPT ![target[x]] = NoRun]

\* What the steps do to the tables.
LEMMA StepKinds ==
  ASSUME TypeOK, [Next]_vars
  PROVE  \/ UNCHANGED docVars
         \/ \E d \in Docs : Create(d) \/ Requeue(d)
         \/ \E r \in Runs : Announces(r) \/ CommitReplace(r)
         \/ \E x \in Deletes : Takes(x)
  <1>1. ASSUME NEW t \in Txns, DeletePassages(t) \/ LockRow(t) \/ DeadlockVictim(t)
        PROVE  UNCHANGED docVars
    BY <1>1 DEF DeletePassages, LockRow, DeadlockVictim
  <1>2. ASSUME NEW x \in Deletes, RemoveStep(x) PROVE UNCHANGED docVars \/ Takes(x)
    <2>1. CASE CommitRemove(x)
      BY <2>1 DEF CommitRemove, Takes, TypeOK, Txns, docVars
    <2>2. CASE BeginRemove(x) \/ RemoveFails(x)
      BY <2>2 DEF BeginRemove, RemoveFails
    <2>3. QED BY <1>1, <1>2, <2>1, <2>2 DEF RemoveStep, RemoveProgress, Txns
  <1>3. ASSUME NEW r \in Runs, RunProgress(r)
        PROVE  UNCHANGED docVars \/ Announces(r) \/ CommitReplace(r)
    <2>1. CASE Announce(r) \/ Extract(r) \/ Split(r) \/ MarkFailed(r)
      BY <2>1 DEF Announce, Extract, Split, Advance, MarkFailed, Announces, InProgress
    <2>2. CASE BeginReplace(r) \/ AbortReplace(r)
      BY <2>2 DEF BeginReplace, AbortReplace
    <2>3. QED BY <1>1, <1>3, <2>1, <2>2 DEF RunProgress, Txns
  <1>4. ASSUME NEW r \in Runs, Start(r) \/ RunFails(r) PROVE UNCHANGED docVars
    BY <1>4 DEF Start, RunFails, Fault, FailsToRecord, Crash
  <1>5. CASE UNCHANGED vars
    BY <1>5 DEF vars, docVars
  <1>6. QED BY <1>2, <1>3, <1>4, <1>5 DEF Next

\* Every step keeps the types.
LEMMA TypeStep == TypeOK /\ [Next]_vars => TypeOK'
  <1> SUFFICES ASSUME TypeOK, [Next]_vars PROVE TypeOK'
    OBVIOUS
  <1> USE DEF TypeOK, docVars, runVars, Statuses, InProgress, Open, Working, Ended, Exists,
              Txns, Goes, Release
  <1>1. ASSUME NEW d \in Docs, Create(d) \/ Requeue(d) PROVE TypeOK'
    BY <1>1 DEF Create, Requeue
  <1>2. ASSUME NEW t \in Txns, DeletePassages(t) \/ LockRow(t) PROVE TypeOK'
    BY <1>2 DEF DeletePassages, LockRow
  <1>3. ASSUME NEW t \in Txns, Rollback(t), UNCHANGED <<docVars, target>> PROVE TypeOK'
    BY <1>3 DEF Rollback
  <1>4. ASSUME NEW x \in Deletes, BeginRemove(x) \/ CommitRemove(x) PROVE TypeOK'
    BY <1>4 DEF BeginRemove, CommitRemove
  <1>5. ASSUME NEW r \in Runs,
               Start(r) \/ FailsToRecord(r) \/ Crash(r) \/ BeginReplace(r)
        PROVE  TypeOK'
    BY <1>5 DEF Start, FailsToRecord, Crash, BeginReplace
  <1>6. ASSUME NEW r \in Runs, Announce(r) \/ Extract(r) \/ Split(r) \/ MarkFailed(r)
        PROVE  TypeOK'
    BY <1>6 DEF Announce, Extract, Split, Advance, SetStatus, MarkFailed
  <1>7. ASSUME NEW r \in Runs, CommitReplace(r) PROVE TypeOK'
    BY <1>7, CommitEffect
  <1>8. CASE UNCHANGED vars
    BY <1>8 DEF vars
  <1>9. QED
    BY <1>1, <1>2, <1>3, <1>4, <1>5, <1>6, <1>7, <1>8
    DEF Next, RemoveStep, RemoveProgress, RemoveFails, RunProgress, RunFails, AbortReplace,
        DeadlockVictim, Fault

\* The facts about the tables that the invariants are about.
TablesOK == OneBuild /\ ReadyIsBuilt /\ NoOrphanChunks

\* A step that leaves the chunks alone, keeps rows where they are and does not
\* write "ready" keeps the tables in order.
LEMMA StatusOnly ==
  ASSUME TypeOK, TablesOK, UNCHANGED <<chunks, counted>>,
         \A d \in Docs : row'[d] # row[d] => row'[d] # "ready",
         \A d \in Docs : Exists(d) => Exists(d)'
  PROVE  TablesOK'
  BY DEF TypeOK, TablesOK, OneBuild, ReadyIsBuilt, NoOrphanChunks

\* Every step keeps the tables in order.
LEMMA TablesStep == TypeOK /\ TablesOK /\ [Next]_vars => TablesOK'
  <1> SUFFICES ASSUME TypeOK, TablesOK, [Next]_vars PROVE TablesOK'
    OBVIOUS
  <1>1. ASSUME NEW d \in Docs, Create(d) \/ Requeue(d) PROVE TablesOK'
    BY <1>1, StatusOnly DEF Create, Requeue, TypeOK, Exists, Statuses
  <1>2. ASSUME NEW x \in Deletes, Takes(x) PROVE TablesOK'
    BY <1>2
    DEF Takes, TypeOK, TablesOK, OneBuild, ReadyIsBuilt, NoOrphanChunks,
        Exists, Statuses, InProgress
  <1>3. ASSUME NEW r \in Runs, Announces(r) PROVE TablesOK'
    <2>1. \A d \in Docs : row'[d] # row[d] => row'[d] # "ready"
      BY <1>3 DEF Announces, SetStatus, TypeOK, InProgress
    <2>2. \A d \in Docs : Exists(d) => Exists(d)'
      BY <1>3 DEF Announces, SetStatus, TypeOK, Exists, Statuses, InProgress
    <2>3. QED BY <1>3, <2>1, <2>2, StatusOnly DEF Announces
  <1>4. ASSUME NEW r \in Runs, CommitReplace(r) PROVE TablesOK'
    BY <1>4, CommitEffect
    DEF TypeOK, TablesOK, OneBuild, ReadyIsBuilt, NoOrphanChunks, Exists, Statuses
  <1>5. CASE UNCHANGED docVars
    BY <1>5, StatusOnly DEF docVars, Exists
  <1>6. QED BY <1>1, <1>2, <1>3, <1>4, <1>5, StepKinds

\* A run that is at work on a document with an in-progress status, or that died.
Responsible(d, r) == target[r] = d /\ pc[r] \in Working \cup {"raised", "crashed"}

\* A responsible run that the step leaves at work, or lets crash or raise, still is.
LEMMA StillResponsible ==
  ASSUME NEW d \in Docs, row'[d] = row[d], row[d] \in InProgress, NoAbandonedStatus,
         UNCHANGED target,
         \A r \in Runs : target[r] = d /\ pc[r] \in Working \cup {"raised", "crashed"}
                           => pc'[r] \in Working \cup {"raised", "crashed"}
  PROVE  \E r \in Runs : Responsible(d, r)'
  BY DEF NoAbandonedStatus, Responsible

\* Every step that leaves an in-progress status behind leaves a responsible run.
LEMMA AbandonedStep == TypeOK /\ NoAbandonedStatus /\ [Next]_vars => NoAbandonedStatus'
  <1> SUFFICES ASSUME TypeOK, NoAbandonedStatus, [Next]_vars,
                      NEW d \in Docs, row'[d] \in InProgress
               PROVE  \E r \in Runs : Responsible(d, r)'
    BY DEF NoAbandonedStatus, Responsible
  <1> USE DEF Goes, Txns
  <1>0. pc \in [Txns -> {"idle", "done"} \cup Working \cup Ended]
    BY DEF TypeOK
  <1>1. ASSUME NEW r \in Runs, Announce(r) \/ Extract(r) \/ Split(r)
        PROVE  \E q \in Runs : Responsible(d, q)'
    <2>1. UNCHANGED target /\ pc'[r] \in Working /\ \A q \in Runs : q # r => pc'[q] = pc[q]
      BY <1>0, <1>1 DEF Announce, Extract, Split, Advance, Working, InProgress
    <2>2. CASE d = target[r]
      BY <2>1, <2>2 DEF Responsible
    <2>3. CASE d # target[r]
      <3>1. row'[d] = row[d]
        BY <1>1, <2>3 DEF Announce, Extract, Split, Advance, SetStatus, TypeOK
      <3>2. QED BY <2>1, <3>1, StillResponsible
    <2>4. QED BY <2>2, <2>3
  <1>2. ASSUME NEW e \in Docs, Create(e) \/ Requeue(e)
        PROVE  \E q \in Runs : Responsible(d, q)'
    <2>1. row'[d] = row[d]
      BY <1>2 DEF Create, Requeue, TypeOK, InProgress
    <2>2. QED BY <1>2, <2>1, StillResponsible DEF Create, Requeue, runVars
  <1>3. ASSUME NEW x \in Deletes, RemoveStep(x)
        PROVE  \E q \in Runs : Responsible(d, q)'
    <2>1. UNCHANGED target /\ \A q \in Runs : pc'[q] = pc[q]
      BY <1>0, <1>3, IngestionAssumption
      DEF RemoveStep, RemoveProgress, BeginRemove, DeletePassages, LockRow, CommitRemove,
          DeadlockVictim, RemoveFails, Rollback
    <2>2. row'[d] = row[d]
      BY <1>3
      DEF RemoveStep, RemoveProgress, BeginRemove, DeletePassages, LockRow, CommitRemove,
          DeadlockVictim, RemoveFails, docVars, TypeOK, InProgress
    <2>3. QED BY <2>1, <2>2, StillResponsible
  <1>4. ASSUME NEW r \in Runs,
               \/ BeginReplace(r) \/ DeletePassages(r) \/ LockRow(r)
               \/ AbortReplace(r) \/ DeadlockVictim(r) \/ Start(r) \/ RunFails(r)
        PROVE  \E q \in Runs : Responsible(d, q)'
    <2>1. row'[d] = row[d] /\ UNCHANGED target
      BY <1>4
      DEF BeginReplace, DeletePassages, LockRow, AbortReplace, DeadlockVictim, Start, RunFails,
          Fault, FailsToRecord, Crash, docVars
    <2>2. /\ \A q \in Runs : q # r => pc'[q] = pc[q]
          /\ pc[r] = "idle" \/ pc'[r] \in Working \cup {"raised", "crashed"}
      BY <1>0, <1>4
      DEF BeginReplace, DeletePassages, LockRow, AbortReplace, DeadlockVictim, Start, RunFails,
          Fault, FailsToRecord, Crash, Rollback, Working, InProgress, Open
    <2>3. QED BY <2>1, <2>2, StillResponsible DEF Working, InProgress, Open
  <1>5. ASSUME NEW r \in Runs, CommitReplace(r) \/ MarkFailed(r)
        PROVE  \E q \in Runs : Responsible(d, q)'
    <2>1. row'[d] = row[d] /\ d # target[r]
      <3>1. Exists(target[r]) \/ UNCHANGED row
        BY <1>5 DEF CommitReplace, MarkFailed, SetStatus, Conflict
      <3>2. Exists(d)'
        BY DEF Exists, Statuses
      <3>3. QED
        BY <1>5, <3>1, <3>2
        DEF CommitReplace, MarkFailed, SetStatus, Conflict, Exists, TypeOK, InProgress
    <2>2. UNCHANGED target /\ \A q \in Runs : q # r => pc'[q] = pc[q]
      BY <1>0, <1>5 DEF CommitReplace, MarkFailed
    <2>3. QED BY <2>1, <2>2, StillResponsible
  <1>6. CASE UNCHANGED vars
    BY <1>6, StillResponsible DEF vars
  <1>7. QED
    BY <1>1, <1>2, <1>3, <1>4, <1>5, <1>6 DEF Next, RunProgress

\* The inductive invariant holds in every reachable state.
THEOREM IngestionInvariant == Spec => []IngestionInv
  <1>1. IngestionInv /\ [Next]_vars => IngestionInv'
    BY TypeStep, TablesStep, AbandonedStep DEF IngestionInv, TablesOK
  <1>2. QED BY <1>1, IngestionInit, PTL DEF Spec

\* Every variable of ingestion has its type.
THEOREM TypeOKHolds == Spec => []TypeOK
  <1>1. IngestionInv => TypeOK
    BY DEF IngestionInv
  <1>2. QED BY <1>1, IngestionInvariant, PTL

\* The passages of two builds of one document are never mixed.
THEOREM OneBuildHolds == Spec => []OneBuild
  <1>1. IngestionInv => OneBuild
    BY DEF IngestionInv
  <1>2. QED BY <1>1, IngestionInvariant, PTL

\* A ready document offers exactly the passages it counts.
THEOREM ReadyIsBuiltHolds == Spec => []ReadyIsBuilt
  <1>1. IngestionInv => ReadyIsBuilt
    BY DEF IngestionInv
  <1>2. QED BY <1>1, IngestionInvariant, PTL

\* No passages survive their document.
THEOREM NoOrphanChunksHolds == Spec => []NoOrphanChunks
  <1>1. IngestionInv => NoOrphanChunks
    BY DEF IngestionInv
  <1>2. QED BY <1>1, IngestionInvariant, PTL

\* An in-progress status always has a run that is responsible for it.
THEOREM NoAbandonedStatusHolds == Spec => []NoAbandonedStatus
  <1>1. IngestionInv => NoAbandonedStatus
    BY DEF IngestionInv
  <1>2. QED BY <1>1, IngestionInvariant, PTL

-----------------------------------------------------------------------------
(* Ingestion implements Library. *)

\* The build of a set with one run is that run.
LEMMA BuildOfOne ==
  /\ \A r \in Runs : BuildOf({r}) = r
  /\ BuildOf({}) = NoRun
  BY DEF BuildOf

\* Empty tables are an empty library.
LEMMA LibraryInit == Init => L!Init
  BY BuildOfOne DEF Init, L!Init, Phase, Searchable, Exists, Statuses, InProgress

\* A step that changes neither the chunks nor which rows exist is a stutter.
LEMMA LibraryStutter ==
  ASSUME TypeOK, UNCHANGED chunks,
         \A d \in Docs : Exists(d)' <=> Exists(d),
         \A d \in Docs : row'[d] = "none" <=> row[d] = "none"
  PROVE  UNCHANGED <<[d \in Docs |-> Phase(d)], [d \in Docs |-> Searchable(d)]>>
  <1>1. \A d \in Docs : Phase(d)' = Phase(d)
    BY DEF Phase
  <1>2. \A d \in Docs : Searchable(d)' = Searchable(d)
    BY DEF Searchable
  <1>3. QED BY <1>1, <1>2

\* Every step of ingestion is a step of the library or a stutter.
LEMMA LibraryStep ==
  TypeOK /\ [Next]_vars
    => [L!Next]_<<[d \in Docs |-> Phase(d)], [d \in Docs |-> Searchable(d)]>>
  <1> DEFINE phase == [d \in Docs |-> Phase(d)]
             passages == [d \in Docs |-> Searchable(d)]
  <1> SUFFICES ASSUME TypeOK, [Next]_vars
               PROVE  L!Next \/ UNCHANGED <<phase, passages>>
    OBVIOUS
  <1>1. ASSUME NEW d \in Docs, Create(d) PROVE L!Next
    <2>1. phase' = [phase EXCEPT ![d] = "live"] /\ phase[d] = "new"
      BY <1>1 DEF Create, Phase, Exists, Statuses, InProgress, TypeOK
    <2>2. passages' = passages
      BY <1>1 DEF Create, Searchable
    <2>3. QED BY <2>1, <2>2 DEF L!Next, L!Register
  <1>2. ASSUME NEW x \in Deletes, Takes(x) PROVE L!Next
    <2>1. PICK d \in Docs : d = target[x] /\ Exists(d)
      BY <1>2 DEF Takes
    <2>2. phase' = [phase EXCEPT ![d] = "gone"] /\ phase[d] = "live"
      BY <1>2, <2>1 DEF Takes, Phase, Exists, Statuses, InProgress, TypeOK
    <2>3. \A e \in Docs : Searchable(e)' = IF e = d THEN NoRun ELSE Searchable(e)
      BY <1>2, <2>1, BuildOfOne DEF Takes, Searchable, TypeOK
    <2>4. passages' = [passages EXCEPT ![d] = NoRun]
      BY <2>3
    <2>5. QED BY <2>2, <2>4 DEF L!Next, L!Withdraw
  <1>3. ASSUME NEW r \in Runs, CommitReplace(r)
        PROVE  L!Next \/ UNCHANGED <<phase, passages>>
    <2>1. PICK d \in Docs : d = target[r] /\ Exists(d)
      BY <1>3, CommitEffect
    <2>2. phase' = phase /\ phase[d] = "live"
      BY <1>3, <2>1, CommitEffect DEF Phase, Exists, Statuses, TypeOK
    <2>3. chunks'[d] = {r}
      BY <1>3, <2>1, CommitEffect DEF TypeOK
    <2>4. Searchable(d)' = r
      BY <2>3, BuildOfOne DEF Searchable
    <2>5. \A e \in Docs : e # d => Searchable(e)' = Searchable(e)
      BY <1>3, <2>1 DEF CommitReplace, Searchable, TypeOK
    <2>6. passages' = [passages EXCEPT ![d] = r]
      BY <2>1, <2>4, <2>5
    <2>7. CASE passages[d] = r
      BY <2>1, <2>2, <2>6, <2>7
    <2>8. CASE passages[d] # r
      BY <2>1, <2>2, <2>6, <2>8 DEF L!Next, L!Publish
    <2>9. QED BY <2>7, <2>8
  <1>4. ASSUME NEW d \in Docs, Requeue(d) PROVE UNCHANGED <<phase, passages>>
    <2>1. \A e \in Docs : (Exists(e)' <=> Exists(e)) /\ (row'[e] = "none" <=> row[e] = "none")
      BY <1>4 DEF Requeue, TypeOK, Exists, Statuses, InProgress
    <2>2. QED BY <1>4, <2>1, LibraryStutter DEF Requeue
  <1>5. ASSUME NEW r \in Runs, Announces(r) PROVE UNCHANGED <<phase, passages>>
    <2>1. \A d \in Docs : (Exists(d)' <=> Exists(d)) /\ (row'[d] = "none" <=> row[d] = "none")
      BY <1>5 DEF Announces, SetStatus, Exists, TypeOK, Statuses, InProgress
    <2>2. QED BY <1>5, <2>1, LibraryStutter DEF Announces
  <1>6. CASE UNCHANGED docVars
    BY <1>6, LibraryStutter DEF docVars, Exists
  <1>7. QED BY <1>1, <1>2, <1>3, <1>4, <1>5, <1>6, StepKinds

\* The whole of ingestion, with all its concurrency, is a Library.
THEOREM IngestionImplementsLibrary == Spec => ImplementsLibrary
  <1>1. IngestionInv /\ [Next]_vars
          => [L!Next]_<<[d \in Docs |-> Phase(d)], [d \in Docs |-> Searchable(d)]>>
    BY LibraryStep DEF IngestionInv
  <1>2. QED
    BY <1>1, LibraryInit, IngestionInvariant, PTL
    DEF Spec, ImplementsLibrary, L!Spec

-----------------------------------------------------------------------------
(* The service. *)

\* What a step of a run changes: its own pc and the row of its document, which is
\* settled when it ends well.
LEMMA RunEffect ==
  ASSUME TypeOK, NEW r \in Runs, RunProgress(r) \/ Fault(r) \/ FailsToRecord(r)
  PROVE  /\ UNCHANGED target
         /\ pc[r] \in Working /\ pc'[r] \in Working \cup {"ready", "failed", "raised"}
         /\ \A s \in Runs : s # r => pc'[s] = pc[s]
         /\ \A d \in Docs : d # target[r] => row'[d] = row[d]
         /\ pc'[r] \in {"ready", "failed"} => ~Unsettled(target[r])'
<1> USE DEF Goes, Txns, Working, InProgress, Open
<1>0. /\ pc \in [Txns -> {"idle", "done"} \cup Working \cup Ended]
      /\ row \in [Docs -> Statuses \cup {"none", "deleted"}] /\ target[r] \in Docs
  BY DEF TypeOK
<1>1. CASE Announce(r) \/ Extract(r) \/ Split(r)
  BY <1>0, <1>1 DEF Announce, Extract, Split, Advance, SetStatus
<1>2. CASE BeginReplace(r) \/ DeletePassages(r) \/ LockRow(r)
  BY <1>0, <1>2 DEF BeginReplace, DeletePassages, LockRow, docVars
<1>3. CASE CommitReplace(r)
  <2>1. row'[target[r]] = "ready"
    BY <1>0, <1>3 DEF CommitReplace
  <2> QED
    BY <1>0, <1>3, <2>1 DEF CommitReplace, Unsettled
<1>4. CASE AbortReplace(r) \/ Fault(r)
  BY <1>0, <1>4 DEF AbortReplace, Fault, Rollback, docVars
<1>5. CASE DeadlockVictim(r)
  <2>1. pc[r] \in Open
    BY <1>5 DEF DeadlockVictim, InCycle, WaitsFor
  <2> QED
    BY <1>0, <1>5, <2>1 DEF DeadlockVictim, Rollback, docVars
<1>6. CASE MarkFailed(r)
  <2>1. ~Unsettled(target[r])'
    BY <1>0, <1>6 DEF MarkFailed, SetStatus, Unsettled, Exists, Statuses
  <2> QED
    BY <1>0, <1>6, <2>1 DEF MarkFailed, SetStatus
<1>7. CASE FailsToRecord(r)
  BY <1>0, <1>7 DEF FailsToRecord, docVars
<1> QED
  BY <1>1, <1>2, <1>3, <1>4, <1>5, <1>6, <1>7 DEF RunProgress

\* Only an error while recording an error makes ingest_document raise.
LEMMA OnlyRecordingRaises ==
  ASSUME TypeOK, NEW r \in Runs, RunProgress(r) \/ Fault(r)
  PROVE  pc'[r] # "raised"
<1> USE DEF Goes, Txns
<1>1. pc \in [Txns -> {"idle", "done"} \cup Working \cup Ended]
  BY DEF TypeOK
<1>2. CASE Announce(r) \/ Extract(r) \/ Split(r)
  BY <1>1, <1>2 DEF Announce, Extract, Split, Advance
<1>3. CASE BeginReplace(r) \/ DeletePassages(r) \/ LockRow(r) \/ MarkFailed(r)
  BY <1>1, <1>3 DEF BeginReplace, DeletePassages, LockRow, MarkFailed
<1>4. CASE CommitReplace(r) \/ AbortReplace(r) \/ Fault(r) \/ DeadlockVictim(r)
  BY <1>1, <1>4 DEF CommitReplace, AbortReplace, Fault, DeadlockVictim, Rollback
<1> QED
  BY <1>2, <1>3, <1>4 DEF RunProgress

\* A delete changes nothing of the runs, and of the rows only the one it takes.
LEMMA RemoveEffect ==
  ASSUME TypeOK, NEW x \in Deletes, RemoveStep(x)
  PROVE  /\ UNCHANGED target /\ \A r \in Runs : pc'[r] = pc[r]
         /\ \A d \in Docs : Unsettled(d)' => row'[d] = row[d]
<1>1. UNCHANGED target /\ \A r \in Runs : pc'[r] = pc[r]
  BY IngestionAssumption
  DEF RemoveStep, RemoveProgress, BeginRemove, DeletePassages, LockRow, CommitRemove,
      DeadlockVictim, RemoveFails, Rollback, Goes, TypeOK, Txns
<1>2. UNCHANGED row \/ (row' = [row EXCEPT ![target[x]] = "deleted"])
  BY DEF RemoveStep, RemoveProgress, BeginRemove, DeletePassages, LockRow, CommitRemove,
         DeadlockVictim, RemoveFails, docVars
<1> QED
  BY <1>1, <1>2 DEF TypeOK, Unsettled, InProgress

\* A request on a document that exists in the model goes on as a request.
LEMMA RequestGoesType ==
  ASSUME ServiceTypeOK, NEW q \in Requests, NEW step \in RequestSteps, NEW d \in Docs,
         RequestGoes(q, step, d)
  PROVE  req' \in [Requests -> Request]
  <1>1. AnyDoc \in Docs
    BY ServiceAssumption DEF AnyDoc
  <1>2. QED BY <1>1 DEF ServiceTypeOK, RequestGoes, Request

\* Every request step keeps the types of the requests, queue and workers.
LEMMA RequestTypeStep ==
  ASSUME TypeOK, ServiceTypeOK, NEW q \in Requests, RequestStep(q)
  PROVE  ServiceTypeOK'
  <1>1. req[q].doc \in Docs
    BY DEF ServiceTypeOK, Request
  <1> USE DEF RequestSteps
  <1>2. CASE UploadLookup(q)
    <2>1. PICK d \in Docs, s \in RequestSteps : RequestGoes(q, s, d)
      BY <1>2 DEF UploadLookup
    <2>2. QED BY <1>2, <2>1, RequestGoesType DEF UploadLookup, ServiceTypeOK
  <1>3. CASE UploadInsert(q)
    <2>1. PICK d \in Docs, s \in RequestSteps : RequestGoes(q, s, d)
      BY <1>1, <1>3 DEF UploadInsert
    <2>2. QED BY <1>3, <2>1, RequestGoesType DEF UploadInsert, ServiceTypeOK
  <1>4. CASE ReingestLookup(q)
    <2>1. PICK d \in Docs, s \in RequestSteps : RequestGoes(q, s, d)
      BY <1>4 DEF ReingestLookup
    <2>2. QED BY <1>4, <2>1, RequestGoesType DEF ReingestLookup, ServiceTypeOK
  <1>5. CASE CommitRequeue(q)
    <2>1. PICK s \in RequestSteps : RequestGoes(q, s, req[q].doc)
      BY <1>5 DEF CommitRequeue
    <2>2. QED BY <1>1, <1>5, <2>1, RequestGoesType DEF CommitRequeue, ServiceTypeOK
  <1>6. CASE Schedule(q)
    <2>1. PICK s \in RequestSteps : RequestGoes(q, s, req[q].doc)
      BY <1>6 DEF Schedule
    <2>2. req' \in [Requests -> Request]
      BY <1>1, <2>1, RequestGoesType
    <2>3. msg' \in [Messages -> Message]
      <3>1. CASE UNCHANGED msg
        BY <3>1 DEF ServiceTypeOK
      <3>2. CASE ~UNCHANGED msg
        <4>1. PICK m \in Messages :
                msg' = [msg EXCEPT ![m] = [state |-> "visible", doc |-> req[q].doc,
                                           receives |-> 0, shared |-> FALSE]]
          BY <1>6, <3>2 DEF Schedule
        <4>2. [state |-> "visible", doc |-> req[q].doc, receives |-> 0, shared |-> FALSE]
                \in Message
          BY <1>1, ServiceAssumption DEF Message, MessageStates
        <4>3. QED BY <4>1, <4>2 DEF ServiceTypeOK
      <3>3. QED BY <3>1, <3>2
    <2>4. QED BY <1>6, <2>2, <2>3 DEF Schedule, ServiceTypeOK
  <1>8. CASE RequestDies(q)
    <2>1. req' \in [Requests -> Request]
      BY <1>1, <1>8, RequestGoesType DEF RequestDies
    <2>2. lost' \subseteq Docs \X Causes
      BY <1>1, <1>8 DEF RequestDies, ServiceTypeOK, Loses, Causes
    <2>3. QED BY <1>1, <1>8, <2>1, <2>2 DEF RequestDies, ServiceTypeOK
  <1>9. ASSUME NEW r \in Runs, RunInline(q, r) PROVE ServiceTypeOK'
    <2>1. req' \in [Requests -> Request]
      BY <1>1, <1>9, RequestGoesType DEF RunInline
    <2>2. QED BY <1>9, <2>1 DEF RunInline, ServiceTypeOK
  <1>10. QED
    BY <1>2, <1>3, <1>4, <1>5, <1>6, <1>8, <1>9 DEF RequestStep

\* Every step of the workers, the queue and the runs keeps them too.
LEMMA WorkTypeStep ==
  ASSUME TypeOK, ServiceTypeOK,
         \/ \E w \in Workers : WorkerStep(w)
         \/ \E m \in Messages : Redrive(m) \/ Expire(m)
         \/ \E x \in Deletes : RemoveRequest(x)
         \/ \E r \in Runs : RunGoesOn(r) \/ RunMeetsFault(r) \/ RunRaises(r) \/ RunDies(r)
  PROVE  ServiceTypeOK'
  <1> USE ServiceAssumption DEF ServiceTypeOK, Message, MessageStates
  <1>1. ASSUME NEW w \in Workers, NEW m \in Messages, Receive(w, m)
        PROVE  ServiceTypeOK'
    <2>1. msg[m].receives + 1 \in 0..MaxReceives
      BY <1>1 DEF Receive
    <2>2. msg' \in [Messages -> Message]
      BY <1>1, <2>1 DEF Receive
    <2>3. handling' \in [Workers -> SUBSET Messages]
      BY <1>1 DEF Receive
    <2>4. QED BY <1>1, <2>2, <2>3 DEF Receive
  <1>2. ASSUME NEW w \in Workers, DropUnstarted(w) PROVE ServiceTypeOK'
    BY <1>2 DEF DropUnstarted
  <1>3. ASSUME NEW w \in Workers, NEW r \in Runs, Handle(w, r) PROVE ServiceTypeOK'
    BY <1>3 DEF Handle
  <1>4. ASSUME NEW w \in Workers, NEW r \in Runs, Settle(w, r) PROVE ServiceTypeOK'
    <2>1. msg' \in [Messages -> Message]
      BY <1>4 DEF Settle, DeleteMessage
    <2>2. lost' \subseteq Docs \X Causes
      BY <1>4 DEF Settle, DeleteMessage, Loses, Causes, TypeOK, Txns
    <2>3. QED BY <1>4, <2>1, <2>2 DEF Settle
  <1>5. ASSUME NEW w \in Workers, NEW r \in Runs, Abandon(w, r) PROVE ServiceTypeOK'
    BY <1>5 DEF Abandon
  <1>6. ASSUME NEW m \in Messages, Redrive(m) \/ Expire(m) PROVE ServiceTypeOK'
    BY <1>6 DEF Redrive, Expire
  <1>7. CASE \/ \E r \in Runs : RunGoesOn(r) \/ RunMeetsFault(r)
             \/ \E x \in Deletes : RemoveRequest(x)
    BY <1>7 DEF RunGoesOn, RunMeetsFault, RemoveRequest, serviceVars
  <1>8. ASSUME NEW r \in Runs, RunDies(r) \/ RunRaises(r) PROVE ServiceTypeOK'
    <2>1. lost' \subseteq Docs \X Causes
      BY <1>8 DEF RunDies, RunRaises, Loses, Causes, TypeOK, Txns
    <2>2. QED BY <1>8, <2>1 DEF RunDies, RunRaises
  <1>9. QED
    BY <1>1, <1>2, <1>3, <1>4, <1>5, <1>6, <1>7, <1>8 DEF WorkerStep

\* Every step of the service is a step of Ingestion or leaves its state alone.
LEMMA ServiceStep == ServiceTypeOK /\ [ServiceNext]_allVars => [Next]_vars
  <1> SUFFICES ASSUME ServiceTypeOK, [ServiceNext]_allVars PROVE [Next]_vars
    OBVIOUS
  <1>1. ASSUME NEW q \in Requests, RequestStep(q) PROVE [Next]_vars
    <2>1. CASE UploadLookup(q) \/ ReingestLookup(q) \/ Schedule(q) \/ RequestDies(q)
      BY <2>1 DEF UploadLookup, ReingestLookup, Schedule, RequestDies
    <2>2. CASE UploadInsert(q)
      <3>1. UNCHANGED vars \/ \E d \in Docs : Create(d)
        BY <2>2 DEF UploadInsert
      <3>2. QED BY <3>1 DEF Next
    <2>3. CASE CommitRequeue(q)
      <3>1. UNCHANGED vars \/ Requeue(req[q].doc)
        BY <2>3 DEF CommitRequeue
      <3>2. QED BY <3>1 DEF Next, ServiceTypeOK, Request
    <2>5. ASSUME NEW r \in Runs, RunInline(q, r) PROVE [Next]_vars
      BY <2>5 DEF RunInline, Next
    <2>6. QED BY <1>1, <2>1, <2>2, <2>3, <2>5 DEF RequestStep
  <1>2. ASSUME NEW w \in Workers, WorkerStep(w) PROVE [Next]_vars
    BY <1>2
    DEF WorkerStep, DropUnstarted, Receive, Handle, Settle, Abandon, Next
  <1>3. ASSUME NEW m \in Messages, Redrive(m) \/ Expire(m) PROVE [Next]_vars
    BY <1>3 DEF Redrive, Expire
  <1>4. CASE \/ \E x \in Deletes : RemoveRequest(x)
             \/ \E r \in Runs : RunGoesOn(r) \/ RunMeetsFault(r) \/ RunRaises(r) \/ RunDies(r)
    BY <1>4
    DEF RemoveRequest, RunGoesOn, RunMeetsFault, RunRaises, RunDies, RunFails, Next
  <1>5. CASE UNCHANGED allVars
    BY <1>5 DEF allVars
  <1>6. QED BY <1>1, <1>2, <1>3, <1>4, <1>5 DEF ServiceNext

\* The types hold initially.
LEMMA ServiceTypesInit == ServiceInit => TypeOK /\ ServiceTypeOK
  <1> SUFFICES ASSUME ServiceInit PROVE TypeOK /\ ServiceTypeOK
    OBVIOUS
  <1>1. AnyDoc \in Docs
    BY ServiceAssumption DEF AnyDoc
  <1>2. TypeOK
    BY IngestionInit DEF ServiceInit, IngestionInv
  <1>3. ServiceTypeOK
    BY <1>1, ServiceAssumption
    DEF ServiceInit, ServiceTypeOK, Request, RequestSteps, Message, MessageStates
  <1>4. QED BY <1>2, <1>3

\* Every step keeps them.
LEMMA ServiceTypesStep ==
  TypeOK /\ ServiceTypeOK /\ [ServiceNext]_allVars => (TypeOK /\ ServiceTypeOK)'
  <1> SUFFICES ASSUME TypeOK, ServiceTypeOK, [ServiceNext]_allVars
               PROVE  TypeOK' /\ ServiceTypeOK'
    OBVIOUS
  <1>1. TypeOK'
    BY ServiceStep, TypeStep
  <1>2. CASE UNCHANGED allVars
    BY <1>1, <1>2 DEF allVars, serviceVars, ServiceTypeOK
  <1>3. CASE ServiceNext
    BY <1>1, <1>3, RequestTypeStep, WorkTypeStep DEF ServiceNext
  <1>4. QED BY <1>1, <1>2, <1>3

\* The types of Ingestion and of the service hold in every reachable state.
THEOREM ServiceTypes == ServiceSpec => [](TypeOK /\ ServiceTypeOK)
  BY ServiceTypesInit, ServiceTypesStep, PTL DEF ServiceSpec

\* The service implements Ingestion, and so keeps all of its invariants.
THEOREM ServiceImplementsIngestion == ServiceSpec => ImplementsIngestion
  <1>1. ServiceInit => Init
    BY DEF ServiceInit
  <1>2. QED
    BY <1>1, ServiceStep, ServiceTypes, PTL DEF ServiceSpec, ImplementsIngestion, Spec

-----------------------------------------------------------------------------
(* No document is lost. *)

\* A worker holds one message, which was sent; one that another worker has deleted
\* was shared, and is counted as lost. Unless it was shared a message is in the hands
\* of one worker; a worker executes one run, on the document of its message.
Kept(m) ==
  /\ msg[m].state # "unsent"
  /\ msg[m].state = "deleted" => msg[m].shared /\ Lost(msg[m].doc)
Held ==
  /\ \A w \in Workers : \A m \in handling[w] : Kept(m)
  /\ \A w \in Workers : \A m, n \in handling[w] : m = n
  /\ \A v, w \in Workers : \A m \in handling[v] \cap handling[w] : v = w \/ msg[m].shared
  /\ \A w \in Workers, r \in Runs :
       w \in executor[r] => /\ handling[w] # {}
                            /\ \A m \in handling[w] : msg[m].doc = target[r]
  /\ \A w \in Workers, r, s \in Runs : w \in executor[r] /\ w \in executor[s] => r = s
  /\ \A r \in Runs : pc[r] = "idle" => executor[r] = {}

\* The run of a message has recorded its outcome, and the message, which nobody else
\* ever held, is about to be deleted: it promises nothing any more.
Discharged(m) ==
  /\ ~msg[m].shared
  /\ \E w \in Workers, r \in Runs :
       m \in handling[w] /\ w \in executor[r] /\ pc[r] \in {"ready", "failed"}

Live(m) == msg[m].state \in {"visible", "inflight", "dead"}

\* Document d has a job that is not about to go away.
Secured(d) ==
  \/ \E q \in Requests : req[q].doc = d /\ req[q].step \in {"schedule", "background"}
  \/ \E m \in Messages : msg[m].doc = d /\ Live(m) /\ ~Discharged(m)
  \/ \E r \in Runs : target[r] = d /\ pc[r] \in Working

AllSecured == \A d \in Docs : Unsettled(d) => Secured(d) \/ Lost(d)

DutyInv == TypeOK /\ ServiceTypeOK /\ Held /\ AllSecured

\* A message that is not touched, or is visible or dead, is kept if it was.
LEMMA StillKept ==
  lost \subseteq lost' => \A m \in Messages :
    (msg'[m] = msg[m] /\ Kept(m)) \/ msg'[m].state \in {"visible", "inflight", "dead"} => Kept(m)'
<1> SUFFICES ASSUME lost \subseteq lost', NEW m \in Messages,
                    \/ msg'[m] = msg[m] /\ Kept(m)
                    \/ msg'[m].state \in {"visible", "inflight", "dead"}
             PROVE  Kept(m)'
  OBVIOUS
<1>1. CASE msg'[m].state \in {"visible", "inflight", "dead"}
  BY <1>1 DEF Kept
<1>2. CASE msg'[m] = msg[m] /\ Kept(m)
  <2>1. \A d : Lost(d) => \E cause \in Causes : <<d, cause>> \in lost'
    BY DEF Lost
  <2> QED
    BY <1>2, <2>1 DEF Kept, Lost
<1> QED
  BY <1>1, <1>2

\* The hold of the workers, when they, the runs and the messages they have stay put.
LEMMA HeldKept ==
  ASSUME ServiceTypeOK, Held, UNCHANGED <<handling, executor, target>>, lost \subseteq lost',
         \A w \in Workers : \A m \in handling[w] :
           \/ msg'[m] = msg[m]
           \/ /\ msg'[m].state \in {"visible", "dead"}
              /\ msg'[m].doc = msg[m].doc /\ msg'[m].shared = msg[m].shared,
         \A r \in Runs : pc'[r] = "idle" => pc[r] = "idle"
  PROVE  Held'
<1>0. \A w \in Workers : handling[w] \subseteq Messages
  BY DEF ServiceTypeOK
<1>1. \A w \in Workers : \A m \in handling[w] :
        Kept(m)' /\ msg'[m].doc = msg[m].doc /\ msg'[m].shared = msg[m].shared
  BY <1>0, StillKept DEF Held
<1> QED
  BY <1>1 DEF Held

\* A request step keeps it.
LEMMA RequestHeld ==
  ASSUME TypeOK, ServiceTypeOK, Held, NEW q \in Requests, RequestStep(q)
  PROVE  Held'
<1>1. CASE Schedule(q)
  <2>1. UNCHANGED <<vars, handling, executor, lost>>
    BY <1>1 DEF Schedule
  <2>2. \A m \in Messages : msg[m].state # "unsent" => msg'[m] = msg[m]
    BY <1>1 DEF Schedule, ServiceTypeOK
  <2>3. \A w \in Workers : \A m \in handling[w] : msg'[m] = msg[m]
    BY <2>2 DEF ServiceTypeOK, Held, Kept
  <2> QED
    BY <2>1, <2>3, HeldKept DEF vars
<1>2. ASSUME NEW r \in Runs, RunInline(q, r) PROVE Held'
  <2>1. UNCHANGED <<msg, handling, executor, target, lost>>
    BY <1>2 DEF RunInline, Start
  <2>2. \A s \in Runs : pc'[s] = "idle" => pc[s] = "idle"
    BY <1>2 DEF RunInline, Start, Goes, TypeOK, Txns
  <2> QED
    BY <2>1, <2>2, HeldKept
<1>3. CASE UploadLookup(q) \/ ReingestLookup(q) \/ RequestDies(q)
  <2>1. UNCHANGED <<vars, msg, handling, executor>> /\ lost \subseteq lost'
    BY <1>3 DEF UploadLookup, ReingestLookup, RequestDies, Loses
  <2> QED
    BY <2>1, HeldKept DEF vars
<1>4. CASE UploadInsert(q) \/ CommitRequeue(q)
  <2>1. UNCHANGED <<pc, target, msg, handling, executor, lost>>
    BY <1>4 DEF UploadInsert, CommitRequeue, vars, Create, Requeue, runVars
  <2> QED
    BY <2>1, HeldKept
<1> QED
  BY <1>1, <1>2, <1>3, <1>4 DEF RequestStep

\* So do the steps of workers, queue, deletes and runs, however early messages expire.
LEMMA WorkHeld ==
  ASSUME TypeOK, ServiceTypeOK, Held,
         \/ \E w \in Workers : WorkerStep(w)
         \/ \E m \in Messages : Redrive(m) \/ Expire(m)
         \/ \E x \in Deletes : RemoveRequest(x)
         \/ \E r \in Runs : RunGoesOn(r) \/ RunMeetsFault(r) \/ RunRaises(r) \/ RunDies(r)
  PROVE  Held'
<1>1. ASSUME NEW w \in Workers, NEW m \in Messages, Receive(w, m) PROVE Held'
  <2>1. /\ handling[w] = {} /\ msg[m].state = "visible" /\ UNCHANGED <<vars, executor, lost>>
    BY <1>1 DEF Receive
  <2>2. /\ msg'[m].state = "inflight" /\ msg'[m].doc = msg[m].doc
        /\ msg[m].shared \/ (\E v \in Workers : m \in handling[v]) => msg'[m].shared
        /\ \A n \in Messages : n # m => msg'[n] = msg[n]
    BY <1>1 DEF Receive, ServiceTypeOK, Message
  <2>3. \A r \in Runs : w \notin executor[r]
    BY <2>1 DEF Held
  <2>4. \A v \in Workers : handling'[v] = IF v = w THEN {m} ELSE handling[v]
    BY <1>1 DEF Receive, ServiceTypeOK
  <2>5. UNCHANGED <<pc, target, executor, lost>>
    BY <2>1 DEF vars
  <2>6. \A v \in Workers : handling[v] \subseteq Messages
    BY DEF ServiceTypeOK
  <2>7. \A n \in Messages : msg'[n].doc = msg[n].doc /\ (msg[n].shared => msg'[n].shared)
    BY <2>2
  <2>8. \A v \in Workers : \A n \in handling'[v] : Kept(n)'
    <3> SUFFICES ASSUME NEW v \in Workers, NEW n \in handling'[v] PROVE Kept(n)'
      OBVIOUS
    <3>1. CASE n = m
      BY <2>2, <2>5, <3>1, StillKept
    <3>2. CASE n # m
      <4>1. n \in handling[v] /\ n \in Messages /\ msg'[n] = msg[n]
        BY <2>2, <2>4, <2>6, <3>2
      <4> QED
        BY <2>5, <4>1, StillKept DEF Held
    <3> QED
      BY <3>1, <3>2
  <2>9. \A u, v \in Workers : \A n \in handling'[u] \cap handling'[v] : u = v \/ msg'[n].shared
    BY <2>2, <2>4, <2>6, <2>7 DEF Held
  <2>10. \A v \in Workers, r \in Runs :
           v \in executor[r] => handling'[v] # {} /\ \A n \in handling'[v] : msg'[n].doc = target[r]
    BY <2>3, <2>4, <2>6, <2>7 DEF Held
  <2>11. \A v \in Workers : \A n, o \in handling'[v] : n = o
    BY <2>4 DEF Held
  <2> QED
    BY <2>5, <2>8, <2>9, <2>10, <2>11 DEF Held
<1>2. ASSUME NEW w \in Workers, DropUnstarted(w) PROVE Held'
  <2>1. /\ UNCHANGED <<vars, msg, executor, lost>> /\ \A r \in Runs : w \notin executor[r]
        /\ \A v \in Workers : handling'[v] = IF v = w THEN {} ELSE handling[v]
    BY <1>2 DEF DropUnstarted, Busy, ServiceTypeOK
  <2> QED
    BY <2>1 DEF Held, Kept, Lost, vars
<1>3. ASSUME NEW w \in Workers, NEW r \in Runs, Handle(w, r) PROVE Held'
  <2>1. /\ \A s \in Runs : w \notin executor[s]
        /\ \E m \in handling[w] : target[r] = msg[m].doc
        /\ pc[r] = "idle" /\ UNCHANGED <<msg, handling, target, lost>>
        /\ \A s \in Runs : executor'[s] = IF s = r THEN {w} ELSE executor[s]
        /\ \A s \in Runs : pc'[s] = "idle" => pc[s] = "idle" /\ s # r
    BY <1>3 DEF Handle, Busy, Start, Goes, TypeOK, Txns, ServiceTypeOK
  <2>2. \A m \in handling[w] : msg[m].doc = target[r]
    BY <2>1 DEF Held
  <2> QED
    BY <2>1, <2>2 DEF Held, Kept, Lost
<1>4. ASSUME NEW w \in Workers, NEW r \in Runs, Settle(w, r) \/ Abandon(w, r) PROVE Held'
  <2>1. /\ w \in executor[r] /\ UNCHANGED vars
        /\ \A v \in Workers : handling'[v] = IF v = w THEN {} ELSE handling[v]
        /\ \A s \in Runs : executor'[s] = IF s = r THEN {} ELSE executor[s]
    BY <1>4, ZenonT(60) DEF Settle, Abandon, ServiceTypeOK
  <2>2. lost \subseteq lost'
    BY <1>4 DEF Settle, Abandon, DeleteMessage, Loses
  <2>3. \A m \in Messages : /\ msg'[m].doc = msg[m].doc /\ msg'[m].shared = msg[m].shared
                            /\ m \notin handling[w] => msg'[m] = msg[m]
                            /\ msg'[m].state \in {msg[m].state, "deleted"}
    BY <1>4 DEF Settle, Abandon, DeleteMessage, ServiceTypeOK, Message
  <2>4. \A v \in Workers : handling[v] \subseteq Messages
    BY DEF ServiceTypeOK
  <2>5. ASSUME NEW v \in Workers, v # w, NEW m \in handling[v] PROVE Kept(m)'
    <3>1. m \in Messages
      BY <2>4, <2>5
    <3>2. CASE msg'[m] = msg[m]
      BY <2>2, <2>5, <3>1, <3>2, StillKept DEF Held
    <3>3. CASE msg'[m] # msg[m]
      <4>1. m \in handling[w] /\ msg[m].shared /\ msg[m].doc = target[r]
        BY <2>1, <2>3, <2>5, <3>1, <3>3 DEF Held
      <4>2. DeleteMessage(w, target[r])
        BY <1>4, <3>3 DEF Settle, Abandon
      <4>3. \E n \in handling[w] :
              msg[n].shared /\ \E u \in Workers \ {w} : n \in handling[u]
        BY <2>5, <4>1
      <4>4. lost' = lost \cup {<<target[r], "shared">>}
        BY <4>2, <4>3 DEF DeleteMessage, Loses
      <4>5. msg'[m].doc = target[r] /\ msg'[m].shared /\ msg[m].state # "unsent"
        BY <2>3, <2>5, <3>1, <4>1 DEF Held, Kept
      <4> QED
        BY <2>3, <3>1, <4>4, <4>5 DEF Kept, Lost, Causes
    <3> QED
      BY <3>2, <3>3
  <2>6. \A s \in Runs : w \notin executor'[s]
    BY <2>1 DEF Held
  <2>7. UNCHANGED <<pc, target>>
    BY <2>1 DEF vars
  <2>8. \A v \in Workers : \A n \in handling'[v] : Kept(n)'
    BY <2>1, <2>5
  <2>9. \A u, v \in Workers : \A n \in handling'[u] \cap handling'[v] : u = v \/ msg'[n].shared
    BY <2>1, <2>3, <2>4 DEF Held
  <2>10. \A v \in Workers, s \in Runs : v \in executor'[s] =>
           handling'[v] # {} /\ \A n \in handling'[v] : msg'[n].doc = target[s]
    BY <2>1, <2>3, <2>4, <2>6 DEF Held
  <2>11. /\ \A v \in Workers : \A n, o \in handling'[v] : n = o
         /\ \A v \in Workers, s, t \in Runs : v \in executor'[s] /\ v \in executor'[t] => s = t
         /\ \A s \in Runs : pc[s] = "idle" => executor'[s] = {}
    BY <2>1 DEF Held
  <2> QED
    BY <2>7, <2>8, <2>9, <2>10, <2>11 DEF Held
<1>5. ASSUME NEW m \in Messages, Redrive(m) \/ Expire(m) PROVE Held'
  <2>1. UNCHANGED <<vars, handling, executor, lost>>
    BY <1>5 DEF Redrive, Expire
  <2>2. \A n \in Messages :
          \/ msg'[n] = msg[n]
          \/ /\ msg'[n].state \in {"visible", "dead"}
             /\ msg'[n].doc = msg[n].doc /\ msg'[n].shared = msg[n].shared
    BY <1>5 DEF Redrive, Expire, ServiceTypeOK, Message
  <2>3. \A w \in Workers : handling[w] \subseteq Messages
    BY DEF ServiceTypeOK
  <2>4. \A w \in Workers : \A n \in handling[w] :
          \/ msg'[n] = msg[n]
          \/ /\ msg'[n].state \in {"visible", "dead"}
             /\ msg'[n].doc = msg[n].doc /\ msg'[n].shared = msg[n].shared
    BY <2>2, <2>3
  <2> QED
    BY <2>1, <2>4, HeldKept DEF vars
<1>6. ASSUME NEW x \in Deletes, RemoveRequest(x) PROVE Held'
  <2>1. RemoveStep(x) /\ UNCHANGED serviceVars
    BY <1>6 DEF RemoveRequest
  <2>2. UNCHANGED target /\ \A r \in Runs : pc'[r] = pc[r]
    BY <2>1, RemoveEffect
  <2> QED
    BY <2>1, <2>2, HeldKept DEF serviceVars
<1>7. ASSUME NEW r \in Runs, RunGoesOn(r) \/ RunMeetsFault(r) \/ RunRaises(r) PROVE Held'
  <2>1. /\ RunProgress(r) \/ Fault(r) \/ FailsToRecord(r)
        /\ UNCHANGED <<msg, handling, executor>> /\ lost \subseteq lost'
    BY <1>7 DEF RunGoesOn, RunMeetsFault, RunRaises, serviceVars, Loses
  <2>2. UNCHANGED target /\ \A s \in Runs : pc'[s] = "idle" => pc[s] = "idle"
    BY <2>1, RunEffect DEF Working, InProgress, Open
  <2> QED
    BY <2>1, <2>2, HeldKept
<1>8. ASSUME NEW r \in Runs, RunDies(r) PROVE Held'
  <2>1. /\ UNCHANGED <<msg, target>> /\ lost \subseteq lost'
        /\ \A w \in Workers : handling'[w] = IF w \in executor[r] THEN {} ELSE handling[w]
        /\ \A s \in Runs : executor'[s] = IF s = r THEN {} ELSE executor[s]
        /\ \A s \in Runs : pc'[s] = "idle" => pc[s] = "idle"
    BY <1>8 DEF RunDies, Crash, Goes, TypeOK, Txns, ServiceTypeOK, Loses
  <2>2. \A w \in Workers, s \in Runs : w \in executor'[s] => w \in executor[s] /\ w \notin executor[r]
    BY <2>1 DEF Held
  <2>3. \A w \in Workers : \A m \in handling'[w] : Kept(m)'
    BY <2>1, StillKept DEF Held, ServiceTypeOK
  <2> QED
    BY <2>1, <2>2, <2>3 DEF Held
<1> QED
  BY <1>1, <1>2, <1>3, <1>4, <1>5, <1>6, <1>7, <1>8 DEF WorkerStep

\* No message is discharged by workers that let go, or by runs that do not end well.
LEMMA NotDischarged ==
  ASSUME \A w \in Workers : handling'[w] \subseteq handling[w],
         \A r \in Runs : executor'[r] \subseteq executor[r],
         \A r \in Runs : pc'[r] \in {"ready", "failed"} => pc[r] \in {"ready", "failed"},
         \A m \in Messages : msg[m].shared => msg'[m].shared
  PROVE  \A m \in Messages : Discharged(m)' => Discharged(m)
  BY DEF Discharged

\* A job that the step leaves alone is still there.
LEMMA StillSecured ==
  ASSUME NEW d, Secured(d),
         \A q \in Requests : req[q].doc = d /\ req[q].step \in {"schedule", "background"}
                               => req'[q] = req[q],
         \A m \in Messages : msg[m].doc = d /\ Live(m) => msg'[m].doc = d /\ Live(m)',
         \A m \in Messages : Discharged(m)' => Discharged(m),
         UNCHANGED target,
         \A r \in Runs : target[r] = d /\ pc[r] \in Working => pc'[r] \in Working
  PROVE  Secured(d)'
<1>1. CASE \E q \in Requests : req[q].doc = d /\ req[q].step \in {"schedule", "background"}
  BY <1>1 DEF Secured
<1>2. CASE \E m \in Messages : msg[m].doc = d /\ Live(m) /\ ~Discharged(m)
  <2>1. PICK m \in Messages : msg[m].doc = d /\ Live(m) /\ ~Discharged(m)
    BY <1>2
  <2>2. msg'[m].doc = d /\ Live(m)' /\ ~Discharged(m)'
    BY <2>1
  <2> QED
    BY <2>2 DEF Secured
<1>3. CASE \E r \in Runs : target[r] = d /\ pc[r] \in Working
  BY <1>3 DEF Secured
<1> QED
  BY <1>1, <1>2, <1>3 DEF Secured

\* The message of a run that ends without an outcome stays, or was lost by another
\* worker.
LEMMA LeftBehind ==
  ASSUME ServiceTypeOK, Held, NEW r \in Runs, executor[r] # {},
         UNCHANGED <<msg, target>>, lost \subseteq lost',
         \A w \in Workers : handling'[w] \subseteq handling[w],
         \A s \in Runs : executor'[s] \subseteq executor[s],
         pc'[r] \notin {"ready", "failed"}
  PROVE  Secured(target[r])' \/ Lost(target[r])'
<1>1. PICK w \in Workers : w \in executor[r]
  BY DEF ServiceTypeOK
<1>2. PICK m \in Messages : m \in handling[w]
  BY <1>1 DEF Held, ServiceTypeOK
<1>3. msg'[m].doc = target[r] /\ msg[m].state # "unsent"
  BY <1>1, <1>2 DEF Held, Kept
<1>4. CASE msg[m].state = "deleted"
  <2>1. m \in Messages /\ Kept(m)
    BY <1>1, <1>2 DEF Held, ServiceTypeOK
  <2>2. Kept(m)'
    BY <2>1, StillKept
  <2> QED
    BY <1>3, <1>4, <2>2 DEF Kept, Lost
<1>5. CASE msg[m].state # "deleted"
  <2>1. Live(m)'
    BY <1>3, <1>5 DEF Live, ServiceTypeOK, Message, MessageStates
  <2>2. ~Discharged(m)'
    <3> SUFFICES ASSUME ~msg[m].shared, NEW v \in Workers, NEW s \in Runs, m \in handling[v],
                        v \in executor[s], pc'[s] \in {"ready", "failed"}
                 PROVE  FALSE
      BY DEF Discharged
    <3>1. v = w /\ s = r
      BY <1>1, <1>2 DEF Held
    <3> QED
      BY <3>1
  <2> QED
    BY <1>3, <2>1, <2>2 DEF Secured
<1> QED
  BY <1>4, <1>5

\* A request hands its document on: what it makes unsettled is its own to schedule,
\* and a scheduled document goes to the queue, to a background task or is lost.
LEMMA RequestSecures ==
  ASSUME DutyInv, NEW q \in Requests, RequestStep(q)
  PROVE  AllSecured'
<1> SUFFICES ASSUME NEW d \in Docs, Unsettled(d)' PROVE Secured(d)' \/ Lost(d)'
  BY DEF AllSecured
<1> USE DEF DutyInv
<1>0. req[q].doc \in Docs
  BY DEF ServiceTypeOK, Request
<1>a. ASSUME NEW s, NEW e, RequestGoes(q, s, e)
      PROVE  /\ req'[q].step = s /\ (s # "done" => req'[q].doc = e)
             /\ \A p \in Requests : p # q => req'[p] = req[p]
  BY <1>a DEF RequestGoes, ServiceTypeOK
<1>b. ASSUME UNCHANGED <<msg, handling, executor, pc, target>>,
             req[q].step \notin {"schedule", "background"},
             \A p \in Requests : p # q => req'[p] = req[p],
             Secured(d)
      PROVE  Secured(d)'
  <2>1. \A m \in Messages : Discharged(m)' => Discharged(m)
    BY <1>b DEF Discharged
  <2> QED
    BY <1>b, <2>1, StillSecured DEF Live
<1>c. ASSUME UNCHANGED vars PROVE Secured(d) \/ Lost(d)
  BY <1>c DEF AllSecured, Unsettled, vars
<1>d. lost \subseteq lost' /\ Lost(d) => Lost(d)'
  BY DEF Lost
<1>1. CASE UploadLookup(q) \/ ReingestLookup(q)
  <2>1. PICK s, e : RequestGoes(q, s, e)
    BY <1>1 DEF UploadLookup, ReingestLookup
  <2>2. UNCHANGED <<vars, msg, handling, executor, lost>> /\ req[q].step = "new"
    BY <1>1 DEF UploadLookup, ReingestLookup
  <2> QED
    BY <1>a, <1>b, <1>c, <1>d, <2>1, <2>2 DEF vars
<1>2. CASE UploadInsert(q)
  <2>1. PICK s, e : RequestGoes(q, s, e)
    BY <1>2 DEF UploadInsert
  <2>2. UNCHANGED <<msg, handling, executor, lost, pc, target>> /\ req[q].step = "insert"
    BY <1>2 DEF UploadInsert, Create, vars, runVars
  <2>3. UNCHANGED vars \/ \E c \in Docs : Create(c) /\ RequestGoes(q, "schedule", c)
    BY <1>2 DEF UploadInsert
  <2>4. CASE UNCHANGED vars
    BY <1>a, <1>b, <1>c, <1>d, <2>1, <2>2, <2>4 DEF vars
  <2>5. ASSUME NEW c \in Docs, Create(c), RequestGoes(q, "schedule", c)
        PROVE  Secured(d)' \/ Lost(d)'
    <3>1. CASE d = c
      <4>1. req'[q].doc = d /\ req'[q].step = "schedule"
        BY <2>5, <3>1 DEF RequestGoes, ServiceTypeOK
      <4> QED
        BY <4>1 DEF Secured
    <3>2. CASE d # c
      <4>1. row'[d] = row[d]
        BY <2>5, <3>2 DEF Create, TypeOK
      <4>2. Secured(d) \/ Lost(d)
        BY <4>1 DEF AllSecured, Unsettled
      <4> QED
        BY <1>a, <1>b, <1>d, <2>1, <2>2, <4>2
    <3> QED
      BY <3>1, <3>2
  <2> QED
    BY <2>3, <2>4, <2>5
<1>3. CASE CommitRequeue(q)
  <2>1. PICK s : RequestGoes(q, s, req[q].doc)
    BY <1>3 DEF CommitRequeue
  <2>2. /\ UNCHANGED <<msg, handling, executor, lost, pc, target>>
        /\ req[q].step \in {"requeue", "resend"}
    BY <1>3 DEF CommitRequeue, Requeue, vars, runVars
  <2>3. UNCHANGED vars \/ (Requeue(req[q].doc) /\ RequestGoes(q, "schedule", req[q].doc))
    BY <1>3 DEF CommitRequeue
  <2>4. CASE UNCHANGED vars
    BY <1>a, <1>b, <1>c, <1>d, <2>1, <2>2, <2>4 DEF vars
  <2>5. CASE Requeue(req[q].doc) /\ RequestGoes(q, "schedule", req[q].doc)
    <3>1. CASE d = req[q].doc
      <4>1. req'[q].doc = d /\ req'[q].step = "schedule"
        BY <2>5, <3>1 DEF RequestGoes, ServiceTypeOK
      <4> QED
        BY <4>1 DEF Secured
    <3>2. CASE d # req[q].doc
      <4>1. row'[d] = row[d]
        BY <1>0, <2>5, <3>2 DEF Requeue, TypeOK
      <4>2. Secured(d) \/ Lost(d)
        BY <4>1 DEF AllSecured, Unsettled
      <4> QED
        BY <1>a, <1>b, <1>d, <2>1, <2>2, <4>2
    <3> QED
      BY <3>1, <3>2
  <2> QED
    BY <2>3, <2>4, <2>5
<1>4. CASE Schedule(q)
  <2>1. UNCHANGED <<vars, handling, executor, lost>> /\ req[q].step = "schedule"
    BY <1>4 DEF Schedule
  <2>2. \A m \in Messages : Discharged(m)' => Discharged(m)
    <3>1. \A m \in Messages : m \in UNION {handling[w] : w \in Workers} => msg'[m] = msg[m]
      BY <1>4 DEF Schedule, ServiceTypeOK, Held, Kept
    <3> QED
      BY <2>1, <3>1 DEF vars, Discharged
  <2>3. Secured(d) \/ Lost(d)
    BY <1>c, <2>1
  <2>4. CASE d = req[q].doc
    <3>1. CASE RequestGoes(q, "background", req[q].doc)
      <4>1. req'[q].doc = d /\ req'[q].step = "background"
        BY <2>4, <3>1 DEF RequestGoes, ServiceTypeOK
      <4> QED
        BY <4>1 DEF Secured
    <3>2. CASE ~RequestGoes(q, "background", req[q].doc)
      <4>1. PICK m \in Messages :
              /\ msg[m].state = "unsent"
              /\ msg' = [msg EXCEPT ![m] = [state |-> "visible", doc |-> req[q].doc,
                                         receives |-> 0, shared |-> FALSE]]
        BY <1>4, <3>2 DEF Schedule
      <4>2. msg'[m].doc = d /\ msg'[m].state = "visible"
        BY <2>4, <4>1 DEF ServiceTypeOK
      <4>3. ~Discharged(m)
        BY <4>1 DEF Held, Kept, Discharged
      <4> QED
        BY <2>2, <4>2, <4>3 DEF Secured, Live
    <3> QED
      BY <3>1, <3>2
  <2>5. CASE d # req[q].doc
    <3>1. \A p \in Requests : req[p].doc = d => req'[p] = req[p]
      BY <1>4, <1>a, <2>5 DEF Schedule
    <3>2. \A m \in Messages : msg[m].state # "unsent" => msg'[m] = msg[m]
      BY <1>4 DEF Schedule, ServiceTypeOK
    <3> QED
      BY <2>1, <2>2, <2>3, <3>1, <3>2, StillSecured DEF vars, Live, Lost
  <2> QED
    BY <2>4, <2>5
<1>5. ASSUME NEW r \in Runs, RunInline(q, r) PROVE Secured(d)' \/ Lost(d)'
  <2>1. /\ req[q].step = "background" /\ target[r] = req[q].doc /\ pc[r] = "idle"
        /\ RequestGoes(q, "done", req[q].doc)
        /\ \A s \in Runs : pc'[s] = IF s # r THEN pc[s]
                                    ELSE IF Exists(target[r]) THEN "loaded" ELSE "raised"
        /\ UNCHANGED <<row, target, msg, handling, executor, lost>>
    BY <1>5 DEF RunInline, Start, Goes, docVars, TypeOK, Txns
  <2>2. CASE d = req[q].doc
    <3>1. Exists(d)
      BY <2>1 DEF Unsettled, Exists, Statuses
    <3>2. target'[r] = d /\ pc'[r] \in Working
      BY <2>1, <2>2, <3>1 DEF Working
    <3> QED
      BY <3>2 DEF Secured
  <2>3. CASE d # req[q].doc
    <3>1. Secured(d) \/ Lost(d)
      BY <2>1 DEF AllSecured, Unsettled
    <3>2. \A m \in Messages : Discharged(m)' => Discharged(m)
      BY <2>1, NotDischarged
    <3>3. \A p \in Requests : req[p].doc = d => req'[p] = req[p]
      BY <1>a, <2>1, <2>3
    <3>4. \A s \in Runs : pc[s] \in Working => pc'[s] \in Working
      BY <2>1 DEF Working, InProgress, Open
    <3> QED
      BY <1>d, <2>1, <3>1, <3>2, <3>3, <3>4, StillSecured DEF Live
  <2> QED
    BY <2>2, <2>3
<1>6. CASE RequestDies(q)
  <2>1. UNCHANGED <<vars, msg, handling, executor>> /\ RequestGoes(q, "done", req[q].doc)
    BY <1>6 DEF RequestDies
  <2>2. CASE req[q].step \in {"schedule", "background"} /\ d = req[q].doc
    BY <1>6, <2>2 DEF RequestDies, Loses, Lost, Causes
  <2>3. CASE ~(req[q].step \in {"schedule", "background"} /\ d = req[q].doc)
    <3>1. Secured(d) \/ Lost(d)
      BY <1>c, <2>1
    <3>2. Lost(d) => Lost(d)'
      BY <1>6 DEF RequestDies, Loses, Lost
    <3>3. \A p \in Requests : req[p].doc = d /\ req[p].step \in {"schedule", "background"}
                                => req'[p] = req[p]
      BY <1>a, <2>1, <2>3
    <3>4. \A m \in Messages : Discharged(m)' => Discharged(m)
      BY <2>1 DEF vars, Discharged
    <3> QED
      BY <2>1, <3>1, <3>2, <3>3, <3>4, StillSecured DEF vars, Live
  <2> QED
    BY <2>2, <2>3
<1> QED
  BY <1>1, <1>2, <1>3, <1>4, <1>5, <1>6 DEF RequestStep

\* The workers, the queue, the deletes and the runs keep every document's job too, or
\* record its loss: a run that stops short leaves its message, a message goes with a
\* recorded outcome.
LEMMA WorkSecures ==
  ASSUME DutyInv,
         \/ \E w \in Workers : WorkerStep(w)
         \/ \E m \in Messages : Redrive(m) \/ Expire(m)
         \/ \E x \in Deletes : RemoveRequest(x)
         \/ \E r \in Runs : RunGoesOn(r) \/ RunMeetsFault(r) \/ RunRaises(r) \/ RunDies(r)
  PROVE  AllSecured'
<1> SUFFICES ASSUME NEW d \in Docs, Unsettled(d)' PROVE Secured(d)' \/ Lost(d)'
  BY DEF AllSecured
<1> USE DEF DutyInv
<1>a. ASSUME UNCHANGED row PROVE Secured(d) \/ Lost(d)
  BY <1>a DEF AllSecured, Unsettled
<1>b. lost \subseteq lost' /\ Lost(d) => Lost(d)'
  BY DEF Lost
<1>1. ASSUME NEW w \in Workers, NEW m \in Messages, Receive(w, m)
      PROVE  Secured(d)' \/ Lost(d)'
  <2>1. UNCHANGED <<row, pc, target, req, executor, lost>>
    BY <1>1 DEF Receive, vars
  <2>2. \A n \in Messages : /\ msg'[n].doc = msg[n].doc
                            /\ msg[n].shared => msg'[n].shared
                            /\ n # m => msg'[n] = msg[n]
                            /\ msg'[m].state = "inflight"
    BY <1>1 DEF Receive, ServiceTypeOK, Message
  <2>3. \A n \in Messages : Discharged(n)' => Discharged(n)
    <3>1. \A r \in Runs : w \notin executor[r]
      BY <1>1 DEF Receive, Held
    <3>2. \A v \in Workers : v # w => handling'[v] = handling[v]
      BY <1>1 DEF Receive, ServiceTypeOK
    <3> QED
      BY <2>1, <2>2, <3>1, <3>2 DEF Discharged
  <2>4. \A n \in Messages : Live(n) => Live(n)'
    BY <2>2 DEF Live
  <2> QED
    BY <1>a, <1>b, <2>1, <2>2, <2>3, <2>4, StillSecured
<1>2. ASSUME NEW w \in Workers, DropUnstarted(w) PROVE Secured(d)' \/ Lost(d)'
  <2>1. /\ UNCHANGED <<row, pc, target, req, msg, executor, lost>>
        /\ \A v \in Workers : handling'[v] \subseteq handling[v]
    BY <1>2 DEF DropUnstarted, ServiceTypeOK, vars
  <2>2. \A n \in Messages : Discharged(n)' => Discharged(n)
    BY <2>1, NotDischarged
  <2> QED
    BY <1>a, <1>b, <2>1, <2>2, StillSecured DEF Live
<1>3. ASSUME NEW w \in Workers, NEW r \in Runs, Handle(w, r)
      PROVE  Secured(d)' \/ Lost(d)'
  <2>1. /\ UNCHANGED <<row, target, req, msg, handling, lost>> /\ pc[r] = "idle"
        /\ \A s \in Runs : s # r => pc'[s] = pc[s] /\ executor'[s] = executor[s]
        /\ pc'[r] \in {"loaded", "raised"}
    BY <1>3 DEF Handle, Start, Goes, docVars, TypeOK, Txns, ServiceTypeOK
  <2>2. \A n \in Messages : Discharged(n)' => Discharged(n)
    BY <2>1 DEF Discharged
  <2>3. \A s \in Runs : pc[s] \in Working => pc'[s] \in Working
    BY <2>1 DEF Working, InProgress, Open
  <2> QED
    BY <1>a, <1>b, <2>1, <2>2, <2>3, StillSecured DEF Live
<1>4. ASSUME NEW w \in Workers, NEW r \in Runs, Settle(w, r) \/ Abandon(w, r)
      PROVE  Secured(d)' \/ Lost(d)'
  <2>1. /\ UNCHANGED <<row, pc, target, req>> /\ w \in executor[r] /\ lost \subseteq lost'
        /\ \A v \in Workers : handling'[v] \subseteq handling[v]
        /\ \A s \in Runs : executor'[s] \subseteq executor[s]
    BY <1>4 DEF Settle, Abandon, DeleteMessage, Loses, ServiceTypeOK, vars
  <2>2. \A n \in Messages : msg'[n].shared = msg[n].shared
    BY <1>4 DEF Settle, Abandon, DeleteMessage, ServiceTypeOK, Message
  <2>3. \A n \in Messages : Discharged(n)' => Discharged(n)
    BY <2>1, <2>2, NotDischarged
  <2>4. ASSUME NEW m \in Messages, msg[m].doc = d, Live(m), ~Discharged(m)
        PROVE  Secured(d)' \/ Lost(d)'
    <3>1. CASE msg'[m] = msg[m]
      BY <2>3, <2>4, <3>1 DEF Secured, Live
    <3>2. CASE msg'[m] # msg[m]
      <4>1. m \in handling[w] /\ pc[r] \in {"ready", "failed"} /\ DeleteMessage(w, target[r])
        BY <1>4, <3>2 DEF Settle, Abandon, DeleteMessage, ServiceTypeOK
      <4>2. msg[m].shared /\ d = target[r]
        BY <2>1, <2>4, <4>1 DEF Discharged, Held
      <4>3. Unsettled(d)
        BY <2>1 DEF Unsettled
      <4>4. lost' = lost \cup {<<d, "shared">>}
        BY <4>1, <4>2, <4>3 DEF DeleteMessage, Loses
      <4> QED
        BY <4>4 DEF Lost, Causes
    <3> QED
      BY <3>1, <3>2
  <2>5. CASE \E q \in Requests : req[q].doc = d /\ req[q].step \in {"schedule", "background"}
    BY <2>1, <2>5 DEF Secured
  <2>6. CASE \E s \in Runs : target[s] = d /\ pc[s] \in Working
    BY <2>1, <2>6 DEF Secured
  <2> QED
    BY <1>a, <1>b, <2>1, <2>4, <2>5, <2>6 DEF Secured
<1>5. ASSUME NEW m \in Messages, Redrive(m) \/ Expire(m) PROVE Secured(d)' \/ Lost(d)'
  <2>1. UNCHANGED <<row, pc, target, req, handling, executor, lost>>
    BY <1>5 DEF Redrive, Expire, vars
  <2>2. \A n \in Messages : /\ msg'[n].doc = msg[n].doc /\ msg'[n].shared = msg[n].shared
                            /\ n # m => msg'[n] = msg[n]
                            /\ msg'[m].state \in {"visible", "dead"}
    BY <1>5 DEF Redrive, Expire, ServiceTypeOK, Message
  <2>3. \A n \in Messages : Discharged(n)' => Discharged(n)
    BY <2>1, <2>2, NotDischarged
  <2>4. \A n \in Messages : Live(n) => Live(n)'
    BY <2>2 DEF Live
  <2> QED
    BY <1>a, <1>b, <2>1, <2>2, <2>3, <2>4, StillSecured
<1>6. ASSUME NEW x \in Deletes, RemoveRequest(x) PROVE Secured(d)' \/ Lost(d)'
  <2>1. RemoveStep(x) /\ UNCHANGED <<req, msg, handling, executor, lost>>
    BY <1>6 DEF RemoveRequest, serviceVars
  <2>2. /\ UNCHANGED target /\ \A r \in Runs : pc'[r] = pc[r]
        /\ row'[d] = row[d]
    BY <2>1, RemoveEffect
  <2>3. Secured(d) \/ Lost(d)
    BY <2>2 DEF AllSecured, Unsettled
  <2>4. \A n \in Messages : Discharged(n)' => Discharged(n)
    BY <2>1, <2>2, NotDischarged
  <2> QED
    BY <1>b, <2>1, <2>2, <2>3, <2>4, StillSecured DEF Live
<1>7. ASSUME NEW r \in Runs, RunGoesOn(r) \/ RunMeetsFault(r) \/ RunRaises(r)
      PROVE  Secured(d)' \/ Lost(d)'
  <2>1. /\ RunProgress(r) \/ Fault(r) \/ FailsToRecord(r)
        /\ UNCHANGED <<req, msg, handling, executor>> /\ lost \subseteq lost'
    BY <1>7 DEF RunGoesOn, RunMeetsFault, RunRaises, serviceVars, Loses
  <2>2. /\ UNCHANGED target
        /\ pc[r] \in Working /\ pc'[r] \in Working \cup {"ready", "failed", "raised"}
        /\ \A s \in Runs : s # r => pc'[s] = pc[s]
        /\ \A e \in Docs : e # target[r] => row'[e] = row[e]
        /\ pc'[r] \in {"ready", "failed"} => ~Unsettled(target[r])'
    BY <2>1, RunEffect
  <2>3. CASE d # target[r]
    <3>1. Secured(d) \/ Lost(d)
      BY <2>2, <2>3 DEF AllSecured, Unsettled
    <3>2. \A m \in Messages : msg[m].doc = d /\ Discharged(m)' => Discharged(m)
      BY <2>1, <2>2, <2>3 DEF Discharged, Held
    <3>3. CASE \E q \in Requests : req[q].doc = d /\ req[q].step \in {"schedule", "background"}
      BY <2>1, <3>3 DEF Secured
    <3>4. CASE \E s \in Runs : target[s] = d /\ pc[s] \in Working
      BY <2>2, <2>3, <3>4 DEF Secured
    <3>5. CASE \E m \in Messages : msg[m].doc = d /\ Live(m) /\ ~Discharged(m)
      BY <2>1, <3>2, <3>5 DEF Secured, Live
    <3> QED
      BY <1>b, <2>1, <3>1, <3>3, <3>4, <3>5 DEF Secured
  <2>4. CASE d = target[r] /\ pc'[r] \in Working
    BY <2>2, <2>4 DEF Secured
  <2>5. CASE d = target[r] /\ pc'[r] = "raised"
    <3>1. RunRaises(r)
      BY <1>7, <2>5, OnlyRecordingRaises DEF RunGoesOn, RunMeetsFault
    <3>2. CASE executor[r] = {}
      BY <2>5, <3>1, <3>2 DEF RunRaises, Loses, Lost, Causes
    <3>3. CASE executor[r] # {}
      BY <2>1, <2>2, <2>5, <3>3, LeftBehind
    <3> QED
      BY <3>2, <3>3
  <2> QED
    BY <2>2, <2>3, <2>4, <2>5
<1>8. ASSUME NEW r \in Runs, RunDies(r) PROVE Secured(d)' \/ Lost(d)'
  <2>1. /\ UNCHANGED <<row, target, req, msg>> /\ lost \subseteq lost'
        /\ \A s \in Runs : s # r => pc'[s] = pc[s]
        /\ pc'[r] = "crashed"
        /\ \A w \in Workers : handling'[w] \subseteq handling[w]
        /\ \A s \in Runs : executor'[s] \subseteq executor[s]
    BY <1>8 DEF RunDies, Crash, Goes, docVars, TypeOK, Txns, ServiceTypeOK, Loses
  <2>2. CASE d # target[r]
    <3>1. \A m \in Messages : Discharged(m)' => Discharged(m)
      BY <2>1, NotDischarged
    <3>2. \A s \in Runs : target[s] = d /\ pc[s] \in Working => pc'[s] \in Working
      BY <2>1, <2>2
    <3> QED
      BY <1>a, <1>b, <2>1, <3>1, <3>2, StillSecured DEF Live
  <2>3. CASE d = target[r] /\ executor[r] = {}
    BY <1>8, <2>3 DEF RunDies, Loses, Lost, Causes
  <2>4. CASE d = target[r] /\ executor[r] # {}
    BY <2>1, <2>4, LeftBehind
  <2> QED
    BY <2>2, <2>3, <2>4
<1> QED
  BY <1>1, <1>2, <1>3, <1>4, <1>5, <1>6, <1>7, <1>8 DEF WorkerStep

\* Whatever fails and however early messages expire, a document that is not settled has
\* a job, unless it lost one with an API process that died, with a background task that
\* could not record its failure, or with a message that two workers were on
\* (documents.py:116-136, ingestion.py:104-107, worker.py:70-161).
THEOREM NoLostDocumentHolds == ServiceSpec => []NoLostDocument
<1>1. ServiceInit => DutyInv
  <2> SUFFICES ASSUME ServiceInit PROVE DutyInv
    OBVIOUS
  <2>1. TypeOK /\ ServiceTypeOK
    BY ServiceTypesInit
  <2>2. Held
    BY DEF ServiceInit, Held
  <2>3. AllSecured
    BY DEF ServiceInit, Init, AllSecured, Unsettled, InProgress
  <2> QED
    BY <2>1, <2>2, <2>3 DEF DutyInv
<1>2. DutyInv /\ [ServiceNext]_allVars => DutyInv'
  <2> SUFFICES ASSUME DutyInv, [ServiceNext]_allVars PROVE DutyInv'
    OBVIOUS
  <2>1. TypeOK' /\ ServiceTypeOK'
    BY ServiceTypesStep DEF DutyInv
  <2>2. CASE UNCHANGED allVars
    <3>1. UNCHANGED <<row, pc, target, req, msg, handling, executor, lost>>
      BY <2>2 DEF allVars, vars, serviceVars
    <3>2. Held'
      BY <3>1, HeldKept DEF DutyInv
    <3>3. \A m \in Messages : (Live(m)' <=> Live(m)) /\ (Discharged(m)' <=> Discharged(m))
      BY <3>1 DEF Live, Discharged
    <3>4. \A d \in Docs : Unsettled(d)' => Secured(d)' \/ Lost(d)'
      BY <3>1, <3>3 DEF DutyInv, AllSecured, Unsettled, Secured, Lost
    <3> QED
      BY <2>1, <3>2, <3>4 DEF DutyInv, AllSecured
  <2>3. CASE ServiceNext
    <3>1. Held'
      BY <2>3, RequestHeld, WorkHeld DEF ServiceNext, DutyInv
    <3>2. AllSecured'
      BY <2>3, RequestSecures, WorkSecures DEF ServiceNext
    <3> QED
      BY <2>1, <3>1, <3>2 DEF DutyInv
  <2> QED
    BY <2>2, <2>3
<1>3. DutyInv => NoLostDocument
  BY DEF DutyInv, AllSecured, Secured, Live, NoLostDocument, Backed
<1> QED
  BY <1>1, <1>2, <1>3, PTL DEF ServiceSpec


-----------------------------------------------------------------------------
(* The stored files. *)

\* Between storing its bytes and having its row.
Storing(p) == post[p] \in {"lookup", "insert"}

\* A removal under way covers the uploads that it overlaps, has selected a document
\* that was complete, and is known to a row inserted in the place of that document.
Covered == \A r \in Removals, p \in Posts : UnderWay(r) /\ Storing(p) => r \in overlaps[p]
Selected ==
  \A r \in Removals : UnderWay(r) => \A x \in removal[r].of :
    /\ post[x] = "done" /\ (removal[r].step = "file" => x \notin rows)
    /\ \A d \in rows : x # d /\ Upload(x) = Upload(d) => r \in overlaps[d]
\* What the unique index is for, and where rows come from.
OneRow == \A d, e \in rows : Upload(d) = Upload(e) => d = e
RowsDone == \A d \in rows : post[d] = "done"

\* FilesKept, for the rows still to come as well.
StoredKept ==
  \A p \in Posts : Storing(p) \/ p \in rows => Readable(p) \/ \E r \in Removals : Took(r, p)

\* The inductive invariant.
BlobInv == BlobTypeOK /\ Covered /\ Selected /\ OneRow /\ RowsDone /\ StoredKept

\* A new upload: its file is there, and it knows the removals under way.
LEMMA StoreBytesKeeps ==
  ASSUME BlobInv, NEW p \in Posts, StoreBytes(p)
  PROVE  BlobInv'
<1> USE DEF BlobInv, StoreBytes, Advances
<1>0. /\ BlobTypeOK /\ post[p] = "new" /\ rows' = rows /\ removal' = removal
      /\ store' = store \cup {Key(p)}
  OBVIOUS
<1>1. BlobTypeOK'
  BY DEF BlobTypeOK, UnderWay
<1>2. \A q \in Posts : q # p => post'[q] = post[q] /\ overlaps'[q] = overlaps[q]
  BY DEF BlobTypeOK
<1>3. post'[p] = "lookup" /\ overlaps'[p] = {r \in Removals : UnderWay(r)}
  BY DEF BlobTypeOK
<1>4. p \notin rows
  BY DEF RowsDone
<1>5. rows \subseteq Posts /\ \A r \in Removals : removal[r].of \subseteq Posts
  BY DEF BlobTypeOK
<1>6. Covered' /\ RowsDone' /\ OneRow'
  BY <1>2, <1>3, <1>4, <1>5 DEF Covered, RowsDone, OneRow, UnderWay, Storing, Upload
<1>7. Selected'
  BY <1>2, <1>3, <1>4, <1>5 DEF Selected, UnderWay, Upload
<1>8. StoredKept'
  <2> SUFFICES ASSUME NEW q \in Posts, (Storing(q) \/ q \in rows)'
               PROVE  (Readable(q) \/ \E r \in Removals : Took(r, q))'
    BY DEF StoredKept
  <2>1. CASE q = p
    BY <2>1 DEF Readable, Key
  <2>2. CASE q # p
    <3>1. Storing(q) \/ q \in rows
      BY <1>2, <2>2 DEF Storing
    <3>2. Readable(q) \/ \E r \in Removals : Took(r, q)
      BY <3>1 DEF StoredKept
    <3>3. CASE Readable(q)
      BY <3>3 DEF Readable, Key
    <3>4. CASE \E r \in Removals : Took(r, q)
      BY <3>4, <1>2, <2>2 DEF Took, Key
    <3> QED BY <3>2, <3>3, <3>4
  <2> QED BY <2>1, <2>2
<1> QED BY <1>1, <1>6, <1>7, <1>8 DEF BlobInv

\* An upload whose next step leaves the store and the removals alone.
LEMMA UploadKeeps ==
  ASSUME BlobInv, NEW p \in Posts, FindDocument(p) \/ InsertDocument(p) \/ UploadDies(p)
  PROVE  BlobInv'
<1>1. /\ Storing(p) /\ post' \in [Posts -> {"new", "lookup", "insert", "done"}]
      /\ \A q \in Posts : q # p => post'[q] = post[q]
      /\ post'[p] \in {"insert", "done"}
      /\ store' = store /\ removal' = removal /\ overlaps' = overlaps
  BY DEF BlobInv, BlobTypeOK, FindDocument, InsertDocument, UploadDies, Advances, Storing
<1>2. \/ rows' = rows
      \/ rows' = rows \cup {p} /\ post'[p] = "done" /\ ~Taken(p)
  BY DEF BlobInv, BlobTypeOK, FindDocument, InsertDocument, UploadDies, Advances
<1>3. BlobTypeOK /\ Covered /\ Selected /\ OneRow /\ RowsDone /\ StoredKept
  BY DEF BlobInv
<1>4. \A q \in Posts : Storing(q)' => Storing(q)
  BY <1>1 DEF Storing
<1>5. rows \subseteq Posts /\ \A r \in Removals : removal[r].of \subseteq Posts
  BY <1>3 DEF BlobTypeOK
<1>6. p \notin rows
  BY <1>1, <1>3 DEF RowsDone, Storing
<1>7. BlobTypeOK'
  BY <1>1, <1>2, <1>3 DEF BlobTypeOK
<1>8. Covered' /\ RowsDone'
  BY <1>1, <1>2, <1>3, <1>4, <1>5, <1>6 DEF Covered, RowsDone, UnderWay, Storing
<1>9. OneRow'
  BY <1>1, <1>2, <1>3 DEF OneRow, Taken, Upload
<1>10. Selected'
  <2> SUFFICES ASSUME NEW r \in Removals, UnderWay(r)', NEW x \in removal[r].of
               PROVE  (/\ post[x] = "done" /\ (removal[r].step = "file" => x \notin rows)
                       /\ \A d \in rows : x # d /\ Upload(x) = Upload(d) => r \in overlaps[d])'
    BY <1>1 DEF Selected
  <2>1. UnderWay(r) /\ x \in Posts
    BY <1>1, <1>5 DEF UnderWay
  <2>2. /\ post[x] = "done" /\ (removal[r].step = "file" => x \notin rows)
        /\ \A d \in rows : x # d /\ Upload(x) = Upload(d) => r \in overlaps[d]
    BY <1>3, <2>1 DEF Selected
  <2>3. x # p
    BY <1>1, <2>2 DEF Storing
  <2>4. r \in overlaps[p]
    BY <1>1, <1>3, <2>1 DEF Covered
  <2> QED BY <1>1, <1>2, <2>1, <2>2, <2>3, <2>4 DEF Upload
<1>11. StoredKept'
  BY <1>1, <1>2, <1>3, <1>4, <1>5 DEF StoredKept, Readable, Took, Key
<1> QED BY <1>7, <1>8, <1>9, <1>10, <1>11 DEF BlobInv

\* A removal begins: the one row of its file is the one it selects.
LEMMA SelectKeeps ==
  ASSUME BlobInv, NEW r \in Removals, SelectDocument(r)
  PROVE  BlobInv'
<1>1. PICK d \in rows : removal' = [removal EXCEPT ![r] = [step |-> "row", of |-> {d}]]
  BY DEF SelectDocument, Proceeds
<1>2. /\ removal[r].step = "new" /\ post' = post /\ rows' = rows /\ store' = store
      /\ BlobTypeOK /\ Covered /\ Selected /\ OneRow /\ RowsDone /\ StoredKept
  BY DEF BlobInv, SelectDocument
<1>3. /\ overlaps' \in [Posts -> SUBSET Removals]
      /\ \A p \in Posts : overlaps[p] \subseteq overlaps'[p]
      /\ \A p \in Posts : Storing(p) => r \in overlaps'[p]
  BY <1>2 DEF BlobTypeOK, SelectDocument, Storing
<1>4. /\ removal'[r] = [step |-> "row", of |-> {d}]
      /\ \A s \in Removals : s # r => removal'[s] = removal[s]
      /\ d \in Posts /\ rows \subseteq Posts
  BY <1>1, <1>2 DEF BlobTypeOK
<1>5. BlobTypeOK'
  <2>1. [step |-> "row", of |-> {d}] \in
          [step : {"new", "row", "file", "done", "kept"}, of : SUBSET Posts]
    BY <1>4
  <2> QED BY <1>1, <1>2, <1>3, <2>1 DEF BlobTypeOK
<1>6. Covered'
  BY <1>2, <1>3, <1>4 DEF Covered, UnderWay, Storing
<1>7. OneRow' /\ RowsDone'
  BY <1>2 DEF OneRow, RowsDone, Upload
<1>8. Selected'
  <2> SUFFICES ASSUME NEW s \in Removals, UnderWay(s)', NEW x \in removal'[s].of
               PROVE  (/\ post[x] = "done" /\ (removal[s].step = "file" => x \notin rows)
                       /\ \A e \in rows : x # e /\ Upload(x) = Upload(e) => s \in overlaps[e])'
    BY DEF Selected
  <2>1. CASE s = r
    <3>1. x = d /\ removal'[s].step = "row"
      BY <1>4, <2>1
    <3> QED BY <1>2, <3>1 DEF RowsDone, OneRow, Upload
  <2>2. CASE s # r
    <3>1. UnderWay(s) /\ removal'[s] = removal[s]
      BY <1>4, <2>2 DEF UnderWay
    <3> QED BY <1>2, <1>3, <1>4, <3>1 DEF Selected, Upload
  <2> QED BY <2>1, <2>2
<1>9. StoredKept'
  <2> SUFFICES ASSUME NEW p \in Posts, Storing(p) \/ p \in rows
               PROVE  (Readable(p) \/ \E s \in Removals : Took(s, p))'
    BY <1>2 DEF StoredKept, Storing
  <2>1. CASE Readable(p)
    BY <1>2, <2>1 DEF Readable, Key
  <2>2. CASE \E s \in Removals : Took(s, p)
    <3>1. PICK s \in Removals : Took(s, p)
      BY <2>2
    <3>2. s # r
      BY <1>2, <3>1 DEF Took
    <3> QED BY <1>3, <1>4, <3>1, <3>2 DEF Took, Key
  <2> QED BY <1>2, <2>1, <2>2 DEF StoredKept
<1> QED BY <1>5, <1>6, <1>7, <1>8, <1>9 DEF BlobInv

\* The other steps of a removal: it goes on or gives up, and rows or files go.
LEMMA RemovalKeeps ==
  ASSUME BlobInv, NEW r \in Removals, DeleteRow(r) \/ DeleteFile(r) \/ RemovalDies(r)
  PROVE  BlobInv'
<1>1. BlobTypeOK /\ Covered /\ Selected /\ OneRow /\ RowsDone /\ StoredKept
  BY DEF BlobInv
<1>2. /\ UnderWay(r) /\ post' = post /\ overlaps' = overlaps
      /\ rows' \subseteq rows /\ store' \subseteq store
  BY DEF DeleteRow, DeleteFile, RemovalDies, UnderWay
<1>3. PICK step \in {"file", "done", "kept"} :
        removal' = [removal EXCEPT ![r] = [step |-> step, of |-> removal[r].of]]
  BY DEF DeleteRow, DeleteFile, RemovalDies, Proceeds
<1>4. /\ removal'[r].step = step /\ removal'[r].of = removal[r].of
      /\ \A s \in Removals : s # r => removal'[s] = removal[s]
      /\ removal[r].of \subseteq Posts /\ rows \subseteq Posts
  BY <1>1, <1>3 DEF BlobTypeOK
<1>5. BlobTypeOK'
  <2>1. [step |-> step, of |-> removal[r].of] \in
          [step : {"new", "row", "file", "done", "kept"}, of : SUBSET Posts]
    BY <1>4
  <2> QED BY <1>1, <1>2, <1>3, <2>1 DEF BlobTypeOK
<1>6. \A s \in Removals : /\ removal'[s].of = removal[s].of
                          /\ UnderWay(s)' => UnderWay(s)
                          /\ s # r => removal'[s].step = removal[s].step
  BY <1>2, <1>4 DEF UnderWay
<1>7. Covered' /\ OneRow' /\ RowsDone'
  BY <1>1, <1>2, <1>6 DEF Covered, OneRow, RowsDone, Storing, Upload
<1>8. step = "file" => rows' = rows \ removal[r].of
  BY <1>1, <1>3, <1>4 DEF DeleteRow, DeleteFile, RemovalDies, Proceeds, BlobTypeOK
<1>9. Selected'
  <2> SUFFICES ASSUME NEW s \in Removals, UnderWay(s)', NEW x \in removal[s].of
               PROVE  (/\ post[x] = "done" /\ (removal[s].step = "file" => x \notin rows)
                       /\ \A d \in rows : x # d /\ Upload(x) = Upload(d) => s \in overlaps[d])'
    BY <1>6 DEF Selected
  <2>1. /\ post[x] = "done" /\ (removal[s].step = "file" => x \notin rows)
        /\ \A d \in rows : x # d /\ Upload(x) = Upload(d) => s \in overlaps[d]
    BY <1>1, <1>6 DEF Selected
  <2>2. removal'[s].step = "file" => x \notin rows'
    BY <1>2, <1>4, <1>6, <1>8, <2>1
  <2> QED BY <1>2, <2>1, <2>2 DEF Upload
<1>10. StoredKept'
  <2> SUFFICES ASSUME NEW p \in Posts, Storing(p) \/ p \in rows'
               PROVE  (Readable(p) \/ \E s \in Removals : Took(s, p))'
    BY <1>2 DEF StoredKept, Storing
  <2>1. Readable(p) \/ \E s \in Removals : Took(s, p)
    BY <1>1, <1>2 DEF StoredKept
  <2>2. CASE \E s \in Removals : Took(s, p)
    <3>1. PICK s \in Removals : Took(s, p)
      BY <2>2
    <3>2. s # r
      BY <1>2, <3>1 DEF Took, UnderWay
    <3> QED BY <1>2, <1>4, <3>1, <3>2 DEF Took, Key
  <2>3. CASE Readable(p) /\ Readable(p)'
    BY <2>3
  <2>4. CASE Readable(p) /\ ~Readable(p)'
    <3>1. DeleteFile(r)
      BY <2>4 DEF DeleteRow, RemovalDies, Readable, Key
    <3>2. removal[r].step = "file" /\ step = "done"
      BY <1>1, <1>3, <1>4, <3>1 DEF DeleteFile, Proceeds, BlobTypeOK
    <3>3. PICK x \in removal[r].of : Key(x) = Key(p)
      BY <2>4, <3>1 DEF DeleteFile, Readable, Key
    <3>4. post[x] = "done" /\ x \notin rows
      BY <1>1, <1>2, <3>2 DEF Selected
    <3>5. x # p
      BY <1>2, <3>4 DEF Storing
    <3>6. UserOf[x] # UserOf[p] \/ r \in overlaps[p]
      <4>1. CASE Storing(p)
        BY <1>1, <1>2, <4>1 DEF Covered
      <4>2. CASE p \in rows
        BY <1>1, <1>2, <3>3, <3>5, <4>2 DEF Selected, Key, Upload
      <4> QED BY <1>2, <4>1, <4>2
    <3>7. Took(r, p)'
      BY <1>2, <1>4, <3>2, <3>3, <3>5, <3>6 DEF Took, Key
    <3> QED BY <3>7
  <2> QED BY <2>1, <2>2, <2>3, <2>4
<1> QED BY <1>5, <1>7, <1>9, <1>10 DEF BlobInv

\* The step of any request keeps the invariant.
THEOREM BlobsInvariant == BlobSpec => []BlobInv
<1>1. BlobInit => BlobInv
  BY DEF BlobInit, BlobInv, BlobTypeOK, Covered, Selected, OneRow, RowsDone, StoredKept,
         Storing, UnderWay
<1>2. BlobInv /\ [BlobNext]_blobVars => BlobInv'
  <2> SUFFICES ASSUME BlobInv, [BlobNext]_blobVars
               PROVE  BlobInv'
    OBVIOUS
  <2>1. CASE UNCHANGED blobVars
    BY <2>1 DEF blobVars, BlobInv, BlobTypeOK, Covered, Selected, OneRow, RowsDone, StoredKept,
                Storing, UnderWay, Readable, Took, Upload, Key
  <2>2. CASE \E p \in Posts :
               StoreBytes(p) \/ FindDocument(p) \/ InsertDocument(p) \/ UploadDies(p)
    BY <2>2, StoreBytesKeeps, UploadKeeps
  <2>3. CASE \E r \in Removals :
               SelectDocument(r) \/ DeleteRow(r) \/ DeleteFile(r) \/ RemovalDies(r)
    BY <2>3, SelectKeeps, RemovalKeeps
  <2> QED BY <2>1, <2>2, <2>3 DEF BlobNext
<1> QED BY <1>1, <1>2, PTL DEF BlobSpec

\* A document keeps its file as long as it has its row, but for removals that overlapped
\* its upload and for other users' documents of the same bytes and name
\* (services/storage.py:39-43, documents.py:70-121, ingestion.py:172-188).
THEOREM FilesKeptHolds == BlobSpec => []FilesKept
<1>1. BlobInv => FilesKept
  BY DEF BlobInv, StoredKept, FilesKept, BlobTypeOK
<1> QED BY <1>1, BlobsInvariant, PTL
=============================================================================
