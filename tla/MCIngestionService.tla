-------------------------- MODULE MCIngestionService --------------------------
(* Instances of IngestionService for TLC: see the MCIngestionService*.cfg files. *)
EXTENDS IngestionService, TLC

OneFile == [d \in Docs |-> "file"]

\* Ids are interchangeable: rows take AnyDoc first, and what is deleted is that one. A
\* request that is about to insert stands for its file, of which there is one.
InOrder ==
  /\ (\E d \in Docs : row'[d] # "none") => row'[AnyDoc] # "none"
  /\ \A q \in Requests : req'[q].step = "insert" => req'[q].doc = AnyDoc

FirstInit == ServiceInit /\ \A x \in Deletes : target[x] = AnyDoc
FirstDeleted == FirstInit /\ [][ServiceNext]_allVars

\* What follows a lost job is left out: its document is excused from then on.
NothingLost == lost = {}

Interchangeable ==
  Permutations(Runs) \cup Permutations(Messages) \cup Permutations(Workers)
    \cup Permutations(Requests)
=============================================================================
