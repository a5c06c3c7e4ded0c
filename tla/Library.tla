------------------------------- MODULE Library -------------------------------
(***************************************************************************)
(* What ingestion promises to whoever searches: a document offers either   *)
(* nothing or the complete passages of one build; a newer build replaces   *)
(* an older one in one step; removal takes the passages along for good.    *)
(* Ingestion.tla implements it (IngestionProofs.tla).                      *)
(***************************************************************************)
CONSTANTS Docs, Builds, NoBuild

VARIABLES
  phase,    \* "new", "live" or "gone"
  passages  \* the build a search of the document finds, or NoBuild

Init ==
  /\ phase = [d \in Docs |-> "new"]
  /\ passages = [d \in Docs |-> NoBuild]

Register(d) ==
  /\ phase[d] = "new"
  /\ phase' = [phase EXCEPT ![d] = "live"]
  /\ UNCHANGED passages

Publish(d, b) ==
  /\ phase[d] = "live"
  /\ passages[d] # b
  /\ passages' = [passages EXCEPT ![d] = b]
  /\ UNCHANGED phase

Withdraw(d) ==
  /\ phase[d] = "live"
  /\ phase' = [phase EXCEPT ![d] = "gone"]
  /\ passages' = [passages EXCEPT ![d] = NoBuild]

Next == \E d \in Docs : Register(d) \/ Withdraw(d) \/ \E b \in Builds : Publish(d, b)

Spec == Init /\ [][Next]_<<phase, passages>>
=============================================================================
