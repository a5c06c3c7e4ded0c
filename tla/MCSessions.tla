------------------------------ MODULE MCSessions ------------------------------
(* Instances of Sessions for TLC: two tabs of one browser. *)
EXTENDS Sessions

OneBrowser == [t \in Tabs |-> "browser"]
=============================================================================
