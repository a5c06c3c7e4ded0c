-------------------------------- MODULE Lists --------------------------------
(***************************************************************************)
(* The two things the services do with Python lists again and again.       *)
(***************************************************************************)
EXTENDS Naturals, Sequences, FiniteSets

\* [x for x in seq if x in S]
Those(seq, S) ==
  LET those[n \in 0 .. Len(seq)] ==
        IF n = 0 THEN <<>>
        ELSE IF seq[n] \in S THEN Append(those[n - 1], seq[n]) ELSE those[n - 1]
  IN those[Len(seq)]

\* list.sort(reverse=True) is stable: equals keep their order. `above` has the pairs of
\* places whose first has the higher score.
Sorted(seq, above) ==
  LET Ahead(j) == {i \in DOMAIN seq : <<i, j>> \in above \/ (<<j, i>> \notin above /\ i < j)}
  IN [k \in DOMAIN seq |-> seq[CHOOSE j \in DOMAIN seq : Cardinality(Ahead(j)) = k - 1]]
=============================================================================
