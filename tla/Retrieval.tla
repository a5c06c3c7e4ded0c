------------------------------- MODULE Retrieval -------------------------------
(***************************************************************************)
(* From a query to the passages for the prompt: the two searches and their *)
(* fusion (services/retrieval.py), the reranker and its fallback           *)
(* (services/reranker.py), the retries under both providers                *)
(* (services/http.py). A leg is the sequence of passages its SQL returns,  *)
(* best first, none twice, and a passage is a number. Scores of the        *)
(* reranker are natural numbers, 0 the score that counts as none.          *)
(***************************************************************************)
EXTENDS Integers, Sequences, FiniteSets, SequencesExt, Lists

CONSTANTS
  RrfK,          \* settings.rrf_k
  RerankTopN,    \* settings.rerank_top_n
  MaxDocuments,  \* the reranker's limit
  MinRerankScore,\* settings.min_rerank_score
  HttpMaxRetries \* settings.http_max_retries

ASSUME RetrievalAssumption ==
  /\ {RrfK, RerankTopN, MaxDocuments, HttpMaxRetries} \subseteq Nat \ {0}
  /\ MinRerankScore \in Nat

VARIABLE search \* what is searched for, what fails, and what the reranker answers

\* What an attempt of post_json meets; the first two are tried again. A 200 is "garbled"
\* when its body is no JSON, or has a result that is no object or no number.
Replies == {"busy", "unreachable", "refused", "garbled", "ok"}

\* The attempt that is not tried again meets this.
Meets(replies, reply) ==
  \E i \in 1 .. HttpMaxRetries :
    /\ replies[i] = reply
    /\ \A j \in 1 .. i - 1 : replies[j] \in {"busy", "unreachable"}

\* post_json returns what rerank can read.
PostJson(replies) == Meets(replies, "ok")

\* A failed statement aborts the transaction, and the sparse search with it.
DenseRows(dense, fault) == IF fault \in {"embedding", "dense"} THEN <<>> ELSE dense
SparseRows(sparse, fault) == IF fault \in {"sparse", "dense"} THEN <<>> ELSE sparse

RankIn(leg, c) == IF c \in Range(leg) THEN CHOOSE i \in DOMAIN leg : leg[i] = c ELSE 0

\* Mutant: the second leg's score replaces the first's.
FusionScoreOfLast(dense, sparse, c) ==
  LET d == RankIn(dense, c) s == RankIn(sparse, c)
  IN [num |-> 1, den |-> RrfK + (IF s = 0 THEN d ELSE s)]
\* The sum of 1 / (k + rank) over the legs that found it, as a fraction.
FusionScore(dense, sparse, c) ==
  LET d == RankIn(dense, c) s == RankIn(sparse, c)
  IN IF d # 0 /\ s # 0
     THEN [num |-> (RrfK + d) + (RrfK + s), den |-> (RrfK + d) * (RrfK + s)]
     ELSE [num |-> 1, den |-> RrfK + d + s]

\* In the order of insertion: the dense leg, then what only the sparse one found.
\* (The scores are a concatenation to have TLC evaluate them once.)
ReciprocalRankFusion(dense, sparse) ==
  LET found == dense \o Those(sparse, Range(sparse) \ Range(dense))
      score == <<>> \o [i \in DOMAIN found |-> FusionScore(dense, sparse, found[i])]
  IN Sorted(found, {pair \in (DOMAIN found) \X (DOMAIN found) :
                      score[pair[1]].num * score[pair[2]].den
                        > score[pair[2]].num * score[pair[1]].den})

HybridSearch(dense, sparse, fault) ==
  ReciprocalRankFusion(DenseRows(dense, fault), SparseRows(sparse, fault))

\* rerank: `output` is <<>> for an answer without results, else one record of them;
\* indices count from 0, and nothing keeps one from being negative or from coming twice.
Rerank(count, topN, replies, output) ==
  LET docs == Min({count, MaxDocuments})
      n == Min({topN, docs})
      known == Those(output[1], {r \in Range(output[1]) : r.index < docs})
      best == Sorted(known, {pair \in (DOMAIN known) \X (DOMAIN known) :
                               known[pair[1]].score > known[pair[2]].score})
  IN IF ~PostJson(replies) \/ output = <<>>
     THEN [i \in 1 .. n |-> [index |-> i - 1, score |-> 0]]
     ELSE SubSeq(best, 1, Min({n, Len(best)}))

\* The relevance cut: when something passes, only that; otherwise, weak as they are
\* or not scored at all, the first of them.
Cut(ranked, topN) ==
  LET strong == Those(ranked, {r \in Range(ranked) : r.score >= MinRerankScore})
  IN IF (\E r \in Range(ranked) : r.score # 0) /\ strong # <<>> THEN strong
     ELSE SubSeq(ranked, 1, Min({topN, Len(ranked)}))

\* candidates[index]: a negative index counts from the end.
Place(index, count) == IF index < 0 THEN count + index + 1 ELSE index + 1

\* What nobody catches: ValueError (rerank catches UpstreamError, RuntimeError and
\* CircuitOpen), and IndexError.
Raises(count, replies, results) ==
  Meets(replies, "garbled") \/ \E r \in Range(results) : Place(r.index, count) < 1

\* The passages of the results. One that comes twice is one object, and has the score of
\* its last result.
Collected(candidates, results) ==
  LET place(i) == Place(results[i].index, Len(candidates))
      last(i) == Max({k \in DOMAIN results : place(k) = place(i)})
  IN [i \in DOMAIN results |-> [chunk |-> candidates[place(i)], score |-> results[last(i)].score]]

\* <<>> when it raises, else one list of passages.
Retrieve(dense, sparse, fault, topN, replies, output) ==
  LET candidates == HybridSearch(dense, sparse, fault)
      results == Rerank(Len(candidates), topN, replies, output)
  IN IF candidates = <<>> THEN <<<<>>>>
     ELSE IF Raises(Len(candidates), replies, results) THEN <<>>
     ELSE <<Cut(Collected(candidates, results), topN)>>

-----------------------------------------------------------------------------
(* What a search promises. *)

\* The searches there can be. A leg has a passage once; the reranker answers what it
\* likes.
Legs == {leg \in Seq(Nat) : \A i, j \in DOMAIN leg : leg[i] = leg[j] => i = j}
Results == Seq([index : Int, score : Nat])
Searches == [dense : Legs, sparse : Legs, fault : {"none", "embedding", "dense", "sparse"},
             topN : Nat \ {0}, replies : [1 .. HttpMaxRetries -> Replies],
             output : {<<>>} \cup {<<results>> : results \in Results}]

Chunks(passages) == [i \in DOMAIN passages |-> passages[i].chunk]

\* A leg that fails leaves the other's order, unless it failed in the database, which
\* takes both; what both legs found comes before what one did, as long as the legs
\* are shorter than k + 2.
LegsDegrade(dense, sparse, fault) ==
  LET fused == HybridSearch(dense, sparse, fault)
      both == Range(dense) \cap Range(sparse)
  IN /\ fault = "embedding" => fused = sparse
     /\ fault = "sparse" => fused = dense
     /\ fault = "dense" => fused = <<>>
     /\ fault = "none" => Range(fused) = Range(dense) \cup Range(sparse)
     /\ fault = "none" /\ Len(dense) < RrfK + 2 /\ Len(sparse) < RrfK + 2 =>
          \A i, j \in DOMAIN fused : fused[i] \in both /\ fused[j] \notin both => i < j

\* No passage has two results.
Once(results, count) ==
  \A i, j \in DOMAIN results :
    Place(results[i].index, count) = Place(results[j].index, count) => i = j

\* Without the reranker the passages are the first of the fusion; with it they are
\* candidates, no more than asked for, and a weak one only where no strong one is. They
\* are best first and none comes twice, unless the reranker had two results for one. Only
\* an answer that cannot be read, or an index before the first, makes the search raise.
RerankDegrades(dense, sparse, fault, topN, replies, output) ==
  LET fused == HybridSearch(dense, sparse, fault)
      answer == Retrieve(dense, sparse, fault, topN, replies, output)
      found == answer[1]
      score(i) == found[i].score
      readable == \A i \in 1 .. HttpMaxRetries :
                    replies[i] = "garbled" => \E j \in 1 .. i - 1 : replies[j] \in {"ok", "refused"}
      firstRefusal == \E i \in 1 .. HttpMaxRetries :
                        /\ replies[i] = "refused"
                        /\ \A j \in 1 .. i - 1 : replies[j] \notin {"ok", "garbled"}
      silent == \A i \in 1 .. HttpMaxRetries : replies[i] \notin {"ok", "garbled"}
      without == silent \/ firstRefusal \/ (output = <<>> /\ readable)
  IN /\ without => /\ answer # <<>>
                   /\ Chunks(found) = SubSeq(fused, 1, Min({topN, MaxDocuments, Len(fused)}))
     /\ answer = <<>> /\ readable => \E r \in Range(output[1]) : r.index < -Len(fused)
     /\ answer # <<>> =>
          /\ Len(found) <= topN /\ Range(Chunks(found)) \subseteq Range(fused)
          /\ \A i, j \in DOMAIN found : score(j) < MinRerankScore => score(i) < MinRerankScore
          /\ without \/ Once(output[1], Len(fused)) =>
               \A i, j \in DOMAIN found :
                 i < j => found[i].chunk # found[j].chunk /\ score(i) >= score(j)

\* A search that loses a leg or the reranker gives what the rest of it finds, in its
\* order, and a weak passage only where no strong one is; it raises only when it cannot
\* read the reranker's answer, or is sent before the first passage (retrieval.py:125-238,
\* reranker.py:43-81, http.py:58-73).
SearchDegrades ==
  /\ LegsDegrade(search.dense, search.sparse, search.fault)
  /\ RerankDegrades(search.dense, search.sparse, search.fault, search.topN,
                    search.replies, search.output)
=============================================================================
