----------------------------- MODULE MCAlgorithms -----------------------------
(***************************************************************************)
(* What goes into a prompt, each part in a topic of its own: documents     *)
(* that grow by a block, searches and what the reranker makes of them,     *)
(* prompts that grow by a part, the tool calls of a turn (ToolCalls), the  *)
(* user's memories (Memories) and the stored files the documents are read  *)
(* from (Blobs). A behaviour stays in its topic.                           *)
(***************************************************************************)
EXTENDS Chunking, Retrieval, ContextWindow, ToolCalls, Memories, Blobs

CONSTANTS Topic, Blocks, Parts

\* Three uploads of one user, one of them under another filename, and one of another's.
Users == <<"u1", "u1", "u1", "u2">>
Bytes == <<"b", "b", "b", "b">>
Names == <<"n1", "n1", "n2", "n1">>

NearPairs == {<<c, c>> : c \in Contents} \cup {<<"a", "b">>, <<"b", "a">>}

VARIABLE topic

inputs == <<doc, search, prompt>>
vars == <<topic, inputs, toolVars, memoryVars, blobVars>>

Elsewhere == UNCHANGED <<topic, toolVars, memoryVars, blobVars>>

-----------------------------------------------------------------------------
(* Documents: the lengths of a text's sentences, 0 for a blank line. *)

Shapes == {<<1>>, <<3>>, <<2, 1>>, <<1, 5>>, <<2, 0, 2>>}
Kinds == {"heading", "image"} \X {<<1>>} \cup {"paragraph"} \X Shapes

RECURSIVE WordsOf(_, _)
WordsOf(first, shape) ==
  IF shape = <<>> THEN <<>>
  ELSE (IF Head(shape) = 0 THEN <<Break>>
        ELSE [i \in 1 .. Head(shape) |-> [id |-> first + i, stop |-> i = Head(shape)]])
       \o WordsOf(first + Head(shape), Tail(shape))

\* Every block has a page, or none has.
Pages == IF doc = <<>> THEN {0, 1}
         ELSE {page \in {doc[Len(doc)].page + k : k \in {0, 1}} : Follows(page, doc[Len(doc)].page)}

AddBlock ==
  /\ topic = "chunking" /\ Len(doc) < Blocks
  /\ \E k \in Kinds, path \in {"A", "B"}, page \in Pages :
       doc' = Append(doc, [kind |-> k[1], path |-> path, page |-> page,
                           text |-> WordsOf(10 * Len(doc), k[2])])
  /\ UNCHANGED <<search, prompt>> /\ Elsewhere

-----------------------------------------------------------------------------
(* Searches: the dense leg names the passages, the sparse leg takes some of them
   and others; then the reranker answers. *)

LegsOf(S) == UNION {{s \in [1 .. n -> S] : \A i, j \in 1 .. n : s[i] = s[j] => i = j} : n \in 0 .. 3}
Faults == {"none", "embedding", "dense", "sparse"}
ReplySeqs == {<<"ok", "ok">>, <<"busy", "ok">>, <<"unreachable", "ok">>, <<"refused", "ok">>,
              <<"busy", "busy">>, <<"busy", "garbled">>}

\* Its results over the indices 0, 1, 2 and 9, which nobody has; a score may be missing.
\* One more result is for index 0 again, counts from the end, or is before the first.
Outputs ==
  {<<>>} \cup
  {<<SelectSeq(<<[index |-> 2, score |-> s[1]], [index |-> 0, score |-> s[2]],
                 [index |-> 9, score |-> 3], [index |-> 1, score |-> s[3]]>>,
               LAMBDA r : r.score # 4)>> : s \in [1 .. 3 -> {0, 1, 2, 4}]} \cup
  {<<<<[index |-> 2, score |-> 1], [index |-> 0, score |-> s], [index |-> i, score |-> t]>>>> :
     i \in {0, -1, -9}, s \in 1 .. 3, t \in 1 .. 3}

NoSearch == [dense |-> <<>>, sparse |-> <<>>, fault |-> "none", topN |-> 1,
             replies |-> <<"busy", "busy">>, output |-> <<>>]

DoSearch ==
  /\ topic = "retrieval" /\ search = NoSearch
  /\ \E n \in 0 .. 3, sparse \in LegsOf(1 .. 4), fault \in Faults, topN \in 1 .. 2 :
       search' = [NoSearch EXCEPT !.dense = [i \in 1 .. n |-> i], !.sparse = sparse,
                                  !.fault = fault, !.topN = topN]
  /\ UNCHANGED <<doc, prompt>> /\ Elsewhere

DoRerank ==
  /\ topic = "retrieval" /\ search.output = <<>> /\ search.replies = NoSearch.replies
  /\ search.fault = "none" /\ Len(search.dense) + Len(search.sparse) \in 3 .. MaxDocuments + 1
  /\ \E replies \in ReplySeqs, output \in Outputs :
       search' = [search EXCEPT !.replies = replies, !.output = output]
  /\ UNCHANGED <<doc, prompt>> /\ Elsewhere

-----------------------------------------------------------------------------
(* Prompts. *)

NoPrompt == [system |-> 500, question |-> 50, images |-> 0, files |-> 0, chunks |-> <<>>,
             web |-> <<>>, history |-> <<>>, summary |-> 0]

\* A passage under a label of the usual length, and one under a title and a URL that
\* are longer than its text: two of those are more than there is room for.
Passage(size) == [label |-> 24, size |-> size]
LongLabel == [label |-> 1200, size |-> 80]

AddPart ==
  /\ topic = "context"
  /\ Len(prompt.chunks) + Len(prompt.web) + Len(prompt.history) < Parts
  /\ \/ \E chunk \in {LongLabel, Passage(900), Passage(2500)} :
          prompt' = [prompt EXCEPT !.chunks = Append(@, chunk)]
     \/ \E result \in {LongLabel, Passage(900)} :
          prompt' = [prompt EXCEPT !.web = Append(@, result)]
     \/ \E size \in {0, 60, 1200}, role \in {"user", "assistant"} :
          prompt' = [prompt EXCEPT !.history = Append(@, [role |-> role, size |-> size])]
  /\ UNCHANGED <<doc, search>> /\ Elsewhere

-----------------------------------------------------------------------------

Init ==
  /\ topic \in Topic
  /\ doc = <<>> /\ search = NoSearch /\ ToolInit /\ MemoryInit /\ BlobInit
  /\ topic # "tools" => api = "chat" /\ sources = <<>>
  /\ \/ prompt = NoPrompt
     \/ /\ topic = "context"
        /\ \E question \in {50, 1500, 3200, 4600}, images \in {0, 2}, files \in 0 .. 1,
              summary \in {0, 90, 3000} :
             prompt = [NoPrompt EXCEPT !.question = question, !.images = images,
                                       !.files = files, !.summary = summary]

Calls == topic = "tools" /\ ToolNext /\ UNCHANGED <<topic, inputs, memoryVars, blobVars>>
Remembers == topic = "memories" /\ MemoryNext /\ UNCHANGED <<topic, inputs, toolVars, blobVars>>
Stores == topic = "files" /\ BlobNext /\ UNCHANGED <<topic, inputs, toolVars, memoryVars>>

Next == AddBlock \/ DoSearch \/ DoRerank \/ AddPart \/ Calls \/ Remembers \/ Stores

Spec == Init /\ [][Next]_vars

=============================================================================
