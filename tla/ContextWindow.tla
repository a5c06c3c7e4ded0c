----------------------------- MODULE ContextWindow -----------------------------
(***************************************************************************)
(* The prompt of a turn (services/context.py, services/tokens.py): what is *)
(* fixed, the passages, the history and the summary, each fitted into what *)
(* the ones before it left of the window. A text is its number of tokens,  *)
(* a passage its label, of any length, and its body; the tokens of parts   *)
(* that are put together add up. The margins are the ones of the code.     *)
(***************************************************************************)
EXTENDS Integers, Sequences, FiniteSetsExt

CONSTANTS
  InputBudget,  \* settings.input_token_budget
  MaxRetrieved, \* settings.max_retrieved_context_tokens
  MaxHistory    \* settings.max_history_tokens

ASSUME ContextAssumption == {InputBudget, MaxRetrieved, MaxHistory} \subseteq Nat

VARIABLE prompt \* what is put together, as numbers of tokens

Margin(n) == Max({0, n})
Total(seq) ==
  LET sum[n \in 0 .. Len(seq)] == IF n = 0 THEN 0 ELSE sum[n - 1] + seq[n]
  IN sum[Len(seq)]

\* Tokens of what prompts.py puts around the parts.
NoContextNote == 40
ContextHeader == 40
QuestionHeader == 6
SummaryHeader == 30
TruncationMark == 6
ImageTokens == 800

\* truncate_to_tokens
Truncated(size, limit) == IF limit <= 0 THEN 0 ELSE Min({size, limit})

\* What has been kept so far, what it has cost, and whether the rest is left out.
Nothing == [kept |-> <<>>, spent |-> 0, full |-> FALSE]
Keep(s, passage, cost) ==
  [kept |-> Append(s.kept, passage), spent |-> s.spent + cost, full |-> FALSE]
Stop(s) == [s EXCEPT !.full = TRUE]

\* Passages until one does not fit; that one is cut, if it keeps 120 tokens. Each costs
\* its body and 20 tokens for its label, however long that is.
FitChunk(s, chunk, budget) ==
  LET remaining == budget - s.spent - 20
      cut == Truncated(chunk.size, remaining) + TruncationMark
  IN IF s.full THEN s
     ELSE IF chunk.size <= remaining THEN Keep(s, chunk, chunk.size + 20)
     ELSE IF remaining < 120 THEN Stop(s)
     ELSE Keep(s, [chunk EXCEPT !.size = cut], remaining + 20)

\* Web results go on from there and are never cut.
FitWeb(s, result, budget) ==
  IF s.full \/ s.spent + result.size + 20 > budget THEN Stop(s)
  ELSE Keep(s, result, result.size + 20)

ChunksFitted(chunks, budget) ==
  LET s[n \in 0 .. Len(chunks)] ==
        IF n = 0 THEN Nothing ELSE FitChunk(s[n - 1], chunks[n], budget)
  IN s[Len(chunks)]

FitPassages(chunks, web, budget) ==
  LET s[n \in 0 .. Len(web)] ==
        IF n = 0 THEN [ChunksFitted(chunks, budget) EXCEPT !.full = FALSE]
        ELSE FitWeb(s[n - 1], web[n], budget)
  IN s[Len(web)].kept

Labels(passages) == Total([n \in DOMAIN passages |-> passages[n].label])
Bodies(passages) == Total([n \in DOMAIN passages |-> passages[n].size])

ContextBlock(passages) ==
  IF passages = <<>> THEN NoContextNote
  ELSE ContextHeader + Labels(passages) + Bodies(passages)

\* The indices of the messages kept: backwards from the newest while whole messages
\* fit, those without text left out, and never beginning with an answer.
TakeMessage(s, i, size, budget) ==
  IF s.full \/ size = 0 THEN s
  ELSE IF s.spent + size + 8 > budget THEN Stop(s)
  ELSE [kept |-> <<i>> \o s.kept, spent |-> s.spent + size + 8, full |-> FALSE]

Recent(history, budget) ==
  LET s[n \in 0 .. Len(history)] ==
        IF n = 0 THEN Nothing
        ELSE TakeMessage(s[n - 1], Len(history) + 1 - n, history[Len(history) + 1 - n].size, budget)
  IN s[Len(history)].kept

FitHistory(history, budget) ==
  LET taken == Recent(history, budget)
      asked == {n \in DOMAIN taken : history[taken[n]].role = "user"}
  IN IF asked = {} THEN <<>> ELSE SubSeq(taken, Min(asked), Len(taken))

Envelopes(sizes) == Total([n \in DOMAIN sizes |-> sizes[n] + 4])

\* Mutant: the history is fitted as if there were no passages.
HistoryBudgetUncounted(fixed, block) ==
  Min({MaxHistory, Margin(InputBudget - fixed - 500)})
HistoryBudget(fixed, block) ==
  Min({MaxHistory, Margin(InputBudget - (fixed + block) - 500)})

\* build_messages. Attachments that are no image cost the budget 800 tokens too, and
\* are left out of the message.
BuildMessages(p) ==
  LET fixed == p.system + 8 + p.question + ImageTokens * (p.images + p.files) + 8
      passages == FitPassages(p.chunks, p.web,
                    Min({MaxRetrieved, Margin(InputBudget - fixed - 2000)}))
      spent == fixed + ContextBlock(passages)
      kept == FitHistory(p.history, HistoryBudget(fixed, ContextBlock(passages)))
      history == [n \in DOMAIN kept |-> p.history[kept[n]].size]
      remaining == Margin(InputBudget - spent - Envelopes(history) - 200)
      summary == IF p.summary > 0 /\ remaining > 100
                 THEN SummaryHeader + Truncated(p.summary, Min({remaining, 1200})) ELSE 0
  IN [passages |-> passages, history |-> kept, summary |-> summary,
      tokens |-> (p.system + summary + 4) + Envelopes(history)
                 + (ContextBlock(passages) + QuestionHeader + p.question + 4)
                 + ImageTokens * p.images]

-----------------------------------------------------------------------------
(* What an assembled prompt promises. *)

\* The prompts there can be.
Passages == [label : Nat, size : Nat]
Texts == [role : {"user", "assistant"}, size : Nat]
Prompts == [system : Nat, question : Nat, images : Nat, files : Nat, summary : Nat,
            chunks : Seq(Passages), web : Seq(Passages), history : Seq(Texts)]

\* What is never dropped, the note that there is no context included.
Fixed(p) == p.system + p.question + ImageTokens * (p.images + p.files) + NoContextNote + 16

\* As much of the labels as is beyond the 20 tokens counted for each and still fits what
\* is set aside of the passages' budget.
LabelRoom == 1950

\* Nothing that can give way makes a prompt too long: a history or a summary is in it
\* only if all of it fits. Without them it fits whenever the parts that are never
\* dropped do, unless the labels of its passages exceed what is counted for them by more
\* than there is room for.
FitsTheWindow(p) ==
  LET built == BuildMessages(p)
      labels == Labels(built.passages)
  IN built.tokens <= InputBudget
     \/ /\ built.history = <<>> /\ built.summary = 0
        /\ Fixed(p) > InputBudget \/ labels > 20 * Len(built.passages) + LabelRoom

\* The history is the newest part of the conversation without a gap: it begins with a
\* question and omits nothing after it that has text.
NothingSkipped(p) ==
  LET kept == BuildMessages(p).history
      h == {kept[n] : n \in DOMAIN kept}
  IN /\ h # {} => p.history[Min(h)].role = "user"
     /\ \A i \in DOMAIN p.history :
          (\E j \in h : j <= i) /\ p.history[i].size > 0 => i \in h

\* The assembled prompt fits the window unless its fixed parts or the labels of its
\* passages do not, when nothing else is left in it, and its history has no gap
\* (services/context.py:44-103, 182-206).
PromptFits == FitsTheWindow(prompt) /\ NothingSkipped(prompt)
=============================================================================
