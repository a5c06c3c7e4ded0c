---------------------------- MODULE Conversation ----------------------------
(***************************************************************************)
(* The messages of one conversation and its rolling summary, under any     *)
(* number of concurrent turns (two tabs, a retry after a disconnect): the  *)
(* transactions of agent/runner.py and the short-term half of              *)
(* services/memory.py. What happens inside a turn between loading the      *)
(* context and saving the answer is AgentTurn.                             *)
(*                                                                         *)
(* Each transaction commits as one step, and each SELECT that another      *)
(* transaction can come between is a step of its own (READ COMMITTED).     *)
(***************************************************************************)
EXTENDS Naturals, FiniteSets

CONSTANTS
  Turns,   \* the turns of the conversation
  Window,  \* messages kept verbatim: 2 * VERBATIM_TURNS
  Faulty   \* whether turns may fail or be cut off

ASSUME ConversationAssumption ==
  /\ Window \in Nat \ {0}
  /\ Faulty \in BOOLEAN

VARIABLES
  exists,   \* the conversation is not deleted
  rows,     \* its messages
  summary,  \* Conversation.summary: the ordinals whose messages it accounts for
  through,  \* Conversation.summarized_through
  phase,    \* per turn: what it does next
  asked,    \* per turn: the ordinal of its question
  context,  \* per turn: the ordinals its prompt was built from
  fold,     \* per turn: the summary and the mark it read, then those it writes
  lock      \* the turn (at most one) with an open UPDATE of the conversation

vars == <<exists, rows, summary, through, phase, asked, context, fold, lock>>

Row == [ord : Nat, turn : Turns, role : {"user", "assistant"}, error : BOOLEAN]
Phases == {"new", "ask", "load", "window", "answer", "upkeep", "cutoff", "fold",
           "extract", "ended"}

ConversationTypeOK ==
  /\ exists \in BOOLEAN
  /\ rows \subseteq Row
  /\ summary \subseteq Nat
  /\ through \in Nat
  /\ phase \in [Turns -> Phases]
  /\ asked \in [Turns -> Nat]
  /\ context \in [Turns -> SUBSET Nat]
  /\ fold \in [Turns -> [text : SUBSET Nat, mark : Nat]]
  /\ lock \subseteq Turns

Init ==
  /\ exists = TRUE
  /\ rows = {}
  /\ summary = {}
  /\ through = 0
  /\ phase = [t \in Turns |-> "new"]
  /\ asked = [t \in Turns |-> 0]
  /\ context = [t \in Turns |-> {}]
  /\ fold = [t \in Turns |-> [text |-> {}, mark |-> 0]]
  /\ lock = {}

Ordinals == {r.ord : r \in rows}
IsLast(n) == n \in Ordinals \cup {0} /\ \A m \in Ordinals : m <= n

\* Mutant: without uq_message_ordinal.
FreeAlways(ord) == exists

\* An INSERT goes through: neither uq_message_ordinal nor the foreign key refuses.
Free(ord) == exists /\ ord \notin Ordinals

Goes(t, place) == phase' = [phase EXCEPT ![t] = place]

-----------------------------------------------------------------------------
(* _persist_user_message. *)

ReadOrdinal(t) ==
  /\ phase[t] = "new"
  /\ exists
  /\ \E n \in Ordinals \cup {0} : IsLast(n) /\ asked' = [asked EXCEPT ![t] = n + 1]
  /\ Goes(t, "ask")
  /\ UNCHANGED <<exists, rows, summary, through, context, fold, lock>>

\* The question and last_message_at are committed, or the response ends without
\* a frame.
Ask(t) ==
  /\ phase[t] = "ask"
  /\ lock = {}
  /\ IF Free(asked[t])
     THEN /\ rows' = rows \cup
               {[ord |-> asked[t], turn |-> t, role |-> "user", error |-> FALSE]}
          /\ Goes(t, "load")
     ELSE Goes(t, "ended") /\ UNCHANGED rows
  /\ UNCHANGED <<exists, summary, through, asked, context, fold, lock>>

-----------------------------------------------------------------------------
(* load_short_term. *)

LoadSummary(t) ==
  /\ phase[t] = "load"
  /\ context' = [context EXCEPT ![t] = summary]
  /\ Goes(t, "window")
  /\ UNCHANGED <<exists, rows, summary, through, asked, fold, lock>>

\* The last Window messages, those of failed turns not counted.
Good == {r \in rows : ~r.error}
Verbatim ==
  {r.ord : r \in {r \in Good : Cardinality({s \in Good : s.ord > r.ord}) < Window}}

LoadWindow(t) ==
  /\ phase[t] = "window"
  /\ context' = [context EXCEPT ![t] = @ \cup Verbatim]
  /\ Goes(t, "answer")
  /\ UNCHANGED <<exists, rows, summary, through, asked, fold, lock>>

-----------------------------------------------------------------------------
(* The end of the turn: _persist_assistant_message, _persist_error. *)

\* Mutant: the answer goes to the end of the conversation.
SaveAtTheEnd(t, error) ==
  IF exists
  THEN \E n \in Ordinals : IsLast(n) /\
         rows' = rows \cup {[ord |-> n + 1, turn |-> t, role |-> "assistant", error |-> error]}
  ELSE UNCHANGED rows

\* The message takes the ordinal after the question's; a refusal is swallowed.
Save(t, error) ==
  IF Free(asked[t] + 1)
  THEN rows' = rows \cup
         {[ord |-> asked[t] + 1, turn |-> t, role |-> "assistant", error |-> error]}
  ELSE UNCHANGED rows

\* The answer, with last_message_at.
Answer(t) ==
  /\ phase[t] = "answer"
  /\ lock = {}
  /\ Save(t, FALSE)
  /\ Goes(t, "upkeep")
  /\ UNCHANGED <<exists, summary, through, asked, context, fold, lock>>

\* The turn failed: there is no upkeep.
FailTurn(t) ==
  /\ Faulty
  /\ phase[t] = "answer"
  /\ Save(t, TRUE)
  /\ Goes(t, "ended")
  /\ UNCHANGED <<exists, summary, through, asked, context, fold, lock>>

\* The client left, the process died or the upkeep raised: an open transaction is
\* rolled back and nothing more is written.
CutOff(t) ==
  /\ Faulty
  /\ phase[t] \notin {"new", "ended"}
  /\ Goes(t, "ended")
  /\ lock' = lock \ {t}
  /\ UNCHANGED <<exists, rows, summary, through, asked, context, fold>>

-----------------------------------------------------------------------------
(* maybe_summarize. *)

ReadSummary(t) ==
  /\ phase[t] = "upkeep"
  /\ fold' = [fold EXCEPT ![t] = [text |-> summary, mark |-> through]]
  /\ Goes(t, IF exists THEN "cutoff" ELSE "ended")
  /\ UNCHANGED <<exists, rows, summary, through, asked, context, lock>>

\* The last ordinal, the early returns, the messages to fold, and the model, which
\* is asked only when there are some and whose failure leaves things as they are.
ReadPending(t) ==
  LET pending(n) == {m \in Ordinals : fold[t].mark < m /\ m + Window <= n} IN
  /\ phase[t] = "cutoff"
  /\ \E n \in Ordinals \cup {0} :
       /\ IsLast(n)
       /\ \/ /\ pending(n) # {}
             /\ fold' = [fold EXCEPT ![t] = [text |-> @.text \cup pending(n), mark |-> n - Window]]
             /\ Goes(t, "fold")
          \/ pending(n) = {} /\ Goes(t, "ended") /\ UNCHANGED fold
  /\ UNCHANGED <<exists, rows, summary, through, asked, context, lock>>

\* The UPDATE, uncommitted: it waits for that of another turn.
WriteSummary(t) ==
  /\ phase[t] = "fold"
  /\ lock = {}
  /\ lock' = IF exists THEN {t} ELSE {}
  /\ Goes(t, "extract")
  /\ UNCHANGED <<exists, rows, summary, through, asked, context, fold>>

\* Mutant: the mark is kept from going back, the text is not.
CommitUpkeepForward(t) ==
  /\ phase[t] = "extract"
  /\ IF t \in lock
     THEN /\ summary' = fold[t].text
          /\ through' = IF through < fold[t].mark THEN fold[t].mark ELSE through
     ELSE UNCHANGED <<summary, through>>
  /\ lock' = lock \ {t}
  /\ Goes(t, "ended")
  /\ UNCHANGED <<exists, rows, asked, context, fold>>

\* extract_long_term has called the model in the same transaction; it commits.
CommitUpkeep(t) ==
  /\ phase[t] = "extract"
  /\ IF t \in lock
     THEN summary' = fold[t].text /\ through' = fold[t].mark
     ELSE UNCHANGED <<summary, through>>
  /\ lock' = lock \ {t}
  /\ Goes(t, "ended")
  /\ UNCHANGED <<exists, rows, asked, context, fold>>

\* delete_conversation: the messages go with it.
Delete ==
  /\ exists
  /\ lock = {}
  /\ exists' = FALSE
  /\ rows' = {}
  /\ summary' = {}
  /\ through' = 0
  /\ UNCHANGED <<phase, asked, context, fold, lock>>

TurnStep(t) ==
  \/ ReadOrdinal(t) \/ Ask(t) \/ LoadSummary(t) \/ LoadWindow(t)
  \/ Answer(t) \/ FailTurn(t) \/ CutOff(t)
  \/ ReadSummary(t) \/ ReadPending(t) \/ WriteSummary(t) \/ CommitUpkeep(t)

Next == Delete \/ \E t \in Turns : TurnStep(t)

Spec == Init /\ [][Next]_vars

-----------------------------------------------------------------------------
(* Correctness. *)

\* The ordinals of a conversation are 1, 2, 3... without a gap or a duplicate,
\* although a turn takes two of them, the second one long after the first, and
\* turns overlap, fail and are cut off: what fold_through, a difference of
\* ordinals, says of a number of messages is true.
Gapless ==
  /\ \E n \in Ordinals \cup {0} : Ordinals = 1..n
  /\ \A r, s \in rows : r.ord = s.ord => r = s

\* An answer stands right after the question it answers: a turn that comes in
\* between takes its place rather than have it answer another question.
AnswerFollowsQuestion ==
  \A r \in rows : r.role = "assistant" =>
    \E q \in rows : q.ord + 1 = r.ord /\ q.role = "user" /\ q.turn = r.turn

\* The summary accounts for exactly the messages up to its mark, although two
\* upkeeps can start from the same summary and write in any order, the one that
\* folds less last.
SummaryExact == summary = 1..through

\* The turns before this one are over, every question has its answer.
InTurn(t) ==
  /\ \A u \in Turns \ {t} : phase[u] \in {"new", "ended"}
  /\ \A r \in rows : r.role = "user" /\ r.turn # t => r.ord + 1 \in Ordinals

\* "The last N turns stay verbatim; everything older is folded into a rolling
\* summary" (memory.py:3-4): even when the turns come one after the other, the
\* prompt of each accounts for every message of the conversation.
NothingForgotten ==
  \A t \in Turns : phase[t] = "answer" /\ InTurn(t) =>
    \A r \in Good : r.ord \in context[t]
=============================================================================
