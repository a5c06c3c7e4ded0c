----------------------------- MODULE MemoryProofs -----------------------------
(***************************************************************************)
(* Short-term and long-term memory (services/memory.py). For every number  *)
(* of overlapping turns and every window: the ordinals of a conversation   *)
(* have no gap, an answer follows its question and the summary accounts    *)
(* for what it says. For every number of turns, candidates and requests to *)
(* forget: what was forgotten stays forgotten, what is known is restated   *)
(* and not remembered twice, and the counts of uses are never too high.    *)
(***************************************************************************)
EXTENDS Conversation, Memories, TLAPS

-----------------------------------------------------------------------------
(* The conversation. *)

\* The ordinal a turn is about to use follows one that is there: it was read as
\* the last one plus one, and messages only come.
Reserved ==
  \A t \in Turns :
    /\ phase[t] = "ask" => asked[t] \in Nat \ {0}
    /\ phase[t] = "ask" /\ exists => asked[t] = 1 \/ asked[t] - 1 \in Ordinals

\* The question of a turn under way is there, unless the conversation is not.
Question(t) == [ord |-> asked[t], turn |-> t, role |-> "user", error |-> FALSE]
Standing ==
  \A t \in Turns :
    phase[t] \in {"load", "window", "answer"} /\ exists => Question(t) \in rows

\* The summary an upkeep has read, or is going to write, is exact too.
FoldExact ==
  \A t \in Turns :
    phase[t] \in {"cutoff", "fold", "extract"} => fold[t].text = 1..fold[t].mark

ConversationInv ==
  /\ ConversationTypeOK /\ Gapless /\ AnswerFollowsQuestion /\ SummaryExact
  /\ Reserved /\ Standing /\ FoldExact

\* An empty conversation satisfies the invariant.
LEMMA InitInv == Init => ConversationInv
<1> SUFFICES ASSUME Init PROVE ConversationInv
  OBVIOUS
<1>1. Ordinals = {} /\ 1..0 = {}
  BY DEF Init, Ordinals
<1> QED
  BY <1>1 DEF Init, ConversationInv, ConversationTypeOK, Gapless, AnswerFollowsQuestion,
     SummaryExact, Reserved, Standing, FoldExact, Phases

\* A message that follows the last one, or the first, fills the next place.
LEMMA NextPlace ==
  ASSUME Gapless, ConversationTypeOK,
         NEW row \in Row, row.ord \notin Ordinals,
         row.ord # 0, row.ord = 1 \/ row.ord - 1 \in Ordinals,
         rows' = rows \cup {row}
  PROVE  Gapless' /\ Ordinals' = Ordinals \cup {row.ord}
<1>1. Ordinals' = Ordinals \cup {row.ord}
  BY DEF Ordinals
<1>2. PICK n \in Ordinals \cup {0} : Ordinals = 1..n
  BY DEF Gapless
<1>3. n \in Nat /\ row.ord \in Nat
  BY DEF ConversationTypeOK, Ordinals, Row
<1>4. row.ord = n + 1
  BY <1>2, <1>3
<1>5. Ordinals' = 1..(n + 1)
  BY <1>1, <1>2, <1>3, <1>4
<1>6. \E m \in Ordinals' \cup {0} : Ordinals' = 1..m
  BY <1>1, <1>4, <1>5
<1>7. \A r, s \in rows' : r.ord = s.ord => r = s
  BY DEF Gapless, Ordinals
<1> QED
  BY <1>1, <1>6, <1>7 DEF Gapless

\* Saving the assistant message of a turn whose question stands.
LEMMA SaveKeeps ==
  ASSUME ConversationInv, NEW t \in Turns, NEW error \in BOOLEAN,
         phase[t] = "answer", Save(t, error)
  PROVE  /\ rows' \subseteq Row /\ rows \subseteq rows' /\ Ordinals \subseteq Ordinals'
         /\ Gapless' /\ AnswerFollowsQuestion'
<1> USE DEF ConversationInv
<1>1. CASE Free(asked[t] + 1)
  <2> DEFINE row == [ord |-> asked[t] + 1, turn |-> t, role |-> "assistant", error |-> error]
  <2>1. rows' = rows \cup {row}
    BY <1>1 DEF Save
  <2>2. Question(t) \in rows /\ asked[t] \in Nat
    BY <1>1 DEF Standing, Free, ConversationTypeOK
  <2>3. asked[t] \in Ordinals
    BY <2>2 DEF Question, Ordinals
  <2>4. row \in Row /\ row.ord \notin Ordinals /\ row.ord # 0 /\ row.ord - 1 \in Ordinals
    BY <1>1, <2>2, <2>3 DEF Row, Free
  <2>5. Gapless' /\ Ordinals' = Ordinals \cup {row.ord}
    <3> HIDE DEF row
    <3> QED BY <2>1, <2>4, NextPlace
  <2>6. AnswerFollowsQuestion'
    BY <2>1, <2>2 DEF AnswerFollowsQuestion, Question
  <2> QED
    BY <2>1, <2>4, <2>5, <2>6 DEF ConversationTypeOK
<1>2. CASE ~Free(asked[t] + 1)
  BY <1>2 DEF Save, ConversationTypeOK, Gapless, AnswerFollowsQuestion, Ordinals
<1> QED
  BY <1>1, <1>2

\* The invariant is inductive: one step per transaction of a turn.
LEMMA StepInv == ConversationInv /\ [Next]_vars => ConversationInv'
<1> SUFFICES ASSUME ConversationInv, [Next]_vars PROVE ConversationInv'
  OBVIOUS
<1> USE ConversationAssumption DEF ConversationInv
<1> DEFINE Kept == UNCHANGED rows => /\ Gapless' /\ AnswerFollowsQuestion'
                                     /\ Ordinals' = Ordinals
<1>0. Kept
  BY DEF Gapless, AnswerFollowsQuestion, Ordinals
<1>1. CASE Delete
  <2>1. Ordinals' = {} /\ 1..0 = {}
    BY <1>1 DEF Delete, Ordinals
  <2>2. Gapless' /\ AnswerFollowsQuestion' /\ SummaryExact'
    BY <1>1, <2>1 DEF Delete, Gapless, AnswerFollowsQuestion, SummaryExact
  <2> QED
    BY <1>1, <2>2 DEF Delete, ConversationTypeOK, Reserved, Standing, FoldExact
<1>2. ASSUME NEW t \in Turns, ReadOrdinal(t) PROVE ConversationInv'
  <2>1. PICK n \in Ordinals \cup {0} : IsLast(n) /\ asked' = [asked EXCEPT ![t] = n + 1]
    BY <1>2 DEF ReadOrdinal
  <2>2. n \in Nat
    BY <2>1 DEF ConversationTypeOK, Ordinals, Row
  <2>3. ConversationTypeOK'
    BY <1>2, <2>1, <2>2 DEF ReadOrdinal, Goes, ConversationTypeOK, Phases
  <2>4. Reserved'
    BY <1>0, <1>2, <2>1, <2>2 DEF ReadOrdinal, Goes, Reserved, ConversationTypeOK
  <2>5. Standing' /\ FoldExact' /\ SummaryExact'
    BY <1>2, <2>1 DEF ReadOrdinal, Goes, Standing, FoldExact, SummaryExact, Question,
       ConversationTypeOK
  <2> QED
    <3>1. Gapless' /\ AnswerFollowsQuestion'
      BY <1>0, <1>2 DEF ReadOrdinal
    <3> QED
      BY <2>3, <2>4, <2>5, <3>1
<1>3. ASSUME NEW t \in Turns, Ask(t) PROVE ConversationInv'
  <2>1. CASE Free(asked[t])
    <3> DEFINE row == Question(t)
    <3>1. rows' = rows \cup {row} /\ asked[t] \in Nat
      BY <1>3, <2>1 DEF Ask, Question, ConversationTypeOK
    <3>2. row \in Row /\ row.ord \notin Ordinals /\ row.ord # 0
          /\ (row.ord = 1 \/ row.ord - 1 \in Ordinals)
      BY <1>3, <2>1, <3>1 DEF Ask, Row, Free, Reserved, Question
    <3>3. Gapless' /\ Ordinals' = Ordinals \cup {row.ord}
      <4> HIDE DEF row
      <4> QED BY <3>1, <3>2, NextPlace
    <3>4. AnswerFollowsQuestion'
      BY <3>1 DEF AnswerFollowsQuestion, Question
    <3>5. ConversationTypeOK'
      BY <1>3, <2>1, <3>1, <3>2 DEF Ask, Goes, ConversationTypeOK, Phases
    <3>6. Reserved'
      BY <1>3, <2>1, <3>3 DEF Ask, Goes, Reserved, ConversationTypeOK
    <3>7. Standing' /\ FoldExact' /\ SummaryExact'
      BY <1>3, <2>1, <3>1 DEF Ask, Goes, Standing, FoldExact, SummaryExact, Question,
         ConversationTypeOK
    <3> QED
      BY <3>3, <3>4, <3>5, <3>6, <3>7
  <2>2. CASE ~Free(asked[t])
    BY <1>0, <1>3, <2>2 DEF Ask, Goes, ConversationTypeOK, Phases, Reserved, Standing,
       FoldExact, SummaryExact, Question
  <2> QED
    BY <2>1, <2>2
<1>4. ASSUME NEW t \in Turns, LoadSummary(t) PROVE ConversationInv'
  BY <1>0, <1>4 DEF LoadSummary, Goes, ConversationTypeOK, Phases, Reserved, Standing,
     FoldExact, SummaryExact, Question
<1>5. ASSUME NEW t \in Turns, LoadWindow(t) PROVE ConversationInv'
  <2>1. Verbatim \subseteq Nat
    BY DEF Verbatim, Good, ConversationTypeOK, Row
  <2> QED
    BY <1>0, <1>5, <2>1 DEF LoadWindow, Goes, ConversationTypeOK, Phases, Reserved, Standing,
       FoldExact, SummaryExact, Question
<1>6. ASSUME NEW t \in Turns, Answer(t) PROVE ConversationInv'
  <2>1. /\ rows' \subseteq Row /\ rows \subseteq rows' /\ Ordinals \subseteq Ordinals'
        /\ Gapless' /\ AnswerFollowsQuestion'
    BY <1>6, SaveKeeps DEF Answer
  <2> QED
    BY <1>6, <2>1 DEF Answer, Goes, ConversationTypeOK, Phases, Reserved, Standing,
       FoldExact, SummaryExact, Question
<1>7. ASSUME NEW t \in Turns, FailTurn(t) PROVE ConversationInv'
  <2>1. /\ rows' \subseteq Row /\ rows \subseteq rows' /\ Ordinals \subseteq Ordinals'
        /\ Gapless' /\ AnswerFollowsQuestion'
    BY <1>7, SaveKeeps DEF FailTurn
  <2> QED
    BY <1>7, <2>1 DEF FailTurn, Goes, ConversationTypeOK, Phases, Reserved, Standing,
       FoldExact, SummaryExact, Question
<1>8. ASSUME NEW t \in Turns, CutOff(t) PROVE ConversationInv'
  BY <1>0, <1>8 DEF CutOff, Goes, ConversationTypeOK, Phases, Reserved, Standing,
     FoldExact, SummaryExact, Question
<1>9. ASSUME NEW t \in Turns, ReadSummary(t) PROVE ConversationInv'
  BY <1>0, <1>9 DEF ReadSummary, Goes, ConversationTypeOK, Phases, Reserved, Standing,
     FoldExact, SummaryExact, Question
<1>10. ASSUME NEW t \in Turns, ReadPending(t) PROVE ConversationInv'
  <2> DEFINE pending(n) == {m \in Ordinals : fold[t].mark < m /\ m + Window <= n}
  <2>1. PICK n \in Ordinals \cup {0} :
          /\ IsLast(n)
          /\ \/ /\ pending(n) # {}
                /\ fold' = [fold EXCEPT ![t] = [text |-> @.text \cup pending(n), mark |-> n - Window]]
                /\ Goes(t, "fold")
             \/ pending(n) = {} /\ Goes(t, "ended") /\ UNCHANGED fold
    BY <1>10 DEF ReadPending
  <2>2. n \in Nat /\ Ordinals \subseteq Nat /\ fold[t].mark \in Nat /\ fold[t].text \subseteq Nat
    BY DEF ConversationTypeOK, Ordinals, Row
  <2>3. Ordinals = 1..n
    <3>1. PICK k \in Ordinals \cup {0} : Ordinals = 1..k
      BY DEF Gapless
    <3>2. k = n
      BY <2>1, <2>2, <3>1 DEF IsLast
    <3> QED
      BY <3>1, <3>2
  <2>4. CASE pending(n) # {}
    <3> PICK m \in Ordinals : fold[t].mark < m /\ m + Window <= n
      BY <2>4
    <3>1. n - Window \in Nat /\ fold[t].mark < n - Window
      <4>1. m \in Nat /\ Window \in Nat /\ n \in Nat /\ fold[t].mark \in Nat
        BY <2>2
      <4> QED BY <4>1
    <3>2. pending(n) = (fold[t].mark + 1)..(n - Window)
      BY <2>2, <2>3, <3>1
    <3>3. fold[t].text = 1..fold[t].mark
      BY <1>10 DEF ReadPending, FoldExact
    <3>4. fold[t].text \cup pending(n) = 1..(n - Window)
      BY <2>2, <3>1, <3>2, <3>3
    <3>5. fold' = [fold EXCEPT ![t] = [text |-> 1..(n - Window), mark |-> n - Window]]
          /\ Goes(t, "fold")
      BY <2>1, <2>4, <3>4
    <3> QED
      BY <1>0, <1>10, <3>1, <3>5 DEF ReadPending, Goes, ConversationTypeOK, Phases, Reserved,
         Standing, FoldExact, SummaryExact, Question
  <2>5. CASE pending(n) = {}
    <3>1. Goes(t, "ended") /\ UNCHANGED fold
      BY <2>1, <2>5
    <3> QED
      BY <1>0, <1>10, <3>1 DEF ReadPending, Goes, ConversationTypeOK, Phases, Reserved,
         Standing, FoldExact, SummaryExact, Question
  <2> QED
    BY <2>4, <2>5
<1>11. ASSUME NEW t \in Turns, WriteSummary(t) PROVE ConversationInv'
  BY <1>0, <1>11 DEF WriteSummary, Goes, ConversationTypeOK, Phases, Reserved, Standing,
     FoldExact, SummaryExact, Question
<1>12. ASSUME NEW t \in Turns, CommitUpkeep(t) PROVE ConversationInv'
  <2>1. fold[t].text = 1..fold[t].mark /\ fold[t].text \subseteq Nat /\ fold[t].mark \in Nat
    BY <1>12 DEF CommitUpkeep, FoldExact, ConversationTypeOK
  <2> QED
    BY <1>0, <1>12, <2>1 DEF CommitUpkeep, Goes, ConversationTypeOK, Phases, Reserved, Standing,
       FoldExact, SummaryExact, Question
<1>13. CASE UNCHANGED vars
  BY <1>0, <1>13 DEF vars, ConversationTypeOK, Reserved, Standing, FoldExact, SummaryExact,
     Question
<1> QED
  BY <1>1, <1>2, <1>3, <1>4, <1>5, <1>6, <1>7, <1>8, <1>9, <1>10, <1>11, <1>12, <1>13
     DEF Next, TurnStep

\* All of it together is inductive.
THEOREM ConversationInvariant == Spec => []ConversationInv
  BY InitInv, StepInv, PTL DEF Spec

\* The ordinals of a conversation are 1..n, each used once (runner.py's unlocked
\* max(ordinal) + 1 and the assistant's reserved ordinal), whatever overlaps.
THEOREM GaplessHolds == Spec => []Gapless
<1>1. ConversationInv => Gapless
  BY DEF ConversationInv
<1> QED
  BY <1>1, ConversationInvariant, PTL

\* No answer ever stands after the question of another turn.
THEOREM AnswerFollowsQuestionHolds == Spec => []AnswerFollowsQuestion
<1>1. ConversationInv => AnswerFollowsQuestion
  BY DEF ConversationInv
<1> QED
  BY <1>1, ConversationInvariant, PTL

\* The rolling summary accounts for exactly the messages up to its mark, although
\* maybe_summarize reads, asks the model and writes without a lock.
THEOREM SummaryExactHolds == Spec => []SummaryExact
<1>1. ConversationInv => SummaryExact
  BY DEF ConversationInv
<1> QED
  BY <1>1, ConversationInvariant, PTL

-----------------------------------------------------------------------------
(* The memories. *)

\* The memories whose extraction is over: no other is ever in the table.
Born == {m \in MemoryIds : stage[m[1]] = "saved"}

\* Everything anybody has selected, loaded or found was in the table.
Seen(t) == known[t] \cup match[t] \cup recalled[t] \cup Restated(t)
OnlyBorn ==
  /\ live \subseteq {m \in Born : m[2] \in added[m[1]]}
  /\ \A t \in Chats : Seen(t) \subseteq Born
  /\ \A f \in Forgets : request[f].of \subseteq Born

\* An extraction goes through its candidates in order.
InOrder ==
  \A t \in Chats :
    /\ stage[t] \in {"new", "count", "answer", "upkeep"} => added[t] = {}
    /\ added[t] \subseteq 1 .. looked[t]
    /\ stage[t] = "load" => looked[t] < MaxCandidates

\* What an extraction adds is near nothing that was there when it began and still is.
AddsNews ==
  \A t \in Chats : \A k \in added[t], x \in known[t] \cap live :
    <<content[x], content[<<t, k>>]>> \in Near => k \in missed[t]

\* What a session would write is no more than the uses will be by then.
Honest(m) == useCount[m] <= uses[m] /\ (useCount[m] = 0 => uses[m] = 0)
HonestImage(t, m) ==
  image[t][m].times > 0 =>
    image[t][m].useCount > 0 /\ image[t][m].useCount <= uses[m] + image[t][m].times
AllHonest == \A m \in MemoryIds : Honest(m) /\ \A t \in Chats : HonestImage(t, m)

\* The inductive invariant.
MemoryInv ==
  MemoryTypeOK /\ OnlyBorn /\ InOrder /\ AddsNews /\ ForgottenStays /\ AllHonest

\* An empty table satisfies the invariant.
LEMMA MemoryInvInit == ASSUME MemoryInit PROVE MemoryInv
  <1> USE DEF MemoryInit, MemoryIds
  <1>1. MemoryTypeOK
    <2> DEFINE any == CHOOSE c \in Contents : TRUE
    <2> HIDE DEF any
    <2>0. any \in Contents
      BY MemoriesAssumption DEF any
    <2>1. content \in [MemoryIds -> Contents]
      BY <2>0 DEF any
    <2>2. image \in [Chats -> [MemoryIds -> Image]]
      BY DEF Image
    <2> QED BY <2>1, <2>2, MemoriesAssumption DEF MemoryTypeOK
  <1>2. OnlyBorn
    BY DEF OnlyBorn, Seen, Restated
  <1>3. InOrder
    BY DEF InOrder
  <1>4. AddsNews
    BY DEF AddsNews
  <1>5. ForgottenStays
    BY DEF ForgottenStays
  <1>6. AllHonest
    BY DEF AllHonest, Honest, HonestImage
  <1> QED BY <1>1, <1>2, <1>3, <1>4, <1>5, <1>6 DEF MemoryInv


\* Recalling selects what is in the table, and that is Born.
LEMMA RecallKeeps ==
  ASSUME MemoryInv, NEW t \in Chats, Recall(t) \/ CountUses(t)
  PROVE  MemoryInv'
  <1> USE DEF MemoryInv
  <1>1. PICK some \in SUBSET live, place \in {"count", "answer"} :
          /\ recalled' = [recalled EXCEPT ![t] = some] \/ recalled' = recalled
          /\ Enters(t, place)
    BY DEF Recall, CountUses
  <1>2. UNCHANGED <<live, content, useCount, uses, looked, match, image, added, known, missed, request>>
    BY DEF Recall, CountUses, Table, Extraction
  <1>3. stage[t] \in {"new", "count"}
    BY DEF Recall, CountUses
  <1>4. MemoryTypeOK'
    BY <1>1, <1>2, SMTT(30) DEF MemoryTypeOK, Enters
  <1>5. Born' = Born
    BY <1>1, <1>3 DEF MemoryTypeOK, Enters, Born, MemoryIds
  <1>6. OnlyBorn'
    <2>1. \A u \in Chats : recalled'[u] \subseteq recalled[u] \cup live
      BY <1>1 DEF MemoryTypeOK
    <2> QED BY <1>2, <1>5, <2>1 DEF OnlyBorn, Seen, Restated
  <1>7. InOrder'
    BY <1>1, <1>2, <1>3 DEF InOrder, MemoryTypeOK, Enters
  <1>8. AddsNews' /\ ForgottenStays' /\ AllHonest'
    BY <1>2 DEF AddsNews, ForgottenStays, AllHonest, Honest, HonestImage
  <1> QED BY <1>4, <1>6, <1>7, <1>8

\* The counts and their history go up together, or are rolled back together.
LEMMA AnswerDoneKeeps ==
  ASSUME MemoryInv, NEW t \in Chats, AnswerDone(t)
  PROVE  MemoryInv'
  <1> USE DEF MemoryInv
  <1>1. PICK place \in {"upkeep", "ended"} : Enters(t, place)
    BY DEF AnswerDone
  <1>2. UNCHANGED <<live, content, looked, match, image, added, known, missed, request>>
    BY DEF AnswerDone, Extraction
  <1>3. stage[t] = "answer" /\ recalled' = [recalled EXCEPT ![t] = {}]
    BY DEF AnswerDone
  <1>4. \A m \in MemoryIds :
          \/ useCount'[m] = useCount[m] + 1 /\ uses'[m] = uses[m] + 1
          \/ useCount'[m] = useCount[m] /\ uses'[m] = uses[m]
    BY DEF AnswerDone, MemoryTypeOK
  <1>5. MemoryTypeOK'
    <2> DEFINE more(f) == [m \in MemoryIds |-> f[m] + IF m \in recalled[t] THEN 1 ELSE 0]
    <2>0. \A f \in [MemoryIds -> Nat] : more(f) \in [MemoryIds -> Nat]
      OBVIOUS
    <2> HIDE DEF more
    <2>1a. useCount \in [MemoryIds -> Nat] /\ uses \in [MemoryIds -> Nat]
      BY DEF MemoryTypeOK
    <2>1b. (useCount' = more(useCount) /\ uses' = more(uses)) \/ UNCHANGED <<useCount, uses>>
      BY DEF AnswerDone, more
    <2>1. {useCount', uses'} \subseteq [MemoryIds -> Nat]
      BY <2>0, <2>1a, <2>1b
    <2> QED BY <1>1, <1>2, <1>3, <2>1 DEF MemoryTypeOK, Enters
  <1>6. Born' = Born
    BY <1>1, <1>3 DEF MemoryTypeOK, Enters, Born, MemoryIds
  <1>7. OnlyBorn'
    <2>1. \A u \in Chats : recalled'[u] \subseteq recalled[u]
      BY <1>3 DEF MemoryTypeOK
    <2> QED BY <1>2, <1>6, <2>1 DEF OnlyBorn, Seen, Restated
  <1>8. InOrder'
    BY <1>1, <1>2, <1>3 DEF InOrder, MemoryTypeOK, Enters
  <1>9. AddsNews' /\ ForgottenStays'
    BY <1>2 DEF AddsNews, ForgottenStays
  <1>10. AllHonest'
    <2> SUFFICES ASSUME NEW m \in MemoryIds
                 PROVE  Honest(m)' /\ \A u \in Chats : HonestImage(u, m)'
      BY DEF AllHonest
    <2>1. useCount[m] \in Nat /\ uses[m] \in Nat /\ Honest(m)
      BY DEF MemoryTypeOK, AllHonest
    <2>2. ASSUME NEW u \in Chats PROVE HonestImage(u, m)'
      <3>1. image[u][m] \in Image /\ HonestImage(u, m)
        BY DEF MemoryTypeOK, AllHonest
      <3> QED BY <1>2, <1>4, <2>1, <3>1 DEF HonestImage, Image
    <2> QED BY <1>4, <2>1, <2>2 DEF Honest
  <1> QED BY <1>5, <1>7, <1>8, <1>9, <1>10

\* An extraction that begins has added nothing.
LEMMA ExtractKeeps ==
  ASSUME MemoryInv, NEW t \in Chats, Extract(t)
  PROVE  MemoryInv'
  <1> USE DEF MemoryInv
  <1>1. /\ stage[t] = "upkeep" /\ Enters(t, "look")
        /\ known' = [known EXCEPT ![t] = live]
        /\ UNCHANGED <<live, content, useCount, uses, recalled, looked, match, image, added, missed, request>>
    BY DEF Extract, Table
  <1>2. MemoryTypeOK'
    BY <1>1 DEF MemoryTypeOK, Enters
  <1>3. Born' = Born
    BY <1>1 DEF MemoryTypeOK, Enters, Born, MemoryIds
  <1>4. OnlyBorn'
    <2>1. \A u \in Chats : known'[u] \subseteq known[u] \cup live
      BY <1>1 DEF MemoryTypeOK
    <2> QED BY <1>1, <1>3, <2>1 DEF OnlyBorn, Seen, Restated
  <1>5. InOrder' /\ added[t] = {}
    BY <1>1 DEF InOrder, MemoryTypeOK, Enters
  <1>6. AddsNews'
    <2>1. \A u \in Chats : u = t \/ known'[u] = known[u]
      BY <1>1 DEF MemoryTypeOK
    <2> QED BY <1>1, <1>5, <2>1 DEF AddsNews
  <1>7. ForgottenStays' /\ AllHonest'
    BY <1>1 DEF ForgottenStays, AllHonest, Honest, HonestImage
  <1> QED BY <1>2, <1>4, <1>5, <1>6, <1>7

\* A candidate is added when nothing in the table is near it; its content is written
\* for a memory that is not Born, so that no other one changes.
LEMMA LookKeeps ==
  ASSUME MemoryInv, NEW t \in Chats, Look(t)
  PROVE  MemoryInv'
  <1> DEFINE k == looked[t] + 1
  <1> USE DEF MemoryInv
  <1>1. /\ stage[t] = "look" /\ k \in 1 .. MaxCandidates /\ looked[t] \in Nat
        /\ UNCHANGED <<live, useCount, uses, recalled, image, known, missed, request>>
    BY MemoriesAssumption DEF Look, MemoryTypeOK
  <1>2. PICK c \in Contents :
          /\ content' = [content EXCEPT ![<<t, k>>] = c]
          /\ \/ /\ FindNear(t, c) = {}
                /\ added' = [added EXCEPT ![t] = @ \cup {k}]
                /\ looked' = [looked EXCEPT ![t] = k]
                /\ UNCHANGED <<stage, match>>
             \/ /\ \E m \in FindNear(t, c) : match' = [match EXCEPT ![t] = {m}]
                /\ Enters(t, "load")
                /\ UNCHANGED <<added, looked>>
    BY DEF Look
  <1>3. <<t, k>> \in MemoryIds \ Born
    BY <1>1 DEF MemoryIds, Born
  <1>4. MemoryTypeOK'
    <2>1. content' \in [MemoryIds -> Contents]
      BY <1>2, <1>3 DEF MemoryTypeOK
    <2>2. CASE FindNear(t, c) = {} /\ UNCHANGED <<stage, match>>
      <3>0. /\ looked \in [Chats -> 0 .. MaxCandidates]
            /\ added \in [Chats -> SUBSET (1 .. MaxCandidates)]
            /\ k \in 0 .. MaxCandidates /\ added[t] \cup {k} \in SUBSET (1 .. MaxCandidates)
        BY <1>1, MemoriesAssumption DEF MemoryTypeOK
      <3>a. \/ looked' = [looked EXCEPT ![t] = k] /\ added' = [added EXCEPT ![t] = @ \cup {k}]
            \/ looked' = looked /\ added' = added
        BY <1>2
      <3> HIDE DEF k
      <3>1. /\ looked' \in [Chats -> 0 .. MaxCandidates]
            /\ added' \in [Chats -> SUBSET (1 .. MaxCandidates)]
        BY <3>0, <3>a
      <3> QED BY <1>1, <2>1, <2>2, <3>1 DEF MemoryTypeOK
    <2>3. CASE Enters(t, "load") /\ UNCHANGED <<added, looked>>
      <3>0. match \in [Chats -> SUBSET MemoryIds] /\ live \subseteq MemoryIds
        BY DEF MemoryTypeOK
      <3>a. match' = match \/ \E m \in live : match' = [match EXCEPT ![t] = {m}]
        BY <1>2 DEF FindNear
      <3>1. match' \in [Chats -> SUBSET MemoryIds]
        BY <3>0, <3>a
      <3> QED BY <1>1, <2>1, <2>3, <3>1 DEF MemoryTypeOK, Enters
    <2> QED BY <1>2, <2>2, <2>3
  <1>5. Born' = Born
    BY <1>1, <1>2 DEF MemoryTypeOK, Enters, Born, MemoryIds
  <1>6. OnlyBorn'
    <2>0. match' = match \/ \E m \in live : match' = [match EXCEPT ![t] = {m}]
      BY <1>2 DEF FindNear
    <2>a. added' = added \/ added' = [added EXCEPT ![t] = @ \cup {k}]
      BY <1>2
    <2>b. match \in [Chats -> SUBSET MemoryIds] /\ added \in [Chats -> SUBSET (1 .. MaxCandidates)]
      BY DEF MemoryTypeOK
    <2>c. \A u \in Chats : match'[u] \subseteq match[u] \cup live
      BY <2>0, <2>b
    <2>d. \A u \in Chats : added[u] \subseteq added'[u]
      BY <2>a, <2>b
    <2>1. \A u \in Chats : match'[u] \subseteq match[u] \cup live /\ added[u] \subseteq added'[u]
      BY <2>c, <2>d
    <2>2. live' \subseteq {m \in Born : m[2] \in added'[m[1]]}
      BY <1>1, <2>1 DEF OnlyBorn, Born, MemoryIds
    <2> QED BY <1>1, <1>5, <2>1, <2>2 DEF OnlyBorn, Seen, Restated
  <1>7. InOrder'
    <2> SUFFICES ASSUME NEW u \in Chats
                 PROVE  /\ stage'[u] \in {"new", "count", "answer", "upkeep"} => added'[u] = {}
                        /\ added'[u] \subseteq 1 .. looked'[u]
                        /\ stage'[u] = "load" => looked'[u] < MaxCandidates
      BY DEF InOrder
    <2>1. CASE u # t
      BY <1>2, <2>1 DEF InOrder, MemoryTypeOK, Enters
    <2>2. CASE u = t
      BY <1>1, <1>2, <2>2, MemoriesAssumption DEF InOrder, MemoryTypeOK, Enters
    <2> QED BY <2>1, <2>2
  <1>8. AddsNews'
    <2> SUFFICES ASSUME NEW u \in Chats, NEW j \in added'[u], NEW x \in known[u] \cap live,
                        <<content'[x], content'[<<u, j>>]>> \in Near
                 PROVE  j \in missed[u]
      BY <1>1 DEF AddsNews
    <2>1. x \in MemoryIds /\ content'[x] = content[x]
      BY <1>2, <1>3 DEF MemoryTypeOK, OnlyBorn
    <2>2. CASE u = t /\ j = k /\ FindNear(t, c) = {}
      <3>1. content'[<<u, j>>] = c
        BY <1>2, <1>3, <2>2 DEF MemoryTypeOK
      <3> QED BY <2>1, <2>2, <3>1 DEF FindNear
    <2>3. CASE j \in added[u]
      <3>1. j \in 1 .. MaxCandidates /\ <<u, j>> \in MemoryIds /\ j <= looked[u]
        BY <2>3, MemoriesAssumption DEF MemoryTypeOK, InOrder, MemoryIds
      <3>2. <<u, j>> # <<t, k>>
        BY <1>1, <3>1
      <3>3. content'[<<u, j>>] = content[<<u, j>>]
        BY <1>2, <3>1, <3>2 DEF MemoryTypeOK
      <3> QED BY <2>1, <2>3, <3>3 DEF AddsNews
    <2>4. j \in added[u] \/ (u = t /\ j = k /\ FindNear(t, c) = {})
      <3>1. CASE FindNear(t, c) = {} /\ added' = [added EXCEPT ![t] = @ \cup {k}]
        BY <3>1 DEF MemoryTypeOK
      <3>2. CASE added' = added
        BY <3>2
      <3> QED BY <1>2, <3>1, <3>2
    <2> QED BY <2>2, <2>3, <2>4
  <1>9. ForgottenStays' /\ AllHonest'
    BY <1>1 DEF ForgottenStays, AllHonest, Honest, HonestImage
  <1> QED BY <1>4, <1>6, <1>7, <1>8, <1>9

\* The session's image of a memory that is restated once more.
LEMMA ReinforcedHonest ==
  ASSUME MemoryInv, NEW t \in Chats, NEW m \in MemoryIds
  PROVE  LET i == Reinforced(t, m) IN
         /\ i \in Image /\ i.times > 0
         /\ i.useCount > 0 /\ i.useCount <= uses[m] + i.times
  <1>1. /\ useCount[m] \in Nat /\ uses[m] \in Nat
        /\ image[t][m] \in Image
        /\ useCount[m] <= uses[m]
        /\ HonestImage(t, m)
    BY DEF MemoryInv, MemoryTypeOK, AllHonest, Honest
  <1>2. image[t][m].useCount \in Nat /\ image[t][m].times \in Nat
    BY <1>1 DEF Image
  <1> QED BY <1>1, <1>2 DEF Reinforced, Image, HonestImage

\* A candidate is added also when its match is gone, and then counts as missed.
LEMMA LoadKeeps ==
  ASSUME MemoryInv, NEW t \in Chats, Load(t)
  PROVE  MemoryInv'
  <1> DEFINE k == looked[t] + 1
  <1> USE DEF MemoryInv
  <1>1. /\ stage[t] = "load" /\ Enters(t, "look")
        /\ looked' = [looked EXCEPT ![t] = k]
        /\ match' = [match EXCEPT ![t] = {}]
        /\ UNCHANGED <<live, content, useCount, uses, recalled, known, request>>
    BY DEF Load, Table
  <1>2. PICK m \in match[t] :
          \/ /\ m \in live \/ image[t][m].times > 0
             /\ image' = [image EXCEPT ![t][m] = Reinforced(t, m)]
             /\ UNCHANGED <<added, missed>>
          \/ /\ m \notin live /\ image[t][m].times = 0
             /\ added' = [added EXCEPT ![t] = @ \cup {k}]
             /\ missed' = [missed EXCEPT ![t] = @ \cup {k}]
             /\ UNCHANGED image
    BY DEF Load
  <1>3. looked[t] \in Nat /\ k \in 1 .. MaxCandidates /\ m \in MemoryIds /\ m \in Born
    BY <1>1, MemoriesAssumption DEF MemoryTypeOK, InOrder, OnlyBorn, Seen
  <1>4. /\ looked \in [Chats -> 0 .. MaxCandidates]
        /\ added \in [Chats -> SUBSET (1 .. MaxCandidates)]
        /\ missed \in [Chats -> SUBSET (1 .. MaxCandidates)]
        /\ match \in [Chats -> SUBSET MemoryIds]
        /\ image \in [Chats -> [MemoryIds -> Image]]
        /\ stage \in [Chats -> {"new", "count", "answer", "upkeep", "look", "load", "saved", "ended"}]
    BY DEF MemoryTypeOK
  <1>5. image' = image \/ image' = [image EXCEPT ![t][m] = Reinforced(t, m)]
    BY <1>2
  <1>6. \/ added' = added /\ missed' = missed
        \/ /\ added' = [added EXCEPT ![t] = @ \cup {k}]
           /\ missed' = [missed EXCEPT ![t] = @ \cup {k}]
    BY <1>2
  <1>7. MemoryTypeOK'
    <2>1. looked' \in [Chats -> 0 .. MaxCandidates]
      BY <1>1, <1>3, <1>4
    <2>2. added[t] \cup {k} \in SUBSET (1 .. MaxCandidates) /\ missed[t] \cup {k} \in SUBSET (1 .. MaxCandidates)
      BY <1>3, <1>4
    <2>3. /\ added' \in [Chats -> SUBSET (1 .. MaxCandidates)]
          /\ missed' \in [Chats -> SUBSET (1 .. MaxCandidates)]
      <3> HIDE DEF k
      <3> QED BY <1>4, <1>6, <2>2
    <2>4. match' \in [Chats -> SUBSET MemoryIds]
      BY <1>1, <1>4
    <2>5. image' \in [Chats -> [MemoryIds -> Image]]
      <3>1. Reinforced(t, m) \in Image
        BY <1>3, ReinforcedHonest
      <3> DEFINE r == Reinforced(t, m)
      <3>2. image' = image \/ image' = [image EXCEPT ![t] = [image[t] EXCEPT ![m] = r]]
        BY <1>5
      <3>3. [image[t] EXCEPT ![m] = r] \in [MemoryIds -> Image]
        BY <1>3, <1>4, <3>1
      <3> HIDE DEF r
      <3> QED BY <1>4, <3>2, <3>3
    <2>6. stage' \in [Chats -> {"new", "count", "answer", "upkeep", "look", "load", "saved", "ended"}]
      BY <1>1, <1>4 DEF Enters
    <2> QED BY <1>1, <2>1, <2>3, <2>4, <2>5, <2>6 DEF MemoryTypeOK
  <1>8. Born' = Born
    BY <1>1, <1>4 DEF Enters, Born, MemoryIds
  <1>9. OnlyBorn'
    <2>1. \A u \in Chats : match'[u] \subseteq match[u]
      BY <1>1, <1>4
    <2>2. \A u \in Chats : added[u] \subseteq added'[u]
      BY <1>4, <1>6
    <2>3. \A u \in Chats : Restated(u)' \subseteq Restated(u) \cup {m}
      BY <1>3, <1>4, <1>5 DEF Restated
    <2>4. live' \subseteq {x \in Born' : x[2] \in added'[x[1]]}
      BY <1>1, <1>8, <2>2 DEF OnlyBorn, Born, MemoryIds
    <2>5. \A u \in Chats : Seen(u)' \subseteq Born'
      BY <1>1, <1>3, <1>8, <2>1, <2>3 DEF OnlyBorn, Seen
    <2> QED BY <1>1, <1>8, <2>4, <2>5 DEF OnlyBorn
  <1>10. InOrder'
    <2> SUFFICES ASSUME NEW u \in Chats
                 PROVE  /\ stage'[u] \in {"new", "count", "answer", "upkeep"} => added'[u] = {}
                        /\ added'[u] \subseteq 1 .. looked'[u]
                        /\ stage'[u] = "load" => looked'[u] < MaxCandidates
      BY DEF InOrder
    <2>1. CASE u # t
      BY <1>1, <1>4, <1>6, <2>1 DEF InOrder, Enters
    <2>2. CASE u = t
      BY <1>1, <1>3, <1>4, <1>6, <2>2 DEF InOrder, Enters
    <2> QED BY <2>1, <2>2
  <1>11. AddsNews'
    <2> SUFFICES ASSUME NEW u \in Chats, NEW j \in added'[u], NEW x \in known[u] \cap live,
                        <<content[x], content[<<u, j>>]>> \in Near
                 PROVE  j \in missed'[u]
      BY <1>1 DEF AddsNews
    <2>1. missed[u] \subseteq missed'[u]
      BY <1>4, <1>6
    <2>2. j \in added[u] \/ j \in missed'[u]
      BY <1>4, <1>6
    <2> QED BY <2>1, <2>2 DEF AddsNews
  <1>12. ForgottenStays'
    BY <1>1 DEF ForgottenStays
  <1>13. AllHonest'
    <2> SUFFICES ASSUME NEW x \in MemoryIds, NEW u \in Chats
                 PROVE  Honest(x)' /\ HonestImage(u, x)'
      BY DEF AllHonest
    <2>1. Honest(x)' /\ HonestImage(u, x)
      BY <1>1 DEF AllHonest, Honest
    <2>2. CASE image'[u][x] = image[u][x]
      BY <1>1, <2>1, <2>2 DEF HonestImage
    <2>3. CASE u = t /\ x = m /\ image'[u][x] = Reinforced(t, m)
      BY <1>1, <1>3, <2>1, <2>3, ReinforcedHonest DEF HonestImage
    <2>4. image'[u][x] = image[u][x] \/ (u = t /\ x = m /\ image'[u][x] = Reinforced(t, m))
      BY <1>3, <1>4, <1>5
    <2> QED BY <2>1, <2>2, <2>3, <2>4
  <1> QED BY <1>7, <1>9, <1>10, <1>11, <1>12, <1>13

\* The commit of an extraction adds what its turn alone could add, and no use is lost
\* or invented between the image and the row.
LEMMA CommitKeeps ==
  ASSUME MemoryInv, NEW t \in Chats, Commit(t)
  PROVE  MemoryInv'
  <1> USE DEF MemoryInv
  <1>1. /\ stage[t] = "look"
        /\ UNCHANGED <<content, recalled, looked, match, image, added, known, missed, request>>
    BY DEF Commit, Extraction
  <1>2. /\ stage \in [Chats -> {"new", "count", "answer", "upkeep", "look", "load", "saved", "ended"}]
        /\ image \in [Chats -> [MemoryIds -> Image]]
        /\ useCount \in [MemoryIds -> Nat] /\ uses \in [MemoryIds -> Nat]
        /\ added \in [Chats -> SUBSET (1 .. MaxCandidates)]
        /\ live \subseteq MemoryIds
    BY DEF MemoryTypeOK
  <1>3. New(t) \subseteq MemoryIds \ Born
    BY <1>1, <1>2 DEF New, Born, MemoryIds
  <1>4. CASE Restated(t) \subseteq live
    <2>1. /\ live' = live \cup New(t)
          /\ useCount' = [m \in MemoryIds |-> IF m \in Restated(t) THEN image[t][m].useCount ELSE useCount[m]]
          /\ uses' = [m \in MemoryIds |-> uses[m] + image[t][m].times]
          /\ Enters(t, "saved")
      BY <1>4 DEF Commit, Written
    <2>2. \A m \in MemoryIds : image[t][m].times \in Nat /\ image[t][m].useCount \in Nat
      BY <1>2 DEF Image
    <2>3. MemoryTypeOK'
      <3>1. useCount' \in [MemoryIds -> Nat] /\ uses' \in [MemoryIds -> Nat]
        BY <1>2, <2>1, <2>2
      <3>2. live' \subseteq MemoryIds
        BY <1>2, <1>3, <2>1
      <3>3. stage' \in [Chats -> {"new", "count", "answer", "upkeep", "look", "load", "saved", "ended"}]
        BY <1>2, <2>1 DEF Enters
      <3> QED BY <1>1, <3>1, <3>2, <3>3 DEF MemoryTypeOK
    <2>4. Born \subseteq Born' /\ New(t) \subseteq Born'
      BY <1>1, <1>2, <1>3, <2>1 DEF Enters, Born, MemoryIds, New
    <2>5. OnlyBorn'
      <3>1. live' \subseteq {m \in Born' : m[2] \in added[m[1]]}
        BY <2>1, <2>4 DEF OnlyBorn, New
      <3>2. \A u \in Chats : Seen(u)' = Seen(u)
        BY <1>1 DEF Seen, Restated
      <3> QED BY <1>1, <2>4, <3>1, <3>2 DEF OnlyBorn
    <2>6. InOrder'
      BY <1>1, <1>2, <2>1 DEF InOrder, Enters
    <2>7. AddsNews'
      <3>1. \A u \in Chats : known[u] \cap live' \subseteq known[u] \cap live
        BY <1>3, <2>1 DEF OnlyBorn, Seen
      <3> QED BY <1>1, <3>1 DEF AddsNews
    <2>8. ForgottenStays'
      BY <1>1, <1>3, <2>1 DEF ForgottenStays, OnlyBorn
    <2>9. AllHonest'
      <3> SUFFICES ASSUME NEW m \in MemoryIds, NEW u \in Chats
                   PROVE  Honest(m)' /\ HonestImage(u, m)'
        BY DEF AllHonest
      <3>1. /\ uses[m] \in Nat /\ useCount[m] \in Nat /\ image[u][m] \in Image
            /\ Honest(m) /\ HonestImage(u, m) /\ HonestImage(t, m)
        BY <1>2 DEF AllHonest
      <3>2. uses'[m] = uses[m] + image[t][m].times
        BY <2>1
      <3>3. Honest(m)'
        <4>1. CASE m \in Restated(t)
          BY <2>1, <2>2, <3>1, <3>2, <4>1 DEF Honest, HonestImage, Restated
        <4>2. CASE m \notin Restated(t)
          <5>1. image[t][m].times = 0
            BY <2>2, <4>2 DEF Restated
          <5> QED BY <2>1, <3>1, <3>2, <4>2, <5>1 DEF Honest
        <4> QED BY <4>1, <4>2
      <3>4. HonestImage(u, m)'
        BY <1>1, <2>2, <3>1, <3>2 DEF HonestImage, Image
      <3> QED BY <3>3, <3>4
    <2> QED BY <2>3, <2>5, <2>6, <2>7, <2>8, <2>9
  <1>5. CASE ~(Restated(t) \subseteq live)
    <2>1. Enters(t, "ended") /\ UNCHANGED <<live, useCount, uses>>
      BY <1>5 DEF Commit
    <2>2. MemoryTypeOK'
      BY <1>1, <2>1 DEF MemoryTypeOK, Enters
    <2>3. Born' = Born
      BY <1>1, <1>2, <2>1 DEF Enters, Born, MemoryIds
    <2>4. OnlyBorn'
      BY <1>1, <2>1, <2>3 DEF OnlyBorn, Seen, Restated
    <2>5. InOrder'
      BY <1>1, <1>2, <2>1 DEF InOrder, Enters
    <2>6. AddsNews' /\ ForgottenStays' /\ AllHonest'
      BY <1>1, <2>1 DEF AddsNews, ForgottenStays, AllHonest, Honest, HonestImage
    <2> QED BY <2>2, <2>4, <2>5, <2>6
  <1> QED BY <1>4, <1>5

\* A turn that is cut off leaves the table as it is.
LEMMA GiveUpKeeps ==
  ASSUME MemoryInv, NEW t \in Chats, GiveUp(t)
  PROVE  MemoryInv'
  <1> USE DEF MemoryInv
  <1>1. /\ stage[t] \notin {"saved"} /\ Enters(t, "ended")
        /\ recalled' = [recalled EXCEPT ![t] = {}]
        /\ UNCHANGED <<live, content, useCount, uses, looked, match, image, added, known, missed, request>>
    BY DEF GiveUp, Table, Extraction
  <1>2. MemoryTypeOK'
    BY <1>1 DEF MemoryTypeOK, Enters
  <1>3. Born' = Born
    BY <1>1 DEF MemoryTypeOK, Enters, Born, MemoryIds
  <1>4. OnlyBorn'
    <2>1. \A u \in Chats : recalled'[u] \subseteq recalled[u]
      BY <1>1 DEF MemoryTypeOK
    <2> QED BY <1>1, <1>3, <2>1 DEF OnlyBorn, Seen, Restated
  <1>5. InOrder'
    BY <1>1 DEF InOrder, MemoryTypeOK, Enters
  <1>6. AddsNews' /\ ForgottenStays' /\ AllHonest'
    BY <1>1 DEF AddsNews, ForgottenStays, AllHonest, Honest, HonestImage
  <1> QED BY <1>2, <1>4, <1>5, <1>6

\* A request to forget only takes memories away.
LEMMA RequestKeeps ==
  ASSUME MemoryInv, NEW f \in Forgets,
         SelectMemories(f) \/ DeleteMemories(f) \/ ForgetFails(f)
  PROVE  MemoryInv'
  <1> USE DEF MemoryInv
  <1>1. UNCHANGED <<content, useCount, uses, stage, recalled, looked, match, image, added, known, missed>>
    BY DEF SelectMemories, DeleteMemories, ForgetFails, Table, Extraction
  <1>2. PICK of \in SUBSET MemoryIds, step \in {"delete", "done", "failed"} :
          /\ Selects(f, step, of)
          /\ of \subseteq live \/ of = request[f].of
          /\ \/ live' = live /\ step # "done"
             \/ live' = live \ of /\ step = "done"
    <2>1. request[f].of \in SUBSET MemoryIds /\ live \in SUBSET MemoryIds
      BY DEF MemoryTypeOK
    <2>2. CASE SelectMemories(f)
      <3>1. PICK of \in SUBSET live : Selects(f, "delete", of)
        BY <2>2 DEF SelectMemories
      <3> QED BY <2>1, <2>2, <3>1 DEF SelectMemories, Table
    <2>3. CASE DeleteMemories(f)
      BY <2>1, <2>3 DEF DeleteMemories
    <2>4. CASE ForgetFails(f)
      BY <2>1, <2>4 DEF ForgetFails, Table
    <2> QED BY <2>2, <2>3, <2>4
  <1>3. live' \subseteq live
    BY <1>2
  <1>4. \A g \in Forgets : request'[g] = IF g = f THEN [step |-> step, of |-> of] ELSE request[g]
    BY <1>2 DEF Selects, MemoryTypeOK
  <1>5. MemoryTypeOK'
    <2>1. request' \in [Forgets -> [step : {"new", "delete", "done", "failed"}, of : SUBSET MemoryIds]]
      BY <1>2 DEF Selects, MemoryTypeOK
    <2> QED BY <1>1, <1>3, <2>1 DEF MemoryTypeOK
  <1>6. Born' = Born
    BY <1>1 DEF Born
  <1>7. OnlyBorn'
    BY <1>1, <1>2, <1>3, <1>4, <1>6 DEF OnlyBorn, Seen, Restated
  <1>8. InOrder' /\ AllHonest'
    BY <1>1 DEF InOrder, AllHonest, Honest, HonestImage
  <1>9. AddsNews'
    BY <1>1, <1>3 DEF AddsNews
  <1>10. ForgottenStays'
    BY <1>2, <1>3, <1>4 DEF ForgottenStays
  <1> QED BY <1>5, <1>7, <1>8, <1>9, <1>10

\* Every step keeps the invariant.
LEMMA MemoryInvStep == ASSUME MemoryInv, [MemoryNext]_memoryVars PROVE MemoryInv'
  <1>1. CASE UNCHANGED memoryVars
    <2>1. UNCHANGED <<live, content, useCount, uses, stage, recalled, looked, match, image,
                      added, known, missed, request>>
      BY <1>1 DEF memoryVars
    <2>2. Born' = Born
      BY <2>1 DEF Born
    <2>3. MemoryTypeOK' /\ OnlyBorn' /\ InOrder'
      BY <2>1, <2>2 DEF MemoryInv, MemoryTypeOK, OnlyBorn, InOrder, Seen, Restated
    <2>4. AddsNews' /\ ForgottenStays' /\ AllHonest'
      BY <2>1 DEF MemoryInv, AddsNews, ForgottenStays, AllHonest, Honest, HonestImage
    <2> QED BY <2>3, <2>4 DEF MemoryInv
  <1>2. ASSUME NEW t \in Chats,
               Recall(t) \/ CountUses(t) \/ AnswerDone(t) \/ Extract(t) \/ Look(t) \/ Load(t)
                 \/ Commit(t) \/ GiveUp(t)
        PROVE  MemoryInv'
    BY <1>2, RecallKeeps, AnswerDoneKeeps, ExtractKeeps, LookKeeps, LoadKeeps, CommitKeeps, GiveUpKeeps
  <1> QED BY <1>1, <1>2, RequestKeeps DEF MemoryNext

\* The invariant of the long-term memories, from which the others follow.
THEOREM MemoriesInvariant == MemorySpec => []MemoryInv
  <1> QED BY MemoryInvInit, MemoryInvStep, PTL DEF MemorySpec

\* A deletion is final, however many extractions had loaded the memory when it was
\* made (api/routes/memories.py:41-67).
THEOREM ForgottenStaysHolds == MemorySpec => []ForgottenStays
  <1>1. MemoryInv => ForgottenStays
    BY DEF MemoryInv
  <1> QED BY <1>1, MemoriesInvariant, PTL

\* What is known is restated, not remembered again: duplicates come of extractions that
\* overlap, and of one extraction (memory.py:205-225).
THEOREM NoNeedlessDuplicateHolds == MemorySpec => []NoNeedlessDuplicate
  <1>1. ASSUME MemoryInv PROVE NoNeedlessDuplicate
    <2> SUFFICES ASSUME NEW x \in live, NEW y \in live, <<content[x], content[y]>> \in Near,
                        x \in known[y[1]]
                 PROVE  y[2] \in missed[y[1]]
      BY DEF NoNeedlessDuplicate
    <2>1. y[1] \in Chats /\ y[2] \in added[y[1]] /\ y = <<y[1], y[2]>>
      BY <1>1 DEF MemoryInv, MemoryTypeOK, OnlyBorn, MemoryIds
    <2> QED BY <1>1, <2>1 DEF MemoryInv, AddsNews
  <1> QED BY <1>1, MemoriesInvariant, PTL

\* Whatever updates of one row are lost, its count of uses is never too high, and shows
\* a memory that was used as used (memory.py:210, 294-298).
THEOREM CountsHonestHolds == MemorySpec => []CountsHonest
  <1>1. MemoryInv => CountsHonest
    BY DEF MemoryInv, MemoryTypeOK, AllHonest, Honest, CountsHonest
  <1> QED BY <1>1, MemoriesInvariant, PTL
=============================================================================
