------------------------------- MODULE Memories -------------------------------
(***************************************************************************)
(* A user's long-term memories (services/memory.py, api/routes/memories.py)*)
(* under any number of turns and requests to forget. A turn recalls        *)
(* memories and counts their use in the transaction of its graph, which    *)
(* stays open until the answer is complete; after it, an extraction looks  *)
(* each candidate up and reinforces what it finds, or adds it. A request   *)
(* deletes one memory or all of them.                                      *)
(*                                                                         *)
(* As in Conversation, a SELECT sees what is committed (READ COMMITTED)    *)
(* and a commit is one step; an UPDATE or DELETE waits for the rows that   *)
(* an open transaction has written. The session flushes nothing before it  *)
(* commits, and does not load again what it has loaded.                    *)
(***************************************************************************)
EXTENDS Integers, FiniteSets

CONSTANTS
  Chats,         \* the turns of the user, in any conversation
  Forgets,       \* the requests to forget
  Contents,      \* what may be remembered
  Near,          \* the pairs of contents within the threshold of each other
  MaxCandidates, \* of an extraction: 5
  MaxRecalled,   \* settings.max_long_term_memories
  MayFail        \* whether turns and requests may fail

ASSUME MemoriesAssumption ==
  /\ Contents # {} /\ {MaxCandidates, MaxRecalled} \subseteq Nat
  /\ \A c, d \in Contents : <<c, d>> \in Near => <<d, c>> \in Near
  /\ MayFail \in BOOLEAN

VARIABLES
  live,     \* the memories in the table; <<t, k>> is the candidate k of turn t
  content,  \* per memory; its salience, on which no step depends, is left out
  useCount, \* per memory
  uses,     \* per memory: how often a commit was to count a use of it (history)
  stage,    \* per turn: what it does next
  recalled, \* per turn: the memories it has recalled
  looked,   \* per turn: how many candidates it has dealt with
  match,    \* per turn: the ids (at most one) that its lookup found
  image,    \* per turn: what its session has of the memories it restates
  added,    \* per turn: the candidates that it adds
  known,    \* per turn: the memories there when its extraction began (history)
  missed,   \* per turn: the candidates whose match was gone when loaded (history)
  request   \* per request to forget: its step and what it has selected

memoryVars == <<live, content, useCount, uses, stage, recalled, looked, match, image,
                added, known, missed, request>>

MemoryIds == Chats \X (1 .. MaxCandidates)

\* `times` is how often the turn restated it: 0 when it is not loaded.
Image == [useCount : Nat, times : Nat]

MemoryTypeOK ==
  /\ live \subseteq MemoryIds /\ content \in [MemoryIds -> Contents]
  /\ {useCount, uses} \subseteq [MemoryIds -> Nat]
  /\ stage \in [Chats -> {"new", "count", "answer", "upkeep", "look", "load", "saved", "ended"}]
  /\ {recalled, match, known} \subseteq [Chats -> SUBSET MemoryIds]
  /\ looked \in [Chats -> 0 .. MaxCandidates]
  /\ image \in [Chats -> [MemoryIds -> Image]]
  /\ {added, missed} \subseteq [Chats -> SUBSET (1 .. MaxCandidates)]
  /\ request \in [Forgets -> [step : {"new", "delete", "done", "failed"}, of : SUBSET MemoryIds]]

MemoryInit ==
  /\ live = {} /\ content \in [MemoryIds -> {CHOOSE c \in Contents : TRUE}]
  /\ useCount = [m \in MemoryIds |-> 0] /\ uses = [m \in MemoryIds |-> 0]
  /\ stage = [t \in Chats |-> "new"] /\ looked = [t \in Chats |-> 0]
  /\ recalled = [t \in Chats |-> {}] /\ match = recalled /\ known = recalled
  /\ added = recalled /\ missed = recalled
  /\ image = [t \in Chats |-> [m \in MemoryIds |-> [useCount |-> 0, times |-> 0]]]
  /\ request = [f \in Forgets |-> [step |-> "new", of |-> {}]]

Enters(t, place) == stage' = [stage EXCEPT ![t] = place]

\* No answer under way has written any of these rows.
Unlocked(rows) == \A t \in Chats : stage[t] = "answer" => recalled[t] \cap rows = {}

-----------------------------------------------------------------------------
(* recall_long_term, and the transaction that it is in. *)

Table == <<live, content, useCount, uses>>
Extraction == <<looked, match, image, added, known, missed>>

\* The nearest ones, salient ones first: whichever they are. An embedding that fails
\* is no memory recalled.
Recall(t) ==
  /\ stage[t] = "new"
  /\ \/ \E rows \in SUBSET live :
          /\ rows = live \/ Cardinality(rows) = MaxRecalled
          /\ Cardinality(rows) <= MaxRecalled
          /\ recalled' = [recalled EXCEPT ![t] = rows]
          /\ Enters(t, "count")
     \/ MayFail /\ Enters(t, "answer") /\ UNCHANGED recalled
  /\ UNCHANGED <<Table, Extraction, request>>

\* The UPDATE of those that are still there.
CountUses(t) ==
  /\ stage[t] = "count"
  /\ Unlocked(recalled[t])
  /\ recalled' = [recalled EXCEPT ![t] = @ \cap live]
  /\ Enters(t, "answer")
  /\ UNCHANGED <<Table, Extraction, request>>

\* The graph is done: the transaction is committed, or rolled back after an error.
\* There is no upkeep after an answer without text.
AnswerDone(t) ==
  /\ stage[t] = "answer"
  /\ \/ /\ useCount' = [m \in MemoryIds |-> useCount[m] + IF m \in recalled[t] THEN 1 ELSE 0]
        /\ uses' = [m \in MemoryIds |-> uses[m] + IF m \in recalled[t] THEN 1 ELSE 0]
     \/ MayFail /\ UNCHANGED <<useCount, uses>>
  /\ recalled' = [recalled EXCEPT ![t] = {}]
  /\ Enters(t, "upkeep") \/ Enters(t, "ended")
  /\ UNCHANGED <<live, content, Extraction, request>>

-----------------------------------------------------------------------------
(* extract_long_term. *)

Extract(t) ==
  /\ stage[t] = "upkeep"
  /\ known' = [known EXCEPT ![t] = live]
  /\ Enters(t, "look")
  /\ UNCHANGED <<Table, recalled, looked, match, image, added, missed, request>>

\* Mutant: only the first candidate is looked up.
FindNearFirst(t, c) ==
  {m \in live : looked[t] = 0 /\ <<content[m], c>> \in Near}
\* The live memories within the threshold; the nearest of them is the one found.
FindNear(t, c) == {m \in live : <<content[m], c>> \in Near}

\* The next candidate, and the SELECT of _find_near_duplicate.
Look(t) ==
  LET k == looked[t] + 1 IN
  /\ stage[t] = "look" /\ k <= MaxCandidates
  /\ \E c \in Contents :
       /\ content' = [content EXCEPT ![<<t, k>>] = c]
       /\ \/ /\ FindNear(t, c) = {}
             /\ added' = [added EXCEPT ![t] = @ \cup {k}]
             /\ looked' = [looked EXCEPT ![t] = k]
             /\ UNCHANGED <<stage, match>>
          \/ /\ \E m \in FindNear(t, c) : match' = [match EXCEPT ![t] = {m}]
             /\ Enters(t, "load")
             /\ UNCHANGED <<added, looked>>
  /\ UNCHANGED <<live, useCount, uses, recalled, image, known, missed, request>>

\* session.get of the match: the object the session has, or else the row, which is
\* reinforced; a row that is gone is no duplicate.
Reinforced(t, m) ==
  [useCount |-> 1 + IF image[t][m].times > 0 THEN image[t][m].useCount ELSE useCount[m],
   times |-> image[t][m].times + 1]
Load(t) ==
  LET k == looked[t] + 1 IN
  /\ stage[t] = "load"
  /\ \E m \in match[t] :
       \/ /\ m \in live \/ image[t][m].times > 0
          /\ image' = [image EXCEPT ![t][m] = Reinforced(t, m)]
          /\ UNCHANGED <<added, missed>>
       \/ /\ m \notin live /\ image[t][m].times = 0
          /\ added' = [added EXCEPT ![t] = @ \cup {k}]
          /\ missed' = [missed EXCEPT ![t] = @ \cup {k}]
          /\ UNCHANGED image
  /\ looked' = [looked EXCEPT ![t] = k]
  /\ match' = [match EXCEPT ![t] = {}]
  /\ Enters(t, "look")
  /\ UNCHANGED <<Table, recalled, known, request>>

Restated(t) == {m \in MemoryIds : image[t][m].times > 0}
New(t) == {t} \X added[t]

\* Mutant: the use is counted on top of what the session has counted.
WrittenTwice(t, m) == image[t][m].useCount + image[t][m].times
Written(t, m) == image[t][m].useCount

\* Mutant: a row that is gone is inserted again.
CommitMerging(t) ==
  /\ stage[t] = "look"
  /\ Unlocked(Restated(t))
  /\ live' = live \cup New(t) \cup Restated(t)
  /\ Enters(t, "saved")
  /\ UNCHANGED <<content, useCount, uses, recalled, Extraction, request>>

\* The commit after the last candidate: the UPDATEs write what the session has, and
\* if one of their rows is gone everything is rolled back.
Commit(t) ==
  /\ stage[t] = "look"
  /\ Unlocked(Restated(t))
  /\ \/ /\ Restated(t) \subseteq live
        /\ live' = live \cup New(t)
        /\ useCount' = [m \in MemoryIds |->
                          IF m \in Restated(t) THEN Written(t, m) ELSE useCount[m]]
        /\ uses' = [m \in MemoryIds |-> uses[m] + image[t][m].times]
        /\ Enters(t, "saved")
     \/ /\ ~(Restated(t) \subseteq live)
        /\ Enters(t, "ended")
        /\ UNCHANGED <<live, useCount, uses>>
  /\ UNCHANGED <<content, recalled, Extraction, request>>

\* The turn was cut off or something of it raised: its transaction is rolled back.
GiveUp(t) ==
  /\ MayFail
  /\ stage[t] \notin {"new", "saved", "ended"}
  /\ Enters(t, "ended")
  /\ recalled' = [recalled EXCEPT ![t] = {}]
  /\ UNCHANGED <<Table, Extraction, request>>

-----------------------------------------------------------------------------
(* delete_memory and clear_memories. *)

Selects(f, place, rows) == request' = [request EXCEPT ![f] = [step |-> place, of |-> rows]]

SelectMemories(f) ==
  /\ request[f].step = "new"
  /\ \/ \E m \in live : Selects(f, "delete", {m})
     \/ Selects(f, "delete", live)
  /\ UNCHANGED <<Table, stage, recalled, Extraction>>

\* The DELETE of those that are still there, and the commit.
DeleteMemories(f) ==
  /\ request[f].step = "delete"
  /\ Unlocked(request[f].of)
  /\ live' = live \ request[f].of
  /\ Selects(f, "done", request[f].of)
  /\ UNCHANGED <<content, useCount, uses, stage, recalled, Extraction>>

ForgetFails(f) ==
  /\ MayFail
  /\ request[f].step = "delete"
  /\ Selects(f, "failed", request[f].of)
  /\ UNCHANGED <<Table, stage, recalled, Extraction>>

MemoryNext ==
  \/ \E t \in Chats :
       \/ Recall(t) \/ CountUses(t) \/ AnswerDone(t)
       \/ Extract(t) \/ Look(t) \/ Load(t) \/ Commit(t) \/ GiveUp(t)
  \/ \E f \in Forgets : SelectMemories(f) \/ DeleteMemories(f) \/ ForgetFails(f)

MemorySpec == MemoryInit /\ [][MemoryNext]_memoryVars

-----------------------------------------------------------------------------
(* What a user may rely on. *)

\* What a request to forget selected stays forgotten, whatever the extractions that
\* had loaded it write afterwards (api/routes/memories.py:41-67, memory.py:205-210).
ForgottenStays ==
  \A f \in Forgets : request[f].step = "done" => request[f].of \cap live = {}

\* "Same ground being restated - reinforce instead of duplicating" (memory.py:208): two
\* memories that say the same come of one extraction or of two that overlapped,
\* except where a lookup's match was deleted before it was loaded.
NoNeedlessDuplicate ==
  \A x, y \in live :
    x # y /\ <<content[x], content[y]>> \in Near => x \notin known[y[1]] \/ y[2] \in missed[y[1]]

\* Concurrent counting may lose uses, and never invents one: a count is at most the
\* number of uses, and is zero only without any (memory.py:210, 294-298).
CountsHonest ==
  \A m \in live : useCount[m] <= uses[m] /\ (useCount[m] = 0 => uses[m] = 0)
=============================================================================
