------------------------------- MODULE ToolCalls -------------------------------
(***************************************************************************)
(* The tool calls of a turn, from the provider's stream to the next        *)
(* request (services/llm.py, agent/graph.py, tools/registry.py): fragments *)
(* of several calls arrive mixed and are put together, the calls run, and  *)
(* the request after that replays them with their results, which are       *)
(* numbered on in the list of sources. Both APIs of the provider are here; *)
(* AgentTurn has the loop around it, with its steps, failures and frames.  *)
(*                                                                         *)
(* A call is named by its generation and its place in it. Its arguments    *)
(* are JSON in fragments numbered from 1; less than all of them is no JSON.*)
(***************************************************************************)
EXTENDS Integers, Sequences, FiniteSets, SequencesExt

CONSTANTS
  MaxRounds,   \* settings.agent_max_steps
  MaxCalls,    \* bound on the calls of a generation
  MaxParts,    \* bound on the fragments of a call's arguments
  MaxResults,  \* bound on the results of a tool and on the passages of the context
  Urls         \* what the provider's own web search cites

ASSUME ToolCallsAssumption ==
  /\ {MaxRounds, MaxCalls, MaxParts, MaxResults} \subseteq Nat
  /\ IsFiniteSet(Urls)

VARIABLES
  api,      \* "chat" or "responses" (the provider searches the web itself)
  phase,    \* "idle", "streaming", "calling", "ended"
  round,    \* generations begun
  written,  \* the calls the model writes in this one: their numbers of fragments
  heard,    \* per call: [head, parts, done] of it that has been streamed
  slots,    \* the accumulator: [call, id, args] in the order of insertion
  cut,      \* the generation ended at its token limit
  pending,  \* pending_tool_calls: [id, args]
  messages, \* llm_messages
  sources,  \* the numbered list: [index, kind, url, shown, text]
  ran       \* the calls dispatched so far (history)

toolVars == <<api, phase, round, written, heard, slots, cut, pending, messages, sources, ran>>

NoId == <<0, 0>>
Id(c) == <<round, c>>
Wrote(c) == [j \in 1 .. written[c] |-> j]

\* `shown` is the number that a text shows for it to the model, and `text` the call
\* whose result that text is, or NoId for the context.
Source(index, kind, url, shown, text) ==
  [index |-> index, kind |-> kind, url |-> url, shown |-> shown, text |-> text]
Message(role, text, calls, id) == [role |-> role, text |-> text, calls |-> calls, id |-> id]

\* build_messages has numbered the passages from 1.
ToolInit ==
  /\ api \in {"chat", "responses"} /\ phase = "idle" /\ round = 0
  /\ written = <<>> /\ heard = <<>> /\ slots = <<>> /\ cut = FALSE /\ pending = <<>>
  /\ messages = <<Message("user", TRUE, <<>>, NoId)>>
  /\ \E n \in 0 .. MaxResults :
       sources = [i \in 1 .. n |-> Source(i, "document", "", i, NoId)]
  /\ ran = {}

\* The request goes out and the model makes up its mind.
Begin ==
  /\ phase = "idle" /\ round < MaxRounds
  /\ phase' = "streaming" /\ round' = round + 1
  /\ \E n \in 0 .. MaxCalls : written' \in [1 .. n -> 0 .. MaxParts]
  /\ heard' = [c \in DOMAIN written' |-> [head |-> FALSE, parts |-> 0, done |-> FALSE]]
  /\ slots' = <<>> /\ cut' = FALSE
  /\ UNCHANGED <<api, pending, messages, sources, ran>>

-----------------------------------------------------------------------------
(* The accumulators. *)

\* setdefault
WithSlot(c) ==
  IF \E i \in DOMAIN slots : slots[i].call = c THEN slots
  ELSE Append(slots, [call |-> c, id |-> NoId, args |-> <<>>])
InSlot(c, Change(_)) ==
  slots' = [i \in DOMAIN WithSlot(c) |->
              IF WithSlot(c)[i].call = c THEN Change(WithSlot(c)[i]) ELSE WithSlot(c)[i]]

Hears(c) == phase = "streaming" /\ c \in DOMAIN written /\ ~heard[c].done
Same == UNCHANGED <<api, phase, round, written, cut, pending, messages, sources, ran>>

\* _ToolCallAccumulator.add: the first delta of a call has its id and name, and each
\* may have the next fragment.
ChatDelta(c) ==
  /\ api = "chat" /\ Hears(c)
  /\ \E more \in BOOLEAN :
       LET next == heard[c].parts + 1 IN
       /\ more => next <= written[c]
       /\ more \/ ~heard[c].head
       /\ heard' = [heard EXCEPT ![c].head = TRUE, ![c].parts = IF more THEN next ELSE @]
       /\ InSlot(c, LAMBDA s : [s EXCEPT !.id = Id(c),
                                         !.args = IF more THEN Append(@, next) ELSE @])
  /\ Same

\* start
ItemAdded(c) ==
  /\ api = "responses" /\ Hears(c) /\ ~heard[c].head
  /\ heard' = [heard EXCEPT ![c].head = TRUE]
  /\ InSlot(c, LAMBDA s : [s EXCEPT !.id = Id(c), !.args = <<>>])
  /\ Same

\* add_arguments
ArgumentsDelta(c) ==
  /\ api = "responses" /\ Hears(c) /\ heard[c].head /\ heard[c].parts < written[c]
  /\ heard' = [heard EXCEPT ![c].parts = @ + 1]
  /\ InSlot(c, LAMBDA s : [s EXCEPT !.args = Append(@, heard[c].parts + 1)])
  /\ Same

\* Mutant: the arguments of the finished item are added to the fragments.
CompletedArgsAdded(s, args) == s.args \o args
\* complete: the whole arguments replace the fragments, unless there are none.
CompletedArgs(s, args) == IF args # <<>> THEN args ELSE s.args
ItemDone(c) ==
  /\ api = "responses" /\ Hears(c) /\ heard[c].head /\ heard[c].parts = written[c]
  /\ heard' = [heard EXCEPT ![c].done = TRUE]
  /\ InSlot(c, LAMBDA s : [s EXCEPT !.id = Id(c), !.args = CompletedArgs(s, Wrote(c))])
  /\ Same

\* The places of the slots in the order of their calls.
ByCall == CHOOSE p \in [DOMAIN slots -> DOMAIN slots] :
            \A i, j \in DOMAIN slots : i < j => slots[p[i]].call < slots[p[j]].call

\* finalize: chat sorts by index; arguments that are no JSON become none; a call
\* without a name is skipped, and none is here, the name being sent with the id.
Finalize ==
  LET order == IF api = "chat" THEN [k \in DOMAIN slots |-> slots[ByCall[k]]] ELSE slots
  IN [k \in DOMAIN order |->
        [id |-> order[k].id,
         args |-> IF order[k].args = Wrote(order[k].call) THEN order[k].args ELSE <<>>]]

\* The list goes on from its highest index.
Highest == Max({0} \cup {sources[i].index : i \in DOMAIN sources})

\* _append_citations of the pages cited, in any order: one that is listed is not
\* listed again.
AppendCitations(cited) ==
  {sources \o [i \in DOMAIN new |-> Source(Highest + i, "web", new[i], 0, NoId)] :
     new \in SetToSeqs({u \in cited : \A i \in DOMAIN sources : sources[i].url # u})}

Whole(c) == heard[c].head /\ heard[c].parts = written[c] /\ (heard[c].done \/ api = "chat")

\* What a generation keeps ends with it.
Forget == written' = <<>> /\ heard' = <<>> /\ slots' = <<>> /\ cut' = FALSE

\* The stream ends by itself, or at the token limit; the last step has no tools run.
StreamEnds ==
  /\ phase = "streaming"
  /\ pending' = Finalize
  /\ IF api = "chat" THEN UNCHANGED sources
     ELSE \E cited \in SUBSET Urls : sources' \in AppendCitations(cited)
  /\ \E short \in BOOLEAN :
       /\ short \/ \A c \in DOMAIN written : Whole(c)
       /\ \/ /\ pending' # <<>> /\ round < MaxRounds
             /\ phase' = "calling" /\ cut' = short /\ UNCHANGED <<written, heard, slots>>
          \/ /\ pending' = <<>> \/ round = MaxRounds
             /\ phase' = "ended" /\ Forget
  /\ UNCHANGED <<api, round, messages, ran>>

\* An error of the provider or a response.failed: no call is made.
StreamFails ==
  /\ phase = "streaming" /\ phase' = "ended" /\ Forget
  /\ UNCHANGED <<api, round, pending, messages, sources, ran>>

-----------------------------------------------------------------------------
(* The tools. *)

Tools == {"document", "web"}

\* dispatch: what a call finds, passages or pages; one that fails, is not known, or
\* lacks its query or url finds none.
Outcomes == [kind : Tools, count : 0 .. MaxResults]

\* What the calls found: the chunks of all of them, then the web results of all. The
\* text of each call numbers its own from 1.
Found(found) ==
  LET Of(kind, k) ==
        IF found[k].kind # kind THEN <<>>
        ELSE [i \in 1 .. found[k].count |-> [kind |-> kind, shown |-> i, text |-> pending[k].id]]
      All(kind) == FlattenSeq([k \in DOMAIN found |-> Of(kind, k)])
  IN All("document") \o All("web")

\* Mutant: every result takes its number in its own text, after what was listed.
NumberedByText(n, all) ==
  [i \in DOMAIN all |-> Source(n + all[i].shown, all[i].kind, "", all[i].shown, all[i].text)]
Numbered(n, all) ==
  [i \in DOMAIN all |-> Source(n + i, all[i].kind, "", all[i].shown, all[i].text)]

\* All pending calls are dispatched: the assistant's message with its calls, then one
\* message per outcome.
RunTools ==
  /\ phase = "calling"
  /\ \E preamble \in BOOLEAN :
       messages' = messages
         \o <<Message("assistant", preamble, pending, NoId)>>
         \o [k \in DOMAIN pending |-> Message("tool", TRUE, <<>>, pending[k].id)]
  /\ \E found \in [DOMAIN pending -> Outcomes] :
       sources' = sources \o Numbered(Highest, Found(found))
  /\ ran' = ran \cup Range(pending)
  /\ pending' = <<>> /\ phase' = "idle" /\ Forget
  /\ UNCHANGED <<api, round>>

\* to_responses_input
ToResponsesInput ==
  LET Item(type, id, args) == [type |-> type, id |-> id, args |-> args]
      Text(m) == IF m.text THEN <<Item("message", NoId, <<>>)>> ELSE <<>>
      Items(m) ==
        IF m.role = "tool" THEN <<Item("function_call_output", m.id, <<>>)>>
        ELSE Text(m) \o [k \in DOMAIN m.calls |->
                           Item("function_call", m.calls[k].id, m.calls[k].args)]
  IN FlattenSeq([i \in DOMAIN messages |-> Items(messages[i])])

ToolNext ==
  \/ Begin \/ StreamEnds \/ StreamFails \/ RunTools
  \/ \E c \in 1 .. MaxCalls : ChatDelta(c) \/ ItemAdded(c) \/ ArgumentsDelta(c) \/ ItemDone(c)

ToolSpec == ToolInit /\ [][ToolNext]_toolVars

-----------------------------------------------------------------------------
(* What the calls of a turn promise. *)

\* However the fragments were mixed, the calls that run are the model's, with the
\* arguments it wrote; a generation that was cut off may lack its last calls or run
\* them without arguments, and the calls it had finished are whole.
PendingAsWritten ==
  phase = "calling" =>
    /\ \A k \in DOMAIN pending : \E c \in DOMAIN written :
         /\ pending[k].id = Id(c)
         /\ pending[k].args = Wrote(c) \/ (cut /\ pending[k].args = <<>>)
         /\ \A l \in 1 .. k - 1 : pending[l].id # Id(c)
    /\ \A c \in DOMAIN written :
         ~cut \/ Whole(c) => \E k \in DOMAIN pending : pending[k] = [id |-> Id(c), args |-> Wrote(c)]

\* The next request shows the model every call that ran, with its arguments and,
\* after it, exactly one result.
ReplayedWithResults == phase = "idle" =>
  LET items == ToResponsesInput
      At(type, id) == {i \in DOMAIN items : items[i].type = type /\ items[i].id = id}
  IN /\ ran = {[id |-> items[i].id, args |-> items[i].args] :
                 i \in {j \in DOMAIN items : items[j].type = "function_call"}}
     /\ \A call \in ran : \E i, j \in DOMAIN items :
          /\ At("function_call", call.id) = {i} /\ At("function_call_output", call.id) = {j}
          /\ i < j

\* The calls that run are those the model wrote, and the next request shows each of
\* them with its one result (services/llm.py:77-112, 201-332; graph.py:303-328).
CallsAsWritten == PendingAsWritten /\ ReplayedWithResults

\* A number names one source and keeps naming it; and the sources of one text stand
\* together in its order, so that the numbers the model saw there are all off by one
\* amount, none for the context.
NumbersStand(old, new) ==
  /\ SubSeq(new, 1, Len(old)) = old
  /\ \A i \in DOMAIN new : new[i].index = i
  /\ \A i, j \in DOMAIN new :
       new[i].shown # 0 /\ new[j].shown # 0 /\ new[i].text = new[j].text =>
         i + new[j].shown = j + new[i].shown

\* No source ever changes its number, and none shares one (graph.py:253-275, 350-366).
SourcesStand == [][NumbersStand(sources, sources')]_sources
=============================================================================
