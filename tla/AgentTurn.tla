------------------------------ MODULE AgentTurn ------------------------------
(***************************************************************************)
(* One chat turn: the graph task of agent/graph.py (prepare, retrieve, and *)
(* the loop of generate and tools) and the generator of agent/runner.py    *)
(* that drains its queue into the response, saves the message and ends the *)
(* stream. The two are coroutines of one event loop: they interleave at    *)
(* their awaits, share the bounded queue, and the client can leave between *)
(* any two steps.                                                          *)
(*                                                                         *)
(* The status, sources, tool_call and tool_result frames of a node are one *)
(* frame "note". Each generation is a sequence of token frames labelled    *)
(* with the number of its round.                                           *)
(***************************************************************************)
EXTENDS Naturals, Sequences, SequencesExt

CONSTANTS
  MaxSteps,   \* settings.agent_max_steps
  QueueSize,  \* maxsize of the queue
  MaxTokens,  \* bound: tokens of one generation
  Faulty      \* whether database, provider and graph may fail

ASSUME TurnAssumption ==
  /\ MaxSteps \in Nat \ {0}
  /\ QueueSize \in Nat \ {0}
  /\ MaxTokens \in Nat
  /\ Faulty \in BOOLEAN

VARIABLES
  node,       \* where the graph task is
  step,       \* AgentState.step: completed generations
  offered,    \* whether the current generation was given tools
  parts,      \* answer_parts of the current generation
  answer,     \* AgentState.answer
  pending,    \* AgentState.pending_tool_calls is not empty
  failure,    \* "none", "state" (AgentState.error) or "graph" (graph_error)
  queue,      \* asyncio.Queue between the two
  runner,     \* where run_turn is
  client,     \* "connected" or "gone"
  shown,      \* tokens the client was sent, in order
  terminals,  \* terminal frames the client was sent, in order
  saved       \* the assistant message: "none", "answer", "error" or "lost"

graphVars == <<node, step, offered, parts, answer, pending, failure>>
runnerVars == <<runner, shown, terminals, saved>>
vars == <<graphVars, queue, runnerVars, client>>

Rounds == 1..MaxSteps
Running == {"prepare", "retrieve", "generate", "streaming", "tools", "commit"}
\* run_turn suspended at a yield: the frame is on its way to the client.
AtYield == {"starting", "sending", "usage_sent", "done_sent", "error_sent"}
AtAwait == {"draining", "persisting", "titling"}

Frame == [event : {"token"}, round : Rounds]
           \cup [event : {"note", "error", "sentinel"}, round : {0}]
Note == [event |-> "note", round |-> 0]
ErrorFrame == [event |-> "error", round |-> 0]
Sentinel == [event |-> "sentinel", round |-> 0]

TurnTypeOK ==
  /\ node \in Running \cup {"idle", "sentinel", "stopped"}
  /\ step \in 0..MaxSteps
  /\ offered \in BOOLEAN /\ pending \in BOOLEAN
  /\ parts \in Seq(Rounds) /\ answer \in Seq(Rounds) /\ shown \in Seq(Rounds)
  /\ failure \in {"none", "state", "graph"}
  /\ queue \in Seq(Frame) /\ Len(queue) <= QueueSize
  /\ runner \in AtYield \cup AtAwait \cup
               {"opening", "ending", "done", "failing", "cancelling", "dropped", "closed"}
  /\ client \in {"connected", "gone"}
  /\ terminals \in Seq({"done", "error"})
  /\ saved \in {"none", "answer", "error", "lost"}

Init ==
  /\ node = "idle" /\ step = 0 /\ offered = FALSE
  /\ parts = <<>> /\ answer = <<>> /\ pending = FALSE /\ failure = "none"
  /\ queue = <<>>
  /\ runner = "opening" /\ shown = <<>> /\ terminals = <<>> /\ saved = "none"
  /\ client = "connected"

-----------------------------------------------------------------------------
(* The graph task. `put` waits while the queue is full. *)

Emit(frame) == Len(queue) < QueueSize /\ queue' = Append(queue, frame)

\* A rewrite of the question that fails leaves the question.
Prepare ==
  /\ node = "prepare"
  /\ Emit(Note)
  /\ node' = "retrieve"
  /\ UNCHANGED <<step, offered, parts, answer, pending, failure, runnerVars, client>>

\* A failing retrieval degrades to no passages.
Retrieve ==
  /\ node = "retrieve"
  /\ Emit(Note)
  /\ node' = "generate"
  /\ UNCHANGED <<step, offered, parts, answer, pending, failure, runnerVars, client>>

\* budget.exhausted(): run_turn configures no budget, so `_ctx` makes a new one for
\* every node; its tokens, seconds and tool calls are those of that node up to here,
\* none, and only its step count is taken from the state.
Exhausted == step >= MaxSteps

\* The entry of generate.
Generate ==
  /\ node = "generate"
  /\ Emit(Note)
  /\ offered' = ~Exhausted
  /\ parts' = <<>>
  /\ node' = "streaming"
  /\ UNCHANGED <<step, answer, pending, failure, runnerVars, client>>

StreamToken ==
  /\ node = "streaming"
  /\ Len(parts) < MaxTokens
  /\ Emit([event |-> "token", round |-> step + 1])
  /\ parts' = Append(parts, step + 1)
  /\ UNCHANGED <<node, step, offered, answer, pending, failure, runnerVars, client>>

\* The rest of generate and route_after_generate: the model ends its reply, with
\* or without tool calls.
StreamEnds ==
  /\ node = "streaming"
  /\ \E calls \in {b \in BOOLEAN : b => offered} :
       /\ pending' = calls
       /\ answer' = IF calls THEN answer \o parts ELSE IF parts # <<>> THEN parts ELSE answer
       /\ step' = step + 1
       /\ node' = IF calls /\ step' < MaxSteps THEN "tools" ELSE "commit"
  /\ UNCHANGED <<offered, parts, failure, queue, runnerVars, client>>

\* Mutant: the failure is emitted from the node as well.
StreamFailsAloud ==
  /\ Faulty
  /\ node = "streaming"
  /\ Emit(ErrorFrame)
  /\ failure' = "state"
  /\ answer' = parts
  /\ node' = "commit"
  /\ UNCHANGED <<step, offered, parts, pending, runnerVars, client>>

\* The stream raised RuntimeError: what was streamed becomes the answer, and the
\* loop ends.
StreamFails ==
  /\ Faulty
  /\ node = "streaming"
  /\ failure' = "state"
  /\ answer' = parts
  /\ node' = "commit"
  /\ UNCHANGED <<step, offered, parts, pending, queue, runnerVars, client>>

\* Failing tools are results like others. The preamble of the calls is dropped.
Tools ==
  /\ node = "tools"
  /\ Emit(Note)
  /\ pending' = FALSE
  /\ answer' = <<>>
  /\ node' = "generate"
  /\ UNCHANGED <<step, offered, parts, failure, runnerVars, client>>

\* ainvoke returned; session_scope commits.
Commit ==
  /\ node = "commit"
  /\ node' = "sentinel"
  /\ UNCHANGED <<step, offered, parts, answer, pending, failure, queue, runnerVars, client>>

\* Mutant: the sentinel is not put in a `finally`.
RaiseSilently ==
  /\ Faulty
  /\ node \in Running
  /\ failure' = "graph"
  /\ node' = "stopped"
  /\ UNCHANGED <<step, offered, parts, answer, pending, queue, runnerVars, client>>

\* Any node, or the commit, raises.
Raise ==
  /\ Faulty
  /\ node \in Running
  /\ failure' = "graph"
  /\ node' = "sentinel"
  /\ UNCHANGED <<step, offered, parts, answer, pending, queue, runnerVars, client>>

PutSentinel ==
  /\ node = "sentinel"
  /\ Emit(Sentinel)
  /\ node' = "stopped"
  /\ UNCHANGED <<step, offered, parts, answer, pending, failure, runnerVars, client>>

GraphStep ==
  \/ Prepare \/ Retrieve \/ Generate \/ StreamToken \/ StreamEnds \/ StreamFails
  \/ Tools \/ Commit \/ Raise \/ PutSentinel

-----------------------------------------------------------------------------
(* run_turn. *)

RunnerGoes(place) == runner' = place

\* The user's message is saved and the start frame yielded; or saving it fails
\* (Conversation.tla) and the response ends without a frame.
Open ==
  /\ runner = "opening"
  /\ RunnerGoes("starting") \/ (Faulty /\ RunnerGoes("closed"))
  /\ UNCHANGED <<graphVars, queue, client, shown, terminals, saved>>

Launch ==
  /\ runner = "starting"
  /\ node' = "prepare"
  /\ RunnerGoes("draining")
  /\ UNCHANGED <<step, offered, parts, answer, pending, failure, queue, client,
                 shown, terminals, saved>>

\* The next frame of the queue is yielded.
Deliver ==
  /\ runner = "draining"
  /\ queue # <<>> /\ Head(queue) # Sentinel
  /\ queue' = Tail(queue)
  /\ shown' = IF Head(queue).event = "token" THEN Append(shown, Head(queue).round) ELSE shown
  /\ terminals' = IF Head(queue).event = "error" THEN Append(terminals, "error") ELSE terminals
  /\ RunnerGoes("sending")
  /\ UNCHANGED <<graphVars, client, saved>>

\* A queue that stays empty for HEARTBEAT_SECONDS: a comment frame.
KeepAlive ==
  /\ runner = "draining"
  /\ queue = <<>>
  /\ RunnerGoes("sending")
  /\ UNCHANGED <<graphVars, queue, client, shown, terminals, saved>>

Sent ==
  /\ runner = "sending"
  /\ RunnerGoes("draining")
  /\ UNCHANGED <<graphVars, queue, client, shown, terminals, saved>>

\* What became of the turn once the graph is through.
Verdict ==
  IF failure = "graph" \/ (failure = "state" /\ answer = <<>>) THEN "failing" ELSE "ending"

\* Mutant: the stream ends as soon as the task is over.
EndOfStreamWhenStopped ==
  /\ runner = "draining"
  /\ node = "stopped"
  /\ queue' = <<>>
  /\ RunnerGoes(Verdict)
  /\ UNCHANGED <<graphVars, client, shown, terminals, saved>>

EndOfStream ==
  /\ runner = "draining"
  /\ queue # <<>> /\ Head(queue) = Sentinel
  /\ queue' = Tail(queue)
  /\ RunnerGoes(Verdict)
  /\ UNCHANGED <<graphVars, client, shown, terminals, saved>>

\* A failed turn: the error frame, then the error message.
SendError ==
  /\ runner = "failing"
  /\ terminals' = Append(terminals, "error")
  /\ RunnerGoes("error_sent")
  /\ UNCHANGED <<graphVars, queue, client, shown, saved>>

\* Mutant: the failed turn is saved with what it had streamed.
PersistErrorAsAnswer ==
  /\ runner = "error_sent"
  /\ \/ saved' = IF answer = <<>> THEN "error" ELSE "answer"
     \/ Faulty /\ saved' = "lost"
  /\ RunnerGoes("closed")
  /\ UNCHANGED <<graphVars, queue, client, shown, terminals>>

PersistError ==
  /\ runner = "error_sent"
  /\ saved' = "error" \/ (Faulty /\ saved' = "lost")
  /\ RunnerGoes("closed")
  /\ UNCHANGED <<graphVars, queue, client, shown, terminals>>

\* An answered turn: usage frame, assistant message, title, done frame, upkeep.
\* A failure to save is logged and swallowed.
SendUsage ==
  /\ runner = "ending"
  /\ RunnerGoes("usage_sent")
  /\ UNCHANGED <<graphVars, queue, client, shown, terminals, saved>>

UsageSent ==
  /\ runner = "usage_sent"
  /\ RunnerGoes("persisting")
  /\ UNCHANGED <<graphVars, queue, client, shown, terminals, saved>>

PersistAnswer ==
  /\ runner = "persisting"
  /\ saved' = "answer" \/ (Faulty /\ saved' = "lost")
  /\ RunnerGoes("titling")
  /\ UNCHANGED <<graphVars, queue, client, shown, terminals>>

\* A failing model leaves the first words of the question; a failing database is not caught,
\* and the response ends without a terminal frame.
Title ==
  /\ runner = "titling"
  /\ RunnerGoes("done") \/ (Faulty /\ RunnerGoes("closed"))
  /\ UNCHANGED <<graphVars, queue, client, shown, terminals, saved>>

SendDone ==
  /\ runner = "done"
  /\ terminals' = Append(terminals, "done")
  /\ RunnerGoes("done_sent")
  /\ UNCHANGED <<graphVars, queue, client, shown, saved>>

\* _post_turn swallows its failures (Conversation.tla).
PostTurn ==
  /\ runner = "done_sent"
  /\ RunnerGoes("closed")
  /\ UNCHANGED <<graphVars, queue, client, shown, terminals, saved>>

RunnerStep ==
  \/ Open \/ Launch \/ Deliver \/ KeepAlive \/ Sent \/ EndOfStream
  \/ SendError \/ PersistError
  \/ SendUsage \/ UsageSent \/ PersistAnswer \/ Title \/ SendDone \/ PostTurn

-----------------------------------------------------------------------------
(* The client leaves. The server ends the generator where it is: with         *)
(* CancelledError at an await of its own, with GeneratorExit at a yield.      *)

\* CancelledError while draining: the task is cancelled at its current await,
\* and its `finally` still puts the sentinel; that put is cancelled in turn.
CancelDraining ==
  /\ runner = "draining"
  /\ client' = "gone"
  /\ RunnerGoes("cancelling")
  /\ node' = IF node \in Running THEN "sentinel" ELSE "stopped"
  /\ UNCHANGED <<step, offered, parts, answer, pending, failure, queue, shown, terminals, saved>>

CancelPut ==
  /\ runner = "cancelling"
  /\ node = "sentinel"
  /\ node' = "stopped"
  /\ UNCHANGED <<step, offered, parts, answer, pending, failure, queue, runnerVars, client>>

\* GeneratorExit while a frame is sent is not caught: the `finally` waits for
\* the task, which nobody cancels and whose queue nobody drains any more.
DropSending ==
  /\ runner = "sending"
  /\ client' = "gone"
  /\ RunnerGoes("dropped")
  /\ UNCHANGED <<graphVars, queue, shown, terminals, saved>>

\* Outside the loop nothing is caught; a save that was under way is rolled back.
DropElsewhere ==
  /\ runner \in (AtYield \cup AtAwait) \ {"draining", "sending"}
  /\ client' = "gone"
  /\ RunnerGoes("closed")
  /\ UNCHANGED <<graphVars, queue, shown, terminals, saved>>

\* `await task` in the finally.
TaskJoined ==
  /\ runner \in {"cancelling", "dropped"}
  /\ node = "stopped"
  /\ RunnerGoes("closed")
  /\ UNCHANGED <<graphVars, queue, client, shown, terminals, saved>>

Disconnect == CancelDraining \/ DropSending \/ DropElsewhere

Next == GraphStep \/ RunnerStep \/ Disconnect \/ CancelPut \/ TaskJoined

Spec == Init /\ [][Next]_vars

\* The event loop runs every coroutine that can go on; the provider ends its
\* reply; a connected client reads. Nothing makes the client leave.
FairSpec ==
  /\ Spec
  /\ WF_vars(GraphStep)
  /\ WF_vars(RunnerStep)
  /\ WF_vars(CancelPut)
  /\ WF_vars(TaskJoined)

-----------------------------------------------------------------------------
(* Correctness. *)

Finished == runner = "closed" /\ node \in {"idle", "stopped"}

\* The stream has at most one terminal frame and nothing after it (README, "Stream
\* protocol"), whatever fails in the graph, the runner or the database: the
\* runner owns the frame (graph.py:221).
NothingAfterTheEnd == [][terminals # <<>> => UNCHANGED <<shown, terminals>>]_vars

\* The saved answer is what the client was shown: its tokens are the last ones
\* of the stream, all of them delivered before the turn is concluded, although
\* they are saved from the state and shown from the queue.
AnswerWasShown == runner \in {"ending", "usage_sent", "persisting"} => IsSuffix(answer, shown)

\* What is saved agrees with what the client was told: never an answer for a turn
\* that ended in an error, nor an error for one that was answered.
SavedAsTold ==
  /\ terminals = <<"done">> => saved \in {"answer", "lost"}
  /\ terminals = <<"error">> => saved \in {"none", "error", "lost"}
  /\ saved = "error" => terminals = <<"error">>

\* A turn whose client leaves while a frame is being sent can be left with a full
\* queue: its graph waits for room, its runner for its graph.
Stuck == runner = "dropped" /\ node \notin {"idle", "stopped"} /\ Len(queue) = QueueSize

\* Every turn comes to an end, task and generator, unless it gets stuck as above;
\* in particular it does as long as the client stays.
TurnEnds == <>[]Finished \/ <>[]Stuck

\* "on the last step the tools are withheld, which forces a final answer"
\* (README, "The agent loop"): a turn never ends with tool calls it did not make.
ForcedAnswer == runner = "done" => ~pending
=============================================================================
