--------------------------- MODULE AgentTurnProofs ---------------------------
(***************************************************************************)
(* The loop bound, the frame protocol, the agreement of message and frame, *)
(* and that the saved answer was shown, of AgentTurn, for every step       *)
(* limit, queue size and length of the generations.                        *)
(***************************************************************************)
EXTENDS AgentTurn, SequenceTheorems, TLAPS

\* The graph only gets to another generation while steps are left, and it is
\* not running before the runner launches it.
LoopBounded ==
  /\ node \in {"prepare", "retrieve", "generate", "streaming", "tools"} => step < MaxSteps
  /\ runner \in {"opening", "starting"} => node = "idle" /\ step = 0
  /\ node = "idle" => step < MaxSteps

\* No node emits an error frame: the terminal frames are the runner's.
NoErrorQueued == \A i \in 1..Len(queue) : queue[i].event # "error"

\* What has been sent and saved at each place of the runner.
RunnerKnows ==
  /\ runner \notin {"done_sent", "error_sent", "closed"} => terminals = <<>>
  /\ runner = "done_sent" => terminals = <<"done">>
  /\ runner = "error_sent" => terminals = <<"error">>
  /\ runner \notin {"titling", "done", "done_sent", "closed"} => saved = "none"
  /\ runner \in {"titling", "done", "done_sent"} => saved \in {"answer", "lost"}

TurnInv == TurnTypeOK /\ LoopBounded /\ NoErrorQueued /\ RunnerKnows /\ SavedAsTold

\* The initial state satisfies the invariant.
LEMMA InitTurn == Init => TurnInv
<1> SUFFICES ASSUME Init PROVE TurnInv
  OBVIOUS
<1> USE TurnAssumption DEF Init
<1>1. <<>> \in Seq(Rounds) /\ <<>> \in Seq(Frame) /\ <<>> \in Seq({"done", "error"}) /\ Len(<<>>) = 0
  OBVIOUS
<1>2. TurnTypeOK
  <2>1. /\ parts \in Seq(Rounds) /\ answer \in Seq(Rounds) /\ shown \in Seq(Rounds)
        /\ queue \in Seq(Frame) /\ Len(queue) <= QueueSize /\ terminals \in Seq({"done", "error"})
    BY <1>1
  <2>2. /\ node \in Running \cup {"idle", "sentinel", "stopped"}
        /\ runner \in AtYield \cup AtAwait \cup
             {"opening", "ending", "done", "failing", "cancelling", "dropped", "closed"}
    BY DEF Running, AtYield, AtAwait
  <2>3. step \in 0..MaxSteps
    OBVIOUS
  <2>4. offered \in BOOLEAN /\ pending \in BOOLEAN
    BY Zenon
  <2>5. /\ failure \in {"none", "state", "graph"} /\ client \in {"connected", "gone"}
        /\ saved \in {"none", "answer", "error", "lost"}
    OBVIOUS
  <2> HIDE DEF Init
  <2> QED
    BY <2>1, <2>2, <2>3, <2>4, <2>5 DEF TurnTypeOK
<1>3. NoErrorQueued
  BY <1>1 DEF NoErrorQueued
<1>4. LoopBounded /\ RunnerKnows /\ SavedAsTold
  BY DEF LoopBounded, RunnerKnows, SavedAsTold
<1> QED
  BY <1>2, <1>3, <1>4 DEF TurnInv

\* Putting a frame that is not an error.
LEMMA EmitKeeps ==
  ASSUME TurnTypeOK, NoErrorQueued, NEW frame \in Frame, frame.event # "error", Emit(frame)
  PROVE  queue' \in Seq(Frame) /\ Len(queue') <= QueueSize /\ NoErrorQueued'
<1>1. queue \in Seq(Frame) /\ queue' = Append(queue, frame) /\ Len(queue) < QueueSize
  BY DEF TurnTypeOK, Emit
<1>2. queue' \in Seq(Frame) /\ Len(queue') = Len(queue) + 1
  BY <1>1
<1>3. \A i \in 1..Len(queue') : queue'[i] = IF i <= Len(queue) THEN queue[i] ELSE frame
  BY <1>1
<1>4. NoErrorQueued'
  BY <1>1, <1>2, <1>3 DEF NoErrorQueued
<1> QED
  BY <1>1, <1>2, <1>4, TurnAssumption

\* Taking the first frame.
LEMMA TakeKeeps ==
  ASSUME TurnTypeOK, NoErrorQueued, queue # <<>>, queue' = Tail(queue)
  PROVE  /\ queue' \in Seq(Frame) /\ Len(queue') <= QueueSize /\ NoErrorQueued'
         /\ Head(queue) \in Frame /\ Head(queue).event # "error"
<1>1. queue \in Seq(Frame) /\ Len(queue) <= QueueSize /\ Len(queue) \in Nat /\ Len(queue) > 0
  BY DEF TurnTypeOK
<1>2. queue' \in Seq(Frame) /\ Len(queue') = Len(queue) - 1
  BY <1>1
<1>3. \A i \in 1..Len(queue') : queue'[i] = queue[i + 1]
  BY <1>1
<1>4. Head(queue) = queue[1] /\ 1 \in 1..Len(queue) /\ queue[1] \in Frame
  BY <1>1
<1>5. NoErrorQueued'
  BY <1>1, <1>2, <1>3 DEF NoErrorQueued
<1>6. Len(queue') <= QueueSize
  BY <1>1, <1>2, TurnAssumption
<1> QED
  BY <1>2, <1>4, <1>5, <1>6 DEF NoErrorQueued

\* Every step of the graph task keeps it, node by node.
LEMMA GraphKeeps == TurnInv /\ GraphStep => TurnInv'
<1> SUFFICES ASSUME TurnInv, GraphStep PROVE TurnInv'
  OBVIOUS
<1> USE TurnAssumption DEF TurnInv, Running
<1>0. Note \in Frame /\ Note.event # "error" /\ Sentinel \in Frame /\ Sentinel.event # "error"
  BY DEF Note, Sentinel, Frame
<1>1. CASE Prepare
  <2>1. queue' \in Seq(Frame) /\ Len(queue') <= QueueSize /\ NoErrorQueued'
    BY <1>0, <1>1, EmitKeeps DEF Prepare
  <2> QED
    BY <1>1, <2>1 DEF Prepare, runnerVars, TurnTypeOK, LoopBounded, RunnerKnows, SavedAsTold
<1>2. CASE Retrieve
  <2>1. queue' \in Seq(Frame) /\ Len(queue') <= QueueSize /\ NoErrorQueued'
    BY <1>0, <1>2, EmitKeeps DEF Retrieve
  <2> QED
    BY <1>2, <2>1 DEF Retrieve, runnerVars, TurnTypeOK, LoopBounded, RunnerKnows, SavedAsTold
<1>3. CASE Generate
  <2>1. queue' \in Seq(Frame) /\ Len(queue') <= QueueSize /\ NoErrorQueued'
    BY <1>0, <1>3, EmitKeeps DEF Generate
  <2> QED
    BY <1>3, <2>1 DEF Generate, runnerVars, TurnTypeOK, LoopBounded, RunnerKnows, SavedAsTold
<1>4. CASE StreamToken
  <2> DEFINE frame == [event |-> "token", round |-> step + 1]
  <2>1. step + 1 \in Rounds
    BY <1>4 DEF StreamToken, LoopBounded, TurnTypeOK, Rounds
  <2>2. frame \in Frame /\ frame.event # "error"
    BY <2>1 DEF Frame
  <2>3. queue' \in Seq(Frame) /\ Len(queue') <= QueueSize /\ NoErrorQueued'
    <3>1. Emit(frame)
      BY <1>4 DEF StreamToken
    <3> HIDE DEF frame
    <3> QED BY <2>2, <3>1, EmitKeeps
  <2>4. parts' \in Seq(Rounds)
    BY <1>4, <2>1 DEF StreamToken, TurnTypeOK
  <2> QED
    BY <1>4, <2>3, <2>4 DEF StreamToken, runnerVars, TurnTypeOK, LoopBounded, RunnerKnows,
       SavedAsTold
<1>5. CASE StreamEnds
  <2>1. answer \in Seq(Rounds) /\ parts \in Seq(Rounds)
    BY DEF TurnTypeOK
  <2>2. answer' \in Seq(Rounds)
    <3>1. answer \o parts \in Seq(Rounds)
      BY <2>1
    <3>2. answer' \in {answer \o parts, parts, answer}
      BY <1>5 DEF StreamEnds
    <3> QED
      BY <2>1, <3>1, <3>2
  <2>3. step' = step + 1 /\ step < MaxSteps /\ step \in Nat
    BY <1>5 DEF StreamEnds, LoopBounded, TurnTypeOK
  <2>4. node' \in {"tools", "commit"} /\ (node' = "tools" => step' < MaxSteps) /\ pending' \in BOOLEAN
    BY <1>5 DEF StreamEnds
  <2>5. UNCHANGED <<offered, parts, failure, queue, runnerVars, client>> /\ node = "streaming"
    BY <1>5 DEF StreamEnds
  <2> QED
    BY <2>2, <2>3, <2>4, <2>5
       DEF runnerVars, TurnTypeOK, LoopBounded, NoErrorQueued, RunnerKnows, SavedAsTold
<1>6. CASE StreamFails
  <2>1. answer' \in Seq(Rounds)
    BY <1>6 DEF StreamFails, TurnTypeOK
  <2> QED
    BY <1>6, <2>1 DEF StreamFails, runnerVars, TurnTypeOK, LoopBounded, NoErrorQueued, RunnerKnows,
     SavedAsTold
<1>7. CASE Tools
  <2>1. queue' \in Seq(Frame) /\ Len(queue') <= QueueSize /\ NoErrorQueued'
    BY <1>0, <1>7, EmitKeeps DEF Tools
  <2>2. answer' = <<>> /\ <<>> \in Seq(Rounds) /\ pending' = FALSE
    BY <1>7 DEF Tools
  <2>3. answer' \in Seq(Rounds)
    BY <2>2
  <2>4. UNCHANGED <<step, offered, parts, failure, runnerVars, client>> /\ node' = "generate"
        /\ node = "tools"
    BY <1>7 DEF Tools
  <2> QED
    BY <2>1, <2>2, <2>3, <2>4, ZenonT(60) DEF runnerVars, TurnTypeOK, LoopBounded, RunnerKnows, SavedAsTold
<1>8. CASE Commit
  BY <1>8 DEF Commit, runnerVars, TurnTypeOK, LoopBounded, NoErrorQueued, RunnerKnows,
     SavedAsTold
<1>9. CASE Raise
  BY <1>9 DEF Raise, runnerVars, TurnTypeOK, LoopBounded, NoErrorQueued, RunnerKnows,
     SavedAsTold
<1>10. CASE PutSentinel
  <2>1. queue' \in Seq(Frame) /\ Len(queue') <= QueueSize /\ NoErrorQueued'
    BY <1>0, <1>10, EmitKeeps DEF PutSentinel
  <2> QED
    BY <1>10, <2>1 DEF PutSentinel, runnerVars, TurnTypeOK, LoopBounded, RunnerKnows, SavedAsTold
<1> QED
  BY <1>1, <1>2, <1>3, <1>4, <1>5, <1>6, <1>7, <1>8, <1>9, <1>10 DEF GraphStep

\* Every step of run_turn keeps it.
LEMMA RunnerKeeps == TurnInv /\ RunnerStep => TurnInv'
<1> SUFFICES ASSUME TurnInv, RunnerStep PROVE TurnInv'
  OBVIOUS
<1> USE TurnAssumption DEF TurnInv, graphVars, Running, AtYield, AtAwait, RunnerGoes
<1>1. CASE Open
  BY <1>1 DEF Open, TurnTypeOK, LoopBounded, NoErrorQueued, RunnerKnows, SavedAsTold
<1>2. CASE Launch
  BY <1>2 DEF Launch, TurnTypeOK, LoopBounded, NoErrorQueued, RunnerKnows, SavedAsTold
<1>3. CASE Deliver
  <2>1. /\ queue' \in Seq(Frame) /\ Len(queue') <= QueueSize /\ NoErrorQueued'
        /\ Head(queue) \in Frame /\ Head(queue).event # "error"
    BY <1>3, TakeKeeps DEF Deliver
  <2>2. shown' \in Seq(Rounds)
    <3>1. Head(queue).event = "token" => Head(queue).round \in Rounds
      BY <2>1 DEF Frame
    <3> QED
      BY <1>3, <3>1 DEF Deliver, TurnTypeOK
  <2>3. terminals' = terminals
    BY <1>3, <2>1 DEF Deliver
  <2> QED
    BY <1>3, <2>1, <2>2, <2>3 DEF Deliver, TurnTypeOK, LoopBounded, RunnerKnows, SavedAsTold
<1>14. CASE KeepAlive
  BY <1>14 DEF KeepAlive, TurnTypeOK, LoopBounded, NoErrorQueued, RunnerKnows, SavedAsTold
<1>4. CASE Sent
  BY <1>4 DEF Sent, TurnTypeOK, LoopBounded, NoErrorQueued, RunnerKnows, SavedAsTold
<1>5. CASE EndOfStream
  <2>1. queue' \in Seq(Frame) /\ Len(queue') <= QueueSize /\ NoErrorQueued'
    BY <1>5, TakeKeeps DEF EndOfStream
  <2> QED
    BY <1>5, <2>1 DEF EndOfStream, Verdict, TurnTypeOK, LoopBounded, RunnerKnows, SavedAsTold
<1>6. CASE SendError
  <2>1. terminals = <<>> /\ terminals' = <<"error">>
    BY <1>6 DEF SendError, RunnerKnows
  <2> QED
    BY <1>6, <2>1 DEF SendError, TurnTypeOK, LoopBounded, NoErrorQueued, RunnerKnows, SavedAsTold
<1>7. CASE PersistError
  BY <1>7 DEF PersistError, TurnTypeOK, LoopBounded, NoErrorQueued, RunnerKnows, SavedAsTold
<1>8. CASE SendUsage
  BY <1>8 DEF SendUsage, TurnTypeOK, LoopBounded, NoErrorQueued, RunnerKnows, SavedAsTold
<1>9. CASE UsageSent
  BY <1>9 DEF UsageSent, TurnTypeOK, LoopBounded, NoErrorQueued, RunnerKnows, SavedAsTold
<1>10. CASE PersistAnswer
  BY <1>10 DEF PersistAnswer, TurnTypeOK, LoopBounded, NoErrorQueued, RunnerKnows, SavedAsTold
<1>11. CASE Title
  BY <1>11 DEF Title, TurnTypeOK, LoopBounded, NoErrorQueued, RunnerKnows, SavedAsTold
<1>12. CASE SendDone
  <2>1. terminals = <<>> /\ terminals' = <<"done">>
    BY <1>12 DEF SendDone, RunnerKnows
  <2> QED
    BY <1>12, <2>1 DEF SendDone, TurnTypeOK, LoopBounded, NoErrorQueued, RunnerKnows, SavedAsTold
<1>13. CASE PostTurn
  BY <1>13 DEF PostTurn, TurnTypeOK, LoopBounded, NoErrorQueued, RunnerKnows, SavedAsTold
<1> QED
  BY <1>1, <1>2, <1>3, <1>4, <1>5, <1>6, <1>7, <1>8, <1>9, <1>10, <1>11, <1>12, <1>13,
     <1>14 DEF RunnerStep

\* A client that leaves, at an await or at a yield, keeps it.
LEMMA LeavingKeeps == TurnInv /\ (Disconnect \/ CancelPut \/ TaskJoined) => TurnInv'
<1> SUFFICES ASSUME TurnInv, Disconnect \/ CancelPut \/ TaskJoined PROVE TurnInv'
  OBVIOUS
<1> USE TurnAssumption DEF TurnInv, graphVars, runnerVars, Running, AtYield, AtAwait, RunnerGoes
<1>1. CASE CancelDraining
  BY <1>1 DEF CancelDraining, TurnTypeOK, LoopBounded, NoErrorQueued, RunnerKnows, SavedAsTold
<1>2. CASE DropSending
  BY <1>2 DEF DropSending, TurnTypeOK, LoopBounded, NoErrorQueued, RunnerKnows, SavedAsTold
<1>3. CASE DropElsewhere
  BY <1>3 DEF DropElsewhere, TurnTypeOK, LoopBounded, NoErrorQueued, RunnerKnows, SavedAsTold
<1>4. CASE CancelPut
  BY <1>4 DEF CancelPut, TurnTypeOK, LoopBounded, NoErrorQueued, RunnerKnows, SavedAsTold
<1>5. CASE TaskJoined
  BY <1>5 DEF TaskJoined, TurnTypeOK, LoopBounded, NoErrorQueued, RunnerKnows, SavedAsTold
<1> QED
  BY <1>1, <1>2, <1>3, <1>4, <1>5 DEF Disconnect

\* The invariant is inductive.
LEMMA StepTurn == TurnInv /\ [Next]_vars => TurnInv'
<1>1. TurnInv /\ UNCHANGED vars => TurnInv'
  BY DEF vars, graphVars, runnerVars, TurnInv, TurnTypeOK, LoopBounded, NoErrorQueued,
     RunnerKnows, SavedAsTold
<1> QED
  BY <1>1, GraphKeeps, RunnerKeeps, LeavingKeeps DEF Next

\* Types, the loop bound, the places of the frames and of the message: inductive
\* together.
THEOREM TurnInvariant == Spec => []TurnInv
  BY InitTurn, StepTurn, PTL DEF Spec

\* The saved message agrees with the terminal frame (runner.py:116-171).
THEOREM SavedAsToldHolds == Spec => []SavedAsTold
<1>1. TurnInv => SavedAsTold
  BY DEF TurnInv
<1> QED
  BY <1>1, TurnInvariant, PTL

\* One terminal frame and nothing after it (runner.py:94-157, graph.py:220-224).
THEOREM NothingAfterTheEndHolds == Spec => NothingAfterTheEnd
<1>1. TurnInv /\ [Next]_vars => [terminals # <<>> => UNCHANGED <<shown, terminals>>]_vars
  <2> SUFFICES ASSUME TurnInv, Next, terminals # <<>> PROVE UNCHANGED <<shown, terminals>>
    OBVIOUS
  <2>1. runner \in {"done_sent", "error_sent", "closed"}
    BY DEF TurnInv, RunnerKnows
  <2>2. CASE GraphStep
    BY <2>2 DEF GraphStep, Prepare, Retrieve, Generate, StreamToken, StreamEnds, StreamFails,
       Tools, Commit, Raise, PutSentinel, runnerVars
  <2>3. CASE RunnerStep
    BY <2>1, <2>3 DEF RunnerStep, Open, Launch, Deliver, KeepAlive, Sent, EndOfStream, SendError,
       PersistError, SendUsage, UsageSent, PersistAnswer, Title, SendDone, PostTurn
  <2>4. CASE Disconnect \/ CancelPut \/ TaskJoined
    BY <2>4 DEF Disconnect, CancelDraining, DropSending, DropElsewhere, CancelPut, TaskJoined,
       runnerVars
  <2> QED
    BY <2>2, <2>3, <2>4 DEF Next
<1> QED
  BY <1>1, TurnInvariant, PTL DEF Spec, NothingAfterTheEnd

-----------------------------------------------------------------------------
(* The saved answer is the end of what was shown. *)

\* The tokens that a queue carries: f has the rounds of its token frames, in order,
\* the i-th of them at the place at[i].
Places(q, f, at) ==
  /\ at \in [1 .. Len(f) -> 1 .. Len(q)]
  /\ \A i, j \in 1 .. Len(f) : i < j => at[i] < at[j]
  /\ \A i \in 1 .. Len(f) : q[at[i]].event = "token" /\ q[at[i]].round = f[i]
  /\ \A k \in 1 .. Len(q) : q[k].event = "token" => \E i \in 1 .. Len(f) : at[i] = k
Carries(q, f) == \E at : Places(q, f, at)

\* The text that the turn is about to answer with.
Text == IF node = "streaming" THEN parts ELSE answer

\* It is the end of what was shown and what is still queued.
Streamed == \E f \in Seq(Rounds) : Carries(queue, f) /\ IsSuffix(Text, shown \o f)

\* There is no answer before a generation has ended, the sentinel is the last frame
\* of a stopped graph, and after it the queue is empty.
Ordered ==
  /\ node \in {"idle", "prepare", "retrieve", "generate", "streaming"} => answer = <<>>
  /\ \A i \in 1 .. Len(queue) : queue[i].event = "sentinel" => i = Len(queue) /\ node = "stopped"
  /\ runner \in {"ending", "usage_sent", "persisting"} => node = "stopped" /\ queue = <<>>

AnswerInv == TurnInv /\ Ordered /\ Streamed

\* A suffix by its elements.
LEMMA SuffixByPlace ==
  ASSUME NEW S, NEW s \in Seq(S), NEW t \in Seq(S)
  PROVE  IsSuffix(s, t) <=> /\ Len(s) <= Len(t)
                            /\ \A i \in 1 .. Len(s) : s[i] = t[i + (Len(t) - Len(s))]
<1> DEFINE rs == Reverse(s)
           rt == Reverse(t)
<1>1. /\ Len(s) \in Nat /\ Len(t) \in Nat
      /\ rs \in Seq(S) /\ Len(rs) = Len(s) /\ \A i \in 1 .. Len(s) : rs[i] = s[(Len(s) - i) + 1]
      /\ rt \in Seq(S) /\ Len(rt) = Len(t) /\ \A i \in 1 .. Len(t) : rt[i] = t[(Len(t) - i) + 1]
  BY DEF Reverse
<1> HIDE DEF rs, rt
<1>2. IsSuffix(s, t) <=> Len(s) <= Len(t) /\ SubSeq(rs, 1, Len(s)) = SubSeq(rt, 1, Len(s))
  BY <1>1 DEF IsSuffix, IsPrefix, rs, rt
<1>3. ASSUME Len(s) <= Len(t)
      PROVE  SubSeq(rs, 1, Len(s)) = SubSeq(rt, 1, Len(s))
               <=> \A i \in 1 .. Len(s) : rs[i] = rt[i]
  <2> DEFINE u == SubSeq(rs, 1, Len(s))
             v == SubSeq(rt, 1, Len(s))
  <2>1. /\ u \in Seq(S) /\ Len(u) = Len(s) /\ \A i \in 1 .. Len(s) : u[i] = rs[i]
        /\ v \in Seq(S) /\ Len(v) = Len(s) /\ \A i \in 1 .. Len(s) : v[i] = rt[i]
    BY <1>1, <1>3
  <2> HIDE DEF u, v
  <2>2. u = v <=> \A i \in 1 .. Len(s) : u[i] = v[i]
    BY <1>1, <2>1, SeqEqual
  <2> QED
    BY <2>1, <2>2 DEF u, v
<1>4. ASSUME Len(s) <= Len(t)
      PROVE  (\A i \in 1 .. Len(s) : rs[i] = rt[i])
               <=> \A i \in 1 .. Len(s) : s[i] = t[i + (Len(t) - Len(s))]
  <2>1. ASSUME \A i \in 1 .. Len(s) : rs[i] = rt[i], NEW i \in 1 .. Len(s)
        PROVE  s[i] = t[i + (Len(t) - Len(s))]
    <3>1. (Len(s) - i) + 1 \in 1 .. Len(s) /\ (Len(s) - i) + 1 \in 1 .. Len(t)
      BY <1>1, <1>4
    <3>2. /\ (Len(s) - ((Len(s) - i) + 1)) + 1 = i
          /\ (Len(t) - ((Len(s) - i) + 1)) + 1 = i + (Len(t) - Len(s))
      BY <1>1
    <3> QED
      BY <1>1, <2>1, <3>1, <3>2
  <2>2. ASSUME \A i \in 1 .. Len(s) : s[i] = t[i + (Len(t) - Len(s))], NEW i \in 1 .. Len(s)
        PROVE  rs[i] = rt[i]
    <3>1. (Len(s) - i) + 1 \in 1 .. Len(s) /\ i \in 1 .. Len(t)
      BY <1>1, <1>4
    <3>2. ((Len(s) - i) + 1) + (Len(t) - Len(s)) = (Len(t) - i) + 1
      BY <1>1
    <3> QED
      BY <1>1, <2>2, <3>1, <3>2
  <2> QED
    BY <2>1, <2>2
<1> QED
  BY <1>2, <1>3, <1>4

\* Appending one element to both sides, a text and what was streamed of it.
LEMMA SuffixAppend ==
  ASSUME NEW S, NEW s \in Seq(S), NEW t \in Seq(S), NEW e \in S, IsSuffix(s, t)
  PROVE  IsSuffix(Append(s, e), Append(t, e))
<1> DEFINE u == Append(s, e)
           v == Append(t, e)
<1>1. /\ u \in Seq(S) /\ Len(u) = Len(s) + 1
      /\ u[Len(s) + 1] = e /\ \A i \in 1 .. Len(s) : u[i] = s[i]
      /\ v \in Seq(S) /\ Len(v) = Len(t) + 1
      /\ v[Len(t) + 1] = e /\ \A i \in 1 .. Len(t) : v[i] = t[i]
      /\ Len(s) \in Nat /\ Len(t) \in Nat
  OBVIOUS
<1> HIDE DEF u, v
<1>2. Len(s) <= Len(t) /\ \A i \in 1 .. Len(s) : s[i] = t[i + (Len(t) - Len(s))]
  BY SuffixByPlace
<1>3. ASSUME NEW i \in 1 .. Len(s) + 1
      PROVE  u[i] = v[i + (Len(t) - Len(s))]
  <2>1. CASE i = Len(s) + 1
    BY <1>1, <1>2, <2>1
  <2>2. CASE i \in 1 .. Len(s)
    <3>1. i + (Len(t) - Len(s)) \in 1 .. Len(t)
      BY <1>1, <1>2, <2>2
    <3> QED
      BY <1>1, <1>2, <2>2, <3>1
  <2> QED
    BY <1>1, <2>1, <2>2
<1>4. (Len(t) + 1) - (Len(s) + 1) = Len(t) - Len(s) /\ Len(s) + 1 <= Len(t) + 1
  BY <1>1, <1>2
<1>5. IsSuffix(u, v)
  BY <1>1, <1>3, <1>4, SuffixByPlace
<1> QED
  BY <1>5 DEF u, v

\* Concatenation is associative.
LEMMA Associative ==
  ASSUME NEW S, NEW s \in Seq(S), NEW t \in Seq(S), NEW u \in Seq(S)
  PROVE  (s \o t) \o u = s \o (t \o u)
  OBVIOUS

\* The empty text ends everything.
LEMMA SuffixEmpty == ASSUME NEW S, NEW t \in Seq(S) PROVE IsSuffix(<<>>, t)
<1>1. <<>> \in Seq(S) /\ Len(<<>>) = 0 /\ Len(t) \in Nat
  OBVIOUS
<1>2. Len(<<>>) <= Len(t) /\ \A i \in 1 .. Len(<<>>) : <<>>[i] = t[i + (Len(t) - Len(<<>>))]
  BY <1>1
<1> QED
  BY <1>1, <1>2, SuffixByPlace

\* A queue without frames carries nothing.
LEMMA CarriesNothing == Carries(<<>>, <<>>)
<1> DEFINE at == [i \in 1 .. 0 |-> 1]
<1>1. Len(<<>>) = 0 /\ 1 .. 0 = {}
  OBVIOUS
<1>2. at \in [1 .. 0 -> 1 .. 0]
  BY <1>1
<1> HIDE DEF at
<1>3. Places(<<>>, <<>>, at)
  BY <1>1, <1>2 DEF Places
<1> QED
  BY <1>3 DEF Carries

\* A queue without token frames carries nothing.
LEMMA CarriesNoToken ==
  ASSUME NEW q \in Seq(Frame), NEW f \in Seq(Rounds), Carries(q, f),
         \A i \in 1 .. Len(q) : q[i].event # "token"
  PROVE  f = <<>>
<1>1. PICK at : Places(q, f, at)
  BY DEF Carries
<1>2. SUFFICES ASSUME f # <<>> PROVE FALSE
  OBVIOUS
<1>3. 1 \in 1 .. Len(f)
  BY <1>2
<1>4. at[1] \in 1 .. Len(q) /\ q[at[1]].event = "token"
  BY <1>1, <1>3 DEF Places
<1> QED
  BY <1>4

\* Putting a frame that is no token.
LEMMA CarriesPutOther ==
  ASSUME NEW q \in Seq(Frame), NEW f \in Seq(Rounds), Carries(q, f),
         NEW frame \in Frame, frame.event # "token"
  PROVE  Carries(Append(q, frame), f)
<1> DEFINE r == Append(q, frame)
<1>1. PICK at : Places(q, f, at)
  BY DEF Carries
<1>2. /\ Len(q) \in Nat /\ Len(r) = Len(q) + 1
      /\ \A i \in 1 .. Len(q) : r[i] = q[i]
      /\ r[Len(q) + 1] = frame
  OBVIOUS
<1> HIDE DEF r
<1>3. at \in [1 .. Len(f) -> 1 .. Len(r)]
  BY <1>1, <1>2 DEF Places
<1>4. \A i \in 1 .. Len(f) : r[at[i]] = q[at[i]]
  BY <1>1, <1>2 DEF Places
<1>5. \A k \in 1 .. Len(r) : r[k].event = "token" => k \in 1 .. Len(q)
  BY <1>2
<1>6. Places(r, f, at)
  BY <1>1, <1>2, <1>3, <1>4, <1>5 DEF Places
<1> QED
  BY <1>6 DEF Carries, r

\* Putting a token.
LEMMA CarriesPutToken ==
  ASSUME NEW q \in Seq(Frame), NEW f \in Seq(Rounds), Carries(q, f),
         NEW n \in Rounds
  PROVE  Carries(Append(q, [event |-> "token", round |-> n]), Append(f, n))
<1> DEFINE frame == [event |-> "token", round |-> n]
           r == Append(q, frame)
           g == Append(f, n)
<1>1. PICK at : Places(q, f, at)
  BY DEF Carries
<1>2. frame \in Frame /\ frame.event = "token" /\ frame.round = n
  BY DEF Frame
<1> HIDE DEF frame
<1>3. /\ Len(q) \in Nat /\ Len(r) = Len(q) + 1
      /\ \A i \in 1 .. Len(q) : r[i] = q[i]
      /\ r[Len(q) + 1] = frame
      /\ Len(f) \in Nat /\ Len(g) = Len(f) + 1
      /\ \A i \in 1 .. Len(f) : g[i] = f[i]
      /\ g[Len(f) + 1] = n
  BY <1>2
<1> HIDE DEF r, g
<1> DEFINE bt == [i \in 1 .. Len(g) |-> IF i = Len(g) THEN Len(r) ELSE at[i]]
<1>4. bt \in [1 .. Len(g) -> 1 .. Len(r)]
  BY <1>1, <1>3 DEF Places
<1>5. /\ \A i \in 1 .. Len(f) : bt[i] = at[i] /\ at[i] \in 1 .. Len(q)
      /\ bt[Len(g)] = Len(r)
  <2>1. \A i \in 1 .. Len(f) : i \in 1 .. Len(g) /\ i # Len(g) /\ at[i] \in 1 .. Len(q)
    <3>1. \A i \in 1 .. Len(f) : i \in 1 .. Len(g) /\ i # Len(g)
      BY <1>3
    <3>2. at \in [1 .. Len(f) -> 1 .. Len(q)]
      BY <1>1 DEF Places
    <3> QED
      BY <3>1, <3>2
  <2>2. Len(g) \in 1 .. Len(g)
    BY <1>3
  <2> QED
    BY <2>1, <2>2
<1> HIDE DEF bt
<1>6. ASSUME NEW i \in 1 .. Len(g), NEW j \in 1 .. Len(g), i < j PROVE bt[i] < bt[j]
  <2>1. i \in 1 .. Len(f)
    BY <1>3, <1>6
  <2>2. CASE j = Len(g)
    BY <1>3, <1>5, <2>1, <2>2
  <2>3. CASE j \in 1 .. Len(f)
    BY <1>1, <1>5, <1>6, <2>1, <2>3 DEF Places
  <2> QED
    BY <1>3, <2>2, <2>3
<1>7. ASSUME NEW i \in 1 .. Len(g) PROVE r[bt[i]].event = "token" /\ r[bt[i]].round = g[i]
  <2>1. CASE i = Len(g)
    BY <1>2, <1>3, <1>5, <2>1
  <2>2. CASE i \in 1 .. Len(f)
    BY <1>1, <1>3, <1>5, <2>2, ZenonT(60) DEF Places
  <2> QED
    BY <1>3, <2>1, <2>2
<1>8. ASSUME NEW k \in 1 .. Len(r), r[k].event = "token"
      PROVE  \E i \in 1 .. Len(g) : bt[i] = k
  <2>1. CASE k = Len(r)
    <3>1. Len(g) \in 1 .. Len(g)
      BY <1>3
    <3> QED
      BY <1>5, <2>1, <3>1
  <2>2. CASE k \in 1 .. Len(q)
    <3>1. PICK i \in 1 .. Len(f) : at[i] = k
      BY <1>1, <1>3, <1>8, <2>2 DEF Places
    <3>2. i \in 1 .. Len(g)
      BY <1>3
    <3> QED
      BY <1>5, <3>1, <3>2
  <2> QED
    BY <1>3, <2>1, <2>2
<1>9. Places(r, g, bt)
  BY <1>4, <1>6, <1>7, <1>8 DEF Places
<1> QED
  BY <1>9 DEF Carries, r, g, frame

\* Taking the first frame: a token is the first one carried, another frame none.
LEMMA CarriesTake ==
  ASSUME NEW q \in Seq(Frame), NEW f \in Seq(Rounds), Carries(q, f), q # <<>>
  PROVE  /\ q[1].event # "token" => Carries(Tail(q), f)
         /\ q[1].event = "token" => f # <<>> /\ q[1].round = f[1] /\ Carries(Tail(q), Tail(f))
<1> DEFINE r == Tail(q)
<1>1. PICK at : Places(q, f, at)
  BY DEF Carries
<1>2. /\ Len(q) \in Nat \ {0} /\ Len(r) = Len(q) - 1 /\ Len(f) \in Nat
      /\ \A i \in 1 .. Len(r) : r[i] = q[i + 1]
  OBVIOUS
<1> HIDE DEF r
<1>3. ASSUME q[1].event # "token" PROVE Carries(r, f)
  <2> DEFINE bt == [i \in 1 .. Len(f) |-> at[i] - 1]
  <2>1. \A i \in 1 .. Len(f) : at[i] \in 2 .. Len(q)
    <3>1. \A i \in 1 .. Len(f) : at[i] \in 1 .. Len(q) /\ at[i] # 1
      BY <1>1, <1>3 DEF Places
    <3> QED
      BY <1>2, <3>1
  <2>2. bt \in [1 .. Len(f) -> 1 .. Len(r)]
    BY <1>2, <2>1
  <2>3. \A i \in 1 .. Len(f) : bt[i] = at[i] - 1 /\ r[bt[i]] = q[at[i]]
    BY <1>2, <2>1
  <2> HIDE DEF bt
  <2>4. \A i, j \in 1 .. Len(f) : i < j => bt[i] < bt[j]
    BY <1>1, <1>2, <2>1, <2>3 DEF Places
  <2>5. ASSUME NEW k \in 1 .. Len(r), r[k].event = "token"
        PROVE  \E i \in 1 .. Len(f) : bt[i] = k
    <3>1. k + 1 \in 1 .. Len(q) /\ q[k + 1].event = "token" /\ k \in Int
      BY <1>2, <2>5
    <3>2. PICK i \in 1 .. Len(f) : at[i] = k + 1
      BY <1>1, <3>1 DEF Places
    <3> QED
      BY <2>3, <3>1, <3>2
  <2>6. Places(r, f, bt)
    BY <1>1, <2>2, <2>3, <2>4, <2>5 DEF Places
  <2> QED
    BY <2>6 DEF Carries
<1>4. ASSUME q[1].event = "token" PROVE f # <<>> /\ q[1].round = f[1] /\ Carries(r, Tail(f))
  <2> DEFINE g == Tail(f)
  <2>1. PICK i \in 1 .. Len(f) : at[i] = 1
    <3>1. 1 \in 1 .. Len(q)
      BY <1>2
    <3> QED
      BY <1>1, <1>4, <3>1 DEF Places
  <2>2. f # <<>> /\ Len(f) \in Nat \ {0} /\ 1 \in 1 .. Len(f)
    BY <1>2, <2>1
  <2>3. i = 1
    <3>1. at[1] \in 1 .. Len(q) /\ (1 < i => at[1] < at[i])
      BY <1>1, <2>2 DEF Places
    <3> QED
      BY <1>2, <2>1, <3>1
  <2>4. q[1].round = f[1]
    BY <1>1, <2>1, <2>3 DEF Places
  <2>5. /\ g \in Seq(Rounds) /\ Len(g) = Len(f) - 1
        /\ \A k \in 1 .. Len(g) : g[k] = f[k + 1]
    BY <2>2
  <2> HIDE DEF g
  <2> DEFINE bt == [k \in 1 .. Len(g) |-> at[k + 1] - 1]
  <2>6. \A k \in 1 .. Len(g) : k + 1 \in 1 .. Len(f) /\ at[k + 1] \in 2 .. Len(q)
    <3> TAKE k \in 1 .. Len(g)
    <3>1. k + 1 \in 1 .. Len(f) /\ 1 < k + 1
      BY <1>2, <2>5
    <3>2. at[k + 1] \in 1 .. Len(q) /\ at[1] < at[k + 1]
      BY <1>1, <2>2, <3>1 DEF Places
    <3> QED
      BY <1>2, <2>1, <2>3, <3>1, <3>2
  <2>7. bt \in [1 .. Len(g) -> 1 .. Len(r)]
    BY <1>2, <2>6
  <2>8. \A k \in 1 .. Len(g) : bt[k] = at[k + 1] - 1 /\ r[bt[k]] = q[at[k + 1]]
    BY <1>2, <2>6
  <2> HIDE DEF bt
  <2>9. \A k, l \in 1 .. Len(g) : k < l => bt[k] < bt[l]
    <3> TAKE k, l \in 1 .. Len(g)
    <3>1. k < l => at[k + 1] < at[l + 1]
      BY <1>1, <2>5, <2>6 DEF Places
    <3> QED
      BY <1>2, <2>6, <2>8, <3>1
  <2>10. ASSUME NEW k \in 1 .. Len(r), r[k].event = "token"
         PROVE  \E l \in 1 .. Len(g) : bt[l] = k
    <3>1. k + 1 \in 1 .. Len(q) /\ q[k + 1].event = "token" /\ k \in Int /\ k + 1 # 1
      BY <1>2, <2>10
    <3>2. PICK l \in 1 .. Len(f) : at[l] = k + 1
      BY <1>1, <3>1 DEF Places
    <3>3. l - 1 \in 1 .. Len(g) /\ (l - 1) + 1 = l
      BY <2>1, <2>3, <2>5, <3>1, <3>2
    <3>4. bt[l - 1] = at[l] - 1
      BY <2>8, <3>3
    <3> QED
      BY <3>1, <3>2, <3>3, <3>4
  <2>11. \A k \in 1 .. Len(g) : r[bt[k]].event = "token" /\ r[bt[k]].round = g[k]
    <3> TAKE k \in 1 .. Len(g)
    <3>1. k + 1 \in 1 .. Len(f) /\ r[bt[k]] = q[at[k + 1]] /\ g[k] = f[k + 1]
      BY <2>5, <2>6, <2>8
    <3> QED
      BY <1>1, <3>1 DEF Places
  <2>12. Places(r, g, bt)
    BY <2>7, <2>9, <2>10, <2>11 DEF Places
  <2> QED
    BY <2>2, <2>4, <2>12 DEF Carries, g
<1> QED
  BY <1>3, <1>4 DEF r

\* The queue is empty at first, and nothing has been shown.
LEMMA InitAnswer == Init => AnswerInv
<1> SUFFICES ASSUME Init PROVE AnswerInv
  OBVIOUS
<1>1. queue = <<>> /\ shown = <<>> /\ answer = <<>> /\ node = "idle" /\ runner = "opening"
  BY DEF Init
<1>2. Ordered
  BY <1>1 DEF Ordered
<1>3. Streamed
  <2>1. <<>> \in Seq(Rounds) /\ shown \o <<>> \in Seq(Rounds) /\ Text = <<>>
    BY <1>1 DEF Text
  <2>2. Carries(queue, <<>>)
    BY <1>1, CarriesNothing
  <2> QED
    BY <2>1, <2>2, SuffixEmpty DEF Streamed
<1> QED
  BY <1>2, <1>3, InitTurn DEF AnswerInv

\* A step that leaves the stream alone keeps it, if the text stays or is given up.
LEMMA SameStream ==
  ASSUME AnswerInv, UNCHANGED <<queue, shown>>, Text' \in {Text, <<>>}
  PROVE  Streamed'
<1>1. PICK f \in Seq(Rounds) : Carries(queue, f) /\ IsSuffix(Text, shown \o f)
  BY DEF AnswerInv, Streamed
<1>2. shown \o f \in Seq(Rounds)
  BY <1>1 DEF AnswerInv, TurnInv, TurnTypeOK
<1>3. Carries(queue', f)
  BY <1>1
<1>4. IsSuffix(Text', shown' \o f)
  <2>1. CASE Text' = Text
    BY <1>1, <2>1
  <2>2. CASE Text' = <<>>
    <3>1. IsSuffix(<<>>, shown \o f)
      BY <1>2, SuffixEmpty
    <3> QED
      BY <2>2, <3>1
  <2> QED
    BY <2>1, <2>2
<1> QED
  BY <1>3, <1>4 DEF Streamed

\* So does a step that puts a frame which is no token.
LEMMA OtherStreamed ==
  ASSUME AnswerInv, NEW frame \in Frame, frame.event # "token", Emit(frame),
         shown' = shown, Text' \in {Text, <<>>}
  PROVE  Streamed'
<1>1. PICK f \in Seq(Rounds) : Carries(queue, f) /\ IsSuffix(Text, shown \o f)
  BY DEF AnswerInv, Streamed
<1>2. queue \in Seq(Frame) /\ queue' = Append(queue, frame) /\ shown \o f \in Seq(Rounds)
  BY <1>1 DEF AnswerInv, TurnInv, TurnTypeOK, Emit
<1>3. Carries(queue', f)
  BY <1>1, <1>2, CarriesPutOther
<1>4. IsSuffix(Text', shown' \o f)
  <2>1. CASE Text' = Text
    BY <1>1, <2>1
  <2>2. CASE Text' = <<>>
    <3>1. IsSuffix(<<>>, shown \o f)
      BY <1>2, SuffixEmpty
    <3> QED
      BY <2>2, <3>1
  <2> QED
    BY <2>1, <2>2
<1> QED
  BY <1>3, <1>4 DEF Streamed

\* Putting a frame while the graph runs keeps the order of the queue.
LEMMA OrderedPut ==
  ASSUME AnswerInv, NEW frame \in Frame, Emit(frame), node # "stopped",
         frame.event = "sentinel" => node' = "stopped"
  PROVE  \A i \in 1 .. Len(queue') :
           queue'[i].event = "sentinel" => i = Len(queue') /\ node' = "stopped"
<1>1. queue \in Seq(Frame) /\ queue' = Append(queue, frame)
  BY DEF AnswerInv, TurnInv, TurnTypeOK, Emit
<1>2. /\ Len(queue) \in Nat /\ Len(queue') = Len(queue) + 1
      /\ \A i \in 1 .. Len(queue') : queue'[i] = IF i <= Len(queue) THEN queue[i] ELSE frame
  BY <1>1
<1>3. \A i \in 1 .. Len(queue) : queue[i].event # "sentinel"
  BY DEF AnswerInv, Ordered
<1> QED
  BY <1>2, <1>3

\* Every step of the graph task keeps it, node by node.
LEMMA GraphAnswer == AnswerInv /\ GraphStep => Ordered' /\ Streamed'
<1> SUFFICES ASSUME AnswerInv, GraphStep PROVE Ordered' /\ Streamed'
  OBVIOUS
<1> USE DEF runnerVars
<1>0. Note \in Frame /\ Note.event = "note" /\ Sentinel \in Frame /\ Sentinel.event = "sentinel"
  BY DEF Note, Sentinel, Frame
<1>a. node \in Running \cup {"sentinel"} => runner \notin {"ending", "usage_sent", "persisting"}
  BY DEF AnswerInv, Ordered, Running
<1>b. ASSUME NEW note \in {Note}, Emit(note), node \in Running, node' \in Running,
             UNCHANGED <<runner, shown>>,
             node' \in {"retrieve", "generate", "streaming"} => answer' = <<>>,
             Text' \in {Text, <<>>}
      PROVE  Ordered' /\ Streamed'
  <2>1. node # "stopped" /\ note \in Frame /\ note.event \notin {"sentinel", "token"}
    BY <1>0, <1>b DEF Running
  <2>2. \A i \in 1 .. Len(queue') :
          queue'[i].event = "sentinel" => i = Len(queue') /\ node' = "stopped"
    BY <1>b, <2>1, OrderedPut
  <2>3. Streamed'
    BY <1>b, <2>1, OtherStreamed
  <2>4. node' \notin {"idle", "prepare"}
    BY <1>b DEF GraphStep, Prepare, Retrieve, Generate, StreamToken, StreamEnds,
       StreamFails, Tools, Commit, Raise, PutSentinel
  <2> QED
    BY <1>a, <1>b, <2>2, <2>3, <2>4 DEF Ordered
<1>c. ASSUME UNCHANGED <<queue, runner, shown>>, node \in Running, node' \notin {"idle", "prepare"},
             node' \in {"retrieve", "generate", "streaming"} => answer' = <<>>,
             Text' \in {Text, <<>>}
      PROVE  Ordered' /\ Streamed'
  <2>1. Streamed'
    BY <1>c, SameStream
  <2>2. \A i \in 1 .. Len(queue') : queue'[i].event # "sentinel"
    BY <1>c DEF AnswerInv, Ordered, Running
  <2> QED
    BY <1>a, <1>c, <2>1, <2>2 DEF Ordered
<1>1. CASE Prepare
  BY <1>1, <1>b DEF Prepare, Running, AnswerInv, Ordered, Text
<1>2. CASE Retrieve
  BY <1>2, <1>b DEF Retrieve, Running, AnswerInv, Ordered, Text
<1>3. CASE Generate
  BY <1>3, <1>b DEF Generate, Running, AnswerInv, Ordered, Text
<1>4. CASE StreamToken
  <2> DEFINE n == step + 1
             frame == [event |-> "token", round |-> n]
  <2>1. /\ node = "streaming" /\ UNCHANGED <<node, answer, runner, shown>>
        /\ Emit(frame) /\ parts' = Append(parts, n) /\ n \in Rounds
    <3>1. step + 1 \in Rounds
      BY <1>4, TurnAssumption DEF StreamToken, AnswerInv, TurnInv, LoopBounded, TurnTypeOK, Rounds
    <3> QED
      BY <1>4, <3>1 DEF StreamToken
  <2> HIDE DEF n
  <2>2. frame \in Frame /\ frame.event = "token"
    BY <2>1 DEF Frame
  <2>3. Ordered'
    <3>1. \A i \in 1 .. Len(queue') :
            queue'[i].event = "sentinel" => i = Len(queue') /\ node' = "stopped"
      <4> HIDE DEF frame
      <4> QED
        BY <2>1, <2>2, OrderedPut
    <3> QED
      BY <1>a, <2>1, <3>1 DEF AnswerInv, Ordered, Running
  <2>4. PICK f \in Seq(Rounds) : Carries(queue, f) /\ IsSuffix(Text, shown \o f)
    BY DEF AnswerInv, Streamed
  <2>5. /\ queue \in Seq(Frame) /\ parts \in Seq(Rounds) /\ shown \in Seq(Rounds)
        /\ queue' = Append(queue, frame)
    BY <2>1 DEF AnswerInv, TurnInv, TurnTypeOK, Emit
  <2>6. Carries(queue', Append(f, n))
    BY <2>1, <2>4, <2>5, CarriesPutToken
  <2>7. IsSuffix(Append(parts, n), Append(shown \o f, n))
    <3>1. shown \o f \in Seq(Rounds) /\ IsSuffix(parts, shown \o f)
      BY <2>1, <2>4, <2>5 DEF Text
    <3> QED
      BY <2>1, <2>5, <3>1, SuffixAppend
  <2>8. Append(shown \o f, n) = shown' \o Append(f, n) /\ Append(f, n) \in Seq(Rounds)
    <3>1. Append(f, n) \in Seq(Rounds) /\ Append(f, n) = f \o <<n>> /\ <<n>> \in Seq(Rounds)
      BY <2>1, <2>4, AppendIsConcat
    <3>2. Append(shown \o f, n) = (shown \o f) \o <<n>>
      BY <2>1, <2>4, <2>5, AppendIsConcat
    <3>3. (shown \o f) \o <<n>> = shown \o (f \o <<n>>)
      <4>1. shown \in Seq(Rounds) /\ f \in Seq(Rounds) /\ <<n>> \in Seq(Rounds)
        BY <2>5, <3>1
      <4> HIDE DEF n
      <4> QED
        BY <4>1, Associative
    <3> QED
      BY <2>1, <3>1, <3>2, <3>3
  <2>9. Text' = Append(parts, n)
    BY <2>1 DEF Text
  <2> QED
    BY <2>3, <2>6, <2>7, <2>8, <2>9 DEF Streamed
<1>5. CASE StreamEnds
  <2>1. /\ node = "streaming" /\ node' \in {"tools", "commit"}
        /\ answer' \in {answer \o parts, parts, answer}
        /\ UNCHANGED <<parts, queue, runner, shown>>
    BY <1>5 DEF StreamEnds
  <2>2. answer = <<>> /\ parts \in Seq(Rounds)
    BY <2>1 DEF AnswerInv, TurnInv, TurnTypeOK, Ordered
  <2>3. answer \o parts = parts
    BY <2>2
  <2>4. Text' \in {Text, <<>>}
    BY <2>1, <2>2, <2>3 DEF Text
  <2> QED
    BY <1>c, <2>1, <2>4 DEF Running
<1>6. CASE StreamFails
  BY <1>6, <1>c DEF StreamFails, Running, Text
<1>7. CASE Tools
  BY <1>7, <1>b DEF Tools, Running, Text
<1>8. CASE Commit
  BY <1>8, <1>c DEF Commit, Running, Text
<1>9. CASE Raise
  <2>1. /\ node \in Running /\ node' = "sentinel"
        /\ UNCHANGED <<answer, parts, queue, runner, shown>>
    BY <1>9 DEF Raise
  <2>2. Text' \in {Text, <<>>}
    BY <2>1 DEF Text, AnswerInv, Ordered
  <2> QED
    BY <1>c, <2>1, <2>2
<1>10. CASE PutSentinel
  <2>1. /\ node = "sentinel" /\ node' = "stopped" /\ Emit(Sentinel)
        /\ UNCHANGED <<answer, parts, runner, shown>>
    BY <1>10 DEF PutSentinel
  <2>2. \A i \in 1 .. Len(queue') :
          queue'[i].event = "sentinel" => i = Len(queue') /\ node' = "stopped"
    BY <1>0, <2>1, OrderedPut
  <2>3. Streamed'
    BY <1>0, <2>1, OtherStreamed DEF Text
  <2> QED
    BY <1>a, <2>1, <2>2, <2>3 DEF Ordered
<1> QED
  BY <1>1, <1>2, <1>3, <1>4, <1>5, <1>6, <1>7, <1>8, <1>9, <1>10 DEF GraphStep

\* Every step of run_turn keeps it: what leaves the queue is shown.
LEMMA RunnerAnswer == AnswerInv /\ RunnerStep => Ordered' /\ Streamed'
<1> SUFFICES ASSUME AnswerInv, RunnerStep PROVE Ordered' /\ Streamed'
  OBVIOUS
<1> USE DEF graphVars, RunnerGoes
<1>a. ASSUME UNCHANGED <<node, answer, parts, queue, shown>>,
             runner' \in {"ending", "usage_sent", "persisting"}
               => runner \in {"ending", "usage_sent", "persisting"}
      PROVE  Ordered' /\ Streamed'
  <2>1. Text' = Text
    BY <1>a DEF Text
  <2>2. Streamed'
    BY <1>a, <2>1, SameStream
  <2> QED
    BY <1>a, <2>2 DEF AnswerInv, Ordered
<1>b. queue \in Seq(Frame) /\ shown \in Seq(Rounds)
  BY DEF AnswerInv, TurnInv, TurnTypeOK
<1>1. CASE Open
  BY <1>1, <1>a DEF Open
<1>2. CASE Launch
  <2>1. /\ node = "idle" /\ node' = "prepare" /\ runner' = "draining"
        /\ UNCHANGED <<answer, parts, queue, shown>>
    BY <1>2 DEF Launch, AnswerInv, TurnInv, LoopBounded
  <2>2. Streamed'
    BY <2>1, SameStream DEF Text
  <2> QED
    BY <2>1, <2>2 DEF AnswerInv, Ordered
<1>3. CASE Deliver
  <2>1. /\ runner = "draining" /\ runner' = "sending" /\ queue # <<>> /\ queue' = Tail(queue)
        /\ UNCHANGED <<node, answer, parts>>
        /\ shown' = IF queue[1].event = "token" THEN Append(shown, queue[1].round) ELSE shown
    BY <1>3, <1>b DEF Deliver
  <2>2. PICK f \in Seq(Rounds) : Carries(queue, f) /\ IsSuffix(Text, shown \o f)
    BY DEF AnswerInv, Streamed
  <2>3. /\ queue[1].event # "token" => Carries(queue', f)
        /\ queue[1].event = "token"
             => f # <<>> /\ queue[1].round = f[1] /\ Carries(queue', Tail(f))
    BY <1>b, <2>1, <2>2, CarriesTake
  <2>4. Text' = Text
    BY <2>1 DEF Text
  <2>5. Streamed'
    <3>1. CASE queue[1].event # "token"
      BY <2>1, <2>2, <2>3, <2>4, <3>1 DEF Streamed
    <3>2. CASE queue[1].event = "token"
      <4>1. shown' = Append(shown, f[1]) /\ Carries(queue', Tail(f)) /\ f # <<>>
        BY <2>1, <2>3, <3>2
      <4>2. Tail(f) \in Seq(Rounds) /\ shown' \o Tail(f) = shown \o f
        <5>1. f[1] \in Rounds /\ Tail(f) \in Seq(Rounds) /\ f = <<f[1]>> \o Tail(f)
              /\ <<f[1]>> \in Seq(Rounds)
          BY <2>2, <4>1
        <5>2. shown' = shown \o <<f[1]>>
          BY <1>b, <4>1, <5>1, AppendIsConcat
        <5>3. (shown \o <<f[1]>>) \o Tail(f) = shown \o (<<f[1]>> \o Tail(f))
          <6>1. /\ shown \in Seq(Rounds) /\ <<f[1]>> \in Seq(Rounds)
                /\ Tail(f) \in Seq(Rounds)
            BY <1>b, <5>1
          <6> QED
            BY <6>1, Associative
        <5> QED
          BY <5>1, <5>2, <5>3
      <4> QED
        BY <2>2, <2>4, <4>1, <4>2 DEF Streamed
    <3> QED
      BY <3>1, <3>2
  <2>6. \A i \in 1 .. Len(queue') :
          queue'[i].event = "sentinel" => i = Len(queue') /\ node' = "stopped"
    <3>1. /\ Len(queue) \in Nat /\ Len(queue') = Len(queue) - 1
          /\ \A i \in 1 .. Len(queue') : queue'[i] = queue[i + 1]
      BY <1>b, <2>1
    <3>2. \A i \in 1 .. Len(queue) : queue[i].event = "sentinel" => i = Len(queue) /\ node = "stopped"
      BY DEF AnswerInv, Ordered
    <3>3. \A i \in 1 .. Len(queue') : i + 1 \in 1 .. Len(queue) /\ i \in Nat
      BY <3>1
    <3> SUFFICES ASSUME NEW i \in 1 .. Len(queue'), queue'[i].event = "sentinel"
                 PROVE  i = Len(queue') /\ node' = "stopped"
      OBVIOUS
    <3>4. i + 1 = Len(queue) /\ node = "stopped"
      BY <3>1, <3>2, <3>3
    <3>5. i = Len(queue')
      BY <3>1, <3>3, <3>4
    <3>6. node' = "stopped"
      BY <2>1, <3>4
    <3> QED
      BY <3>5, <3>6
  <2> QED
    BY <2>1, <2>5, <2>6 DEF AnswerInv, Ordered
<1>4. CASE KeepAlive
  BY <1>4, <1>a DEF KeepAlive
<1>5. CASE Sent
  BY <1>5, <1>a DEF Sent
<1>6. CASE EndOfStream
  <2>1. /\ queue # <<>> /\ queue[1] = Sentinel /\ queue' = Tail(queue)
        /\ UNCHANGED <<node, answer, parts, shown>>
    BY <1>6, <1>b DEF EndOfStream
  <2>2. Len(queue) = 1 /\ node = "stopped"
    <3>1. 1 \in 1 .. Len(queue) /\ queue[1].event = "sentinel"
      BY <1>b, <2>1 DEF Sentinel
    <3> QED
      BY <3>1 DEF AnswerInv, Ordered
  <2>3. queue' = <<>>
    BY <1>b, <2>1, <2>2
  <2>4. PICK f \in Seq(Rounds) : Carries(queue, f) /\ IsSuffix(Text, shown \o f)
    BY DEF AnswerInv, Streamed
  <2>5. Carries(queue', f)
    BY <1>b, <2>1, <2>4, CarriesTake DEF Sentinel
  <2>6. Text' = Text
    BY <2>1 DEF Text
  <2>7. Streamed'
    BY <2>1, <2>4, <2>5, <2>6 DEF Streamed
  <2>8. \A i \in 1 .. Len(queue') :
          queue'[i].event = "sentinel" => i = Len(queue') /\ node' = "stopped"
    BY <2>3
  <2> QED
    BY <2>1, <2>2, <2>3, <2>7, <2>8 DEF AnswerInv, Ordered
<1>7. CASE SendError
  BY <1>7, <1>a DEF SendError
<1>8. CASE PersistError
  BY <1>8, <1>a DEF PersistError
<1>9. CASE SendUsage
  BY <1>9, <1>a DEF SendUsage
<1>10. CASE UsageSent
  BY <1>10, <1>a DEF UsageSent
<1>11. CASE PersistAnswer
  BY <1>11, <1>a DEF PersistAnswer
<1>12. CASE Title
  BY <1>12, <1>a DEF Title
<1>13. CASE SendDone
  BY <1>13, <1>a DEF SendDone
<1>14. CASE PostTurn
  BY <1>14, <1>a DEF PostTurn
<1> QED
  BY <1>1, <1>2, <1>3, <1>4, <1>5, <1>6, <1>7, <1>8, <1>9, <1>10, <1>11, <1>12, <1>13, <1>14
     DEF RunnerStep

\* A client that leaves keeps it: a generation cut short has not become an answer.
LEMMA LeavingAnswer ==
  AnswerInv /\ (Disconnect \/ CancelPut \/ TaskJoined) => Ordered' /\ Streamed'
<1> SUFFICES ASSUME AnswerInv, Disconnect \/ CancelPut \/ TaskJoined PROVE Ordered' /\ Streamed'
  OBVIOUS
<1>1. /\ UNCHANGED <<answer, parts, queue, shown>>
      /\ runner' \notin {"ending", "usage_sent", "persisting"}
      /\ node' = node \/ node' = "sentinel" \/ node' = "stopped"
      /\ node' = "sentinel" => node = "sentinel" \/ node \in Running
    BY DEF Disconnect, CancelDraining, DropSending, DropElsewhere, CancelPut, TaskJoined,
       graphVars, runnerVars, RunnerGoes
<1>2. Text' \in {Text, <<>>}
  BY <1>1 DEF Text, AnswerInv, Ordered
<1>3. Streamed'
  BY <1>1, <1>2, SameStream
<1>4. \A i \in 1 .. Len(queue') :
        queue'[i].event = "sentinel" => i = Len(queue') /\ node' = "stopped"
  BY <1>1 DEF AnswerInv, Ordered, Running
<1> QED
  BY <1>1, <1>3, <1>4 DEF AnswerInv, Ordered

\* The invariant is inductive.
LEMMA StepAnswer == AnswerInv /\ [Next]_vars => AnswerInv'
<1> SUFFICES ASSUME AnswerInv, [Next]_vars PROVE AnswerInv'
  OBVIOUS
<1>1. TurnInv'
  BY StepTurn DEF AnswerInv
<1>2. CASE Next
  BY <1>1, <1>2, GraphAnswer, RunnerAnswer, LeavingAnswer DEF Next, AnswerInv
<1>3. CASE UNCHANGED vars
  BY <1>1, <1>3 DEF AnswerInv, Ordered, Streamed, Text, vars, graphVars, runnerVars
<1> QED
  BY <1>2, <1>3

\* What is saved as the answer is the end of what the client was shown, for every
\* size of the queue and length of the generations (runner.py:91-151).
THEOREM AnswerWasShownHolds == Spec => []AnswerWasShown
<1>1. AnswerInv => AnswerWasShown
  <2> SUFFICES ASSUME AnswerInv, runner \in {"ending", "usage_sent", "persisting"}
               PROVE  IsSuffix(answer, shown)
    BY DEF AnswerWasShown
  <2>1. queue = <<>> /\ node = "stopped" /\ queue \in Seq(Frame) /\ shown \in Seq(Rounds)
    BY DEF AnswerInv, Ordered, TurnInv, TurnTypeOK
  <2>2. PICK f \in Seq(Rounds) : Carries(queue, f) /\ IsSuffix(answer, shown \o f)
    BY <2>1 DEF AnswerInv, Streamed, Text
  <2>3. f = <<>>
    <3>1. \A i \in 1 .. Len(queue) : queue[i].event # "token"
      BY <2>1
    <3> QED
      BY <2>1, <2>2, <3>1, CarriesNoToken
  <2> QED
    BY <2>1, <2>2, <2>3
<1> QED
  BY <1>1, InitAnswer, StepAnswer, PTL DEF Spec

=============================================================================
