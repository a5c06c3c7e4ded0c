--------------------------- MODULE CircuitBreaker ---------------------------
(***************************************************************************)
(* The circuit breaker of backend/app/services/resilience.py: one breaker, *)
(* shared by every coroutine of the process that talks to one provider.    *)
(* Each method body runs under the breaker's asyncio.Lock without awaiting *)
(* inside it, so a method is one atomic step; what interleaves are the     *)
(* provider calls between `_before_call` and `record_*`, which may outlive *)
(* any number of state changes of the breaker.                             *)
(***************************************************************************)
EXTENDS Naturals, FiniteSets

CONSTANTS
  Calls,             \* slots for the provider calls in flight at one time
  FailureThreshold,  \* BreakerConfig.failure_threshold
  SuccessThreshold,  \* BreakerConfig.success_threshold
  Recovery,          \* BreakerConfig.recovery_seconds, in ticks
  Replies,           \* the ways a provider call can end
  Report             \* what the client reports to the breaker for each reply

Outcomes == {"success", "failure", "none"}

ASSUME BreakerAssumption ==
  /\ FailureThreshold \in Nat \ {0}
  /\ SuccessThreshold \in Nat \ {0}
  /\ Recovery \in Nat \ {0}
  /\ Report \in [Replies -> Outcomes]

VARIABLES
  state,      \* BreakerStats.state
  failures,   \* BreakerStats.failures, saturating at FailureThreshold
  successes,  \* BreakerStats.successes
  elapsed,    \* now - opened_at, saturating at Recovery
  call,       \* per slot: "idle", or the state of the breaker that admitted it
  badRun,     \* history: consecutive failures reported, whatever the state
  goodRun     \* history: consecutive successes reported, whatever the state

vars == <<state, failures, successes, elapsed, call, badRun, goodRun>>
history == <<badRun, goodRun>>

\* The code only ever asks whether a counter has reached its threshold, so the
\* model counts up to the threshold and stays there.
Count(n, limit) == IF n < limit THEN n + 1 ELSE limit

TypeOK ==
  /\ state \in {"closed", "open", "half_open"}
  /\ failures \in 0..FailureThreshold
  /\ successes \in 0..SuccessThreshold
  /\ elapsed \in 0..Recovery
  /\ call \in [Calls -> {"idle", "closed", "half_open"}]
  /\ badRun \in 0..FailureThreshold
  /\ goodRun \in 0..SuccessThreshold

Init ==
  /\ state = "closed"
  /\ failures = 0
  /\ successes = 0
  /\ elapsed = 0
  /\ call = [c \in Calls |-> "idle"]
  /\ badRun = 0
  /\ goodRun = 0

-----------------------------------------------------------------------------
(* `_before_call`: the three ways it can go. *)

\* Mutant: every admission while half open starts the count of successes anew.
AdmitResettingSuccesses(c) ==
  /\ call[c] = "idle"
  /\ state # "open"
  /\ successes' = 0
  /\ call' = [call EXCEPT ![c] = state]
  /\ UNCHANGED <<state, failures, elapsed, history>>

Admit(c) ==
  /\ call[c] = "idle"
  /\ state # "open"
  /\ call' = [call EXCEPT ![c] = state]
  /\ UNCHANGED <<state, failures, successes, elapsed, history>>

Probe(c) ==
  /\ call[c] = "idle"
  /\ state = "open"
  /\ elapsed = Recovery
  /\ state' = "half_open"
  /\ successes' = 0
  /\ call' = [call EXCEPT ![c] = "half_open"]
  /\ UNCHANGED <<failures, elapsed, history>>

\* Mutant: a rejected call counts as a failure and restarts the clock.
RejectRestartingClock(c) ==
  /\ call[c] = "idle"
  /\ state = "open"
  /\ elapsed < Recovery
  /\ elapsed' = 0
  /\ UNCHANGED <<state, failures, successes, call, history>>

\* CircuitOpen is raised; only the statistics counters change.
Reject(c) ==
  /\ call[c] = "idle"
  /\ state = "open"
  /\ elapsed < Recovery
  /\ UNCHANGED vars

BeforeCall(c) == Admit(c) \/ Probe(c) \/ Reject(c)

-----------------------------------------------------------------------------
(* `record_success` and `record_failure`. *)

\* Mutant: a success between two failures is forgotten.
RecordSuccessWithoutReset ==
  /\ IF state = "half_open"
     THEN IF Count(successes, SuccessThreshold) = SuccessThreshold
          THEN state' = "closed" /\ failures' = 0 /\ successes' = 0
          ELSE successes' = successes + 1 /\ UNCHANGED <<state, failures>>
     ELSE UNCHANGED <<state, successes, failures>>
  /\ UNCHANGED elapsed
\* Mutant: recovery does not forget the failures of the outage.
RecordSuccessKeepingFailures ==
  /\ IF state = "half_open"
     THEN IF Count(successes, SuccessThreshold) = SuccessThreshold
          THEN state' = "closed" /\ successes' = 0 /\ UNCHANGED failures
          ELSE successes' = successes + 1 /\ UNCHANGED <<state, failures>>
     ELSE failures' = 0 /\ UNCHANGED <<state, successes>>
  /\ UNCHANGED elapsed
\* Mutant: a failed probe is just one more failure.
RecordFailureOfAProbe ==
  /\ failures' = Count(failures, FailureThreshold)
  /\ IF failures' = FailureThreshold /\ state # "half_open"
     THEN state' = "open" /\ elapsed' = 0
     ELSE UNCHANGED <<state, elapsed>>
  /\ UNCHANGED successes

RecordSuccess ==
  /\ IF state = "half_open"
     THEN IF Count(successes, SuccessThreshold) = SuccessThreshold
          THEN state' = "closed" /\ failures' = 0 /\ successes' = 0
          ELSE successes' = successes + 1 /\ UNCHANGED <<state, failures>>
     ELSE failures' = 0 /\ UNCHANGED <<state, successes>>
  /\ UNCHANGED elapsed

RecordFailure ==
  IF state = "half_open"
  THEN /\ state' = "open"
       /\ elapsed' = 0
       /\ successes' = 0
       /\ UNCHANGED failures
  ELSE /\ failures' = Count(failures, FailureThreshold)
       /\ IF failures' = FailureThreshold
          THEN state' = "open" /\ elapsed' = 0
          ELSE UNCHANGED <<state, elapsed>>
       /\ UNCHANGED successes

Succeeded ==
  /\ RecordSuccess
  /\ badRun' = 0
  /\ goodRun' = Count(goodRun, SuccessThreshold)

Failed ==
  /\ RecordFailure
  /\ goodRun' = 0
  /\ badRun' = Count(badRun, FailureThreshold)

\* The provider call of slot c ends with a reply and its client reports it.
Finish(c, reply) ==
  /\ call[c] # "idle"
  /\ \/ Report[reply] = "success" /\ Succeeded
     \/ Report[reply] = "failure" /\ Failed
     \/ Report[reply] = "none" /\ UNCHANGED <<state, failures, successes, elapsed, history>>
  /\ call' = [call EXCEPT ![c] = "idle"]

\* time.monotonic() advances; only an open breaker looks at it.
Tick ==
  /\ state = "open"
  /\ elapsed < Recovery
  /\ elapsed' = elapsed + 1
  /\ UNCHANGED <<state, failures, successes, call, history>>

Next ==
  \/ Tick
  \/ \E c \in Calls : BeforeCall(c) \/ \E reply \in Replies : Finish(c, reply)

Spec == Init /\ [][Next]_vars

\* The clock runs, and a call in flight ends: every client of a breaker has a
\* request timeout. Nothing is assumed about new calls.
FairSpec ==
  /\ Spec
  /\ WF_vars(Tick)
  /\ \A c \in Calls : WF_vars(\E reply \in Replies : Finish(c, reply))

\* An assumption of one property, not of the specification: users keep calling,
\* and are not all disconnected before the provider answers them.
Traffic ==
  \A c \in Calls : /\ SF_vars(Admit(c) \/ Probe(c))
                   /\ SF_vars(\E r \in Replies : Report[r] = "success" /\ Finish(c, r))

-----------------------------------------------------------------------------
(* Correctness. *)

\* While the circuit is closed, `failures` is exactly the number of failures
\* reported since the last success, in whatever state they were reported: a
\* recovery leaves nothing behind that would trip the next blip early.
StreakExact ==
  state = "closed" => failures = badRun /\ failures < FailureThreshold

\* The circuit goes from closed to open only when the last FailureThreshold
\* reports were all failures ("Only *consecutive* failures count", L116), even
\* with reports of calls that were admitted before the previous outage.
TripJustified ==
  [][state = "closed" /\ state' = "open" => badRun' = FailureThreshold]_vars

\* The circuit closes only when the last SuccessThreshold reports, from any
\* call, were all successes: one failure in between sends it back to open.
CloseJustified ==
  [][state # "closed" /\ state' = "closed" => goodRun' = SuccessThreshold]_vars

\* The successes that the half-open circuit has counted were reported in a row;
\* with StreakExact the strengthening that makes the two action properties follow.
CountedInARow ==
  state = "half_open" => successes <= goodRun /\ successes < SuccessThreshold

\* An open circuit gets to the point where the next caller may probe, although
\* the calls still in flight when it opened can each restart its clock.
ReachesProbe == state = "open" ~> (state = "open" /\ elapsed = Recovery)

\* Under continuing traffic, once the provider stops failing the circuit closes
\* for good, however many late reports and abandoned calls there were.
Failing == \E c \in Calls, r \in Replies : Report[r] = "failure" /\ Finish(c, r)
RecoversWhenHealthy == Traffic /\ <>[][~Failing]_vars => <>[](state = "closed")

\* The state's comment (L37): "probing, one call allowed through".
OneProbe ==
  state = "half_open" => Cardinality({c \in Calls : call[c] = "half_open"}) <= 1
=============================================================================
