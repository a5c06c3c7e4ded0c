------------------------ MODULE CircuitBreakerProofs ------------------------
(***************************************************************************)
(* For every number of concurrent calls and every threshold: the breaker's *)
(* counters mean what its comments say, it trips and closes only on runs   *)
(* of reports of the required length, whatever a client reports for what.  *)
(***************************************************************************)
EXTENDS CircuitBreaker, TLAPS

\* The inductive invariant. The counters the code keeps are tied to the runs of
\* reports that history remembers; StreakExact needs the types alone, while
\* CountedInARow needs that every failure leaves half_open.
BreakerInv == TypeOK /\ StreakExact /\ CountedInARow

\* A saturating count stays in its range, does not jump, and reaches its limit
\* only from the value just below it or from the limit itself.
LEMMA CountRange ==
  ASSUME NEW limit \in Nat \ {0}, NEW n \in 0..limit
  PROVE  /\ Count(n, limit) \in 0..limit
         /\ n < limit => Count(n, limit) = n + 1
         /\ n <= Count(n, limit)
  BY DEF Count

\* The initial state satisfies the inductive invariant.
LEMMA BreakerInit == Init => BreakerInv
  BY BreakerAssumption DEF Init, BreakerInv, TypeOK, StreakExact, CountedInARow

\* A report of a success preserves the counters' meaning.
LEMMA SucceededInv ==
  ASSUME BreakerInv, NEW c \in Calls, Succeeded,
         call' = [call EXCEPT ![c] = "idle"]
  PROVE  BreakerInv'
  <1> USE BreakerAssumption, CountRange DEF BreakerInv, TypeOK, Succeeded
  <1>1. TypeOK'
    BY SMTT(30) DEF RecordSuccess
  <1>2. StreakExact'
    BY DEF StreakExact, RecordSuccess
  <1>3. CountedInARow'
    <2>1. CASE state = "half_open"
      BY <2>1 DEF CountedInARow, RecordSuccess, Count
    <2>2. CASE state # "half_open"
      BY <2>2 DEF CountedInARow, RecordSuccess
    <2>3. QED BY <2>1, <2>2
  <1>4. QED BY <1>1, <1>2, <1>3

\* A report of a failure preserves it too.
LEMMA FailedInv ==
  ASSUME BreakerInv, NEW c \in Calls, Failed,
         call' = [call EXCEPT ![c] = "idle"]
  PROVE  BreakerInv'
  <1> USE BreakerAssumption, CountRange DEF BreakerInv, TypeOK, Failed
  <1>1. TypeOK'
    BY DEF RecordFailure
  <1>2. StreakExact'
    BY DEF StreakExact, RecordFailure, Count
  <1>3. CountedInARow'
    BY DEF CountedInARow, RecordFailure
  <1>4. QED BY <1>1, <1>2, <1>3

\* Every step preserves the inductive invariant.
LEMMA BreakerStep == BreakerInv /\ [Next]_vars => BreakerInv'
  <1> SUFFICES ASSUME BreakerInv, [Next]_vars PROVE BreakerInv'
    OBVIOUS
  <1> USE BreakerAssumption DEF BreakerInv, TypeOK, StreakExact, CountedInARow, history
  <1>1. CASE Tick
    BY <1>1 DEF Tick
  <1>2. ASSUME NEW c \in Calls, BeforeCall(c) PROVE BreakerInv'
    <2>1. CASE Admit(c)
      BY <2>1 DEF Admit
    <2>2. CASE Probe(c)
      BY <2>2 DEF Probe
    <2>3. CASE Reject(c)
      BY <2>3 DEF Reject, vars
    <2>4. QED BY <1>2, <2>1, <2>2, <2>3 DEF BeforeCall
  <1>3. ASSUME NEW c \in Calls, NEW reply \in Replies, Finish(c, reply)
        PROVE  BreakerInv'
    <2>1. call' = [call EXCEPT ![c] = "idle"]
      BY <1>3 DEF Finish
    <2>2. CASE Succeeded
      BY <2>1, <2>2, SucceededInv
    <2>3. CASE Failed
      BY <2>1, <2>3, FailedInv
    <2>4. CASE UNCHANGED <<state, failures, successes, elapsed, history>>
      BY <2>1, <2>4
    <2>5. QED BY <1>3, <2>2, <2>3, <2>4 DEF Finish
  <1>4. CASE UNCHANGED vars
    BY <1>4 DEF vars
  <1>5. QED BY <1>1, <1>2, <1>3, <1>4 DEF Next

\* In every reachable state the breaker satisfies the inductive invariant.
THEOREM BreakerInvariant == Spec => []BreakerInv
  BY BreakerInit, BreakerStep, PTL DEF Spec

\* Counters stay within their thresholds, and calls within their states.
THEOREM TypeOKHolds == Spec => []TypeOK
  <1>1. BreakerInv => TypeOK
    BY DEF BreakerInv
  <1>2. QED BY <1>1, BreakerInvariant, PTL

\* `failures` of a closed circuit is exactly the current run of failures.
THEOREM StreakExactHolds == Spec => []StreakExact
  <1>1. BreakerInv => StreakExact
    BY DEF BreakerInv
  <1>2. QED BY <1>1, BreakerInvariant, PTL

\* The circuit trips only on a run of FailureThreshold failures.
THEOREM TripJustifiedHolds == Spec => TripJustified
  <1>1. BreakerInv /\ [Next]_vars
          => [state = "closed" /\ state' = "open" => badRun' = FailureThreshold]_vars
    <2> SUFFICES ASSUME BreakerInv, Next, state = "closed", state' = "open"
                 PROVE  badRun' = FailureThreshold
      OBVIOUS
    <2>1. PICK c \in Calls, reply \in Replies : Finish(c, reply)
      BY DEF Next, BeforeCall, Tick, Admit, Probe, Reject, vars
    <2>2. Failed
      BY <2>1 DEF Finish, Succeeded, RecordSuccess
    <2>3. QED
      BY <2>2, BreakerAssumption
         DEF Failed, RecordFailure, BreakerInv, TypeOK, StreakExact, Count
  <1>2. QED BY <1>1, BreakerInvariant, PTL DEF Spec, TripJustified

\* The circuit closes only on a run of SuccessThreshold successes.
THEOREM CloseJustifiedHolds == Spec => CloseJustified
  <1>1. BreakerInv /\ [Next]_vars
          => [state # "closed" /\ state' = "closed" => goodRun' = SuccessThreshold]_vars
    <2> SUFFICES ASSUME BreakerInv, Next, state # "closed", state' = "closed"
                 PROVE  goodRun' = SuccessThreshold
      OBVIOUS
    <2>1. PICK c \in Calls, reply \in Replies : Finish(c, reply)
      BY DEF Next, BeforeCall, Tick, Admit, Probe, Reject, vars
    <2>2. Succeeded
      BY <2>1 DEF Finish, Failed, RecordFailure
    <2>3. QED
      BY <2>2, BreakerAssumption
         DEF Succeeded, RecordSuccess, BreakerInv, TypeOK, CountedInARow, Count
  <1>2. QED BY <1>1, BreakerInvariant, PTL DEF Spec, CloseJustified
=============================================================================
