------------------------- MODULE RedisCircuitBreaker -------------------------
(***************************************************************************)
(* RedisCircuitBreaker of infrastructure/redis/circuit_breaker.py.          *)
(*                                                                         *)
(* call() decides under an asyncio lock, runs the function outside it and   *)
(* records the outcome under it again: any number of calls are in flight    *)
(* while the state changes.  A locked section has no await, so it is one    *)
(* step.  Time is one bit: whether recovery_timeout has passed since        *)
(* last_failure_time.                                                       *)
(***************************************************************************)
EXTENDS Naturals

CONSTANTS
  Callers,           \* coroutines that use the breaker
  FailureThreshold,  \* config.failure_threshold
  SuccessThreshold   \* config.success_threshold

ASSUME BreakerAssumption ==
  /\ FailureThreshold \in Nat \ {0}
  /\ SuccessThreshold \in Nat \ {0}

VARIABLES
  state,         \* self.state
  failureCount,  \* self.failure_count
  successCount,  \* self.success_count
  cooling,       \* last_failure_time is set and recovery_timeout not over
  calling,       \* callers whose function is running
  healthy,       \* environment: Redis answers
  troubled,      \* calls that met a Redis that did not
  streak         \* history: successes recorded since the last failure or
                 \* reset, counted up to SuccessThreshold

counters == <<failureCount, successCount>>
inFlight == <<calling, troubled>>
vars == <<state, counters, cooling, inFlight, healthy, streak>>

States == {"closed", "open", "half_open"}

-----------------------------------------------------------------------------
(* call() *)

\* The circuit is open and _should_attempt_reset says no.
CallRejected(c) ==
  /\ c \notin calling
  /\ state = "open" /\ cooling
  /\ UNCHANGED vars

CallStarts(c) ==
  /\ c \notin calling
  /\ state = "open" => ~ cooling
  /\ state' = IF state = "open" THEN "half_open" ELSE state
  /\ calling' = calling \cup {c}
  /\ troubled' = IF healthy THEN troubled ELSE troubled \cup {c}
  /\ UNCHANGED <<counters, cooling, healthy, streak>>

Enough == successCount + 1 >= SuccessThreshold

\* mutant: half-open successes are not counted
ForgetSuccess == UNCHANGED successCount

CountSuccess == successCount' = successCount + 1

\* mutant: the closed circuit counts below zero
DecayBelowZero == failureCount' = failureCount - 1

\* max(0, failure_count - 1)
Decay == failureCount' = IF failureCount > 0 THEN failureCount - 1 ELSE 0

\* _record_success: the state it finds may not be the one the call began in.
RecordSuccess ==
  /\ \/ /\ state = "half_open" /\ Enough
        /\ state' = "closed" /\ failureCount' = 0 /\ successCount' = 0
     \/ /\ state = "half_open" /\ ~ Enough
        /\ CountSuccess
        /\ UNCHANGED <<state, failureCount>>
     \/ state = "closed" /\ Decay /\ UNCHANGED <<state, successCount>>
     \/ state = "open" /\ UNCHANGED <<state, counters>>
  /\ streak' = IF streak < SuccessThreshold THEN streak + 1 ELSE streak
  /\ UNCHANGED cooling

\* mutant: the half-open successes survive the failure
ReopenKeepingSuccesses == state' = "open" /\ UNCHANGED counters

Reopen == state' = "open" /\ successCount' = 0 /\ UNCHANGED failureCount

\* mutant: the failure that reaches the threshold is not counted
TripUncounted ==
  IF failureCount + 1 >= FailureThreshold
  THEN state' = "open" /\ UNCHANGED counters
  ELSE failureCount' = failureCount + 1 /\ UNCHANGED <<state, successCount>>

CountFailure ==
  /\ failureCount' = failureCount + 1
  /\ state' = IF failureCount + 1 >= FailureThreshold THEN "open" ELSE state
  /\ UNCHANGED successCount

\* _record_failure: while the circuit is open it only renews the time.
RecordFailure ==
  /\ \/ state = "half_open" /\ Reopen
     \/ state = "closed" /\ CountFailure
     \/ state = "open" /\ UNCHANGED <<state, counters>>
  /\ cooling' = TRUE
  /\ streak' = 0

CallEnds(c) ==
  /\ c \in calling
  /\ calling' = calling \ {c}
  /\ troubled' = troubled \ {c}
  /\ UNCHANGED healthy

CallSucceeds(c) == CallEnds(c) /\ RecordSuccess

\* One of failure_exceptions, or operation_timeout is over: possibly long
\* after Redis is well again.
CallFails(c) == c \in troubled /\ CallEnds(c) /\ RecordFailure

\* Another exception, or the caller is cancelled: nothing is recorded.
CallUnrecorded(c) ==
  CallEnds(c) /\ UNCHANGED <<state, counters, cooling, streak>>

-----------------------------------------------------------------------------
(* reset() and the environment *)

ResetBreaker ==
  /\ state' = "closed"
  /\ failureCount' = 0 /\ successCount' = 0
  /\ cooling' = FALSE
  /\ streak' = 0
  /\ UNCHANGED <<inFlight, healthy>>

RecoveryTimeoutElapses ==
  /\ cooling
  /\ cooling' = FALSE
  /\ UNCHANGED <<state, counters, inFlight, healthy, streak>>

HealthChanges ==
  /\ healthy' = ~ healthy
  /\ troubled' = IF healthy THEN calling ELSE troubled
  /\ UNCHANGED <<state, counters, cooling, calling, streak>>

-----------------------------------------------------------------------------
Init ==
  /\ state = "closed"
  /\ failureCount = 0 /\ successCount = 0
  /\ cooling = FALSE
  /\ calling = {} /\ troubled = {}
  /\ healthy = TRUE
  /\ streak = 0

Call(c) == CallRejected(c) \/ CallStarts(c)
Finish(c) == CallSucceeds(c) \/ CallFails(c) \/ CallUnrecorded(c)

Next ==
  \/ \E c \in Callers : Call(c) \/ Finish(c)
  \/ ResetBreaker \/ RecoveryTimeoutElapses \/ HealthChanges

Spec == Init /\ [][Next]_vars

\* Callers keep calling, every call ends (operation_timeout bounds it) and
\* recovery_timeout passes while nothing renews it.  SF: a caller is not
\* cancelled in every one of its calls.
FairSpec ==
  /\ Spec
  /\ \A c \in Callers :
       WF_vars(Call(c)) /\ SF_vars(CallSucceeds(c) \/ CallFails(c))
  /\ WF_vars(RecoveryTimeoutElapses)

-----------------------------------------------------------------------------
(* Properties *)

\* Every variable keeps its type.
TypeOK ==
  /\ state \in States
  /\ failureCount \in Nat /\ successCount \in Nat
  /\ cooling \in BOOLEAN
  /\ calling \subseteq Callers /\ troubled \subseteq calling
  /\ healthy \in BOOLEAN
  /\ streak \in 0..SuccessThreshold

\* The counters agree with the state whatever calls were in flight when it
\* changed: a closed circuit is below the failure threshold, an open or
\* half-open one stands exactly at it, and successes are only counted while
\* half-open and below their threshold.
CountersMatchState ==
  /\ state = "closed" => failureCount < FailureThreshold /\ successCount = 0
  /\ state = "open" => failureCount = FailureThreshold /\ successCount = 0
  /\ state = "half_open" => /\ failureCount = FailureThreshold
                            /\ successCount < SuccessThreshold

\* The circuit closes by itself only when the last SuccessThreshold recorded
\* outcomes were successes: late failures of calls begun before the circuit
\* opened, and several calls testing at once, cannot shorten that.
ClosesOnStreak ==
  [][state = "half_open" /\ state' = "closed" /\ calling' # calling
       => streak' >= SuccessThreshold]_vars

\* When Redis is healthy for good, the circuit ends up closed for good: refused
\* calls do not postpone the test, and every failure still in flight is the
\* last of its call.
CircuitRecovers == <>[]healthy => <>[](state = "closed")
=============================================================================
