---------------------------- MODULE CircuitBreaker ----------------------------
(***************************************************************************)
(* The circuit breaker that guards the cloud provider APIs                 *)
(* (app/shared/circuit_breaker.py).                                        *)
(*                                                                         *)
(* The breaker's lock is never held across a suspension, so entering a     *)
(* call and accounting for its result are one step each; between the two   *)
(* the provider is being called and any other call may enter or return.    *)
(***************************************************************************)
EXTENDS Naturals, FiniteSets

CONSTANTS
    Calls,             \* calls that may be in flight together
    FailureThreshold,  \* failure_threshold
    SuccessThreshold,  \* success_threshold
    HalfOpenMaxCalls,  \* half_open_max_calls
    RecoveryTimeout,   \* recovery_timeout, in clock ticks
    MaxFailureCount,   \* bound: failure_count saturates here
    Outcomes           \* which of the outcomes of a provider call may happen

(***************************************************************************)
(* "transient": an exception the breaker expects; "other": an exception it *)
(* does not expect (a botocore ClientError, a BadRequestError, a           *)
(* cancellation).                                                          *)
(***************************************************************************)
ASSUME BreakerAssumption ==
    /\ IsFiniteSet(Calls)
    /\ FailureThreshold \in Nat \ {0}
    /\ SuccessThreshold \in Nat \ {0}
    /\ HalfOpenMaxCalls \in Nat
    /\ SuccessThreshold <= HalfOpenMaxCalls
    /\ RecoveryTimeout \in Nat
    /\ MaxFailureCount \in Nat
    /\ FailureThreshold <= MaxFailureCount
    /\ Outcomes \subseteq {"success", "transient", "other"}

VARIABLES
    state,            \* "closed", "open" or "half_open"
    failure_count,
    success_count,
    half_open_calls,
    failed,           \* last_failure_time is not None
    since,            \* ticks since last_failure_time, at most RecoveryTimeout
    call,             \* call[k]: "idle", or the state in which k was admitted
    stale,            \* history: calls in flight whose admission precedes the
                      \* breaker's last change of state
    lost              \* history: a probe of this half-open period ended with
                      \* an exception the breaker does not expect

breaker == <<state, failure_count, success_count, half_open_calls, failed, since>>
vars == <<breaker, call, stale, lost>>

Init ==
    /\ state = "closed"
    /\ failure_count = 0
    /\ success_count = 0
    /\ half_open_calls = 0
    /\ failed = FALSE
    /\ since = 0
    /\ call = [k \in Calls |-> "idle"]
    /\ stale = {}
    /\ lost = FALSE

-----------------------------------------------------------------------------
(* Mutants: plausible bugs, each put in the place of the definition it is  *)
(* named for to show that a property notices.  No specification uses them. *)

\* the limit of half-open calls is checked after one call too many
HalfOpenFull_off_by_one == half_open_calls > HalfOpenMaxCalls

\* the failure of a probe leaves the circuit half open
_on_failure_keeps_probing ==
    /\ failure_count' = IF failure_count < MaxFailureCount
                        THEN failure_count + 1 ELSE failure_count
    /\ failed' = TRUE
    /\ since' = 0
    /\ state' = IF state = "closed" /\ failure_count' >= FailureThreshold
                THEN "open" ELSE state
    /\ UNCHANGED <<success_count, half_open_calls>>

\* the circuit closes after one success too many
_on_success_off_by_one ==
    IF state = "half_open"
    THEN /\ success_count' = success_count + 1
         /\ state' = IF success_count' > SuccessThreshold THEN "closed" ELSE state
         /\ UNCHANGED <<failure_count, half_open_calls, failed, since>>
    ELSE /\ failure_count' = IF failure_count > 0 THEN failure_count - 1 ELSE 0
         /\ UNCHANGED <<state, success_count, half_open_calls, failed, since>>

\* a rejected call counts as a failure just seen
Reject_restarts_timeout(k) ==
    /\ call[k] = "idle"
    /\ state = "open" /\ since < RecoveryTimeout
    /\ since' = 0
    /\ UNCHANGED <<state, failure_count, success_count, half_open_calls, failed,
                   call, stale, lost>>

-----------------------------------------------------------------------------
(* The breaker.                                                            *)

_should_attempt_reset == ~failed \/ since >= RecoveryTimeout

HalfOpenFull == half_open_calls >= HalfOpenMaxCalls

_reset ==
    /\ state' = "closed"
    /\ failure_count' = 0
    /\ success_count' = 0
    /\ half_open_calls' = 0
    /\ failed' = FALSE
    /\ since' = 0

_on_success ==
    IF state = "half_open"
    THEN IF success_count + 1 >= SuccessThreshold
         THEN _reset
         ELSE /\ success_count' = success_count + 1
              /\ UNCHANGED <<state, failure_count, half_open_calls, failed, since>>
    ELSE /\ failure_count' = IF failure_count > 0 THEN failure_count - 1 ELSE 0
         /\ UNCHANGED <<state, success_count, half_open_calls, failed, since>>

\* Any failure restarts the recovery timeout, also one of an older call.
_on_failure ==
    /\ failure_count' = IF failure_count < MaxFailureCount
                        THEN failure_count + 1 ELSE failure_count
    /\ failed' = TRUE
    /\ since' = 0
    /\ state' = IF state = "half_open" \/ failure_count' >= FailureThreshold
                THEN "open" ELSE state
    /\ UNCHANGED <<success_count, half_open_calls>>

InFlight == {k \in Calls : call[k] # "idle"}

\* Calls in flight when the state changes are stale from then on.
Aged(gone) ==
    stale' = IF state' # state THEN InFlight \ gone ELSE stale \ gone

-----------------------------------------------------------------------------
(* CircuitBreaker.call: enter, then account for the result.                *)

EnterClosed(k) ==
    /\ call[k] = "idle"
    /\ state = "closed"
    /\ call' = [call EXCEPT ![k] = "closed"]
    /\ UNCHANGED <<breaker, stale, lost>>

\* The first call after the recovery timeout makes the circuit half open.
EnterOpen(k) ==
    /\ call[k] = "idle"
    /\ state = "open"
    /\ _should_attempt_reset
    /\ state' = "half_open"
    /\ half_open_calls' = 1
    /\ success_count' = 0
    /\ call' = [call EXCEPT ![k] = "half_open"]
    /\ Aged({})
    /\ lost' = FALSE
    /\ UNCHANGED <<failure_count, failed, since>>

EnterHalfOpen(k) ==
    /\ call[k] = "idle"
    /\ state = "half_open"
    /\ ~HalfOpenFull
    /\ half_open_calls' = half_open_calls + 1
    /\ call' = [call EXCEPT ![k] = "half_open"]
    /\ UNCHANGED <<state, failure_count, success_count, failed, since, stale, lost>>

\* CircuitBreakerOpenError is raised; the breaker stays as it is.
Rejects ==
    \/ state = "open" /\ ~_should_attempt_reset
    \/ state = "half_open" /\ HalfOpenFull

Reject(k) ==
    /\ call[k] = "idle"
    /\ Rejects
    /\ UNCHANGED vars

Enter(k) == EnterClosed(k) \/ EnterOpen(k) \/ EnterHalfOpen(k)

Succeed(k) ==
    /\ "success" \in Outcomes
    /\ call[k] # "idle"
    /\ _on_success
    /\ call' = [call EXCEPT ![k] = "idle"]
    /\ Aged({k})
    /\ UNCHANGED lost

FailTransient(k) ==
    /\ "transient" \in Outcomes
    /\ call[k] # "idle"
    /\ _on_failure
    /\ call' = [call EXCEPT ![k] = "idle"]
    /\ Aged({k})
    /\ UNCHANGED lost

\* An unexpected exception bypasses the breaker.
FailOther(k) ==
    /\ "other" \in Outcomes
    /\ call[k] # "idle"
    /\ call' = [call EXCEPT ![k] = "idle"]
    /\ stale' = stale \ {k}
    /\ lost' = (lost \/ (state = "half_open" /\ k \notin stale))
    /\ UNCHANGED breaker

Return(k) == Succeed(k) \/ FailTransient(k) \/ FailOther(k)

Tick ==
    /\ failed
    /\ since < RecoveryTimeout
    /\ since' = since + 1
    /\ UNCHANGED <<state, failure_count, success_count, half_open_calls, failed,
                   call, stale, lost>>

Next == (\E k \in Calls : Enter(k) \/ Reject(k) \/ Return(k)) \/ Tick

Spec == Init /\ [][Next]_vars

\* Time passes, provider calls return, and someone keeps calling: each slot
\* for a call is used again.
Fairness == WF_vars(Tick) /\ \A k \in Calls : WF_vars(Return(k)) /\ WF_vars(Enter(k))

FairSpec == Spec /\ Fairness

-----------------------------------------------------------------------------
(* Type invariant.                                                         *)

\* The fields of CircuitBreaker (circuit_breaker.py:28-49) in their ranges.
TypeOK ==
    /\ state \in {"closed", "open", "half_open"}
    /\ failure_count \in 0..MaxFailureCount
    /\ success_count \in 0..(SuccessThreshold - 1)
    /\ half_open_calls \in 0..HalfOpenMaxCalls
    /\ failed \in BOOLEAN
    /\ since \in 0..RecoveryTimeout
    /\ call \in [Calls -> {"idle", "closed", "half_open"}]
    /\ stale \in SUBSET Calls
    /\ lost \in BOOLEAN

-----------------------------------------------------------------------------
(* Safety.                                                                 *)

\* The probes of the present half-open period still in flight.
Probes == {k \in Calls : call[k] = "half_open" /\ k \notin stale}

\* A recovering provider never has more than half_open_max_calls probes of
\* one half-open period in flight, whatever older calls are still out
\* (circuit_breaker.py:54-67).
ProbesBounded ==
    state = "half_open" => Cardinality(Probes) <= HalfOpenMaxCalls

\* A circuit that is not closed knows when it failed, so the recovery timeout
\* applies to it; late results of calls admitted in an earlier state must not
\* erase that (circuit_breaker.py:89-121).
OpenRemembersFailure == state # "closed" => failed

\* Half-open ends: a circuit that turns callers away because its probes are
\* used up still has one out whose result decides, unless one of them ended
\* with an exception the breaker does not expect (circuit_breaker.py:64-67,
\* 78-106).
FullHalfOpenHasProbe ==
    state = "half_open" /\ HalfOpenFull => Probes # {} \/ lost

\* The circuit moves from closed to open, from open to half open, and only
\* from half open back to closed: results that arrive late, from calls
\* admitted in another state, take no short cut (circuit_breaker.py:51-106).
OnlyThroughHalfOpen ==
    [][/\ state = "closed" => state' # "half_open"
       /\ state = "open" => state' # "closed"]_state

-----------------------------------------------------------------------------
(* Liveness, under Fairness.                                               *)

\* A half-open circuit closes or opens, unless a probe ended with an exception
\* the breaker does not expect (circuit_breaker.py:64-67, 78-106).
HalfOpenIsDecided == state = "half_open" ~> state # "half_open" \/ lost

\* An open circuit is eventually probed, although failures of older calls
\* restart its recovery timeout (circuit_breaker.py:54-63, 93).
OpenIsProbed == state = "open" ~> state = "half_open"
===============================================================================
