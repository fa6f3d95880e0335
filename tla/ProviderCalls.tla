---------------------------- MODULE ProviderCalls ----------------------------
(***************************************************************************)
(* Calls of the cloud adapters to a provider: with_retry                   *)
(* (app/shared/retry.py) around the circuit breaker that all adapters of   *)
(* the provider share, as in aws.py:99, azure.py:219 and gcp.py:362.       *)
(*                                                                         *)
(* with_retry keeps nothing but its own counters and suspends only while   *)
(* the provider is called and while it sleeps; an attempt that the breaker *)
(* turns away fails without a suspension, so counting it and going to      *)
(* sleep are one step.  Retries and the recovery of the breaker run on one *)
(* clock.  The state of the breaker and its steps are those of             *)
(* CircuitBreaker, whose names this module keeps; its own start with Retry *)
(* where the two would meet.                                               *)
(***************************************************************************)
EXTENDS CircuitBreaker

CONSTANTS
    MaxAttempts,       \* RetryConfig.max_attempts
    BaseDelay,         \* RetryConfig.base_delay, in clock ticks
    RateLimitDelay,    \* the five seconds after a rate limit, in clock ticks
    MaxDelay           \* RetryConfig.max_delay, in clock ticks

ASSUME RetryAssumption ==
    /\ MaxAttempts \in Nat \ {0}
    /\ BaseDelay \in Nat /\ RateLimitDelay \in Nat /\ MaxDelay \in Nat

VARIABLES
    attempt,           \* RetryContext.attempt, 0 when no with_retry runs
    left,              \* what is left of the asyncio.sleep, in clock ticks
    healthy            \* the provider does not fail now

retry_vars == <<vars, attempt, left, healthy>>

RetryInit ==
    /\ Init
    /\ attempt = [k \in Calls |-> 0]
    /\ left = [k \in Calls |-> 0]
    /\ healthy = TRUE

-----------------------------------------------------------------------------
(* Mutants.                                                                *)

\* one attempt more than max_attempts
Exhausted_off_by_one(n) == n > MaxAttempts

\* a rejection by the breaker does not count as an attempt
TurnedAway_for_free(k) ==
    /\ left[k] = 0
    /\ Reject(k)
    /\ attempt' = [attempt EXCEPT ![k] = IF @ = 0 THEN 1 ELSE @]
    /\ UNCHANGED <<left, healthy>>

\* a retried rejection is put down as a failure of the provider just seen
TurnedAway_restarts_timeout(k) ==
    /\ left[k] = 0
    /\ call[k] = "idle"
    /\ Rejects
    /\ since' = 0
    /\ attempt' = [attempt EXCEPT ![k] = IF @ + 1 >= MaxAttempts THEN 0 ELSE @ + 1]
    /\ UNCHANGED <<state, failure_count, success_count, half_open_calls, failed,
                   call, stale, lost, left, healthy>>

-----------------------------------------------------------------------------
(* with_retry.                                                             *)

Exhausted(n) == n >= MaxAttempts

\* The delay after attempt n: exponential, capped, then cut by up to a quarter.
Delays(n, base) ==
    LET full == base * 2^(n - 1)
        delay == IF full < MaxDelay THEN full ELSE MaxDelay
    IN  {d \in 0..MaxDelay : (3 * delay) \div 4 <= d /\ d <= delay}

\* RetryExhaustedError, or an exception that is not retried: with_retry ends.
GiveUp(k) ==
    /\ attempt' = [attempt EXCEPT ![k] = 0]
    /\ UNCHANGED left

\* What becomes of k when its attempt n fails with an exception worth retrying.
Retry(k, n, bases) ==
    IF Exhausted(n)
    THEN GiveUp(k)
    ELSE /\ attempt' = [attempt EXCEPT ![k] = n]
         /\ \E base \in bases : \E d \in Delays(n, base) :
               left' = [left EXCEPT ![k] = d]

\* The next attempt, of a new call or of one that has slept, is let through.
Admitted(k) ==
    /\ left[k] = 0
    /\ Enter(k)
    /\ attempt' = [attempt EXCEPT ![k] = @ + 1]
    /\ UNCHANGED <<left, healthy>>

\* CircuitBreakerOpenError has status 503, which is worth retrying: being
\* turned away costs an attempt like any failure.
TurnedAway(k) ==
    /\ left[k] = 0
    /\ Reject(k)
    /\ Retry(k, attempt[k] + 1, {BaseDelay})
    /\ UNCHANGED healthy

Try(k) == Admitted(k) \/ TurnedAway(k)

Succeeded(k) ==
    /\ Succeed(k)
    /\ GiveUp(k)
    /\ UNCHANGED healthy

\* An exception the breaker counts; all of them are retried.
Failed(k) ==
    /\ ~healthy
    /\ FailTransient(k)
    /\ Retry(k, attempt[k], {BaseDelay, RateLimitDelay})
    /\ UNCHANGED healthy

\* An error of the SDK the breaker does not count but with_retry retries.
FailedOutsideBreaker(k) ==
    /\ FailOther(k)
    /\ Retry(k, attempt[k], {BaseDelay, RateLimitDelay})
    /\ UNCHANGED healthy

\* A BadRequestError, or the cancellation of the provider's call: not retried.
Refused(k) ==
    /\ FailOther(k)
    /\ GiveUp(k)
    /\ UNCHANGED healthy

Returned(k) == Succeeded(k) \/ Failed(k) \/ FailedOutsideBreaker(k) \/ Refused(k)

\* The task is cancelled in its sleep: the wait_for that a refresh or a read of
\* the expenses puts around the whole call of the adapter runs out, or the
\* server goes down.
Cancelled(k) ==
    /\ attempt[k] > 0 /\ call[k] = "idle"
    /\ attempt' = [attempt EXCEPT ![k] = 0]
    /\ left' = [left EXCEPT ![k] = 0]
    /\ UNCHANGED <<vars, healthy>>

\* One clock for the sleeps and the recovery timeout.
TimePasses ==
    /\ \/ Tick
       \/ /\ ~failed \/ since = RecoveryTimeout
          /\ \E k \in Calls : left[k] > 0
          /\ UNCHANGED vars
    /\ left' = [k \in Calls |-> IF left[k] > 0 THEN left[k] - 1 ELSE 0]
    /\ UNCHANGED <<attempt, healthy>>

\* The provider breaks down or comes back.
Outage ==
    /\ healthy' = ~healthy
    /\ UNCHANGED <<vars, attempt, left>>

RetryNext == (\E k \in Calls : Try(k) \/ Returned(k) \/ Cancelled(k))
             \/ TimePasses \/ Outage

RetrySpec == RetryInit /\ [][RetryNext]_retry_vars

\* Time passes, the provider answers, and with_retry is scheduled: calls that
\* have slept try again, and the refresh every hour brings new ones.
RetryFairness ==
    /\ WF_retry_vars(TimePasses)
    /\ \A k \in Calls : WF_retry_vars(Returned(k)) /\ WF_retry_vars(Try(k))

RetryFairSpec == RetrySpec /\ RetryFairness

-----------------------------------------------------------------------------
(* Properties.                                                             *)

\* Attempts stay within max_attempts and sleeps within max_delay; whoever is
\* with the provider has an attempt counted and does not sleep, and whoever
\* sleeps has an attempt left for when it wakes (retry.py:99-138).
RetryTypeOK ==
    /\ attempt \in [Calls -> 0..MaxAttempts]
    /\ left \in [Calls -> 0..MaxDelay]
    /\ call \in [Calls -> {"idle", "closed", "half_open"}]
    /\ healthy \in BOOLEAN
    /\ \A k \in Calls :
          /\ call[k] # "idle" => attempt[k] > 0 /\ left[k] = 0
          /\ call[k] = "idle" => attempt[k] < MaxAttempts
          /\ left[k] > 0 => attempt[k] > 0

\* Every call of an adapter ends, with a result or an exception, although it
\* is rejected, sleeps and competes with others for the probes of a half-open
\* circuit (retry.py:149-186).
CallEnds == \A k \in Calls : attempt[k] > 0 ~> attempt[k] = 0

\* When the provider is back for good the circuit closes, again and again if
\* need be, although the callers spend their attempts on rejections, unless a
\* probe ends with an exception the breaker does not expect
\* (retry.py:99-107, circuit_breaker.py:51-106).
RecoversWhenHealthy == <>[]healthy => []<>(state = "closed" \/ lost)
===============================================================================
