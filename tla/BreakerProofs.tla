--------------------------- MODULE BreakerProofs ---------------------------
(***************************************************************************)
(* Proofs about the circuit breaker and about the retried calls behind it, *)
(* for any number of concurrent calls, any thresholds and any recovery     *)
(* timeout, and any retry configuration.                                   *)
(***************************************************************************)
EXTENDS ProviderCalls, FiniteSetTheorems, TLAPS

\* Stale calls are in flight; probes are counted by half_open_calls.
Inv ==
    /\ TypeOK
    /\ stale \subseteq InFlight
    /\ OpenRemembersFailure
    /\ state = "half_open" => Cardinality(Probes) <= half_open_calls

LEMMA ProbesFinite == Cardinality(Probes) \in Nat /\ IsFiniteSet(Probes)
<1>1. Probes \subseteq Calls  BY DEF Probes
<1>. QED  BY <1>1, BreakerAssumption, FS_Subset, FS_CardinalityType

\* A call that leaves takes at most itself from the probes.
LEMMA ProbeLeaves ==
    ASSUME TypeOK, NEW k \in Calls, call' = [call EXCEPT ![k] = "idle"],
           stale' = stale \ {k}
    PROVE  /\ IsFiniteSet(Probes')
           /\ Cardinality(Probes') \in Nat
           /\ Cardinality(Probes') <= Cardinality(Probes)
           /\ Cardinality(Probes) <= Cardinality(Probes') + 1
<1>1. Probes' = Probes \ {k}  BY DEF Probes, TypeOK
<1>2. CASE k \in Probes
  <2>1. Cardinality(Probes \ {k}) = Cardinality(Probes) - 1 /\ IsFiniteSet(Probes \ {k})
    BY <1>2, ProbesFinite, FS_RemoveElement
  <2>2. Cardinality(Probes \ {k}) \in Nat  BY <2>1, FS_CardinalityType
  <2>. QED  BY <1>1, <2>1, <2>2, ProbesFinite
<1>3. CASE k \notin Probes
  <2>1. Probes' = Probes  BY <1>1, <1>3
  <2>. QED  BY <2>1, ProbesFinite
<1>. QED  BY <1>2, <1>3

\* A call that enters a half-open circuit is one more probe.
LEMMA ProbeEnters ==
    ASSUME Inv, NEW k \in Calls, call[k] = "idle",
           call' = [call EXCEPT ![k] = "half_open"], stale' = stale
    PROVE  /\ IsFiniteSet(Probes')
           /\ Cardinality(Probes') = Cardinality(Probes) + 1
<1>1. k \notin stale  BY DEF Inv, InFlight
<1>2. Probes' = Probes \cup {k} /\ k \notin Probes
  BY <1>1 DEF Probes, Inv, TypeOK
<1>. QED  BY <1>2, ProbesFinite, FS_AddElement

\* The call that makes the circuit half open is its first and only probe.
LEMMA FirstProbe ==
    ASSUME TypeOK, NEW k \in Calls, EnterOpen(k)
    PROVE  Probes' = {k} /\ Cardinality(Probes') = 1
<1>1. stale' = InFlight /\ k \notin InFlight  BY DEF EnterOpen, Aged, InFlight
<1>2. Probes' = {k}  BY <1>1 DEF Probes, EnterOpen, InFlight, TypeOK
<1>. QED  BY <1>2, FS_Singleton

-----------------------------------------------------------------------------
LEMMA InitInv == Init => Inv
<1>. SUFFICES ASSUME Init PROVE Inv  OBVIOUS
<1>1. 0 \in 0..(SuccessThreshold - 1) /\ 0 \in 0..HalfOpenMaxCalls
      /\ 0 \in 0..MaxFailureCount /\ 0 \in 0..RecoveryTimeout
  BY BreakerAssumption
<1>2. TypeOK  BY <1>1 DEF Init, TypeOK
<1>. QED  BY <1>2 DEF Inv, Init, InFlight, OpenRemembersFailure

LEMMA EnterPreserves ==
    ASSUME Inv, NEW k \in Calls, Enter(k)
    PROVE  Inv'
<1>. USE BreakerAssumption DEF Inv
<1>1. CASE EnterClosed(k)
  <2>1. TypeOK'  BY <1>1 DEF EnterClosed, TypeOK, breaker
  <2>2. (stale \subseteq InFlight)'
    BY <1>1 DEF EnterClosed, InFlight, TypeOK, breaker
  <2>. QED
    BY <1>1, <2>1, <2>2 DEF EnterClosed, OpenRemembersFailure, breaker
<1>2. CASE EnterOpen(k)
  <2>0. lost' \in BOOLEAN  BY <1>2 DEF EnterOpen
  <2>1. TypeOK'  BY <1>2, <2>0 DEF EnterOpen, TypeOK, Aged, InFlight
  <2>2. (stale \subseteq InFlight)'
    BY <1>2 DEF EnterOpen, InFlight, TypeOK, Aged
  <2>3. OpenRemembersFailure'
    BY <1>2 DEF EnterOpen, OpenRemembersFailure
  <2>4. Cardinality(Probes') <= half_open_calls'
    <3>1. Cardinality(Probes') = 1  BY <1>2, FirstProbe
    <3>2. half_open_calls' = 1  BY <1>2 DEF EnterOpen
    <3>. QED  BY <3>1, <3>2
  <2>. QED  BY <2>1, <2>2, <2>3, <2>4
<1>3. CASE EnterHalfOpen(k)
  <2>1. TypeOK'  BY <1>3 DEF EnterHalfOpen, HalfOpenFull, TypeOK
  <2>2. (stale \subseteq InFlight)'
    BY <1>3 DEF EnterHalfOpen, InFlight, TypeOK
  <2>3. OpenRemembersFailure'
    BY <1>3 DEF EnterHalfOpen, OpenRemembersFailure
  <2>4. Cardinality(Probes') <= half_open_calls'
    <3>1. /\ call[k] = "idle" /\ call' = [call EXCEPT ![k] = "half_open"]
          /\ stale' = stale /\ state = "half_open"
          /\ half_open_calls' = half_open_calls + 1
      BY <1>3 DEF EnterHalfOpen
    <3>2. Cardinality(Probes') = Cardinality(Probes) + 1  BY <3>1, ProbeEnters
    <3>. QED  BY <3>1, <3>2, ProbesFinite DEF TypeOK
  <2>. QED  BY <2>1, <2>2, <2>3, <2>4
<1>. QED  BY <1>1, <1>2, <1>3 DEF Enter

\* A result either changes the state, and then the circuit is not half open
\* any more, or it takes at most one probe away.
LEMMA ReturnPreserves ==
    ASSUME Inv, NEW k \in Calls, Return(k)
    PROVE  Inv'
<1>. USE BreakerAssumption DEF Inv
<1>1. TypeOK'
  <2>1. CASE Succeed(k)
    <3>1. /\ state' \in {"closed", "open", "half_open"}
          /\ failure_count' \in 0..MaxFailureCount
          /\ half_open_calls' \in 0..HalfOpenMaxCalls
          /\ since' \in 0..RecoveryTimeout
      <4>1. CASE UNCHANGED <<state, half_open_calls, since>>
        BY <2>1, <4>1 DEF Succeed, _on_success, _reset, TypeOK
      <4>2. CASE _reset
        BY <4>2 DEF _reset, TypeOK
      <4>. QED  BY <2>1, <4>1, <4>2 DEF Succeed, _on_success
    <3>4. failed' \in BOOLEAN
      BY <2>1, Zenon DEF Succeed, _on_success, _reset, TypeOK
    <3>2. success_count' \in 0..(SuccessThreshold - 1)
      BY <2>1 DEF Succeed, _on_success, _reset, TypeOK
    <3>3. call' \in [Calls -> {"idle", "closed", "half_open"}]
          /\ stale' \in SUBSET Calls
      BY <2>1 DEF Succeed, Aged, InFlight, TypeOK
    <3>5. lost' \in BOOLEAN  BY <2>1 DEF Succeed, TypeOK
    <3>. QED  BY <3>1, <3>2, <3>3, <3>4, <3>5 DEF TypeOK
  <2>2. CASE FailTransient(k)
    BY <2>2 DEF FailTransient, _on_failure, Aged, InFlight, TypeOK
  <2>3. CASE FailOther(k)
    BY <2>3 DEF FailOther, breaker, TypeOK
  <2>. QED  BY <2>1, <2>2, <2>3 DEF Return
<1>2. call' = [call EXCEPT ![k] = "idle"]
  BY DEF Return, Succeed, FailTransient, FailOther
<1>3. stale' = stale \ {k} \/ (state' # state /\ stale' = InFlight \ {k})
  BY DEF Return, Succeed, FailTransient, FailOther, Aged
<1>4. (stale \subseteq InFlight)'
  BY <1>2, <1>3 DEF InFlight, TypeOK
<1>5. OpenRemembersFailure'
  BY DEF Return, Succeed, FailTransient, FailOther, _on_success, _reset,
         _on_failure, OpenRemembersFailure, breaker, TypeOK
<1>6. state' = "half_open" => /\ state = "half_open"
                              /\ half_open_calls' = half_open_calls
  BY DEF Return, Succeed, FailTransient, FailOther, _on_success, _reset,
         _on_failure, breaker, TypeOK
<1>7. ASSUME state' = "half_open" PROVE Cardinality(Probes') <= half_open_calls'
  <2>1. stale' = stale \ {k}  BY <1>3, <1>6, <1>7
  <2>2. /\ Cardinality(Probes') \in Nat
        /\ Cardinality(Probes') <= Cardinality(Probes)
    BY <1>2, <2>1, ProbeLeaves
  <2>. QED  BY <1>6, <1>7, <2>2, ProbesFinite DEF TypeOK
<1>. QED  BY <1>1, <1>4, <1>5, <1>7

LEMMA NextPreserves == Inv /\ [Next]_vars => Inv'
<1>. SUFFICES ASSUME Inv, [Next]_vars PROVE Inv'  OBVIOUS
<1>1. CASE Tick
  BY <1>1, BreakerAssumption
     DEF Tick, Inv, TypeOK, InFlight, OpenRemembersFailure, Probes
<1>2. CASE UNCHANGED vars
  BY <1>2 DEF vars, breaker, Inv, TypeOK, InFlight, OpenRemembersFailure, Probes
<1>. QED  BY <1>1, <1>2, EnterPreserves, ReturnPreserves DEF Next, Reject

\* The fields of the breaker stay in their ranges.
THEOREM TypeCorrect == Spec => []TypeOK
BY InitInv, NextPreserves, PTL DEF Spec, Inv

\* At most half_open_max_calls probes of one half-open period are in flight,
\* for any number of callers (circuit_breaker.py:54-67).
THEOREM ProbesAreBounded == Spec => []ProbesBounded
<1>1. Inv => ProbesBounded
  BY ProbesFinite, BreakerAssumption DEF Inv, ProbesBounded, TypeOK
<1>. QED  BY <1>1, InitInv, NextPreserves, PTL DEF Spec

\* A circuit that is not closed has a failure time to recover from.
THEOREM FailureTimeKept == Spec => []OpenRemembersFailure
BY InitInv, NextPreserves, PTL DEF Spec, Inv

-----------------------------------------------------------------------------
(* A full half-open circuit has a probe out, or has lost one.              *)

\* Every admitted probe is in flight or was a success, or one was lost.
Accounted ==
    state = "half_open" /\ ~lost => half_open_calls <= Cardinality(Probes) + success_count

LEMMA NextAccounts ==
    ASSUME Inv, Accounted, [Next]_vars
    PROVE  Accounted'
<1>. USE BreakerAssumption DEF Inv
<1>1. ASSUME NEW k \in Calls, Enter(k) PROVE Accounted'
  <2>1. CASE EnterClosed(k)  BY <2>1 DEF EnterClosed, breaker, Accounted
  <2>2. CASE EnterOpen(k)
    <3>1. Cardinality(Probes') = 1  BY <2>2, FirstProbe
    <3>2. half_open_calls' = 1 /\ success_count' = 0  BY <2>2 DEF EnterOpen
    <3>. QED  BY <3>1, <3>2 DEF Accounted
  <2>3. CASE EnterHalfOpen(k)
    <3>1. /\ call[k] = "idle" /\ call' = [call EXCEPT ![k] = "half_open"]
          /\ stale' = stale /\ state = "half_open"
          /\ half_open_calls' = half_open_calls + 1
          /\ success_count' = success_count /\ lost' = lost
      BY <2>3 DEF EnterHalfOpen
    <3>2. Cardinality(Probes') = Cardinality(Probes) + 1  BY <3>1, ProbeEnters
    <3>. QED  BY <3>1, <3>2, ProbesFinite DEF Accounted, TypeOK
  <2>. QED  BY <1>1, <2>1, <2>2, <2>3 DEF Enter
<1>2. ASSUME NEW k \in Calls, Return(k), state' = "half_open", ~lost'
      PROVE Accounted'
  <2>1. CASE Succeed(k)
    <3>1. /\ state = "half_open" /\ half_open_calls' = half_open_calls
          /\ success_count' = success_count + 1 /\ lost' = lost
          /\ call' = [call EXCEPT ![k] = "idle"] /\ stale' = stale \ {k}
      BY <1>2, <2>1 DEF Succeed, _on_success, _reset, Aged, TypeOK
    <3>2. /\ Cardinality(Probes') \in Nat
          /\ Cardinality(Probes) <= Cardinality(Probes') + 1
      BY <3>1, ProbeLeaves
    <3>. QED  BY <1>2, <3>1, <3>2, ProbesFinite DEF Accounted, TypeOK
  <2>2. CASE FailTransient(k)
    BY <1>2, <2>2 DEF FailTransient, _on_failure, TypeOK
  <2>3. CASE FailOther(k)
    <3>1. /\ call' = [call EXCEPT ![k] = "idle"] /\ stale' = stale \ {k}
          /\ UNCHANGED breaker /\ lost' = (lost \/ (state = "half_open" /\ k \notin stale))
      BY <2>3 DEF FailOther
    <3>2. state = "half_open"  BY <1>2, <3>1 DEF breaker
    <3>3. k \in stale /\ ~lost  BY <1>2, <3>1, <3>2, Zenon
    <3>4. Probes' = Probes  BY <3>1, <3>3 DEF Probes, TypeOK
    <3>. QED  BY <3>1, <3>3, <3>4 DEF Accounted, breaker
  <2>. QED  BY <1>2, <2>1, <2>2, <2>3 DEF Return
<1>3. ASSUME NEW k \in Calls, Return(k), state' # "half_open" \/ lost'
      PROVE Accounted'
  BY <1>3 DEF Accounted
<1>4. CASE Tick  BY <1>4 DEF Tick, Accounted, Probes
<1>5. CASE UNCHANGED vars  BY <1>5 DEF vars, breaker, Accounted, Probes
<1>. QED  BY <1>1, <1>2, <1>3, <1>4, <1>5 DEF Next, Reject

\* A half-open circuit that turns callers away waits for a probe that will
\* decide, or lost one to an exception it does not expect
\* (circuit_breaker.py:64-67, 78-106).
THEOREM HalfOpenWaitsForProbe == Spec => []FullHalfOpenHasProbe
<1>1. Init => Accounted  BY DEF Init, Accounted
<1>2. Inv /\ Accounted /\ [Next]_vars => Accounted'  BY NextAccounts
<1>3. Inv /\ Accounted => FullHalfOpenHasProbe
  <2>. SUFFICES ASSUME Inv, Accounted, state = "half_open", HalfOpenFull, ~lost
                PROVE  Probes # {}
    BY DEF FullHalfOpenHasProbe
  <2>1. Cardinality(Probes) >= 1
    BY BreakerAssumption, ProbesFinite DEF Inv, TypeOK, Accounted, HalfOpenFull
  <2>. QED  BY <2>1, FS_EmptySet
<1>. QED  BY <1>1, <1>2, <1>3, InitInv, NextPreserves, PTL DEF Spec

-----------------------------------------------------------------------------
(* No short cuts.                                                          *)

LEMMA StepTakesNoShortCut ==
    [Next]_vars =>
        [/\ state = "closed" => state' # "half_open"
         /\ state = "open" => state' # "closed"]_state
<1>. SUFFICES ASSUME [Next]_vars, state' # state
              PROVE  /\ state = "closed" => state' # "half_open"
                     /\ state = "open" => state' # "closed"
  OBVIOUS
<1>1. ASSUME NEW k \in Calls, Enter(k) \/ Reject(k)
      PROVE  state = "open" /\ state' = "half_open"
  BY <1>1 DEF Enter, EnterClosed, EnterOpen, EnterHalfOpen, Reject, vars, breaker
<1>2. ASSUME NEW k \in Calls, Succeed(k)
      PROVE  state = "half_open" /\ state' = "closed"
  BY <1>2 DEF Succeed, _on_success, _reset
<1>3. ASSUME NEW k \in Calls, FailTransient(k)
      PROVE  state' = "open"
  BY <1>3 DEF FailTransient, _on_failure
<1>4. ASSUME NEW k \in Calls, FailOther(k)
      PROVE  FALSE
  BY <1>4 DEF FailOther, breaker
<1>5. ~Tick /\ ~UNCHANGED vars  BY DEF Tick, vars, breaker
<1>. QED  BY <1>1, <1>2, <1>3, <1>4, <1>5 DEF Next, Return

\* The circuit opens from closed or half open, and closes from half open only,
\* whatever calls of earlier periods return (circuit_breaker.py:51-106).
THEOREM NoShortCuts == Spec => OnlyThroughHalfOpen
BY StepTakesNoShortCut, PTL DEF Spec, OnlyThroughHalfOpen

-----------------------------------------------------------------------------
(* with_retry around the breaker.                                          *)

CallType == [Calls -> {"idle", "closed", "half_open"}]

\* What entering does to a call, whatever the state of the circuit.
LEMMA EnterCalls ==
    ASSUME NEW k \in Calls, call \in CallType, Enter(k)
    PROVE  /\ call[k] = "idle"
           /\ \E c \in {"closed", "half_open"} : call' = [call EXCEPT ![k] = c]
BY DEF Enter, EnterClosed, EnterOpen, EnterHalfOpen

\* What returning does to a call, whatever the result.
LEMMA ReturnCalls ==
    ASSUME NEW k \in Calls, Succeed(k) \/ FailTransient(k) \/ FailOther(k)
    PROVE  call[k] # "idle" /\ call' = [call EXCEPT ![k] = "idle"]
BY DEF Succeed, FailTransient, FailOther

\* After a failed attempt below max_attempts the call sleeps at most max_delay,
\* after the last one it is over.
LEMMA RetryCounts ==
    ASSUME NEW k \in Calls, NEW n \in 1..MaxAttempts, NEW bases,
           left \in [Calls -> 0..MaxDelay], left[k] = 0, Retry(k, n, bases)
    PROVE  \E m \in 0..MaxAttempts, d \in 0..MaxDelay :
              /\ m < MaxAttempts
              /\ d > 0 => m > 0
              /\ attempt' = [attempt EXCEPT ![k] = m]
              /\ left' = [left EXCEPT ![k] = d]
<1>. USE RetryAssumption
<1>1. CASE Exhausted(n)
  <2>1. attempt' = [attempt EXCEPT ![k] = 0] /\ left' = left
    BY <1>1 DEF Retry, GiveUp
  <2>2. left = [left EXCEPT ![k] = 0]  OBVIOUS
  <2>3. 0 \in 0..MaxAttempts /\ 0 \in 0..MaxDelay /\ 0 < MaxAttempts  OBVIOUS
  <2>. QED  BY <2>1, <2>2, <2>3
<1>2. CASE ~Exhausted(n)
  <2>1. n < MaxAttempts /\ n > 0 /\ n \in 0..MaxAttempts  BY <1>2 DEF Exhausted
  <2>2. attempt' = [attempt EXCEPT ![k] = n]  BY <1>2 DEF Retry
  <2>3. PICK base \in bases : \E d \in Delays(n, base) : left' = [left EXCEPT ![k] = d]
    BY <1>2 DEF Retry
  <2>4. PICK d \in Delays(n, base) : left' = [left EXCEPT ![k] = d]  BY <2>3
  <2>5. d \in 0..MaxDelay  BY <2>4 DEF Delays
  <2>. QED  BY <2>1, <2>2, <2>4, <2>5
<1>. QED  BY <1>1, <1>2

-----------------------------------------------------------------------------
LEMMA InitTyped == RetryInit => RetryTypeOK
BY RetryAssumption DEF RetryInit, Init, RetryTypeOK

LEMMA AdmittedTyped ==
    ASSUME RetryTypeOK, NEW k \in Calls, Admitted(k)
    PROVE  RetryTypeOK'
<1>1. call[k] = "idle" /\ \E c \in {"closed", "half_open"} : call' = [call EXCEPT ![k] = c]
  BY EnterCalls DEF Admitted, RetryTypeOK, CallType
<1>2. PICK c \in {"closed", "half_open"} : call' = [call EXCEPT ![k] = c]  BY <1>1
<1>3. /\ left[k] = 0 /\ left' = left /\ healthy' = healthy
      /\ attempt' = [attempt EXCEPT ![k] = attempt[k] + 1]
  BY DEF Admitted
<1>4. attempt[k] < MaxAttempts /\ attempt[k] \in 0..MaxAttempts  BY <1>1 DEF RetryTypeOK
<1>5. attempt[k] + 1 \in 1..MaxAttempts  BY <1>4, RetryAssumption
<1>6. attempt' \in [Calls -> 0..MaxAttempts] /\ call' \in CallType
  BY <1>2, <1>3, <1>5, RetryAssumption DEF RetryTypeOK, CallType
<1>7. ASSUME NEW j \in Calls
      PROVE  /\ call'[j] # "idle" => attempt'[j] > 0 /\ left'[j] = 0
             /\ call'[j] = "idle" => attempt'[j] < MaxAttempts
             /\ left'[j] > 0 => attempt'[j] > 0
  <2>1. CASE j = k
    BY <1>2, <1>3, <1>5, <2>1 DEF RetryTypeOK
  <2>2. CASE j # k
    BY <1>2, <1>3, <2>2 DEF RetryTypeOK
  <2>. QED  BY <2>1, <2>2
<1>8. healthy' \in BOOLEAN  BY <1>3 DEF RetryTypeOK
<1>. QED  BY <1>3, <1>6, <1>7, <1>8 DEF RetryTypeOK, CallType

\* A call that is out of the provider, with its counters as RetryCounts says.
LEMMA OutTyped ==
    ASSUME RetryTypeOK, NEW k \in Calls, call' = [call EXCEPT ![k] = "idle"],
           NEW m \in 0..MaxAttempts, NEW d \in 0..MaxDelay,
           m < MaxAttempts, d > 0 => m > 0,
           attempt' = [attempt EXCEPT ![k] = m], left' = [left EXCEPT ![k] = d],
           healthy' \in BOOLEAN
    PROVE  RetryTypeOK'
<1>1. /\ attempt' \in [Calls -> 0..MaxAttempts]
      /\ left' \in [Calls -> 0..MaxDelay]
      /\ call' \in CallType
  BY DEF RetryTypeOK, CallType
<1>2. ASSUME NEW j \in Calls
      PROVE  /\ call'[j] # "idle" => attempt'[j] > 0 /\ left'[j] = 0
             /\ call'[j] = "idle" => attempt'[j] < MaxAttempts
             /\ left'[j] > 0 => attempt'[j] > 0
  <2>1. CASE j = k  BY <2>1 DEF RetryTypeOK
  <2>2. CASE j # k  BY <2>2 DEF RetryTypeOK
  <2>. QED  BY <2>1, <2>2
<1>. QED  BY <1>1, <1>2 DEF RetryTypeOK, CallType

\* A failed attempt that may be retried.
LEMMA FailureTyped ==
    ASSUME RetryTypeOK, NEW k \in Calls, NEW n \in 1..MaxAttempts, NEW bases,
           left[k] = 0, call' = [call EXCEPT ![k] = "idle"],
           Retry(k, n, bases), healthy' = healthy
    PROVE  RetryTypeOK'
<1>1. left \in [Calls -> 0..MaxDelay] /\ healthy' \in BOOLEAN  BY DEF RetryTypeOK
<1>2. PICK m \in 0..MaxAttempts, d \in 0..MaxDelay :
              /\ m < MaxAttempts
              /\ d > 0 => m > 0
              /\ attempt' = [attempt EXCEPT ![k] = m]
              /\ left' = [left EXCEPT ![k] = d]
  BY <1>1, RetryCounts
<1>. QED  BY <1>1, <1>2, OutTyped

LEMMA TurnedAwayTyped ==
    ASSUME RetryTypeOK, NEW k \in Calls, TurnedAway(k)
    PROVE  RetryTypeOK'
<1>1. call[k] = "idle" /\ call' = call /\ left[k] = 0 /\ healthy' = healthy
  BY DEF TurnedAway, Reject, vars
<1>2. attempt[k] < MaxAttempts /\ attempt[k] \in 0..MaxAttempts  BY <1>1 DEF RetryTypeOK
<1>3. attempt[k] + 1 \in 1..MaxAttempts  BY <1>2, RetryAssumption
<1>4. call' = [call EXCEPT ![k] = "idle"]  BY <1>1 DEF RetryTypeOK
<1>5. Retry(k, attempt[k] + 1, {BaseDelay})  BY DEF TurnedAway
<1>. QED  BY <1>1, <1>3, <1>4, <1>5, FailureTyped

LEMMA ReturnedTyped ==
    ASSUME RetryTypeOK, NEW k \in Calls, Returned(k)
    PROVE  RetryTypeOK'
<1>1. call[k] # "idle" /\ call' = [call EXCEPT ![k] = "idle"] /\ healthy' = healthy
  BY ReturnCalls DEF Returned, Succeeded, Failed, FailedOutsideBreaker, Refused
<1>2. attempt[k] \in 1..MaxAttempts /\ left[k] = 0
  BY <1>1, RetryAssumption DEF RetryTypeOK
<1>3. CASE Failed(k) \/ FailedOutsideBreaker(k)
  <2>1. Retry(k, attempt[k], {BaseDelay, RateLimitDelay})
    BY <1>3 DEF Failed, FailedOutsideBreaker
  <2>. QED  BY <1>1, <1>2, <2>1, FailureTyped
<1>4. CASE Succeeded(k) \/ Refused(k)
  <2>1. attempt' = [attempt EXCEPT ![k] = 0] /\ left' = left
    BY <1>4 DEF Succeeded, Refused, GiveUp
  <2>2. left' = [left EXCEPT ![k] = 0]  BY <1>2, <2>1 DEF RetryTypeOK
  <2>3. 0 \in 0..MaxAttempts /\ 0 \in 0..MaxDelay /\ 0 < MaxAttempts
    BY RetryAssumption
  <2>4. healthy' \in BOOLEAN  BY <1>1 DEF RetryTypeOK
  <2>. QED  BY <1>1, <2>1, <2>2, <2>3, <2>4, OutTyped
<1>. QED  BY <1>3, <1>4 DEF Returned

LEMMA CancelledTyped ==
    ASSUME RetryTypeOK, NEW k \in Calls, Cancelled(k)
    PROVE  RetryTypeOK'
<1>1. /\ call' = [call EXCEPT ![k] = "idle"] /\ healthy' \in BOOLEAN
      /\ attempt' = [attempt EXCEPT ![k] = 0] /\ left' = [left EXCEPT ![k] = 0]
  BY DEF Cancelled, vars, RetryTypeOK
<1>2. 0 \in 0..MaxAttempts /\ 0 \in 0..MaxDelay /\ 0 < MaxAttempts
  BY RetryAssumption
<1>. QED  BY <1>1, <1>2, OutTyped

LEMMA TickTyped ==
    ASSUME RetryTypeOK, TimePasses
    PROVE  RetryTypeOK'
<1>1. call' = call /\ attempt' = attempt /\ healthy' = healthy
  BY DEF TimePasses, Tick, vars
<1>2. left' = [k \in Calls |-> IF left[k] > 0 THEN left[k] - 1 ELSE 0]  BY DEF TimePasses
<1>3. left' \in [Calls -> 0..MaxDelay]  BY <1>2, RetryAssumption DEF RetryTypeOK
<1>4. ASSUME NEW k \in Calls
      PROVE  (left[k] = 0 => left'[k] = 0) /\ (left'[k] > 0 => left[k] > 0)
  BY <1>2 DEF RetryTypeOK
<1>. QED  BY <1>1, <1>3, <1>4 DEF RetryTypeOK

LEMMA NextTyped == RetryTypeOK /\ [RetryNext]_retry_vars => RetryTypeOK'
<1>. SUFFICES ASSUME RetryTypeOK, [RetryNext]_retry_vars PROVE RetryTypeOK'  OBVIOUS
<1>1. ASSUME NEW k \in Calls, Try(k) PROVE RetryTypeOK'
  BY <1>1, AdmittedTyped, TurnedAwayTyped DEF Try
<1>2. CASE Outage
  <2>1. call' = call /\ attempt' = attempt /\ left' = left
    BY <1>2 DEF Outage, vars
  <2>2. healthy' \in BOOLEAN  BY <1>2 DEF Outage, vars
  <2>. QED  BY <2>1, <2>2 DEF RetryTypeOK
<1>3. CASE UNCHANGED retry_vars  BY <1>3 DEF retry_vars, vars, RetryTypeOK
<1>. QED  BY <1>1, <1>2, <1>3, ReturnedTyped,
           CancelledTyped, TickTyped DEF RetryNext

\* Attempts stay within max_attempts and sleeps within max_delay, and only a
\* call with an attempt counted is with the provider or asleep
\* (retry.py:99-138).
THEOREM RetryTyping == RetrySpec => []RetryTypeOK
BY InitTyped, NextTyped, PTL DEF RetrySpec

-----------------------------------------------------------------------------
(* The breaker behind with_retry.                                          *)

\* A step of the retried calls is a step of the breaker or leaves it alone.
LEMMA StepOfBreaker == [RetryNext]_retry_vars => [Next]_vars
<1>. SUFFICES ASSUME [RetryNext]_retry_vars PROVE [Next]_vars  OBVIOUS
<1>1. ASSUME NEW k \in Calls, Try(k) PROVE Next
  BY <1>1 DEF Try, Admitted, TurnedAway, Next
<1>2. ASSUME NEW k \in Calls, Returned(k) PROVE Next
  BY <1>2 DEF Returned, Succeeded, Failed, FailedOutsideBreaker, Refused, Return, Next
<1>3. CASE TimePasses
  BY <1>3 DEF TimePasses, Next
<1>. QED  BY <1>1, <1>2, <1>3 DEF RetryNext, Cancelled, Outage, retry_vars

\* What was proved of the breaker alone holds of the one that retried calls
\* share: its probes are bounded, a half-open circuit that turns attempts away
\* waits for one of them or has lost one, and it closes from half open only
\* (retry.py:138-186, circuit_breaker.py:51-106).
COROLLARY SafeBehindRetries ==
    RetrySpec => []ProbesBounded /\ []FullHalfOpenHasProbe /\ OnlyThroughHalfOpen
<1>1. RetryInit => Init  BY DEF RetryInit
<1>2. RetrySpec => Spec  BY <1>1, StepOfBreaker, PTL DEF RetrySpec, Spec
<1>. QED  BY <1>2, ProbesAreBounded, HalfOpenWaitsForProbe, NoShortCuts, PTL
=============================================================================
