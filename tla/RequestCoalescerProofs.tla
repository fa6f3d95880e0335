----------------------- MODULE RequestCoalescerProofs -----------------------
(***************************************************************************)
(* Proofs about request coalescing, for any callers, requests, keys and    *)
(* any number of executions.                                               *)
(***************************************************************************)
EXTENDS RequestCoalescer, TLAPS

\* What runs is registered under its key.
RunningIsPending ==
    \A e \in Executions : execution[e].running =>
        /\ execution[e].request \in Requests
        /\ pending[KeyOf[execution[e].request]] = e

\* A caller waits for an execution under the key of its own request.
WaitsUnderItsKey ==
    \A c \in Callers :
        /\ caller[c].pc = "waiting" =>
             /\ caller[c].request \in Requests
             /\ caller[c].execution \in Executions
             /\ execution[caller[c].execution].request \in Requests
             /\ KeyOf[execution[caller[c].execution].request] = KeyOf[caller[c].request]
        /\ caller[c].pc # "waiting" => caller[c].execution = None

Inv == TypeOK /\ PendingIsRunning /\ RunningIsPending /\ WaitsUnderItsKey

LEMMA WaitsEffect ==
    ASSUME TypeOK, NEW c \in Callers, NEW q \in Requests, NEW e \in Executions,
           Waits(c, q, e)
    PROVE  /\ caller' \in [Callers -> Caller]
           /\ \A d \in Callers \ {c} : caller'[d] = caller[d]
           /\ caller'[c].pc = "waiting" /\ caller'[c].request = q
           /\ caller'[c].execution = e /\ caller'[c].answer = None
BY DEF Waits, TypeOK, Caller

LEMMA AnsweredEffect ==
    ASSUME TypeOK, NEW c \in Callers,
           NEW answer \in Requests \cup {"error", "cancelled", "gave up"},
           Answered(c, answer)
    PROVE  /\ caller' \in [Callers -> Caller]
           /\ \A d \in Callers \ {c} : caller'[d] = caller[d]
           /\ caller'[c].pc = "answered" /\ caller'[c].execution = None
           /\ caller'[c].request = caller[c].request
           /\ caller'[c].answer = answer
<1>. DEFINE r == [caller[c] EXCEPT !.pc = "answered", !.execution = None,
                                   !.answer = answer]
<1>1. caller[c] \in Caller  BY DEF TypeOK
<1>2. /\ r \in Caller /\ r.pc = "answered" /\ r.execution = None
      /\ r.request = caller[c].request /\ r.answer = answer
  BY <1>1 DEF Caller
<1>3. caller' = [caller EXCEPT ![c] = r]  BY DEF Answered
<1>. HIDE DEF r
<1>. QED  BY <1>2, <1>3 DEF TypeOK

LEMMA InitInv == Init => Inv
BY CoalescerAssumption
   DEF Init, Inv, TypeOK, PendingIsRunning, RunningIsPending, WaitsUnderItsKey,
       NoExecution, Execution, Future, IdleCaller, Caller

LEMMA JoinPreserves ==
    ASSUME Inv, NEW c \in Callers, NEW q \in Requests, Join(c, q)
    PROVE  Inv'
<1>. DEFINE e == pending[KeyOf[q]]
<1>1. /\ e \in Executions /\ execution[e].running
      /\ KeyOf[execution[e].request] = KeyOf[q]
      /\ execution[e].request \in Requests
  BY CoalescerAssumption
     DEF Join, Joinable, _make_key, Inv, TypeOK, PendingIsRunning, RunningIsPending
<1>2. Waits(c, q, e) /\ UNCHANGED <<pending, execution>>
  BY DEF Join, _make_key
<1>. HIDE DEF e
<1>3. /\ caller' \in [Callers -> Caller]
      /\ \A d \in Callers \ {c} : caller'[d] = caller[d]
      /\ caller'[c].pc = "waiting" /\ caller'[c].request = q
      /\ caller'[c].execution = e
  BY <1>1, <1>2, WaitsEffect DEF Inv
<1>. QED
  BY <1>1, <1>2, <1>3
     DEF Inv, TypeOK, PendingIsRunning, RunningIsPending, WaitsUnderItsKey

LEMMA StartPreserves ==
    ASSUME Inv, NEW c \in Callers, NEW q \in Requests, Start(c, q)
    PROVE  Inv'
<1>1. PICK e \in Executions :
        /\ Unused(e)
        /\ execution' = [execution EXCEPT ![e] =
                           [running |-> TRUE, request |-> q, future |-> "open"]]
        /\ pending' = [pending EXCEPT ![KeyOf[q]] = e]
        /\ Waits(c, q, e)
  BY DEF Start, _make_key
<1>2. KeyOf[q] \in Keys /\ pending[KeyOf[q]] = None
  BY CoalescerAssumption DEF Start, Joinable, _make_key
<1>3. /\ caller' \in [Callers -> Caller]
      /\ \A d \in Callers \ {c} : caller'[d] = caller[d]
      /\ caller'[c].pc = "waiting" /\ caller'[c].request = q
      /\ caller'[c].execution = e
  BY <1>1, WaitsEffect DEF Inv
<1>4. /\ execution' \in [Executions -> Execution]
      /\ execution'[e].running /\ execution'[e].request = q
      /\ \A f \in Executions \ {e} : execution'[f] = execution[f]
  BY <1>1 DEF Inv, TypeOK, Execution, Future
<1>5. /\ pending' \in [Keys -> Executions \cup {None}]
      /\ pending'[KeyOf[q]] = e
      /\ \A k \in Keys \ {KeyOf[q]} : pending'[k] = pending[k]
  BY <1>1, <1>2 DEF Inv, TypeOK
<1>6. ~execution[e].running /\ \A d \in Callers : caller[d].execution # e
  BY <1>1 DEF Unused
<1>7. TypeOK'  BY <1>3, <1>4, <1>5 DEF TypeOK
<1>8. PendingIsRunning'
  BY <1>4, <1>5, <1>6 DEF PendingIsRunning, Inv, TypeOK
<1>9. RunningIsPending'
  BY <1>2, <1>4, <1>5, CoalescerAssumption DEF RunningIsPending, Inv
<1>10. WaitsUnderItsKey'
  BY <1>3, <1>4, <1>6 DEF WaitsUnderItsKey, Inv
<1>. QED  BY <1>7, <1>8, <1>9, <1>10 DEF Inv

LEMMA ExecutePreserves ==
    ASSUME Inv, NEW e \in Executions, _execute(e)
    PROVE  Inv'
<1>. DEFINE q == execution[e].request
<1>1. /\ execution[e].running /\ q \in Requests /\ KeyOf[q] \in Keys
      /\ pending[KeyOf[q]] = e
  BY CoalescerAssumption DEF _execute, Inv, RunningIsPending
<1>2. PICK outcome \in {"result", "error", "open"} :
        execution' = [execution EXCEPT
            ![e].running = FALSE,
            ![e].future = IF @ = "open" THEN outcome ELSE @]
  BY DEF _execute
<1>3. /\ execution' \in [Executions -> Execution]
      /\ ~execution'[e].running /\ execution'[e].request = q
      /\ \A f \in Executions \ {e} : execution'[f] = execution[f]
  <2>. DEFINE x == [execution[e] EXCEPT
                      !.running = FALSE,
                      !.future = IF execution[e].future = "open" THEN outcome
                                 ELSE execution[e].future]
  <2>1. execution[e] \in Execution  BY DEF Inv, TypeOK
  <2>2. x \in Execution /\ ~x.running /\ x.request = q
    BY <2>1 DEF Execution, Future
  <2>3. execution' = [execution EXCEPT ![e] = x]  BY <1>2
  <2>. HIDE DEF x
  <2>. QED  BY <2>2, <2>3 DEF Inv, TypeOK
<1>4. /\ pending' \in [Keys -> Executions \cup {None}]
      /\ pending'[KeyOf[q]] = None
      /\ \A k \in Keys \ {KeyOf[q]} : pending'[k] = pending[k]
  BY <1>1 DEF _execute, Forgotten, _make_key, Inv, TypeOK
<1>5. caller' = caller  BY DEF _execute
<1>. HIDE DEF q
<1>6. TypeOK'  BY <1>3, <1>4, <1>5 DEF TypeOK, Inv
<1>7. PendingIsRunning'
  <2>. SUFFICES ASSUME NEW k \in Keys, pending'[k] # None
                PROVE  /\ execution'[pending'[k]].running
                       /\ KeyOf[execution'[pending'[k]].request] = k
    BY DEF PendingIsRunning
  <2>1. k # KeyOf[q] /\ pending'[k] = pending[k] /\ pending[k] \in Executions
    BY <1>1, <1>4 DEF Inv, TypeOK
  <2>2. pending[k] # e
    BY <2>1 DEF Inv, PendingIsRunning, q
  <2>. QED  BY <1>3, <2>1, <2>2 DEF Inv, PendingIsRunning
<1>8. RunningIsPending'
  <2>. SUFFICES ASSUME NEW f \in Executions, execution'[f].running
                PROVE  /\ execution'[f].request \in Requests
                       /\ pending'[KeyOf[execution'[f].request]] = f
    BY DEF RunningIsPending
  <2>1. f # e /\ execution'[f] = execution[f]  BY <1>3
  <2>2. /\ execution[f].request \in Requests
        /\ pending[KeyOf[execution[f].request]] = f
    BY <2>1 DEF Inv, RunningIsPending
  <2>3. KeyOf[execution[f].request] \in Keys \ {KeyOf[q]}
    BY <1>1, <2>1, <2>2, CoalescerAssumption
  <2>. QED  BY <1>4, <2>1, <2>2, <2>3
<1>9. WaitsUnderItsKey'
  BY <1>3, <1>5 DEF WaitsUnderItsKey, Inv, q
<1>. QED  BY <1>6, <1>7, <1>8, <1>9 DEF Inv

\* A caller that wakes up or gives up changes at most its future.
LEMMA AnswerPreserves ==
    ASSUME Inv, NEW c \in Callers, NEW answer,
           answer \in Requests \cup {"error", "cancelled", "gave up"},
           Answered(c, answer), pending' = pending,
           \/ execution' = execution
           \/ \E e \in Executions :
                execution' = [execution EXCEPT ![e].future = "cancelled"]
    PROVE  Inv'
<1>1. /\ caller' \in [Callers -> Caller]
      /\ \A d \in Callers \ {c} : caller'[d] = caller[d]
      /\ caller'[c].pc = "answered" /\ caller'[c].execution = None
  BY AnsweredEffect DEF Inv
<1>2. /\ execution' \in [Executions -> Execution]
      /\ \A e \in Executions : /\ execution'[e].running = execution[e].running
                               /\ execution'[e].request = execution[e].request
  <2>1. CASE execution' = execution  BY <2>1 DEF Inv, TypeOK
  <2>2. CASE \E e \in Executions :
               execution' = [execution EXCEPT ![e].future = "cancelled"]
    <3>1. PICK e \in Executions :
            execution' = [execution EXCEPT ![e].future = "cancelled"]
      BY <2>2
    <3>2. execution \in [Executions -> Execution]  BY DEF Inv, TypeOK
    <3>3. /\ execution[e] \in Execution
          /\ execution'[e] = [execution[e] EXCEPT !.future = "cancelled"]
          /\ \A f \in Executions \ {e} : execution'[f] = execution[f]
          /\ DOMAIN execution' = Executions
      BY <3>1, <3>2
    <3>4. /\ execution'[e] \in Execution
          /\ execution'[e].running = execution[e].running
          /\ execution'[e].request = execution[e].request
      BY <3>3 DEF Execution, Future
    <3>5. execution' \in [Executions -> Execution]
      BY <3>1, <3>2, <3>3, <3>4
    <3>. QED  BY <3>3, <3>4, <3>5
  <2>. QED  BY <2>1, <2>2
<1>3. TypeOK'  BY <1>1, <1>2 DEF TypeOK, Inv
<1>4. PendingIsRunning'  BY <1>2 DEF PendingIsRunning, Inv, TypeOK
<1>5. RunningIsPending'
  <2>. SUFFICES ASSUME NEW e \in Executions, execution'[e].running
                PROVE  /\ execution'[e].request \in Requests
                       /\ pending'[KeyOf[execution'[e].request]] = e
    BY DEF RunningIsPending
  <2>1. execution[e].running /\ execution'[e].request = execution[e].request
    BY <1>2
  <2>2. execution[e].request \in Requests /\ pending[KeyOf[execution[e].request]] = e
    BY <2>1 DEF RunningIsPending, Inv
  <2>3. pending' = pending  OBVIOUS
  <2>. QED  BY <2>1, <2>2, <2>3
<1>6. WaitsUnderItsKey'
  <2>. SUFFICES ASSUME NEW d \in Callers
                PROVE  /\ caller'[d].pc = "waiting" =>
                            /\ caller'[d].request \in Requests
                            /\ caller'[d].execution \in Executions
                            /\ execution'[caller'[d].execution].request \in Requests
                            /\ KeyOf[execution'[caller'[d].execution].request]
                                 = KeyOf[caller'[d].request]
                       /\ caller'[d].pc # "waiting" => caller'[d].execution = None
    BY DEF WaitsUnderItsKey
  <2>1. CASE d = c  BY <2>1, <1>1
  <2>2. CASE d # c
    <3>1. caller'[d] = caller[d]  BY <2>2, <1>1
    <3>2. /\ caller[d].pc = "waiting" =>
               /\ caller[d].request \in Requests
               /\ caller[d].execution \in Executions
               /\ execution[caller[d].execution].request \in Requests
               /\ KeyOf[execution[caller[d].execution].request]
                    = KeyOf[caller[d].request]
          /\ caller[d].pc # "waiting" => caller[d].execution = None
      BY DEF WaitsUnderItsKey, Inv
    <3>3. ASSUME caller[d].pc = "waiting"
          PROVE  execution'[caller[d].execution].request
                   = execution[caller[d].execution].request
      BY <3>3, <3>2, <1>2
    <3>. QED  BY <3>1, <3>2, <3>3
  <2>. QED  BY <2>1, <2>2
<1>. QED  BY <1>3, <1>4, <1>5, <1>6 DEF Inv

LEMMA WakeAnswer ==
    ASSUME Inv, NEW c \in Callers, Wake(c)
    PROVE  LET e == caller[c].execution
               answer == IF execution[e].future = "result"
                         THEN execution[e].request ELSE execution[e].future
           IN  answer \in Requests \cup {"error", "cancelled", "gave up"}
BY DEF Wake, Inv, WaitsUnderItsKey, TypeOK, Execution, Future

LEMMA NextPreserves == Inv /\ [Next]_vars => Inv'
<1>. SUFFICES ASSUME Inv, [Next]_vars PROVE Inv'  OBVIOUS
<1>1. ASSUME NEW c \in Callers, coalesce(c) PROVE Inv'
  BY <1>1, JoinPreserves, StartPreserves DEF coalesce
<1>2. ASSUME NEW c \in Callers, Wake(c) PROVE Inv'
  <2>. DEFINE e == caller[c].execution
              answer == IF execution[e].future = "result"
                        THEN execution[e].request ELSE execution[e].future
  <2>1. answer \in Requests \cup {"error", "cancelled", "gave up"}
    BY <1>2, WakeAnswer
  <2>2. Answered(c, answer) /\ pending' = pending /\ execution' = execution
    BY <1>2 DEF Wake
  <2>. HIDE DEF answer
  <2>. QED  BY <2>1, <2>2, AnswerPreserves
<1>3. ASSUME NEW c \in Callers, GiveUp(c) PROVE Inv'
  <2>1. caller[c].execution \in Executions  BY <1>3 DEF GiveUp, Inv, WaitsUnderItsKey
  <2>2. Answered(c, "gave up") /\ pending' = pending
        /\ execution' = [execution EXCEPT ![caller[c].execution].future = "cancelled"]
    BY <1>3 DEF GiveUp
  <2>. QED  BY <2>1, <2>2, AnswerPreserves
<1>4. ASSUME NEW c \in Callers, Leave(c) PROVE Inv'
  <2>1. IdleCaller \in Caller /\ IdleCaller.pc # "waiting"
        /\ IdleCaller.execution = None
    BY DEF IdleCaller, Caller
  <2>2. /\ caller' = [caller EXCEPT ![c] = IdleCaller]
        /\ pending' = pending /\ execution' = execution
    BY <1>4 DEF Leave
  <2>3. TypeOK'  BY <2>1, <2>2 DEF Inv, TypeOK
  <2>4. WaitsUnderItsKey'
    BY <2>1, <2>2 DEF Inv, TypeOK, WaitsUnderItsKey
  <2>. QED
    BY <2>2, <2>3, <2>4 DEF Inv, PendingIsRunning, RunningIsPending
<1>5. CASE UNCHANGED vars
  BY <1>5 DEF vars, Inv, TypeOK, PendingIsRunning, RunningIsPending, WaitsUnderItsKey
<1>. QED  BY <1>1, <1>2, <1>3, <1>4, <1>5, ExecutePreserves DEF Next

\* Executions, waits and answers keep their shapes (request_coalescing.py:22-27).
THEOREM Typing == Spec => []TypeOK
BY InitInv, NextPreserves, PTL DEF Spec, Inv

\* Requests with the same key are never executed at the same time, whoever
\* joins, wakes or gives up meanwhile (request_coalescing.py:87-105, 121-142).
THEOREM NoDuplicateExecution == Spec => []SingleFlight
<1>1. Inv => SingleFlight  BY DEF Inv, RunningIsPending, SingleFlight
<1>. QED  BY <1>1, InitInv, NextPreserves, PTL DEF Spec

\* Nobody joins an execution that is over (request_coalescing.py:139-142).
THEOREM PendingRuns == Spec => []PendingIsRunning
BY InitInv, NextPreserves, PTL DEF Spec, Inv

-----------------------------------------------------------------------------
(* Results are not mixed up between keys, whatever requests share one.     *)

LEMMA NextKeepsKey ==
    ASSUME \A x \in {"error", "cancelled", "gave up"} : x \notin Requests,
           Inv, ResultOfItsKey, [Next]_vars
    PROVE  ResultOfItsKey'
<1>1. ASSUME NEW c \in Callers, coalesce(c) PROVE ResultOfItsKey'
  <2>1. PICK q, e : q \in Requests /\ Waits(c, q, e)
    BY <1>1 DEF coalesce, Join, Start
  <2>2. caller'[c].answer = None /\ \A d \in Callers \ {c} : caller'[d] = caller[d]
    BY <2>1 DEF Waits, Inv, TypeOK
  <2>. QED  BY <2>2, CoalescerAssumption DEF ResultOfItsKey
<1>2. ASSUME NEW c \in Callers, Wake(c) PROVE ResultOfItsKey'
  <2>. DEFINE e == caller[c].execution
              answer == IF execution[e].future = "result"
                        THEN execution[e].request ELSE execution[e].future
  <2>1. answer \in Requests \cup {"error", "cancelled", "gave up"}
    BY <1>2, WakeAnswer
  <2>2. Answered(c, answer)  BY <1>2 DEF Wake
  <2>3. answer \in Requests => KeyOf[answer] = KeyOf[caller[c].request]
    <3>1. /\ caller[c].request \in Requests /\ execution[e].request \in Requests
          /\ KeyOf[execution[e].request] = KeyOf[caller[c].request]
      BY <1>2 DEF Wake, Inv, WaitsUnderItsKey
    <3>2. e \in Executions /\ execution[e].future # "open"
      BY <1>2 DEF Wake, Inv, WaitsUnderItsKey
    <3>3. execution[e].future \in {"result", "error", "cancelled"}
      BY <3>2 DEF Inv, TypeOK, Execution, Future
    <3>. QED  BY <3>1, <3>3
  <2>. HIDE DEF answer
  <2>4. /\ \A d \in Callers \ {c} : caller'[d] = caller[d]
        /\ caller'[c].request = caller[c].request /\ caller'[c].answer = answer
    BY <2>1, <2>2, AnsweredEffect DEF Inv
  <2>. QED  BY <2>3, <2>4 DEF ResultOfItsKey
<1>3. ASSUME NEW c \in Callers, GiveUp(c) PROVE ResultOfItsKey'
  <2>1. Answered(c, "gave up")  BY <1>3 DEF GiveUp
  <2>2. /\ \A d \in Callers \ {c} : caller'[d] = caller[d]
        /\ caller'[c].answer = "gave up"
    BY <2>1, AnsweredEffect DEF Inv
  <2>. QED  BY <2>2 DEF ResultOfItsKey
<1>4. ASSUME NEW c \in Callers, Leave(c) PROVE ResultOfItsKey'
  BY <1>4, CoalescerAssumption DEF Leave, ResultOfItsKey, IdleCaller, Inv, TypeOK
<1>5. ASSUME NEW e \in Executions, _execute(e) PROVE ResultOfItsKey'
  BY <1>5 DEF _execute, ResultOfItsKey
<1>6. CASE UNCHANGED vars  BY <1>6 DEF vars, ResultOfItsKey
<1>. QED  BY <1>1, <1>2, <1>3, <1>4, <1>5, <1>6 DEF Next

\* Whatever requests share a key, and however executions of the keys follow
\* each other, a result reaches only callers of the key it was computed for
\* (request_coalescing.py:59-62, 107-109, 121-142).
THEOREM ResultsStayWithTheirKey ==
    ASSUME \A x \in {"error", "cancelled", "gave up"} : x \notin Requests
    PROVE  Spec => []ResultOfItsKey
<1>1. Init => ResultOfItsKey
  <2>. SUFFICES ASSUME Init, NEW c \in Callers PROVE caller[c].answer \notin Requests
    BY DEF ResultOfItsKey
  <2>1. caller[c].answer = None  BY DEF Init, IdleCaller
  <2>. QED  BY <2>1, CoalescerAssumption
<1>2. Inv /\ ResultOfItsKey /\ [Next]_vars => ResultOfItsKey'  BY NextKeepsKey
<1>. QED  BY <1>1, <1>2, InitInv, NextPreserves, PTL DEF Spec
=============================================================================
