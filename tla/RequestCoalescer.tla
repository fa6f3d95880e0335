--------------------------- MODULE RequestCoalescer ---------------------------
(***************************************************************************)
(* Coalescing of identical concurrent requests into one execution          *)
(* (RequestCoalescer in app/shared/request_coalescing.py).                 *)
(*                                                                         *)
(* The coalescer's lock protects no suspension point, so joining or        *)
(* starting an execution is one step, and so is delivering its outcome     *)
(* and forgetting it.  Waiting is asyncio.wait_for on a future that all    *)
(* callers of an execution share: a caller that gives up cancels it.       *)
(***************************************************************************)
EXTENDS Naturals

CONSTANTS
    Callers,     \* concurrent callers
    Requests,    \* a function bound to an account, with its arguments
    Keys,        \* results of _make_key
    KeyOf,       \* the key of a request: prefix and arguments, not the function
    Executions,  \* execution tasks (a finished one is used again)
    None         \* no execution, no request

ASSUME CoalescerAssumption ==
    /\ KeyOf \in [Requests -> Keys]
    /\ None \notin Executions
    /\ None \notin Requests

VARIABLES
    pending,    \* _pending: the execution registered under each key
    execution,  \* the tasks of _execute, each with its shared future
    caller      \* the callers of coalesce

vars == <<pending, execution, caller>>

Future == {"open", "result", "error", "cancelled"}

Execution == [running : BOOLEAN, request : Requests \cup {None}, future : Future]

\* answer is the request whose result the caller got, or how it failed.
Caller == [pc : {"idle", "waiting", "answered"},
           request : Requests \cup {None},
           execution : Executions \cup {None},
           answer : Requests \cup {None, "error", "cancelled", "gave up"}]

NoExecution == [running |-> FALSE, request |-> None, future |-> "cancelled"]
IdleCaller == [pc |-> "idle", request |-> None, execution |-> None, answer |-> None]

Init ==
    /\ pending = [k \in Keys |-> None]
    /\ execution = [e \in Executions |-> NoExecution]
    /\ caller = [c \in Callers |-> IdleCaller]

-----------------------------------------------------------------------------
(* Mutants: plausible bugs, each put in the place of the definition it is  *)
(* named for to show that a property notices.  No specification uses them. *)

\* the key names the kind of request only
_make_key_prefix_only(q) == CHOOSE k \in Keys : TRUE

\* a request whose future is done already is executed again
Joinable_if_open(q) ==
    /\ pending[KeyOf[q]] # None
    /\ execution[pending[KeyOf[q]]].future = "open"

\* a caller does not wait for the future to be done
Wake_early(c) ==
    LET e == caller[c].execution IN
    /\ caller[c].pc = "waiting"
    /\ caller' = [caller EXCEPT ![c].pc = "answered", ![c].execution = None,
                                ![c].answer = execution[e].future]
    /\ UNCHANGED <<pending, execution>>

\* only the last waiter may give up
GiveUp_last(c) ==
    LET e == caller[c].execution IN
    /\ caller[c].pc = "waiting"
    /\ execution[e].future = "open"
    /\ \A d \in Callers : d # c => caller[d].execution # e
    /\ execution' = [execution EXCEPT ![e].future = "cancelled"]
    /\ caller' = [caller EXCEPT ![c].pc = "answered", ![c].execution = None,
                                ![c].answer = "gave up"]
    /\ UNCHANGED pending

-----------------------------------------------------------------------------
(* coalesce and _execute.                                                  *)

_make_key(q) == KeyOf[q]

Joinable(q) == pending[_make_key(q)] # None

\* The key of an execution is forgotten.
Forgotten(e) ==
    pending' = [pending EXCEPT ![_make_key(execution[e].request)] = None]

Waits(c, q, e) ==
    caller' = [caller EXCEPT ![c] = [pc |-> "waiting", request |-> q,
                                     execution |-> e, answer |-> None]]

\* An execution id no caller refers to any more.
Unused(e) ==
    /\ ~execution[e].running
    /\ \A c \in Callers : caller[c].execution # e

Join(c, q) ==
    /\ caller[c].pc = "idle"
    /\ Joinable(q)
    /\ Waits(c, q, pending[_make_key(q)])
    /\ UNCHANGED <<pending, execution>>

Start(c, q) ==
    /\ caller[c].pc = "idle"
    /\ ~Joinable(q)
    /\ \E e \in Executions :
        /\ Unused(e)
        /\ execution' = [execution EXCEPT ![e] =
                           [running |-> TRUE, request |-> q, future |-> "open"]]
        /\ pending' = [pending EXCEPT ![_make_key(q)] = e]
        /\ Waits(c, q, e)

coalesce(c) == \E q \in Requests : Join(c, q) \/ Start(c, q)

\* The wrapped function returned or raised; a cancelled future stays so, and
\* a cancellation of the function itself ("open") is not passed on.
_execute(e) ==
    /\ execution[e].running
    /\ \E outcome \in {"result", "error", "open"} :
        execution' = [execution EXCEPT
            ![e].running = FALSE,
            ![e].future = IF @ = "open" THEN outcome ELSE @]
    /\ Forgotten(e)
    /\ UNCHANGED caller

Answered(c, answer) ==
    caller' = [caller EXCEPT ![c].pc = "answered", ![c].execution = None,
                             ![c].answer = answer]

\* The shared future is done: wait_for returns or raises what it holds.
Wake(c) ==
    LET e == caller[c].execution IN
    /\ caller[c].pc = "waiting"
    /\ execution[e].future # "open"
    /\ Answered(c, IF execution[e].future = "result"
                   THEN execution[e].request ELSE execution[e].future)
    /\ UNCHANGED <<pending, execution>>

\* wait_for times out, or the caller is itself cancelled: the shared future
\* is cancelled with it.
GiveUp(c) ==
    LET e == caller[c].execution IN
    /\ caller[c].pc = "waiting"
    /\ execution[e].future = "open"
    /\ execution' = [execution EXCEPT ![e].future = "cancelled"]
    /\ Answered(c, "gave up")
    /\ UNCHANGED pending

Leave(c) ==
    /\ caller[c].pc = "answered"
    /\ caller' = [caller EXCEPT ![c] = IdleCaller]
    /\ UNCHANGED <<pending, execution>>

Next ==
    \/ \E c \in Callers : coalesce(c) \/ Wake(c) \/ GiveUp(c) \/ Leave(c)
    \/ \E e \in Executions : _execute(e)

Spec == Init /\ [][Next]_vars

\* Every wait has a timeout; nothing is assumed of the wrapped function.
Fairness == \A c \in Callers : WF_vars(Wake(c)) /\ WF_vars(GiveUp(c))

FairSpec == Spec /\ Fairness

-----------------------------------------------------------------------------
(* Type invariant.                                                         *)

\* _pending, the pending requests and the callers have their shapes
\* (request_coalescing.py:22-27, 55-57).
TypeOK ==
    /\ pending \in [Keys -> Executions \cup {None}]
    /\ execution \in [Executions -> Execution]
    /\ caller \in [Callers -> Caller]

-----------------------------------------------------------------------------
(* Safety.                                                                 *)

\* "Only one actual call is made to the backend": no two executions of one
\* key run together, also when waiters of the first have given up and others
\* ask again meanwhile (request_coalescing.py:31-34, 87-105, 121-142).
SingleFlight ==
    \A e, f \in Executions :
        execution[e].running /\ execution[f].running /\ e # f =>
            KeyOf[execution[e].request] # KeyOf[execution[f].request]

\* A caller only ever joins an execution that is still running, so that its
\* answer is computed after it asked (request_coalescing.py:87-95, 139-142).
PendingIsRunning ==
    \A k \in Keys : pending[k] # None =>
        /\ execution[pending[k]].running
        /\ KeyOf[execution[pending[k]].request] = k

\* A caller that gets a result gets one of its own key, whichever executions
\* of other keys come, end and are replaced while it waits: all that the
\* coalescer can promise, whatever requests share a key
\* (request_coalescing.py:59-62, 107-109, 121-142).
ResultOfItsKey ==
    \A c \in Callers : caller[c].answer \in Requests =>
        KeyOf[caller[c].answer] = KeyOf[caller[c].request]

\* "Coalesces identical concurrent requests": whoever gets a result gets the
\* result of its own request.  The keys of the callers do not keep the
\* requests of two accounts apart (request_coalescing.py:59-62, 107-109).
OwnResult ==
    \A c \in Callers : caller[c].answer \in Requests =>
        caller[c].answer = caller[c].request

-----------------------------------------------------------------------------
(* Liveness, under Fairness.                                               *)

\* Every caller gets an answer, even from an execution that never returns
\* (request_coalescing.py:107-112).
EveryCallerAnswered ==
    \A c \in Callers : caller[c].pc = "waiting" ~> caller[c].pc = "answered"
===============================================================================
