------------------------------ MODULE CostCache -------------------------------
(***************************************************************************)
(* The stored cost summaries of one organization                           *)
(* (app/cost_cache/service.py), refreshed from three sides: by a request   *)
(* (POST .../expenses/refresh), by the scheduler (scheduler/executor.py),  *)
(* and by a background task that a cache miss starts.                      *)
(*                                                                         *)
(* A refresh registers its task in _active_refreshes, which keeps others   *)
(* out of this process, takes the lock of the organization's status row    *)
(* with its first flush, and leaves _active_refreshes before whoever       *)
(* called it commits.  The scheduler does not commit: its session is       *)
(* closed and what it collected is rolled back.                            *)
(***************************************************************************)
EXTENDS Naturals, FiniteSets

CONSTANTS
    Background,   \* tasks that cache misses may start
    Manual,       \* requests that refresh the cache
    Scheduled,    \* runs of the scheduler that refresh the cache
    Readers,      \* requests that read the summary
    TTL,          \* COST_CACHE_TTL_HOURS, in ticks
    MaxClock,     \* bound: ticks of the clock
    None          \* no task, no row

Tasks == Background \cup Manual \cup Scheduled

ASSUME CostCacheAssumption ==
    /\ IsFiniteSet(Tasks)
    /\ Background \cap (Manual \cup Scheduled) = {}
    /\ Manual \cap Scheduled = {}
    /\ TTL \in Nat
    /\ MaxClock \in Nat
    /\ None \notin Tasks
    /\ None \notin [at : Nat, got : {"all", "silent", "noted"}]

VARIABLES
    pc,        \* pc[t]: where the refresh of task t stands
    active,    \* _active_refreshes[org], the task that refreshes
    lock,      \* the task whose transaction holds the status row
    seen,      \* seen[t]: last_collection_status when t loaded the row
    tx,        \* tx[t]: the row and the status t's transaction would leave
    stored,    \* stored[t]: the committed summary row t inserted
    status,    \* committed last_collection_status, "absent" without a row
    reader,    \* reader[r]: "idle", or "stale" between its two queries
    answer,    \* answer[r]: what get_cached_summary last answered r
    accounts,  \* the organization has cloud accounts
    bare,      \* history: a refresh that found no account has been committed
    clock

vars == <<pc, active, lock, seen, tx, stored, status, reader, answer,
          accounts, bare, clock>>

\* What the accounts gave: each of them its figures; some an exception, and none
\* of those a text; some an exception or a timeout with a text.
Collected == {"all", "silent", "noted"}

\* A summary row: when it was collected, and from what.
Rows == [at : 0..MaxClock, got : Collected]

Statuses == {"absent", "pending", "success", "partial", "failed"}

Init ==
    /\ pc = [t \in Tasks |-> "new"]
    /\ active = None
    /\ lock = None
    /\ seen = [t \in Tasks |-> "absent"]
    /\ tx = [t \in Tasks |-> [row |-> None, status |-> "absent"]]
    /\ stored = [t \in Tasks |-> None]
    /\ status = "absent"
    /\ reader = [r \in Readers |-> "idle"]
    /\ answer = [r \in Readers |-> "none"]
    /\ accounts = TRUE
    /\ bare = FALSE
    /\ clock = 0

\* A task that is registered and not done keeps others from refreshing.
Refreshing == active # None /\ pc[active] \notin {"done", "cancelled"}

\* The finally block removes the registration if it is the task's own.
Unregister(t) == active' = IF active = t THEN None ELSE active

Unlock(t) == lock' = IF lock = t THEN None ELSE lock

-----------------------------------------------------------------------------
(* Mutants: plausible bugs, each put in the place of the definition it is  *)
(* named for to show that a property notices.  No specification uses them. *)

\* a refresh that finds another one removes the registration all the same
Skip_unregisters(t) ==
    /\ pc[t] = IF t \in Background THEN "created" ELSE "new"
    /\ Refreshing /\ active # t
    /\ pc' = [pc EXCEPT ![t] = "done"]
    /\ active' = None
    /\ UNCHANGED <<lock, seen, tx, stored, status, reader, answer,
                   accounts, bare, clock>>

\* the accounts that failed are not counted
FinalStatus_lenient(got) == "success"

\* the accounts are called without a timeout: one never answers
Save_waits(t) ==
    /\ pc[t] = "collecting"
    /\ pc' = [pc EXCEPT ![t] = "waiting"]
    /\ UNCHANGED <<active, lock, seen, tx, stored, status, reader,
                   answer, accounts, bare, clock>>

\* the status row is created without a status
Mine_blank(t) == IF seen[t] = "absent" THEN "" ELSE seen[t]

-----------------------------------------------------------------------------
(* refresh_cost_cache.                                                     *)

Arrived(t) == pc[t] = IF t \in Background THEN "created" ELSE "new"

\* The caller is told that a refresh is in progress, which counts as success.
Skip(t) ==
    /\ Arrived(t)
    /\ Refreshing /\ active # t
    /\ pc' = [pc EXCEPT ![t] = "done"]
    /\ UNCHANGED <<active, lock, seen, tx, stored, status, reader,
                   answer, accounts, bare, clock>>

Register(t) ==
    /\ Arrived(t)
    /\ Refreshing => active = t
    /\ active' = t
    /\ pc' = [pc EXCEPT ![t] = "registered"]
    /\ UNCHANGED <<lock, seen, tx, stored, status, reader, answer,
                   accounts, bare, clock>>

\* The accounts and the status row are read; accounts that come or go after
\* that are not seen.
Load(t) ==
    /\ pc[t] = "registered"
    /\ seen' = [seen EXCEPT ![t] = status]
    /\ pc' = [pc EXCEPT ![t] = IF accounts THEN "loaded" ELSE "empty"]
    /\ UNCHANGED <<active, lock, tx, stored, status, reader, answer, accounts,
                   bare, clock>>

\* The status in t's copy of the row, with the default of a new row.
Mine(t) == IF seen[t] = "absent" THEN "pending" ELSE seen[t]

\* A flush writes the status if it differs from t's copy of the row.
Written(t, last, old) == IF last # Mine(t) THEN last ELSE old

\* The row t did not see is there now: inserting it again fails.
Conflict(t) == seen[t] = "absent" /\ status # "absent"

\* The numbers of accounts are flushed into the status row, for which the open
\* transaction of another refresh is waited for.
Begin(t) ==
    /\ pc[t] = "loaded"
    /\ lock = None
    /\ ~Conflict(t)
    /\ lock' = t
    /\ pc' = [pc EXCEPT ![t] = "collecting"]
    /\ tx' = [tx EXCEPT ![t].status = IF status = "absent" THEN Mine(t) ELSE status]
    /\ UNCHANGED <<active, seen, stored, status, reader, answer,
                   accounts, bare, clock>>

\* An organization without accounts: its refresh is a success at once.
NoAccounts(t) ==
    /\ pc[t] = "empty"
    /\ lock = None
    /\ ~Conflict(t)
    /\ lock' = t
    /\ pc' = [pc EXCEPT ![t] = "saved"]
    /\ tx' = [tx EXCEPT ![t].status = Written(t, "success", status)]
    /\ Unregister(t)
    /\ UNCHANGED <<seen, stored, status, reader, answer, accounts,
                   bare, clock>>

\* An account counts as failed if it left an error text that is not empty, and
\* str() of some exceptions is empty.  Success leaves no room for the "partial"
\* of _update_cache_status.
FinalStatus(got) == IF got = "noted" THEN "failed" ELSE "success"

\* All accounts have answered, failed or timed out; those that did not answer
\* add nothing to the totals, which are inserted as a row of their own: their
\* period ends now, and no other row's does.
Save(t) ==
    /\ pc[t] = "collecting"
    /\ \E got \in Collected :
          tx' = [tx EXCEPT ![t] = [row |-> [at |-> clock, got |-> got],
                                   status |-> Written(t, FinalStatus(got), @.status)]]
    /\ pc' = [pc EXCEPT ![t] = "saved"]
    /\ Unregister(t)
    /\ UNCHANGED <<lock, seen, stored, status, reader, answer,
                   accounts, bare, clock>>

\* The database refuses a statement, and with it all that follow.
Break(t) ==
    /\ pc[t] \in {"registered", "loaded", "empty", "collecting", "saved"}
    /\ pc' = [pc EXCEPT ![t] = "broken"]
    /\ Unregister(t)
    /\ UNCHANGED <<lock, seen, tx, stored, status, reader, answer,
                   accounts, bare, clock>>

\* The end of the session: a request and a background task commit, the
\* scheduler only closes.
Commit(t) ==
    /\ pc[t] = "saved"
    /\ t \notin Scheduled
    /\ stored' = [stored EXCEPT ![t] = tx[t].row]
    /\ status' = tx[t].status
    /\ bare' = (bare \/ tx[t].row = None)
    /\ pc' = [pc EXCEPT ![t] = "done"]
    /\ Unlock(t)
    /\ UNCHANGED <<active, seen, tx, reader, answer, accounts, clock>>

Rollback(t) ==
    /\ pc[t] = "broken" \/ (pc[t] = "saved" /\ t \in Scheduled)
    /\ pc' = [pc EXCEPT ![t] = "done"]
    /\ Unlock(t)
    /\ UNCHANGED <<active, seen, tx, stored, status, reader, answer,
                   accounts, bare, clock>>

\* The server shuts down.  (The timeout of a request only ends the wait of its
\* client.)  A task that has not run yet has no finally block to run, and stays
\* registered.
Cancel(t) ==
    /\ pc[t] \notin {"new", "done", "cancelled"}
    /\ pc' = [pc EXCEPT ![t] = "cancelled"]
    /\ IF pc[t] = "created" THEN UNCHANGED active ELSE Unregister(t)
    /\ Unlock(t)
    /\ UNCHANGED <<seen, tx, stored, status, reader, answer, accounts,
                   bare, clock>>

-----------------------------------------------------------------------------
(* get_cached_summary.                                                     *)

Stored == {t \in Tasks : stored[t] # None}
Fresh == {t \in Stored : clock < stored[t].at + TTL}

\* scalar_one_or_none raises when there is more than one row.
ReadFresh(r) ==
    /\ reader[r] = "idle"
    /\ IF Cardinality(Fresh) = 0
       THEN reader' = [reader EXCEPT ![r] = "stale"] /\ UNCHANGED answer
       ELSE /\ answer' = [answer EXCEPT ![r] =
                             IF Cardinality(Fresh) = 1 THEN "fresh" ELSE "error"]
            /\ UNCHANGED reader
    /\ UNCHANGED <<pc, active, lock, seen, tx, stored, status,
                   accounts, bare, clock>>

ReadStale(r) ==
    /\ reader[r] = "stale"
    /\ Stored # {}
    /\ reader' = [reader EXCEPT ![r] = "idle"]
    /\ answer' = [answer EXCEPT ![r] =
                     IF Cardinality(Stored) = 1 THEN "stale" ELSE "error"]
    /\ UNCHANGED <<pc, active, lock, seen, tx, stored, status,
                   accounts, bare, clock>>

\* Zeros are returned, and a background task is started unless one refreshes.
Miss(r) ==
    /\ reader[r] = "stale"
    /\ Stored = {}
    /\ reader' = [reader EXCEPT ![r] = "idle"]
    /\ answer' = [answer EXCEPT ![r] = "uninitialized"]
    /\ \/ Refreshing /\ UNCHANGED <<pc, active>>
       \/ /\ ~Refreshing
          /\ \E t \in Background :
                /\ pc[t] = "new"
                /\ active' = t
                /\ pc' = [pc EXCEPT ![t] = "created"]
    /\ UNCHANGED <<lock, seen, tx, stored, status, accounts, bare, clock>>

Tick ==
    /\ clock < MaxClock
    /\ clock' = clock + 1
    /\ UNCHANGED <<pc, active, lock, seen, tx, stored, status, reader,
                   answer, accounts, bare>>

\* The last cloud account is removed, or the first one added.
ChangeAccounts ==
    /\ accounts' = ~accounts
    /\ UNCHANGED <<pc, active, lock, seen, tx, stored, status, reader, answer,
                   bare, clock>>

Enter(t) == Skip(t) \/ Register(t)
Work(t) == Load(t) \/ Save(t) \/ Commit(t) \/ Rollback(t)
Flush(t) == Begin(t) \/ NoAccounts(t)

Next ==
    \/ \E t \in Tasks : Enter(t) \/ Work(t) \/ Flush(t) \/ Break(t) \/ Cancel(t)
    \/ \E r \in Readers : ReadFresh(r) \/ ReadStale(r) \/ Miss(r)
    \/ ChangeAccounts \/ Tick

Spec == Init /\ [][Next]_vars

\* Tasks that run go on, and the lock of the status row is granted to each of
\* its waiters in turn.  Nobody has to read or to ask for a refresh.
Fairness ==
    /\ \A t \in Tasks : WF_vars(Work(t)) /\ SF_vars(Flush(t))
    /\ \A t \in Tasks : WF_vars(Conflict(t) /\ Break(t))
    /\ \A t \in Background : WF_vars(Enter(t))

FairSpec == Spec /\ Fairness

-----------------------------------------------------------------------------
(* Type invariant.                                                         *)

\* Tasks, rows and the status in their ranges (models.py:33-166).
TypeOK ==
    /\ pc \in [Tasks -> {"new", "created", "registered", "loaded", "empty",
                         "collecting", "saved", "broken", "done", "cancelled"}]
    /\ active \in Tasks \cup {None}
    /\ lock \in Tasks \cup {None}
    /\ seen \in [Tasks -> Statuses]
    /\ tx \in [Tasks -> [row : Rows \cup {None}, status : Statuses]]
    /\ stored \in [Tasks -> Rows \cup {None}]
    /\ status \in Statuses
    /\ reader \in [Readers -> {"idle", "stale"}]
    /\ answer \in [Readers -> {"none", "fresh", "stale", "uninitialized", "error"}]
    /\ accounts \in BOOLEAN
    /\ bare \in BOOLEAN
    /\ clock \in 0..MaxClock

-----------------------------------------------------------------------------
(* Safety.                                                                 *)

\* A refresh "only when one is not already running": whichever of request,
\* scheduler and background task comes first, no two call the providers for one
\* organization together, also when refreshes are skipped, fail, are cancelled
\* or have not started yet (service.py:56-63, 228-240, 331-333).
SingleRefresh ==
    \A t, u \in Tasks :
        pc[t] \in {"registered", "loaded", "collecting"}
        /\ pc[u] \in {"registered", "loaded", "collecting"} => t = u

\* A cache that reports success is one in which no failure was noted: a refresh
\* of an organization without accounts has been committed, or a summary row that
\* lacks at most accounts whose exceptions had no text.  This holds whatever
\* refreshes overlapped on the status row, and with whatever copies of it, failed
\* or were rolled back (service.py:253-308, 633-641).
SuccessIsEarned ==
    status = "success" =>
        \/ bare
        \/ \E t \in Tasks : stored[t] # None /\ stored[t].got \in {"all", "silent"}

\* "It returns cached data immediately, or stale data with a warning": reading
\* the stored summary never raises (service.py:71-75, 96, 112).
CachedReadAnswers == \A r \in Readers : answer[r] # "error"

-----------------------------------------------------------------------------
(* Liveness, under Fairness.                                               *)

\* A registration does not keep others from refreshing for ever: the task that
\* holds it ends, also when it waits for the transaction of another refresh
\* (service.py:242-333, 477-487).
RefreshEnds == Refreshing ~> ~Refreshing
===============================================================================
