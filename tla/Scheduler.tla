------------------------------ MODULE Scheduler ------------------------------
(***************************************************************************)
(* The data-collection scheduler of CostPilot (app/scheduler).             *)
(*                                                                         *)
(* A SchedulerConfig row says what to collect and when.  An in-memory      *)
(* APScheduler holds one job per scheduled config; when a job fires, the   *)
(* coroutine execute_scheduler_job collects the selected data types and    *)
(* records the outcome in a SchedulerRun row, counting consecutive         *)
(* failures on the config and moving the config to a dead letter queue     *)
(* when the count reaches its limit.  HTTP handlers create, update,        *)
(* toggle, delete, trigger and retry concurrently with it.                 *)
(*                                                                         *)
(* Granularity: asyncio switches tasks only at an await.  A SELECT and the *)
(* synchronous code after it form one step; a transaction whose written    *)
(* values depend on a row it read earlier has a reading step and a commit  *)
(* step.  No mapper sets version_id_col, so a commit never checks that the *)
(* row is still the one that was read.                                     *)
(***************************************************************************)
EXTENDS Naturals, FiniteSets

CONSTANTS
    Configs,         \* ids of scheduler configs
    Runs,            \* ids of scheduler runs (bounds the runs of a behaviour)
    Clients,         \* HTTP requests that may be in flight together
    NoConfig, NoRun, \* null ids
    FailureLimits,   \* values of max_consecutive_failures a client chooses
    CollectChoices,  \* selections of data types a client chooses
    ScheduleTypes,   \* subset of {"interval", "once"}; cron behaves as interval
    Schedules,       \* what the schedule fields a client sends are good for
    Operations,      \* which of ClientOperations the clients use
    Environment      \* which of EnvironmentEvents may happen

DataTypes == {"expenses", "resources", "recommendations"}

\* create is always available.
ClientOperations == {"update", "toggle", "delete", "trigger", "retry", "abandon"}

(***************************************************************************)
(* "critical": an exception reaches the outermost handler of the executor; *)
(* "database": so does none, because the database fails a session outside  *)
(* the try block or in that handler; "store": saving a successful result   *)
(* fails; "rollback": the commit that ends a request fails; "crash": the   *)
(* process dies and is restarted; "dates": start and end dates pass.       *)
(***************************************************************************)
EnvironmentEvents == {"critical", "database", "store", "rollback", "crash", "dates"}

(***************************************************************************)
(* What schedule_scheduler_job makes of interval_minutes, cron_expression  *)
(* and start_date: "ok" a trigger; "none" no trigger, when the field that  *)
(* schedule_type asks for is empty; "bad" an exception, when the cron      *)
(* expression does not parse (no schema looks into it).                    *)
(***************************************************************************)
ScheduleFields == {"ok", "none", "bad"}

ASSUME SchedulerAssumption ==
    /\ IsFiniteSet(Runs)
    /\ NoConfig \notin Configs
    /\ NoRun \notin Runs
    /\ FailureLimits \subseteq Nat \ {0}
    /\ CollectChoices \subseteq SUBSET DataTypes
    /\ ScheduleTypes \subseteq {"interval", "once"}
    /\ Schedules \subseteq ScheduleFields
    /\ Operations \subseteq ClientOperations
    /\ Environment \subseteq EnvironmentEvents

VARIABLES
    exists,   \* exists[c]: the life of config row c in the database
    row,      \* row[c]: the committed columns of config c
    clock,    \* clock[c]: where now is relative to start_date and end_date of c
    up,       \* the server process is running
    jobs,     \* jobs[c]: the trigger of the job of c in APScheduler's job store
    run,      \* run[r]: the committed row of run r
    task,     \* task[r]: the coroutine executing run r, and its locals
    dlq,      \* dlq[r]: status of the dead letter whose original_run_id is r
    request,  \* request[u]: the open transaction of request u
    apart     \* history: configs whose jobs and row a request that failed, or
              \* two that overlapped, or a new failure limit, may have parted

vars == <<exists, row, clock, up, jobs, run, task, dlq, request, apart>>

Row == [is_enabled : BOOLEAN,
        consecutive_failures : Nat,
        max_consecutive_failures : Nat \ {0},
        collect : SUBSET DataTypes,
        schedule_type : {"interval", "once"},
        schedule : ScheduleFields]

Jobs == [Configs -> {"none", "interval", "once"}]

RunStatus == {"absent", "running", "completed", "failed", "partial", "deleted"}
Settled == {"completed", "failed", "partial"}

\* Status column of a data type; "silent" is FAILED with no text of an error in
\* results[d]["error"], which only the log of the run tells from "failed".
TypeStatus == {"none", "completed", "failed", "silent"}

RunRow == [status : RunStatus,
           config : Configs \cup {NoConfig},
           types : [DataTypes -> TypeStatus],
           critical : BOOLEAN]   \* error_message is set

DeadLetterStatus == {"none", "pending", "retried", "abandoned"}

TaskPC == {"none", "called", "admitted", "collecting", "finalizing",
           "failing", "unscheduling", "rechecking",
           "lost"}   \* ended by an exception that nothing caught

Task == [pc : TaskPC,
         scheduled : BOOLEAN,          \* started by APScheduler, not by a request
         config : Configs \cup {NoConfig},
         collect : SUBSET DataTypes,   \* collect_* flags read at the start
         done : SUBSET DataTypes,
         success : SUBSET DataTypes,   \* results[d]["success"]
         error : SUBSET DataTypes,     \* results[d]["error"] is set
         old : Row]                    \* config as read by the closing session

Request == [op : {"idle", "create", "update", "delete", "retry"},
            config : Configs \cup {NoConfig},
            old : Row, new : Row,
            seen : SUBSET Runs,        \* runs a delete will cascade to
            dead : Runs \cup {NoRun},  \* dead letter being retried
            was : DeadLetterStatus,    \* and its status when it was read
            run : Runs \cup {NoRun}]   \* run created for the retry

NoRow == [is_enabled |-> FALSE, consecutive_failures |-> 0,
          max_consecutive_failures |-> 1, collect |-> {},
          schedule_type |-> "interval", schedule |-> "ok"]

NoJobs == [c \in Configs |-> "none"]

NoTask == [pc |-> "none", scheduled |-> FALSE, config |-> NoConfig,
           collect |-> {}, done |-> {}, success |-> {},
           error |-> {}, old |-> NoRow]

Idle == [op |-> "idle", config |-> NoConfig, old |-> NoRow, new |-> NoRow,
         seen |-> {}, dead |-> NoRun, was |-> "none", run |-> NoRun]

RunningRow(c) == [status |-> "running", config |-> c,
                  types |-> [d \in DataTypes |-> "none"], critical |-> FALSE]

Init ==
    /\ exists = [c \in Configs |-> "absent"]
    /\ row = [c \in Configs |-> NoRow]
    /\ clock = [c \in Configs |-> "before"]
    /\ up = TRUE
    /\ jobs = NoJobs
    /\ run = [r \in Runs |-> [RunningRow(NoConfig) EXCEPT !.status = "absent"]]
    /\ task = [r \in Runs |-> NoTask]
    /\ dlq = [r \in Runs |-> "none"]
    /\ request = [u \in Clients |-> Idle]
    /\ apart = {}

-----------------------------------------------------------------------------
(* Mutants: plausible bugs, each put in the place of the definition it is  *)
(* named for to show that a property notices.  No specification uses them. *)

Retryable_abandoned(status) == status # "none"

Schedulable_once_again(c, config) ==
    /\ config.is_enabled
    /\ config.consecutive_failures < config.max_consecutive_failures
    /\ clock[c] # "after"
    /\ config.schedule = "ok"

schedule_scheduler_job_drops(c, config) ==
    jobs' = [jobs EXCEPT ![c] = IF config.is_enabled /\ @ = "none"
                                THEN config.schedule_type ELSE "none"]

CommitDelete_unconstrained(u) ==
    LET c == request[u].config IN
    /\ request[u].op = "delete"
    /\ exists' = IF exists[c] = "stored" THEN [exists EXCEPT ![c] = "deleted"] ELSE exists
    /\ run' = [r \in Runs |-> IF r \in request[u].seen
                 THEN [run[r] EXCEPT !.status = "deleted"] ELSE run[r]]
    /\ request' = [request EXCEPT ![u] = Idle]
    /\ UNCHANGED <<row, clock, up, jobs, task, dlq, apart>>

Record_keeps_completed(r, d, outcome) ==
    /\ task' = [task EXCEPT ![r] = [task[r] EXCEPT
                 !.done = @ \cup {d},
                 !.success = IF outcome \in {"ok", "unstored"}
                             THEN @ \cup {d} ELSE @,
                 !.error = IF outcome \in {"error", "unstored"}
                           THEN @ \cup {d} ELSE @]]
    /\ run' = [run EXCEPT ![r].types[d] =
                 IF outcome \in {"ok", "unstored"} THEN "completed"
                 ELSE IF outcome = "error" THEN "failed" ELSE "silent"]

Counted_gives_back(config, status) ==
    [config EXCEPT !.consecutive_failures =
        IF status = "failed" THEN @ + 1 ELSE @ - 1]

Counted_never_reset(config, status) ==
    [config EXCEPT !.consecutive_failures = IF status = "failed" THEN @ + 1 ELSE @]

Counted_reset_to_one(config, status) ==
    [config EXCEPT !.consecutive_failures = IF status = "failed" THEN @ + 1 ELSE 1]

Close_keeps_running(r, status, critical) ==
    /\ run' = [run EXCEPT ![r].critical = critical,
                          ![r].status = IF critical THEN @ ELSE status]
    /\ UNCHANGED <<row, dlq>>

-----------------------------------------------------------------------------
(* Operators shared by the executor and the handlers.                      *)

Stored(c) == exists[c] = "stored"
RunsOf(c) == {r \in Runs : run[r].config = c /\ run[r].status # "absent"}
FailedRuns(c) == {r \in Runs : run[r].config = c /\ run[r].status = "failed"}
Fresh(r) == run[r].status = "absent" /\ task[r].pc = "none"

\* An UPDATE sets the columns whose value changed since the row was loaded.
Flushed(current, old, new) ==
    [current EXCEPT
        !.is_enabled = IF new.is_enabled # old.is_enabled
                       THEN new.is_enabled ELSE @,
        !.consecutive_failures =
            IF new.consecutive_failures # old.consecutive_failures
            THEN new.consecutive_failures ELSE @,
        !.max_consecutive_failures =
            IF new.max_consecutive_failures # old.max_consecutive_failures
            THEN new.max_consecutive_failures ELSE @,
        !.collect = IF new.collect # old.collect THEN new.collect ELSE @,
        !.schedule_type = IF new.schedule_type # old.schedule_type
                          THEN new.schedule_type ELSE @,
        !.schedule = IF new.schedule # old.schedule THEN new.schedule ELSE @]

Exhausted(config) ==
    config.consecutive_failures >= config.max_consecutive_failures

Retryable(status) == status \in {"pending", "retried"}

\* The conditions under which schedule_scheduler_job comes to build a trigger.
Wanted(c, config) ==
    /\ config.is_enabled
    /\ ~Exhausted(config)
    /\ clock[c] # "after"

\* Those under which it adds a job.
Schedulable(c, config) ==
    /\ Wanted(c, config)
    /\ config.schedule = "ok"
    /\ config.schedule_type = "once" => clock[c] = "before"

\* Those under which it raises, the old job gone already.
Raises(c, config) == Wanted(c, config) /\ config.schedule = "bad"

\* schedule_scheduler_job: drop the job, then add it again if it may run.
schedule_scheduler_job(c, config) ==
    jobs' = [jobs EXCEPT ![c] = IF Schedulable(c, config)
                                THEN config.schedule_type ELSE "none"]

unschedule_scheduler_job(c) == jobs' = [jobs EXCEPT ![c] = "none"]

-----------------------------------------------------------------------------
(* The executor.                                                           *)

Called(c, scheduled) ==
    [NoTask EXCEPT !.pc = "called", !.config = c,
                   !.scheduled = scheduled]

Ends(r) == task' = [task EXCEPT ![r] = NoTask]
Goes(r, pc) == task' = [task EXCEPT ![r] = [@ EXCEPT !.pc = pc]]
GoesWith(r, pc, config) ==
    task' = [task EXCEPT ![r] = [@ EXCEPT !.pc = pc, !.old = config]]

\* APScheduler starts a due job unless an instance of it is still running
\* (max_instances = 1); the job of a one-time trigger is removed.
Fire(c) ==
    /\ up
    /\ jobs[c] # "none"
    /\ jobs[c] = "once" => clock[c] # "before"
    /\ \A r \in Runs : ~(task[r].scheduled /\ task[r].config = c)
    /\ \E r \in Runs :
        /\ Fresh(r)
        /\ task' = [task EXCEPT ![r] = Called(c, TRUE)]
    /\ jobs' = IF jobs[c] = "once" THEN [jobs EXCEPT ![c] = "none"] ELSE jobs
    /\ UNCHANGED <<exists, row, clock, up, run, dlq, request, apart>>

MayStart(c) == Stored(c) /\ row[c].is_enabled /\ ~Exhausted(row[c])

\* First session: check the config, create the run unless it exists already.
Admit(r) ==
    LET c == task[r].config IN
    /\ task[r].pc = "called"
    /\ MayStart(c)
    /\ Goes(r, "admitted")
    /\ run' = IF task[r].scheduled
              THEN [run EXCEPT ![r] = RunningRow(c)] ELSE run
    /\ UNCHANGED <<exists, row, clock, up, jobs, dlq, request, apart>>

\* Early returns of the first session, and database errors in it; a run record
\* handed in by a request keeps the status RUNNING.
Skip(r) ==
    /\ task[r].pc = "called"
    /\ ~MayStart(task[r].config) \/ "database" \in Environment
    /\ Ends(r)
    /\ UNCHANGED <<exists, row, clock, up, jobs, run, dlq, request, apart>>

\* Second session: reload the config, whose flags drive the collection.
Reload(r) ==
    LET c == task[r].config IN
    /\ task[r].pc = "admitted"
    /\ IF Stored(c)
       THEN task' = [task EXCEPT ![r] = [@ EXCEPT !.pc = "collecting",
                                                 !.collect = row[c].collect]]
       ELSE Ends(r)
    /\ UNCHANGED <<exists, row, clock, up, jobs, run, dlq, request, apart>>

Todo(r) == task[r].collect \ task[r].done

NextType(todo) ==
    IF "expenses" \in todo THEN "expenses"
    ELSE IF "resources" \in todo THEN "resources" ELSE "recommendations"

\* "silent": the type fails and results hold no text of an error, because the
\* exception has none or because refresh_cost_cache returned success = False.
\* "unstored": the data arrived, saving the outcome raised, and the inner
\* handler then recorded the failure.
CollectOutcomes ==
    {"ok", "error", "silent"}
        \cup (IF "store" \in Environment THEN {"unstored"} ELSE {})

\* Record the outcome for data type d in the locals and in the run.
Record(r, d, outcome) ==
    /\ task' = [task EXCEPT ![r] = [task[r] EXCEPT
                 !.done = @ \cup {d},
                 !.success = IF outcome \in {"ok", "unstored"}
                             THEN @ \cup {d} ELSE @,
                 !.error = IF outcome \in {"error", "unstored"}
                           THEN @ \cup {d} ELSE @]]
    /\ run' = [run EXCEPT ![r].types[d] =
                 IF outcome = "ok" THEN "completed"
                 ELSE IF outcome = "silent" THEN "silent" ELSE "failed"]

Collect(r) ==
    LET d == NextType(Todo(r)) IN
    /\ task[r].pc = "collecting"
    /\ Todo(r) # {}
    /\ run[r].status # "deleted"
    /\ \E outcome \in CollectOutcomes : Record(r, d, outcome)
    /\ UNCHANGED <<exists, row, clock, up, jobs, dlq, request, apart>>

\* The run was deleted with its config: inserting a log entry violates the
\* foreign key, in the collection and again in the outermost handler.
Vanish(r) ==
    /\ task[r].pc = "collecting"
    /\ run[r].status = "deleted"
    /\ Ends(r)
    /\ UNCHANGED <<exists, row, clock, up, jobs, run, dlq, request, apart>>

\* Closing session, up to its commit: the config is read afresh.
FinalizeRead(r) ==
    LET c == task[r].config IN
    /\ task[r].pc = "collecting"
    /\ Todo(r) = {}
    /\ Stored(c)
    /\ run[r].status # "deleted"
    /\ GoesWith(r, "finalizing", row[c])
    /\ UNCHANGED <<exists, row, clock, up, jobs, run, dlq, request, apart>>

FinalStatus(t) ==
    IF t.error = {} THEN "completed"
    ELSE IF t.success = {} THEN "failed" ELSE "partial"

Counted(config, status) ==
    [config EXCEPT !.consecutive_failures =
        IF status = "failed" THEN @ + 1 ELSE 0]

\* Writes of a closing session: the run's status, the counter, and a dead
\* letter when the counter reached its limit.
Close(r, status, critical) ==
    LET c == task[r].config
        new == Counted(task[r].old, status)
    IN  /\ row' = [row EXCEPT ![c] = Flushed(@, task[r].old, new)]
        /\ run' = [run EXCEPT ![r] =
                     [@ EXCEPT !.status = status, !.critical = critical]]
        /\ dlq' = IF Exhausted(new) THEN [dlq EXCEPT ![r] = "pending"] ELSE dlq

FinalizeCommit(r) ==
    LET status == FinalStatus(task[r])
        new == Counted(task[r].old, status)
    IN
    /\ task[r].pc = "finalizing"
    /\ IF Stored(task[r].config)
       THEN /\ Close(r, status, FALSE)
            /\ IF Exhausted(new)
               THEN Goes(r, "unscheduling")
               ELSE Ends(r)
       ELSE Ends(r) /\ UNCHANGED <<row, run, dlq>>
    /\ UNCHANGED <<exists, clock, up, jobs, request, apart>>

\* Any other exception is caught by the outermost handler.
CriticalRead(r) ==
    LET c == task[r].config IN
    /\ "critical" \in Environment
    /\ task[r].pc \in {"collecting", "finalizing"}
    /\ IF Stored(c)
       THEN GoesWith(r, "failing", row[c])
       ELSE Ends(r)
    /\ UNCHANGED <<exists, row, clock, up, jobs, run, dlq, request, apart>>

CriticalCommit(r) ==
    LET c == task[r].config
        new == Counted(task[r].old, "failed")
    IN
    /\ task[r].pc = "failing"
    /\ IF Stored(c)
       THEN /\ Close(r, "failed", TRUE)
            /\ Goes(r, IF Exhausted(new) THEN "unscheduling" ELSE "rechecking")
       ELSE Ends(r) /\ UNCHANGED <<row, run, dlq>>
    /\ UNCHANGED <<exists, clock, up, jobs, request, apart>>

Unschedule(r) ==
    /\ task[r].pc = "unscheduling"
    /\ unschedule_scheduler_job(task[r].config)
    /\ Ends(r)
    /\ UNCHANGED <<exists, row, clock, up, run, dlq, request, apart>>

\* After a critical failure the job is put back, from a fresh read; one that
\* cannot be put back is gone, although an open request may have added it.
Recheck(r) ==
    LET c == task[r].config IN
    /\ task[r].pc = "rechecking"
    /\ \/ /\ MayStart(c) /\ row[c].schedule_type # "once"
          /\ schedule_scheduler_job(c, row[c])
          /\ apart' = IF row[c].schedule # "ok" /\ \E u \in Clients : request[u].config = c
                      THEN apart \cup {c} ELSE apart
       \/ /\ \/ ~(MayStart(c) /\ row[c].schedule_type # "once")
             \/ "database" \in Environment
          /\ UNCHANGED <<jobs, apart>>
    /\ Ends(r)
    /\ UNCHANGED <<exists, row, clock, up, run, dlq, request>>

\* The sessions that reload the config and record a critical failure stand
\* outside the try block: an error there ends the coroutine, and its run
\* keeps the status RUNNING.
Lose(r) ==
    /\ "database" \in Environment
    /\ task[r].pc \in {"admitted", "failing"}
    /\ task' = [task EXCEPT ![r] =
                  [NoTask EXCEPT !.pc = "lost", !.config = task[r].config]]
    /\ UNCHANGED <<exists, row, clock, up, jobs, run, dlq, request, apart>>

ExecutorStep(r) ==
    \/ Admit(r) \/ Skip(r) \/ Reload(r) \/ Collect(r) \/ Vanish(r)
    \/ FinalizeRead(r) \/ FinalizeCommit(r)
    \/ CriticalRead(r) \/ CriticalCommit(r)
    \/ Unschedule(r) \/ Recheck(r) \/ Lose(r)

-----------------------------------------------------------------------------
(* The request handlers (service.py).  get_db commits when the handler has *)
(* returned, so APScheduler is changed before the database is.             *)

Free(u) == up /\ request[u].op = "idle"

Open(u, op, c, old, new) ==
    request' = [request EXCEPT ![u] =
        [Idle EXCEPT !.op = op, !.config = c, !.old = old, !.new = new]]

Closed(u) == request' = [request EXCEPT ![u] = Idle]

\* Only a cron expression can fail to parse.
MaySend(kind, schedule) == kind = "once" => schedule # "bad"

Overlaps(u, c) == \E v \in Clients \ {u} : request[v].config = c

\* An update of c that is open until it commits or, when it raises, is rolled
\* back at once.
Change(u, c, new, raises) ==
    /\ IF raises THEN UNCHANGED request ELSE Open(u, "update", c, row[c], new)
    /\ apart' = IF \/ raises
                   \/ Overlaps(u, c)
                   \/ new.max_consecutive_failures # row[c].max_consecutive_failures
                THEN apart \cup {c} ELSE apart

\* A create that raises leaves nothing behind.
create_scheduler_config(u) ==
    /\ Free(u)
    /\ \E c \in Configs, enabled \in BOOLEAN, limit \in FailureLimits,
          types \in CollectChoices, kind \in ScheduleTypes, schedule \in Schedules :
        LET new == [is_enabled |-> enabled, consecutive_failures |-> 0,
                    max_consecutive_failures |-> limit, collect |-> types,
                    schedule_type |-> kind, schedule |-> schedule]
        IN  /\ exists[c] = "absent"
            /\ types # {}
            /\ MaySend(kind, schedule)
            /\ kind = "interval" => schedule # "none"
            /\ ~Raises(c, new)
            /\ exists' = [exists EXCEPT ![c] = "creating"]
            /\ Open(u, "create", c, new, new)
            /\ IF enabled THEN schedule_scheduler_job(c, new) ELSE UNCHANGED jobs
    /\ UNCHANGED <<row, clock, up, run, task, dlq, apart>>

CommitCreate(u) ==
    LET c == request[u].config IN
    /\ request[u].op = "create"
    /\ exists' = [exists EXCEPT ![c] = "stored"]
    /\ row' = [row EXCEPT ![c] = request[u].new]
    /\ Closed(u)
    /\ UNCHANGED <<clock, up, jobs, run, task, dlq, apart>>

\* touched: the request names a schedule field, even with its old value.  Only
\* a request that names schedule_type is refused for an empty schedule, and
\* it is judged by the old value of the field it empties.
update_scheduler_config(u, c) ==
    /\ "update" \in Operations
    /\ Free(u)
    /\ Stored(c)
    /\ \E enabled \in BOOLEAN, limit \in FailureLimits,
          types \in CollectChoices, kind \in ScheduleTypes,
          schedule \in Schedules, touched \in BOOLEAN :
        LET new == [row[c] EXCEPT !.is_enabled = enabled,
                                  !.max_consecutive_failures = limit,
                                  !.collect = types, !.schedule_type = kind,
                                  !.schedule = schedule]
        IN  /\ types # {}
            /\ MaySend(kind, schedule)
            /\ \/ touched
               \/ /\ enabled = row[c].is_enabled
                  /\ kind = row[c].schedule_type
                  /\ schedule = row[c].schedule
            /\ Change(u, c, new, touched /\ Raises(c, new))
            /\ IF ~touched THEN UNCHANGED jobs
               ELSE IF enabled THEN schedule_scheduler_job(c, new)
               ELSE unschedule_scheduler_job(c)
    /\ UNCHANGED <<exists, row, clock, up, run, task, dlq>>

toggle_scheduler(u, c, enabled) ==
    LET new == [row[c] EXCEPT !.is_enabled = enabled,
                              !.consecutive_failures = IF enabled THEN 0 ELSE @]
    IN
    /\ "toggle" \in Operations
    /\ Free(u)
    /\ Stored(c)
    /\ Change(u, c, new, Raises(c, new))
    /\ IF enabled THEN schedule_scheduler_job(c, new)
       ELSE unschedule_scheduler_job(c)
    /\ UNCHANGED <<exists, row, clock, up, run, task, dlq>>

\* The flush of a row deleted meanwhile matches no row and is rolled back.
CommitUpdate(u) ==
    LET c == request[u].config IN
    /\ request[u].op = "update"
    /\ row' = IF Stored(c)
              THEN [row EXCEPT ![c] = Flushed(@, request[u].old, request[u].new)]
              ELSE row
    /\ Closed(u)
    /\ UNCHANGED <<exists, clock, up, jobs, run, task, dlq, apart>>

delete_scheduler_config(u, c) ==
    /\ "delete" \in Operations
    /\ Free(u)
    /\ Stored(c)
    /\ unschedule_scheduler_job(c)
    /\ request' = [request EXCEPT ![u] =
         [Idle EXCEPT !.op = "delete", !.config = c, !.seen = RunsOf(c)]]
    /\ apart' = IF Overlaps(u, c) THEN apart \cup {c} ELSE apart
    /\ UNCHANGED <<exists, row, clock, up, run, task, dlq>>

\* The cascade deletes the runs it loaded; a run inserted since then makes
\* the foreign key reject the delete.
CommitDelete(u) ==
    LET c == request[u].config IN
    /\ request[u].op = "delete"
    /\ IF Stored(c) /\ RunsOf(c) = request[u].seen
       THEN /\ exists' = [exists EXCEPT ![c] = "deleted"]
            /\ run' = [r \in Runs |-> IF r \in RunsOf(c)
                         THEN [run[r] EXCEPT !.status = "deleted"] ELSE run[r]]
            /\ UNCHANGED apart
       ELSE UNCHANGED <<exists, run>> /\ apart' = apart \cup {c}
    /\ Closed(u)
    /\ UNCHANGED <<row, clock, up, jobs, task, dlq>>

\* The run record is committed, then its task is created.  The overrides of a
\* trigger are set on the request's own copy of the config and restored before
\* it commits: they reach neither the row nor the executor.
trigger_scheduler_manual(c) ==
    /\ "trigger" \in Operations
    /\ up
    /\ Stored(c)
    /\ row[c].is_enabled
    /\ \E r \in Runs :
        /\ Fresh(r)
        /\ run' = [run EXCEPT ![r] = RunningRow(c)]
        /\ task' = [task EXCEPT ![r] = Called(c, FALSE)]
    /\ UNCHANGED <<exists, row, clock, up, jobs, dlq, request, apart>>

\* First commit of a retry: the counter is reset and the new run recorded.
retry_dead_letter_job(u, d) ==
    LET c == run[d].config IN
    /\ "retry" \in Operations
    /\ Free(u)
    /\ Retryable(dlq[d])
    /\ Stored(c)
    /\ row' = [row EXCEPT ![c].consecutive_failures = 0]
    /\ \E r \in Runs :
        /\ Fresh(r)
        /\ run' = [run EXCEPT ![r] = RunningRow(c)]
        /\ request' = [request EXCEPT ![u] =
             [Idle EXCEPT !.op = "retry", !.config = c, !.dead = d,
                          !.was = dlq[d], !.run = r]]
    /\ UNCHANGED <<exists, clock, up, jobs, task, dlq, apart>>

\* Second part: mark the dead letter, create the task, commit.
EndRetry(u) ==
    LET q == request[u] IN
    /\ q.op = "retry"
    /\ task' = [task EXCEPT ![q.run] = Called(q.config, FALSE)]
    /\ \/ dlq' = IF q.was # "retried"
                 THEN [dlq EXCEPT ![q.dead] = "retried"] ELSE dlq
       \/ "rollback" \in Environment /\ UNCHANGED dlq
    /\ Closed(u)
    /\ UNCHANGED <<exists, row, clock, up, jobs, run, apart>>

abandon_dead_letter_job(u, d) ==
    /\ "abandon" \in Operations
    /\ Free(u)
    /\ dlq[d] # "none"
    /\ Stored(run[d].config)
    /\ dlq' = [dlq EXCEPT ![d] = "abandoned"]
    /\ UNCHANGED <<exists, row, clock, up, jobs, run, task, request, apart>>

\* The commit (for a retry, the flush before its task is created) fails:
\* the database is as before, APScheduler is not.
Rollback(u) ==
    LET c == request[u].config IN
    /\ "rollback" \in Environment
    /\ request[u].op # "idle"
    /\ exists' = IF request[u].op = "create"
                 THEN [exists EXCEPT ![c] = "deleted"] ELSE exists
    /\ apart' = IF request[u].op = "retry" THEN apart ELSE apart \cup {c}
    /\ Closed(u)
    /\ UNCHANGED <<row, clock, up, jobs, run, task, dlq>>

-----------------------------------------------------------------------------
(* The process and the calendar.                                           *)

Crash ==
    /\ "crash" \in Environment
    /\ up
    /\ up' = FALSE
    /\ jobs' = NoJobs
    /\ task' = [r \in Runs |-> NoTask]
    /\ request' = [u \in Clients |-> Idle]
    /\ exists' = [c \in Configs |->
                    IF exists[c] = "creating" THEN "deleted" ELSE exists[c]]
    /\ UNCHANGED <<row, clock, run, dlq, apart>>

\* lifespan startup: init_scheduler, then load_schedulers_from_db, whose jobs
\* agree with the rows again.  An exception in it stops the server.
Restart ==
    /\ ~up
    /\ \A c \in Configs : Stored(c) => ~Raises(c, row[c])
    /\ up' = TRUE
    /\ apart' = {c \in apart : Exhausted(row[c])}
    /\ jobs' = [c \in Configs |-> IF Stored(c) /\ Schedulable(c, row[c])
                                 THEN row[c].schedule_type ELSE "none"]
    /\ UNCHANGED <<exists, row, clock, run, task, dlq, request>>

StartDatePasses(c) ==
    /\ "dates" \in Environment
    /\ clock[c] = "before"
    /\ clock' = [clock EXCEPT ![c] = "open"]
    /\ UNCHANGED <<exists, row, up, jobs, run, task, dlq, request, apart>>

EndDatePasses(c) ==
    /\ "dates" \in Environment
    /\ clock[c] = "open"
    /\ clock' = [clock EXCEPT ![c] = "after"]
    /\ UNCHANGED <<exists, row, up, jobs, run, task, dlq, request, apart>>

RequestStep(u) ==
    \/ create_scheduler_config(u) \/ CommitCreate(u)
    \/ CommitUpdate(u) \/ CommitDelete(u) \/ EndRetry(u) \/ Rollback(u)
    \/ \E c \in Configs : \/ update_scheduler_config(u, c)
                          \/ delete_scheduler_config(u, c)
                          \/ \E e \in BOOLEAN : toggle_scheduler(u, c, e)
    \/ \E d \in Runs : retry_dead_letter_job(u, d) \/ abandon_dead_letter_job(u, d)

Next ==
    \/ \E r \in Runs : ExecutorStep(r)
    \/ \E u \in Clients : RequestStep(u)
    \/ \E c \in Configs : \/ Fire(c) \/ trigger_scheduler_manual(c)
                          \/ StartDatePasses(c) \/ EndDatePasses(c)
    \/ Crash
    \/ Restart

Spec == Init /\ [][Next]_vars

\* The event loop runs every coroutine that is ready, and a request that was
\* accepted is brought to its end.
Fairness ==
    /\ \A r \in Runs : WF_vars(ExecutorStep(r))
    /\ \A u \in Clients : WF_vars(CommitCreate(u) \/ CommitUpdate(u)
                                    \/ CommitDelete(u) \/ EndRetry(u))

FairSpec == Spec /\ Fairness

-----------------------------------------------------------------------------
(* Type invariant.                                                         *)

\* Every variable has its declared shape: rows, runs, coroutines and open
\* requests of app/scheduler/models.py, executor.py and service.py.
TypeOK ==
    /\ exists \in [Configs -> {"absent", "creating", "stored", "deleted"}]
    /\ row \in [Configs -> Row]
    /\ clock \in [Configs -> {"before", "open", "after"}]
    /\ up \in BOOLEAN
    /\ jobs \in Jobs
    /\ run \in [Runs -> RunRow]
    /\ task \in [Runs -> Task]
    /\ dlq \in [Runs -> DeadLetterStatus]
    /\ request \in [Clients -> Request]
    /\ apart \in SUBSET Configs

-----------------------------------------------------------------------------
(* Safety.                                                                 *)

\* A dead letter is only ever written for a run that FAILED: no completed or
\* partial run, and no run still collecting, moves a config to the dead
\* letter queue, however runs of one config overlap (executor.py:383-401).
DeadLetterRunFailed ==
    \A r \in Runs : dlq[r] # "none" => run[r].status \in {"failed", "deleted"}

\* consecutive_failures never runs ahead of the FAILED runs on record: stale
\* reads by overlapping runs, toggles and retries may lose increments or
\* undo a reset, but never invent a failure (executor.py:376-381, 430).
FailuresRecorded ==
    \A c \in Configs : Stored(c) =>
        row[c].consecutive_failures <= Cardinality(FailedRuns(c))

\* A scheduler that is enabled, below its limit, recurring, within its dates
\* and given a usable schedule has a job in APScheduler unless one of its
\* runs went to the dead letter queue or, since the server started, a request
\* on it failed, two requests on it overlapped or its limit was changed:
\* handlers and executor, which change job store and database at different
\* times, agree once they are quiet (executor.py:72-141, service.py:168-225).
Quiet(c) ==
    /\ \A u \in Clients : request[u].config # c
    /\ \A r \in Runs : task[r].config = c => task[r].pc # "unscheduling"

Healthy(c) == /\ Stored(c) /\ row[c].is_enabled /\ ~Exhausted(row[c])
              /\ clock[c] # "after" /\ row[c].schedule_type = "interval"
              /\ row[c].schedule = "ok"

UnscheduledOnlyByDeadLetter ==
    \A c \in Configs : up /\ Quiet(c) /\ Healthy(c) =>
        \/ jobs[c] # "none"
        \/ c \in apart
        \/ \E r \in Runs : run[r].config = c /\ dlq[r] # "none"

\* The final status of a run agrees with those of its data types: a COMPLETED
\* run has no type that failed with an error on record, a PARTIAL run has one,
\* and so has a run that FAILED without a critical exception, which has no
\* type that completed.  A type may fail in silence under any of them
\* (executor.py:259-273, 370-381).
RunStatusMatchesTypes ==
    \A r \in Runs :
        LET failed == {d \in DataTypes : run[r].types[d] = "failed"} IN
        /\ run[r].status = "completed" => failed = {}
        /\ run[r].status = "partial" => failed # {}
        /\ run[r].status = "failed" /\ ~run[r].critical =>
             failed # {} /\ \A d \in DataTypes : run[r].types[d] # "completed"

\* No run of a deleted config is ever recorded or collected into, although a
\* job or a coroutine for it may outlive the delete (executor.py:156-159,
\* 191-194, 366-368).
DeletedConfigLeavesNothing ==
    \A r \in Runs :
        run[r].status \notin {"absent", "deleted"} => Stored(run[r].config)

-----------------------------------------------------------------------------
(* What a step may never do.                                               *)

\* Request u read the letter of run r as pending, and now marks it retried.
MarksRetried(u, r) ==
    /\ request[u].op = "retry" /\ request[u].dead = r /\ request[u].was = "pending"
    /\ dlq'[r] = "retried"

\* Only one thing revives a dead letter that was abandoned ("permanently"):
\* the commit of a retry that read it as pending before the abandon, and
\* writes over it (service.py:571-600, 609-618).
OnlyAnOpenRetryRevives ==
    [][\A r \in Runs : dlq[r] = "abandoned" /\ dlq'[r] # "abandoned" =>
          \E u \in Clients : MarksRetried(u, r)]_vars

\* A one-time job is not put back once its start date has passed, whichever
\* of toggle, update, restart and the executor reschedules it, unless by the
\* request that makes it recurring (executor.py:111-113, 471).
OnceNeverRearmed ==
    [][\A c \in Configs :
         /\ Stored(c) /\ row[c].schedule_type = "once" /\ clock[c] # "before"
         /\ jobs[c] = "none" /\ jobs'[c] # "none"
         => \E u \in Clients : /\ request'[u].config = c
                               /\ request'[u].new.schedule_type # "once"]_vars

-----------------------------------------------------------------------------
(* Liveness, under Fairness.                                               *)

\* A run that passed the checks of its first session ends with a final
\* status or is deleted with its config, whatever fails in the collection,
\* unless the server crashes or the database fails one of the two sessions
\* that nothing guards (executor.py:190-191, 205-472).
AdmittedRunSettles ==
    \A r \in Runs : task[r].pc = "admitted" ~>
        run[r].status \in Settled \cup {"deleted"} \/ ~up \/ task[r].pc = "lost"

-----------------------------------------------------------------------------
(* The life of runs and dead letters that the scheduler implements.        *)

Lifecycle == INSTANCE RunLifecycle WITH
    Runs <- Runs, status <- [r \in Runs |-> run[r].status], letter <- dlq

\* Runs settle once and dead letters are written by the step that fails
\* their run (see RunLifecycle).
ImplementsLifecycle == Lifecycle!Spec
=============================================================================
