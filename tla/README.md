# CostPilot in TLA+

CostPilot is a cloud-cost platform: a FastAPI backend on PostgreSQL, MongoDB and
Redis, one asyncio process per worker, and a React frontend. This directory holds
TLA+ models of the parts of the backend whose correctness depends on the order in
which coroutines, requests, timers and failures meet, the TLC configurations that
check them, and proofs that TLAPS checks. Paths below are relative to
`src/backend/app/` unless they start with `src/`.

Read a component's module first, then its `.cfg` files, then its `...Proofs`
module. `PROJECT.json` lists components, runs, mutants, the source lines behind
each definition, findings, hazards and theorems.

## 1. Inventory

| component | state | operations | hard because | module |
|---|---|---|---|---|
| **Scheduler** (`scheduler/`) | rows of `scheduler_configs`, `scheduler_runs`, `dead_letter_jobs`; APScheduler's in-memory job store | create, update, toggle, delete, manual trigger, retry and abandon of dead letters; the executor coroutine; startup | runs overlap; handlers change APScheduler before `get_db` commits; counters are read, incremented and written around awaits; the job store is lost in a crash; several transactions per run, any of which may fail | `Scheduler` |
| **Circuit breaker** (`shared/circuit_breaker.py`) | state, two counters, half-open calls, last failure time | `call` around every provider call | calls admitted in one state return in another; probes may end with exceptions the breaker ignores | `CircuitBreaker` |
| **Retry** (`shared/retry.py`) | attempt counter and sleep of a call | `with_retry` | rejections by the breaker use up attempts; the sleeps run against its recovery timeout | `ProviderCalls` |
| **Request coalescer** (`shared/request_coalescing.py`) | pending executions by key, one future each | `coalesce`, `_execute` | callers share one future; any of them may time out or be cancelled | `RequestCoalescer` |
| **Cost cache** (`cost_cache/`) | `cost_cache` and `cost_cache_status` rows; in-memory map of refreshes in flight | cached reads; background, manual and scheduled refresh | one refresh per organization across three callers with different transactions, one of which never commits | `CostCache` |
| **Expenses and resources** (`expenses/`, `resources/`) | three in-memory caches | summary, breakdown, line items, resource list and detail | shared calls with colliding keys, three timeouts, cancellation in the middle of a loop, handlers that outlive their request, late filling of caches | `CloudReads` |
| **Degradation** (`shared/degradation.py`) | none | live, then stored, then empty answer | order of fallbacks | `CloudReads` |
| **Recommendations** (`recommendations/`) | `_csp_cache`, a MongoDB collection | read through both caches, clear | two levels with lifetimes of their own; clearing in two steps; reads that put back what was cleared | `Recommendations` |
| **Exports** (`enterprise/modules/export/`) | export jobs, files on disk and uploaded | create, execute, deliver, download | a job executed twice; a connection lost while PROCESSING; file names precise to a second | `ExportJobs` |
| **Organizations and members** (`user_management/`, `organizations/`), **roles** (`enterprise/modules/rbac/`) | accounts, employees, invitations, roles and assignments | invite, accept, revoke, add, remove, assign, take back | overlapping transactions under READ COMMITTED, marked rows that unique constraints still count | `Membership` |
| Batch executor, rate limiters, idempotency, request timeout, in-memory cache classes, sessions and tokens, pools and rules, cloud accounts, adapters, database sessions, notifications, health, metrics, logs, feature flags, validation, encryption, web client | | | | see 6 |

How they interact. A request runs a service function inside the transaction of
`get_db`. When its time is up the timeout middleware answers 504 in its place; the
function itself runs on. The scheduler service
changes APScheduler and creates executor tasks from inside such requests; the
executor opens sessions of its own and calls the cost cache, the resource and the
recommendation services. These call provider adapters, directly or through the
coalescer, and the adapters call the provider through `with_retry` and the circuit
breaker of the provider. `ProviderCalls` composes the last two: it extends
`CircuitBreaker`, and the breaker's properties are checked behind the retries, where
they matter. `RunLifecycle` is the abstract specification of runs and dead letters
that `Scheduler` implements (`ImplementsLifecycle`).

What makes each part correct:

- *Scheduler*: a run gets one final status, that of its data types; only a failed
  run enters the dead letter queue, and an abandoned one leaves it for no later
  retry; the failure counter never invents failures; job store and database agree
  whenever nothing is under way; nothing is recorded for a deleted config; one-time
  jobs stay spent; every admitted run ends.
- *Circuit breaker*: probes are bounded, no short cut between the states, an open
  circuit is probed and a half-open one decided.
- *Retry*: every call ends, and the circuit closes once the provider is back for
  good.
- *Request coalescer*: one execution per key at a time; everybody gets a result of
  the key they asked for, and gets some answer.
- *Cost cache*: one refresh at a time; "success" means that a refresh which noted no
  failure has stored its summary; a registration ends.
- *Expenses and resources*: figures are older than the read that got them by a
  bounded time, however reads share, delay and cache them; no account goes missing
  without being reported; every read ends, or its client is told.
- *Recommendations*: items have a bounded age; a clear that met no read is final.
- *Exports*: no job is left PROCESSING; a COMPLETED one has its file, in the store
  too if it names one; an execution ends.
- *Members and roles*: an invitation makes a member once; a grant is refused only to
  somebody who holds the role (the code does not keep this, see 3).

## 2. Modules

| module | role |
|---|---|
| `Scheduler`, `RunLifecycle`, `SchedulerProofs` | service handlers, executor, APScheduler, crashes, calendar; the abstract life cycle; invariants and the refinement |
| `CircuitBreaker` | the breaker with any number of concurrent calls |
| `ProviderCalls`, `BreakerProofs` | `with_retry` around that breaker; proofs about both |
| `RequestCoalescer`, `RequestCoalescerProofs` | callers, requests and executions of the coalescer |
| `CostCache`, `CostCacheProofs` | refreshes and readers of one organization's stored summary |
| `CloudReads`, `CloudReadsProofs` | reads of figures through caches, coalescers, timeouts and fallbacks |
| `Recommendations`, `RecommendationsProofs` | the two caches of the providers' recommendations |
| `ExportJobs`, `ExportJobsProofs` | executions of export jobs, row locks and files |
| `Membership`, `MembershipProofs` | overlapping transactions on members, invitations and roles |
| `MCScheduler`, `MCRequestCoalescer`, `MCCloudReads`, `MCRecommendations`, `MCMembership` | constants and symmetry of the TLC instances; the other runs need only their `.cfg` |

Each component module has a *Mutants* section: variants of definitions with a
plausible bug, at least one for each checked property. No specification uses them;
`PROJECT.json` says which definition each replaces.

### 2.1 Scheduler

*Granularity.* The server is one asyncio process, so tasks switch only at an
`await`. A `SELECT` and the synchronous code after it are one step. A transaction
that writes what it computed from an earlier read has a reading step and a commit
step (`FinalizeRead`/`FinalizeCommit`, `CriticalRead`/`CriticalCommit`, a handler
and `CommitUpdate`), so that anything may happen in between. Commits write only
the columns that changed since the row was loaded (`Flushed`), as SQLAlchemy does;
the models have a `version_id` column but no mapper names it in `version_id_col`,
so no commit checks the version.

| state | code |
|---|---|
| `exists`, `row` | rows of `SchedulerConfig` (`models.py`), with `collect_*` flags as a set and its interval, cron expression and date as `schedule`: `"ok"`, `"none"` (null) or `"bad"` (a cron expression that does not parse) |
| `jobs` | the trigger of each config's job in APScheduler's memory store, or `"none"`; a job keeps the trigger it was added with until it is added again, whatever the row says meanwhile |
| `run` | rows of `SchedulerRun`, with the statuses of the data types; one that failed and left no error text is `"silent"`, as the executor counts errors by their text |
| `task` | the coroutine `execute_scheduler_job`, its position and its locals; `"lost"` if an exception that nothing caught ended it |
| `dlq` | `DeadLetterJob.status`, by `original_run_id` |
| `request` | what an open request has read and will write when `get_db` commits |
| `clock` | where now is relative to `start_date` and `end_date` |
| `apart` | history: configs of which `jobs` and `row` may differ because a request changed `jobs` and failed to commit, raised after it had removed the job, overlapped another on the config, or changed the failure limit |

| action | code |
|---|---|
| `Fire` | APScheduler starting a due job, `max_instances = 1` |
| `Admit`, `Skip` | `executor.py:154-187`, first session |
| `Reload` | `executor.py:189-196` |
| `Lose` | a database error in the sessions of `executor.py:190` and `420`, which stand outside the `try` |
| `Collect`, `Vanish` | `executor.py:205-360`, one data type each; the log's foreign key |
| `FinalizeRead`, `FinalizeCommit` | `executor.py:362-414` |
| `CriticalRead`, `CriticalCommit`, `Recheck` | `executor.py:416-472` |
| `Unschedule` | `executor.py:412-414, 459-461` |
| `create_...`, `update_...`, `toggle_...`, `delete_...`, `trigger_...`, `retry_...`, `abandon_...` | the functions of the same names in `service.py`; `Change` is what update and toggle share, an exception included |
| `Commit...`, `EndRetry`, `Rollback` | the end of the request: `get_db`, `database.py:71-78` |
| `Crash`, `Restart` | loss of memory; `load_schedulers_from_db`, `executor.py:56-69` |
| `StartDatePasses`, `EndDatePasses` | the calendar |

`schedule_scheduler_job` (`executor.py:72-141`) removes the job of a config before it
knows whether it can add one. If it builds no trigger (`"none"`) it returns, and the
request commits; if the cron expression does not parse (`"bad"`) it raises, and the
request is rolled back with the job gone. At startup the same exception stops the
server, so `Restart` needs rows without one.

Left out: changes of `start_date` and `end_date` by an update, the clean-up of old
logs, listing and statistics, and the log entries themselves (except that writing
one for a deleted run fails). Cron and interval triggers behave alike here and are
`"interval"`. Requests interleave at every step, where PostgreSQL makes the second
of two updates of a row wait from its flush on (`service.py:175`): the model has
more behaviours than the code there, not fewer. `CHECK_DEADLOCK FALSE`: the server
may be idle, and a behaviour ends when the instance's run ids are used up.

### 2.2 Circuit breaker and retry

The lock is never held across an await, so entering a call and accounting for its
result are single steps: `Enter...`/`Reject` and `Return`. `since` counts clock
ticks since the last failure up to the recovery timeout. `stale` and `lost` are
history variables: `stale` tells probes of the present half-open period from older
calls, `lost` remembers that one of its probes ended with an exception outside
`expected_exceptions`. `failure_count` saturates at `MaxFailureCount`; it is only
compared with the threshold and decremented while the circuit is closed.

`ProviderCalls` adds `attempt` and `left`, the attempt of each `with_retry` and
what is left of its sleep, and `healthy`, whether the provider is up. `Try` is the
next attempt (`Admitted` by the breaker, or `TurnedAway`, which is counted and
sent to sleep in one step, as the code does not suspend there); `Returned` ends an
attempt with a result, a failure the breaker counts, or one it does not; an attempt
that is worth a retry sleeps for any of the delays `calculate_delay` may choose.
`Cancelled` is the timeout that the cost cache sets on an account
(`cost_cache/service.py:459-462`); the deadline of a request cancels nothing.

### 2.3 Request coalescer

`execution[e]` is a `PendingRequest` with its future; executions are never reused,
so `Executions` bounds how many a behaviour starts. `Start`, `Join` are the two ways
through `coalesce`; `_execute` ends the wrapped function with a result, an error it
passes on, a cancellation, or leaves the future open (`"open"`, an exception the
function does not forward); `Wake` and `GiveUp` are the two ends of
`asyncio.wait_for`. `KeyOf` stands for `_make_key`: requests may share a key, and
the instances let two of them do so, as the callers in `app/` make their keys.

### 2.4 Cost cache

One organization. A task is a call of `refresh_cost_cache` by a request, by the
scheduler or by the background task of a cache miss: it enters (`active` is
`_active_refreshes`), flushes its status row and thereby takes the row's `lock`
(`Flush`), collects, saves, leaves `active`, and only then does its caller commit,
roll back (the scheduler's session) or fail. `stored[t]` is the summary row that
task `t` committed and `tx[t]` what its transaction would leave. A row's `got` says
how its accounts went: `"all"` of them, some failed and the error text is not empty
(`"noted"`), or some failed with exceptions whose text is empty (`"silent"`), which
`service.py:294` takes for success. `accounts` says whether the organization has
any; they come and go (`ChangeAccounts`), and a refresh that finds none writes
"success" without a summary (`bare`). Tasks are cancelled by the shutdown of the
server and by lost connections. A background task
may still be waiting for its first turn when another refresh begins. Readers look
for a fresh row and then for a stale one. `CHECK_DEADLOCK FALSE`: each task runs
once, so a behaviour ends.

### 2.5 Expenses, resources and degradation

`CloudReads` has one record per request (`reader`): the kind of read, what it has
of each account (`part`), and how long it has taken. `Hit`, `Miss` look into the
cache of the kind, `_get_cloud_adapters` loads the accounts, `CallDirectly` and
`Coalesce` ask a cloud, `CallEnds` and `DirectCallEnds` bring the answer, `GiveUp` is
`asyncio.wait_for` running out, and `Finish` caches and answers. `RequestTimeout` is
the middleware (`middleware/timeout.py:93-117`): its `wait_for` cancels the call of
`call_next`, but the handler runs in a task of its own and is not cancelled. The
client is `gone`, with its 504; the read goes on, and what it finds goes into the
caches. So nothing bounds the time of a read: the direct calls of Azure and GCP have
no timeout. Times longer than `Horizon` ticks count alike. `flight` is the call in progress for each key of the coalescers with
the state of its future: a caller that gives up cancels the future for all who
wait, and the key stays taken until the call itself returns. `CallKey` says which
calls share a key: the keys are made of arguments, and these calls either have
none or the same for all accounts. `Cancelled` says what a cancellation does:
`except Exception` does not catch it, so it ends a read that loops over the
accounts, whereas the `gather` of the summary drops the account without a word.
Time passes in ticks, and only when no coroutine can go on. `get_with_fallback`
stands for both fallbacks; an exception reaches them only from the database, as the
reads themselves catch the failures of the clouds.

An answer is what the services and fallbacks hand to the endpoint; what the
endpoints make of it is under *Observations*.

### 2.6 Recommendations

`memory` and `mongo` hold, for each account, how long ago the fetch of its entry
began (`age`), how long ago it was stored (`kept`), and, for one watched account,
how many clears came before the fetch (`gen`). A read goes through the accounts one
by one, each lookup, fetch and store being a step; a clear empties MongoDB and then
the memory in two steps; `Restart` empties the memory. An entry that has expired
is as good as gone.

### 2.7 Exports

An execution is one request: it loads the row, takes its lock with the first flush
(`Begin`), fetches pages, writes and perhaps uploads the file, and commits when the
request ends. `mine` is the request's copy of the row, `tx` what its transaction
would leave; a flush writes the columns whose value differs from the loaded ones.
`Abort` is a lost connection to the database or the end of the server at any of its
steps, which leaves the file behind and rolls the row back (`database.py:71-78`);
a timeout of the request aborts nothing. Only the jobs in `Uploads` name a store
(`_upload_to_s3` and its like); the others, those that say `email` among them,
deliver nothing (`service.py:585-594, 664-667`). `disk` has a file name per second, as the
code does.

### 2.8 Members and roles

A request collects what it will write (`grants`, `drops`, `accepts`, ...) while it
reads what others have committed, and `Commit` makes it visible at once. A row
that another transaction has inserted and not committed is waited for, which is
what a unique constraint does. Removed members and taken roles are marked rows
that the constraints still count (`Taken`). A grant of a role whose row is marked,
by `assign_role` or by the default replacement of `update_user_roles`, therefore
ends in an error, which rolls the whole request back.

## 3. Runs

| run | question | bounds |
|---|---|---|
| `Scheduler_core` | Do job store and database agree when quiet, does a deleted config leave nothing, is each counted failure on record, can only an overlapping retry revive an abandoned letter, do runs follow `RunLifecycle`? | 1 config, 2 requests and 2 runs that overlap, failure limit 1, update, toggle, delete, trigger, retry and abandon, failing collections and commits; symmetry of runs and of requests |
| `Scheduler_runs` | Does a healthy config keep its job, does a run's status agree with its data types, do one-time jobs stay spent, does every admitted run settle? | 1 config, 1 request at a time, 1 run, failure limit 2, two data types, interval and one-time, schedule fields that are null or do not parse, update and delete, critical failures, database errors, failing saves, crashes, dates; fairness |
| `ProviderCalls_retries` | Are probes bounded, does a half-open circuit that turns callers away have a probe out, is an open circuit probed and a half-open one decided, does every call end, does the circuit close once the provider is back? | 3 calls, 2 attempts, thresholds 2 and 2, 2 half-open calls, delays of 1 and 2 against a recovery timeout of 2, all outcomes, outages; fairness |
| `RequestCoalescer_flight` | One execution per key, a result of one's key, an answer for everybody | 3 callers, 3 requests of which 2 share a key, 2 executions; fairness |
| `CostCache_refresh` | One refresh at a time, success is earned, registrations end | a background task, a request, a scheduler run and a reader; accounts that fail with and without a text, come and go, database errors, cancellations, entries expiring; fairness |
| `CloudReads_reads` | Are figures recent, is every account accounted for, does every read end? | 2 requests, accounts in AWS and Azure, each kind of read, lifetime 2, waits 1, time limit of requests 1, horizon 2; fairness |
| `Recommendations_caches` | Is the age of items bounded, is a clear final? | 2 accounts, 2 readers, lifetime 2, waits 0, a counted clear and any number of others |
| `ExportJobs_exports` | No job stuck, completed means available, executions end | 2 requests on one job that names a store, 2 seconds, up to 1 row in pages of 1; fairness |
| `Membership_requests` | One acceptance per invitation | 2 requests, 1 person, 2 roles, 2 invitations, 2 employee rows |

Why the bounds are enough. The interesting cases of the scheduler need two runs of
one config (one failing while another closes), a limit that one or two failures
reach, and two requests of which one commits between the steps of the other: all of
that is in `Scheduler_core`. What takes many events but one run is in
`Scheduler_runs`: two data types give the mixed outcomes, and a limit of two lets a
critical failure stay below the limit, so that the job is put back. Two things are
in neither and rest on the proofs alone: a critical failure that overlaps another
run or exhausts the config, and an update that changes the limit (the proofs have
any set of limits). Configs do not interact except through the requests, so one
config suffices. Three calls against two half-open slots let a stale call return
among probes and a caller be turned away; two attempts make a rejection cost half of
them, and delays below and at the recovery timeout let callers come back before it
and with it. Three callers let one time out while another waits and a third starts
anew, with a second execution. The cost cache needs each kind of caller once, since
they differ in what happens after the refresh; a second manual one adds nothing new
except in `CostCache_v_read`, where two committed rows are the point. Two readers and
two accounts let one reader join the call of another and time out in the middle of
its loop; in `CloudReads` reads of different kinds share no cache entry, and of calls
only the discovery that both the list and the detail of resources use and that is
alike for both, so each mix of the run has one kind (`Mixes`); the bound on the age
of figures is reached exactly: one tick less is violated, and a horizon above the
time limit lets handlers outlive their requests and still fill the caches. In
`Recommendations` waits are instantaneous in the run, so the part of the bound that
a wait adds (`MaxWait`) is only proved. One export job suffices because jobs share
nothing; two seconds let an execution meet the file of another and miss it. In
`Membership` everything but the invitations is per person, and two invitations are
what lets one be accepted after the other.

What the properties except. `UnscheduledOnlyByDeadLetter` speaks of configs whose
schedule fields are usable and lets a config lack its job when it has a dead letter,
or when it is in `apart`: a request on it failed to commit or raised after it had
changed the job store, two requests on it overlapped (last commit wins, last
APScheduler call wins), or a request changed the failure limit (raising the limit of
an exhausted config without naming a schedule field does not add its job). All of
these occur in the runs or the proofs; `Restart` ends the exception, for it rebuilds
the job store from the rows. `OnlyAnOpenRetryRevives` says what is left of the
"permanently" of `abandon_dead_letter_job`: a retry that read the letter before it
was abandoned writes `retried` over it (`service.py:573, 598`), and nothing else
does. `RunStatusMatchesTypes` leaves a type that failed in silence out of account, as
`executor.py:371-374` does: it is found under any status of the run. `AdmittedRunSettles` excepts the coroutines that a
database error outside the `try` blocks ends (`Lose`) and those of a crash: their
runs stay RUNNING, as startup does not look at runs. `ClearedIsGone` concerns clears
that met no read under way; a fetch that began before a clear stores its items after
it (`recommendations/csp_service.py:211`). `SuccessIsEarned` lets success stand for
an organization that had no accounts when a refresh ended, and for failures without
a text. `FiguresAreRecent` bounds the age of figures by the time of the read that got
them plus a lifetime and a wait: a bound in seconds there is none, since nothing
bounds the read. `ReadEnds` excepts reads that hang in a direct call of Azure or GCP,
and asks that their client has been told. `FiguresAreRecent` and
`EveryAccountCounted` count the figures of an account whichever account's call they
came from: that results get mixed up is `RequestCoalescer_v_own`.

### Where code and documentation disagree

Each of these runs must end in a counterexample; `PROJECT.json` quotes the sentence
of the repository it contradicts.

| run | what happens |
|---|---|
| `RequestCoalescer_v_own` | callers pass bound methods and closures without arguments, so requests of different accounts share a key and a result |
| `CostCache_v_read` | two refreshes leave two summary rows, and the read that expects at most one raises |
| `Membership_v_regrant` | the unique constraint on person, role and organization counts rows that are marked as taken (`rbac/models.py:78-80`), so replacing the roles of a person by a set that keeps one of them, and granting a role again, is refused although nobody holds it |

### Observations

Met while modelling, in the code that the models translate, and not given a run of
their own. Scheduler, jobs: a retry that overlaps an abandon undoes what
`abandon_dead_letter_job` calls permanent (`scheduler/service.py:598, 612`); an
update that sets the interval of an enabled config to null, or names a cron
expression that does not parse, leaves it without a job
(`scheduler/executor.py:85, 104-117`); such an expression is stored when the config
is exhausted at the time, and once a retry has reset its counter the server no
longer starts (`main.py:187`); after a critical failure the job of a config with
such a field is lost too, and with it one that an open update had added
(`executor.py:463-472`); lowering the failure limit to the counter and raising it
again leaves a healthy config without a job; a scheduler whose dead letter is
retried is healthy again and has no job (`service.py:581`); a job added before its
end date fires after it (`executor.py:119-128`).

Scheduler, runs: an error of the database where a run is reloaded or its critical
failure recorded leaves it RUNNING (`executor.py:190, 420`); a data type that fails
with an exception without a text, or a refresh that returns `success = False`,
leaves its run COMPLETED (`executor.py:232-257, 371`) where PARTIAL means that some
types failed (`enums.py:20`); runs of one config that fail together count as one
failure (`executor.py:378`); a manual run that the executor skips stays RUNNING
(`executor.py:162`); the overrides of a manual trigger never reach the executor,
which reads the row in its own session (`executor.py:191`); the executor never
commits the session in which it refreshes the cost cache (`executor.py:214`), so a
scheduled refresh stores nothing.

Calls: probes that end with unexpected exceptions use up the half-open calls of a
breaker for good (`shared/circuit_breaker.py:74`); one caller's timeout cancels the
shared future and with it all other waiters (`request_coalescing.py:109`), also
through the 20 seconds of the summary (`expenses/service.py:148`); the `retryable`
flag of a provider's exception is not looked at when its type is listed
(`retry.py:44, 104`).

Cost cache: the status "partial" is never set (`cost_cache/models.py:141`); an
account whose exception has no text (`httpx.ReadTimeout`, an `InvalidToken` of the
decryption) counts as refreshed (`cost_cache/service.py:294, 497`); the "success" of
an organization without accounts stays when accounts are added
(`service.py:253-261`); a refresh in which accounts failed stores its sums as a
whole summary with the source "live"; a manual refresh that is skipped because
another one runs reports success.

Reads: a request that the middleware answers with 504 goes on running, and caches
what it finds (`middleware/timeout.py:103-117`); the direct discovery of Azure and
GCP has no timeout (`resources/service.py:147-150`);
failures of the clouds never reach the fallbacks of `degradation.py`, so figures
without the accounts that failed are called "live", with a freshness of 0 also when
they come from the in-memory cache; a hit of the resource cache no longer reports
the failures of the list it holds (`resources/service.py:224-233`); the summary
drops failed and cancelled accounts without a word; the endpoint of the breakdown
leaves out `partial_failures` and `has_errors` (`expenses/router.py:115-125`), and
that of the summary cannot render the "unavailable" answer, which is a breakdown
(`degradation.py:268-278`, `expenses/router.py:69-72`); `/expenses/clean`, which
"always fetches live data" (`expenses/router.py:199, 212`), uses a cache; accounts
whose configuration cannot be decrypted are missing from the expenses without being
reported. The adapters' discovery answers with what it found: a region, a service or
a whole provider whose calls fail is logged and left out, so a list without
resources is cached for its lifetime like any other (`adapters/aws.py:391-401,
421-425`, `adapters/azure.py:553-555`, `adapters/gcp.py:666-668`).
`EveryAccountCounted` therefore says of the list of resources that each account was
asked and answered or is reported, and not that the answer was whole.

Exports: delivery by e-mail is a placeholder and an unknown method is ignored, and
the job is COMPLETED all the same
(`enterprise/modules/export/service.py:585-594, 664-667`).

Elsewhere: the idempotency middleware flushes its record and never commits it
(`middleware/idempotency.py:51-98`), so a repeated request finds none; the rate
limiter counts rejected requests, so a client that waits as told by `Retry-After`
may be rejected again (`middleware/rate_limiter.py:74-81`);
`validate_cloud_account_credentials` awaits the plain function `_get_adapter`
(`cloud_accounts/service.py`); the live-data cache of `cloud_accounts/router.py`,
invalidated by an update, can be filled again by a fetch that began before it.

### Fairness

Weak fairness of what the event loop runs as soon as it is ready, and strong
fairness where a turn is granted among waiters that come and go. `Scheduler`: each
coroutine's steps and the completion of each open request; none of the clients,
failures, crashes or the calendar. `ProviderCalls`: time passes, provider calls
return (the adapters bound them with timeouts), and callers keep coming; outages
are not fair. `RequestCoalescer`: waits end and timeouts elapse; the
wrapped function need not return. `CostCache` and `ExportJobs`: tasks that run go on,
and PostgreSQL grants a row lock to each of its waiters in turn, hence strong
fairness of the step that takes it; nobody has to ask for anything. `CloudReads`:
what is ready runs, and time goes on although requests keep being answered between
ticks (strong fairness of `Tick`); nothing is assumed of the clouds, and nothing of
the middleware but that it answers when the time of a request is up.

## 4. Proofs

TLAPS checks these for every value of the constants allowed by each module's
assumption (`SchedulerAssumption`, `BreakerAssumption`, `CoalescerAssumption`, ...),
with any number of configs, runs, requests, calls, callers, tasks and rows.

- `SchedulerProofs`: `SchedulerInvariant`, `TypeCorrect`, `DeadLettersAreFailures`,
  `NothingOutlivesItsConfig`, `StatusMatchesTypes`, `CounterIsHonest`,
  `SchedulerImplementsLifecycle`, `OneTimeJobsStaySpent`, `RevivedByOpenRetry`,
  `HealthyKeepsItsJob`, `RunsSettleOnce`, `NoRunIsDropped`. The invariant `IInv` adds
  to `TypeOK` what open coroutines and requests may still write: `TaskInv` (a
  coroutine works on a run of its config that is still running or was deleted),
  `RunInv` (runs share the fate of their config), `LetterInv`, `RequestInv` and
  `OwnerInv` (a retry owns its run until it creates the task; no two requests create
  one config). `DeletedConfigLeavesNothing` is not inductive: an `Admit` or an
  `EndRetry` that happens after a delete must be known to concern that config. That
  only failed runs are dead letters rests on the lemma that only a failure exhausts a
  counter, since any other outcome resets it and limits are positive.
  `StatusMatchesTypes` needs `TypesInv`: until a run is closed, the statuses in its
  row agree with the locals of its coroutine. `CounterIsHonest` needs `CountInv`: also
  the counters that coroutines and requests have read, and may write back later, are
  covered by failed runs of the config; failed runs are never fewer later, except when
  the config goes with them. The refinement maps the closing commits to `Settle`, the
  cascade to `Remove`, and the executor's other steps to stutters.
  `OneTimeJobsStaySpent` follows each step that adds a job to the column it read:
  `schedule_scheduler_job` adds no one-time job whose date has passed, and only an
  update writes another type than the row has. `HealthyKeepsItsJob` assumes nothing of
  the number of requests or of the limits. Its invariant `JobInv` says of each config
  that is not excused (by a dead letter or `apart`) where the truth about its job is:
  between requests in the row, and while a request is open in what that request is
  going to write, since the handler has changed APScheduler already; with one request
  open there is no other on the config, or it were in `apart`. It needs that a row
  that is exhausted has a dead letter (`RowJobInv`): the closing commit that brings
  the counter to the limit writes the letter, a stale counter written back later is
  one that some closing session had below the limit, and the row, the request and the
  session agree on the limit as long as nobody changes it.
  `RunsSettleOnce` is read off the refinement: it holds whichever coroutines and
  requests are still at work on the run. `NoRunIsDropped` says that a coroutine which
  was admitted leaves its run settled or deleted, unless the process dies or the
  coroutine is lost in one of the two sessions outside the `try` blocks, so that of
  `AdmittedRunSettles` only the fairness is left to the runs.
- `BreakerProofs`, the breaker: `TypeCorrect`, `ProbesAreBounded`, `FailureTimeKept`,
  `HalfOpenWaitsForProbe`, `NoShortCuts`. The invariant relates the counters to the
  calls in flight: in a half-open period the probes in flight are at most the calls
  admitted, and together with the successes counted at least that many unless a
  probe was lost.
- `BreakerProofs`, the retries: `RetryTyping` and its corollary `SafeBehindRetries`.
  `RetryTypeOK` couples attempt, sleep and call. By `ProviderCalls`' construction each
  step of `with_retry` is a step of the breaker or leaves it alone (the lemma
  `StepOfBreaker`), so what is proved of the breaker holds behind the retries too.
- `CloudReadsProofs`: `CloudReadsInvariant`, `ReadsTyped`, `FiguresRecent`,
  `AccountsCounted`. The last two are not inductive: what an answer holds depends on
  the calls and entries it came from. `FlightInv` ties the age of a shared call to
  one of its waiters, whose timeout bounds it, since the one that began a call goes
  on waiting as long as the call is open for anybody; `EntryInv` gives a cache entry
  the age its figures had when it was stored and the time of the read that stored
  it, and `ReadingInv` lets the figures of a read be older than the read itself by at
  most one wait. Together an answer is never older than a lifetime, the time of the
  read that got it and a wait, whatever time limit requests have: the middleware ends
  no read, and nothing in the proof rests on it. `ReadingInv` also keeps every account
  that a breakdown or a list asked in the loop: only the `gather` of the summary loses
  one.
- `RequestCoalescerProofs`: `Typing`, `NoDuplicateExecution`, `PendingRuns`,
  `ResultsStayWithTheirKey`. The last holds for any `KeyOf`, and is what the coalescer
  itself can promise: a caller that gave up, or joined an execution after another
  under the key had ended, still gets nothing of a different key. That a key does not
  tell accounts apart is `RequestCoalescer_v_own`.
- `CostCacheProofs`: `Typing`, `OneRefreshAtATime`, `SuccessHasBeenEarned`,
  `NoRegistrationLeftBehind`. The invariant: whoever is at work is registered; each
  task has at most one row of its own; a status row never disappears; and a
  transaction that would leave "success" would also leave a summary without a noted
  failure, or found no accounts.
  `NoRegistrationLeftBehind` is the converse of the first: who is registered and not
  cancelled is at work, so that of `RefreshEnds` too only the fairness is left.
- `RecommendationsProofs`: `Typing`, `AgeIsBounded`, `ClearsAreFinal`. `Caches`
  bounds the age of an entry by how long it has been kept, with a wait of slack
  in MongoDB and a lifetime more in memory, and ties generations to clears;
  `Sound` and `Awaited` do the same for what readers hold or wait for.
- `ExportJobsProofs`: `Typing`, `NoJobStuck`, `CompletedHasItsFile`. The invariant
  uses the row lock (only its holder has uncommitted changes, and requests that
  have loaded the row earlier write only what they changed) and that file names grow
  with the clock, so that only an execution in the same second can overwrite a file.
- `MembershipProofs`: `Typing`, `NoSecondAcceptance`, `NoRoleComesBack`. `Marked`: an
  invitation that was accepted has left a row of its role and person; `Collected`:
  a request that is about to commit inserts only rows that do not exist, and no two
  insert the same. Both rest on the unique constraint counting marked rows, which is
  also what makes `NoRoleComesBack` true: that a role which was taken never returns is
  a fact about this code, and not what the code means to do (`Membership_v_regrant`).

Only model-checked: all liveness properties (`AdmittedRunSettles`,
`HalfOpenIsDecided`, `OpenIsProbed`, `CallEnds`, `RecoversWhenHealthy`,
`EveryCallerAnswered`, `RefreshEnds`, `ReadEnds`, `ExecutionEnds`): they rest on
fairness, and thus on ENABLED, which is beyond this prover. Every other property
of the passing runs is proved.
`DeadLetterRunFailed`, `PendingIsRunning`, `OpenRemembersFailure`,
`OnlyThroughHalfOpen` and `RevokedStays` are proved and have no run.

## 5. What is abstracted

Values that no property compares: amounts, names, dates within a range, log texts.
One organization stands for all in `CostCache`, `Recommendations` and `Membership`,
one date range and page in `CloudReads`. Time is counted in ticks up to the limits
the code compares it with. Bounds on the number of runs, executions, rows, seconds
and clears are constants of the modules (`MaxRows`, `MaxSecond`, `MaxClears`, ...) and
do not limit the proofs.

## 6. Not modelled, and why

- *Batch executor, cache classes* (`CoalescedBatchExecutor`, `bounded_cache.py`,
  `credential_cache.py`, `cloud_cache.py`), `with_fallback`, `refresh_resources`,
  `invalidate_resource_cache`: nothing outside the tests calls them.
- *Rate limiters*: each decision is one step, without an await in memory and in one
  pipeline in Redis, so nothing interleaves with it.
- *Idempotency middleware*: its records are never committed, so as it stands there
  is no behaviour over several requests to state properties of.
- *Request timeout*: no component of its own; that it answers a client and leaves the
  handler running is `RequestTimeout` in `CloudReads`, and of no consequence elsewhere.
- *Sign-in, sessions and tokens*: left out, the project states no properties of them.
- *Pools, rules, cloud accounts, bulk invitations, templates and schedules of
  exports, access reviews, policies and SSO records*: reads and updates of single
  rows in one transaction.
- *Cloud adapters*: calls of SDKs and the shape of their answers, seen by the models
  as the outcomes of a call, with what a discovery leaves out not told apart
  from an answer that is whole.
- *Notifications, health, metrics, logs, feature flags, validation, encryption,
  migrations and the web client*: reporting, conversion and user interface, without
  control of their own.
