--------------------------- MODULE SchedulerProofs ---------------------------
(***************************************************************************)
(* Proofs about the scheduler, for any number of configs, runs and         *)
(* requests, every selection of data types and every fault.                *)
(***************************************************************************)
EXTENDS Scheduler, FiniteSetTheorems, TLAPS

-----------------------------------------------------------------------------
(* Typing of the values the actions build.                                 *)

LEMMA BlankTypes ==
    /\ NoRow \in Row
    /\ NoTask \in Task
    /\ Idle \in Request
BY DEF NoRow, Row, ScheduleFields, NoTask, Task, TaskPC, Idle, Request, DeadLetterStatus

LEMMA CalledType ==
    ASSUME NEW c \in Configs, NEW b \in BOOLEAN
    PROVE  Called(c, b) \in Task
BY BlankTypes DEF Called, NoTask, Task, TaskPC

LEMMA RunningRowType ==
    ASSUME NEW c \in Configs \cup {NoConfig}
    PROVE  /\ RunningRow(c) \in RunRow
           /\ RunningRow(c).status = "running"
           /\ RunningRow(c).config = c
BY DEF RunningRow, RunRow, RunStatus, TypeStatus

\* A flush changes columns to values of their types.
LEMMA FlushedType ==
    ASSUME NEW current \in Row, NEW old \in Row, NEW new \in Row
    PROVE  Flushed(current, old, new) \in Row
BY DEF Flushed, Row

LEMMA CountedType ==
    ASSUME NEW config \in Row, NEW status
    PROVE  Counted(config, status) \in Row
BY DEF Counted, Row

\* Only a failure can exhaust a config: any other outcome resets its counter
\* to 0, and limits are positive.
LEMMA OnlyFailureExhausts ==
    ASSUME NEW config \in Row, NEW status, Exhausted(Counted(config, status))
    PROVE  status = "failed"
BY DEF Counted, Exhausted, Row

LEMMA NextTypeType ==
    ASSUME NEW todo
    PROVE  NextType(todo) \in DataTypes
BY DEF NextType, DataTypes

\* What becomes of the jobs when one is put back or dropped.
LEMMA ScheduledEffect ==
    ASSUME jobs \in Jobs, NEW c \in Configs, NEW config \in Row,
           schedule_scheduler_job(c, config)
    PROVE  /\ jobs' \in Jobs
           /\ \A b \in Configs \ {c} : jobs'[b] = jobs[b]
           /\ jobs'[c] = IF Schedulable(c, config) THEN config.schedule_type ELSE "none"
BY DEF schedule_scheduler_job, Jobs, Row

LEMMA UnscheduledEffect ==
    ASSUME jobs \in Jobs, NEW c \in Configs, unschedule_scheduler_job(c)
    PROVE  /\ jobs' \in Jobs
           /\ \A b \in Configs \ {c} : jobs'[b] = jobs[b]
           /\ jobs'[c] = "none"
BY DEF unschedule_scheduler_job, Jobs

-----------------------------------------------------------------------------
(* The inductive invariant.  Each part relates two pieces of state that    *)
(* different actors write.                                                 *)

\* A coroutine works for a config, on a run that is not recorded yet (a
\* scheduled call before its first session) or belongs to that config.
Unrecorded(r) == task[r].pc = "called" /\ task[r].scheduled
Collecting(r) ==
    \/ task[r].pc = "called" /\ ~task[r].scheduled
    \/ task[r].pc \in {"admitted", "collecting", "finalizing", "failing"}

TaskInv == \A r \in Runs : task[r].pc # "none" =>
    /\ task[r].config \in Configs
    /\ Unrecorded(r) => run[r].status = "absent"
    /\ ~Unrecorded(r) => run[r].config = task[r].config
    /\ Collecting(r) => run[r].status \in {"running", "deleted"}

\* Runs share the fate of their config.
RunInv == \A r \in Runs :
    /\ run[r].status = "absent" <=> run[r].config = NoConfig
    /\ run[r].status = "deleted" => exists[run[r].config] = "deleted"
    /\ run[r].status \notin {"absent", "deleted"} => Stored(run[r].config)

\* A dead letter belongs to a failed run.
LetterInv == \A r \in Runs : dlq[r] # "none" => run[r].status \in {"failed", "deleted"}

\* A retry owns the run it created until it has created its task.
RequestInv == \A u \in Clients :
    /\ request[u].op # "idle" => request[u].config \in Configs
    /\ request[u].op = "create" => exists[request[u].config] = "creating"
    /\ request[u].op = "retry" =>
         /\ request[u].run \in Runs
         /\ request[u].dead \in Runs
         /\ dlq[request[u].dead] # "none"
         /\ run[request[u].run].config = request[u].config
         /\ run[request[u].run].status \in {"running", "deleted"}
         /\ task[request[u].run].pc = "none"

\* No two requests create the same config or own the same run.
OwnerInv == \A u, v \in Clients : u # v =>
    /\ request[u].op = "create" /\ request[v].op = "create" =>
         request[u].config # request[v].config
    /\ request[u].op = "retry" /\ request[v].op = "retry" =>
         request[u].run # request[v].run

IInv == /\ TypeOK
        /\ TaskInv
        /\ RunInv
        /\ LetterInv
        /\ RequestInv
        /\ OwnerInv

-----------------------------------------------------------------------------
(* What the updates shared by the executor's actions do.                   *)

OthersKept(r) == \A q \in Runs \ {r} :
    task'[q] = task[q] /\ run'[q] = run[q] /\ dlq'[q] = dlq[q]

TaskMoved(r, pc) ==
    /\ task' \in [Runs -> Task]
    /\ \A q \in Runs \ {r} : task'[q] = task[q]
    /\ task'[r].pc = pc
    /\ task'[r].config = task[r].config
    /\ task'[r].scheduled = task[r].scheduled

TaskEnded(r) ==
    /\ task' \in [Runs -> Task]
    /\ \A q \in Runs \ {r} : task'[q] = task[q]
    /\ task'[r].pc = "none"

LEMMA EndsEffect ==
    ASSUME task \in [Runs -> Task], NEW r \in Runs, Ends(r)
    PROVE  TaskEnded(r)
BY BlankTypes DEF Ends, TaskEnded, NoTask

LEMMA GoesEffect ==
    ASSUME task \in [Runs -> Task], NEW r \in Runs, NEW pc \in TaskPC, Goes(r, pc)
    PROVE  TaskMoved(r, pc)
<1>. DEFINE t == [task[r] EXCEPT !.pc = pc]
<1>1. task' = [task EXCEPT ![r] = t]  BY DEF Goes
<1>2. t \in Task  BY DEF Task
<1>3. t.pc = pc /\ t.config = task[r].config /\ t.scheduled = task[r].scheduled
  BY DEF Task
<1>. HIDE DEF t
<1>. QED  BY <1>1, <1>2, <1>3 DEF TaskMoved

LEMMA GoesWithEffect ==
    ASSUME task \in [Runs -> Task], NEW r \in Runs, NEW pc \in TaskPC,
           NEW config \in Row, GoesWith(r, pc, config)
    PROVE  TaskMoved(r, pc)
<1>. DEFINE t == [task[r] EXCEPT !.pc = pc, !.old = config]
<1>1. task' = [task EXCEPT ![r] = t]  BY DEF GoesWith
<1>2. t \in Task  BY DEF Task
<1>3. t.pc = pc /\ t.config = task[r].config /\ t.scheduled = task[r].scheduled
  BY DEF Task
<1>. HIDE DEF t
<1>. QED  BY <1>1, <1>2, <1>3 DEF TaskMoved

LEMMA RecordEffect ==
    ASSUME task \in [Runs -> Task], run \in [Runs -> RunRow], NEW r \in Runs,
           NEW d \in DataTypes, NEW outcome, Record(r, d, outcome)
    PROVE  /\ TaskMoved(r, task[r].pc)
           /\ run' \in [Runs -> RunRow]
           /\ \A q \in Runs \ {r} : run'[q] = run[q]
           /\ run'[r].status = run[r].status
           /\ run'[r].config = run[r].config
<1>. DEFINE t == [task[r] EXCEPT
                    !.done = @ \cup {d},
                    !.success = IF outcome \in {"ok", "unstored"}
                                THEN @ \cup {d} ELSE @,
                    !.error = IF outcome \in {"error", "unstored"}
                              THEN @ \cup {d} ELSE @]
            types == [run[r].types EXCEPT ![d] =
                        IF outcome = "ok" THEN "completed"
                        ELSE IF outcome = "silent" THEN "silent" ELSE "failed"]
            s == [run[r] EXCEPT !.types = types]
<1>1. task' = [task EXCEPT ![r] = t] /\ run' = [run EXCEPT ![r] = s]
  BY DEF Record
<1>2. t \in Task /\ t.pc = task[r].pc /\ t.config = task[r].config
      /\ t.scheduled = task[r].scheduled
  <2>1. task[r] \in Task  OBVIOUS
  <2>2. task[r].done \cup {d} \in SUBSET DataTypes  BY <2>1 DEF Task
  <2>3. (IF outcome \in {"ok", "unstored"} THEN task[r].success \cup {d}
         ELSE task[r].success) \in SUBSET DataTypes
    BY <2>1 DEF Task
  <2>4. (IF outcome \in {"error", "unstored"} THEN task[r].error \cup {d}
         ELSE task[r].error) \in SUBSET DataTypes
    BY <2>1 DEF Task
  <2>. QED  BY <2>1, <2>2, <2>3, <2>4 DEF Task
<1>3. types \in [DataTypes -> TypeStatus]  BY DEF RunRow, TypeStatus
<1>. HIDE DEF types
<1>4. s \in RunRow /\ s.status = run[r].status /\ s.config = run[r].config
  BY <1>3 DEF RunRow
<1>. HIDE DEF t, s
<1>. QED  BY <1>1, <1>2, <1>4 DEF TaskMoved

\* A closing session gives the run its final status, and a dead letter only
\* if that status is FAILED.
LEMMA CloseEffect ==
    ASSUME row \in [Configs -> Row], run \in [Runs -> RunRow],
           task \in [Runs -> Task], dlq \in [Runs -> DeadLetterStatus],
           NEW r \in Runs, NEW status \in Settled, NEW critical \in BOOLEAN,
           task[r].config \in Configs, Close(r, status, critical)
    PROVE  /\ row' \in [Configs -> Row]
           /\ run' \in [Runs -> RunRow]
           /\ dlq' \in [Runs -> DeadLetterStatus]
           /\ \A q \in Runs \ {r} : run'[q] = run[q] /\ dlq'[q] = dlq[q]
           /\ run'[r].status = status /\ run'[r].config = run[r].config
           /\ dlq'[r] = dlq[r] \/ (dlq'[r] = "pending" /\ status = "failed")
<1>. DEFINE c == task[r].config
            new == Counted(task[r].old, status)
            flushed == Flushed(row[c], task[r].old, new)
            s == [run[r] EXCEPT !.status = status, !.critical = critical]
<1>1. task[r].old \in Row /\ new \in Row  BY CountedType DEF Task
<1>2. flushed \in Row  BY <1>1, FlushedType
<1>3. s \in RunRow /\ s.status = status /\ s.config = run[r].config
  BY DEF RunRow, RunStatus, Settled
<1>4. Exhausted(new) => status = "failed"  BY <1>1, OnlyFailureExhausts DEF Task
<1>5. /\ row' = [row EXCEPT ![c] = flushed]
      /\ run' = [run EXCEPT ![r] = s]
      /\ dlq' = IF Exhausted(new) THEN [dlq EXCEPT ![r] = "pending"] ELSE dlq
  BY DEF Close
<1>. HIDE DEF new, flushed, s
<1>. QED  BY <1>2, <1>3, <1>4, <1>5 DEF DeadLetterStatus

-----------------------------------------------------------------------------
(* Every step of the executor does one of three things to its run: it      *)
(* records it, works on it or settles it.                                  *)

ExecutorFrame(r) ==
    /\ task[r].pc # "none"
    /\ row' \in [Configs -> Row]
    /\ run' \in [Runs -> RunRow]
    /\ task' \in [Runs -> Task]
    /\ dlq' \in [Runs -> DeadLetterStatus]
    /\ jobs' \in Jobs
    /\ OthersKept(r)
    /\ UNCHANGED <<exists, clock, up, request>>
    /\ apart \subseteq apart' /\ apart' \in SUBSET Configs
    /\ task'[r].pc # "called"
    /\ task'[r].pc # "none" => task'[r].config = task[r].config

RecordsRun(r) ==
    /\ Unrecorded(r)
    /\ Stored(task[r].config)
    /\ task'[r].pc = "admitted"
    /\ run'[r].status = "running"
    /\ run'[r].config = task[r].config
    /\ dlq'[r] = dlq[r]

WorksOnRun(r) ==
    /\ task'[r].pc # "none" => ~Unrecorded(r)
    /\ Collecting(r)' => Collecting(r)
    /\ run'[r].status = run[r].status
    /\ run'[r].config = run[r].config
    /\ dlq'[r] = dlq[r]

SettlesRun(r) ==
    /\ Collecting(r)
    /\ ~Collecting(r)'
    /\ Stored(task[r].config)
    /\ run'[r].status \in Settled
    /\ run'[r].config = run[r].config
    /\ dlq'[r] = dlq[r] \/ (dlq'[r] = "pending" /\ run'[r].status = "failed")

ExecutorEffect(r) ==
    /\ ExecutorFrame(r)
    /\ RecordsRun(r) \/ WorksOnRun(r) \/ SettlesRun(r)

LEMMA AdmitEffect ==
    ASSUME TypeOK, TaskInv, NEW r \in Runs, Admit(r)
    PROVE  ExecutorEffect(r)
<1>. USE DEF TypeOK
<1>1. TaskMoved(r, "admitted")  BY GoesEffect DEF Admit, TaskPC
<1>2. task[r].config \in Configs  BY DEF Admit, TaskInv
<1>3. CASE task[r].scheduled
  <2>1. run' = [run EXCEPT ![r] = RunningRow(task[r].config)]  BY <1>3 DEF Admit
  <2>2. /\ run' \in [Runs -> RunRow]
        /\ \A q \in Runs \ {r} : run'[q] = run[q]
        /\ run'[r].status = "running" /\ run'[r].config = task[r].config
    BY <1>2, <2>1, RunningRowType
  <2>3. ExecutorFrame(r)
    BY <1>1, <2>2 DEF ExecutorFrame, TaskMoved, OthersKept, Admit
  <2>4. RecordsRun(r)
    BY <1>1, <1>3, <2>2 DEF RecordsRun, Unrecorded, TaskMoved, Admit, MayStart
  <2>. QED  BY <2>3, <2>4 DEF ExecutorEffect
<1>4. CASE ~task[r].scheduled
  <2>1. ExecutorFrame(r)
    BY <1>1, <1>4 DEF ExecutorFrame, TaskMoved, OthersKept, Admit
  <2>2. WorksOnRun(r)
    BY <1>1, <1>4 DEF WorksOnRun, Unrecorded, Collecting, TaskMoved, Admit
  <2>. QED  BY <2>1, <2>2 DEF ExecutorEffect
<1>. QED  BY <1>3, <1>4

\* A step that ends the coroutine and leaves the database alone.
LEMMA EndingEffect ==
    ASSUME TypeOK, NEW r \in Runs, task[r].pc # "none", Ends(r),
           jobs' \in Jobs, apart \subseteq apart', apart' \in SUBSET Configs,
           UNCHANGED <<exists, row, clock, up, run, dlq, request>>
    PROVE  ExecutorEffect(r)
<1>1. TaskEnded(r)  BY EndsEffect DEF TypeOK
<1>2. ExecutorFrame(r)  BY <1>1 DEF ExecutorFrame, TaskEnded, OthersKept, TypeOK
<1>3. WorksOnRun(r)  BY <1>1 DEF WorksOnRun, TaskEnded, Collecting
<1>. QED  BY <1>2, <1>3 DEF ExecutorEffect

\* A step between two stages of a coroutine that leaves the database alone.
LEMMA MovingEffect ==
    ASSUME TypeOK, NEW r \in Runs, NEW pc \in TaskPC,
           task[r].pc \in {"admitted", "collecting", "finalizing", "failing"},
           TaskMoved(r, pc), pc # "called",
           UNCHANGED <<exists, row, clock, up, jobs, run, dlq, request, apart>>
    PROVE  ExecutorEffect(r)
<1>1. ExecutorFrame(r)  BY DEF ExecutorFrame, TaskMoved, OthersKept, TypeOK
<1>2. WorksOnRun(r)  BY DEF WorksOnRun, TaskMoved, Collecting, Unrecorded
<1>. QED  BY <1>1, <1>2 DEF ExecutorEffect

LEMMA SkipEffect ==
    ASSUME TypeOK, NEW r \in Runs, Skip(r)
    PROVE  ExecutorEffect(r)
BY EndingEffect DEF Skip, TypeOK

LEMMA ReloadEffect ==
    ASSUME TypeOK, TaskInv, NEW r \in Runs, Reload(r)
    PROVE  ExecutorEffect(r)
<1>1. CASE Stored(task[r].config)
  <2>. DEFINE t == [task[r] EXCEPT !.pc = "collecting",
                                   !.collect = row[task[r].config].collect]
  <2>1. row[task[r].config].collect \in SUBSET DataTypes
    BY DEF Reload, TaskInv, TypeOK, Row
  <2>2. task[r] \in Task  BY DEF TypeOK
  <2>3. t \in Task /\ t.pc = "collecting" /\ t.config = task[r].config
        /\ t.scheduled = task[r].scheduled
    BY <2>1, <2>2 DEF Task, TaskPC
  <2>4. task' = [task EXCEPT ![r] = t]  BY <1>1 DEF Reload
  <2>. HIDE DEF t
  <2>5. TaskMoved(r, "collecting")  BY <2>3, <2>4 DEF TaskMoved, TypeOK
  <2>. QED  BY <2>5, MovingEffect DEF Reload, TaskPC
<1>2. CASE ~Stored(task[r].config)
  BY <1>2, EndingEffect DEF Reload, TypeOK
<1>. QED  BY <1>1, <1>2

LEMMA CollectEffect ==
    ASSUME TypeOK, NEW r \in Runs, Collect(r)
    PROVE  ExecutorEffect(r)
<1>1. PICK outcome : Record(r, NextType(Todo(r)), outcome)  BY DEF Collect
<1>2. NextType(Todo(r)) \in DataTypes  BY NextTypeType
<1>3. /\ TaskMoved(r, task[r].pc)
      /\ run' \in [Runs -> RunRow]
      /\ \A q \in Runs \ {r} : run'[q] = run[q]
      /\ run'[r].status = run[r].status
      /\ run'[r].config = run[r].config
  BY <1>1, <1>2, RecordEffect DEF TypeOK
<1>4. ExecutorFrame(r)
  BY <1>3 DEF ExecutorFrame, TaskMoved, OthersKept, Collect, TypeOK
<1>5. WorksOnRun(r)
  BY <1>3 DEF WorksOnRun, TaskMoved, Collecting, Unrecorded, Collect
<1>. QED  BY <1>4, <1>5 DEF ExecutorEffect

LEMMA VanishEffect ==
    ASSUME TypeOK, NEW r \in Runs, Vanish(r)
    PROVE  ExecutorEffect(r)
BY EndingEffect DEF Vanish, TypeOK

LEMMA FinalizeReadEffect ==
    ASSUME TypeOK, TaskInv, NEW r \in Runs, FinalizeRead(r)
    PROVE  ExecutorEffect(r)
<1>1. row[task[r].config] \in Row  BY DEF FinalizeRead, TaskInv, TypeOK
<1>2. TaskMoved(r, "finalizing")
  BY <1>1, GoesWithEffect DEF FinalizeRead, TypeOK, TaskPC
<1>. QED  BY <1>2, MovingEffect DEF FinalizeRead, TaskPC

LEMMA CriticalReadEffect ==
    ASSUME TypeOK, TaskInv, NEW r \in Runs, CriticalRead(r)
    PROVE  ExecutorEffect(r)
<1>1. row[task[r].config] \in Row  BY DEF CriticalRead, TaskInv, TypeOK
<1>2. CASE Stored(task[r].config)
  <2>1. TaskMoved(r, "failing")
    BY <1>1, <1>2, GoesWithEffect DEF CriticalRead, TypeOK, TaskPC
  <2>. QED  BY <2>1, MovingEffect DEF CriticalRead, TaskPC
<1>3. CASE ~Stored(task[r].config)
  BY <1>3, EndingEffect DEF CriticalRead, TypeOK
<1>. QED  BY <1>2, <1>3

\* The closing sessions: settle the run and end, or go on to the job store.
LEMMA ClosingEffect ==
    ASSUME TypeOK, TaskInv, NEW r \in Runs, NEW status \in Settled,
           NEW critical \in BOOLEAN, Collecting(r), ~Unrecorded(r),
           Stored(task[r].config), Close(r, status, critical),
           Ends(r) \/ Goes(r, "unscheduling") \/ Goes(r, "rechecking"),
           UNCHANGED <<exists, clock, up, jobs, request, apart>>
    PROVE  ExecutorEffect(r)
<1>1. task[r].pc # "none" /\ task[r].config \in Configs
  BY DEF Collecting, TaskInv
<1>2. /\ row' \in [Configs -> Row]
      /\ run' \in [Runs -> RunRow]
      /\ dlq' \in [Runs -> DeadLetterStatus]
      /\ \A q \in Runs \ {r} : run'[q] = run[q] /\ dlq'[q] = dlq[q]
      /\ run'[r].status = status /\ run'[r].config = run[r].config
      /\ dlq'[r] = dlq[r] \/ (dlq'[r] = "pending" /\ status = "failed")
  BY <1>1, CloseEffect DEF TypeOK
<1>3. TaskEnded(r) \/ TaskMoved(r, "unscheduling") \/ TaskMoved(r, "rechecking")
  BY EndsEffect, GoesEffect DEF TypeOK, TaskPC
<1>4. ExecutorFrame(r)
  BY <1>1, <1>2, <1>3
     DEF ExecutorFrame, TaskEnded, TaskMoved, OthersKept, TypeOK
<1>5. SettlesRun(r)
  BY <1>2, <1>3 DEF SettlesRun, TaskEnded, TaskMoved, Collecting
<1>. QED  BY <1>4, <1>5 DEF ExecutorEffect

LEMMA FinalizeCommitEffect ==
    ASSUME TypeOK, TaskInv, NEW r \in Runs, FinalizeCommit(r)
    PROVE  ExecutorEffect(r)
<1>1. Collecting(r) /\ ~Unrecorded(r)
  BY DEF FinalizeCommit, Collecting, Unrecorded
<1>2. FinalStatus(task[r]) \in Settled  BY DEF FinalStatus, Settled
<1>3. CASE Stored(task[r].config)
  BY <1>1, <1>2, <1>3, ClosingEffect DEF FinalizeCommit
<1>4. CASE ~Stored(task[r].config)
  BY <1>4, EndingEffect DEF FinalizeCommit, TypeOK
<1>. QED  BY <1>3, <1>4

LEMMA CriticalCommitEffect ==
    ASSUME TypeOK, TaskInv, NEW r \in Runs, CriticalCommit(r)
    PROVE  ExecutorEffect(r)
<1>1. Collecting(r) /\ ~Unrecorded(r)
  BY DEF CriticalCommit, Collecting, Unrecorded
<1>2. "failed" \in Settled  BY DEF Settled
<1>3. CASE Stored(task[r].config)
  BY <1>1, <1>2, <1>3, ClosingEffect DEF CriticalCommit
<1>4. CASE ~Stored(task[r].config)
  BY <1>4, EndingEffect DEF CriticalCommit, TypeOK
<1>. QED  BY <1>3, <1>4

LEMMA UnscheduleEffect ==
    ASSUME TypeOK, TaskInv, NEW r \in Runs, Unschedule(r)
    PROVE  ExecutorEffect(r)
<1>1. task[r].pc # "none" /\ task[r].config \in Configs  BY DEF Unschedule, TaskInv
<1>2. jobs' \in Jobs  BY <1>1, UnscheduledEffect DEF Unschedule, TypeOK
<1>. QED  BY <1>1, <1>2, EndingEffect DEF Unschedule, TypeOK

LEMMA RecheckEffect ==
    ASSUME TypeOK, TaskInv, NEW r \in Runs, Recheck(r)
    PROVE  ExecutorEffect(r)
<1>1. task[r].pc # "none" /\ task[r].config \in Configs  BY DEF Recheck, TaskInv
<1>2. row[task[r].config] \in Row  BY <1>1 DEF TypeOK
<1>3. jobs' \in Jobs  BY <1>1, <1>2, ScheduledEffect DEF Recheck, TypeOK
<1>4. apart \subseteq apart' /\ apart' \in SUBSET Configs  BY <1>1 DEF Recheck, TypeOK
<1>. QED  BY <1>1, <1>3, <1>4, EndingEffect DEF Recheck

LEMMA LoseEffect ==
    ASSUME TypeOK, TaskInv, NEW r \in Runs, Lose(r)
    PROVE  ExecutorEffect(r)
<1>. DEFINE t == [NoTask EXCEPT !.pc = "lost", !.config = task[r].config]
<1>1. task[r].pc \in {"admitted", "failing"} /\ task[r].config \in Configs
  BY DEF Lose, TaskInv
<1>2. t \in Task /\ t.pc = "lost" /\ t.config = task[r].config
  BY <1>1, BlankTypes DEF NoTask, Task, TaskPC
<1>3. task' = [task EXCEPT ![r] = t]
      /\ UNCHANGED <<exists, row, clock, up, jobs, run, dlq, request, apart>>
  BY DEF Lose
<1>. HIDE DEF t
<1>4. /\ task' \in [Runs -> Task] /\ task'[r] = t
      /\ \A q \in Runs \ {r} : task'[q] = task[q]
  BY <1>2, <1>3 DEF TypeOK
<1>5. ExecutorFrame(r)
  BY <1>1, <1>2, <1>3, <1>4 DEF ExecutorFrame, OthersKept, TypeOK
<1>6. WorksOnRun(r)
  BY <1>1, <1>2, <1>3, <1>4 DEF WorksOnRun, Collecting, Unrecorded
<1>. QED  BY <1>5, <1>6 DEF ExecutorEffect

LEMMA ExecutorStepEffect ==
    ASSUME TypeOK, TaskInv, NEW r \in Runs, ExecutorStep(r)
    PROVE  ExecutorEffect(r)
BY AdmitEffect, SkipEffect, ReloadEffect, CollectEffect, VanishEffect,
   FinalizeReadEffect, FinalizeCommitEffect, CriticalReadEffect,
   CriticalCommitEffect, UnscheduleEffect, RecheckEffect, LoseEffect
   DEF ExecutorStep

-----------------------------------------------------------------------------
(* The executor preserves the invariant.                                   *)

LEMMA ExecutorPreserves ==
    ASSUME IInv, NEW r \in Runs, ExecutorEffect(r)
    PROVE  IInv'
<1>. USE DEF IInv, ExecutorEffect, ExecutorFrame, OthersKept
<1>1. TypeOK'
  BY DEF TypeOK
<1>2. TaskInv'
  <2>. SUFFICES ASSUME NEW q \in Runs, task'[q].pc # "none"
                PROVE  /\ task'[q].config \in Configs
                       /\ Unrecorded(q)' => run'[q].status = "absent"
                       /\ ~Unrecorded(q)' => run'[q].config = task'[q].config
                       /\ Collecting(q)' => run'[q].status \in {"running", "deleted"}
    BY DEF TaskInv
  <2>1. CASE q = r
    BY <2>1 DEF TaskInv, RecordsRun, WorksOnRun, SettlesRun, Unrecorded, Collecting
  <2>2. CASE q # r
    BY <2>2 DEF TaskInv, Unrecorded, Collecting
  <2>. QED  BY <2>1, <2>2
<1>3. RunInv'
  <2>. SUFFICES ASSUME NEW q \in Runs
                PROVE  /\ run'[q].status = "absent" <=> run'[q].config = NoConfig
                       /\ run'[q].status = "deleted" => exists[run'[q].config] = "deleted"
                       /\ run'[q].status \notin {"absent", "deleted"}
                            => Stored(run'[q].config)
    BY DEF RunInv, Stored
  <2>1. CASE q = r
    BY <2>1, SchedulerAssumption
       DEF RunInv, TaskInv, RecordsRun, WorksOnRun, SettlesRun, Unrecorded,
           Collecting, Settled, Stored
  <2>2. CASE q # r
    BY <2>2 DEF RunInv
  <2>. QED  BY <2>1, <2>2
<1>4. LetterInv'
  BY DEF LetterInv, TaskInv, RunInv, RecordsRun, WorksOnRun, SettlesRun,
         Unrecorded, Collecting, Settled, Stored
<1>5. RequestInv'
  <2>. SUFFICES ASSUME NEW u \in Clients, request[u].op = "retry"
                PROVE  /\ dlq'[request[u].dead] # "none"
                       /\ run'[request[u].run].config = request[u].config
                       /\ run'[request[u].run].status \in {"running", "deleted"}
                       /\ task'[request[u].run].pc = "none"
    BY DEF RequestInv
  <2>1. request[u].run # r /\ request[u].run \in Runs /\ request[u].dead \in Runs
    BY DEF RequestInv
  <2>2. dlq'[request[u].dead] # "none"
    BY <2>1 DEF RequestInv, RecordsRun, WorksOnRun, SettlesRun
  <2>. QED  BY <2>1, <2>2 DEF RequestInv
<1>6. OwnerInv'
  BY DEF OwnerInv
<1>. QED  BY <1>1, <1>2, <1>3, <1>4, <1>5, <1>6

-----------------------------------------------------------------------------
(* The request handlers preserve the invariant.                            *)

RequestSet(u, q) ==
    /\ request' \in [Clients -> Request]
    /\ \A v \in Clients \ {u} : request'[v] = request[v]
    /\ request'[u] = q

LEMMA OpenRecords ==
    ASSUME TypeOK, NEW u \in Clients, NEW op \in {"create", "update"},
           NEW c \in Configs, NEW old \in Row, NEW new \in Row,
           Open(u, op, c, old, new)
    PROVE  /\ RequestSet(u, request'[u])
           /\ request'[u].op = op
           /\ request'[u].config = c
           /\ request'[u].old = old
           /\ request'[u].new = new
<1>. DEFINE q == [Idle EXCEPT !.op = op, !.config = c, !.old = old, !.new = new]
<1>1. q \in Request  BY BlankTypes DEF Request
<1>2. q.op = op /\ q.config = c /\ q.old = old /\ q.new = new  BY DEF Idle
<1>3. request' = [request EXCEPT ![u] = q]  BY DEF Open
<1>. HIDE DEF q
<1>4. request'[u] = q /\ RequestSet(u, q)
  BY <1>1, <1>3 DEF TypeOK, RequestSet
<1>. QED  BY <1>2, <1>4

\* A change of c is open with the values it will write, or it raised.
Changed(u, c, new) ==
    /\ RequestSet(u, request'[u])
    /\ apart' \in SUBSET Configs
    /\ apart \subseteq apart' /\ apart' \subseteq apart \cup {c}
    /\ Overlaps(u, c) => c \in apart'
    /\ new.max_consecutive_failures # row[c].max_consecutive_failures => c \in apart'
    /\ \/ request' = request /\ c \in apart' /\ Raises(c, new)
       \/ /\ request'[u].op = "update" /\ request'[u].config = c
          /\ request'[u].old = row[c] /\ request'[u].new = new

LEMMA ChangeEffect ==
    ASSUME TypeOK, NEW u \in Clients, NEW c \in Configs, NEW new \in Row,
           NEW raises, raises => Raises(c, new), Change(u, c, new, raises)
    PROVE  Changed(u, c, new)
<1>1. row[c] \in Row  BY DEF TypeOK
<1>2. /\ apart' = IF \/ raises
                     \/ Overlaps(u, c)
                     \/ new.max_consecutive_failures # row[c].max_consecutive_failures
                  THEN apart \cup {c} ELSE apart
      /\ IF raises THEN request' = request ELSE Open(u, "update", c, row[c], new)
  BY DEF Change
<1>3. CASE raises
  BY <1>2, <1>3 DEF Changed, RequestSet, TypeOK
<1>4. CASE ~raises
  <2>1. Open(u, "update", c, row[c], new)  BY <1>2, <1>4
  <2>2. /\ RequestSet(u, request'[u])
        /\ request'[u].op = "update" /\ request'[u].config = c
        /\ request'[u].old = row[c] /\ request'[u].new = new
    BY <1>1, <2>1, OpenRecords
  <2>. QED  BY <1>2, <1>4, <2>2 DEF Changed, TypeOK
<1>. QED  BY <1>3, <1>4

LEMMA UpdateOpens ==
    ASSUME TypeOK, NEW u \in Clients, NEW c \in Configs, update_scheduler_config(u, c)
    PROVE  \E new \in Row :
             /\ Changed(u, c, new)
             /\ new.consecutive_failures = row[c].consecutive_failures
             /\ \/ /\ UNCHANGED jobs
                   /\ new.is_enabled = row[c].is_enabled
                   /\ new.schedule_type = row[c].schedule_type
                   /\ new.schedule = row[c].schedule
                \/ new.is_enabled /\ schedule_scheduler_job(c, new)
                \/ ~new.is_enabled /\ unschedule_scheduler_job(c)
<1>1. PICK enabled \in BOOLEAN, limit \in FailureLimits,
           types \in CollectChoices, kind \in ScheduleTypes,
           schedule \in Schedules, touched \in BOOLEAN :
        LET new == [row[c] EXCEPT !.is_enabled = enabled,
                                  !.max_consecutive_failures = limit,
                                  !.collect = types, !.schedule_type = kind,
                                  !.schedule = schedule]
        IN  /\ types # {}
            /\ MaySend(kind, schedule)
            /\ \/ touched
               \/ /\ enabled = row[c].is_enabled
                  /\ kind = row[c].schedule_type
                  /\ schedule = row[c].schedule
            /\ Change(u, c, new, touched /\ Raises(c, new))
            /\ IF ~touched THEN UNCHANGED jobs
               ELSE IF enabled THEN schedule_scheduler_job(c, new)
               ELSE unschedule_scheduler_job(c)
  BY Zenon DEF update_scheduler_config
<1>. DEFINE new == [row[c] EXCEPT !.is_enabled = enabled,
                                  !.max_consecutive_failures = limit,
                                  !.collect = types, !.schedule_type = kind,
                                  !.schedule = schedule]
<1>2. /\ new \in Row
      /\ new.is_enabled = enabled /\ new.schedule_type = kind
      /\ new.schedule = schedule
      /\ new.consecutive_failures = row[c].consecutive_failures
  <2>1. row[c] \in Row  BY DEF TypeOK
  <2>. QED  BY <2>1, SchedulerAssumption DEF Row
<1>3. /\ \/ touched
         \/ /\ enabled = row[c].is_enabled
            /\ kind = row[c].schedule_type
            /\ schedule = row[c].schedule
      /\ Change(u, c, new, touched /\ Raises(c, new))
      /\ IF ~touched THEN UNCHANGED jobs
         ELSE IF enabled THEN schedule_scheduler_job(c, new)
         ELSE unschedule_scheduler_job(c)
  BY <1>1
<1>. HIDE DEF new
<1>4. Changed(u, c, new)
  <2>1. (touched /\ Raises(c, new)) => Raises(c, new)  OBVIOUS
  <2>. QED  BY <1>2, <1>3, <2>1, ChangeEffect
<1>. QED  BY <1>2, <1>3, <1>4

LEMMA ToggleOpens ==
    ASSUME TypeOK, NEW u \in Clients, NEW c \in Configs, NEW enabled \in BOOLEAN,
           toggle_scheduler(u, c, enabled)
    PROVE  \E new \in Row :
             /\ Changed(u, c, new)
             /\ new.is_enabled = enabled /\ new.schedule_type = row[c].schedule_type
             /\ new.consecutive_failures \in {0, row[c].consecutive_failures}
             /\ \/ enabled /\ schedule_scheduler_job(c, new)
                \/ ~enabled /\ unschedule_scheduler_job(c)
<1>. DEFINE new == [row[c] EXCEPT !.is_enabled = enabled,
                     !.consecutive_failures = IF enabled THEN 0 ELSE @]
<1>1. row[c] \in Row  BY DEF TypeOK
<1>2. /\ new \in Row
      /\ new.is_enabled = enabled /\ new.schedule_type = row[c].schedule_type
      /\ new.consecutive_failures \in {0, row[c].consecutive_failures}
  BY <1>1 DEF Row
<1>3. /\ Change(u, c, new, Raises(c, new))
      /\ \/ enabled /\ schedule_scheduler_job(c, new)
         \/ ~enabled /\ unschedule_scheduler_job(c)
  BY DEF toggle_scheduler
<1>. HIDE DEF new
<1>4. Changed(u, c, new)  BY <1>2, <1>3, ChangeEffect
<1>. QED  BY <1>2, <1>3, <1>4

LEMMA CreateOpens ==
    ASSUME TypeOK, NEW u \in Clients, create_scheduler_config(u)
    PROVE  \E c \in Configs, new \in Row :
             /\ exists[c] = "absent"
             /\ exists' = [exists EXCEPT ![c] = "creating"]
             /\ request'[u].op = "create" /\ request'[u].config = c
             /\ request'[u].new = new
             /\ RequestSet(u, request'[u])
             /\ new.consecutive_failures = 0
             /\ \/ new.is_enabled /\ schedule_scheduler_job(c, new)
                \/ ~new.is_enabled /\ UNCHANGED jobs
<1>1. PICK c \in Configs, enabled \in BOOLEAN, limit \in FailureLimits,
           types \in CollectChoices, kind \in ScheduleTypes, schedule \in Schedules :
        LET new == [is_enabled |-> enabled, consecutive_failures |-> 0,
                    max_consecutive_failures |-> limit, collect |-> types,
                    schedule_type |-> kind, schedule |-> schedule]
        IN  /\ exists[c] = "absent"
            /\ types # {}
            /\ MaySend(kind, schedule)
            /\ kind = "interval" => schedule # "none"
            /\ ~Raises(c, new)
            /\ exists' = [exists EXCEPT ![c] = "creating"]
            /\ Open(u, "create", c, new, new)
            /\ IF enabled THEN schedule_scheduler_job(c, new) ELSE UNCHANGED jobs
  BY Zenon DEF create_scheduler_config
<1>. DEFINE new == [is_enabled |-> enabled, consecutive_failures |-> 0,
                    max_consecutive_failures |-> limit, collect |-> types,
                    schedule_type |-> kind, schedule |-> schedule]
<1>2. /\ new \in Row
      /\ new.is_enabled = enabled /\ new.consecutive_failures = 0
  BY SchedulerAssumption DEF Row
<1>3. /\ exists[c] = "absent"
      /\ exists' = [exists EXCEPT ![c] = "creating"]
      /\ Open(u, "create", c, new, new)
      /\ \/ enabled /\ schedule_scheduler_job(c, new)
         \/ ~enabled /\ UNCHANGED jobs
  BY <1>1
<1>. HIDE DEF new
<1>4. /\ request'[u].op = "create" /\ request'[u].config = c
      /\ request'[u].new = new /\ RequestSet(u, request'[u])
  BY <1>2, <1>3, OpenRecords
<1>. QED  BY <1>2, <1>3, <1>4

LEMMA DeleteOpens ==
    ASSUME TypeOK, NEW u \in Clients, NEW c \in Configs, delete_scheduler_config(u, c)
    PROVE  /\ request'[u].op = "delete" /\ request'[u].config = c
           /\ RequestSet(u, request'[u])
<1>. DEFINE q == [Idle EXCEPT !.op = "delete", !.config = c, !.seen = RunsOf(c)]
<1>1. q \in Request /\ q.op = "delete" /\ q.config = c
  BY BlankTypes DEF Request, RunsOf, Idle
<1>2. request' = [request EXCEPT ![u] = q]  BY DEF delete_scheduler_config
<1>. HIDE DEF q
<1>. QED  BY <1>1, <1>2 DEF RequestSet, TypeOK

LEMMA ClosedEffect ==
    ASSUME TypeOK, NEW u \in Clients, Closed(u)
    PROVE  /\ RequestSet(u, Idle)
           /\ request'[u].op = "idle"
BY BlankTypes DEF Closed, RequestSet, TypeOK, Idle

\* A handler that only opens an update or a delete, or closes a request,
\* disturbs neither runs nor dead letters.
LEMMA HandlerPreserves ==
    ASSUME IInv, NEW u \in Clients, NEW q, RequestSet(u, q),
           q.op \in {"idle", "update", "delete"},
           q.op # "idle" => q.config \in Configs,
           row' \in [Configs -> Row], jobs' \in Jobs,
           apart' \in SUBSET Configs,
           UNCHANGED <<exists, clock, up, run, task, dlq>>
    PROVE  IInv'
<1>. USE DEF IInv, RequestSet
<1>1. TypeOK'  BY DEF TypeOK
<1>2. TaskInv'  BY DEF TaskInv, Unrecorded, Collecting
<1>3. RunInv'  BY DEF RunInv, Stored
<1>4. LetterInv'  BY DEF LetterInv
<1>5. RequestInv'  BY DEF RequestInv
<1>6. OwnerInv'  BY DEF OwnerInv
<1>. QED  BY <1>1, <1>2, <1>3, <1>4, <1>5, <1>6

LEMMA CreatePreserves ==
    ASSUME IInv, NEW u \in Clients, create_scheduler_config(u)
    PROVE  IInv'
<1>. USE DEF IInv
<1>1. PICK c \in Configs, new \in Row :
        /\ exists[c] = "absent"
        /\ exists' = [exists EXCEPT ![c] = "creating"]
        /\ request'[u].op = "create" /\ request'[u].config = c
        /\ RequestSet(u, request'[u])
        /\ schedule_scheduler_job(c, new) \/ UNCHANGED jobs
  BY CreateOpens
<1>2. /\ exists' \in [Configs -> {"absent", "creating", "stored", "deleted"}]
      /\ exists'[c] = "creating"
      /\ \A b \in Configs \ {c} : exists'[b] = exists[b]
  BY <1>1 DEF TypeOK
<1>3. jobs' \in Jobs  BY <1>1, ScheduledEffect DEF TypeOK
<1>. USE DEF create_scheduler_config
<1>4. TypeOK'  BY <1>1, <1>2, <1>3 DEF TypeOK, RequestSet
<1>5. TaskInv'  BY DEF TaskInv, Unrecorded, Collecting
<1>6. RunInv'
  BY <1>1, <1>2, SchedulerAssumption DEF RunInv, Stored, TypeOK, RunRow
<1>7. LetterInv'  BY DEF LetterInv
<1>8. RequestInv'  BY <1>1, <1>2 DEF RequestInv, RequestSet
<1>9. OwnerInv'
  BY <1>1, <1>2 DEF OwnerInv, RequestInv, RequestSet
<1>. QED  BY <1>4, <1>5, <1>6, <1>7, <1>8, <1>9

LEMMA CommitCreatePreserves ==
    ASSUME IInv, NEW u \in Clients, CommitCreate(u)
    PROVE  IInv'
<1>. DEFINE c == request[u].config
<1>. USE DEF IInv, CommitCreate
<1>1. c \in Configs /\ exists[c] = "creating" /\ request[u].new \in Row
  BY DEF RequestInv, TypeOK, Request
<1>2. RequestSet(u, Idle) /\ request'[u].op = "idle"  BY ClosedEffect
<1>3. TypeOK'  BY <1>1, <1>2 DEF TypeOK, RequestSet
<1>4. TaskInv'  BY DEF TaskInv, Unrecorded, Collecting
<1>5. RunInv'
  BY <1>1, SchedulerAssumption DEF RunInv, Stored, TypeOK, RunRow
<1>6. LetterInv'  BY DEF LetterInv
<1>7. RequestInv'
  BY <1>1, <1>2 DEF RequestInv, RequestSet, OwnerInv, TypeOK
<1>8. OwnerInv'  BY <1>2 DEF OwnerInv, RequestSet
<1>. QED  BY <1>3, <1>4, <1>5, <1>6, <1>7, <1>8

LEMMA ChangedPreserves ==
    ASSUME IInv, NEW u \in Clients, NEW c \in Configs, NEW new \in Row,
           request[u].op = "idle", Changed(u, c, new), jobs' \in Jobs,
           UNCHANGED <<exists, row, clock, up, run, task, dlq>>
    PROVE  IInv'
<1>1. /\ RequestSet(u, request'[u]) /\ apart' \in SUBSET Configs
      /\ request'[u].op \in {"idle", "update"}
      /\ request'[u].op # "idle" => request'[u].config = c
  BY DEF Changed
<1>. QED  BY <1>1, HandlerPreserves DEF IInv, TypeOK

LEMMA UpdatePreserves ==
    ASSUME IInv, NEW u \in Clients, NEW c \in Configs,
           update_scheduler_config(u, c)
    PROVE  IInv'
<1>1. PICK new \in Row : /\ Changed(u, c, new)
                         /\ \/ UNCHANGED jobs
                            \/ schedule_scheduler_job(c, new)
                            \/ unschedule_scheduler_job(c)
  BY UpdateOpens DEF IInv
<1>2. jobs' \in Jobs
  BY <1>1, ScheduledEffect, UnscheduledEffect DEF IInv, TypeOK
<1>3. /\ request[u].op = "idle"
      /\ UNCHANGED <<exists, row, clock, up, run, task, dlq>>
  BY DEF update_scheduler_config, Free
<1>. QED  BY <1>1, <1>2, <1>3, ChangedPreserves

LEMMA TogglePreserves ==
    ASSUME IInv, NEW u \in Clients, NEW c \in Configs, NEW enabled \in BOOLEAN,
           toggle_scheduler(u, c, enabled)
    PROVE  IInv'
<1>1. PICK new \in Row :
        /\ Changed(u, c, new)
        /\ schedule_scheduler_job(c, new) \/ unschedule_scheduler_job(c)
  BY ToggleOpens DEF IInv
<1>2. jobs' \in Jobs
  BY <1>1, ScheduledEffect, UnscheduledEffect DEF IInv, TypeOK
<1>3. /\ request[u].op = "idle"
      /\ UNCHANGED <<exists, row, clock, up, run, task, dlq>>
  BY DEF toggle_scheduler, Free
<1>. QED  BY <1>1, <1>2, <1>3, ChangedPreserves

LEMMA CommitUpdatePreserves ==
    ASSUME IInv, NEW u \in Clients, CommitUpdate(u)
    PROVE  IInv'
<1>. DEFINE c == request[u].config
            flushed == Flushed(row[c], request[u].old, request[u].new)
<1>. USE DEF IInv, CommitUpdate
<1>1. c \in Configs  BY DEF RequestInv
<1>2. flushed \in Row  BY <1>1, FlushedType DEF TypeOK, Request
<1>3. row' = row \/ row' = [row EXCEPT ![c] = flushed]  OBVIOUS
<1>. HIDE DEF flushed
<1>4. row' \in [Configs -> Row]  BY <1>1, <1>2, <1>3 DEF TypeOK
<1>5. RequestSet(u, Idle) /\ Idle.op = "idle"  BY ClosedEffect DEF Idle
<1>. QED  BY <1>4, <1>5, HandlerPreserves DEF TypeOK

LEMMA DeletePreserves ==
    ASSUME IInv, NEW u \in Clients, NEW c \in Configs,
           delete_scheduler_config(u, c)
    PROVE  IInv'
<1>1. /\ RequestSet(u, request'[u]) /\ request'[u].op = "delete"
      /\ request'[u].config = c
  BY DeleteOpens DEF IInv
<1>2. jobs' \in Jobs  BY UnscheduledEffect DEF delete_scheduler_config, IInv, TypeOK
<1>. QED
  BY <1>1, <1>2, HandlerPreserves DEF delete_scheduler_config, IInv, TypeOK

\* The cascade: runs of a config turn "deleted" together with it.
LEMMA CommitDeletePreserves ==
    ASSUME IInv, NEW u \in Clients, CommitDelete(u)
    PROVE  IInv'
<1>. DEFINE c == request[u].config
<1>. USE DEF IInv, CommitDelete
<1>1. c \in Configs  BY DEF RequestInv
<1>2. RequestSet(u, Idle) /\ Idle.op = "idle"  BY ClosedEffect DEF Idle
<1>3. CASE ~(Stored(c) /\ RunsOf(c) = request[u].seen)
  BY <1>1, <1>2, <1>3, HandlerPreserves DEF TypeOK
<1>4. CASE Stored(c) /\ RunsOf(c) = request[u].seen
  <2>1. /\ exists' = [exists EXCEPT ![c] = "deleted"]
        /\ run' = [r \in Runs |-> IF r \in RunsOf(c)
                     THEN [run[r] EXCEPT !.status = "deleted"] ELSE run[r]]
        /\ apart' = apart
    BY <1>4
  <2>2. /\ exists' \in [Configs -> {"absent", "creating", "stored", "deleted"}]
        /\ exists[c] = "stored" /\ exists'[c] = "deleted"
        /\ \A b \in Configs \ {c} : exists'[b] = exists[b]
    BY <1>1, <1>4, <2>1 DEF TypeOK, Stored
  <2>3. ASSUME NEW r \in Runs
        PROVE  /\ run'[r] \in RunRow
               /\ run'[r].config = run[r].config
               /\ r \in RunsOf(c) => run'[r].status = "deleted"
               /\ r \notin RunsOf(c) => run'[r].status = run[r].status
    <3>. DEFINE s == [run[r] EXCEPT !.status = "deleted"]
    <3>1. run[r] \in RunRow  BY DEF TypeOK
    <3>2. s \in RunRow /\ s.status = "deleted" /\ s.config = run[r].config
      BY <3>1 DEF RunRow, RunStatus
    <3>3. run'[r] = IF r \in RunsOf(c) THEN s ELSE run[r]  BY <2>1
    <3>. HIDE DEF s
    <3>. QED  BY <3>1, <3>2, <3>3
  <2>4. run' \in [Runs -> RunRow]  BY <2>1, <2>3
  <2>5. \A r \in Runs : r \in RunsOf(c) <=>
                          run[r].config = c /\ run[r].status # "absent"
    BY DEF RunsOf
  <2>6. \A r \in Runs : /\ run'[r].status = "absent" <=> run[r].status = "absent"
                        /\ run'[r].status # run[r].status => run'[r].status = "deleted"
    BY <2>3, <2>5
  <2>7. TypeOK'  BY <1>2, <2>1, <2>2, <2>4 DEF TypeOK, RequestSet
  <2>8. TaskInv'
    BY <2>3, <2>6 DEF TaskInv, Unrecorded, Collecting
  <2>9. RunInv'
    <3>. SUFFICES ASSUME NEW r \in Runs
                  PROVE  /\ run'[r].status = "absent" <=> run'[r].config = NoConfig
                         /\ run'[r].status = "deleted" => exists'[run'[r].config] = "deleted"
                         /\ run'[r].status \notin {"absent", "deleted"}
                              => exists'[run'[r].config] = "stored"
      BY DEF RunInv, Stored
    <3>1. CASE r \in RunsOf(c)
      BY <1>1, <2>2, <2>3, <2>5, <3>1, SchedulerAssumption DEF RunInv
    <3>2. CASE r \notin RunsOf(c)
      BY <1>1, <2>2, <2>3, <2>5, <3>2, SchedulerAssumption
         DEF RunInv, Stored, TypeOK, RunRow
    <3>. QED  BY <3>1, <3>2
  <2>10. LetterInv'  BY <2>3, <2>6 DEF LetterInv
  <2>11. RequestInv'
    BY <1>1, <1>2, <2>2, <2>3, <2>6 DEF RequestInv, RequestSet
  <2>12. OwnerInv'  BY <1>2 DEF OwnerInv, RequestSet
  <2>. QED  BY <2>7, <2>8, <2>9, <2>10, <2>11, <2>12
<1>. QED  BY <1>3, <1>4

\* Fire and a manual trigger start a coroutine on a fresh run; the trigger
\* also records the run.
LEMMA StartPreserves ==
    ASSUME IInv, NEW c \in Configs, NEW r \in Runs, Fresh(r),
           NEW scheduled \in BOOLEAN,
           task' = [task EXCEPT ![r] = Called(c, scheduled)],
           \/ scheduled /\ UNCHANGED run
           \/ /\ ~scheduled /\ Stored(c)
              /\ run' = [run EXCEPT ![r] = RunningRow(c)],
           jobs' \in Jobs,
           UNCHANGED <<exists, row, clock, up, dlq, request, apart>>
    PROVE  IInv'
<1>. DEFINE t == Called(c, scheduled)
<1>. USE DEF IInv, Fresh
<1>1. t \in Task /\ t.pc = "called" /\ t.config = c /\ t.scheduled = scheduled
  BY CalledType DEF Called, NoTask
<1>2. /\ RunningRow(c) \in RunRow
      /\ RunningRow(c).status = "running" /\ RunningRow(c).config = c
  BY RunningRowType
<1>. HIDE DEF t
<1>3. /\ task' \in [Runs -> Task]
      /\ task'[r] = t
      /\ \A q \in Runs \ {r} : task'[q] = task[q] /\ run'[q] = run[q]
      /\ run' \in [Runs -> RunRow]
      /\ \/ scheduled /\ run'[r] = run[r]
         \/ ~scheduled /\ Stored(c) /\ run'[r] = RunningRow(c)
  <2>1. task' = [task EXCEPT ![r] = t]  BY DEF t
  <2>. QED  BY <1>1, <1>2, <2>1 DEF TypeOK
<1>4. TypeOK'  BY <1>3 DEF TypeOK
<1>5. TaskInv'  BY <1>1, <1>2, <1>3 DEF TaskInv, Unrecorded, Collecting
<1>6. RunInv'  BY <1>2, <1>3, SchedulerAssumption DEF RunInv, Stored
<1>7. LetterInv'  BY <1>2, <1>3 DEF LetterInv
<1>8. RequestInv'  BY <1>3 DEF RequestInv
<1>9. OwnerInv'  BY DEF OwnerInv
<1>. QED  BY <1>4, <1>5, <1>6, <1>7, <1>8, <1>9

LEMMA FirePreserves ==
    ASSUME IInv, NEW c \in Configs, Fire(c)
    PROVE  IInv'
<1>1. PICK r \in Runs : Fresh(r) /\ task' = [task EXCEPT ![r] = Called(c, TRUE)]
  BY DEF Fire
<1>2. jobs' \in Jobs  BY DEF Fire, IInv, TypeOK, Jobs
<1>3. UNCHANGED <<exists, row, clock, up, run, dlq, request, apart>>  BY DEF Fire
<1>4. TRUE \in BOOLEAN  OBVIOUS
<1>. QED  BY <1>1, <1>2, <1>3, <1>4, StartPreserves

LEMMA TriggerPreserves ==
    ASSUME IInv, NEW c \in Configs, trigger_scheduler_manual(c)
    PROVE  IInv'
<1>1. PICK r \in Runs :
        /\ Fresh(r)
        /\ run' = [run EXCEPT ![r] = RunningRow(c)]
        /\ task' = [task EXCEPT ![r] = Called(c, FALSE)]
  BY DEF trigger_scheduler_manual
<1>2. FALSE \in BOOLEAN  OBVIOUS
<1>3. /\ Stored(c) /\ jobs' \in Jobs
      /\ UNCHANGED <<exists, row, clock, up, dlq, request, apart>>
  BY DEF trigger_scheduler_manual, IInv, TypeOK
<1>. QED  BY <1>1, <1>2, <1>3, StartPreserves

LEMMA RetryPreserves ==
    ASSUME IInv, NEW u \in Clients, NEW d \in Runs, retry_dead_letter_job(u, d)
    PROVE  IInv'
<1>. DEFINE c == run[d].config
<1>. USE DEF IInv
<1>1. dlq[d] \in {"pending", "retried"} /\ Stored(c) /\ Free(u)
  BY DEF retry_dead_letter_job, Retryable
<1>2. c \in Configs
  BY <1>1, SchedulerAssumption DEF LetterInv, RunInv, TypeOK, RunRow
<1>3. PICK r \in Runs :
        /\ Fresh(r)
        /\ run' = [run EXCEPT ![r] = RunningRow(c)]
        /\ request' = [request EXCEPT ![u] =
             [Idle EXCEPT !.op = "retry", !.config = c, !.dead = d,
                          !.was = dlq[d], !.run = r]]
  BY DEF retry_dead_letter_job
<1>. DEFINE q == [Idle EXCEPT !.op = "retry", !.config = c, !.dead = d,
                              !.was = dlq[d], !.run = r]
            s == [row[c] EXCEPT !.consecutive_failures = 0]
<1>4. s \in Row
  <2>1. row[c] \in Row  BY <1>2 DEF TypeOK
  <2>. HIDE DEF c
  <2>. QED  BY <2>1 DEF Row
<1>5. row' = [row EXCEPT ![c] = s]  BY DEF retry_dead_letter_job
<1>6. q \in Request  BY <1>2, BlankTypes DEF Request, TypeOK
<1>7. q.op = "retry" /\ q.config = c /\ q.dead = d /\ q.run = r  BY DEF Idle
<1>8. /\ RunningRow(c) \in RunRow
      /\ RunningRow(c).status = "running" /\ RunningRow(c).config = c
  BY <1>2, RunningRowType
<1>. HIDE DEF q, s
<1>9. RequestSet(u, q)
  <2>1. request' = [request EXCEPT ![u] = q]  BY <1>3 DEF q
  <2>. QED  BY <1>6, <2>1 DEF RequestSet, TypeOK
<1>10. /\ run' \in [Runs -> RunRow] /\ run'[r] = RunningRow(c)
       /\ \A p \in Runs \ {r} : run'[p] = run[p]
       /\ run[r].status = "absent" /\ task[r].pc = "none"
       /\ row' \in [Configs -> Row]
       /\ UNCHANGED <<exists, clock, up, jobs, task, dlq, apart>>
  BY <1>2, <1>3, <1>4, <1>5, <1>8 DEF Fresh, TypeOK, retry_dead_letter_job
<1>11. TypeOK'  BY <1>9, <1>10 DEF TypeOK, RequestSet
<1>12. TaskInv'  BY <1>10 DEF TaskInv, Unrecorded, Collecting
<1>13. RunInv'
  BY <1>1, <1>2, <1>8, <1>10, SchedulerAssumption DEF RunInv, Stored
<1>14. LetterInv'  BY <1>8, <1>10 DEF LetterInv
<1>15. RequestInv'
  BY <1>1, <1>2, <1>7, <1>8, <1>9, <1>10 DEF RequestInv, RequestSet
<1>16. OwnerInv'
  BY <1>7, <1>9, <1>10 DEF OwnerInv, RequestInv, RequestSet
<1>. QED  BY <1>11, <1>12, <1>13, <1>14, <1>15, <1>16

LEMMA EndRetryPreserves ==
    ASSUME IInv, NEW u \in Clients, EndRetry(u)
    PROVE  IInv'
<1>. DEFINE q == request[u]
            t == Called(q.config, FALSE)
<1>. USE DEF IInv, EndRetry
<1>1. /\ q.op = "retry"
      /\ q.config \in Configs /\ q.run \in Runs /\ q.dead \in Runs
      /\ dlq[q.dead] # "none" /\ run[q.run].config = q.config
      /\ run[q.run].status \in {"running", "deleted"}
  BY DEF RequestInv
<1>2. t \in Task /\ t.pc = "called" /\ t.config = q.config /\ t.scheduled = FALSE
  BY <1>1, CalledType DEF Called, NoTask
<1>3. RequestSet(u, Idle) /\ request'[u].op = "idle"  BY ClosedEffect
<1>4. dlq' \in [Runs -> DeadLetterStatus]
      /\ \A r \in Runs : dlq'[r] # "none" <=> dlq[r] # "none"
  BY <1>1 DEF TypeOK, DeadLetterStatus
<1>5. task' = [task EXCEPT ![q.run] = t]
      /\ UNCHANGED <<exists, row, clock, up, jobs, run, apart>>
  OBVIOUS
<1>. HIDE DEF t, EndRetry
<1>6. TypeOK'  BY <1>1, <1>2, <1>3, <1>4, <1>5 DEF TypeOK, RequestSet
<1>7. TaskInv'
  BY <1>1, <1>2, <1>5 DEF TaskInv, TypeOK, Unrecorded, Collecting
<1>8. RunInv'  BY <1>5 DEF RunInv, Stored
<1>9. LetterInv'  BY <1>4, <1>5 DEF LetterInv
<1>10. RequestInv'
  <2>. SUFFICES ASSUME NEW v \in Clients, v # u
                PROVE  request'[v].op = "retry" => task'[request'[v].run].pc = "none"
    BY <1>3, <1>4, <1>5 DEF RequestInv, RequestSet
  <2>. QED
    BY <1>1, <1>3, <1>5 DEF RequestInv, OwnerInv, RequestSet, TypeOK
<1>11. OwnerInv'  BY <1>3 DEF OwnerInv, RequestSet
<1>. QED  BY <1>6, <1>7, <1>8, <1>9, <1>10, <1>11

LEMMA AbandonPreserves ==
    ASSUME IInv, NEW u \in Clients, NEW d \in Runs, abandon_dead_letter_job(u, d)
    PROVE  IInv'
<1>. USE DEF IInv, abandon_dead_letter_job
<1>1. dlq' \in [Runs -> DeadLetterStatus]
      /\ \A r \in Runs : dlq'[r] # "none" <=> dlq[r] # "none"
  BY DEF TypeOK, DeadLetterStatus
<1>2. TypeOK'  BY <1>1 DEF TypeOK
<1>3. TaskInv'  BY DEF TaskInv, Unrecorded, Collecting
<1>4. RunInv'  BY DEF RunInv, Stored
<1>5. LetterInv'  BY <1>1 DEF LetterInv
<1>6. RequestInv'  BY <1>1 DEF RequestInv
<1>7. OwnerInv'  BY DEF OwnerInv
<1>. QED  BY <1>2, <1>3, <1>4, <1>5, <1>6, <1>7

LEMMA RollbackPreserves ==
    ASSUME IInv, NEW u \in Clients, Rollback(u)
    PROVE  IInv'
<1>. DEFINE c == request[u].config
<1>. USE DEF IInv, Rollback
<1>1. c \in Configs /\ (request[u].op = "create" => exists[c] = "creating")
  BY DEF RequestInv
<1>2. RequestSet(u, Idle) /\ request'[u].op = "idle"  BY ClosedEffect
<1>3. /\ exists' \in [Configs -> {"absent", "creating", "stored", "deleted"}]
      /\ \A b \in Configs \ {c} : exists'[b] = exists[b]
      /\ request[u].op # "create" => exists' = exists
      /\ request[u].op = "create" =>
           exists[c] = "creating" /\ exists'[c] = "deleted"
  BY <1>1 DEF TypeOK
<1>4. TypeOK'  BY <1>1, <1>2, <1>3 DEF TypeOK, RequestSet
<1>5. TaskInv'  BY DEF TaskInv, Unrecorded, Collecting
<1>6. RunInv'
  BY <1>1, <1>3, SchedulerAssumption DEF RunInv, Stored, TypeOK, RunRow
<1>7. LetterInv'  BY DEF LetterInv
<1>8. RequestInv'
  BY <1>1, <1>2, <1>3 DEF RequestInv, OwnerInv, RequestSet
<1>9. OwnerInv'  BY <1>2 DEF OwnerInv, RequestSet
<1>. QED  BY <1>4, <1>5, <1>6, <1>7, <1>8, <1>9

-----------------------------------------------------------------------------
(* The process and the calendar preserve the invariant.                    *)

LEMMA CrashPreserves ==
    ASSUME IInv, Crash
    PROVE  IInv'
<1>. USE DEF IInv, Crash
<1>1. \A r \in Runs : task'[r] = NoTask /\ task'[r].pc = "none"  BY DEF NoTask
<1>2. \A u \in Clients : request'[u] = Idle /\ request'[u].op = "idle"  BY DEF Idle
<1>3. \A c \in Configs : /\ exists[c] \in {"stored", "deleted"} => exists'[c] = exists[c]
                         /\ exists'[c] \in {"absent", "stored", "deleted"}
  BY DEF TypeOK
<1>4. TypeOK'  BY BlankTypes, <1>3 DEF TypeOK, NoJobs, Jobs
<1>5. TaskInv'  BY <1>1 DEF TaskInv
<1>6. RunInv'
  BY <1>3, SchedulerAssumption DEF RunInv, Stored, TypeOK, RunRow
<1>7. LetterInv'  BY DEF LetterInv
<1>8. RequestInv'  BY <1>2 DEF RequestInv
<1>9. OwnerInv'  BY <1>2 DEF OwnerInv
<1>. QED  BY <1>4, <1>5, <1>6, <1>7, <1>8, <1>9

\* Restart and the calendar touch neither runs, requests nor config rows.
LEMMA ClockPreserves ==
    ASSUME IInv, up' \in BOOLEAN, jobs' \in Jobs,
           clock' \in [Configs -> {"before", "open", "after"}],
           apart' \in SUBSET Configs,
           UNCHANGED <<exists, row, run, task, dlq, request>>
    PROVE  IInv'
BY DEF IInv, TypeOK, TaskInv, RunInv, LetterInv, RequestInv, OwnerInv,
       Unrecorded, Collecting, Stored

LEMMA InitInv == Init => IInv
<1>. SUFFICES ASSUME Init PROVE IInv  OBVIOUS
<1>. DEFINE s == [RunningRow(NoConfig) EXCEPT !.status = "absent"]
<1>1. s \in RunRow /\ s.status = "absent" /\ s.config = NoConfig
  BY DEF RunningRow, RunRow, RunStatus, TypeStatus
<1>2. run = [r \in Runs |-> s]  BY DEF Init
<1>. HIDE DEF s
<1>3. \A r \in Runs : task[r] = NoTask /\ NoTask.pc = "none"  BY DEF Init, NoTask
<1>4. \A u \in Clients : request[u] = Idle /\ Idle.op = "idle"  BY DEF Init, Idle
<1>5. TypeOK  BY BlankTypes, <1>1, <1>2 DEF Init, TypeOK, DeadLetterStatus, NoJobs, Jobs
<1>6. TaskInv /\ RunInv /\ LetterInv
  BY <1>1, <1>2, <1>3 DEF Init, TaskInv, RunInv, LetterInv
<1>7. RequestInv /\ OwnerInv  BY <1>4 DEF RequestInv, OwnerInv
<1>. QED  BY <1>5, <1>6, <1>7 DEF IInv

LEMMA NextPreserves == IInv /\ [Next]_vars => IInv'
<1>. SUFFICES ASSUME IInv, [Next]_vars PROVE IInv'  OBVIOUS
<1>1. ASSUME NEW r \in Runs, ExecutorStep(r) PROVE IInv'
  BY <1>1, ExecutorStepEffect, ExecutorPreserves DEF IInv
<1>2. ASSUME NEW u \in Clients, RequestStep(u) PROVE IInv'
  BY <1>2, CreatePreserves, CommitCreatePreserves, UpdatePreserves,
     TogglePreserves, CommitUpdatePreserves, DeletePreserves,
     CommitDeletePreserves, RetryPreserves, EndRetryPreserves,
     AbandonPreserves, RollbackPreserves DEF RequestStep
<1>3. ASSUME NEW c \in Configs, Fire(c) \/ trigger_scheduler_manual(c) PROVE IInv'
  BY <1>3, FirePreserves, TriggerPreserves
<1>4. ASSUME NEW c \in Configs, StartDatePasses(c) \/ EndDatePasses(c) PROVE IInv'
  BY <1>4, ClockPreserves DEF StartDatePasses, EndDatePasses, IInv, TypeOK
<1>5. CASE Crash  BY <1>5, CrashPreserves
<1>6. CASE Restart
  <2>1. \A c \in Configs : row[c].schedule_type \in {"none", "interval", "once"}
    BY DEF IInv, TypeOK, Row
  <2>2. jobs' \in Jobs  BY <1>6, <2>1 DEF Restart, Jobs
  <2>. QED  BY <1>6, <2>2, ClockPreserves DEF Restart, IInv, TypeOK
<1>7. CASE UNCHANGED vars
  BY <1>7, ClockPreserves DEF vars, IInv, TypeOK
<1>. QED  BY <1>1, <1>2, <1>3, <1>4, <1>5, <1>6, <1>7 DEF Next

-----------------------------------------------------------------------------
(* The theorems that follow from the invariant.                            *)

\* The inductive invariant holds in every state of every behaviour.
THEOREM SchedulerInvariant == Spec => []IInv
BY InitInv, NextPreserves, PTL DEF Spec

\* Rows, runs, coroutines and requests keep the shapes that the models of
\* app/scheduler declare, whatever requests, runs and faults interleave.
THEOREM TypeCorrect == Spec => []TypeOK
BY SchedulerInvariant, PTL DEF IInv

\* Only failed runs have dead letters (executor.py:383-401).
THEOREM DeadLettersAreFailures == Spec => []DeadLetterRunFailed
<1>1. IInv => DeadLetterRunFailed  BY DEF IInv, LetterInv, DeadLetterRunFailed
<1>. QED  BY <1>1, SchedulerInvariant, PTL

\* Once a config is deleted no coroutine or job that outlived it leaves a run
\* behind (executor.py:156-159, 191-194, 366-368; models.py cascades).
THEOREM NothingOutlivesItsConfig == Spec => []DeletedConfigLeavesNothing
<1>1. IInv => DeletedConfigLeavesNothing
  BY DEF IInv, RunInv, DeletedConfigLeavesNothing
<1>. QED  BY <1>1, SchedulerInvariant, PTL

-----------------------------------------------------------------------------
(* The status of a run agrees with those of its data types.                *)

Blank(x) == \A d \in DataTypes : x.types[d] = "none"

\* The types that count as errors are those on record as failed with one, and
\* a type that completed counts as a success.
Tallied(t, x) ==
    /\ t.error \subseteq t.done
    /\ \A d \in DataTypes : x.types[d] = "failed" <=> d \in t.error
    /\ \A d \in DataTypes : x.types[d] = "completed" => d \in t.success

Matches(x) ==
    /\ x.status = "completed" => \A d \in DataTypes : x.types[d] # "failed"
    /\ x.status = "partial" => \E d \in DataTypes : x.types[d] = "failed"
    /\ x.status = "failed" /\ ~x.critical =>
         /\ \E d \in DataTypes : x.types[d] = "failed"
         /\ \A d \in DataTypes : x.types[d] # "completed"

\* What coroutine t, up to its closing session, knows of run x.
Agrees(t, x) ==
    /\ t.pc \in {"called", "admitted"} =>
         /\ t.done = {} /\ t.success = {} /\ t.error = {}
         /\ (t.pc = "called" /\ t.scheduled) \/ Blank(x)
    /\ t.pc \in {"collecting", "finalizing"} => Tallied(t, x)
    /\ Matches(x)

TypesInv ==
    /\ \A r \in Runs : Agrees(task[r], run[r])
    /\ \A u \in Clients : request[u].op = "retry" => Blank(run[request[u].run])

LEMMA NextTypeIsTodo ==
    ASSUME NEW todo \in SUBSET DataTypes, todo # {}
    PROVE  NextType(todo) \in todo
BY DEF NextType, DataTypes

\* A run that has only just been recorded has nothing to disagree with.
LEMMA RunningAgrees ==
    ASSUME NEW c \in Configs \cup {NoConfig}
    PROVE  Blank(RunningRow(c)) /\ Matches(RunningRow(c))
BY DEF RunningRow, Blank, Matches

\* Nothing is known of a run while no coroutine collects for it.
LEMMA QuietAgrees ==
    ASSUME NEW t, NEW x, Matches(x),
           t.pc \notin {"called", "admitted", "collecting", "finalizing"}
    PROVE  Agrees(t, x)
BY DEF Agrees

LEMMA AdmitAgrees ==
    ASSUME IInv, TypesInv, NEW r \in Runs, Admit(r)
    PROVE  Agrees(task'[r], run'[r])
<1>. DEFINE t == [task[r] EXCEPT !.pc = "admitted"]
<1>1. task' = [task EXCEPT ![r] = t]  BY DEF Admit, Goes
<1>2. task[r] \in Task /\ task'[r] = t  BY <1>1 DEF IInv, TypeOK
<1>3. /\ t.pc = "admitted" /\ t.done = task[r].done
      /\ t.success = task[r].success /\ t.error = task[r].error
  BY <1>2 DEF Task
<1>. HIDE DEF t
<1>4. task[r].done = {} /\ task[r].success = {} /\ task[r].error = {}
      /\ Matches(run[r]) /\ (task[r].scheduled \/ Blank(run[r]))
  BY DEF Admit, TypesInv, Agrees
<1>5. Blank(run'[r]) /\ Matches(run'[r])
  <2>1. CASE task[r].scheduled
    <3>1. task[r].config \in Configs  BY DEF Admit, IInv, TaskInv
    <3>2. run'[r] = RunningRow(task[r].config)
      BY <2>1 DEF Admit, IInv, TypeOK
    <3>. QED  BY <3>1, <3>2, RunningAgrees
  <2>2. CASE ~task[r].scheduled  BY <1>4, <2>2 DEF Admit
  <2>. QED  BY <2>1, <2>2
<1>. QED  BY <1>2, <1>3, <1>4, <1>5 DEF Agrees

LEMMA ReloadAgrees ==
    ASSUME IInv, TypesInv, NEW r \in Runs, Reload(r)
    PROVE  Agrees(task'[r], run'[r])
<1>1. /\ task[r].pc = "admitted" /\ run' = run /\ Matches(run[r]) /\ Blank(run[r])
      /\ task[r].done = {} /\ task[r].success = {} /\ task[r].error = {}
  BY DEF Reload, TypesInv, Agrees
<1>2. CASE Stored(task[r].config)
  <2>. DEFINE t == [task[r] EXCEPT !.pc = "collecting",
                                   !.collect = row[task[r].config].collect]
  <2>1. task' = [task EXCEPT ![r] = t]  BY <1>2 DEF Reload
  <2>2. task[r] \in Task /\ task'[r] = t  BY <2>1 DEF IInv, TypeOK
  <2>3. t.pc = "collecting" /\ t.done = {} /\ t.success = {} /\ t.error = {}
    BY <1>1, <2>2 DEF Task
  <2>. HIDE DEF t
  <2>4. Tallied(t, run[r])  BY <1>1, <2>3 DEF Tallied, Blank
  <2>. QED  BY <1>1, <2>2, <2>3, <2>4 DEF Agrees
<1>3. CASE ~Stored(task[r].config)
  <2>1. TaskEnded(r)  BY <1>3, EndsEffect DEF Reload, IInv, TypeOK
  <2>. QED  BY <1>1, <2>1, QuietAgrees DEF TaskEnded
<1>. QED  BY <1>2, <1>3

LEMMA CollectAgrees ==
    ASSUME IInv, TypesInv, NEW r \in Runs, Collect(r)
    PROVE  Agrees(task'[r], run'[r])
<1>. DEFINE d == NextType(Todo(r))
<1>1. task[r] \in Task /\ run[r] \in RunRow  BY DEF IInv, TypeOK
<1>2. d \in DataTypes /\ d \notin task[r].done
  <2>1. Todo(r) \in SUBSET DataTypes  BY <1>1 DEF Todo, Task
  <2>2. d \in Todo(r)  BY <2>1, NextTypeIsTodo DEF Collect
  <2>. QED  BY <2>1, <2>2 DEF Todo
<1>3. PICK outcome : Record(r, d, outcome) /\ outcome \in CollectOutcomes
  BY DEF Collect
<1>. HIDE DEF d
<1>. DEFINE t == [task[r] EXCEPT
                    !.done = @ \cup {d},
                    !.success = IF outcome \in {"ok", "unstored"}
                                THEN @ \cup {d} ELSE @,
                    !.error = IF outcome \in {"error", "unstored"}
                              THEN @ \cup {d} ELSE @]
            types == [run[r].types EXCEPT ![d] =
                        IF outcome = "ok" THEN "completed"
                        ELSE IF outcome = "silent" THEN "silent" ELSE "failed"]
            x == [run[r] EXCEPT !.types = types]
<1>4. task' = [task EXCEPT ![r] = t] /\ run' = [run EXCEPT ![r] = x]
  BY <1>3 DEF Record
<1>5. task'[r] = t /\ run'[r] = x  BY <1>4 DEF IInv, TypeOK
<1>6. /\ t.pc = "collecting" /\ t.done = task[r].done \cup {d}
      /\ t.success = IF outcome \in {"ok", "unstored"}
                     THEN task[r].success \cup {d} ELSE task[r].success
      /\ t.error = IF outcome \in {"error", "unstored"}
                   THEN task[r].error \cup {d} ELSE task[r].error
  BY <1>1 DEF Task, Collect
<1>7. /\ types[d] = IF outcome = "ok" THEN "completed"
                    ELSE IF outcome = "silent" THEN "silent" ELSE "failed"
      /\ \A e \in DataTypes \ {d} : types[e] = run[r].types[e]
  BY <1>1, <1>2 DEF RunRow
<1>. HIDE DEF t, types
<1>8. x.types = types /\ x.status = run[r].status /\ x.critical = run[r].critical
  BY <1>1 DEF RunRow
<1>. HIDE DEF x
<1>9. Tallied(task[r], run[r]) /\ task[r].error \in SUBSET DataTypes
  BY <1>1 DEF Collect, TypesInv, Agrees, Task
<1>10. run[r].status = "running"
  BY DEF Collect, IInv, TaskInv, Collecting, Unrecorded
<1>11. Tallied(t, x)
  <2>1. t.error \subseteq t.done  BY <1>6, <1>9 DEF Tallied
  <2>2. ASSUME NEW e \in DataTypes PROVE x.types[e] = "failed" <=> e \in t.error
    <3>1. CASE e = d
      <4>1. d \notin task[r].error  BY <1>2, <1>9 DEF Tallied
      <4>2. outcome \in {"ok", "error", "silent", "unstored"}
        BY <1>3 DEF CollectOutcomes
      <4>. QED  BY <1>6, <1>7, <1>8, <3>1, <4>1, <4>2
    <3>2. CASE e # d
      <4>1. x.types[e] = run[r].types[e]  BY <1>7, <1>8, <3>2
      <4>2. e \in t.error <=> e \in task[r].error  BY <1>6, <3>2
      <4>. QED  BY <1>9, <4>1, <4>2 DEF Tallied
    <3>. QED  BY <3>1, <3>2
  <2>3. ASSUME NEW e \in DataTypes, x.types[e] = "completed" PROVE e \in t.success
    <3>1. CASE e = d  BY <1>6, <1>7, <1>8, <2>3, <3>1
    <3>2. CASE e # d
      <4>1. run[r].types[e] = "completed"  BY <1>7, <1>8, <2>3, <3>2
      <4>2. e \in task[r].success  BY <1>9, <4>1 DEF Tallied
      <4>. QED  BY <1>6, <4>2
    <3>. QED  BY <3>1, <3>2
  <2>. QED  BY <2>1, <2>2, <2>3 DEF Tallied
<1>12. Matches(x)  BY <1>8, <1>10 DEF Matches
<1>. QED  BY <1>5, <1>6, <1>11, <1>12 DEF Agrees

\* A step that moves a coroutine on with the locals it has.
LEMMA GoesOnAgrees ==
    ASSUME IInv, TypesInv, NEW r \in Runs, NEW pc \in {"finalizing", "failing"},
           NEW config, GoesWith(r, pc, config), run' = run,
           task[r].pc \in {"collecting", "finalizing"}
    PROVE  Agrees(task'[r], run'[r])
<1>. DEFINE t == [task[r] EXCEPT !.pc = pc, !.old = config]
<1>1. task' = [task EXCEPT ![r] = t]  BY DEF GoesWith
<1>2. task[r] \in Task /\ task'[r] = t  BY <1>1 DEF IInv, TypeOK
<1>3. /\ t.pc = pc /\ t.done = task[r].done
      /\ t.success = task[r].success /\ t.error = task[r].error
  BY <1>2 DEF Task
<1>. HIDE DEF t
<1>4. Tallied(task[r], run[r]) /\ Matches(run[r])  BY DEF TypesInv, Agrees
<1>. QED  BY <1>2, <1>3, <1>4 DEF Agrees, Tallied

\* The closing session computes the status from the tally.
LEMMA FinalizeAgrees ==
    ASSUME IInv, TypesInv, NEW r \in Runs, FinalizeCommit(r)
    PROVE  Agrees(task'[r], run'[r])
<1>1. /\ Tallied(task[r], run[r]) /\ Matches(run[r])
      /\ task[r] \in Task /\ run[r] \in RunRow
  BY DEF FinalizeCommit, TypesInv, Agrees, IInv, TypeOK
<1>2. task'[r].pc \in {"none", "unscheduling"}
  BY EndsEffect, GoesEffect
     DEF FinalizeCommit, IInv, TypeOK, TaskEnded, TaskMoved, TaskPC
<1>3. CASE ~Stored(task[r].config)
  <2>1. run' = run  BY <1>3 DEF FinalizeCommit
  <2>. QED  BY <1>1, <1>2, <2>1, QuietAgrees
<1>4. CASE Stored(task[r].config)
  <2>. DEFINE status == FinalStatus(task[r])
              x == [run[r] EXCEPT !.status = status, !.critical = FALSE]
  <2>1. run' = [run EXCEPT ![r] = x]  BY <1>4 DEF FinalizeCommit, Close
  <2>2. run'[r] = x  BY <2>1 DEF IInv, TypeOK
  <2>3. x.status = status /\ x.types = run[r].types  BY <1>1 DEF RunRow
  <2>. HIDE DEF x
  <2>4. ASSUME status = "partial"
        PROVE  \E d \in DataTypes : run[r].types[d] = "failed"
    <3>1. task[r].error # {} /\ task[r].error \subseteq DataTypes
      BY <1>1, <2>4 DEF FinalStatus, Task
    <3>. QED  BY <1>1, <3>1 DEF Tallied
  <2>5. ASSUME status = "failed"
        PROVE  /\ \E d \in DataTypes : run[r].types[d] = "failed"
               /\ \A d \in DataTypes : run[r].types[d] # "completed"
    <3>1. task[r].success = {} /\ task[r].error # {} /\ task[r].error \subseteq DataTypes
      BY <1>1, <2>5 DEF FinalStatus, Task
    <3>. QED  BY <1>1, <3>1 DEF Tallied
  <2>6. ASSUME status = "completed"
        PROVE  \A d \in DataTypes : run[r].types[d] # "failed"
    <3>1. task[r].error = {}  BY <2>6 DEF FinalStatus
    <3>. QED  BY <1>1, <3>1 DEF Tallied
  <2>. HIDE DEF status
  <2>7. Matches(x)  BY <2>3, <2>4, <2>5, <2>6 DEF Matches
  <2>. QED  BY <1>2, <2>2, <2>7, QuietAgrees
<1>. QED  BY <1>3, <1>4

LEMMA CriticalAgrees ==
    ASSUME IInv, TypesInv, NEW r \in Runs, CriticalCommit(r)
    PROVE  Agrees(task'[r], run'[r])
<1>1. Matches(run[r]) /\ run[r] \in RunRow  BY DEF TypesInv, Agrees, IInv, TypeOK
<1>2. task'[r].pc \in {"none", "unscheduling", "rechecking"}
  BY EndsEffect, GoesEffect
     DEF CriticalCommit, IInv, TypeOK, TaskEnded, TaskMoved, TaskPC
<1>3. CASE ~Stored(task[r].config)
  <2>1. run' = run  BY <1>3 DEF CriticalCommit
  <2>. QED  BY <1>1, <1>2, <2>1, QuietAgrees
<1>4. CASE Stored(task[r].config)
  <2>. DEFINE x == [run[r] EXCEPT !.status = "failed", !.critical = TRUE]
  <2>1. run' = [run EXCEPT ![r] = x]  BY <1>4 DEF CriticalCommit, Close
  <2>2. run'[r] = x  BY <2>1 DEF IInv, TypeOK
  <2>3. x.status = "failed" /\ x.critical = TRUE  BY <1>1 DEF RunRow
  <2>4. Matches(x)  BY <2>3 DEF Matches
  <2>. QED  BY <1>2, <2>2, <2>4, QuietAgrees
<1>. QED  BY <1>3, <1>4

LEMMA ExecutorAgrees ==
    ASSUME IInv, TypesInv, NEW r \in Runs, ExecutorStep(r)
    PROVE  TypesInv'
<1>1. ExecutorEffect(r)  BY ExecutorStepEffect DEF IInv
<1>2. Agrees(task'[r], run'[r])
  <2>1. CASE Admit(r)  BY <2>1, AdmitAgrees
  <2>2. CASE Reload(r)  BY <2>2, ReloadAgrees
  <2>3. CASE Collect(r)  BY <2>3, CollectAgrees
  <2>4. CASE FinalizeRead(r)
    BY <2>4, GoesOnAgrees DEF FinalizeRead
  <2>5. CASE FinalizeCommit(r)  BY <2>5, FinalizeAgrees
  <2>6. CASE CriticalRead(r) /\ Stored(task[r].config)
    BY <2>6, GoesOnAgrees DEF CriticalRead
  <2>7. CASE CriticalCommit(r)  BY <2>7, CriticalAgrees
  <2>8. CASE Ends(r) /\ run' = run
    <3>1. TaskEnded(r)  BY <2>8, EndsEffect DEF IInv, TypeOK
    <3>2. Matches(run'[r])  BY <2>8 DEF TypesInv, Agrees
    <3>. QED  BY <3>1, <3>2, QuietAgrees DEF TaskEnded
  <2>9. CASE Lose(r)
    <3>1. task'[r].pc = "lost"  BY <2>9 DEF Lose, NoTask, IInv, TypeOK
    <3>2. Matches(run'[r])  BY <2>9 DEF Lose, TypesInv, Agrees
    <3>. QED  BY <3>1, <3>2, QuietAgrees
  <2>. QED
    BY <2>1, <2>2, <2>3, <2>4, <2>5, <2>6, <2>7, <2>8, <2>9
       DEF ExecutorStep, Skip, Vanish, CriticalRead, Unschedule, Recheck
<1>3. ASSUME NEW q \in Runs PROVE Agrees(task'[q], run'[q])
  BY <1>1, <1>2 DEF TypesInv, ExecutorEffect, ExecutorFrame, OthersKept
<1>4. ASSUME NEW u \in Clients, request'[u].op = "retry"
      PROVE  Blank(run'[request'[u].run])
  <2>1. request'[u] = request[u] /\ task[r].pc # "none"
    BY <1>1 DEF ExecutorEffect, ExecutorFrame
  <2>2. request[u].run \in Runs \ {r}
    BY <1>4, <2>1 DEF IInv, RequestInv
  <2>3. run'[request[u].run] = run[request[u].run]
    BY <1>1, <2>2 DEF ExecutorEffect, ExecutorFrame, OthersKept
  <2>. QED  BY <1>4, <2>1, <2>3 DEF TypesInv
<1>. QED  BY <1>3, <1>4 DEF TypesInv

\* A coroutine started on a run with nothing collected yet.
LEMMA CalledAgrees ==
    ASSUME IInv, NEW r \in Runs, NEW c \in Configs \cup {NoConfig},
           NEW scheduled \in BOOLEAN,
           task' = [task EXCEPT ![r] = Called(c, scheduled)],
           Matches(run'[r]), scheduled \/ Blank(run'[r])
    PROVE  Agrees(task'[r], run'[r])
<1>1. task'[r] = Called(c, scheduled)  BY DEF IInv, TypeOK
<1>2. /\ Called(c, scheduled).pc = "called"
      /\ Called(c, scheduled).scheduled = scheduled
      /\ Called(c, scheduled).done = {} /\ Called(c, scheduled).success = {}
      /\ Called(c, scheduled).error = {}
  BY DEF Called, NoTask
<1>. QED  BY <1>1, <1>2 DEF Agrees

LEMMA FireAgrees ==
    ASSUME IInv, TypesInv, NEW c \in Configs, Fire(c)
    PROVE  TypesInv'
<1>1. PICK r \in Runs : Fresh(r) /\ task' = [task EXCEPT ![r] = Called(c, TRUE)]
  BY DEF Fire
<1>2. run' = run /\ request' = request  BY DEF Fire
<1>3. Agrees(task'[r], run'[r])
  <2>1. Matches(run'[r]) /\ c \in Configs \cup {NoConfig} /\ TRUE \in BOOLEAN
    BY <1>2 DEF TypesInv, Agrees
  <2>. QED  BY <1>1, <2>1, CalledAgrees
<1>4. \A q \in Runs \ {r} : task'[q] = task[q]  BY <1>1 DEF IInv, TypeOK
<1>. QED  BY <1>2, <1>3, <1>4 DEF TypesInv

\* Recording a fresh run does not touch the run of an open retry.
LEMMA RecordingKeepsBlank ==
    ASSUME IInv, TypesInv, NEW r \in Runs, Fresh(r),
           NEW c \in Configs \cup {NoConfig},
           run' = [run EXCEPT ![r] = RunningRow(c)]
    PROVE  /\ Blank(run'[r]) /\ Matches(run'[r])
           /\ \A q \in Runs \ {r} : run'[q] = run[q]
           /\ \A u \in Clients : request[u].op = "retry" =>
                Blank(run'[request[u].run])
<1>1. run'[r] = RunningRow(c) /\ \A q \in Runs \ {r} : run'[q] = run[q]
  BY DEF IInv, TypeOK
<1>2. ASSUME NEW u \in Clients, request[u].op = "retry"
      PROVE  Blank(run'[request[u].run])
  <2>1. request[u].run \in Runs \ {r}
    BY <1>2 DEF IInv, RequestInv, Fresh
  <2>. QED  BY <1>1, <1>2, <2>1 DEF TypesInv
<1>. QED  BY <1>1, <1>2, RunningAgrees

LEMMA TriggerAgrees ==
    ASSUME IInv, TypesInv, NEW c \in Configs, trigger_scheduler_manual(c)
    PROVE  TypesInv'
<1>1. PICK r \in Runs :
        /\ Fresh(r)
        /\ run' = [run EXCEPT ![r] = RunningRow(c)]
        /\ task' = [task EXCEPT ![r] = Called(c, FALSE)]
  BY DEF trigger_scheduler_manual
<1>2. request' = request  BY DEF trigger_scheduler_manual
<1>3. /\ Blank(run'[r]) /\ Matches(run'[r])
      /\ \A q \in Runs \ {r} : run'[q] = run[q]
      /\ \A u \in Clients : request[u].op = "retry" => Blank(run'[request[u].run])
  BY <1>1, RecordingKeepsBlank
<1>4. Agrees(task'[r], run'[r])
  <2>1. FALSE \in BOOLEAN  OBVIOUS
  <2>. QED  BY <1>1, <1>3, <2>1, CalledAgrees
<1>5. \A q \in Runs \ {r} : task'[q] = task[q]  BY <1>1 DEF IInv, TypeOK
<1>. QED  BY <1>2, <1>3, <1>4, <1>5 DEF TypesInv

LEMMA RetryAgrees ==
    ASSUME IInv, TypesInv, NEW u \in Clients, NEW d \in Runs,
           retry_dead_letter_job(u, d)
    PROVE  TypesInv'
<1>. DEFINE c == run[d].config
<1>1. c \in Configs \cup {NoConfig} /\ task' = task
  BY DEF IInv, TypeOK, RunRow, retry_dead_letter_job
<1>2. PICK r \in Runs :
        /\ Fresh(r)
        /\ run' = [run EXCEPT ![r] = RunningRow(c)]
        /\ request' = [request EXCEPT ![u] =
             [Idle EXCEPT !.op = "retry", !.config = c, !.dead = d,
                          !.was = dlq[d], !.run = r]]
  BY DEF retry_dead_letter_job
<1>. HIDE DEF c
<1>3. /\ Blank(run'[r]) /\ Matches(run'[r])
      /\ \A q \in Runs \ {r} : run'[q] = run[q]
      /\ \A v \in Clients : request[v].op = "retry" => Blank(run'[request[v].run])
  BY <1>1, <1>2, RecordingKeepsBlank
<1>4. Agrees(task'[r], run'[r])
  <2>1. task'[r].pc = "none"  BY <1>1, <1>2 DEF Fresh
  <2>. QED  BY <1>3, <2>1, QuietAgrees
<1>5. /\ \A v \in Clients \ {u} : request'[v] = request[v]
      /\ request'[u].run = r
  BY <1>2 DEF IInv, TypeOK, Idle
<1>6. ASSUME NEW v \in Clients, request'[v].op = "retry"
      PROVE  Blank(run'[request'[v].run])
  BY <1>3, <1>5, <1>6
<1>. QED  BY <1>1, <1>3, <1>4, <1>6 DEF TypesInv

LEMMA EndRetryAgrees ==
    ASSUME IInv, TypesInv, NEW u \in Clients, EndRetry(u)
    PROVE  TypesInv'
<1>. DEFINE q == request[u].run
<1>1. /\ q \in Runs /\ request[u].config \in Configs
      /\ run' = run /\ Blank(run'[q]) /\ Matches(run'[q])
      /\ task' = [task EXCEPT ![q] = Called(request[u].config, FALSE)]
  BY DEF EndRetry, IInv, RequestInv, TypesInv, Agrees
<1>2. Agrees(task'[q], run'[q])
  <2>1. FALSE \in BOOLEAN /\ request[u].config \in Configs \cup {NoConfig}
    BY <1>1
  <2>. QED  BY <1>1, <2>1, CalledAgrees
<1>3. \A r \in Runs \ {q} : task'[r] = task[r]  BY <1>1 DEF IInv, TypeOK
<1>4. \A v \in Clients : request'[v] = request[v] \/ request'[v].op = "idle"
  BY DEF EndRetry, Closed, Idle, IInv, TypeOK
<1>. QED  BY <1>1, <1>2, <1>3, <1>4 DEF TypesInv

\* The cascade changes nothing about a run but that it is gone.
LEMMA CommitDeleteAgrees ==
    ASSUME IInv, TypesInv, NEW u \in Clients, CommitDelete(u)
    PROVE  TypesInv'
<1>1. ASSUME NEW r \in Runs
      PROVE  /\ run'[r].types = run[r].types
             /\ run'[r] = run[r] \/ run'[r].status = "deleted"
  <2>1. run[r] \in RunRow  BY DEF IInv, TypeOK
  <2>2. \/ run'[r] = run[r]
        \/ run'[r] = [run[r] EXCEPT !.status = "deleted"]
    BY DEF CommitDelete
  <2>. QED  BY <2>1, <2>2 DEF RunRow
<1>2. task' = task
      /\ \A v \in Clients : request'[v] = request[v] \/ request'[v].op = "idle"
  BY DEF CommitDelete, Closed, Idle, IInv, TypeOK
<1>3. ASSUME NEW r \in Runs PROVE Agrees(task'[r], run'[r])
  <2>1. Agrees(task[r], run[r])  BY DEF TypesInv
  <2>2. CASE run'[r] = run[r]  BY <1>2, <2>1, <2>2
  <2>3. CASE run'[r].status = "deleted"
    <3>1. Matches(run'[r])  BY <2>3 DEF Matches
    <3>2. Blank(run[r]) => Blank(run'[r])  BY <1>1 DEF Blank
    <3>3. Tallied(task[r], run[r]) => Tallied(task[r], run'[r])
      BY <1>1 DEF Tallied
    <3>. QED  BY <1>2, <2>1, <3>1, <3>2, <3>3 DEF Agrees
  <2>. QED  BY <1>1, <2>2, <2>3
<1>4. ASSUME NEW v \in Clients, request'[v].op = "retry"
      PROVE  Blank(run'[request'[v].run])
  <2>1. request'[v] = request[v]  BY <1>2, <1>4
  <2>2. request[v].run \in Runs /\ Blank(run[request[v].run])
    BY <1>4, <2>1 DEF IInv, RequestInv, TypesInv
  <2>. QED  BY <1>1, <2>1, <2>2 DEF Blank
<1>. QED  BY <1>3, <1>4 DEF TypesInv

LEMMA OpenedAgrees ==
    ASSUME TypesInv, run' = run, task' = task,
           \A v \in Clients : request'[v] = request[v] \/ request'[v].op # "retry"
    PROVE  TypesInv'
BY DEF TypesInv

LEMMA RequestAgrees ==
    ASSUME IInv, TypesInv, NEW u \in Clients, RequestStep(u)
    PROVE  TypesInv'
<1>1. CASE EndRetry(u)  BY <1>1, EndRetryAgrees
<1>2. CASE CommitDelete(u)  BY <1>2, CommitDeleteAgrees
<1>3. ASSUME NEW d \in Runs, retry_dead_letter_job(u, d) PROVE TypesInv'
  BY <1>3, RetryAgrees
<1>4. ASSUME NEW d \in Runs, abandon_dead_letter_job(u, d) PROVE TypesInv'
  BY <1>4, OpenedAgrees DEF abandon_dead_letter_job
<1>5. CASE /\ run' = run /\ task' = task
           /\ RequestSet(u, request'[u])
           /\ request'[u] = request[u] \/ request'[u].op # "retry"
  BY <1>5, OpenedAgrees DEF RequestSet
<1>6. ASSUME NEW c \in Configs, NEW new \in Row, Changed(u, c, new)
      PROVE  /\ RequestSet(u, request'[u])
             /\ request'[u] = request[u] \/ request'[u].op # "retry"
  BY <1>6 DEF Changed
<1>7. ASSUME Closed(u)
      PROVE  RequestSet(u, request'[u]) /\ request'[u].op # "retry"
  BY <1>7, ClosedEffect DEF IInv, RequestSet
<1>8. CASE create_scheduler_config(u)
  <2>1. RequestSet(u, request'[u]) /\ request'[u].op = "create"
    BY <1>8, CreateOpens DEF IInv
  <2>. QED  BY <1>5, <1>8, <2>1 DEF create_scheduler_config
<1>9. ASSUME NEW c \in Configs, update_scheduler_config(u, c) PROVE TypesInv'
  <2>1. PICK new \in Row : Changed(u, c, new)  BY <1>9, UpdateOpens DEF IInv
  <2>. QED  BY <1>5, <1>6, <1>9, <2>1 DEF update_scheduler_config
<1>10. ASSUME NEW c \in Configs, NEW e \in BOOLEAN, toggle_scheduler(u, c, e)
       PROVE  TypesInv'
  <2>1. PICK new \in Row : Changed(u, c, new)  BY <1>10, ToggleOpens DEF IInv
  <2>. QED  BY <1>5, <1>6, <1>10, <2>1 DEF toggle_scheduler
<1>11. ASSUME NEW c \in Configs, delete_scheduler_config(u, c) PROVE TypesInv'
  <2>1. RequestSet(u, request'[u]) /\ request'[u].op = "delete"
    BY <1>11, DeleteOpens DEF IInv
  <2>. QED  BY <1>5, <1>11, <2>1 DEF delete_scheduler_config
<1>12. CASE CommitCreate(u) \/ CommitUpdate(u) \/ Rollback(u)
  BY <1>5, <1>7, <1>12 DEF CommitCreate, CommitUpdate, Rollback
<1>. QED
  BY <1>1, <1>2, <1>3, <1>4, <1>8, <1>9, <1>10, <1>11, <1>12 DEF RequestStep

LEMMA NextAgrees == IInv /\ TypesInv /\ [Next]_vars => TypesInv'
<1>. SUFFICES ASSUME IInv, TypesInv, [Next]_vars PROVE TypesInv'  OBVIOUS
<1>1. CASE Crash
  <2>1. ASSUME NEW r \in Runs PROVE Agrees(task'[r], run'[r])
    <3>1. task'[r].pc = "none" /\ run'[r] = run[r]  BY <1>1 DEF Crash, NoTask
    <3>2. Matches(run'[r])  BY <3>1 DEF TypesInv, Agrees
    <3>. QED  BY <3>1, <3>2, QuietAgrees
  <2>2. \A u \in Clients : request'[u].op # "retry"  BY <1>1 DEF Crash, Idle
  <2>. QED  BY <2>1, <2>2 DEF TypesInv
<1>2. CASE UNCHANGED <<run, task, request>>  BY <1>2, OpenedAgrees
<1>. QED
  BY <1>1, <1>2, ExecutorAgrees, RequestAgrees, FireAgrees, TriggerAgrees
     DEF Next, StartDatePasses, EndDatePasses, Restart, vars

\* The status of a settled run agrees with the statuses of its data types,
\* although it is computed from the locals of a coroutine and saving a result
\* may fail half-way (executor.py:205-381).
THEOREM StatusMatchesTypes == Spec => []RunStatusMatchesTypes
<1>1. Init => TypesInv
  <2>. SUFFICES ASSUME Init PROVE TypesInv  OBVIOUS
  <2>1. \A r \in Runs : task[r].pc = "none" /\ run[r].status = "absent"
    BY DEF Init, NoTask, RunningRow
  <2>2. \A r \in Runs : Agrees(task[r], run[r])
    BY <2>1 DEF Agrees, Matches
  <2>3. \A u \in Clients : request[u].op # "retry"  BY DEF Init, Idle
  <2>. QED  BY <2>2, <2>3 DEF TypesInv
<1>2. TypesInv => RunStatusMatchesTypes
  BY DEF TypesInv, Agrees, Matches, RunStatusMatchesTypes
<1>. QED  BY <1>1, <1>2, NextAgrees, SchedulerInvariant, PTL DEF Spec

-----------------------------------------------------------------------------
(* The counter of a config never runs ahead of its failed runs.            *)

Closing(t) == t.pc \in {"finalizing", "failing"}

\* Neither the counter nor what an open coroutine read of it exceeds the
\* failed runs, and no request raises it.
CountInv ==
    /\ \A c \in Configs : Stored(c) =>
         row[c].consecutive_failures <= Cardinality(FailedRuns(c))
    /\ \A r \in Runs, c \in Configs :
         Closing(task[r]) /\ task[r].config = c /\ Stored(c) =>
           task[r].old.consecutive_failures <= Cardinality(FailedRuns(c))
    /\ \A u \in Clients :
         /\ request[u].op = "create" => request[u].new.consecutive_failures = 0
         /\ request[u].op = "update" =>
              request[u].new.consecutive_failures
                \in {request[u].old.consecutive_failures, 0}

LEMMA FailedAreFinite ==
    ASSUME NEW c
    PROVE  /\ IsFiniteSet(FailedRuns(c)) /\ Cardinality(FailedRuns(c)) \in Nat
           /\ IsFiniteSet(FailedRuns(c)') /\ Cardinality(FailedRuns(c)') \in Nat
BY SchedulerAssumption, FS_Subset, FS_CardinalityType DEF FailedRuns

LEMMA FailuresGrow ==
    ASSUME NEW c, FailedRuns(c) \subseteq FailedRuns(c)'
    PROVE  Cardinality(FailedRuns(c)) <= Cardinality(FailedRuns(c)')
BY FailedAreFinite, FS_Subset

LEMMA FailureAdded ==
    ASSUME NEW c, NEW r \in FailedRuns(c)', r \notin FailedRuns(c),
           FailedRuns(c) \subseteq FailedRuns(c)'
    PROVE  Cardinality(FailedRuns(c)) + 1 <= Cardinality(FailedRuns(c)')
<1>1. Cardinality(FailedRuns(c) \cup {r}) = Cardinality(FailedRuns(c)) + 1
  BY FailedAreFinite, FS_AddElement
<1>2. FailedRuns(c) \cup {r} \subseteq FailedRuns(c)'  OBVIOUS
<1>3. Cardinality(FailedRuns(c) \cup {r}) <= Cardinality(FailedRuns(c)')
  BY <1>2, FailedAreFinite, FS_Subset
<1>. QED  BY <1>1, <1>3

\* The executor never takes back a failure.
LEMMA ExecutorKeepsFailures ==
    ASSUME IInv, NEW r \in Runs, ExecutorEffect(r), NEW c \in Configs
    PROVE  FailedRuns(c) \subseteq FailedRuns(c)'
<1>. SUFFICES ASSUME NEW q \in FailedRuns(c) PROVE q \in FailedRuns(c)'
  OBVIOUS
<1>1. q \in Runs /\ run[q].status = "failed" /\ run[q].config = c
  BY DEF FailedRuns
<1>2. CASE q # r
  BY <1>1, <1>2 DEF ExecutorEffect, ExecutorFrame, OthersKept, FailedRuns
<1>3. CASE q = r
  <2>1. ~Unrecorded(r) /\ ~Collecting(r)
    BY <1>1, <1>3 DEF ExecutorEffect, ExecutorFrame, IInv, TaskInv
  <2>2. WorksOnRun(r)  BY <2>1 DEF ExecutorEffect, RecordsRun, SettlesRun
  <2>. QED  BY <1>1, <1>3, <2>2 DEF WorksOnRun, FailedRuns
<1>. QED  BY <1>2, <1>3

\* A closing session that read a counter within bounds leaves it there: it
\* writes one more only with the failure it counts.
LEMMA CloseCounts ==
    ASSUME IInv, CountInv, NEW r \in Runs, NEW status \in Settled,
           NEW critical \in BOOLEAN, Close(r, status, critical),
           NEW k, k = task[r].config,
           Closing(task[r]), Stored(k), ExecutorEffect(r)
    PROVE  \A c \in Configs : Stored(c) =>
             row'[c].consecutive_failures <= Cardinality(FailedRuns(c)')
<1>. DEFINE old == task[r].old
            new == Counted(old, status)
            flushed == Flushed(row[k], old, new)
<1>1. /\ k \in Configs /\ old \in Row /\ row[k] \in Row
      /\ run[r].config = k /\ run[r].status \in {"running", "deleted"}
  BY DEF IInv, TypeOK, TaskInv, Task, Closing, Collecting, Unrecorded
<1>2. run[r].status = "running"  BY <1>1 DEF IInv, RunInv, Stored
<1>3. row' = [row EXCEPT ![k] = flushed]  BY DEF Close
<1>4. /\ new.consecutive_failures =
           IF status = "failed" THEN old.consecutive_failures + 1 ELSE 0
      /\ new \in Row
  BY <1>1, CountedType DEF Counted, Row
<1>5. flushed.consecutive_failures =
        IF new.consecutive_failures # old.consecutive_failures
        THEN new.consecutive_failures ELSE row[k].consecutive_failures
  BY <1>1, <1>4 DEF Flushed, Row
<1>6. /\ run'[r].status = status /\ run'[r].config = k
  BY <1>1, CloseEffect DEF IInv, TypeOK
<1>7. \A c \in Configs : FailedRuns(c) \subseteq FailedRuns(c)'
  BY ExecutorKeepsFailures
<1>8. old.consecutive_failures <= Cardinality(FailedRuns(k))
      /\ row[k].consecutive_failures <= Cardinality(FailedRuns(k))
  BY <1>1 DEF CountInv
<1>9. old.consecutive_failures \in Nat /\ row[k].consecutive_failures \in Nat
  BY <1>1 DEF Row
<1>10. Cardinality(FailedRuns(k)) <= Cardinality(FailedRuns(k)')
  BY <1>1, <1>7, FailuresGrow
<1>11. status = "failed" =>
         Cardinality(FailedRuns(k)) + 1 <= Cardinality(FailedRuns(k)')
  <2>. SUFFICES ASSUME status = "failed"
                PROVE  Cardinality(FailedRuns(k)) + 1 <= Cardinality(FailedRuns(k)')
    OBVIOUS
  <2>1. r \in FailedRuns(k)' /\ r \notin FailedRuns(k)
    BY <1>2, <1>6 DEF FailedRuns
  <2>2. FailedRuns(k) \subseteq FailedRuns(k)'  BY <1>1, <1>7
  <2>. QED  BY <2>1, <2>2, FailureAdded
<1>12. /\ Cardinality(FailedRuns(k)) \in Nat /\ Cardinality(FailedRuns(k)') \in Nat
  BY FailedAreFinite
<1>. HIDE DEF old, new, flushed
<1>13. flushed.consecutive_failures <= Cardinality(FailedRuns(k)')
  BY <1>4, <1>5, <1>8, <1>9, <1>10, <1>11, <1>12
<1>. SUFFICES ASSUME NEW c \in Configs, Stored(c)
              PROVE  row'[c].consecutive_failures <= Cardinality(FailedRuns(c)')
  OBVIOUS
<1>14. CASE c = k  BY <1>1, <1>3, <1>13, <1>14 DEF IInv, TypeOK
<1>15. CASE c # k
  <2>1. row'[c] = row[c] /\ row[c] \in Row
    BY <1>3, <1>15 DEF IInv, TypeOK
  <2>2. Cardinality(FailedRuns(c)) <= Cardinality(FailedRuns(c)')
    BY <1>7, FailuresGrow
  <2>3. row[c].consecutive_failures <= Cardinality(FailedRuns(c))
    BY DEF CountInv
  <2>. QED  BY <2>1, <2>2, <2>3, FailedAreFinite DEF Row
<1>. QED  BY <1>14, <1>15

\* What a coroutine reads for its closing session is the counter of its config.
LEMMA ReadsCounter ==
    ASSUME IInv, NEW r \in Runs, NEW pc, GoesWith(r, pc, row[task[r].config]),
           task[r].config \in Configs
    PROVE  task'[r].old = row[task[r].config] /\ task'[r].config = task[r].config
BY DEF GoesWith, IInv, TypeOK, Task

LEMMA ExecutorCounts ==
    ASSUME IInv, CountInv, NEW r \in Runs, ExecutorStep(r)
    PROVE  CountInv'
<1>1. ExecutorEffect(r)  BY ExecutorStepEffect DEF IInv
<1>2. /\ exists' = exists /\ request' = request
      /\ \A q \in Runs \ {r} : task'[q] = task[q]
      /\ task[r].config \in Configs
  BY <1>1 DEF ExecutorEffect, ExecutorFrame, OthersKept, IInv, TaskInv
<1>3. \A c \in Configs : Cardinality(FailedRuns(c)) <= Cardinality(FailedRuns(c)')
  BY <1>1, ExecutorKeepsFailures, FailuresGrow
<1>4. \A c \in Configs : Stored(c) =>
        row'[c].consecutive_failures <= Cardinality(FailedRuns(c)')
  <2>1. CASE row' = row
    <3>. SUFFICES ASSUME NEW c \in Configs, Stored(c)
                  PROVE  row[c].consecutive_failures <= Cardinality(FailedRuns(c)')
      BY <2>1
    <3>1. row[c].consecutive_failures <= Cardinality(FailedRuns(c))
          /\ row[c].consecutive_failures \in Nat
      BY DEF CountInv, IInv, TypeOK, Row
    <3>. QED  BY <1>3, <3>1, FailedAreFinite
  <2>2. CASE FinalizeCommit(r) /\ row' # row
    <3>1. /\ Stored(task[r].config) /\ Closing(task[r])
          /\ Close(r, FinalStatus(task[r]), FALSE)
      BY <2>2 DEF FinalizeCommit, Closing
    <3>2. FinalStatus(task[r]) \in Settled  BY DEF FinalStatus, Settled
    <3>3. ExecutorEffect(r)  BY <1>1
    <3>. QED  BY <3>1, <3>2, <3>3, CloseCounts
  <2>3. CASE CriticalCommit(r) /\ row' # row
    <3>1. /\ Stored(task[r].config) /\ Closing(task[r])
          /\ Close(r, "failed", TRUE)
      BY <2>3 DEF CriticalCommit, Closing
    <3>. QED  BY <1>1, <3>1, CloseCounts DEF Settled
  <2>. QED
    BY <2>1, <2>2, <2>3
       DEF ExecutorStep, Admit, Skip, Reload, Collect, Vanish, FinalizeRead,
           CriticalRead, Unschedule, Recheck, Lose
<1>5. Closing(task'[r]) =>
        /\ task'[r].config = task[r].config
        /\ task'[r].old = row[task[r].config]
  <2>1. CASE FinalizeRead(r)  BY <1>2, <2>1, ReadsCounter DEF FinalizeRead
  <2>2. CASE CriticalRead(r) /\ Stored(task[r].config)
    BY <1>2, <2>2, ReadsCounter DEF CriticalRead
  <2>3. CASE Ends(r)
    BY <2>3, EndsEffect DEF IInv, TypeOK, TaskEnded, Closing
  <2>4. ASSUME NEW pc \in {"admitted", "unscheduling", "rechecking"}, Goes(r, pc)
        PROVE  ~Closing(task'[r])
    BY <2>4, GoesEffect DEF IInv, TypeOK, TaskMoved, Closing, TaskPC
  <2>5. CASE Reload(r) /\ Stored(task[r].config)
    BY <2>5 DEF Reload, IInv, TypeOK, Task, Closing
  <2>6. CASE Collect(r)
    <3>1. PICK outcome : Record(r, NextType(Todo(r)), outcome)
      BY <2>6 DEF Collect
    <3>2. task'[r].pc = "collecting"
      BY <2>6, <3>1, RecordEffect, NextTypeType
         DEF Collect, IInv, TypeOK, TaskMoved
    <3>. QED  BY <3>2 DEF Closing
  <2>7. CASE Lose(r)  BY <2>7 DEF Lose, NoTask, Closing, IInv, TypeOK
  <2>. QED
    BY <2>1, <2>2, <2>3, <2>4, <2>5, <2>6, <2>7
       DEF ExecutorStep, Admit, Skip, Reload, Vanish, FinalizeCommit,
           CriticalRead, CriticalCommit, Unschedule, Recheck
<1>6. ASSUME NEW q \in Runs, NEW k \in Configs, Closing(task'[q]),
             task'[q].config = k, Stored(k)
      PROVE  task'[q].old.consecutive_failures <= Cardinality(FailedRuns(k)')
  <2>1. /\ task'[q].old.consecutive_failures \in Nat
        /\ task'[q].old.consecutive_failures <= Cardinality(FailedRuns(k))
    <3>1. CASE q = r
      BY <1>2, <1>5, <1>6, <3>1 DEF CountInv, Stored, IInv, TypeOK, Row
    <3>2. CASE q # r
      BY <1>2, <1>6, <3>2
         DEF CountInv, Stored, Closing, IInv, TypeOK, TaskInv, Task, Row
    <3>. QED  BY <3>1, <3>2
  <2>2. Cardinality(FailedRuns(k)) <= Cardinality(FailedRuns(k)')  BY <1>3, <2>1
  <2>3. /\ Cardinality(FailedRuns(k)) \in Nat /\ Cardinality(FailedRuns(k)') \in Nat
    BY FailedAreFinite
  <2>. QED  BY <2>1, <2>2, <2>3
<1>. QED  BY <1>2, <1>4, <1>6 DEF CountInv, Stored

\* A step outside the executor takes no failure back from a config that
\* stays, a counter it changes it sets to 0, and it opens no closing session.
KeepsCounter(c) ==
    /\ Stored(c) => FailedRuns(c) \subseteq FailedRuns(c)'
    /\ \/ row'[c].consecutive_failures = 0
       \/ /\ Stored(c)
          /\ row'[c].consecutive_failures = row[c].consecutive_failures

KeepsClosing(r, c) ==
    Closing(task'[r]) /\ task'[r].config = c => task'[r] = task[r] /\ Stored(c)

RaisesNothing(q) ==
    /\ q.op = "create" => q.new.consecutive_failures = 0
    /\ q.op = "update" =>
         q.new.consecutive_failures \in {q.old.consecutive_failures, 0}

LEMMA OthersCount ==
    ASSUME IInv, CountInv,
           \A c \in Configs : Stored(c)' => KeepsCounter(c),
           \A r \in Runs, c \in Configs : Stored(c)' => KeepsClosing(r, c),
           \A u \in Clients :
             request'[u] = request[u] \/ RaisesNothing(request'[u])
    PROVE  CountInv'
<1>1. ASSUME NEW c \in Configs, Stored(c)'
      PROVE  row'[c].consecutive_failures <= Cardinality(FailedRuns(c)')
  <2>1. CASE row'[c].consecutive_failures = 0
    BY <2>1, FailedAreFinite
  <2>2. CASE /\ Stored(c)
             /\ row'[c].consecutive_failures = row[c].consecutive_failures
    <3>1. Cardinality(FailedRuns(c)) <= Cardinality(FailedRuns(c)')
      BY <1>1, <2>2, FailuresGrow DEF KeepsCounter
    <3>2. row[c].consecutive_failures <= Cardinality(FailedRuns(c))
          /\ row[c].consecutive_failures \in Nat
      BY <2>2 DEF CountInv, IInv, TypeOK, Row
    <3>. QED  BY <2>2, <3>1, <3>2, FailedAreFinite
  <2>. QED  BY <1>1, <2>1, <2>2 DEF KeepsCounter
<1>2. ASSUME NEW r \in Runs, NEW k \in Configs, Closing(task'[r]),
             task'[r].config = k, Stored(k)'
      PROVE  task'[r].old.consecutive_failures <= Cardinality(FailedRuns(k)')
  <2>1. task'[r] = task[r] /\ Stored(k)  BY <1>2 DEF KeepsClosing
  <2>2. task[r].old.consecutive_failures \in Nat
    BY <1>2, <2>1 DEF Closing, IInv, TaskInv, TypeOK, Task, Row
  <2>3. task[r].old.consecutive_failures <= Cardinality(FailedRuns(k))
    BY <1>2, <2>1 DEF CountInv
  <2>4. Cardinality(FailedRuns(k)) <= Cardinality(FailedRuns(k)')
    BY <1>2, <2>1, FailuresGrow DEF KeepsCounter
  <2>5. /\ Cardinality(FailedRuns(k)) \in Nat /\ Cardinality(FailedRuns(k)') \in Nat
    BY FailedAreFinite
  <2>. QED  BY <2>1, <2>2, <2>3, <2>4, <2>5
<1>3. ASSUME NEW u \in Clients
      PROVE  /\ request'[u].op = "create" =>
                  request'[u].new.consecutive_failures = 0
             /\ request'[u].op = "update" =>
                  request'[u].new.consecutive_failures
                    \in {request'[u].old.consecutive_failures, 0}
  BY DEF CountInv, RaisesNothing
<1>. QED  BY <1>1, <1>2, <1>3 DEF CountInv

\* Most requests change neither runs nor coroutines.
LEMMA HandlerCounts ==
    ASSUME IInv, CountInv, NEW u \in Clients, run' = run, task' = task,
           RequestSet(u, request'[u]),
           request'[u] = request[u] \/ RaisesNothing(request'[u]),
           \A c \in Configs : Stored(c)' => Stored(c),
           \A c \in Configs : Stored(c)' =>
             \/ row'[c].consecutive_failures = 0
             \/ row'[c].consecutive_failures = row[c].consecutive_failures
    PROVE  CountInv'
<1>1. \A c \in Configs : Stored(c)' => KeepsCounter(c)
  BY DEF KeepsCounter, FailedRuns
<1>2. \A r \in Runs, c \in Configs : Stored(c)' => KeepsClosing(r, c)
  BY DEF KeepsClosing
<1>3. \A v \in Clients : request'[v] = request[v] \/ RaisesNothing(request'[v])
  BY DEF RequestSet
<1>. QED  BY <1>1, <1>2, <1>3, OthersCount

LEMMA ClosedCounts ==
    ASSUME TypeOK, NEW u \in Clients, Closed(u)
    PROVE  RequestSet(u, request'[u]) /\ RaisesNothing(request'[u])
BY ClosedEffect DEF RequestSet, RaisesNothing, Idle

LEMMA CommitCreateCounts ==
    ASSUME IInv, CountInv, NEW u \in Clients, CommitCreate(u)
    PROVE  CountInv'
<1>. DEFINE k == request[u].config
<1>1. /\ k \in Configs /\ exists[k] = "creating"
      /\ request[u].new.consecutive_failures = 0
  BY DEF CommitCreate, IInv, RequestInv, CountInv
<1>2. /\ exists' = [exists EXCEPT ![k] = "stored"]
      /\ row' = [row EXCEPT ![k] = request[u].new]
      /\ request' = [request EXCEPT ![u] = Idle]
      /\ run' = run /\ task' = task
  BY DEF CommitCreate, Closed
<1>. HIDE DEF k
<1>3. \A c \in Configs \ {k} : (Stored(c)' => Stored(c)) /\ row'[c] = row[c]
  BY <1>2 DEF Stored, IInv, TypeOK
<1>4. row'[k].consecutive_failures = 0 /\ ~Stored(k)
  BY <1>1, <1>2 DEF Stored, IInv, TypeOK
<1>5. \A c \in Configs : Stored(c)' => KeepsCounter(c)
  BY <1>2, <1>3, <1>4 DEF KeepsCounter, FailedRuns
<1>6. ASSUME NEW r \in Runs, NEW c \in Configs, Stored(c)'
      PROVE  KeepsClosing(r, c)
  <2>1. ~(Closing(task[r]) /\ task[r].config = k)
    BY <1>1, <1>4 DEF Closing, Unrecorded, Collecting, IInv, TaskInv, RunInv
  <2>. QED  BY <1>2, <1>3, <1>6, <2>1 DEF KeepsClosing
<1>7. \A v \in Clients : request'[v] = request[v] \/ RaisesNothing(request'[v])
  BY <1>2 DEF IInv, TypeOK, RaisesNothing, Idle
<1>. QED  BY <1>5, <1>6, <1>7, OthersCount

LEMMA CommitUpdateCounts ==
    ASSUME IInv, CountInv, NEW u \in Clients, CommitUpdate(u)
    PROVE  CountInv'
<1>. DEFINE k == request[u].config
            flushed == Flushed(row[k], request[u].old, request[u].new)
<1>1. /\ run' = run /\ task' = task /\ exists' = exists
      /\ request' = [request EXCEPT ![u] = Idle]
      /\ row' = row \/ row' = [row EXCEPT ![k] = flushed]
  BY DEF CommitUpdate, Closed
<1>2. k \in Configs /\ row[k] \in Row
  BY DEF CommitUpdate, IInv, RequestInv, TypeOK
<1>3. flushed.consecutive_failures \in {row[k].consecutive_failures, 0}
  BY <1>2 DEF Flushed, CommitUpdate, CountInv, Row
<1>. HIDE DEF k, flushed
<1>4. \A c \in Configs : \/ row'[c].consecutive_failures = 0
                         \/ row'[c].consecutive_failures = row[c].consecutive_failures
  BY <1>1, <1>2, <1>3 DEF IInv, TypeOK
<1>5. RequestSet(u, request'[u]) /\ RaisesNothing(request'[u])
  BY ClosedCounts DEF CommitUpdate, IInv
<1>. QED  BY <1>1, <1>4, <1>5, HandlerCounts DEF Stored

LEMMA CommitDeleteCounts ==
    ASSUME IInv, CountInv, NEW u \in Clients, CommitDelete(u)
    PROVE  CountInv'
<1>. DEFINE k == request[u].config
<1>1. /\ row' = row /\ task' = task
      /\ request' = [request EXCEPT ![u] = Idle]
      /\ k \in Configs
  BY DEF CommitDelete, Closed, IInv, RequestInv
<1>2. \/ exists' = exists /\ run' = run
      \/ /\ exists' = [exists EXCEPT ![k] = "deleted"]
         /\ run' = [r \in Runs |-> IF r \in RunsOf(k)
                      THEN [run[r] EXCEPT !.status = "deleted"] ELSE run[r]]
  BY DEF CommitDelete
<1>. HIDE DEF k
<1>3. \A c \in Configs : Stored(c)' => Stored(c)
  BY <1>1, <1>2 DEF Stored, IInv, TypeOK
<1>4. ASSUME NEW c \in Configs, Stored(c)'
      PROVE  FailedRuns(c) \subseteq FailedRuns(c)'
  <2>1. CASE run' = run  BY <2>1 DEF FailedRuns
  <2>2. CASE /\ exists' = [exists EXCEPT ![k] = "deleted"]
             /\ run' = [r \in Runs |-> IF r \in RunsOf(k)
                          THEN [run[r] EXCEPT !.status = "deleted"] ELSE run[r]]
    <3>1. c # k  BY <1>1, <1>4, <2>2 DEF Stored, IInv, TypeOK
    <3>2. \A r \in Runs : run[r].config = c => run'[r] = run[r]
      BY <2>2, <3>1 DEF RunsOf
    <3>. QED  BY <3>2 DEF FailedRuns
  <2>. QED  BY <1>2, <2>1, <2>2
<1>5. \A c \in Configs : Stored(c)' => KeepsCounter(c)
  BY <1>1, <1>3, <1>4 DEF KeepsCounter
<1>6. \A r \in Runs, c \in Configs : Stored(c)' => KeepsClosing(r, c)
  BY <1>1, <1>3 DEF KeepsClosing
<1>7. \A v \in Clients : request'[v] = request[v] \/ RaisesNothing(request'[v])
  BY <1>1 DEF IInv, TypeOK, RaisesNothing, Idle
<1>. QED  BY <1>5, <1>6, <1>7, OthersCount

\* Recording a fresh run or starting a coroutine closes nothing.
LEMMA StartCounts ==
    ASSUME IInv, CountInv, exists' = exists, NEW r \in Runs,
           \A q \in Runs \ {r} : run'[q] = run[q] /\ task'[q] = task[q],
           run'[r] = run[r] \/ run[r].status = "absent",
           task'[r] = task[r] \/ task'[r].pc = "called",
           \A c \in Configs :
             \/ row'[c].consecutive_failures = 0
             \/ row'[c].consecutive_failures = row[c].consecutive_failures,
           \A u \in Clients :
             request'[u] = request[u] \/ RaisesNothing(request'[u])
    PROVE  CountInv'
<1>1. \A c \in Configs : FailedRuns(c) \subseteq FailedRuns(c)'
  BY DEF FailedRuns
<1>2. \A c \in Configs : Stored(c)' => KeepsCounter(c)
  BY <1>1 DEF KeepsCounter, Stored
<1>3. \A q \in Runs, c \in Configs : Stored(c)' => KeepsClosing(q, c)
  BY DEF KeepsClosing, Closing, Stored
<1>. QED  BY <1>2, <1>3, OthersCount

LEMMA RetryCounts ==
    ASSUME IInv, CountInv, NEW u \in Clients, NEW d \in Runs,
           retry_dead_letter_job(u, d)
    PROVE  CountInv'
<1>. DEFINE c == run[d].config
<1>1. PICK r \in Runs :
        /\ Fresh(r)
        /\ run' = [run EXCEPT ![r] = RunningRow(c)]
        /\ request' = [request EXCEPT ![u] =
             [Idle EXCEPT !.op = "retry", !.config = c, !.dead = d,
                          !.was = dlq[d], !.run = r]]
  BY Zenon DEF retry_dead_letter_job
<1>2. /\ exists' = exists /\ task' = task
      /\ row' = [row EXCEPT ![c].consecutive_failures = 0]
  BY DEF retry_dead_letter_job
<1>3. \A k \in Configs : \/ row'[k].consecutive_failures = 0
                         \/ row'[k].consecutive_failures = row[k].consecutive_failures
  BY <1>2 DEF IInv, TypeOK, Row
<1>4. \A v \in Clients : request'[v] = request[v] \/ RaisesNothing(request'[v])
  <2>. DEFINE q == [Idle EXCEPT !.op = "retry", !.config = c, !.dead = d,
                                !.was = dlq[d], !.run = r]
  <2>1. RaisesNothing(q)  BY DEF RaisesNothing, Idle
  <2>2. request' = [request EXCEPT ![u] = q]  BY <1>1
  <2>. HIDE DEF q
  <2>. QED  BY <2>1, <2>2 DEF IInv, TypeOK
<1>5. /\ \A q \in Runs \ {r} : run'[q] = run[q] /\ task'[q] = task[q]
      /\ run[r].status = "absent" /\ task'[r] = task[r]
  BY <1>1, <1>2 DEF Fresh, IInv, TypeOK
<1>. QED  BY <1>2, <1>3, <1>4, <1>5, StartCounts

LEMMA EndRetryCounts ==
    ASSUME IInv, CountInv, NEW u \in Clients, EndRetry(u)
    PROVE  CountInv'
<1>. DEFINE r == request[u].run
<1>1. /\ r \in Runs
      /\ exists' = exists /\ row' = row /\ run' = run
      /\ task' = [task EXCEPT ![r] = Called(request[u].config, FALSE)]
      /\ request' = [request EXCEPT ![u] = Idle]
  BY DEF EndRetry, Closed, IInv, RequestInv
<1>. HIDE DEF r
<1>2. /\ \A q \in Runs \ {r} : run'[q] = run[q] /\ task'[q] = task[q]
      /\ task'[r].pc = "called"
  BY <1>1 DEF Called, NoTask, IInv, TypeOK
<1>3. \A v \in Clients : request'[v] = request[v] \/ RaisesNothing(request'[v])
  BY <1>1 DEF IInv, TypeOK, RaisesNothing, Idle
<1>. QED  BY <1>1, <1>2, <1>3, StartCounts

LEMMA RequestCounts ==
    ASSUME IInv, CountInv, NEW u \in Clients, RequestStep(u)
    PROVE  CountInv'
<1>1. CASE create_scheduler_config(u)
  <2>1. PICK c \in Configs, new \in Row :
          /\ exists' = [exists EXCEPT ![c] = "creating"]
          /\ request'[u].op = "create" /\ request'[u].new = new
          /\ RequestSet(u, request'[u])
          /\ new.consecutive_failures = 0
    BY <1>1, CreateOpens DEF IInv
  <2>2. RaisesNothing(request'[u])  BY <2>1 DEF RaisesNothing
  <2>3. \A k \in Configs : Stored(k)' => Stored(k)
    BY <2>1 DEF Stored, IInv, TypeOK
  <2>. QED  BY <1>1, <2>1, <2>2, <2>3, HandlerCounts DEF create_scheduler_config
<1>2. ASSUME NEW c \in Configs, NEW new \in Row, Changed(u, c, new),
             new.consecutive_failures \in {0, row[c].consecutive_failures},
             run' = run, task' = task, row' = row, exists' = exists
      PROVE  CountInv'
  <2>1. /\ RequestSet(u, request'[u])
        /\ request'[u] = request[u] \/ RaisesNothing(request'[u])
    BY <1>2 DEF Changed, RaisesNothing
  <2>. QED  BY <1>2, <2>1, HandlerCounts DEF Stored
<1>3. ASSUME NEW c \in Configs, update_scheduler_config(u, c) PROVE CountInv'
  <2>1. PICK new \in Row :
          /\ Changed(u, c, new)
          /\ new.consecutive_failures = row[c].consecutive_failures
    BY <1>3, UpdateOpens DEF IInv
  <2>. QED  BY <1>2, <1>3, <2>1 DEF update_scheduler_config
<1>4. ASSUME NEW c \in Configs, NEW e \in BOOLEAN, toggle_scheduler(u, c, e)
      PROVE  CountInv'
  <2>1. PICK new \in Row :
          /\ Changed(u, c, new)
          /\ new.consecutive_failures \in {0, row[c].consecutive_failures}
    BY <1>4, ToggleOpens DEF IInv
  <2>. QED  BY <1>2, <1>4, <2>1 DEF toggle_scheduler
<1>5. ASSUME NEW c \in Configs, delete_scheduler_config(u, c) PROVE CountInv'
  <2>1. RequestSet(u, request'[u]) /\ RaisesNothing(request'[u])
    BY <1>5, DeleteOpens DEF IInv, RaisesNothing
  <2>. QED  BY <1>5, <2>1, HandlerCounts DEF delete_scheduler_config, Stored
<1>6. CASE Rollback(u)
  <2>1. RequestSet(u, request'[u]) /\ RaisesNothing(request'[u])
    BY <1>6, ClosedCounts DEF Rollback, IInv
  <2>2. \A c \in Configs : Stored(c)' => Stored(c)
    BY <1>6 DEF Rollback, Stored, IInv, TypeOK
  <2>. QED  BY <1>6, <2>1, <2>2, HandlerCounts DEF Rollback
<1>7. ASSUME NEW d \in Runs, abandon_dead_letter_job(u, d) PROVE CountInv'
  BY <1>7 DEF abandon_dead_letter_job, CountInv, FailedRuns, Stored
<1>. QED
  BY <1>1, <1>3, <1>4, <1>5, <1>6, <1>7, CommitCreateCounts, CommitUpdateCounts,
     CommitDeleteCounts, RetryCounts, EndRetryCounts DEF RequestStep

LEMMA NextCounts == IInv /\ CountInv /\ [Next]_vars => CountInv'
<1>. SUFFICES ASSUME IInv, CountInv, [Next]_vars PROVE CountInv'  OBVIOUS
<1>1. CASE Crash
  <2>1. /\ row' = row /\ run' = run
        /\ \A r \in Runs : task'[r].pc = "none"
        /\ \A u \in Clients : RaisesNothing(request'[u])
    BY <1>1 DEF Crash, NoTask, Idle, RaisesNothing
  <2>2. \A c \in Configs : Stored(c)' => Stored(c)
    BY <1>1 DEF Crash, Stored, IInv, TypeOK
  <2>3. \A c \in Configs : Stored(c)' => KeepsCounter(c)
    BY <2>1, <2>2 DEF KeepsCounter, FailedRuns
  <2>4. \A r \in Runs, c \in Configs : Stored(c)' => KeepsClosing(r, c)
    BY <2>1 DEF KeepsClosing, Closing
  <2>. QED  BY <2>1, <2>3, <2>4, OthersCount
<1>2. ASSUME NEW c \in Configs, Fire(c) PROVE CountInv'
  <2>1. PICK r \in Runs : task' = [task EXCEPT ![r] = Called(c, TRUE)]
    BY <1>2 DEF Fire
  <2>2. /\ \A q \in Runs \ {r} : task'[q] = task[q]
        /\ task'[r].pc = "called"
    BY <2>1 DEF Called, NoTask, IInv, TypeOK
  <2>. QED  BY <1>2, <2>2, StartCounts DEF Fire
<1>3. ASSUME NEW c \in Configs, trigger_scheduler_manual(c) PROVE CountInv'
  <2>1. PICK r \in Runs : /\ Fresh(r)
                          /\ run' = [run EXCEPT ![r] = RunningRow(c)]
                          /\ task' = [task EXCEPT ![r] = Called(c, FALSE)]
    BY <1>3 DEF trigger_scheduler_manual
  <2>2. /\ \A q \in Runs \ {r} : run'[q] = run[q] /\ task'[q] = task[q]
        /\ task'[r].pc = "called" /\ run[r].status = "absent"
    BY <2>1 DEF Called, NoTask, Fresh, IInv, TypeOK
  <2>. QED  BY <1>3, <2>2, StartCounts DEF trigger_scheduler_manual
<1>4. CASE UNCHANGED <<exists, row, run, task, request>>
  BY <1>4 DEF CountInv, FailedRuns, Stored
<1>. QED
  BY <1>1, <1>2, <1>3, <1>4, ExecutorCounts, RequestCounts
     DEF Next, StartDatePasses, EndDatePasses, Restart, vars

\* However runs of one config overlap, and whatever toggles and retries reset,
\* consecutive_failures counts no failure that is not on record
\* (executor.py:376-381, 430).
THEOREM CounterIsHonest == Spec => []FailuresRecorded
<1>1. Init => CountInv
  <2>. SUFFICES ASSUME Init PROVE CountInv  OBVIOUS
  <2>1. \A r \in Runs : ~Closing(task[r])  BY DEF Init, NoTask, Closing
  <2>2. \A u \in Clients : request[u].op = "idle"  BY DEF Init, Idle
  <2>3. \A c \in Configs : ~Stored(c)  BY DEF Init, Stored
  <2>. QED  BY <2>1, <2>2, <2>3 DEF CountInv
<1>2. CountInv => FailuresRecorded  BY DEF CountInv, FailuresRecorded
<1>. QED  BY <1>1, <1>2, NextCounts, SchedulerInvariant, PTL DEF Spec

-----------------------------------------------------------------------------
(* The scheduler implements the life of runs and dead letters.             *)

LEMMA InitImplements == Init => Lifecycle!Init
<1>. SUFFICES ASSUME Init PROVE Lifecycle!Init  OBVIOUS
<1>1. \A r \in Runs : run[r].status = "absent"
  BY DEF Init, RunningRow
<1>. QED  BY <1>1 DEF Init, Lifecycle!Init

\* What a step of the executor does to its run is a step of the abstract run.
LEMMA ExecutorImplements ==
    ASSUME IInv, IInv', NEW r \in Runs, ExecutorEffect(r)
    PROVE  [Lifecycle!Next]_(Lifecycle!lifeVars)
<1>. DEFINE status == [q \in Runs |-> run[q].status]
<1>. USE DEF IInv, ExecutorEffect, ExecutorFrame, OthersKept
<1>1. \A q \in Runs \ {r} : status'[q] = status[q]  OBVIOUS
<1>2. status' = [status EXCEPT ![r] = run'[r].status]  BY <1>1
<1>3. dlq' = [dlq EXCEPT ![r] = dlq'[r]]  BY DEF TypeOK
<1>4. CASE RecordsRun(r)
  <2>1. status[r] = "absent" /\ run'[r].status = "running"
    BY <1>4 DEF RecordsRun, TaskInv
  <2>2. dlq' = dlq  BY <1>3, <1>4 DEF RecordsRun, TypeOK
  <2>3. Lifecycle!Begin(r)  BY <1>2, <2>1, <2>2 DEF Lifecycle!Begin
  <2>. QED  BY <2>3 DEF Lifecycle!Next
<1>5. CASE WorksOnRun(r)
  <2>1. status' = status /\ dlq' = dlq
    BY <1>2, <1>3, <1>5 DEF WorksOnRun, TypeOK
  <2>. QED  BY <2>1 DEF Lifecycle!lifeVars
<1>6. CASE SettlesRun(r)
  <2>1. status[r] = "running" /\ dlq[r] = "none"
    BY <1>6 DEF SettlesRun, TaskInv, RunInv, LetterInv, Stored, TypeOK
  <2>2. run'[r].status \in {"completed", "failed", "partial"}
    BY <1>6 DEF SettlesRun, Settled
  <2>3. \/ dlq' = dlq
        \/ run'[r].status = "failed" /\ dlq' = [dlq EXCEPT ![r] = "pending"]
    BY <1>3, <1>6 DEF SettlesRun, TypeOK
  <2>4. Lifecycle!Settle(r)
    BY <1>2, <2>1, <2>2, <2>3 DEF Lifecycle!Settle
  <2>. QED  BY <2>4 DEF Lifecycle!Next
<1>. QED  BY <1>4, <1>5, <1>6

\* Recording a run on a fresh id is the abstract Begin.
LEMMA RecordingImplements ==
    ASSUME TypeOK, NEW r \in Runs, NEW c \in Configs \cup {NoConfig}, Fresh(r),
           run' = [run EXCEPT ![r] = RunningRow(c)], dlq' = dlq
    PROVE  Lifecycle!Begin(r)
<1>. DEFINE status == [q \in Runs |-> run[q].status]
<1>1. run'[r].status = "running" /\ \A q \in Runs \ {r} : run'[q] = run[q]
  BY RunningRowType DEF TypeOK
<1>2. status'[r] = "running" /\ \A q \in Runs \ {r} : status'[q] = status[q]
  BY <1>1
<1>3. status' = [status EXCEPT ![r] = "running"]  BY <1>2
<1>. QED  BY <1>3 DEF Lifecycle!Begin, Fresh

\* Marking a dead letter is the abstract Mark, or changes nothing.
LEMMA MarkingImplements ==
    ASSUME TypeOK, NEW d \in Runs, dlq[d] # "none", run' = run,
           dlq' = dlq \/ dlq' = [dlq EXCEPT ![d] = "retried"]
                      \/ dlq' = [dlq EXCEPT ![d] = "abandoned"]
    PROVE  [Lifecycle!Next]_(Lifecycle!lifeVars)
<1>1. CASE dlq' = dlq  BY <1>1 DEF Lifecycle!lifeVars
<1>2. CASE dlq' # dlq
  <2>1. Lifecycle!Mark(d)  BY <1>2 DEF Lifecycle!Mark
  <2>. QED  BY <2>1 DEF Lifecycle!Next
<1>. QED  BY <1>1, <1>2

LEMMA DeleteImplements ==
    ASSUME IInv, NEW u \in Clients, CommitDelete(u)
    PROVE  [Lifecycle!Next]_(Lifecycle!lifeVars)
<1>. DEFINE c == request[u].config
            status == [q \in Runs |-> run[q].status]
<1>1. CASE run' = run  BY <1>1 DEF CommitDelete, Lifecycle!lifeVars
<1>2. CASE run' # run
  <2>1. run' = [r \in Runs |-> IF r \in RunsOf(c)
                  THEN [run[r] EXCEPT !.status = "deleted"] ELSE run[r]]
    BY <1>2 DEF CommitDelete
  <2>2. \A r \in Runs : [run[r] EXCEPT !.status = "deleted"].status = "deleted"
    BY DEF IInv, TypeOK, RunRow
  <2>3. PICK removed \in SUBSET Runs : removed = RunsOf(c)  BY DEF RunsOf
  <2>4. status' = [r \in Runs |-> IF r \in removed THEN "deleted" ELSE status[r]]
    BY <2>1, <2>2, <2>3
  <2>5. \A r \in removed : status[r] # "absent"  BY <2>3 DEF RunsOf
  <2>6. Lifecycle!Remove(removed)
    BY <2>4, <2>5 DEF Lifecycle!Remove, CommitDelete
  <2>. QED  BY <2>6 DEF Lifecycle!Next
<1>. QED  BY <1>1, <1>2

LEMMA NextImplements ==
    ASSUME IInv, IInv', [Next]_vars
    PROVE  [Lifecycle!Next]_(Lifecycle!lifeVars)
<1>1. ASSUME NEW r \in Runs, ExecutorStep(r)
      PROVE  [Lifecycle!Next]_(Lifecycle!lifeVars)
  BY <1>1, ExecutorStepEffect, ExecutorImplements DEF IInv
<1>2. ASSUME NEW c \in Configs, trigger_scheduler_manual(c)
      PROVE  [Lifecycle!Next]_(Lifecycle!lifeVars)
  BY <1>2, RecordingImplements
     DEF trigger_scheduler_manual, IInv, Lifecycle!Next
<1>3. ASSUME NEW u \in Clients, RequestStep(u)
      PROVE  [Lifecycle!Next]_(Lifecycle!lifeVars)
  <2>1. ASSUME NEW d \in Runs, retry_dead_letter_job(u, d)
        PROVE  [Lifecycle!Next]_(Lifecycle!lifeVars)
    <3>1. run[d].config \in Configs \cup {NoConfig}  BY DEF IInv, TypeOK, RunRow
    <3>. QED
      BY <2>1, <3>1, RecordingImplements
         DEF retry_dead_letter_job, IInv, Lifecycle!Next
  <2>2. ASSUME NEW d \in Runs, abandon_dead_letter_job(u, d)
        PROVE  [Lifecycle!Next]_(Lifecycle!lifeVars)
    BY <2>2, MarkingImplements DEF abandon_dead_letter_job, IInv
  <2>3. CASE EndRetry(u)
    BY <2>3, MarkingImplements DEF EndRetry, IInv, RequestInv
  <2>4. CASE CommitDelete(u)  BY <2>4, DeleteImplements
  <2>5. CASE run' = run /\ dlq' = dlq  BY <2>5 DEF Lifecycle!lifeVars
  <2>. QED
    BY <1>3, <2>1, <2>2, <2>3, <2>4, <2>5
       DEF RequestStep, create_scheduler_config, CommitCreate, CommitUpdate,
           update_scheduler_config, delete_scheduler_config, toggle_scheduler,
           Rollback
<1>4. CASE run' = run /\ dlq' = dlq  BY <1>4 DEF Lifecycle!lifeVars
<1>. QED
  BY <1>1, <1>2, <1>3, <1>4
     DEF Next, Fire, StartDatePasses, EndDatePasses, Crash, Restart, vars

\* Whatever requests, runs and faults interleave, a run settles at most once
\* and its dead letter is written by the step that fails it
\* (executor.py:362-472, service.py:564-618).
THEOREM SchedulerImplementsLifecycle == Spec => ImplementsLifecycle
<1>1. IInv /\ IInv' /\ [Next]_vars => [Lifecycle!Next]_(Lifecycle!lifeVars)
  BY NextImplements
<1>. QED
  BY <1>1, InitImplements, SchedulerInvariant, PTL
     DEF Spec, ImplementsLifecycle, Lifecycle!Spec

-----------------------------------------------------------------------------
(* One-time jobs.                                                          *)

\* schedule_scheduler_job puts back no one-time job whose date has passed.
LEMMA PutBackIsDue ==
    ASSUME TypeOK, NEW b \in Configs, NEW config \in Row,
           schedule_scheduler_job(b, config),
           NEW c \in Configs, clock[c] # "before", jobs[c] = "none", jobs'[c] # "none"
    PROVE  b = c /\ config.schedule_type # "once" /\ config.schedule = "ok"
BY ScheduledEffect DEF TypeOK, Schedulable

LEMMA OnlyRequestsRearm ==
    ASSUME IInv, [Next]_vars, NEW c \in Configs,
           Stored(c), row[c].schedule_type = "once", clock[c] # "before",
           jobs[c] = "none", jobs'[c] # "none"
    PROVE  \E u \in Clients : /\ request'[u].config = c
                              /\ request'[u].new.schedule_type # "once"
<1>. USE DEF IInv
<1>1. \A b \in Configs : row[b] \in Row  BY DEF TypeOK
<1>2. ASSUME NEW r \in Runs, ExecutorStep(r) PROVE FALSE
  <2>1. CASE Recheck(r)
    <3>1. task[r].config \in Configs  BY <2>1 DEF Recheck, TaskInv
    <3>2. /\ schedule_scheduler_job(task[r].config, row[task[r].config])
          /\ row[task[r].config].schedule_type # "once"
      BY <2>1 DEF Recheck
    <3>. QED  BY <1>1, <3>1, <3>2, PutBackIsDue
  <2>2. CASE Unschedule(r)
    <3>1. task[r].config \in Configs  BY <2>2 DEF Unschedule, TaskInv
    <3>. QED  BY <2>2, <3>1, UnscheduledEffect DEF Unschedule, TypeOK
  <2>3. CASE UNCHANGED jobs  BY <2>3
  <2>. QED
    BY <1>2, <2>1, <2>2, <2>3
       DEF ExecutorStep, Admit, Skip, Reload, Collect, Vanish, FinalizeRead,
           FinalizeCommit, CriticalRead, CriticalCommit, Lose
<1>3. ASSUME NEW u \in Clients, RequestStep(u)
      PROVE  request'[u].config = c /\ request'[u].new.schedule_type # "once"
  <2>1. CASE create_scheduler_config(u)
    <3>1. PICK b \in Configs, new \in Row :
             /\ exists[b] = "absent"
             /\ schedule_scheduler_job(b, new) \/ UNCHANGED jobs
      BY <2>1, CreateOpens
    <3>2. b = c  BY <3>1, PutBackIsDue
    <3>. QED  BY <3>1, <3>2 DEF Stored
  <2>2. ASSUME NEW b \in Configs, update_scheduler_config(u, b)
        PROVE  request'[u].config = c /\ request'[u].new.schedule_type # "once"
    <3>1. PICK new \in Row :
             /\ Changed(u, b, new)
             /\ \/ UNCHANGED jobs
                \/ schedule_scheduler_job(b, new)
                \/ unschedule_scheduler_job(b)
      BY <2>2, UpdateOpens
    <3>2. schedule_scheduler_job(b, new)
      BY <3>1, UnscheduledEffect DEF TypeOK
    <3>3. b = c /\ new.schedule_type # "once" /\ new.schedule = "ok"
      BY <3>2, PutBackIsDue
    <3>. QED  BY <3>1, <3>3 DEF Changed, Raises
  <2>3. ASSUME NEW b \in Configs, NEW enabled \in BOOLEAN, toggle_scheduler(u, b, enabled)
        PROVE  FALSE
    <3>1. PICK new \in Row :
             /\ new.schedule_type = row[b].schedule_type
             /\ schedule_scheduler_job(b, new) \/ unschedule_scheduler_job(b)
      BY <2>3, ToggleOpens
    <3>2. schedule_scheduler_job(b, new)
      BY <3>1, UnscheduledEffect DEF TypeOK
    <3>. QED  BY <3>1, <3>2, PutBackIsDue
  <2>4. ASSUME NEW b \in Configs, delete_scheduler_config(u, b) PROVE FALSE
    BY <2>4, UnscheduledEffect DEF delete_scheduler_config, TypeOK
  <2>5. CASE UNCHANGED jobs  BY <2>5
  <2>. QED
    BY <1>3, <2>1, <2>2, <2>3, <2>4, <2>5
       DEF RequestStep, CommitCreate, CommitUpdate, CommitDelete, EndRetry, Rollback,
           retry_dead_letter_job, abandon_dead_letter_job
<1>4. ASSUME NEW b \in Configs, Fire(b) PROVE FALSE
  BY <1>4 DEF Fire, TypeOK, Jobs
<1>5. CASE Crash  BY <1>5 DEF Crash, NoJobs
<1>6. CASE Restart  BY <1>6 DEF Restart, Schedulable
<1>7. CASE UNCHANGED jobs  BY <1>7
<1>. QED
  BY <1>2, <1>3, <1>4, <1>5, <1>6, <1>7
     DEF Next, trigger_scheduler_manual, StartDatePasses, EndDatePasses, vars

\* Toggles, updates, restarts and failures may reschedule a one-time config
\* as often as they like: once its date has passed its job stays gone, unless
\* by the request that makes it recurring (executor.py:111-113, 471).
THEOREM OneTimeJobsStaySpent == Spec => OnceNeverRearmed
<1>1. IInv /\ [Next]_vars =>
        [\A c \in Configs :
           /\ Stored(c) /\ row[c].schedule_type = "once" /\ clock[c] # "before"
           /\ jobs[c] = "none" /\ jobs'[c] # "none"
           => \E u \in Clients : /\ request'[u].config = c
                                 /\ request'[u].new.schedule_type # "once"]_vars
  BY OnlyRequestsRearm
<1>. QED  BY <1>1, SchedulerInvariant, PTL DEF Spec, OnceNeverRearmed

-----------------------------------------------------------------------------
(* Abandoned dead letters.                                                 *)

\* No retry reads a letter that is abandoned.
RetryReadInv == \A u \in Clients : request[u].op = "retry" =>
    request[u].was \in {"pending", "retried"}

LEMMA RetryReads ==
    ASSUME TypeOK, NEW u \in Clients, NEW d \in Runs, retry_dead_letter_job(u, d)
    PROVE  /\ dlq[d] \in {"pending", "retried"}
           /\ request'[u].op = "retry"
           /\ request'[u].dead = d /\ request'[u].was = dlq[d]
           /\ request'[u].config = run[d].config
           /\ \A v \in Clients \ {u} : request'[v] = request[v]
<1>1. PICK r \in Runs :
         request' = [request EXCEPT ![u] =
             [Idle EXCEPT !.op = "retry", !.config = run[d].config, !.dead = d,
                          !.was = dlq[d], !.run = r]]
  BY DEF retry_dead_letter_job
<1>2. dlq[d] \in {"pending", "retried"}  BY DEF retry_dead_letter_job, Retryable
<1>. DEFINE q == [Idle EXCEPT !.op = "retry", !.config = run[d].config, !.dead = d,
                              !.was = dlq[d], !.run = r]
<1>3. q.op = "retry" /\ q.dead = d /\ q.was = dlq[d] /\ q.config = run[d].config
  BY DEF Idle
<1>. HIDE DEF q
<1>4. request' = [request EXCEPT ![u] = q]  BY <1>1 DEF q
<1>. QED  BY <1>2, <1>3, <1>4 DEF TypeOK

\* Only retry_dead_letter_job opens a retry.
LEMMA RetryOpens ==
    ASSUME IInv, [Next]_vars, NEW u \in Clients, request'[u].op = "retry"
    PROVE  request'[u] = request[u] \/ \E d \in Runs : retry_dead_letter_job(u, d)
<1>. SUFFICES ASSUME request'[u] # request[u], \A d \in Runs : ~retry_dead_letter_job(u, d)
              PROVE  FALSE
  OBVIOUS
<1>. USE DEF IInv
<1>1. ASSUME NEW v \in Clients, RequestStep(v) PROVE FALSE
  <2>1. CASE create_scheduler_config(v)
    <3>1. request'[v].op = "create" /\ RequestSet(v, request'[v])
      BY <2>1, CreateOpens
    <3>. QED  BY <3>1 DEF RequestSet
  <2>2. ASSUME NEW c \in Configs, update_scheduler_config(v, c) PROVE FALSE
    <3>1. PICK new \in Row : Changed(v, c, new)  BY <2>2, UpdateOpens
    <3>. QED  BY <3>1 DEF Changed, RequestSet
  <2>3. ASSUME NEW c \in Configs, NEW e \in BOOLEAN, toggle_scheduler(v, c, e) PROVE FALSE
    <3>1. PICK new \in Row : Changed(v, c, new)  BY <2>3, ToggleOpens
    <3>. QED  BY <3>1 DEF Changed, RequestSet
  <2>4. ASSUME NEW c \in Configs, delete_scheduler_config(v, c) PROVE FALSE
    BY <2>4, DeleteOpens DEF RequestSet
  <2>5. CASE Closed(v)  BY <2>5, ClosedEffect DEF RequestSet
  <2>6. ASSUME NEW d \in Runs, retry_dead_letter_job(v, d) PROVE FALSE
    BY <2>6, RetryReads
  <2>7. CASE UNCHANGED request  BY <2>7
  <2>. QED
    BY <1>1, <2>1, <2>2, <2>3, <2>4, <2>5, <2>6, <2>7
       DEF RequestStep, CommitCreate, CommitUpdate, CommitDelete, EndRetry, Rollback,
           abandon_dead_letter_job
<1>2. ASSUME NEW r \in Runs, ExecutorStep(r) PROVE FALSE
  BY <1>2, ExecutorStepEffect DEF ExecutorEffect, ExecutorFrame
<1>3. CASE Crash
  <2>1. request'[u].op = "idle"  BY <1>3 DEF Crash, Idle
  <2>. QED  BY <2>1
<1>4. CASE UNCHANGED request  BY <1>4
<1>. QED
  BY <1>1, <1>2, <1>3, <1>4
     DEF Next, Fire, trigger_scheduler_manual, StartDatePasses, EndDatePasses, Restart, vars

LEMMA NextKeepsRetryReads == IInv /\ RetryReadInv /\ [Next]_vars => RetryReadInv'
<1>. SUFFICES ASSUME IInv, RetryReadInv, [Next]_vars,
                     NEW u \in Clients, request'[u].op = "retry"
              PROVE  request'[u].was \in {"pending", "retried"}
  BY DEF RetryReadInv
<1>1. CASE request'[u] = request[u]  BY <1>1 DEF RetryReadInv
<1>2. ASSUME NEW d \in Runs, retry_dead_letter_job(u, d)
      PROVE  request'[u].was \in {"pending", "retried"}
  BY <1>2, RetryReads DEF IInv
<1>. QED  BY <1>1, <1>2, RetryOpens

\* A run that can still settle has no letter, so no step of a coroutine writes
\* over one.
LEMMA ExecutorKeepsLetters ==
    ASSUME IInv, NEW r \in Runs, ExecutorStep(r), NEW q \in Runs, dlq[q] # "none"
    PROVE  dlq'[q] = dlq[q]
<1>. USE DEF IInv
<1>1. ExecutorEffect(r)  BY ExecutorStepEffect
<1>2. CASE q # r  BY <1>1, <1>2 DEF ExecutorEffect, ExecutorFrame, OthersKept
<1>3. CASE q = r
  <2>1. ~SettlesRun(r)
    BY <1>3 DEF SettlesRun, LetterInv, TaskInv, RunInv, Collecting, Unrecorded, Stored
  <2>. QED  BY <1>1, <1>3, <2>1 DEF ExecutorEffect, RecordsRun, WorksOnRun
<1>. QED  BY <1>2, <1>3

LEMMA LettersChange ==
    ASSUME IInv, RetryReadInv, [Next]_vars, NEW r \in Runs, dlq[r] # "none"
    PROVE  \/ dlq'[r] = dlq[r]
           \/ dlq'[r] = "abandoned"
           \/ \E u \in Clients : MarksRetried(u, r)
<1>. USE DEF IInv
<1>1. CASE UNCHANGED dlq  BY <1>1
<1>2. ASSUME NEW q \in Runs, ExecutorStep(q) PROVE dlq'[r] = dlq[r]
  BY <1>2, ExecutorKeepsLetters
<1>3. ASSUME NEW u \in Clients, NEW d \in Runs, abandon_dead_letter_job(u, d)
      PROVE  dlq'[r] = dlq[r] \/ dlq'[r] = "abandoned"
  BY <1>3 DEF abandon_dead_letter_job, TypeOK
<1>4. ASSUME NEW u \in Clients, EndRetry(u)
      PROVE  dlq'[r] = dlq[r] \/ MarksRetried(u, r)
  <2>1. request[u].op = "retry" /\ request[u].was \in {"pending", "retried"}
    BY <1>4 DEF EndRetry, RetryReadInv
  <2>. QED  BY <1>4, <2>1 DEF EndRetry, MarksRetried, TypeOK
<1>5. ASSUME NEW u \in Clients, RequestStep(u)
      PROVE  \/ dlq'[r] = dlq[r]
             \/ dlq'[r] = "abandoned"
             \/ MarksRetried(u, r)
  BY <1>1, <1>3, <1>4, <1>5
     DEF RequestStep, create_scheduler_config, CommitCreate, CommitUpdate,
         update_scheduler_config, toggle_scheduler, delete_scheduler_config, CommitDelete,
         Rollback, retry_dead_letter_job
<1>. HIDE DEF IInv
<1>. QED
  BY <1>1, <1>2, <1>5
     DEF Next, Fire, trigger_scheduler_manual, StartDatePasses, EndDatePasses, Crash,
         Restart, vars

LEMMA RetryReadsInvariant == Spec => []RetryReadInv
<1>1. Init => RetryReadInv
  <2>1. Idle.op = "idle"  BY DEF Idle
  <2>. QED  BY <2>1 DEF Init, RetryReadInv
<1>. QED  BY <1>1, NextKeepsRetryReads, SchedulerInvariant, PTL DEF Spec

\* However many requests overlap, only one thing undoes an abandon: the commit
\* of a retry that read the letter as pending (service.py:571-600).
THEOREM RevivedByOpenRetry == Spec => OnlyAnOpenRetryRevives
<1>1. IInv /\ RetryReadInv /\ [Next]_vars =>
        [\A r \in Runs : dlq[r] = "abandoned" /\ dlq'[r] # "abandoned" =>
            \E u \in Clients : MarksRetried(u, r)]_vars
  BY LettersChange
<1>. QED
  BY <1>1, RetryReadsInvariant, SchedulerInvariant, PTL DEF Spec, OnlyAnOpenRetryRevives

-----------------------------------------------------------------------------
(* A healthy config keeps its job.  Excused configs are those the property *)
(* makes an exception for; all the invariant says is of the others, on     *)
(* which requests follow each other and leave the limit as it is.          *)

HasLetter(c) == \E r \in Runs : run[r].config = c /\ dlq[r] # "none"
Excused(c) == c \in apart \/ HasLetter(c)

OpenOn(u, c) == request[u].op # "idle" /\ request[u].config = c

\* Config c, with these columns, has its job if it needs one.
JobDue(c, config) ==
    /\ config.is_enabled /\ config.schedule_type = "interval"
    /\ config.schedule = "ok" /\ clock[c] # "after"
    => jobs[c] = "interval"

\* While a request is open, the row it is going to write says whether there
\* is a job.
OpenJobInv(u, c) ==
    /\ request[u].op # "retry"
    /\ request[u].op = "create" =>
         request[u].new.consecutive_failures = 0 /\ JobDue(c, request[u].new)
    /\ request[u].op = "update" /\ Stored(c) =>
         /\ request[u].new.consecutive_failures \in {0, request[u].old.consecutive_failures}
         /\ request[u].new.max_consecutive_failures = request[u].old.max_consecutive_failures
         /\ row[c].is_enabled = request[u].old.is_enabled
         /\ row[c].schedule_type = request[u].old.schedule_type
         /\ row[c].schedule = request[u].old.schedule
         /\ JobDue(c, request[u].new)
    /\ \A v \in Clients \ {u} : ~OpenOn(v, c)

\* A counter reaches the limit in the commit that writes a dead letter.
TaskJobInv(r, c) == task[r].config = c =>
    /\ task[r].pc \in {"finalizing", "failing"} =>
         task[r].old.max_consecutive_failures = row[c].max_consecutive_failures
    /\ task[r].pc # "unscheduling"

\* Between requests the row itself says whether there is a job.
RowJobInv(c) ==
    /\ Stored(c) => ~Exhausted(row[c])
    /\ up /\ Stored(c) /\ (\A u \in Clients : ~OpenOn(u, c)) => JobDue(c, row[c])

ConfigJobInv(c) ==
    /\ RowJobInv(c)
    /\ \A u \in Clients : OpenOn(u, c) => OpenJobInv(u, c)
    /\ \A r \in Runs : TaskJobInv(r, c)

\* Nothing is under way while the process is down.
UpInv ==
    /\ \A u \in Clients : request[u].op # "idle" => up
    /\ \A r \in Runs : task[r].pc # "none" => up

\* A request names a config that is there or was.
NamedInv == \A u \in Clients : request[u].op \in {"update", "delete", "retry"} =>
    exists[request[u].config] \in {"stored", "deleted"}

JobInv ==
    /\ \A c \in Configs : ~Excused(c) => ConfigJobInv(c)
    /\ UpInv
    /\ NamedInv

LEMMA LettersStay ==
    ASSUME IInv, RetryReadInv, [Next]_vars, NEW r \in Runs, dlq[r] # "none"
    PROVE  dlq'[r] # "none" /\ run'[r].config = run[r].config
<1>1. dlq'[r] # "none"
  <2>1. \/ dlq'[r] = dlq[r]
        \/ dlq'[r] = "abandoned"
        \/ \E u \in Clients : MarksRetried(u, r)
    BY LettersChange
  <2>2. ASSUME NEW u \in Clients, MarksRetried(u, r) PROVE dlq'[r] = "retried"
    BY <2>2 DEF MarksRetried
  <2>. QED  BY <2>1, <2>2
<1>. USE DEF IInv
<1>2. run[r].status \in {"failed", "deleted"}  BY DEF LetterInv
<1>3. CASE UNCHANGED run  BY <1>1, <1>3
<1>4. ASSUME NEW q \in Runs, ExecutorStep(q) PROVE run'[r].config = run[r].config
  <2>1. ExecutorEffect(q)  BY <1>4, ExecutorStepEffect
  <2>2. ~RecordsRun(r)  BY <1>2 DEF RecordsRun, TaskInv, Unrecorded
  <2>. QED
    BY <2>1, <2>2 DEF ExecutorEffect, ExecutorFrame, OthersKept, WorksOnRun, SettlesRun
<1>5. ASSUME NEW c \in Configs, trigger_scheduler_manual(c)
      PROVE  run'[r].config = run[r].config
  BY <1>2, <1>5 DEF trigger_scheduler_manual, Fresh, TypeOK
<1>6. ASSUME NEW u \in Clients, NEW d \in Runs, retry_dead_letter_job(u, d)
      PROVE  run'[r].config = run[r].config
  BY <1>2, <1>6 DEF retry_dead_letter_job, Fresh, TypeOK
<1>7. ASSUME NEW u \in Clients, CommitDelete(u), ~UNCHANGED run
      PROVE  run'[r].config = run[r].config
  <2>. DEFINE s == [run[r] EXCEPT !.status = "deleted"]
  <2>1. run[r] \in RunRow  BY DEF TypeOK
  <2>2. s.config = run[r].config  BY <2>1 DEF RunRow
  <2>3. run'[r] = run[r] \/ run'[r] = s  BY <1>7 DEF CommitDelete
  <2>. HIDE DEF s
  <2>. QED  BY <2>2, <2>3
<1>. QED
  BY <1>1, <1>3, <1>4, <1>5, <1>6, <1>7
     DEF Next, RequestStep, create_scheduler_config, CommitCreate, CommitUpdate,
         update_scheduler_config, toggle_scheduler, delete_scheduler_config, EndRetry,
         Rollback, abandon_dead_letter_job, Fire,
         StartDatePasses, EndDatePasses, Crash, Restart, vars

\* Only a restart, which builds the jobs anew, forgets what parted them.
LEMMA ApartGrows ==
    ASSUME IInv, [Next]_vars, ~Restart, NEW c \in apart
    PROVE  c \in apart'
<1>. USE DEF IInv
<1>1. ASSUME NEW r \in Runs, ExecutorStep(r) PROVE c \in apart'
  BY <1>1, ExecutorStepEffect DEF ExecutorEffect, ExecutorFrame
<1>2. ASSUME NEW u \in Clients, NEW b \in Configs,
             \/ update_scheduler_config(u, b)
             \/ \E e \in BOOLEAN : toggle_scheduler(u, b, e)
      PROVE  c \in apart'
  BY <1>2, UpdateOpens, ToggleOpens DEF Changed
<1>. QED
  BY <1>1, <1>2
     DEF Next, RequestStep, create_scheduler_config, CommitCreate, CommitUpdate,
         delete_scheduler_config, CommitDelete,
         EndRetry, Rollback, retry_dead_letter_job, abandon_dead_letter_job, Fire,
         trigger_scheduler_manual, StartDatePasses, EndDatePasses, Crash, vars

LEMMA ExcusedStays ==
    ASSUME IInv, RetryReadInv, [Next]_vars, ~Restart, NEW c, Excused(c)
    PROVE  Excused(c)'
BY LettersStay, ApartGrows DEF Excused, HasLetter

\* What every step but a restart is judged by.
JobStep == IInv /\ RetryReadInv /\ JobInv /\ [Next]_vars /\ ~Restart

LEMMA JobStepStart ==
    ASSUME JobStep, NEW c \in Configs, ~Excused(c)'
    PROVE  ~Excused(c) /\ ConfigJobInv(c)
BY ExcusedStays DEF JobStep, JobInv

-----------------------------------------------------------------------------
(* Steps that leave what the invariant says of a config as it is.          *)

KeepsConfig(c) ==
    /\ exists'[c] = exists[c]
    /\ row'[c].is_enabled = row[c].is_enabled
    /\ row'[c].schedule_type = row[c].schedule_type
    /\ row'[c].schedule = row[c].schedule
    /\ row'[c].max_consecutive_failures = row[c].max_consecutive_failures
    /\ Stored(c) /\ Exhausted(row'[c]) => Exhausted(row[c])
    /\ clock[c] = "after" => clock'[c] = "after"
    /\ jobs[c] = "interval" => \/ jobs'[c] = "interval"
                               \/ clock'[c] = "after"
                               \/ row[c].schedule # "ok" /\ \A u \in Clients : ~OpenOn(u, c)

LEMMA KeepsJobs ==
    ASSUME NEW c \in Configs, ConfigJobInv(c), KeepsConfig(c), up' => up,
           \A u \in Clients : OpenOn(u, c) \/ OpenOn(u, c)' => request'[u] = request[u],
           \A r \in Runs : TaskJobInv(r, c)'
    PROVE  ConfigJobInv(c)'
<1>1. Stored(c)' <=> Stored(c)  BY DEF KeepsConfig, Stored
<1>2. \A u \in Clients : OpenOn(u, c)' <=> OpenOn(u, c)  BY DEF OpenOn
<1>3. RowJobInv(c)'
  BY <1>1, <1>2 DEF ConfigJobInv, RowJobInv, KeepsConfig, JobDue
<1>4. ASSUME NEW u \in Clients, OpenOn(u, c)' PROVE OpenJobInv(u, c)'
  <2>1. /\ OpenOn(u, c) /\ OpenJobInv(u, c) /\ request'[u] = request[u]
    BY <1>2, <1>4 DEF ConfigJobInv
  <2>2. jobs[c] = "interval" => jobs'[c] = "interval" \/ clock'[c] = "after"
    BY <2>1 DEF KeepsConfig
  <2>3. request[u].op = "create" => JobDue(c, request[u].new)'
    BY <2>1, <2>2 DEF OpenJobInv, JobDue, KeepsConfig
  <2>4. request[u].op = "update" /\ Stored(c) => JobDue(c, request[u].new)'
    BY <2>1, <2>2 DEF OpenJobInv, JobDue, KeepsConfig
  <2>. QED
    BY <1>1, <1>2, <2>1, <2>3, <2>4 DEF OpenJobInv, KeepsConfig
<1>. QED  BY <1>3, <1>4 DEF ConfigJobInv

\* The executor: what a closing session does to the row of its config, if it
\* writes no letter.
LEMMA CloseKeepsConfig ==
    ASSUME IInv, NEW r \in Runs, NEW status, NEW critical \in BOOLEAN,
           task[r].pc \in {"finalizing", "failing"}, Stored(task[r].config),
           Close(r, status, critical), UNCHANGED <<exists, clock, jobs>>,
           NEW c \in Configs, TaskJobInv(r, c),
           c = task[r].config => ~Exhausted(Counted(task[r].old, status))
    PROVE  KeepsConfig(c)
<1>. DEFINE b == task[r].config
            old == task[r].old
            new == Counted(old, status)
            flushed == Flushed(row[b], old, new)
<1>1. b \in Configs /\ row[b] \in Row /\ old \in Row
  BY DEF IInv, TypeOK, TaskInv, Task
<1>2. /\ new \in Row
      /\ new.is_enabled = old.is_enabled /\ new.schedule_type = old.schedule_type
      /\ new.max_consecutive_failures = old.max_consecutive_failures
      /\ new.schedule = old.schedule
  BY <1>1 DEF Counted, Row
<1>3. row' = [row EXCEPT ![b] = flushed]  BY DEF Close
<1>4. c = b => /\ old.max_consecutive_failures = row[b].max_consecutive_failures
               /\ ~Exhausted(new)
  BY DEF TaskJobInv
<1>5. Stored(b)  OBVIOUS
<1>. HIDE DEF b, old, new
<1>6. /\ flushed.is_enabled = row[b].is_enabled
      /\ flushed.schedule_type = row[b].schedule_type
      /\ flushed.schedule = row[b].schedule
      /\ flushed.max_consecutive_failures = row[b].max_consecutive_failures
      /\ flushed.consecutive_failures \in {new.consecutive_failures, row[b].consecutive_failures}
  BY <1>1, <1>2 DEF Flushed, Row
<1>. HIDE DEF flushed
<1>7. c = b => (Exhausted(flushed) => Exhausted(row[b]))
  BY <1>2, <1>4, <1>6 DEF Exhausted
<1>. QED  BY <1>1, <1>3, <1>6, <1>7 DEF IInv, TypeOK, KeepsConfig

\* Every other step of the executor leaves the rows alone.
LEMMA WorkingKeepsConfig ==
    ASSUME NEW c \in Configs, UNCHANGED <<exists, row, clock>>,
           \/ jobs'[c] = jobs[c] \/ jobs'[c] = "interval" \/ clock[c] = "after"
           \/ row[c].schedule # "ok" /\ \A u \in Clients : ~OpenOn(u, c)
    PROVE  KeepsConfig(c)
BY DEF KeepsConfig

LEMMA ExecutorKeepsJobs ==
    ASSUME JobStep, NEW r \in Runs, ExecutorStep(r), NEW c \in Configs, ~Excused(c)'
    PROVE  ConfigJobInv(c)'
<1>. DEFINE b == task[r].config
<1>1. IInv /\ ConfigJobInv(c)  BY JobStepStart DEF JobStep
<1>. USE DEF IInv
<1>2. ExecutorEffect(r)  BY <1>1, ExecutorStepEffect
<1>3. /\ OthersKept(r) /\ UNCHANGED <<exists, clock, up, request>>
      /\ task'[r].pc # "none" => task'[r].config = b
      /\ task[r].pc # "none"
  BY <1>2 DEF ExecutorEffect, ExecutorFrame
<1>4. b \in Configs /\ row[b] \in Row /\ TaskJobInv(r, c)
  BY <1>1, <1>3 DEF TaskInv, TypeOK, ConfigJobInv
<1>5. ASSUME KeepsConfig(c), TaskJobInv(r, c)' PROVE ConfigJobInv(c)'
  <2>1. \A q \in Runs : TaskJobInv(q, c)'
    BY <1>1, <1>3, <1>5 DEF ConfigJobInv, TaskJobInv, KeepsConfig, OthersKept
  <2>. QED  BY <1>1, <1>3, <1>5, <2>1, KeepsJobs
<1>. HIDE DEF b
<1>6. ASSUME task'[r].pc \notin {"finalizing", "failing", "unscheduling"},
             UNCHANGED <<row, jobs>>
      PROVE  ConfigJobInv(c)'
  <2>1. TaskJobInv(r, c)'  BY <1>6 DEF TaskJobInv
  <2>. QED  BY <1>3, <1>5, <1>6, <2>1, WorkingKeepsConfig
<1>7. ASSUME Ends(r) PROVE task'[r].pc = "none"
  BY <1>1, <1>7, EndsEffect DEF TaskEnded, TypeOK
<1>8. CASE Admit(r)
  <2>1. task'[r].pc = "admitted"
    BY <1>1, <1>8, GoesEffect DEF Admit, TaskMoved, TypeOK, TaskPC
  <2>. QED  BY <1>6, <1>8, <2>1 DEF Admit
<1>9. CASE Skip(r) \/ Vanish(r)
  BY <1>6, <1>7, <1>9 DEF Skip, Vanish
<1>10. CASE Reload(r)
  <2>1. task'[r].pc \in {"none", "collecting"}
    <3>. DEFINE t == [task[r] EXCEPT !.pc = "collecting",
                                     !.collect = row[task[r].config].collect]
    <3>1. t.pc = "collecting"  BY <1>1 DEF TypeOK, Task
    <3>2. task' = [task EXCEPT ![r] = t] \/ Ends(r)  BY <1>10 DEF Reload
    <3>. HIDE DEF t
    <3>. QED  BY <1>1, <1>7, <3>1, <3>2 DEF TypeOK
  <2>. QED  BY <1>6, <1>10, <2>1 DEF Reload
<1>11. CASE Collect(r)
  <2>1. PICK outcome : Record(r, NextType(Todo(r)), outcome)  BY <1>11 DEF Collect
  <2>2. task'[r].pc = "collecting"
    BY <1>1, <1>11, <2>1, NextTypeType, RecordEffect DEF Collect, TaskMoved, TypeOK
  <2>. QED  BY <1>6, <1>11, <2>2 DEF Collect
<1>12. CASE Lose(r)
  <2>. DEFINE t == [NoTask EXCEPT !.pc = "lost", !.config = task[r].config]
  <2>1. t.pc = "lost"  BY DEF NoTask
  <2>2. task' = [task EXCEPT ![r] = t]  BY <1>12 DEF Lose
  <2>. HIDE DEF t
  <2>3. task'[r].pc = "lost"  BY <1>1, <2>1, <2>2 DEF TypeOK
  <2>. QED  BY <1>6, <1>12, <2>3 DEF Lose
<1>13. ASSUME NEW pc \in {"finalizing", "failing"}, GoesWith(r, pc, row[b]),
              UNCHANGED <<row, jobs>>
       PROVE  ConfigJobInv(c)'
  <2>. DEFINE config == row[b]
              t == [task[r] EXCEPT !.pc = pc, !.old = config]
  <2>1. t.pc = pc /\ t.old = config  BY <1>1 DEF TypeOK, Task
  <2>2. task' = [task EXCEPT ![r] = t]  BY <1>13 DEF GoesWith
  <2>. HIDE DEF t
  <2>3. task'[r].pc = pc /\ task'[r].old = config  BY <1>1, <2>1, <2>2 DEF TypeOK
  <2>4. TaskJobInv(r, c)'  BY <1>3, <1>13, <2>3 DEF TaskJobInv
  <2>. QED  BY <1>3, <1>5, <1>13, <2>4, WorkingKeepsConfig
<1>14. CASE FinalizeRead(r)
  BY <1>13, <1>14 DEF FinalizeRead, b
<1>15. CASE CriticalRead(r)
  BY <1>6, <1>7, <1>13, <1>15 DEF CriticalRead, b
<1>16. ASSUME NEW status, NEW critical \in BOOLEAN, Close(r, status, critical),
              UNCHANGED jobs, Stored(b), task[r].pc \in {"finalizing", "failing"},
              task'[r].pc \notin {"finalizing", "failing"},
              task'[r].pc = "unscheduling" => Exhausted(Counted(task[r].old, status))
       PROVE  ConfigJobInv(c)'
  <2>1. /\ run[r].config = b
        /\ run'[r].config = run[r].config
    BY <1>1, <1>2, <1>16
       DEF TaskInv, Unrecorded, ExecutorEffect, RecordsRun, WorksOnRun, SettlesRun, b
  <2>2. ASSUME Exhausted(Counted(task[r].old, status)) PROVE c # b
    <3>1. dlq'[r] # "none"  BY <1>1, <1>16, <2>2 DEF Close, TypeOK
    <3>. QED  BY <2>1, <3>1 DEF Excused, HasLetter
  <2>3. KeepsConfig(c)
    BY <1>1, <1>3, <1>4, <1>16, <2>2, CloseKeepsConfig DEF b
  <2>4. TaskJobInv(r, c)'
    BY <1>3, <1>16, <2>2 DEF TaskJobInv
  <2>. QED  BY <1>5, <2>3, <2>4
<1>17. CASE FinalizeCommit(r)
  <2>1. CASE ~Stored(b)
    BY <1>6, <1>7, <1>17, <2>1 DEF FinalizeCommit, b
  <2>2. CASE Stored(b)
    <3>. DEFINE status == FinalStatus(task[r])
    <3>1. /\ Close(r, status, FALSE) /\ UNCHANGED jobs
          /\ task[r].pc \in {"finalizing", "failing"}
          /\ \/ Ends(r)
             \/ Exhausted(Counted(task[r].old, status)) /\ Goes(r, "unscheduling")
      BY <1>17, <2>2 DEF FinalizeCommit, b
    <3>. HIDE DEF status
    <3>2. /\ task'[r].pc \notin {"finalizing", "failing"}
          /\ task'[r].pc = "unscheduling" => Exhausted(Counted(task[r].old, status))
      BY <1>1, <1>7, <3>1, GoesEffect DEF TaskMoved, TypeOK, TaskPC
    <3>3. FALSE \in BOOLEAN  OBVIOUS
    <3>. QED  BY <1>16, <2>2, <3>1, <3>2, <3>3
  <2>. QED  BY <2>1, <2>2
<1>18. CASE CriticalCommit(r)
  <2>1. CASE ~Stored(b)
    BY <1>6, <1>7, <1>18, <2>1 DEF CriticalCommit, b
  <2>2. CASE Stored(b)
    <3>1. /\ Close(r, "failed", TRUE) /\ UNCHANGED jobs
          /\ task[r].pc \in {"finalizing", "failing"}
          /\ \/ Goes(r, "rechecking")
             \/ Exhausted(Counted(task[r].old, "failed")) /\ Goes(r, "unscheduling")
      BY <1>18, <2>2 DEF CriticalCommit, b
    <3>2. /\ task'[r].pc \notin {"finalizing", "failing"}
          /\ task'[r].pc = "unscheduling" => Exhausted(Counted(task[r].old, "failed"))
      BY <1>1, <3>1, GoesEffect DEF TaskMoved, TypeOK, TaskPC
    <3>3. TRUE \in BOOLEAN  OBVIOUS
    <3>. QED  BY <1>16, <2>2, <3>1, <3>2, <3>3
  <2>. QED  BY <2>1, <2>2
<1>19. CASE Unschedule(r)
  <2>1. task'[r].pc = "none" /\ UNCHANGED row  BY <1>7, <1>19 DEF Unschedule
  <2>2. c # b  BY <1>4, <1>19 DEF Unschedule, TaskJobInv, b
  <2>3. jobs'[c] = jobs[c]
    BY <1>1, <1>4, <1>19, <2>2, UnscheduledEffect DEF Unschedule, TypeOK, b
  <2>4. TaskJobInv(r, c)'  BY <2>1 DEF TaskJobInv
  <2>. QED  BY <1>3, <1>5, <2>1, <2>3, <2>4, WorkingKeepsConfig
<1>20. CASE Recheck(r)
  <2>1. task'[r].pc = "none" /\ UNCHANGED row  BY <1>7, <1>20 DEF Recheck
  <2>2. TaskJobInv(r, c)'  BY <2>1 DEF TaskJobInv
  <2>3. CASE UNCHANGED jobs
    BY <1>3, <1>5, <2>1, <2>2, <2>3, WorkingKeepsConfig
  <2>4. CASE ~UNCHANGED jobs
    <3>1. /\ MayStart(b) /\ row[b].schedule_type # "once"
          /\ schedule_scheduler_job(b, row[b])
          /\ row[b].schedule # "ok" /\ (\E u \in Clients : request[u].config = b)
               => b \in apart'
      BY <1>1, <1>20, <2>4 DEF Recheck, TypeOK, b
    <3>2. CASE c # b
      <4>1. jobs'[c] = jobs[c]
        BY <1>1, <1>4, <3>1, <3>2, ScheduledEffect DEF TypeOK
      <4>. QED  BY <1>3, <1>5, <2>1, <2>2, <4>1, WorkingKeepsConfig
    <3>3. CASE c = b /\ row[b].schedule # "ok"
      <4>1. \A u \in Clients : ~OpenOn(u, c)
        BY <3>1, <3>3 DEF OpenOn, Excused
      <4>. QED  BY <1>3, <1>5, <2>1, <2>2, <3>3, <4>1, WorkingKeepsConfig
    <3>4. CASE c = b /\ row[b].schedule = "ok"
      <4>1. row[b].schedule_type = "interval"  BY <1>4, <3>1 DEF Row
      <4>2. jobs'[b] = IF Schedulable(b, row[b]) THEN row[b].schedule_type ELSE "none"
        BY <1>1, <1>4, <3>1, ScheduledEffect DEF TypeOK
      <4>3. jobs'[c] = "interval" \/ clock[c] = "after"
        BY <3>1, <3>4, <4>1, <4>2 DEF MayStart, Schedulable, Wanted
      <4>. QED  BY <1>3, <1>5, <2>1, <2>2, <4>3, WorkingKeepsConfig
    <3>. QED  BY <3>2, <3>3, <3>4
  <2>. QED  BY <2>3, <2>4
<1>. QED
  BY <1>8, <1>9, <1>10, <1>11, <1>12, <1>14, <1>15, <1>17, <1>18, <1>19, <1>20
     DEF ExecutorStep

\* So do jobs firing, manual runs, the calendar and an abandon.
LEMMA AsideKeepsJobs ==
    ASSUME JobStep,
           \/ UNCHANGED vars
           \/ \E c \in Configs : \/ Fire(c) \/ trigger_scheduler_manual(c)
                                 \/ StartDatePasses(c) \/ EndDatePasses(c)
           \/ \E u \in Clients, d \in Runs : abandon_dead_letter_job(u, d),
           NEW c \in Configs, ~Excused(c)'
    PROVE  ConfigJobInv(c)'
<1>1. IInv /\ ConfigJobInv(c)  BY JobStepStart DEF JobStep
<1>2. UNCHANGED <<exists, up, request, row>>
  BY DEF Fire, trigger_scheduler_manual, StartDatePasses, EndDatePasses,
         abandon_dead_letter_job, vars
<1>3. /\ clock[c] = "after" => clock'[c] = "after"
      /\ jobs[c] = "interval" => jobs'[c] = "interval"
  BY <1>1 DEF Fire, trigger_scheduler_manual, StartDatePasses, EndDatePasses,
         abandon_dead_letter_job, vars, IInv, TypeOK, Jobs
<1>4. KeepsConfig(c)  BY <1>2, <1>3 DEF KeepsConfig
<1>5. ASSUME NEW r \in Runs PROVE TaskJobInv(r, c)'
  <2>1. task'[r] = task[r] \/ task'[r].pc = "called"
    <3>1. CASE UNCHANGED task  BY <3>1
    <3>2. ASSUME NEW b \in Configs, NEW s \in BOOLEAN, NEW q \in Runs,
                 task' = [task EXCEPT ![q] = Called(b, s)]
          PROVE  task'[r] = task[r] \/ task'[r].pc = "called"
      <4>. DEFINE t == Called(b, s)
      <4>1. t.pc = "called"  BY DEF Called, NoTask
      <4>2. task' = [task EXCEPT ![q] = t]  BY <3>2
      <4>. HIDE DEF t
      <4>. QED  BY <1>1, <4>1, <4>2 DEF IInv, TypeOK
    <3>3. ASSUME NEW b \in Configs, Fire(b)
          PROVE  task'[r] = task[r] \/ task'[r].pc = "called"
      <4>1. TRUE \in BOOLEAN  OBVIOUS
      <4>. QED  BY <3>2, <3>3, <4>1 DEF Fire
    <3>4. ASSUME NEW b \in Configs, trigger_scheduler_manual(b)
          PROVE  task'[r] = task[r] \/ task'[r].pc = "called"
      <4>1. FALSE \in BOOLEAN  OBVIOUS
      <4>. QED  BY <3>2, <3>4, <4>1 DEF trigger_scheduler_manual
    <3>. QED
      BY <3>1, <3>3, <3>4 DEF StartDatePasses, EndDatePasses, abandon_dead_letter_job, vars
  <2>. QED  BY <1>1, <1>2, <2>1 DEF ConfigJobInv, TaskJobInv
<1>. QED  BY <1>1, <1>2, <1>4, <1>5, KeepsJobs

-----------------------------------------------------------------------------
(* A request on config b, opened and brought to its end.                   *)

\* Every other config keeps its row and its job.
OthersAside(u, b) == \A c \in Configs \ {b} :
    /\ exists'[c] = exists[c]
    /\ row'[c] = row[c]
    /\ jobs'[c] = jobs[c]
    /\ ~OpenOn(u, c) /\ ~OpenOn(u, c)'

OthersWait(u) == \A v \in Clients \ {u} : request'[v] = request[v]

StartsOnly == \A r \in Runs : task'[r] = task[r] \/ task'[r].pc = "called"

LEMMA OthersKeepJobs ==
    ASSUME JobStep, NEW u \in Clients, NEW b \in Configs, OthersAside(u, b),
           OthersWait(u), StartsOnly, UNCHANGED <<clock, up>>,
           NEW c \in Configs \ {b}, ~Excused(c)'
    PROVE  ConfigJobInv(c)'
<1>1. ConfigJobInv(c)  BY JobStepStart
<1>2. KeepsConfig(c)  BY DEF OthersAside, KeepsConfig
<1>3. \A r \in Runs : TaskJobInv(r, c)'
  BY <1>1 DEF ConfigJobInv, TaskJobInv, StartsOnly, OthersAside
<1>4. \A v \in Clients : OpenOn(v, c) \/ OpenOn(v, c)' => request'[v] = request[v]
  BY DEF OthersAside, OthersWait
<1>. QED  BY <1>1, <1>2, <1>3, <1>4, KeepsJobs

\* The handlers that open a request.
LEMMA OpeningKeepsJobs ==
    ASSUME NEW u \in Clients, NEW b \in Configs, ConfigJobInv(b), UNCHANGED <<up, task>>,
           Stored(b)' => Stored(b), row'[b] = row[b],
           OthersWait(u), OpenOn(u, b)', \A v \in Clients \ {u} : ~OpenOn(v, b),
           OpenJobInv(u, b)'
    PROVE  ConfigJobInv(b)'
<1>1. \A v \in Clients \ {u} : ~OpenOn(v, b)'  BY DEF OpenOn, OthersWait
<1>2. RowJobInv(b)'  BY DEF ConfigJobInv, RowJobInv
<1>3. \A r \in Runs : TaskJobInv(r, b)'  BY DEF ConfigJobInv, TaskJobInv
<1>. QED  BY <1>1, <1>2, <1>3 DEF ConfigJobInv

\* The steps that end one.
LEMMA ClosingRequestKeepsJobs ==
    ASSUME NEW u \in Clients, NEW b \in Configs, ConfigJobInv(b),
           OpenOn(u, b), request'[u].op = "idle", OthersWait(u),
           \A r \in Runs : TaskJobInv(r, b)',
           Stored(b)' => ~Exhausted(row[b])' /\ JobDue(b, row[b])'
    PROVE  ConfigJobInv(b)'
<1>1. \A v \in Clients : ~OpenOn(v, b)'
  BY DEF ConfigJobInv, OpenJobInv, OpenOn, OthersWait
<1>2. RowJobInv(b)'  BY DEF RowJobInv
<1>. QED  BY <1>1, <1>2 DEF ConfigJobInv

LEMMA CreateKeepsJobs ==
    ASSUME JobStep, NEW u \in Clients, create_scheduler_config(u),
           NEW c \in Configs, ~Excused(c)'
    PROVE  ConfigJobInv(c)'
<1>1. TypeOK /\ Free(u) /\ UNCHANGED <<clock, up, task, row>>
  BY DEF JobStep, IInv, create_scheduler_config
<1>2. PICK b \in Configs, new \in Row :
             /\ exists[b] = "absent"
             /\ exists' = [exists EXCEPT ![b] = "creating"]
             /\ request'[u].op = "create" /\ request'[u].config = b
             /\ request'[u].new = new
             /\ RequestSet(u, request'[u])
             /\ new.consecutive_failures = 0
             /\ \/ new.is_enabled /\ schedule_scheduler_job(b, new)
                \/ ~new.is_enabled /\ UNCHANGED jobs
  BY <1>1, CreateOpens
<1>3. ~Exhausted(new)
  <2>1. new.max_consecutive_failures \in Nat \ {0}  BY DEF Row
  <2>. QED  BY <1>2, <2>1 DEF Exhausted
<1>4. \A a \in Configs \ {b} : jobs'[a] = jobs[a]
  BY <1>1, <1>2, ScheduledEffect DEF TypeOK
<1>5. OthersAside(u, b)
  BY <1>1, <1>2, <1>4 DEF OthersAside, OpenOn, Free, TypeOK
<1>6. OthersWait(u) /\ StartsOnly  BY <1>1, <1>2 DEF OthersWait, StartsOnly, RequestSet
<1>7. CASE c # b  BY <1>1, <1>5, <1>6, <1>7, OthersKeepJobs
<1>8. CASE c = b
  <2>1. ConfigJobInv(b)  BY <1>8, JobStepStart
  <2>2. ~Stored(b)'  BY <1>1, <1>2 DEF Stored, TypeOK
  <2>3. ASSUME NEW v \in Clients \ {u} PROVE ~OpenOn(v, b)
    BY <1>2 DEF OpenOn, JobStep, JobInv, NamedInv, IInv, RequestInv, TypeOK, Request
  <2>4. JobDue(b, new)'
    BY <1>1, <1>2, <1>3, ScheduledEffect DEF JobDue, Schedulable, Wanted, TypeOK
  <2>5. \A v \in Clients \ {u} : ~OpenOn(v, b)'
    BY <1>6, <2>3 DEF OpenOn, OthersWait
  <2>6. OpenJobInv(u, b)'  BY <1>2, <2>4, <2>5 DEF OpenJobInv
  <2>7. OpenOn(u, b)'  BY <1>2 DEF OpenOn
  <2>. QED  BY <1>1, <1>6, <1>8, <2>1, <2>2, <2>3, <2>6, <2>7, OpeningKeepsJobs
<1>. QED  BY <1>7, <1>8

\* Update and toggle open the same kind of request.
LEMMA ChangingKeepsJobs ==
    ASSUME JobStep, NEW u \in Clients, NEW b \in Configs, NEW new \in Row,
           Free(u), Stored(b), UNCHANGED <<exists, row, clock, up, task>>,
           Changed(u, b, new),
           new.consecutive_failures \in {0, row[b].consecutive_failures},
           \/ /\ UNCHANGED jobs
              /\ new.is_enabled = row[b].is_enabled
              /\ new.schedule_type = row[b].schedule_type
              /\ new.schedule = row[b].schedule
           \/ new.is_enabled /\ schedule_scheduler_job(b, new)
           \/ ~new.is_enabled /\ unschedule_scheduler_job(b),
           NEW c \in Configs, ~Excused(c)'
    PROVE  ConfigJobInv(c)'
<1>1. TypeOK /\ row[b] \in Row  BY DEF JobStep, IInv, TypeOK
<1>2. OthersWait(u) /\ StartsOnly
  BY DEF OthersWait, StartsOnly, Changed, RequestSet
<1>3. \A a \in Configs \ {b} : jobs'[a] = jobs[a]
  BY <1>1, ScheduledEffect, UnscheduledEffect DEF TypeOK
<1>4. OthersAside(u, b)
  BY <1>3 DEF OthersAside, OpenOn, Free, Changed
<1>5. CASE c # b  BY <1>2, <1>4, <1>5, OthersKeepJobs
<1>6. CASE c = b
  <2>1. ConfigJobInv(b)  BY <1>6, JobStepStart
  <2>2. b \notin apart'  BY <1>6 DEF Excused
  <2>3. /\ request'[u].op = "update" /\ request'[u].config = b
        /\ request'[u].old = row[b] /\ request'[u].new = new
        /\ new.max_consecutive_failures = row[b].max_consecutive_failures
        /\ \A v \in Clients \ {u} : ~OpenOn(v, b)
    BY <2>2 DEF Changed, Overlaps, OpenOn
  <2>4. \A v \in Clients : ~OpenOn(v, b)  BY <2>3 DEF OpenOn, Free
  <2>5. ~Exhausted(new)
    BY <1>1, <2>1, <2>3 DEF ConfigJobInv, RowJobInv, Exhausted, Row
  <2>6. JobDue(b, row[b])
    BY <2>1, <2>4 DEF ConfigJobInv, RowJobInv, Free
  <2>7. JobDue(b, new)'
    BY <1>1, <2>5, <2>6, ScheduledEffect DEF JobDue, Schedulable, Wanted, TypeOK
  <2>8. OpenJobInv(u, b)'
    BY <1>2, <2>3, <2>7 DEF OpenJobInv, OpenOn, OthersWait
  <2>9. OpenOn(u, b)'  BY <2>3 DEF OpenOn
  <2>. QED  BY <1>2, <1>6, <2>1, <2>3, <2>8, <2>9, OpeningKeepsJobs DEF Stored
<1>. QED  BY <1>5, <1>6

LEMMA UpdateKeepsJobs ==
    ASSUME JobStep, NEW u \in Clients, NEW b \in Configs, update_scheduler_config(u, b),
           NEW c \in Configs, ~Excused(c)'
    PROVE  ConfigJobInv(c)'
<1>1. /\ TypeOK /\ Free(u) /\ Stored(b)
      /\ UNCHANGED <<exists, row, clock, up, task>>
  BY DEF JobStep, IInv, update_scheduler_config
<1>2. PICK new \in Row :
             /\ Changed(u, b, new)
             /\ new.consecutive_failures = row[b].consecutive_failures
             /\ \/ /\ UNCHANGED jobs
                   /\ new.is_enabled = row[b].is_enabled
                   /\ new.schedule_type = row[b].schedule_type
                   /\ new.schedule = row[b].schedule
                \/ new.is_enabled /\ schedule_scheduler_job(b, new)
                \/ ~new.is_enabled /\ unschedule_scheduler_job(b)
  BY <1>1, UpdateOpens
<1>. QED  BY <1>1, <1>2, ChangingKeepsJobs

LEMMA ToggleKeepsJobs ==
    ASSUME JobStep, NEW u \in Clients, NEW b \in Configs, NEW enabled \in BOOLEAN,
           toggle_scheduler(u, b, enabled), NEW c \in Configs, ~Excused(c)'
    PROVE  ConfigJobInv(c)'
<1>1. /\ TypeOK /\ Free(u) /\ Stored(b)
      /\ UNCHANGED <<exists, row, clock, up, task>>
  BY DEF JobStep, IInv, toggle_scheduler
<1>2. PICK new \in Row :
             /\ Changed(u, b, new)
             /\ new.is_enabled = enabled
             /\ new.consecutive_failures \in {0, row[b].consecutive_failures}
             /\ \/ enabled /\ schedule_scheduler_job(b, new)
                \/ ~enabled /\ unschedule_scheduler_job(b)
  BY <1>1, ToggleOpens
<1>. QED  BY <1>1, <1>2, ChangingKeepsJobs

LEMMA DeleteKeepsJobs ==
    ASSUME JobStep, NEW u \in Clients, NEW b \in Configs, delete_scheduler_config(u, b),
           NEW c \in Configs, ~Excused(c)'
    PROVE  ConfigJobInv(c)'
<1>1. /\ TypeOK /\ Free(u) /\ unschedule_scheduler_job(b)
      /\ UNCHANGED <<exists, row, clock, up, task>>
      /\ Overlaps(u, b) => b \in apart'
  BY DEF JobStep, IInv, delete_scheduler_config, TypeOK
<1>2. request'[u].op = "delete" /\ request'[u].config = b /\ RequestSet(u, request'[u])
  BY <1>1, DeleteOpens
<1>3. OthersWait(u) /\ StartsOnly  BY <1>1, <1>2 DEF OthersWait, StartsOnly, RequestSet
<1>4. OthersAside(u, b)
  BY <1>1, <1>2, UnscheduledEffect DEF OthersAside, OpenOn, Free, TypeOK
<1>5. CASE c # b  BY <1>1, <1>3, <1>4, <1>5, OthersKeepJobs
<1>6. CASE c = b
  <2>1. ConfigJobInv(b)  BY <1>6, JobStepStart
  <2>2. \A v \in Clients \ {u} : ~OpenOn(v, b)
    BY <1>1, <1>6 DEF Excused, Overlaps, OpenOn
  <2>3. OpenJobInv(u, b)'
    BY <1>2, <1>3, <2>2 DEF OpenJobInv, OpenOn, OthersWait
  <2>4. OpenOn(u, b)'  BY <1>2 DEF OpenOn
  <2>. QED  BY <1>1, <1>3, <1>6, <2>1, <2>2, <2>3, <2>4, OpeningKeepsJobs DEF Stored
<1>. QED  BY <1>5, <1>6

\* A retry is of a config that has a letter.
LEMMA RetryKeepsJobs ==
    ASSUME JobStep, NEW u \in Clients, NEW d \in Runs, retry_dead_letter_job(u, d),
           NEW c \in Configs, ~Excused(c)'
    PROVE  ConfigJobInv(c)'
<1>1. /\ TypeOK /\ Free(u) /\ dlq[d] # "none" /\ Stored(run[d].config)
      /\ row' = [row EXCEPT ![run[d].config].consecutive_failures = 0]
      /\ UNCHANGED <<exists, clock, up, jobs, task>>
  BY DEF JobStep, IInv, retry_dead_letter_job, Retryable
<1>2. run[d].config \in Configs
  BY <1>1 DEF JobStep, IInv, LetterInv, RunInv, TypeOK, RunRow
<1>3. PICK b \in Configs : b = run[d].config  BY <1>2
<1>4. c # b
  BY <1>1, <1>3, JobStepStart DEF Excused, HasLetter
<1>5. request'[u].config = b /\ OthersWait(u) /\ StartsOnly
  BY <1>1, <1>3, RetryReads DEF OthersWait, StartsOnly
<1>6. OthersAside(u, b)
  BY <1>1, <1>3, <1>5 DEF OthersAside, OpenOn, Free, TypeOK
<1>. QED  BY <1>1, <1>4, <1>5, <1>6, OthersKeepJobs

LEMMA CommitCreateKeepsJobs ==
    ASSUME JobStep, NEW u \in Clients, CommitCreate(u), NEW c \in Configs, ~Excused(c)'
    PROVE  ConfigJobInv(c)'
<1>1. /\ TypeOK /\ request[u].op = "create" /\ request[u].config \in Configs
      /\ exists[request[u].config] = "creating"
      /\ request[u].new \in Row
  BY DEF JobStep, IInv, CommitCreate, RequestInv, TypeOK, Request
<1>2. PICK b \in Configs, new \in Row : b = request[u].config /\ new = request[u].new
  BY <1>1
<1>3. /\ exists' = [exists EXCEPT ![b] = "stored"] /\ row' = [row EXCEPT ![b] = new]
      /\ Closed(u) /\ UNCHANGED <<clock, up, jobs, run, task, dlq, apart>>
  BY <1>2 DEF CommitCreate
<1>4. request'[u].op = "idle" /\ OthersWait(u) /\ StartsOnly
  BY <1>1, <1>3, ClosedEffect DEF OthersWait, StartsOnly, RequestSet
<1>5. OthersAside(u, b)
  BY <1>1, <1>2, <1>3, <1>4 DEF OthersAside, OpenOn, TypeOK
<1>6. CASE c # b  BY <1>3, <1>4, <1>5, <1>6, OthersKeepJobs
<1>7. CASE c = b
  <2>1. ConfigJobInv(b)  BY <1>7, JobStepStart
  <2>2. OpenOn(u, b)  BY <1>1, <1>2 DEF OpenOn
  <2>3. new.consecutive_failures = 0 /\ JobDue(b, new)
    BY <1>1, <1>2, <2>1, <2>2 DEF ConfigJobInv, OpenJobInv
  <2>4. ~Exhausted(new)
    <3>1. new.max_consecutive_failures \in Nat \ {0}  BY DEF Row
    <3>. QED  BY <2>3, <3>1 DEF Exhausted
  <2>5. row'[b] = new  BY <1>1, <1>3 DEF TypeOK
  <2>6. ASSUME NEW r \in Runs PROVE TaskJobInv(r, b)'
    <3>1. CASE task[r].pc \in {"finalizing", "failing"} /\ task[r].config = b
      <4>1. /\ run[r].config = b /\ run[r].status \in {"running", "deleted"}
        BY <3>1 DEF JobStep, IInv, TaskInv, Unrecorded, Collecting
      <4>2. exists[b] \in {"stored", "deleted"}
        BY <4>1 DEF JobStep, IInv, RunInv, Stored
      <4>. QED  BY <1>1, <1>2, <4>2
    <3>2. CASE ~(task[r].pc \in {"finalizing", "failing"} /\ task[r].config = b)
      BY <1>3, <2>1, <3>2 DEF ConfigJobInv, TaskJobInv
    <3>. QED  BY <3>1, <3>2
  <2>7. JobDue(b, row[b])'  BY <1>3, <2>3, <2>5 DEF JobDue
  <2>8. ~Exhausted(row[b])'  BY <2>4, <2>5 DEF Exhausted
  <2>. QED  BY <1>4, <1>7, <2>1, <2>2, <2>6, <2>7, <2>8, ClosingRequestKeepsJobs
<1>. QED  BY <1>6, <1>7

LEMMA CommitUpdateKeepsJobs ==
    ASSUME JobStep, NEW u \in Clients, CommitUpdate(u), NEW c \in Configs, ~Excused(c)'
    PROVE  ConfigJobInv(c)'
<1>1. /\ TypeOK /\ request[u].op = "update" /\ request[u].config \in Configs
      /\ request[u].old \in Row /\ request[u].new \in Row
  BY DEF JobStep, IInv, CommitUpdate, RequestInv, TypeOK, Request
<1>2. PICK b \in Configs, old \in Row, new \in Row :
        b = request[u].config /\ old = request[u].old /\ new = request[u].new
  BY <1>1
<1>3. /\ row' = IF Stored(b) THEN [row EXCEPT ![b] = Flushed(row[b], old, new)] ELSE row
      /\ Closed(u) /\ UNCHANGED <<exists, clock, up, jobs, run, task, dlq, apart>>
  BY <1>2 DEF CommitUpdate
<1>4. request'[u].op = "idle" /\ OthersWait(u) /\ StartsOnly
  BY <1>1, <1>3, ClosedEffect DEF OthersWait, StartsOnly, RequestSet
<1>5. OthersAside(u, b)
  BY <1>1, <1>2, <1>3, <1>4 DEF OthersAside, OpenOn, TypeOK
<1>6. CASE c # b  BY <1>3, <1>4, <1>5, <1>6, OthersKeepJobs
<1>7. CASE c = b
  <2>1. ConfigJobInv(b)  BY <1>7, JobStepStart
  <2>2. OpenOn(u, b)  BY <1>1, <1>2 DEF OpenOn
  <2>3. CASE ~Stored(b)
    <3>1. ~Stored(b)'  BY <1>3, <2>3 DEF Stored
    <3>2. \A r \in Runs : TaskJobInv(r, b)'
      BY <1>3, <2>1, <2>3 DEF ConfigJobInv, TaskJobInv
    <3>. QED  BY <1>4, <1>7, <2>1, <2>2, <3>1, <3>2, ClosingRequestKeepsJobs
  <2>4. CASE Stored(b)
    <3>1. /\ new.consecutive_failures \in {0, old.consecutive_failures}
          /\ new.max_consecutive_failures = old.max_consecutive_failures
          /\ row[b].is_enabled = old.is_enabled
          /\ row[b].schedule_type = old.schedule_type
          /\ row[b].schedule = old.schedule
          /\ JobDue(b, new)
      BY <1>1, <1>2, <2>1, <2>2, <2>4 DEF ConfigJobInv, OpenJobInv
    <3>2. ~Exhausted(row[b]) /\ row[b] \in Row
      BY <1>1, <2>1, <2>4 DEF ConfigJobInv, RowJobInv, TypeOK
    <3>. DEFINE flushed == Flushed(row[b], old, new)
    <3>3. /\ flushed.is_enabled = new.is_enabled
          /\ flushed.schedule_type = new.schedule_type
          /\ flushed.schedule = new.schedule
          /\ flushed.max_consecutive_failures = row[b].max_consecutive_failures
          /\ flushed.consecutive_failures \in {0, row[b].consecutive_failures}
      BY <3>1, <3>2 DEF Flushed, Row
    <3>4. row' = [row EXCEPT ![b] = flushed]  BY <1>3, <2>4
    <3>. HIDE DEF flushed
    <3>5. row'[b] = flushed  BY <1>1, <3>4 DEF TypeOK
    <3>6. ~Exhausted(flushed)  BY <3>2, <3>3 DEF Exhausted, Row
    <3>7. ~Exhausted(row[b])'  BY <3>5, <3>6 DEF Exhausted
    <3>8. JobDue(b, row[b])'  BY <1>3, <3>1, <3>3, <3>5 DEF JobDue
    <3>9. \A r \in Runs : TaskJobInv(r, b)'
      BY <1>3, <2>1, <3>3, <3>5 DEF ConfigJobInv, TaskJobInv
    <3>. QED  BY <1>4, <1>7, <2>1, <2>2, <3>7, <3>8, <3>9, ClosingRequestKeepsJobs
  <2>. QED  BY <2>3, <2>4
<1>. QED  BY <1>6, <1>7

\* A delete that succeeds leaves no config; one that fails leaves it excused.
LEMMA CommitDeleteKeepsJobs ==
    ASSUME JobStep, NEW u \in Clients, CommitDelete(u), NEW c \in Configs, ~Excused(c)'
    PROVE  ConfigJobInv(c)'
<1>1. TypeOK /\ request[u].op = "delete" /\ request[u].config \in Configs
  BY DEF JobStep, IInv, CommitDelete, RequestInv
<1>2. PICK b \in Configs : b = request[u].config  BY <1>1
<1>3. /\ \/ exists' = [exists EXCEPT ![b] = "deleted"]
         \/ UNCHANGED exists /\ apart' = apart \cup {b}
      /\ Closed(u) /\ UNCHANGED <<row, clock, up, jobs, task, dlq>>
  BY <1>2 DEF CommitDelete
<1>4. request'[u].op = "idle" /\ OthersWait(u) /\ StartsOnly
  BY <1>1, <1>3, ClosedEffect DEF OthersWait, StartsOnly, RequestSet
<1>5. OthersAside(u, b)
  BY <1>1, <1>2, <1>3, <1>4 DEF OthersAside, OpenOn, TypeOK
<1>6. CASE c # b  BY <1>3, <1>4, <1>5, <1>6, OthersKeepJobs
<1>7. CASE c = b
  <2>1. ConfigJobInv(b)  BY <1>7, JobStepStart
  <2>2. OpenOn(u, b)  BY <1>1, <1>2 DEF OpenOn
  <2>3. ~Stored(b)'  BY <1>1, <1>3, <1>7 DEF Stored, TypeOK, Excused
  <2>4. \A r \in Runs : TaskJobInv(r, b)'
    BY <1>3, <2>1 DEF ConfigJobInv, TaskJobInv
  <2>. QED  BY <1>4, <1>7, <2>1, <2>2, <2>3, <2>4, ClosingRequestKeepsJobs
<1>. QED  BY <1>6, <1>7

LEMMA EndRetryKeepsJobs ==
    ASSUME JobStep, NEW u \in Clients, EndRetry(u), NEW c \in Configs, ~Excused(c)'
    PROVE  ConfigJobInv(c)'
<1>1. TypeOK /\ request[u].op = "retry" /\ request[u].config \in Configs
  BY DEF JobStep, IInv, EndRetry, RequestInv
<1>2. PICK b \in Configs : b = request[u].config  BY <1>1
<1>. DEFINE t == Called(b, FALSE)
<1>3. t.pc = "called"  BY DEF Called, NoTask
<1>4. /\ task' = [task EXCEPT ![request[u].run] = t] /\ Closed(u)
      /\ UNCHANGED <<exists, row, clock, up, jobs, run, apart>>
  BY <1>2 DEF EndRetry
<1>. HIDE DEF t
<1>5. request'[u].op = "idle" /\ OthersWait(u)
  BY <1>1, <1>4, ClosedEffect DEF OthersWait, RequestSet
<1>6. StartsOnly  BY <1>1, <1>3, <1>4 DEF StartsOnly, TypeOK
<1>7. OthersAside(u, b)  BY <1>2, <1>4, <1>5 DEF OthersAside, OpenOn
<1>8. c # b
  BY <1>1, <1>2, JobStepStart DEF ConfigJobInv, OpenJobInv, OpenOn
<1>. QED  BY <1>4, <1>5, <1>6, <1>7, <1>8, OthersKeepJobs

LEMMA RollbackKeepsJobs ==
    ASSUME JobStep, NEW u \in Clients, Rollback(u), NEW c \in Configs, ~Excused(c)'
    PROVE  ConfigJobInv(c)'
<1>1. TypeOK /\ request[u].op # "idle" /\ request[u].config \in Configs
  BY DEF JobStep, IInv, Rollback, RequestInv
<1>2. PICK b \in Configs : b = request[u].config  BY <1>1
<1>3. /\ UNCHANGED exists \/ exists' = [exists EXCEPT ![b] = "deleted"]
      /\ request[u].op # "retry" => apart' = apart \cup {b}
      /\ Closed(u) /\ UNCHANGED <<row, clock, up, jobs, run, task, dlq>>
  BY <1>2 DEF Rollback
<1>4. request'[u].op = "idle" /\ OthersWait(u) /\ StartsOnly
  BY <1>1, <1>3, ClosedEffect DEF OthersWait, StartsOnly, RequestSet
<1>5. OthersAside(u, b)
  BY <1>1, <1>2, <1>3, <1>4 DEF OthersAside, OpenOn, TypeOK
<1>6. c # b
  <2>1. CASE request[u].op = "retry"
    BY <1>1, <1>2, <2>1, JobStepStart DEF ConfigJobInv, OpenJobInv, OpenOn
  <2>2. CASE request[u].op # "retry"  BY <1>3, <2>2 DEF Excused
  <2>. QED  BY <2>1, <2>2
<1>. QED  BY <1>3, <1>4, <1>5, <1>6, OthersKeepJobs

-----------------------------------------------------------------------------
(* The process.                                                            *)

LEMMA CrashKeepsJobs ==
    ASSUME JobStep, Crash, NEW c \in Configs, ~Excused(c)'
    PROVE  ConfigJobInv(c)'
<1>1. \A u \in Clients : request'[u].op = "idle"  BY DEF Crash, Idle
<1>2. \A r \in Runs : task'[r].pc = "none"  BY DEF Crash, NoTask
<1>3. Stored(c)' => Stored(c)  BY DEF Crash, Stored
<1>4. row' = row /\ ~up'  BY DEF Crash
<1>5. ConfigJobInv(c)  BY JobStepStart
<1>6. RowJobInv(c)'  BY <1>3, <1>4, <1>5 DEF ConfigJobInv, RowJobInv
<1>. QED  BY <1>1, <1>2, <1>6 DEF ConfigJobInv, TaskJobInv, OpenOn

\* load_schedulers_from_db gives every config that needs a job one.
LEMMA RestartKeepsJobs ==
    ASSUME IInv, JobInv, Restart, NEW c \in Configs, ~Excused(c)'
    PROVE  ConfigJobInv(c)'
<1>1. /\ ~up /\ UNCHANGED <<exists, row, clock, run, task, dlq, request>>
      /\ apart' = {b \in apart : Exhausted(row[b])}
      /\ jobs' = [b \in Configs |-> IF Stored(b) /\ Schedulable(b, row[b])
                                    THEN row[b].schedule_type ELSE "none"]
  BY DEF Restart
<1>2. \A u \in Clients : request'[u].op = "idle"  BY <1>1 DEF JobInv, UpInv
<1>3. \A r \in Runs : task'[r].pc = "none"  BY <1>1 DEF JobInv, UpInv
<1>4. Stored(c) => ~Exhausted(row[c])
  <2>1. CASE Excused(c)  BY <1>1, <2>1 DEF Excused, HasLetter
  <2>2. CASE ~Excused(c)  BY <2>2 DEF JobInv, ConfigJobInv, RowJobInv
  <2>. QED  BY <2>1, <2>2
<1>5. ASSUME Stored(c), row[c].is_enabled, row[c].schedule_type = "interval",
             row[c].schedule = "ok", clock[c] # "after"
      PROVE  jobs'[c] = "interval"
  BY <1>1, <1>4, <1>5 DEF Schedulable, Wanted
<1>6. RowJobInv(c)'
  BY <1>1, <1>4, <1>5 DEF RowJobInv, JobDue, Stored, Exhausted
<1>. QED  BY <1>2, <1>3, <1>6 DEF ConfigJobInv, TaskJobInv, OpenOn

LEMMA NextKeepsUp == IInv /\ JobInv /\ [Next]_vars => UpInv'
<1>. SUFFICES ASSUME IInv, UpInv, [Next]_vars PROVE UpInv'
  BY DEF JobInv
<1>1. ASSUME NEW r \in Runs, ExecutorStep(r) PROVE UpInv'
  BY <1>1, ExecutorStepEffect DEF IInv, ExecutorEffect, ExecutorFrame, OthersKept, UpInv
<1>2. CASE Crash
  <2>1. \A u \in Clients : request'[u].op = "idle"  BY <1>2 DEF Crash, Idle
  <2>2. \A r \in Runs : task'[r].pc = "none"  BY <1>2 DEF Crash, NoTask
  <2>. QED  BY <2>1, <2>2 DEF UpInv
<1>3. CASE UNCHANGED <<up, request, task>>  BY <1>3 DEF UpInv
<1>4. CASE up'  BY <1>4 DEF UpInv
<1>5. ASSUME NEW u \in Clients, RequestStep(u) PROVE up'
  <2>1. CASE Free(u) /\ UNCHANGED up  BY <2>1 DEF Free
  <2>2. CASE request[u].op # "idle" /\ UNCHANGED up  BY <2>2 DEF UpInv
  <2>. QED
    BY <1>5, <2>1, <2>2
       DEF RequestStep, create_scheduler_config, CommitCreate, CommitUpdate,
           update_scheduler_config, toggle_scheduler, delete_scheduler_config, CommitDelete,
           EndRetry, Rollback, retry_dead_letter_job, abandon_dead_letter_job
<1>6. ASSUME NEW c \in Configs, StartDatePasses(c) \/ EndDatePasses(c) PROVE UpInv'
  BY <1>3, <1>6 DEF StartDatePasses, EndDatePasses
<1>7. ASSUME NEW c \in Configs, Fire(c) \/ trigger_scheduler_manual(c) PROVE UpInv'
  <2>1. up /\ up' = up  BY <1>7 DEF Fire, trigger_scheduler_manual
  <2>2. up'  BY <2>1
  <2>. QED  BY <1>4, <2>2
<1>8. CASE Restart
  <2>1. up' = TRUE  BY <1>8 DEF Restart
  <2>2. up'  BY <2>1
  <2>. QED  BY <1>4, <2>2
<1>9. CASE UNCHANGED vars  BY <1>3, <1>9 DEF vars
<1>. QED  BY <1>1, <1>2, <1>4, <1>5, <1>6, <1>7, <1>8, <1>9 DEF Next

\* What a step does to the request of u.
LEMMA RequestMoves ==
    ASSUME IInv, [Next]_vars, NEW u \in Clients
    PROVE  \/ request'[u] = request[u]
           \/ request'[u].op \in {"idle", "create"}
           \/ UNCHANGED exists /\ Stored(request'[u].config)
<1>. USE DEF IInv
<1>. DEFINE Moves == \/ request'[u] = request[u]
                     \/ request'[u].op \in {"idle", "create"}
                     \/ UNCHANGED exists /\ Stored(request'[u].config)
<1>1. ASSUME NEW v \in Clients, RequestStep(v) PROVE Moves
  <2>1. CASE create_scheduler_config(v)
    <3>1. request'[v].op = "create" /\ RequestSet(v, request'[v])
      BY <2>1, CreateOpens
    <3>. QED  BY <3>1 DEF RequestSet
  <2>2. ASSUME NEW c \in Configs, NEW new \in Row, Changed(v, c, new), Stored(c),
               UNCHANGED exists
        PROVE  Moves
    BY <2>2 DEF Changed, RequestSet
  <2>3. ASSUME NEW c \in Configs, update_scheduler_config(v, c) PROVE Moves
    BY <2>2, <2>3, UpdateOpens DEF update_scheduler_config
  <2>4. ASSUME NEW c \in Configs, NEW e \in BOOLEAN, toggle_scheduler(v, c, e) PROVE Moves
    BY <2>2, <2>4, ToggleOpens DEF toggle_scheduler
  <2>5. ASSUME NEW c \in Configs, delete_scheduler_config(v, c) PROVE Moves
    BY <2>5, DeleteOpens DEF RequestSet, delete_scheduler_config
  <2>6. CASE Closed(v)  BY <2>6, ClosedEffect DEF RequestSet
  <2>7. ASSUME NEW d \in Runs, retry_dead_letter_job(v, d) PROVE Moves
    <3>1. UNCHANGED exists /\ Stored(run[d].config)
      BY <2>7 DEF retry_dead_letter_job
    <3>2. /\ request'[v].config = run[d].config
          /\ \A w \in Clients \ {v} : request'[w] = request[w]
      BY <2>7, RetryReads
    <3>. QED  BY <3>1, <3>2
  <2>8. CASE UNCHANGED request  BY <2>8
  <2>. QED
    BY <1>1, <2>1, <2>3, <2>4, <2>5, <2>6, <2>7, <2>8
       DEF RequestStep, CommitCreate, CommitUpdate, CommitDelete, EndRetry, Rollback,
           abandon_dead_letter_job
<1>2. ASSUME NEW r \in Runs, ExecutorStep(r) PROVE Moves
  BY <1>2, ExecutorStepEffect DEF ExecutorEffect, ExecutorFrame
<1>3. CASE Crash
  <2>1. request'[u].op = "idle"  BY <1>3 DEF Crash, Idle
  <2>. QED  BY <2>1
<1>4. CASE UNCHANGED request  BY <1>4
<1>. QED
  BY <1>1, <1>2, <1>3, <1>4
     DEF Next, Fire, trigger_scheduler_manual, StartDatePasses, EndDatePasses, Restart, vars

\* A config that is there or was never becomes anything else.
LEMMA ConfigsRemain ==
    ASSUME IInv, [Next]_vars, NEW c \in Configs, exists[c] \in {"stored", "deleted"}
    PROVE  exists'[c] \in {"stored", "deleted"}
<1>. USE DEF IInv
<1>1. ASSUME NEW r \in Runs, ExecutorStep(r) PROVE UNCHANGED exists
  BY <1>1, ExecutorStepEffect DEF ExecutorEffect, ExecutorFrame
<1>2. ASSUME NEW u \in Clients, create_scheduler_config(u) PROVE exists'[c] = exists[c]
  BY <1>2, CreateOpens DEF TypeOK
<1>3. ASSUME NEW u \in Clients, CommitCreate(u) \/ CommitDelete(u) \/ Rollback(u)
      PROVE  exists'[c] \in {"stored", "deleted"}
  BY <1>3 DEF CommitCreate, CommitDelete, Rollback, TypeOK
<1>4. CASE Crash  BY <1>4 DEF Crash
<1>5. CASE UNCHANGED exists  BY <1>5
<1>. QED
  BY <1>1, <1>2, <1>3, <1>4, <1>5
     DEF Next, RequestStep, CommitUpdate,
         update_scheduler_config, toggle_scheduler, delete_scheduler_config,
         EndRetry, retry_dead_letter_job, abandon_dead_letter_job, Fire,
         trigger_scheduler_manual, StartDatePasses, EndDatePasses, Restart, vars

LEMMA NextKeepsNamed == IInv /\ JobInv /\ [Next]_vars => NamedInv'
<1>. SUFFICES ASSUME IInv, NamedInv, [Next]_vars, NEW u \in Clients,
                     request'[u].op \in {"update", "delete", "retry"}
              PROVE  exists'[request'[u].config] \in {"stored", "deleted"}
  BY DEF JobInv, NamedInv
<1>1. CASE request'[u] = request[u]
  <2>1. request[u].config \in Configs /\ exists[request[u].config] \in {"stored", "deleted"}
    BY <1>1 DEF IInv, RequestInv, NamedInv
  <2>. QED  BY <1>1, <2>1, ConfigsRemain
<1>2. CASE UNCHANGED exists /\ Stored(request'[u].config)  BY <1>2 DEF Stored
<1>. QED  BY <1>1, <1>2, RequestMoves

LEMMA InitJobs == Init => JobInv
<1>. SUFFICES ASSUME Init PROVE JobInv  OBVIOUS
<1>1. \A u \in Clients : request[u].op = "idle"  BY DEF Init, Idle
<1>2. \A r \in Runs : task[r].pc = "none"  BY DEF Init, NoTask
<1>3. \A c \in Configs : ~Stored(c)  BY DEF Init, Stored
<1>. QED
  BY <1>1, <1>2, <1>3
     DEF JobInv, ConfigJobInv, RowJobInv, OpenOn, TaskJobInv, UpInv, NamedInv

LEMMA NextKeepsJobs == IInv /\ RetryReadInv /\ JobInv /\ [Next]_vars => JobInv'
<1>. SUFFICES ASSUME IInv, RetryReadInv, JobInv, [Next]_vars,
                     NEW c \in Configs, ~Excused(c)'
              PROVE  ConfigJobInv(c)'
  BY NextKeepsUp, NextKeepsNamed DEF JobInv
<1>1. CASE Restart  BY <1>1, RestartKeepsJobs
<1>2. CASE ~Restart
  <2>1. JobStep  BY <1>2 DEF JobStep
  <2>2. ASSUME NEW r \in Runs, ExecutorStep(r) PROVE ConfigJobInv(c)'
    BY <2>1, <2>2, ExecutorKeepsJobs
  <2>3. ASSUME NEW u \in Clients, RequestStep(u) PROVE ConfigJobInv(c)'
    <3>1. ASSUME NEW b \in Configs, \/ update_scheduler_config(u, b)
                                    \/ delete_scheduler_config(u, b)
                                    \/ \E e \in BOOLEAN : toggle_scheduler(u, b, e)
          PROVE  ConfigJobInv(c)'
      BY <2>1, <3>1, UpdateKeepsJobs, DeleteKeepsJobs, ToggleKeepsJobs
    <3>2. ASSUME NEW d \in Runs,
                 retry_dead_letter_job(u, d) \/ abandon_dead_letter_job(u, d)
          PROVE  ConfigJobInv(c)'
      BY <2>1, <3>2, RetryKeepsJobs, AsideKeepsJobs
    <3>. QED
      BY <2>1, <2>3, <3>1, <3>2, CreateKeepsJobs, CommitCreateKeepsJobs,
         CommitUpdateKeepsJobs, CommitDeleteKeepsJobs, EndRetryKeepsJobs,
         RollbackKeepsJobs DEF RequestStep
  <2>4. CASE UNCHANGED vars \/ \E b \in Configs : \/ Fire(b) \/ trigger_scheduler_manual(b)
                                                  \/ StartDatePasses(b) \/ EndDatePasses(b)
    BY <2>1, <2>4, AsideKeepsJobs
  <2>. QED  BY <1>2, <2>1, <2>2, <2>3, <2>4, CrashKeepsJobs DEF Next
<1>. QED  BY <1>1, <1>2

\* With any number of requests, runs, crashes, failed commits, exhausted and
\* changed limits and useless schedules, a healthy config lacks its job only
\* where the property says it may (executor.py:72-141, service.py:168-225).
THEOREM HealthyKeepsItsJob == Spec => []UnscheduledOnlyByDeadLetter
<1>1. IInv /\ JobInv => UnscheduledOnlyByDeadLetter
  <2>. SUFFICES ASSUME JobInv, NEW c \in Configs, up, Quiet(c), Healthy(c), jobs[c] = "none"
                PROVE  Excused(c)
    BY DEF UnscheduledOnlyByDeadLetter, Excused, HasLetter
  <2>1. \A u \in Clients : ~OpenOn(u, c)  BY DEF Quiet, OpenOn
  <2>. QED  BY <2>1 DEF JobInv, ConfigJobInv, RowJobInv, JobDue, Healthy
<1>. QED
  BY <1>1, InitJobs, NextKeepsJobs, RetryReadsInvariant, SchedulerInvariant, PTL DEF Spec

-----------------------------------------------------------------------------
(* The end of a run.                                                       *)

\* A step of the abstract run takes no final status back.
LEMMA SettledStays ==
    ASSUME [Lifecycle!Next]_(Lifecycle!lifeVars), NEW r \in Runs,
           run[r].status \in Settled
    PROVE  run'[r].status \in {run[r].status, "deleted"}
<1>. DEFINE status == [q \in Runs |-> run[q].status]
<1>1. status[r] \in Settled /\ status'[r] = run'[r].status  OBVIOUS
<1>2. CASE status' = status  BY <1>1, <1>2
<1>3. ASSUME NEW q \in Runs, Lifecycle!Begin(q) \/ Lifecycle!Settle(q)
      PROVE  run'[r].status = run[r].status
  <2>1. status[q] \in {"absent", "running"}
    BY <1>3 DEF Lifecycle!Begin, Lifecycle!Settle
  <2>2. q # r  BY <1>1, <2>1 DEF Settled
  <2>3. PICK s : status' = [status EXCEPT ![q] = s]
    BY <1>3 DEF Lifecycle!Begin, Lifecycle!Settle
  <2>4. status'[r] = status[r]  BY <2>2, <2>3
  <2>. QED  BY <1>1, <2>4
<1>4. ASSUME NEW removed \in SUBSET Runs, Lifecycle!Remove(removed)
      PROVE  run'[r].status \in {run[r].status, "deleted"}
  <2>1. status' = [q \in Runs |-> IF q \in removed THEN "deleted" ELSE status[q]]
    BY <1>4 DEF Lifecycle!Remove
  <2>2. status'[r] \in {status[r], "deleted"}  BY <2>1
  <2>. QED  BY <1>1, <2>2
<1>5. ASSUME NEW q \in Runs, Lifecycle!Mark(q) PROVE status' = status
  BY <1>5 DEF Lifecycle!Mark
<1>. QED  BY <1>2, <1>3, <1>4, <1>5 DEF Lifecycle!Next, Lifecycle!lifeVars

\* The refinement at work: a run keeps the final status it was given until it
\* is deleted with its config, whatever else is closed, retried or restarted
\* (executor.py:370-381, 426-433).
THEOREM RunsSettleOnce ==
    Spec => [][\A r \in Runs : run[r].status \in Settled =>
                  run'[r].status \in {run[r].status, "deleted"}]_vars
<1>1. IInv /\ IInv' /\ [Next]_vars =>
        [\A r \in Runs : run[r].status \in Settled =>
            run'[r].status \in {run[r].status, "deleted"}]_vars
  BY NextImplements, SettledStays
<1>. QED  BY <1>1, SchedulerInvariant, PTL DEF Spec

\* Past its first session, and not done with its run.
AtWork(r) == task[r].pc \in {"admitted", "collecting", "finalizing", "failing"}

\* An exception that nothing caught ends its coroutine, in one of two places.
IsLost(r) == task[r].pc \in {"admitted", "failing"} /\ task'[r].pc = "lost"

LEMMA ExecutorDropsNoRun ==
    ASSUME IInv, NEW r \in Runs, ExecutorStep(r), AtWork(r), ~AtWork(r)', ~Lose(r)
    PROVE  run'[r].status \in Settled \cup {"deleted"}
<1>1. ExecutorEffect(r)  BY ExecutorStepEffect DEF IInv
<1>2. CASE SettlesRun(r)  BY <1>2 DEF SettlesRun
<1>3. CASE ~SettlesRun(r)
  <2>1. run'[r].status = run[r].status
    BY <1>1, <1>3 DEF ExecutorEffect, RecordsRun, WorksOnRun, Unrecorded, AtWork
  <2>2. /\ run[r].status \in {"running", "deleted"}
        /\ run[r].status = "running" => Stored(task[r].config)
    BY DEF IInv, TaskInv, RunInv, AtWork, Collecting, Unrecorded
  <2>3. \/ ~Stored(task[r].config) \/ run[r].status = "deleted"
        \/ \E status \in Settled, critical \in BOOLEAN : Close(r, status, critical)
    <3>1. ASSUME NEW pc \in {"admitted", "collecting", "finalizing", "failing"},
                 Goes(r, pc) \/ GoesWith(r, pc, row[task[r].config])
          PROVE  FALSE
      <4>1. row[task[r].config] \in Row
        BY DEF IInv, TaskInv, TypeOK, AtWork
      <4>2. TaskMoved(r, pc)
        BY <3>1, <4>1, GoesEffect, GoesWithEffect DEF IInv, TypeOK, TaskPC
      <4>. QED  BY <4>2 DEF TaskMoved, AtWork
    <3>2. CASE FinalizeCommit(r)
      <4>1. FinalStatus(task[r]) \in Settled /\ FALSE \in BOOLEAN
        BY DEF FinalStatus, Settled
      <4>. QED  BY <3>2, <4>1 DEF FinalizeCommit
    <3>3. CASE CriticalCommit(r)
      <4>1. "failed" \in Settled /\ TRUE \in BOOLEAN  BY DEF Settled
      <4>. QED  BY <3>3, <4>1 DEF CriticalCommit
    <3>4. CASE Reload(r)
      <4>. DEFINE t == [task[r] EXCEPT !.pc = "collecting",
                                       !.collect = row[task[r].config].collect]
      <4>1. t.pc = "collecting"  BY DEF IInv, TypeOK, Task
      <4>2. ~Stored(task[r].config) \/ task' = [task EXCEPT ![r] = t]
        BY <3>4 DEF Reload
      <4>. HIDE DEF t
      <4>. QED  BY <4>1, <4>2 DEF IInv, TypeOK, AtWork
    <3>5. CASE Collect(r)
      <4>1. PICK outcome : Record(r, NextType(Todo(r)), outcome)  BY <3>5 DEF Collect
      <4>2. TaskMoved(r, task[r].pc)
        BY <4>1, NextTypeType, RecordEffect DEF IInv, TypeOK
      <4>. QED  BY <4>2 DEF TaskMoved, AtWork
    <3>6. CASE CriticalRead(r)
      BY <3>1, <3>6 DEF CriticalRead
    <3>7. CASE FinalizeRead(r) \/ Vanish(r)
      BY <3>1, <3>7 DEF FinalizeRead, Vanish
    <3>8. ~(Admit(r) \/ Skip(r) \/ Unschedule(r) \/ Recheck(r))
      BY DEF AtWork, Admit, Skip, Unschedule, Recheck
    <3>. QED
      BY <3>2, <3>3, <3>4, <3>5, <3>6, <3>7, <3>8 DEF ExecutorStep
  <2>4. ASSUME NEW status \in Settled, NEW critical \in BOOLEAN,
               Close(r, status, critical)
        PROVE  run'[r].status \in Settled
    BY <2>4, CloseEffect DEF IInv, TypeOK, TaskInv, AtWork
  <2>. QED  BY <2>1, <2>2, <2>3, <2>4
<1>. QED  BY <1>2, <1>3

LEMMA NextDropsNoRun ==
    ASSUME IInv, [Next]_vars, NEW r \in Runs, AtWork(r), ~AtWork(r)', up', ~IsLost(r)
    PROVE  run'[r].status \in Settled \cup {"deleted"}
<1>1. ASSUME NEW q \in Runs, ExecutorStep(q)
      PROVE  run'[r].status \in Settled \cup {"deleted"}
  <2>1. ExecutorEffect(q)  BY <1>1, ExecutorStepEffect DEF IInv
  <2>2. q = r  BY <2>1 DEF ExecutorEffect, ExecutorFrame, OthersKept, AtWork
  <2>3. ASSUME Lose(r) PROVE FALSE
    <3>. DEFINE t == [NoTask EXCEPT !.pc = "lost", !.config = task[r].config]
    <3>1. t.pc = "lost"  BY DEF NoTask
    <3>2. task' = [task EXCEPT ![r] = t] /\ task[r].pc \in {"admitted", "failing"}
      BY <2>3 DEF Lose
    <3>. HIDE DEF t
    <3>. QED  BY <3>1, <3>2 DEF IInv, TypeOK, IsLost
  <2>. QED  BY <1>1, <2>2, <2>3, ExecutorDropsNoRun
<1>2. CASE UNCHANGED task  BY <1>2 DEF AtWork
<1>3. CASE Crash  BY <1>3 DEF Crash
<1>4. ASSUME NEW q \in Runs, task[q].pc = "none", NEW t, task' = [task EXCEPT ![q] = t]
      PROVE  FALSE
  BY <1>4 DEF AtWork, IInv, TypeOK
<1>5. ASSUME NEW c \in Configs, Fire(c) \/ trigger_scheduler_manual(c) PROVE FALSE
  BY <1>4, <1>5 DEF Fire, trigger_scheduler_manual, Fresh
<1>6. ASSUME NEW u \in Clients, EndRetry(u) PROVE FALSE
  BY <1>4, <1>6 DEF EndRetry, IInv, RequestInv
<1>. QED
  BY <1>1, <1>2, <1>3, <1>5, <1>6
     DEF Next, RequestStep, create_scheduler_config, CommitCreate, CommitUpdate,
         update_scheduler_config, toggle_scheduler, delete_scheduler_config, CommitDelete,
         Rollback, retry_dead_letter_job, abandon_dead_letter_job,
         StartDatePasses, EndDatePasses, Restart, vars

\* The safety half of AdmittedRunSettles, for any number of runs: no coroutine
\* leaves an admitted run RUNNING behind it, whatever fails on the way and is
\* deleted meanwhile, unless the process is lost or the database fails the
\* session that reloads the config or the one that records a critical failure
\* (executor.py:190-191, 205-472).
THEOREM NoRunIsDropped ==
    Spec => [][\A r \in Runs : AtWork(r) /\ ~AtWork(r)' =>
                  \/ run'[r].status \in Settled \cup {"deleted"}
                  \/ ~up'
                  \/ IsLost(r)]_vars
<1>1. IInv /\ [Next]_vars =>
        [\A r \in Runs : AtWork(r) /\ ~AtWork(r)' =>
            \/ run'[r].status \in Settled \cup {"deleted"}
            \/ ~up'
            \/ IsLost(r)]_vars
  BY NextDropsNoRun
<1>. QED  BY <1>1, SchedulerInvariant, PTL DEF Spec

==============================================================================
