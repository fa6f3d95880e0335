------------------------------ MODULE ExportJobs ------------------------------
(***************************************************************************)
(* Export jobs (app/enterprise/modules/export/service.py and router.py).   *)
(*                                                                         *)
(* An export is executed inside one HTTP request: its row is loaded,       *)
(* changed and flushed several times in the request's transaction, and     *)
(* committed when the request ends (get_db, database.py:71-78).  The file  *)
(* it writes, and the copy it uploads, belong to no transaction.  Nothing  *)
(* keeps two requests from executing one job, so what the database does is *)
(* part of the model: the first flush takes the lock of the row until the  *)
(* transaction ends, and a flush writes only the columns whose value       *)
(* changed in the request's own copy of the row.                           *)
(***************************************************************************)
EXTENDS Naturals, FiniteSets

CONSTANTS
    Requests,      \* HTTP requests served concurrently
    Jobs,          \* identifiers of export jobs
    Uploads,       \* jobs whose delivery_config names a store; for the method
                   \* "email", and for an unknown one, the code does nothing,
                   \* as without a delivery_config (service.py:575-594, 657-667)
    PageLimit,     \* rows of a full page
    MaxRows,       \* bound: rows an organization has
    MaxSecond,     \* bound: seconds of the clock
    None,          \* the value of a column that was never set
    Partial        \* the content of a file whose writing broke off

ASSUME ExportAssumption ==
    /\ IsFiniteSet(Requests)
    /\ Uploads \subseteq Jobs
    /\ PageLimit \in Nat \ {0}
    /\ MaxRows \in Nat
    /\ MaxSecond \in Nat
    /\ None \notin Nat \cup Requests \cup {Partial}

VARIABLES
    job,        \* job[j]: the committed row of j
    lock,       \* lock[j]: the request whose transaction holds the row of j
    disk,       \* disk[j][s]: rows in the file that second s gives the job j,
                \* Partial, or None when there is none
    uploaded,   \* the files delivered: pairs of a job and a second
    clock,      \* utc_now(), in seconds: the precision of a file name
    session     \* session[u]: the transaction of request u

vars == <<job, lock, disk, uploaded, clock, session>>

Seconds == 0..MaxSecond

\* The columns the properties tell apart; file is the second in the name.
Row == [status : {"absent", "pending", "processing", "completed", "failed"},
        records : Nat \cup {None},
        file : Seconds \cup {None},
        failure : BOOLEAN]             \* error_message is not null

NoRow == [status |-> "absent", records |-> None, file |-> None, failure |-> FALSE]

\* mine: the request's copy of the row; tx: the row its transaction would
\* leave; got: rows fetched so far.
Closed == [pc |-> "idle", job |-> None, mine |-> NoRow, tx |-> NoRow, got |-> 0]

Init ==
    /\ job = [j \in Jobs |-> NoRow]
    /\ lock = [j \in Jobs |-> None]
    /\ disk = [j \in Jobs |-> [s \in Seconds |-> None]]
    /\ uploaded = {}
    /\ clock = 0
    /\ session = [u \in Requests |-> Closed]

\* An UPDATE of the columns in which mine differs from its last flushed value.
Flushed(tx, old, mine) ==
    [status  |-> IF mine.status # old.status THEN mine.status ELSE tx.status,
     records |-> IF mine.records # old.records THEN mine.records ELSE tx.records,
     file    |-> IF mine.file # old.file THEN mine.file ELSE tx.file,
     failure |-> IF mine.failure # old.failure THEN mine.failure ELSE tx.failure]

\* Request u assigns mine, flushes, and goes on at pc.
Flush(u, mine, pc) ==
    session' = [session EXCEPT ![u].pc = pc, ![u].mine = mine,
                    ![u].tx = Flushed(session[u].tx, session[u].mine, mine)]

-----------------------------------------------------------------------------
(* Mutants: plausible bugs, each put in the place of the definition it is  *)
(* named for to show that a property notices.  No specification uses them. *)

\* the progress of an execution is committed as it goes
Begin_commits(u) ==
    LET j == session[u].job
        mine == [session[u].mine EXCEPT !.status = "processing"]
    IN  /\ session[u].pc = "loaded"
        /\ lock[j] = None
        /\ lock' = [lock EXCEPT ![j] = u]
        /\ job' = [job EXCEPT ![j].status = "processing"]
        /\ session' = [session EXCEPT ![u].pc = "fetching", ![u].mine = mine,
                           ![u].tx = Flushed(job[j], session[u].mine, mine)]
        /\ UNCHANGED <<disk, uploaded, clock>>

\* a failed delivery is only logged
WriteFile_ignores_delivery(u) ==
    LET j == session[u].job
        done == [session[u].mine EXCEPT !.status = "completed", !.file = clock]
    IN  /\ session[u].pc = "fetched"
        /\ disk' = [disk EXCEPT ![j][clock] = session[u].got]
        /\ Flush(u, done, "done")
        /\ UNCHANGED uploaded
        /\ UNCHANGED <<job, lock, clock>>

\* a request that is cut off leaves its transaction open
Abort_keeps_lock(u) ==
    /\ session[u].pc # "idle"
    /\ session' = [session EXCEPT ![u] = Closed]
    /\ UNCHANGED <<job, lock, disk, uploaded, clock>>

\* a status the response schema does not have
Failed_misspelt(mine) == [mine EXCEPT !.status = "error", !.failure = TRUE]

-----------------------------------------------------------------------------
(* The request handlers.                                                   *)

Failed(mine) == [mine EXCEPT !.status = "failed", !.failure = TRUE]

create_export_job(j) ==
    /\ job[j].status = "absent"
    /\ job' = [job EXCEPT ![j].status = "pending"]
    /\ UNCHANGED <<lock, disk, uploaded, clock, session>>

\* POST .../execute loads the row, whatever its status.
execute_export(u, j) ==
    /\ session[u].pc = "idle"
    /\ job[j].status # "absent"
    /\ session' = [session EXCEPT ![u] =
                      [Closed EXCEPT !.pc = "loaded", !.job = j, !.mine = job[j]]]
    /\ UNCHANGED <<job, lock, disk, uploaded, clock>>

\* The first flush waits for the lock of the row, then updates the row as it
\* has become meanwhile.
Begin(u) ==
    LET j == session[u].job
        mine == [session[u].mine EXCEPT !.status = "processing"]
    IN  /\ session[u].pc = "loaded"
        /\ lock[j] = None
        /\ lock' = [lock EXCEPT ![j] = u]
        /\ session' = [session EXCEPT ![u].pc = "fetching", ![u].mine = mine,
                           ![u].tx = Flushed(job[j], session[u].mine, mine)]
        /\ UNCHANGED <<job, disk, uploaded, clock>>

\* A full page that may be followed by another.
FetchPage(u) ==
    /\ session[u].pc = "fetching"
    /\ session[u].got + PageLimit <= MaxRows
    /\ session' = [session EXCEPT ![u].got = @ + PageLimit]
    /\ UNCHANGED <<job, lock, disk, uploaded, clock>>

\* What the last page, or the one call that fetches recommendations, adds up to.
RowsLeft(u) == session[u].got..MaxRows

\* Their count goes into the row.
FetchRest(u) ==
    /\ session[u].pc = "fetching"
    /\ \E n \in RowsLeft(u) :
          LET mine == [session[u].mine EXCEPT !.records = n]
          IN  session' = [session EXCEPT ![u].pc = "fetched", ![u].got = n,
                              ![u].mine = mine,
                              ![u].tx = Flushed(session[u].tx, session[u].mine, mine)]
    /\ UNCHANGED <<job, lock, disk, uploaded, clock>>

FetchFails(u) ==
    /\ session[u].pc = "fetching"
    /\ Flush(u, Failed(session[u].mine), "done")
    /\ UNCHANGED <<job, lock, disk, uploaded, clock>>

\* Formatting, writing and delivering do not yield to other requests.
WriteFile(u) ==
    LET j == session[u].job
        done == [session[u].mine EXCEPT !.status = "completed", !.file = clock]
    IN  /\ session[u].pc = "fetched"
        /\ disk' = [disk EXCEPT ![j][clock] = session[u].got]
        /\ \/ /\ uploaded' = IF j \in Uploads THEN uploaded \cup {<<j, clock>>}
                             ELSE uploaded
              /\ Flush(u, done, "done")
           \/ /\ j \in Uploads
              /\ Flush(u, Failed(done), "done")
              /\ UNCHANGED uploaded
        /\ UNCHANGED <<job, lock, clock>>

\* Formatting fails, as for PDF, which has no writer, or writing breaks off.
WriteFails(u) ==
    LET j == session[u].job
    IN  /\ session[u].pc = "fetched"
        /\ UNCHANGED disk \/ disk' = [disk EXCEPT ![j][clock] = Partial]
        /\ Flush(u, Failed(session[u].mine), "done")
        /\ UNCHANGED <<job, lock, uploaded, clock>>

Unlock(u) == [j \in Jobs |-> IF lock[j] = u THEN None ELSE lock[j]]

Commit(u) ==
    /\ session[u].pc = "done"
    /\ job' = [job EXCEPT ![session[u].job] = session[u].tx]
    /\ lock' = Unlock(u)
    /\ session' = [session EXCEPT ![u] = Closed]
    /\ UNCHANGED <<disk, uploaded, clock>>

\* The connection to the database or the server is lost before the commit: the
\* transaction is rolled back, the file stays.
Abort(u) ==
    /\ session[u].pc # "idle"
    /\ lock' = Unlock(u)
    /\ session' = [session EXCEPT ![u] = Closed]
    /\ UNCHANGED <<job, disk, uploaded, clock>>

Tick ==
    /\ clock < MaxSecond
    /\ clock' = clock + 1
    /\ UNCHANGED <<job, lock, disk, uploaded, session>>

Work(u) == FetchPage(u) \/ FetchRest(u) \/ FetchFails(u) \/ WriteFile(u)
           \/ WriteFails(u) \/ Commit(u)

Next ==
    \/ \E j \in Jobs : create_export_job(j)
    \/ \E u \in Requests :
          (\E j \in Jobs : execute_export(u, j)) \/ Begin(u) \/ Work(u) \/ Abort(u)
    \/ Tick

Spec == Init /\ [][Next]_vars

\* A request that runs goes on; a row lock is granted to each of its waiters in
\* turn.  Nobody has to execute a job.
Fairness == \A u \in Requests : WF_vars(Work(u)) /\ SF_vars(Begin(u))

FairSpec == Spec /\ Fairness

\* What GET .../download and GET .../file answer with the file of.
get_export_file(j) ==
    /\ job[j].status = "completed"
    /\ job[j].file # None
    /\ disk[j][job[j].file] # None

-----------------------------------------------------------------------------
(* Type invariant.                                                         *)

\* Rows, files and open transactions in their ranges (models.py:43-90).
TypeOK ==
    /\ job \in [Jobs -> Row]
    /\ lock \in [Jobs -> Requests \cup {None}]
    /\ disk \in [Jobs -> [Seconds -> Nat \cup {Partial, None}]]
    /\ uploaded \subseteq Jobs \X Seconds
    /\ clock \in Seconds
    /\ session \in [Requests ->
          [pc : {"idle", "loaded", "fetching", "fetched", "done"},
           job : Jobs \cup {None}, mine : Row, tx : Row, got : Nat]]

-----------------------------------------------------------------------------
(* Safety.                                                                 *)

\* An execution that dies leaves its job as it was: whatever is committed, no
\* job is ever left PROCESSING with nobody at work on it, so none has to be
\* recovered (service.py:482-487, 560-562; database.py:71-78).
NeverLeftProcessing == \A j \in Jobs : job[j].status # "processing"

\* A job that says COMPLETED has the file its download needs, and the same file
\* was uploaded when the job names a store, although executions of one job
\* overtake one another between loading the row and locking it, write only
\* what they changed, and share file names within a second (service.py:535-563,
\* router.py:278-345).  An export by e-mail is completed and never sent.
CompletedIsAvailable ==
    \A j \in Jobs : job[j].status = "completed" =>
        /\ get_export_file(j)
        /\ j \in Uploads => <<j, job[j].file>> \in uploaded

-----------------------------------------------------------------------------
(* Liveness, under Fairness.                                               *)

\* A request that executes an export ends, even when it waits for the row lock
\* of another execution that is cut off (service.py:482-564).
ExecutionEnds == \A u \in Requests : session[u].pc # "idle" ~> session[u].pc = "idle"
===============================================================================
