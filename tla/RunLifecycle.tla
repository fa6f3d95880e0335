---------------------------- MODULE RunLifecycle ----------------------------
(***************************************************************************)
(* What the scheduler promises about one run and its dead letter, apart    *)
(* from configs, coroutines and transactions: a run settles at most once,  *)
(* a dead letter is written by the very step that fails its run, and it    *)
(* never returns to the pending state.                                     *)
(***************************************************************************)
CONSTANT Runs
VARIABLES status, letter

lifeVars == <<status, letter>>

Init ==
    /\ status = [r \in Runs |-> "absent"]
    /\ letter = [r \in Runs |-> "none"]

\* A run record is created, with status RUNNING.
Begin(r) ==
    /\ status[r] = "absent"
    /\ status' = [status EXCEPT ![r] = "running"]
    /\ UNCHANGED letter

\* A running run gets its final status; only a failure adds a dead letter.
Settle(r) ==
    /\ status[r] = "running"
    /\ \E s \in {"completed", "failed", "partial"} :
        /\ status' = [status EXCEPT ![r] = s]
        /\ \/ UNCHANGED letter
           \/ /\ s = "failed"
              /\ letter[r] = "none"
              /\ letter' = [letter EXCEPT ![r] = "pending"]

\* The runs of a config are deleted with it; dead letters remain.
Remove(removed) ==
    /\ \A r \in removed : status[r] # "absent"
    /\ status' = [r \in Runs |-> IF r \in removed THEN "deleted" ELSE status[r]]
    /\ UNCHANGED letter

\* A dead letter is retried or abandoned.
Mark(r) ==
    /\ letter[r] # "none"
    /\ \E s \in {"retried", "abandoned"} : letter' = [letter EXCEPT ![r] = s]
    /\ UNCHANGED status

Next ==
    \/ \E r \in Runs : Begin(r) \/ Settle(r) \/ Mark(r)
    \/ \E removed \in SUBSET Runs : Remove(removed)

Spec == Init /\ [][Next]_lifeVars
=============================================================================
