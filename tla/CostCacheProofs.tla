---------------------------- MODULE CostCacheProofs -----------------------------
(***************************************************************************)
(* Proofs about the stored cost summaries, for any number of tasks of each *)
(* kind, any number of readers and any lifetime.                           *)
(***************************************************************************)
EXTENDS CostCache, TLAPS

\* A refresh is before such a task, or under way.
Busy == {"created", "registered", "loaded", "empty", "collecting"}

\* The task that is registered is the one that may call the providers.
Registered == \A t \in Tasks :
    pc[t] \in Busy => active = t

Unspoilt == {"all", "silent"}

EarnedBefore == bare \/ \E t \in Tasks : stored[t] # None /\ stored[t].got \in Unspoilt

\* A task has no row before it commits, so no row is ever replaced.
OneRowEach == \A t \in Tasks : pc[t] # "done" => stored[t] = None

\* A task collects its row last.
RowComesLast == \A t \in Tasks : pc[t] \in Busy \cup {"new"} => tx[t].row = None

\* The status row never disappears again.
StatusStays == \A t \in Tasks :
    /\ seen[t] # "absent" => status # "absent"
    /\ pc[t] \in {"collecting", "saved"} => tx[t].status # "absent"

\* What the commit of t adds to it.
EarnedBy(t) == tx[t].row # None => tx[t].row.got \in Unspoilt

\* A transaction that would leave the status success has found no accounts or
\* noted no failure, or that has been committed before.
SuccessReady == \A t \in Tasks :
    pc[t] \in {"collecting", "saved"} /\ tx[t].status = "success" =>
        EarnedBefore \/ (pc[t] = "saved" /\ EarnedBy(t))

Inv ==
    /\ TypeOK
    /\ Registered
    /\ OneRowEach
    /\ RowComesLast
    /\ StatusStays
    /\ SuccessReady
    /\ SuccessIsEarned

-----------------------------------------------------------------------------
USE DEF Busy, Unspoilt

LEMMA NoneIsApart == None \notin Tasks /\ None \notin Rows
BY CostCacheAssumption DEF Rows, Collected

LEMMA StatusTypes ==
    ASSUME TypeOK, NEW t \in Tasks, NEW last \in {"success", "failed"},
           NEW old \in Statuses
    PROVE  /\ Mine(t) \in Statuses \ {"absent"}
           /\ Written(t, last, old) \in Statuses
           /\ (old # "absent" \/ last # Mine(t)) => Written(t, last, old) # "absent"
BY DEF TypeOK, Mine, Written, Statuses

LEMMA InitInv == Init => Inv
<1>. SUFFICES ASSUME Init PROVE Inv  OBVIOUS
<1>1. 0 \in 0..MaxClock  BY CostCacheAssumption
<1>2. TypeOK  BY <1>1 DEF Init, TypeOK, Statuses
<1>. QED
  BY <1>2
  DEF Init, Inv, Registered, OneRowEach, RowComesLast, StatusStays, SuccessReady, SuccessIsEarned

\* What a step of t does: it leaves the state of the others, takes away no
\* registration but its own, no row and no status, and keeps what Inv says of t.
Effect(t) ==
    /\ \A u \in Tasks \ {t} :
          /\ pc'[u] = pc[u] /\ seen'[u] = seen[u] /\ tx'[u] = tx[u] /\ stored'[u] = stored[u]
          /\ pc[u] \in Busy => active' = u
    /\ pc'[t] \in Busy => active' = t
    /\ IF pc'[t] # "done" THEN stored'[t] = stored[t] /\ pc[t] # "done"
       ELSE stored'[t] = stored[t] \/ pc[t] # "done"
    /\ pc'[t] \in Busy \cup {"new"} => tx'[t].row = None
    /\ seen'[t] # "absent" => status' # "absent"
    /\ pc'[t] \in {"collecting", "saved"} => tx'[t].status # "absent"
    /\ pc'[t] \in {"collecting", "saved"} /\ tx'[t].status = "success" =>
          EarnedBefore \/ (pc'[t] = "saved" /\ EarnedBy(t)')
    /\ \/ status' = status /\ bare' = bare
       \/ /\ pc[t] = "saved" /\ status' = tx[t].status /\ stored'[t] = tx[t].row
          /\ bare' = (bare \/ tx[t].row = None)

LEMMA StepOf ==
    ASSUME Inv, TypeOK', NEW t \in Tasks, Effect(t)
    PROVE  Inv'
<1>. USE DEF Effect
<1>1. Registered'
  <2>1. \A u \in Tasks \ {t} :
           pc'[u] \in Busy => active' = u
    BY DEF Inv, Registered
  <2>. QED  BY <2>1 DEF Registered
<1>2. EarnedBefore => EarnedBefore'
  <2>1. stored[t] = None \/ stored'[t] = stored[t]  BY DEF Inv, OneRowEach
  <2>. QED  BY <2>1 DEF EarnedBefore
<1>3. OneRowEach'  BY DEF Inv, OneRowEach
<1>4. StatusStays' /\ RowComesLast'  BY DEF Inv, StatusStays, RowComesLast
<1>5. SuccessReady'  BY <1>2 DEF Inv, SuccessReady, EarnedBy
<1>6. SuccessIsEarned'
  <2>1. CASE status' = status
    BY <1>2, <2>1 DEF Inv, SuccessIsEarned, EarnedBefore
  <2>2. CASE status' = tx[t].status /\ pc[t] = "saved" /\ stored'[t] = tx[t].row
    BY <1>2, <2>2 DEF Inv, SuccessReady, EarnedBy, SuccessIsEarned, EarnedBefore
  <2>. QED  BY <2>1, <2>2
<1>. QED  BY <1>1, <1>3, <1>4, <1>5, <1>6 DEF Inv

LEMMA EnterPreserves ==
    ASSUME Inv, NEW t \in Tasks, Skip(t) \/ Register(t) \/ Load(t)
    PROVE  Inv'
<1>. USE DEF Arrived, Refreshing
<1>1. CASE Skip(t)
  <2>1. TypeOK'  BY <1>1 DEF Skip, Inv, TypeOK
  <2>2. pc' = [pc EXCEPT ![t] = "done"] /\ UNCHANGED <<seen, tx, stored, status, bare, accounts, active>>
    BY <1>1 DEF Skip
  <2>3. Effect(t)
    BY <1>1, <2>2 DEF Effect, Skip, Inv, Registered, RowComesLast, StatusStays, TypeOK
  <2>. QED  BY <2>1, <2>3, StepOf
<1>2. CASE Register(t)
  <2>1. TypeOK'  BY <1>2 DEF Register, Inv, TypeOK
  <2>2. /\ pc' = [pc EXCEPT ![t] = "registered"] /\ active' = t
        /\ UNCHANGED <<seen, tx, stored, status, bare, accounts>>
        /\ pc[t] \in {"created", "new"}
    BY <1>2 DEF Register
  <2>3. \A u \in Tasks \ {t} :
           pc[u] \notin Busy
    BY <1>2, NoneIsApart DEF Register, Inv, Registered
  <2>4. Effect(t)  BY <2>2, <2>3 DEF Effect, Inv, RowComesLast, StatusStays, TypeOK
  <2>. QED  BY <2>1, <2>4, StepOf
<1>3. CASE Load(t)
  <2>1. TypeOK'  BY <1>3 DEF Load, Inv, TypeOK
  <2>2. /\ pc' = [pc EXCEPT ![t] = IF accounts THEN "loaded" ELSE "empty"] /\ seen' = [seen EXCEPT ![t] = status]
        /\ UNCHANGED <<active, tx, stored, status, bare, accounts>> /\ pc[t] = "registered"
    BY <1>3 DEF Load
  <2>3. Effect(t)  BY <2>2 DEF Effect, Inv, Registered, RowComesLast, StatusStays, TypeOK
  <2>. QED  BY <2>1, <2>3, StepOf
<1>. QED  BY <1>1, <1>2, <1>3

LEMMA FlushPreserves ==
    ASSUME Inv, NEW t \in Tasks, Begin(t) \/ NoAccounts(t)
    PROVE  Inv'
<1>0. /\ tx[t] \in [row : Rows \cup {None}, status : Statuses] /\ status \in Statuses
      /\ pc[t] \in {"loaded", "empty"} /\ active = t /\ stored[t] = None /\ tx[t].row = None
  BY DEF Inv, TypeOK, Registered, OneRowEach, RowComesLast, Begin, NoAccounts
<1>1. CASE Begin(t)
  <2>. DEFINE last == IF status = "absent" THEN Mine(t) ELSE status
              new == [tx[t] EXCEPT !.status = last]
  <2>1. /\ pc' = [pc EXCEPT ![t] = "collecting"] /\ tx' = [tx EXCEPT ![t] = new]
        /\ lock' = t
        /\ UNCHANGED <<active, seen, stored, status, reader, answer, accounts, bare, clock>>
        /\ (seen[t] = "absent" => status = "absent")
    BY <1>1 DEF Begin, Conflict
  <2>2. last \in Statuses /\ last # "absent"
        /\ (last = "success" => status = "success")
    BY <1>0, StatusTypes DEF Inv, StatusStays, Mine, TypeOK
  <2>3. /\ new \in [row : Rows \cup {None}, status : Statuses]
        /\ new.status = last /\ new.row = None
    BY <1>0, <2>2
  <2>. HIDE DEF new, last
  <2>4. TypeOK'  BY <2>1, <2>3 DEF Inv, TypeOK
  <2>5. last = "success" => EarnedBefore
    BY <2>2 DEF Inv, SuccessIsEarned, EarnedBefore
  <2>6. Effect(t)
    BY <1>0, <2>1, <2>2, <2>3, <2>5 DEF Effect, Inv, Registered, RowComesLast, StatusStays, TypeOK
  <2>. QED  BY <2>4, <2>6, StepOf
<1>2. CASE NoAccounts(t)
  <2>. DEFINE last == Written(t, "success", status)
              new == [tx[t] EXCEPT !.status = last]
  <2>1. /\ pc' = [pc EXCEPT ![t] = "saved"] /\ tx' = [tx EXCEPT ![t] = new]
        /\ lock' = t /\ Unregister(t)
        /\ UNCHANGED <<seen, stored, status, reader, answer, accounts, bare, clock>>
    BY <1>2, <1>0 DEF NoAccounts, Inv, TypeOK
  <2>2. last \in Statuses /\ last # "absent"
    <3>1. last \in Statuses /\ (status # "absent" \/ "success" # Mine(t) => last # "absent")
      BY <1>0, StatusTypes DEF Inv
    <3>2. status = "absent" => Mine(t) = "pending"
      BY DEF Inv, StatusStays, Mine
    <3>. QED  BY <3>1, <3>2
  <2>3. /\ new \in [row : Rows \cup {None}, status : Statuses]
        /\ new.status = last /\ new.row = None
    BY <1>0, <2>2
  <2>. HIDE DEF new, last
  <2>4. TypeOK'  BY <2>1, <2>3 DEF Inv, TypeOK, Unregister
  <2>6. Effect(t)
    BY <1>0, <2>1, <2>2, <2>3 DEF Effect, EarnedBy, Inv, Registered, RowComesLast, StatusStays, TypeOK, Unregister
  <2>. QED  BY <2>4, <2>6, StepOf
<1>. QED  BY <1>1, <1>2

\* A refresh that some account failed is failed, unless the copy of the row said
\* so before: then the status is the one that was committed when it began.
LEMMA SavePreserves ==
    ASSUME Inv, NEW t \in Tasks, Save(t)
    PROVE  Inv'
<1>1. PICK got \in Collected :
        tx' = [tx EXCEPT ![t] = [row |-> [at |-> clock, got |-> got],
                                 status |-> Written(t, FinalStatus(got), @.status)]]
  BY DEF Save
<1>. DEFINE row == [at |-> clock, got |-> got]
            last == Written(t, FinalStatus(got), tx[t].status)
            new == [row |-> row, status |-> last]
<1>2. /\ pc[t] = "collecting" /\ pc' = [pc EXCEPT ![t] = "saved"] /\ Unregister(t)
      /\ UNCHANGED <<lock, seen, stored, status, reader, answer, accounts, bare, clock>>
  BY DEF Save
<1>3. tx' = [tx EXCEPT ![t] = new]  BY <1>1
<1>4. tx[t].status \in Statuses \ {"absent"}
  BY <1>2 DEF Inv, TypeOK, StatusStays
<1>5. last \in Statuses /\ last # "absent"
  <2>1. FinalStatus(got) \in {"success", "failed"}  BY DEF FinalStatus
  <2>. QED  BY <1>4, <2>1, StatusTypes DEF Inv
<1>6. row \in Rows /\ row # None /\ row.got = got
  <2>1. row \in Rows  BY DEF Inv, TypeOK, Rows, Collected
  <2>. QED  BY <2>1, NoneIsApart
<1>7. last = "success" => row.got \in Unspoilt \/ tx[t].status = "success"
  BY <1>6 DEF Written, FinalStatus, Collected
<1>. HIDE DEF row, last
<1>8. TypeOK'
  <2>1. new \in [row : Rows \cup {None}, status : Statuses]  BY <1>5, <1>6
  <2>. HIDE DEF new
  <2>. QED  BY <1>2, <1>3, <2>1 DEF Inv, TypeOK, Unregister
<1>9. new.row = row /\ new.status = last  OBVIOUS
<1>10. tx[t].status = "success" => EarnedBefore
  BY <1>2 DEF Inv, SuccessReady
<1>11. stored[t] = None  BY <1>2 DEF Inv, OneRowEach
<1>. HIDE DEF new
<1>12. tx'[t] = new  BY <1>3 DEF Inv, TypeOK
<1>13. \A u \in Tasks \ {t} : tx'[u] = tx[u]  BY <1>3 DEF Inv, TypeOK
<1>14. Effect(t)
  BY <1>2, <1>5, <1>6, <1>7, <1>9, <1>10, <1>11, <1>12, <1>13
  DEF Effect, EarnedBy, Inv, Registered, RowComesLast, StatusStays, TypeOK, Unregister
<1>. QED  BY <1>8, <1>14, StepOf

LEMMA EndPreserves ==
    ASSUME Inv, NEW t \in Tasks, Commit(t) \/ Rollback(t) \/ Break(t) \/ Cancel(t)
    PROVE  Inv'
<1>. USE DEF Unlock, Unregister
<1>1. CASE Commit(t)
  <2>1. /\ pc[t] = "saved" /\ pc' = [pc EXCEPT ![t] = "done"]
        /\ stored' = [stored EXCEPT ![t] = tx[t].row] /\ status' = tx[t].status
        /\ bare' = (bare \/ tx[t].row = None)
        /\ UNCHANGED <<active, seen, tx>>
    BY <1>1 DEF Commit
  <2>2. TypeOK'  BY <1>1 DEF Commit, Inv, TypeOK
  <2>3. status' # "absent"  BY <2>1 DEF Inv, StatusStays
  <2>4. Effect(t)
    BY <2>1, <2>3 DEF Effect, Inv, Registered, RowComesLast, TypeOK
  <2>. QED  BY <2>2, <2>4, StepOf
<1>2. CASE Rollback(t)
  <2>1. /\ pc[t] \in {"broken", "saved"} /\ pc' = [pc EXCEPT ![t] = "done"]
        /\ UNCHANGED <<active, seen, tx, bare, stored, status>>
    BY <1>2 DEF Rollback
  <2>2. TypeOK'  BY <1>2 DEF Rollback, Inv, TypeOK
  <2>4. Effect(t)
    BY <2>1 DEF Effect, Inv, Registered, RowComesLast, StatusStays, TypeOK
  <2>. QED  BY <2>2, <2>4, StepOf
<1>3. CASE Break(t)
  <2>1. /\ pc[t] \in {"registered", "loaded", "empty", "collecting", "saved"}
        /\ pc' = [pc EXCEPT ![t] = "broken"]
        /\ active' = IF active = t THEN None ELSE active
        /\ UNCHANGED <<seen, tx, bare, stored, status>>
    BY <1>3 DEF Break
  <2>2. TypeOK'  BY <1>3 DEF Break, Inv, TypeOK
  <2>4. Effect(t)
    BY <2>1 DEF Effect, Inv, Registered, RowComesLast, StatusStays, TypeOK
  <2>. QED  BY <2>2, <2>4, StepOf
<1>4. CASE Cancel(t)
  <2>1. /\ pc[t] \notin {"new", "done", "cancelled"}
        /\ pc' = [pc EXCEPT ![t] = "cancelled"]
        /\ active' = active \/ active' = IF active = t THEN None ELSE active
        /\ UNCHANGED <<seen, tx, bare, stored, status>>
    BY <1>4 DEF Cancel
  <2>2. TypeOK'  BY <1>4 DEF Cancel, Inv, TypeOK
  <2>4. Effect(t)
    BY <2>1 DEF Effect, Inv, Registered, RowComesLast, StatusStays, TypeOK
  <2>. QED  BY <2>2, <2>4, StepOf
<1>. QED  BY <1>1, <1>2, <1>3, <1>4

\* A reader does nothing to a refresh, but that a miss registers a task.
LEMMA MissPreserves ==
    ASSUME Inv, NEW r \in Readers, Miss(r)
    PROVE  Inv'
<1>0. UNCHANGED <<lock, seen, tx, stored, status, bare, accounts, clock>>  BY DEF Miss
<1>1. CASE UNCHANGED <<pc, active>>
  <2>1. TypeOK'  BY <1>0, <1>1 DEF Miss, Inv, TypeOK
  <2>. QED
    BY <1>0, <1>1, <2>1
    DEF Inv, Registered, OneRowEach, RowComesLast, StatusStays, SuccessReady, EarnedBy, SuccessIsEarned, EarnedBefore
<1>2. ASSUME ~Refreshing, NEW t \in Background, pc[t] = "new",
             active' = t, pc' = [pc EXCEPT ![t] = "created"]
      PROVE  Inv'
  <2>0. t \in Tasks  BY DEF Tasks
  <2>1. TypeOK'  BY <1>0, <1>2, <2>0 DEF Miss, Inv, TypeOK
  <2>2. \A u \in Tasks \ {t} :
           pc[u] \notin Busy
    BY <1>2, NoneIsApart DEF Refreshing, Inv, Registered
  <2>3. Effect(t)  BY <1>0, <1>2, <2>0, <2>2 DEF Effect, Inv, RowComesLast, StatusStays, TypeOK
  <2>. QED  BY <2>0, <2>1, <2>3, StepOf
<1>. QED  BY <1>1, <1>2 DEF Miss

LEMMA NextInv == Inv /\ [Next]_vars => Inv'
<1>. SUFFICES ASSUME Inv, [Next]_vars PROVE Inv'  OBVIOUS
<1>1. ASSUME NEW t \in Tasks, Enter(t) \/ Work(t) \/ Flush(t) \/ Break(t) \/ Cancel(t)
      PROVE  Inv'
  BY <1>1, EnterPreserves, FlushPreserves, SavePreserves, EndPreserves
  DEF Enter, Work, Flush
<1>2. ASSUME NEW r \in Readers, Miss(r) PROVE Inv'  BY <1>2, MissPreserves
<1>3. ASSUME \/ \E r \in Readers : ReadFresh(r) \/ ReadStale(r)
             \/ ChangeAccounts \/ Tick \/ UNCHANGED vars
      PROVE  Inv'
  <2>1. UNCHANGED <<pc, active, lock, seen, tx, stored, status, bare>>
    BY <1>3 DEF ReadFresh, ReadStale, ChangeAccounts, Tick, vars
  <2>2. TypeOK'
    <3>1. CASE \E r \in Readers : ReadFresh(r) \/ ReadStale(r)
      BY <3>1 DEF ReadFresh, ReadStale, Inv, TypeOK
    <3>2. CASE ChangeAccounts  BY <3>2 DEF ChangeAccounts, Inv, TypeOK
    <3>3. CASE Tick
      <4>1. clock' \in 0..MaxClock
        BY <3>3, CostCacheAssumption DEF Tick, Inv, TypeOK
      <4>. QED  BY <3>3, <4>1 DEF Tick, Inv, TypeOK
    <3>4. CASE UNCHANGED vars  BY <3>4 DEF vars, Inv, TypeOK
    <3>. QED  BY <1>3, <3>1, <3>2, <3>3, <3>4
  <2>3. Registered' /\ OneRowEach' /\ RowComesLast' /\ StatusStays'
    BY <2>1 DEF Inv, Registered, OneRowEach, RowComesLast, StatusStays
  <2>4. SuccessReady' /\ SuccessIsEarned'
    BY <2>1 DEF Inv, SuccessReady, EarnedBy, SuccessIsEarned, EarnedBefore
  <2>. QED  BY <2>2, <2>3, <2>4 DEF Inv
<1>. QED  BY <1>1, <1>2, <1>3 DEF Next

LEMMA Invariance == Spec => []Inv
BY InitInv, NextInv, PTL DEF Spec

-----------------------------------------------------------------------------
\* Tasks, rows and the status keep their types: a status row is never without
\* one of its statuses.
THEOREM Typing == Spec => []TypeOK
<1>1. Inv => TypeOK  BY DEF Inv
<1>. QED  BY <1>1, Invariance, PTL

\* No two refreshes of an organization call the providers together.
THEOREM OneRefreshAtATime == Spec => []SingleRefresh
<1>1. Inv => SingleRefresh  BY DEF Inv, Registered, SingleRefresh
<1>. QED  BY <1>1, Invariance, PTL

\* A committed success stands on a committed refresh that noted no failure: the
\* accounts it lacks, if any, failed without a text or came later.
THEOREM SuccessHasBeenEarned == Spec => []SuccessIsEarned
<1>1. Inv => SuccessIsEarned  BY DEF Inv
<1>. QED  BY <1>1, Invariance, PTL
-----------------------------------------------------------------------------
\* The registration left behind by a task that was cancelled before it ran is
\* the only one whose task is not at work.
HeldAtWork ==
    active # None =>
        pc[active] \in Busy \cup {"cancelled"}

LEMMA NextHolds ==
    ASSUME TypeOK, HeldAtWork, [Next]_vars
    PROVE  HeldAtWork'
<1>. USE NoneIsApart
<1>1. ASSUME NEW t \in Tasks, Enter(t)
      PROVE  HeldAtWork'
  <2>1. CASE Skip(t)
    BY <2>1 DEF Skip, TypeOK, HeldAtWork
  <2>2. CASE Register(t)
    BY <2>2 DEF Register, TypeOK, HeldAtWork
  <2>. QED  BY <1>1, <2>1, <2>2 DEF Enter
<1>2. ASSUME NEW t \in Tasks, Load(t) \/ Begin(t)
      PROVE  HeldAtWork'
  BY <1>2 DEF Load, Begin, TypeOK, HeldAtWork
<1>3. ASSUME NEW t \in Tasks, NoAccounts(t) \/ Save(t) \/ Break(t)
      PROVE  HeldAtWork'
  <2>1. /\ active' = IF active = t THEN None ELSE active
        /\ pc' = [pc EXCEPT ![t] = "saved"] \/ pc' = [pc EXCEPT ![t] = "broken"]
    BY <1>3 DEF NoAccounts, Save, Break, Unregister
  <2>. QED  BY <2>1 DEF TypeOK, HeldAtWork
<1>4. ASSUME NEW t \in Tasks, Commit(t) \/ Rollback(t)
      PROVE  HeldAtWork'
  <2>1. /\ pc[t] \in {"saved", "broken"} /\ active' = active
        /\ pc' = [pc EXCEPT ![t] = "done"]
    BY <1>4 DEF Commit, Rollback
  <2>. QED  BY <2>1 DEF TypeOK, HeldAtWork
<1>5. ASSUME NEW t \in Tasks, Cancel(t)
      PROVE  HeldAtWork'
  BY <1>5 DEF Cancel, Unregister, TypeOK, HeldAtWork
<1>6. ASSUME NEW r \in Readers, Miss(r)
      PROVE  HeldAtWork'
  <2>1. CASE UNCHANGED <<pc, active>>
    BY <2>1 DEF HeldAtWork
  <2>2. ASSUME NEW t \in Background, active' = t, pc' = [pc EXCEPT ![t] = "created"]
        PROVE  HeldAtWork'
    BY <2>2 DEF Tasks, TypeOK, HeldAtWork
  <2>. QED  BY <1>6, <2>1, <2>2 DEF Miss
<1>7. ASSUME \/ \E r \in Readers : ReadFresh(r) \/ ReadStale(r)
             \/ ChangeAccounts \/ Tick \/ UNCHANGED vars
      PROVE  HeldAtWork'
  BY <1>7 DEF ReadFresh, ReadStale, ChangeAccounts, Tick, vars, HeldAtWork
<1>. QED
  BY <1>1, <1>2, <1>3, <1>4, <1>5, <1>6, <1>7 DEF Next, Work, Flush

\* The safety half of RefreshEnds: whoever keeps others from refreshing has the
\* refresh still before it.  However a refresh ends, no registration outlives it
\* that others would respect (service.py:228-240, 331-333).
THEOREM NoRegistrationLeftBehind ==
    Spec => [](Refreshing => pc[active] \in Busy)
<1>1. Init => HeldAtWork  BY DEF Init, HeldAtWork
<1>2. TypeOK /\ HeldAtWork /\ [Next]_vars => HeldAtWork'  BY NextHolds
<1>3. HeldAtWork =>
        (Refreshing => pc[active] \in Busy)
  BY DEF HeldAtWork, Refreshing
<1>. QED  BY <1>1, <1>2, <1>3, Typing, PTL DEF Spec
===============================================================================
