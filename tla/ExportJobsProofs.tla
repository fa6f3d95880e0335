---------------------------- MODULE ExportJobsProofs ----------------------------
(***************************************************************************)
(* Proofs about export jobs, for any number of jobs and of overlapping     *)
(* executions, any page size and any time they take.                       *)
(*                                                                         *)
(* The argument is the row lock.  The execution that holds it starts from  *)
(* the committed row, which nobody else changes until it ends, and the     *)
(* names of the files of a job grow with the clock: so a file name that is *)
(* not written because the copy had it already is the committed one.       *)
(***************************************************************************)
EXTENDS ExportJobs, TLAPS

Holds(u) == session[u].pc \in {"fetching", "fetched", "done"}

\* What is committed names a file of the past.
FilesPast == \A j \in Jobs : job[j].file # None => job[j].file <= clock

\* A request knows its job, and the status of its copy and of the row that its
\* transaction would leave; once it has flushed, it holds the lock of the row.
Locked(u) ==
    /\ session[u].pc # "idle" => session[u].job \in Jobs
    /\ Holds(u) => lock[session[u].job] = u
    /\ session[u].pc = "loaded" => session[u].mine.status # "processing"
    /\ session[u].pc \in {"fetching", "fetched"} =>
          session[u].mine.status = "processing" /\ session[u].tx.status = "processing"
    /\ session[u].pc = "done" => session[u].tx.status \in {"completed", "failed"}

\* The copy names no later file than the committed row; until an execution writes
\* its file, its transaction leaves the committed name.
Behind(u) ==
    session[u].pc \in {"loaded", "fetching", "fetched"} =>
        /\ session[u].mine.file # None =>
              /\ job[session[u].job].file # None
              /\ session[u].mine.file <= job[session[u].job].file
        /\ session[u].pc # "loaded" => session[u].tx.file = job[session[u].job].file

\* What is about to be committed.
Ready(u) ==
    LET j == session[u].job
        file == session[u].tx.file IN
    session[u].pc = "done" =>
        /\ file # None => file <= clock
        /\ job[j].file # None => file # None /\ job[j].file <= file
        /\ session[u].tx.status = "completed" =>
              /\ file # None
              /\ disk[j][file] # None
              /\ j \in Uploads => <<j, file>> \in uploaded

Inv ==
    /\ TypeOK
    /\ NeverLeftProcessing
    /\ CompletedIsAvailable
    /\ FilesPast
    /\ \A u \in Requests : Locked(u) /\ Behind(u) /\ Ready(u)

-----------------------------------------------------------------------------
LEMMA NoneIsApart == None \notin Nat /\ None # Partial /\ None \notin Requests
                     /\ \A s \in Seconds : s \in Nat
BY ExportAssumption DEF Seconds

LEMMA RowTypes == NoRow \in Row /\ Closed.mine \in Row /\ Closed.tx \in Row
BY DEF NoRow, Row, Closed

\* A flush leaves a row.
LEMMA FlushedType ==
    ASSUME NEW tx \in Row, NEW old \in Row, NEW mine \in Row
    PROVE  Flushed(tx, old, mine) \in Row
BY DEF Flushed, Row

LEMMA FailedType ==
    ASSUME NEW mine \in Row
    PROVE  Failed(mine) \in Row /\ Failed(mine).status = "failed"
           /\ Failed(mine).file = mine.file
BY DEF Failed, Row

SessionRow ==
    [pc : {"idle", "loaded", "fetching", "fetched", "done"},
     job : Jobs \cup {None}, mine : Row, tx : Row, got : Nat]

LEMMA ClosedType == Closed \in SessionRow
BY RowTypes DEF Closed, SessionRow

LEMMA InitInv == Init => Inv
<1>. SUFFICES ASSUME Init PROVE Inv  OBVIOUS
<1>1. TypeOK
  BY ClosedType, RowTypes, ExportAssumption DEF Init, TypeOK, SessionRow, Seconds
<1>2. \A u \in Requests : session[u].pc = "idle"  BY DEF Init, Closed
<1>3. \A j \in Jobs : job[j].status = "absent" /\ job[j].file = None
  BY DEF Init, NoRow
<1>. QED
  BY <1>1, <1>2, <1>3
  DEF Inv, NeverLeftProcessing, CompletedIsAvailable, FilesPast, Locked, Holds,
      Behind, Ready

\* Requests other than u are as they were, and so is what they rely on: nothing
\* of theirs is disturbed by a step of u on a row that u holds or leaves alone.
LEMMA OthersKeep ==
    ASSUME Inv, NEW u \in Requests, NEW v \in Requests, u # v,
           session'[v] = session[v],
           job' = job \/ (session[u].pc = "done" /\
                          job' = [job EXCEPT ![session[u].job] = session[u].tx]),
           lock' = lock \/ lock' = Unlock(u)
               \/ (lock[session[u].job] = None /\ lock' = [lock EXCEPT ![session[u].job] = u]),
           clock' = clock,
           \A j \in Jobs, s \in Seconds : disk[j][s] # None => disk'[j][s] # None,
           uploaded \subseteq uploaded'
    PROVE  Locked(v)' /\ Behind(v)' /\ Ready(v)'
<1>. DEFINE w == session[v]
            k == w.job
            i == session[u].job
<1>0. w \in SessionRow /\ session[u] \in SessionRow  BY DEF Inv, TypeOK, SessionRow
<1>00. w.pc # "idle" => k \in Jobs  BY DEF Inv, Locked
<1>1. Holds(v) => lock[k] = v  BY DEF Inv, Locked
<1>2. Holds(v) => lock'[k] = v
  <2>1. v # None  BY NoneIsApart
  <2>2. Holds(v) => k \in Jobs  BY <1>00 DEF Holds
  <2>3. Holds(v) /\ lock[i] = None => k # i  BY <1>1, <2>1
  <2>4. lock' = Unlock(u) => \A j \in Jobs : lock[j] = v => lock'[j] = v
    BY <1>0 DEF Unlock
  <2>5. lock' = [lock EXCEPT ![i] = u] => \A j \in Jobs : j # i => lock'[j] = lock[j]
    BY DEF Inv, TypeOK
  <2>. QED  BY <1>1, <2>2, <2>3, <2>4, <2>5
<1>3. Holds(v) => job'[k] = job[k]
  <2>1. CASE job' = job  BY <2>1
  <2>2. CASE session[u].pc = "done" /\ job' = [job EXCEPT ![i] = session[u].tx]
    <3>1. lock[i] = u  BY <2>2 DEF Inv, Locked, Holds
    <3>2. Holds(v) => k # i  BY <1>1, <3>1
    <3>3. Holds(v) => k \in Jobs  BY <1>00 DEF Holds
    <3>. QED  BY <2>2, <3>2, <3>3 DEF Inv, TypeOK
  <2>. QED  BY <2>1, <2>2
<1>4. \A j \in Jobs : job[j].file # None =>
          job'[j].file # None /\ job[j].file <= job'[j].file
  <2>0. \A j \in Jobs : job[j].file # None => job[j].file \in Nat
    BY NoneIsApart DEF Inv, TypeOK, Row
  <2>1. CASE job' = job  BY <2>0, <2>1
  <2>2. CASE session[u].pc = "done" /\ job' = [job EXCEPT ![i] = session[u].tx]
    <3>1. job[i].file # None =>
             session[u].tx.file # None /\ job[i].file <= session[u].tx.file
      BY <2>2 DEF Inv, Ready
    <3>. QED  BY <2>0, <2>2, <3>1 DEF Inv, TypeOK
  <2>. QED  BY <2>1, <2>2
<1>5. w.pc \in {"loaded", "fetching", "fetched"} /\ w.mine.file # None =>
          job'[k].file # None /\ w.mine.file <= job'[k].file
  <2>. SUFFICES ASSUME w.pc \in {"loaded", "fetching", "fetched"}, w.mine.file # None
                PROVE  job'[k].file # None /\ w.mine.file <= job'[k].file
    OBVIOUS
  <2>1. k \in Jobs  BY <1>00
  <2>2. job[k].file # None /\ w.mine.file <= job[k].file  BY DEF Inv, Behind
  <2>3. job'[k].file # None /\ job[k].file <= job'[k].file  BY <1>4, <2>1, <2>2
  <2>4. job[k].file \in Nat /\ w.mine.file \in Nat
    BY <1>0, <2>1, <2>2, NoneIsApart DEF Inv, TypeOK, Row, SessionRow
  <2>5. job'[k].file \in Nat
    <3>1. job'[k] \in Row
      <4>1. job' = job \/ job' = [job EXCEPT ![i] = session[u].tx]  OBVIOUS
      <4>2. session[u].tx \in Row  BY <1>0 DEF SessionRow
      <4>3. job \in [Jobs -> Row]  BY DEF Inv, TypeOK
      <4>. QED  BY <2>1, <4>1, <4>2, <4>3
    <3>. QED  BY <2>3, <3>1, NoneIsApart DEF Row
  <2>. QED  BY <2>2, <2>3, <2>4, <2>5
<1>6. w.pc \in {"fetching", "fetched"} => w.tx.file = job'[k].file
  BY <1>3 DEF Inv, Behind, Holds
<1>7. w.pc = "done" =>
          /\ w.tx.file # None => w.tx.file <= clock'
          /\ job'[k].file # None => w.tx.file # None /\ job'[k].file <= w.tx.file
          /\ w.tx.status = "completed" =>
                /\ w.tx.file # None
                /\ disk'[k][w.tx.file] # None
                /\ k \in Uploads => <<k, w.tx.file>> \in uploaded'
  <2>. SUFFICES ASSUME w.pc = "done" PROVE
          /\ w.tx.file # None => w.tx.file <= clock'
          /\ job'[k].file # None => w.tx.file # None /\ job'[k].file <= w.tx.file
          /\ w.tx.status = "completed" =>
                /\ w.tx.file # None
                /\ disk'[k][w.tx.file] # None
                /\ k \in Uploads => <<k, w.tx.file>> \in uploaded'
    OBVIOUS
  <2>1. job'[k] = job[k]  BY <1>3 DEF Holds
  <2>2. /\ w.tx.file # None => w.tx.file <= clock
        /\ job[k].file # None => w.tx.file # None /\ job[k].file <= w.tx.file
        /\ w.tx.status = "completed" =>
              /\ w.tx.file # None
              /\ disk[k][w.tx.file] # None
              /\ k \in Uploads => <<k, w.tx.file>> \in uploaded
    BY DEF Inv, Ready
  <2>3. w.tx.file # None => w.tx.file \in Seconds /\ k \in Jobs
    BY <1>0, <1>00 DEF SessionRow, Row
  <2>. QED  BY <2>1, <2>2, <2>3
<1>8. w.pc = "loaded" => w.mine.status # "processing"  BY DEF Inv, Locked
<1>9. w.pc \in {"fetching", "fetched"} =>
          w.mine.status = "processing" /\ w.tx.status = "processing"
  BY DEF Inv, Locked
<1>10. w.pc = "done" => w.tx.status \in {"completed", "failed"}  BY DEF Inv, Locked
<1>11. Holds(v)' = Holds(v)  BY DEF Holds
<1>12. session'[v] = w  OBVIOUS
<1>. HIDE DEF w, k, i
<1>13. Locked(v)'  BY <1>00, <1>2, <1>8, <1>9, <1>10, <1>11, <1>12 DEF Locked, k
<1>14. Behind(v)'  BY <1>5, <1>6, <1>12 DEF Behind, k
<1>15. Ready(v)'  BY <1>7, <1>12 DEF Ready, k
<1>. QED  BY <1>13, <1>14, <1>15

\* A step of u that commits nothing and takes away no file preserves Inv if it
\* preserves the types and what u itself relies on.
LEMMA StepOf ==
    ASSUME Inv, TypeOK', NEW u \in Requests,
           \A v \in Requests \ {u} : session'[v] = session[v],
           job' = job, clock' = clock,
           lock' = lock \/ lock' = Unlock(u)
               \/ (lock[session[u].job] = None /\ lock' = [lock EXCEPT ![session[u].job] = u]),
           \A j \in Jobs, s \in Seconds : disk[j][s] # None => disk'[j][s] # None,
           uploaded \subseteq uploaded',
           Locked(u)', Behind(u)', Ready(u)'
    PROVE  Inv'
<1>1. ASSUME NEW v \in Requests PROVE Locked(v)' /\ Behind(v)' /\ Ready(v)'
  <2>1. CASE v = u  BY <2>1
  <2>2. CASE v # u
    <3>1. session'[v] = session[v]  BY <2>2
    <3>. QED  BY <2>2, <3>1, OthersKeep
  <2>. QED  BY <2>1, <2>2
<1>2. NeverLeftProcessing' /\ FilesPast'
  BY DEF Inv, NeverLeftProcessing, FilesPast
<1>3. CompletedIsAvailable'
  <2>1. \A j \in Jobs : job[j].file # None => job[j].file \in Seconds
    BY DEF Inv, TypeOK, Row
  <2>. QED  BY <2>1 DEF Inv, CompletedIsAvailable, get_export_file
<1>. QED  BY <1>1, <1>2, <1>3 DEF Inv

LEMMA CreatePreserves ==
    ASSUME Inv, NEW j \in Jobs, create_export_job(j)
    PROVE  Inv'
<1>. DEFINE row == [job[j] EXCEPT !.status = "pending"]
<1>0. /\ job' = [job EXCEPT ![j] = row]
      /\ lock' = lock /\ disk' = disk /\ uploaded' = uploaded
      /\ clock' = clock /\ session' = session
  BY DEF create_export_job
<1>00. row \in Row /\ row.status = "pending" /\ row.file = job[j].file
  <2>1. job[j] \in Row  BY DEF Inv, TypeOK
  <2>. QED  BY <2>1 DEF Row
<1>. HIDE DEF row
<1>1. TypeOK'  BY <1>0, <1>00 DEF Inv, TypeOK
<1>2. \A i \in Jobs : job'[i].file = job[i].file
  BY <1>0, <1>00 DEF Inv, TypeOK
<1>3. \A i \in Jobs : job'[i].status = job[i].status \/ job'[i].status = "pending"
  BY <1>0, <1>00 DEF Inv, TypeOK
<1>4. NeverLeftProcessing' /\ CompletedIsAvailable'
  BY <1>0, <1>2, <1>3
  DEF Inv, NeverLeftProcessing, CompletedIsAvailable, get_export_file
<1>5. FilesPast'  BY <1>0, <1>2 DEF Inv, FilesPast
<1>6. ASSUME NEW v \in Requests PROVE Locked(v)' /\ Behind(v)' /\ Ready(v)'
  <2>1. Locked(v)'  BY <1>0 DEF Inv, Locked, Holds
  <2>2. Behind(v)'  BY <1>0, <1>2 DEF Inv, Locked, Behind
  <2>3. Ready(v)'  BY <1>0, <1>2 DEF Inv, Locked, Ready
  <2>. QED  BY <2>1, <2>2, <2>3
<1>. QED  BY <1>1, <1>4, <1>5, <1>6 DEF Inv

LEMMA TickPreserves ==
    ASSUME Inv, Tick
    PROVE  Inv'
<1>0. /\ clock' = clock + 1 /\ clock < MaxSecond
      /\ job' = job /\ lock' = lock /\ disk' = disk /\ uploaded' = uploaded
      /\ session' = session
  BY DEF Tick
<1>1. TypeOK' /\ clock \in Nat
  BY <1>0, ExportAssumption DEF Inv, TypeOK, Seconds
<1>2. FilesPast'
  <2>1. \A j \in Jobs : job[j].file # None => job[j].file \in Nat
    BY NoneIsApart DEF Inv, TypeOK, Row
  <2>. QED  BY <1>0, <1>1, <2>1 DEF Inv, FilesPast
<1>3. ASSUME NEW v \in Requests PROVE Locked(v)' /\ Behind(v)' /\ Ready(v)'
  <2>1. Locked(v)' /\ Behind(v)'  BY <1>0 DEF Inv, Locked, Behind, Holds
  <2>2. session[v].tx.file # None => session[v].tx.file \in Nat
    BY NoneIsApart DEF Inv, TypeOK, Row
  <2>3. Ready(v)'  BY <1>0, <1>1, <2>2 DEF Inv, Ready
  <2>. QED  BY <2>1, <2>3
<1>. QED
  BY <1>0, <1>1, <1>2, <1>3
  DEF Inv, NeverLeftProcessing, CompletedIsAvailable, get_export_file

LEMMA ExecutePreserves ==
    ASSUME Inv, NEW u \in Requests, NEW j \in Jobs, execute_export(u, j)
    PROVE  Inv'
<1>. DEFINE new == [Closed EXCEPT !.pc = "loaded", !.job = j, !.mine = job[j]]
<1>0. /\ session' = [session EXCEPT ![u] = new]
      /\ job' = job /\ lock' = lock /\ disk' = disk /\ uploaded' = uploaded
      /\ clock' = clock
  BY DEF execute_export
<1>1. job[j] \in Row  BY DEF Inv, TypeOK
<1>2. /\ new \in SessionRow
      /\ new.pc = "loaded" /\ new.job = j /\ new.mine = job[j]
  BY <1>1, RowTypes DEF Closed, SessionRow
<1>. HIDE DEF new
<1>3. session'[u] = new /\ \A v \in Requests \ {u} : session'[v] = session[v]
  BY <1>0 DEF Inv, TypeOK
<1>4. TypeOK'  BY <1>0, <1>2 DEF Inv, TypeOK, SessionRow
<1>5. Locked(u)'
  BY <1>2, <1>3 DEF Locked, Holds, Inv, NeverLeftProcessing
<1>6. Behind(u)'
  <2>1. job[j].file # None => job[j].file \in Nat  BY <1>1, NoneIsApart DEF Row
  <2>. QED  BY <1>0, <1>2, <1>3, <2>1 DEF Behind
<1>7. Ready(u)'  BY <1>2, <1>3 DEF Ready
<1>. QED  BY <1>0, <1>3, <1>4, <1>5, <1>6, <1>7, StepOf

-----------------------------------------------------------------------------
\* What an assignment to a request's state, and a flush, amount to.
LEMMA SessionStep ==
    ASSUME TypeOK, NEW u \in Requests, NEW got \in Nat, NEW mine \in Row, NEW tx \in Row,
           NEW pc \in {"idle", "loaded", "fetching", "fetched", "done"},
           \/ session' = [session EXCEPT ![u].pc = pc, ![u].mine = mine, ![u].tx = tx]
           \/ session' = [session EXCEPT ![u].pc = pc, ![u].got = got,
                                         ![u].mine = mine, ![u].tx = tx]
    PROVE  /\ session' \in [Requests -> SessionRow]
           /\ session'[u].pc = pc /\ session'[u].job = session[u].job
           /\ session'[u].mine = mine /\ session'[u].tx = tx
           /\ \A v \in Requests \ {u} : session'[v] = session[v]
<1>0. session[u] \in SessionRow /\ session \in [Requests -> SessionRow]
  BY DEF TypeOK, SessionRow
<1>1. ASSUME NEW new, session' = [session EXCEPT ![u] = new], new \in SessionRow,
             new.pc = pc, new.job = session[u].job, new.mine = mine, new.tx = tx
      PROVE  /\ session' \in [Requests -> SessionRow]
             /\ session'[u].pc = pc /\ session'[u].job = session[u].job
             /\ session'[u].mine = mine /\ session'[u].tx = tx
             /\ \A v \in Requests \ {u} : session'[v] = session[v]
  BY <1>0, <1>1
<1>2. CASE session' = [session EXCEPT ![u].pc = pc, ![u].mine = mine, ![u].tx = tx]
  <2>. DEFINE new == [session[u] EXCEPT !.pc = pc, !.mine = mine, !.tx = tx]
  <2>1. session' = [session EXCEPT ![u] = new]  BY <1>2
  <2>2. /\ new \in SessionRow
        /\ new.pc = pc /\ new.job = session[u].job /\ new.mine = mine /\ new.tx = tx
    BY <1>0 DEF SessionRow
  <2>. HIDE DEF new
  <2>. QED  BY <1>1, <2>1, <2>2
<1>3. CASE session' = [session EXCEPT ![u].pc = pc, ![u].got = got,
                                      ![u].mine = mine, ![u].tx = tx]
  <2>. DEFINE new == [session[u] EXCEPT !.pc = pc, !.got = got, !.mine = mine, !.tx = tx]
  <2>1. session' = [session EXCEPT ![u] = new]  BY <1>3
  <2>2. /\ new \in SessionRow
        /\ new.pc = pc /\ new.job = session[u].job /\ new.mine = mine /\ new.tx = tx
    BY <1>0 DEF SessionRow
  <2>. HIDE DEF new
  <2>. QED  BY <1>1, <2>1, <2>2
<1>. QED  BY <1>2, <1>3

\* The lock is taken: the copy is no later than the committed row.
LEMMA BeginPreserves ==
    ASSUME Inv, NEW u \in Requests, Begin(u)
    PROVE  Inv'
<1>. DEFINE j == session[u].job
            old == session[u].mine
            mine == [old EXCEPT !.status = "processing"]
            tx == Flushed(job[j], old, mine)
<1>0. /\ session[u].pc = "loaded" /\ lock[j] = None
      /\ lock' = [lock EXCEPT ![j] = u]
      /\ session' = [session EXCEPT ![u].pc = "fetching", ![u].mine = mine, ![u].tx = tx]
      /\ job' = job /\ disk' = disk /\ uploaded' = uploaded /\ clock' = clock
  BY DEF Begin
<1>1. j \in Jobs /\ old \in Row /\ job[j] \in Row /\ old.status # "processing"
  BY <1>0 DEF Inv, Locked, TypeOK
<1>2. mine \in Row /\ mine.status = "processing" /\ mine.file = old.file
  BY <1>1 DEF Row
<1>3. tx \in Row /\ tx.status = "processing" /\ tx.file = job[j].file
  <2>1. tx \in Row  BY <1>1, <1>2, FlushedType
  <2>. HIDE DEF mine
  <2>2. tx.status = "processing" /\ tx.file = job[j].file
    BY <1>1, <1>2 DEF Flushed
  <2>. QED  BY <2>1, <2>2
<1>. HIDE DEF mine, tx, old, j
<1>4. /\ session' \in [Requests -> SessionRow]
      /\ session'[u].pc = "fetching" /\ session'[u].job = j
      /\ session'[u].mine = mine /\ session'[u].tx = tx
      /\ \A v \in Requests \ {u} : session'[v] = session[v]
  BY <1>0, <1>2, <1>3, SessionStep DEF Inv, j
<1>5. TypeOK'  BY <1>0, <1>1, <1>4 DEF Inv, TypeOK, SessionRow
<1>6. Locked(u)'
  <2>1. lock'[j] = u  BY <1>0, <1>1 DEF Inv, TypeOK
  <2>. QED  BY <1>1, <1>2, <1>3, <1>4, <2>1 DEF Locked, Holds
<1>7. Behind(u)'
  BY <1>0, <1>2, <1>3, <1>4 DEF Inv, Behind, old, j
<1>8. Ready(u)'  BY <1>4 DEF Ready
<1>9. lock[session[u].job] = None /\ lock' = [lock EXCEPT ![session[u].job] = u]
  BY <1>0 DEF j
<1>. QED  BY <1>0, <1>4, <1>5, <1>6, <1>7, <1>8, <1>9, StepOf

\* Fetching changes neither the status nor the file.
LEMMA FetchPreserves ==
    ASSUME Inv, NEW u \in Requests, FetchPage(u) \/ FetchRest(u)
    PROVE  Inv'
<1>. DEFINE j == session[u].job
            old == session[u].mine
<1>0. /\ session[u].pc = "fetching" /\ lock' = lock
      /\ job' = job /\ disk' = disk /\ uploaded' = uploaded /\ clock' = clock
  BY DEF FetchPage, FetchRest
<1>1. old \in Row /\ session[u].tx \in Row /\ session[u].got \in Nat
  BY DEF Inv, TypeOK
<1>2. ASSUME NEW pc \in {"fetching", "fetched"}, NEW mine \in Row, NEW tx \in Row,
             session' \in [Requests -> SessionRow],
             session'[u].pc = pc, session'[u].job = j,
             session'[u].mine = mine, session'[u].tx = tx,
             \A v \in Requests \ {u} : session'[v] = session[v],
             mine.status = old.status, mine.file = old.file,
             tx.status = session[u].tx.status, tx.file = session[u].tx.file
      PROVE  Inv'
  <2>1. TypeOK'  BY <1>0, <1>2 DEF Inv, TypeOK, SessionRow
  <2>2. Locked(u)'  BY <1>0, <1>2 DEF Inv, Locked, Holds
  <2>3. Behind(u)'  BY <1>0, <1>2 DEF Inv, Behind
  <2>4. Ready(u)'  BY <1>2 DEF Ready
  <2>. QED  BY <1>0, <1>2, <2>1, <2>2, <2>3, <2>4, StepOf
<1>3. CASE FetchPage(u)
  <2>. DEFINE new == [session[u] EXCEPT !.got = session[u].got + PageLimit]
  <2>1. session' = [session EXCEPT ![u] = new]  BY <1>3 DEF FetchPage
  <2>2. /\ new \in SessionRow /\ new.pc = "fetching" /\ new.job = j
        /\ new.mine = old /\ new.tx = session[u].tx
    <3>1. session[u].got + PageLimit \in Nat  BY <1>1, ExportAssumption
    <3>. QED  BY <1>0, <3>1 DEF Inv, TypeOK, SessionRow
  <2>. HIDE DEF new
  <2>3. /\ session' \in [Requests -> SessionRow]
        /\ session'[u] = new
        /\ \A v \in Requests \ {u} : session'[v] = session[v]
    BY <2>1, <2>2 DEF Inv, TypeOK, SessionRow
  <2>. QED  BY <1>1, <1>2, <2>2, <2>3
<1>4. CASE FetchRest(u)
  <2>1. PICK n \in RowsLeft(u) :
          LET m == [session[u].mine EXCEPT !.records = n]
          IN  session' = [session EXCEPT ![u].pc = "fetched", ![u].got = n,
                              ![u].mine = m,
                              ![u].tx = Flushed(session[u].tx, session[u].mine, m)]
    BY <1>4 DEF FetchRest
  <2>2. n \in Nat  BY <1>1, ExportAssumption DEF RowsLeft
  <2>. DEFINE mine == [old EXCEPT !.records = n]
              tx == Flushed(session[u].tx, old, mine)
  <2>3. session' = [session EXCEPT ![u].pc = "fetched", ![u].got = n,
                                   ![u].mine = mine, ![u].tx = tx]
    BY <2>1
  <2>4. mine \in Row /\ mine.status = old.status /\ mine.file = old.file
    BY <1>1, <2>2 DEF Row
  <2>5. tx \in Row  BY <1>1, <2>4, FlushedType
  <2>. HIDE DEF mine
  <2>6. tx.status = session[u].tx.status /\ tx.file = session[u].tx.file
    BY <2>4 DEF Flushed
  <2>. HIDE DEF tx
  <2>7. /\ session' \in [Requests -> SessionRow]
        /\ session'[u].pc = "fetched" /\ session'[u].job = j
        /\ session'[u].mine = mine /\ session'[u].tx = tx
        /\ \A v \in Requests \ {u} : session'[v] = session[v]
    BY <2>2, <2>3, <2>4, <2>5, SessionStep DEF Inv
  <2>. QED  BY <1>2, <2>4, <2>5, <2>6, <2>7
<1>. QED  BY <1>3, <1>4

\* The last flush: if it leaves the file name out, the copy had it from this very
\* second, and so had the committed row.
LEMMA DonePreserves ==
    ASSUME Inv, NEW u \in Requests, session[u].pc \in {"fetching", "fetched"},
           NEW mine \in Row, Flush(u, mine, "done"),
           mine.status \in {"completed", "failed"},
           mine.file = session[u].mine.file \/ mine.file = clock,
           job' = job, lock' = lock, clock' = clock,
           disk' \in [Jobs -> [Seconds -> Nat \cup {Partial, None}]],
           uploaded' \subseteq Jobs \X Seconds,
           \A j \in Jobs, s \in Seconds : disk[j][s] # None => disk'[j][s] # None,
           uploaded \subseteq uploaded',
           mine.status = "completed" =>
               /\ mine.file = clock
               /\ disk'[session[u].job][clock] # None
               /\ session[u].job \in Uploads => <<session[u].job, clock>> \in uploaded'
    PROVE  Inv'
<1>. DEFINE j == session[u].job
            old == session[u].mine
            tx == Flushed(session[u].tx, old, mine)
<1>1. /\ j \in Jobs /\ old \in Row /\ session[u].tx \in Row /\ old.status = "processing"
      /\ session[u].got \in Nat /\ lock[j] = u /\ job[j] \in Row /\ clock \in Seconds
  BY DEF Inv, Locked, Holds, TypeOK
<1>2. session' = [session EXCEPT ![u].pc = "done", ![u].mine = mine, ![u].tx = tx]
  BY DEF Flush
<1>3. tx \in Row  BY <1>1, FlushedType
<1>4. tx.status = mine.status  BY <1>1 DEF Flushed
<1>5. tx.file = IF mine.file # old.file THEN mine.file ELSE job[j].file
  BY DEF Flushed, Inv, Behind
<1>6. /\ old.file # None => job[j].file # None /\ old.file <= job[j].file
      /\ job[j].file # None => job[j].file \in Nat /\ job[j].file <= clock
      /\ old.file # None => old.file \in Nat
      /\ clock \in Nat
  BY <1>1, NoneIsApart DEF Inv, Behind, FilesPast, Row
<1>. HIDE DEF tx, old, j
<1>7. ASSUME mine.file = clock PROVE tx.file = clock
  <2>1. CASE mine.file # old.file  BY <1>5, <1>7, <2>1
  <2>2. CASE mine.file = old.file
    <3>1. old.file # None  BY <1>6, <1>7, <2>2, NoneIsApart
    <3>2. tx.file = job[j].file  BY <1>5, <2>2
    <3>3. job[j].file \in Nat /\ clock \in Nat /\ old.file = clock
          /\ old.file <= job[j].file /\ job[j].file <= clock
      BY <1>6, <1>7, <2>2, <3>1
    <3>4. \A m, n \in Nat : m <= n /\ n <= m => n = m  OBVIOUS
    <3>. QED  BY <3>2, <3>3, <3>4
  <2>. QED  BY <2>1, <2>2
<1>8. mine.file = old.file => tx.file = job[j].file  BY <1>5
<1>9. /\ session' \in [Requests -> SessionRow]
      /\ session'[u].pc = "done" /\ session'[u].job = j
      /\ session'[u].mine = mine /\ session'[u].tx = tx
      /\ \A v \in Requests \ {u} : session'[v] = session[v]
  BY <1>1, <1>2, <1>3, SessionStep DEF Inv, j
<1>10. TypeOK'  BY <1>9 DEF Inv, TypeOK, SessionRow
<1>11. Locked(u)'  BY <1>1, <1>4, <1>9 DEF Locked, Holds
<1>12. Behind(u)'  BY <1>9 DEF Behind
<1>13. Ready(u)'
  <2>1. tx.file # None => tx.file <= clock'
    BY <1>6, <1>7, <1>8 DEF old
  <2>2. job'[j].file # None => tx.file # None /\ job'[j].file <= tx.file
    BY <1>6, <1>7, <1>8, NoneIsApart DEF old
  <2>3. tx.status = "completed" =>
           /\ tx.file # None
           /\ disk'[j][tx.file] # None
           /\ j \in Uploads => <<j, tx.file>> \in uploaded'
    BY <1>4, <1>6, <1>7, NoneIsApart DEF j
  <2>. QED  BY <1>9, <2>1, <2>2, <2>3 DEF Ready
<1>. QED  BY <1>9, <1>10, <1>11, <1>12, <1>13, StepOf

LEMMA FailsPreserves ==
    ASSUME Inv, NEW u \in Requests, FetchFails(u) \/ WriteFails(u)
    PROVE  Inv'
<1>. DEFINE mine == Failed(session[u].mine)
<1>1. /\ session[u].pc \in {"fetching", "fetched"} /\ Flush(u, mine, "done")
      /\ job' = job /\ lock' = lock /\ clock' = clock /\ uploaded' = uploaded
      /\ disk' = disk \/ disk' = [disk EXCEPT ![session[u].job][clock] = Partial]
  BY DEF FetchFails, WriteFails
<1>2. session[u].mine \in Row /\ session[u].job \in Jobs /\ clock \in Seconds
  BY <1>1 DEF Inv, TypeOK, Locked
<1>3. mine \in Row /\ mine.status = "failed" /\ mine.file = session[u].mine.file
  BY <1>2, FailedType
<1>4. /\ disk' \in [Jobs -> [Seconds -> Nat \cup {Partial, None}]]
      /\ \A j \in Jobs, s \in Seconds : disk[j][s] # None => disk'[j][s] # None
  <2>1. disk \in [Jobs -> [Seconds -> Nat \cup {Partial, None}]]  BY DEF Inv, TypeOK
  <2>. HIDE DEF mine
  <2>2. CASE disk' = disk  BY <2>1, <2>2
  <2>3. CASE disk' = [disk EXCEPT ![session[u].job][clock] = Partial]
    BY <1>2, <2>1, <2>3, NoneIsApart
  <2>. QED  BY <1>1, <2>2, <2>3
<1>5. uploaded' \subseteq Jobs \X Seconds  BY <1>1 DEF Inv, TypeOK
<1>. HIDE DEF mine
<1>. QED  BY <1>1, <1>3, <1>4, <1>5, DonePreserves

LEMMA WritePreserves ==
    ASSUME Inv, NEW u \in Requests, WriteFile(u)
    PROVE  Inv'
<1>. DEFINE j == session[u].job
            done == [session[u].mine EXCEPT !.status = "completed", !.file = clock]
<1>1. /\ session[u].pc = "fetched"
      /\ disk' = [disk EXCEPT ![j][clock] = session[u].got]
      /\ job' = job /\ lock' = lock /\ clock' = clock
      /\ \/ /\ uploaded' = IF j \in Uploads THEN uploaded \cup {<<j, clock>>}
                           ELSE uploaded
            /\ Flush(u, done, "done")
         \/ /\ Flush(u, Failed(done), "done")
            /\ uploaded' = uploaded
  BY DEF WriteFile
<1>2. /\ session[u].mine \in Row /\ session[u].got \in Nat /\ j \in Jobs
      /\ clock \in Seconds
  BY <1>1 DEF Inv, TypeOK, Locked
<1>3. done \in Row /\ done.status = "completed" /\ done.file = clock
  BY <1>2 DEF Row
<1>. HIDE DEF done
<1>4. /\ disk' \in [Jobs -> [Seconds -> Nat \cup {Partial, None}]]
      /\ disk'[j][clock] # None
      /\ \A i \in Jobs, s \in Seconds : disk[i][s] # None => disk'[i][s] # None
  BY <1>1, <1>2, NoneIsApart DEF Inv, TypeOK
<1>5. CASE /\ uploaded' = IF j \in Uploads THEN uploaded \cup {<<j, clock>>} ELSE uploaded
           /\ Flush(u, done, "done")
  <2>1. /\ uploaded' \subseteq Jobs \X Seconds /\ uploaded \subseteq uploaded'
        /\ j \in Uploads => <<j, clock>> \in uploaded'
    BY <1>2, <1>5 DEF Inv, TypeOK
  <2>. QED  BY <1>1, <1>3, <1>4, <1>5, <2>1, DonePreserves
<1>6. CASE Flush(u, Failed(done), "done") /\ uploaded' = uploaded
  <2>1. /\ Failed(done) \in Row /\ Failed(done).status = "failed"
        /\ Failed(done).file = clock
    BY <1>3, FailedType
  <2>2. uploaded' \subseteq Jobs \X Seconds  BY <1>6 DEF Inv, TypeOK
  <2>. QED  BY <1>1, <1>4, <1>6, <2>1, <2>2, DonePreserves
<1>. QED  BY <1>1, <1>5, <1>6

LEMMA ClosedStep ==
    ASSUME Inv, NEW u \in Requests, session' = [session EXCEPT ![u] = Closed],
           lock' = Unlock(u)
    PROVE  /\ session' \in [Requests -> SessionRow]
           /\ lock' \in [Jobs -> Requests \cup {None}]
           /\ \A v \in Requests \ {u} : session'[v] = session[v]
           /\ Locked(u)' /\ Behind(u)' /\ Ready(u)'
<1>1. session \in [Requests -> SessionRow]  BY DEF Inv, TypeOK, SessionRow
<1>2. session'[u] = Closed  BY <1>1
<1>3. Closed.pc = "idle"  BY DEF Closed
<1>4. lock' \in [Jobs -> Requests \cup {None}]  BY DEF Inv, TypeOK, Unlock
<1>. QED  BY <1>1, <1>2, <1>3, <1>4, ClosedType DEF Locked, Behind, Ready, Holds

LEMMA AbortPreserves ==
    ASSUME Inv, NEW u \in Requests, Abort(u)
    PROVE  Inv'
<1>1. /\ session' = [session EXCEPT ![u] = Closed] /\ lock' = Unlock(u)
      /\ job' = job /\ disk' = disk /\ uploaded' = uploaded /\ clock' = clock
  BY DEF Abort
<1>2. TypeOK'  BY <1>1, ClosedStep DEF Inv, TypeOK, SessionRow
<1>. QED  BY <1>1, <1>2, ClosedStep, StepOf

\* What is committed is what Ready says.
LEMMA CommitPreserves ==
    ASSUME Inv, NEW u \in Requests, Commit(u)
    PROVE  Inv'
<1>. DEFINE j == session[u].job
            tx == session[u].tx
<1>1. /\ session[u].pc = "done" /\ job' = [job EXCEPT ![j] = tx]
      /\ session' = [session EXCEPT ![u] = Closed] /\ lock' = Unlock(u)
      /\ disk' = disk /\ uploaded' = uploaded /\ clock' = clock
  BY DEF Commit
<1>2. j \in Jobs /\ tx \in Row /\ tx.status \in {"completed", "failed"}
  BY <1>1 DEF Inv, Locked, TypeOK
<1>3. /\ tx.file # None => tx.file <= clock
      /\ tx.status = "completed" =>
            /\ tx.file # None
            /\ disk[j][tx.file] # None
            /\ j \in Uploads => <<j, tx.file>> \in uploaded
  BY <1>1 DEF Inv, Ready
<1>4. /\ session' \in [Requests -> SessionRow]
      /\ lock' \in [Jobs -> Requests \cup {None}]
      /\ \A v \in Requests \ {u} : session'[v] = session[v]
      /\ Locked(u)' /\ Behind(u)' /\ Ready(u)'
  BY <1>1, ClosedStep
<1>5. TypeOK'  BY <1>1, <1>2, <1>4 DEF Inv, TypeOK, SessionRow
<1>6. ASSUME NEW v \in Requests PROVE Locked(v)' /\ Behind(v)' /\ Ready(v)'
  <2>1. CASE v = u  BY <1>4, <2>1
  <2>2. CASE v # u
    <3>1. session'[v] = session[v]  BY <1>4, <2>2
    <3>. QED  BY <1>1, <2>2, <3>1, OthersKeep
  <2>. QED  BY <2>1, <2>2
<1>7. job'[j] = tx /\ \A i \in Jobs \ {j} : job'[i] = job[i]
  BY <1>1, <1>2 DEF Inv, TypeOK
<1>. HIDE DEF j, tx
<1>8. NeverLeftProcessing'
  BY <1>2, <1>7 DEF Inv, NeverLeftProcessing
<1>9. CompletedIsAvailable'
  BY <1>1, <1>3, <1>7 DEF Inv, CompletedIsAvailable, get_export_file
<1>10. FilesPast'  BY <1>1, <1>3, <1>7 DEF Inv, FilesPast
<1>. QED  BY <1>5, <1>6, <1>8, <1>9, <1>10 DEF Inv

-----------------------------------------------------------------------------
LEMMA NextInv == Inv /\ [Next]_vars => Inv'
<1>. SUFFICES ASSUME Inv, [Next]_vars PROVE Inv'  OBVIOUS
<1>1. ASSUME NEW j \in Jobs, create_export_job(j) PROVE Inv'
  BY <1>1, CreatePreserves
<1>2. ASSUME NEW u \in Requests, NEW j \in Jobs, execute_export(u, j) PROVE Inv'
  BY <1>2, ExecutePreserves
<1>3. ASSUME NEW u \in Requests, Begin(u) PROVE Inv'  BY <1>3, BeginPreserves
<1>4. ASSUME NEW u \in Requests, Work(u) PROVE Inv'
  BY <1>4, FetchPreserves, FailsPreserves, WritePreserves, CommitPreserves DEF Work
<1>5. ASSUME NEW u \in Requests, Abort(u) PROVE Inv'  BY <1>5, AbortPreserves
<1>6. CASE Tick  BY <1>6, TickPreserves
<1>7. CASE UNCHANGED vars
  BY <1>7
  DEF vars, Inv, TypeOK, NeverLeftProcessing, CompletedIsAvailable, get_export_file,
      FilesPast, Locked, Behind, Ready, Holds
<1>. QED  BY <1>1, <1>2, <1>3, <1>4, <1>5, <1>6, <1>7 DEF Next

LEMMA Invariance == Spec => []Inv
BY InitInv, NextInv, PTL DEF Spec

\* Rows, files and transactions keep their types, and each execution the claims
\* its locks and copies make.
THEOREM Typing == Spec => []TypeOK
<1>1. Inv => TypeOK  BY DEF Inv
<1>. QED  BY <1>1, Invariance, PTL

\* No job is ever committed as processing, whatever executions overlap, die or
\* fail.
THEOREM NoJobStuck == Spec => []NeverLeftProcessing
<1>1. Inv => NeverLeftProcessing  BY DEF Inv
<1>. QED  BY <1>1, Invariance, PTL

\* A completed job has a file to download and, if it names a store, was uploaded
\* with that file.
THEOREM CompletedHasItsFile == Spec => []CompletedIsAvailable
<1>1. Inv => CompletedIsAvailable  BY DEF Inv
<1>. QED  BY <1>1, Invariance, PTL

\* Fairness takes nothing away from what the steps preserve.
THEOREM FairInvariance ==
    FairSpec => [](TypeOK /\ NeverLeftProcessing /\ CompletedIsAvailable)
<1>1. Inv => TypeOK /\ NeverLeftProcessing /\ CompletedIsAvailable  BY DEF Inv
<1>. QED  BY <1>1, Invariance, PTL DEF FairSpec
================================================================================
