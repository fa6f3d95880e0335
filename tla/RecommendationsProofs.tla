-------------------------- MODULE RecommendationsProofs -------------------------
(***************************************************************************)
(* Proofs about the two caches of recommendations, for any number of       *)
(* accounts, reads and clears, any lifetime and any wait.                  *)
(***************************************************************************)
EXTENDS Recommendations, TLAPS

\* An entry that is in use was base old at most when it was stored.
Aged(entry, base) == Fresh(entry) => entry.age <= base + entry.kept

\* What is in MongoDB waited for its fetch only; what is in memory may have been
\* in MongoDB before.  After d clears that met no read, completed up to c, only
\* the memory can still hold what was fetched before the last one.
Caches ==
    /\ \A a \in Accounts : Aged(memory[a], MaxWait + TTL - 1) /\ Aged(mongo[a], MaxWait)
    /\ Fresh(memory[Watched]) => memory[Watched].gen >= cleared
    /\ Fresh(mongo[Watched]) => mongo[Watched].gen = deletes
    /\ flight # None /\ flight.open => flight.gen = deletes
    /\ cleared <= deletes

\* What a read holds, after d clears that met no read, completed up to c.
Sound(t, d, c) ==
    /\ t.pc = "idle" => t = IdleReader
    /\ t.pc \in {"idle", "reading", "waiting"} => t.hand = None
    /\ t.pc \in {"mongo", "waiting", "fetched", "stored"} => t.at \in Accounts
    /\ t.pc \in {"waiting", "fetched"} => t.waited = 0
    /\ t.pc \in {"fetched", "stored"} => t.hand # None /\ t.hand.kept = t.waited
    /\ Aged(t.hand, MaxWait)
    /\ Fresh(t.hand) /\ t.at = Watched => t.hand.gen = d
    /\ t.asked <= c
    /\ t.taken # None => t.taken.age < 2 * TTL + MaxWait
    /\ t.taken # None /\ t.at = Watched => t.taken.gen >= t.asked

\* Nobody waits for an execution that is over, or whose future is cancelled.
Awaited(t, f) == t.pc = "waiting" => f # None /\ f.open

Inv ==
    /\ TypeOK
    /\ Caches
    /\ \A r \in Readers : Awaited(reader[r], flight)
    /\ \A r \in Readers : Sound(reader[r], deletes, cleared)

-----------------------------------------------------------------------------
LEMMA Constants ==
    /\ TTL \in Nat /\ TTL > 0 /\ MaxWait \in Nat /\ ReplyTime \in Nat /\ ReplyTime < TTL
    /\ MaxClears \in Nat /\ Watched \in Accounts /\ None \notin Accounts
    /\ Oldest = 2 * TTL + MaxWait /\ Oldest \in Nat
BY RecommendationsAssumption DEF Oldest

LEMMA NoneIsApart == None \notin Entries /\ None \notin Flights
BY RecommendationsAssumption, Constants DEF Entries, Flights, Clears

LEMMA EntryTypes ==
    ASSUME NEW e \in Entries
    PROVE  /\ e.age \in Nat /\ e.kept \in Nat /\ e.gen \in Nat
           /\ e.age <= Oldest /\ e.kept <= TTL /\ e.gen \in Clears
           /\ e # None
BY Constants, NoneIsApart DEF Entries, Clears

\* Storing an entry keeps its age and its fetch.
LEMMA StampedEntry ==
    ASSUME NEW e \in Entries
    PROVE  /\ Stamped(e) \in Entries /\ Stamped(e).age = e.age
           /\ Stamped(e).kept = 0 /\ Stamped(e).gen = e.gen
BY Constants DEF Entries, Stamped

\* A tick makes an entry older by as much as it is kept longer, or ends its use.
LEMMA OlderEntry ==
    ASSUME NEW e \in Entries \cup {None}, NEW base \in Nat,
           base <= MaxWait + TTL, Aged(e, base)
    PROVE  /\ Older(e) \in Entries \cup {None}
           /\ e = None => Older(e) = None
           /\ Aged(Older(e), base)
           /\ Fresh(Older(e)) => Fresh(e) /\ Older(e).gen = e.gen
           /\ e # None /\ e.kept + 1 < TTL => Older(e) # None /\ Older(e).kept = e.kept + 1
<1>1. CASE e = None  BY <1>1 DEF Older, Aged, Fresh
<1>2. CASE e # None /\ e.kept + 1 >= TTL
  <2>1. Older(e) = Expired  BY <1>2 DEF Older
  <2>2. Expired \in Entries /\ Expired.kept = TTL
    BY Constants DEF Expired, Entries, Clears
  <2>3. ~Fresh(Expired)  BY <2>2, Constants DEF Fresh
  <2>4. e.kept \in Nat  BY <1>2, EntryTypes
  <2>. QED  BY <1>2, <2>1, <2>2, <2>3, <2>4, Constants DEF Aged
<1>3. CASE e # None /\ ~(e.kept + 1 >= TTL)
  <2>. DEFINE o == [e EXCEPT !.age = e.age + 1, !.kept = e.kept + 1]
  <2>1. Older(e) = o  BY <1>3 DEF Older
  <2>2. /\ e.age \in Nat /\ e.kept \in Nat /\ e.age <= base + e.kept /\ Fresh(e)
        /\ e.kept + 1 < TTL
    BY <1>3, EntryTypes, Constants DEF Aged, Fresh
  <2>3. e.age + 1 \in 0..Oldest /\ e.kept + 1 \in 0..TTL
    BY <2>2, Constants
  <2>4. /\ o \in Entries /\ o.age = e.age + 1 /\ o.kept = e.kept + 1 /\ o.gen = e.gen
    BY <1>3, <2>3 DEF Entries
  <2>. HIDE DEF o
  <2>5. o # None  BY <2>4, EntryTypes
  <2>6. Aged(o, base)  BY <2>2, <2>4 DEF Aged
  <2>. QED  BY <1>3, <2>1, <2>2, <2>4, <2>5, <2>6
<1>. QED  BY <1>1, <1>2, <1>3

LEMMA IdleSound ==
    ASSUME NEW d \in Nat, NEW c \in Nat
    PROVE  IdleReader \in ReaderStates /\ Sound(IdleReader, d, c)
<1>1. IdleReader \in ReaderStates
  BY Constants DEF IdleReader, ReaderStates, Clears
<1>. QED
  BY <1>1, Constants DEF IdleReader, Sound, Aged, Fresh

LEMMA InitInv == Init => Inv
<1>. SUFFICES ASSUME Init PROVE Inv  OBVIOUS
<1>1. TypeOK
  BY IdleSound, Constants DEF Init, TypeOK, Clears
<1>2. Caches  BY Constants DEF Init, Caches, Aged, Fresh
<1>3. \A r \in Readers : Awaited(reader[r], flight)
  BY DEF Init, IdleReader, Awaited
<1>. QED  BY <1>1, <1>2, <1>3, IdleSound DEF Init, Inv
-----------------------------------------------------------------------------
LEMMA ReaderStep ==
    ASSUME Inv, NEW r \in Readers, NEW t \in ReaderStates,
           reader' = [reader EXCEPT ![r] = t], Sound(t, deletes, cleared),
           Awaited(t, flight'),
           flight' = flight \/ (flight' # None /\ flight'.open),
           UNCHANGED <<clearing, deletes, cleared>>, Caches',
           memory' \in [Accounts -> Entries \cup {None}],
           mongo' \in [Accounts -> Entries \cup {None}],
           flight' \in Flights \cup {None}
    PROVE  Inv'
<1>1. TypeOK'  BY DEF Inv, TypeOK
<1>2. \A q \in Readers : Sound(reader'[q], deletes', cleared')
  BY DEF Inv, TypeOK
<1>3. \A q \in Readers : Awaited(reader'[q], flight')
  BY DEF Inv, TypeOK, Awaited
<1>. QED  BY <1>1, <1>2, <1>3 DEF Inv

\* Nothing but the reader changes.
LEMMA ReaderOnly ==
    ASSUME Inv, NEW r \in Readers, NEW t \in ReaderStates,
           reader' = [reader EXCEPT ![r] = t], Sound(t, deletes, cleared),
           t.pc # "waiting",
           UNCHANGED <<memory, mongo, flight, clearing, deletes, cleared>>
    PROVE  Inv'
<1>1. Caches'  BY DEF Inv, Caches
<1>2. Awaited(t, flight')  BY DEF Awaited
<1>. QED  BY <1>1, <1>2, ReaderStep DEF Inv, TypeOK

LEMMA Counts ==
    ASSUME Inv
    PROVE  deletes \in Nat /\ cleared \in Nat /\ cleared <= deletes
BY Constants DEF Inv, TypeOK, Caches, Clears

\* The state of a reader, and what Inv says of it.
LEMMA ReaderFacts ==
    ASSUME Inv, NEW r \in Readers
    PROVE  reader[r] \in ReaderStates /\ Sound(reader[r], deletes, cleared)
BY DEF Inv, TypeOK

\* Using a fresh entry of an account that is old enough and not too old.
LEMMA TakenSound ==
    ASSUME Inv, NEW r \in Readers, NEW a \in Accounts, NEW e \in Entries,
           e.age < 2 * TTL + MaxWait, a = Watched => e.gen >= cleared,
           Taken(r, a, e)
    PROVE  \E t \in ReaderStates : /\ reader' = [reader EXCEPT ![r] = t]
                                   /\ Sound(t, deletes, cleared)
                                   /\ t.pc # "waiting"
<1>. DEFINE t == [reader[r] EXCEPT !.pc = "reading", !.todo = reader[r].todo \ {a},
                             !.at = a, !.taken = Stamped(e), !.hand = None, !.waited = 0]
<1>1. reader' = [reader EXCEPT ![r] = t]  BY DEF Taken
<1>2. /\ t \in ReaderStates /\ t.pc = "reading" /\ t.at = a /\ t.taken = Stamped(e)
      /\ t.hand = None /\ t.asked = reader[r].asked
  <2>1. 0 \in 0..ReplyTime  BY Constants
  <2>. QED  BY <2>1, ReaderFacts, StampedEntry DEF ReaderStates
<1>. HIDE DEF t
<1>3. Stamped(e).age < 2 * TTL + MaxWait
  BY StampedEntry
<1>4. reader[r].asked \in Nat /\ reader[r].asked <= cleared
  BY ReaderFacts, Constants DEF ReaderStates, Clears, Sound
<1>5. a = Watched => Stamped(e).gen >= reader[r].asked
  BY <1>4, StampedEntry, EntryTypes, Counts
<1>6. Sound(t, deletes, cleared)
  BY <1>2, <1>3, <1>4, <1>5 DEF Sound, Aged, Fresh
<1>. QED  BY <1>1, <1>2, <1>6

LEMMA BeginPreserves ==
    ASSUME Inv, NEW r \in Readers, Begin(r)
    PROVE  Inv'
<1>1. PICK chosen \in SUBSET Accounts \ {{}} :
        reader' = [reader EXCEPT ![r].pc = "reading", ![r].todo = chosen,
                                 ![r].asked = IF Watched \in chosen THEN cleared ELSE 0]
  BY DEF Begin
<1>. DEFINE asked == IF Watched \in chosen THEN cleared ELSE 0
            t == [reader[r] EXCEPT !.pc = "reading", !.todo = chosen, !.asked = asked]
<1>2. reader' = [reader EXCEPT ![r] = t]  BY <1>1
<1>3. reader[r] = IdleReader /\ reader[r] \in ReaderStates
  BY ReaderFacts DEF Begin, Sound
<1>4. asked \in Clears /\ asked <= cleared /\ asked \in Nat
  BY Counts, Constants DEF Inv, TypeOK, Clears
<1>. HIDE DEF asked
<1>5. /\ t \in ReaderStates /\ t.pc = "reading" /\ t.hand = None /\ t.taken = None
      /\ t.asked = asked
  <2>1. /\ t.pc = "reading" /\ t.hand = reader[r].hand /\ t.taken = reader[r].taken
        /\ t.asked = asked /\ t \in ReaderStates
    BY <1>3, <1>4 DEF ReaderStates
  <2>2. reader[r].hand = None /\ reader[r].taken = None  BY <1>3 DEF IdleReader
  <2>. QED  BY <2>1, <2>2
<1>. HIDE DEF t
<1>6. Sound(t, deletes, cleared)  BY <1>4, <1>5 DEF Sound, Aged, Fresh
<1>. QED  BY <1>2, <1>5, <1>6, ReaderOnly DEF Begin

LEMMA FromMemoryPreserves ==
    ASSUME Inv, NEW r \in Readers, NEW a \in Accounts, FromMemory(r, a)
    PROVE  Inv'
<1>. DEFINE e == memory[a]
<1>1. e \in Entries /\ Fresh(e) /\ Aged(e, MaxWait + TTL - 1)
  BY DEF FromMemory, Fresh, Inv, TypeOK, Caches
<1>2. a = Watched => e.gen >= cleared  BY <1>1 DEF Inv, Caches
<1>. HIDE DEF e
<1>3. e.age < 2 * TTL + MaxWait
  BY <1>1, EntryTypes, Constants DEF Fresh, Aged
<1>4. PICK t \in ReaderStates : /\ reader' = [reader EXCEPT ![r] = t]
                                /\ Sound(t, deletes, cleared)
                                /\ t.pc # "waiting"
  <2>1. Taken(r, a, e)  BY DEF FromMemory, e
  <2>. QED  BY <1>1, <1>2, <1>3, <2>1, TakenSound
<1>. QED  BY <1>4, ReaderOnly DEF FromMemory

LEMMA LookUpPreserves ==
    ASSUME Inv, NEW r \in Readers, NEW a \in Accounts, LookUp(r, a)
    PROVE  Inv'
<1>. DEFINE hand == IF Fresh(mongo[a]) THEN mongo[a] ELSE None
            t == [reader[r] EXCEPT !.pc = "mongo", !.at = a, !.hand = hand, !.taken = None]
<1>1. reader' = [reader EXCEPT ![r] = t]  BY DEF LookUp
<1>2. /\ hand \in Entries \cup {None} /\ Aged(hand, MaxWait)
      /\ Fresh(hand) /\ a = Watched => hand.gen = deletes
  <2>1. mongo[a] \in Entries \cup {None} /\ Aged(mongo[a], MaxWait)
        /\ (Fresh(mongo[a]) /\ a = Watched => mongo[a].gen = deletes)
    BY DEF Inv, TypeOK, Caches
  <2>. QED  BY <2>1 DEF Aged, Fresh
<1>. HIDE DEF hand
<1>3. /\ t \in ReaderStates /\ t.pc = "mongo" /\ t.at = a /\ t.hand = hand
      /\ t.taken = None /\ t.asked = reader[r].asked
  BY <1>2, ReaderFacts DEF ReaderStates
<1>. HIDE DEF t
<1>4. Sound(t, deletes, cleared)
  <2>1. reader[r].asked <= cleared  BY ReaderFacts DEF Sound
  <2>. QED  BY <1>2, <1>3, <2>1 DEF Sound
<1>5. /\ memory' = [memory EXCEPT ![a] = None]
      /\ UNCHANGED <<mongo, flight, clearing, deletes, cleared>>
  BY DEF LookUp
<1>6. memory' \in [Accounts -> Entries \cup {None}]  BY <1>5 DEF Inv, TypeOK
<1>7. \A b \in Accounts : memory'[b] = memory[b] \/ memory'[b] = None
  BY <1>5 DEF Inv, TypeOK
<1>8. Caches'
  BY <1>5, <1>7, Constants DEF Inv, Caches, Aged, Fresh
<1>9. Awaited(t, flight')  BY <1>3 DEF Awaited
<1>. QED  BY <1>1, <1>3, <1>4, <1>5, <1>6, <1>8, <1>9, ReaderStep DEF Inv, TypeOK

\* The entry in hand goes to memory, and is used.
LEMMA RememberPreserves ==
    ASSUME Inv, NEW r \in Readers, reader[r].pc \in {"mongo", "stored"},
           Fresh(reader[r].hand),
           memory' = [memory EXCEPT ![reader[r].at] = Stamped(reader[r].hand)],
           Taken(r, reader[r].at, reader[r].hand),
           UNCHANGED <<mongo, flight, clearing, deletes, cleared>>
    PROVE  Inv'
<1>. DEFINE a == reader[r].at
            e == reader[r].hand
<1>1. /\ a \in Accounts /\ e \in Entries /\ Aged(e, MaxWait)
      /\ a = Watched => e.gen = deletes
  BY ReaderFacts DEF ReaderStates, Sound, Fresh
<1>2. Fresh(e) /\ Taken(r, a, e) /\ memory' = [memory EXCEPT ![a] = Stamped(e)]
  OBVIOUS
<1>. HIDE DEF a, e
<1>3. e.age <= MaxWait + TTL - 1 /\ e.age < 2 * TTL + MaxWait
  BY <1>1, <1>2, EntryTypes, Constants DEF Fresh, Aged
<1>4. PICK t \in ReaderStates : /\ reader' = [reader EXCEPT ![r] = t]
                                /\ Sound(t, deletes, cleared)
                                /\ t.pc # "waiting"
  <2>1. a = Watched => e.gen >= cleared  BY <1>1, Counts
  <2>. QED  BY <1>1, <1>2, <1>3, <2>1, TakenSound
<1>5. memory' \in [Accounts -> Entries \cup {None}]
  BY <1>1, <1>2, StampedEntry DEF Inv, TypeOK
<1>6. Caches'
  <2>1. Aged(Stamped(e), MaxWait + TTL - 1)
    BY <1>1, <1>3, StampedEntry, EntryTypes, Constants DEF Aged
  <2>2. \A b \in Accounts : memory'[b] = IF b = a THEN Stamped(e) ELSE memory[b]
    BY <1>1, <1>2 DEF Inv, TypeOK
  <2>3. a = Watched => Stamped(e).gen >= cleared
    BY <1>1, StampedEntry, Counts
  <2>4. \A b \in Accounts : Aged(memory'[b], MaxWait + TTL - 1)
    BY <2>1, <2>2 DEF Inv, Caches
  <2>5. Fresh(memory'[Watched]) => memory'[Watched].gen >= cleared
    BY <2>2, <2>3, Constants DEF Inv, Caches
  <2>. QED  BY <2>4, <2>5 DEF Inv, Caches
<1>7. Awaited(t, flight')  BY <1>4 DEF Awaited
<1>. QED  BY <1>4, <1>5, <1>6, <1>7, ReaderStep DEF Inv, TypeOK

\* What is stored is fresh: a reply of MongoDB takes less than a lifetime.
LEMMA HandPreserves ==
    ASSUME Inv, NEW r \in Readers, FromMongo(r) \/ Remember(r)
    PROVE  Inv'
<1>1. CASE FromMongo(r)  BY <1>1, RememberPreserves DEF FromMongo
<1>2. CASE Remember(r)
  <2>1. reader[r].pc = "stored"  BY <1>2 DEF Remember
  <2>2. Fresh(reader[r].hand)
    <3>1. reader[r].hand # None /\ reader[r].hand.kept = reader[r].waited
          /\ reader[r].waited \in 0..ReplyTime
      BY <2>1, ReaderFacts DEF Sound, ReaderStates
    <3>. QED  BY <3>1, Constants DEF Fresh
  <2>. QED  BY <1>2, <2>1, <2>2, RememberPreserves DEF Remember
<1>. QED  BY <1>1, <1>2
LEMMA BadConfigPreserves ==
    ASSUME Inv, NEW r \in Readers, BadConfig(r)
    PROVE  Inv'
<1>. DEFINE t == [reader[r] EXCEPT !.pc = "reading",
                             !.todo = reader[r].todo \ {reader[r].at},
                             !.at = None, !.hand = None, !.waited = 0]
<1>1. reader' = [reader EXCEPT ![r] = t]  BY DEF BadConfig
<1>2. /\ t \in ReaderStates /\ t.pc = "reading" /\ t.at = None /\ t.hand = None
      /\ t.asked = reader[r].asked /\ t.taken = reader[r].taken
  <2>1. 0 \in 0..ReplyTime  BY Constants
  <2>. QED  BY <2>1, ReaderFacts DEF ReaderStates
<1>. HIDE DEF t
<1>3. Sound(t, deletes, cleared)
  BY <1>2, ReaderFacts, Constants DEF Sound, Aged, Fresh
<1>. QED  BY <1>1, <1>2, <1>3, ReaderOnly DEF BadConfig

LEMMA FetchPreserves ==
    ASSUME Inv, NEW r \in Readers, Fetch(r)
    PROVE  Inv'
<1>. DEFINE t == [reader[r] EXCEPT !.pc = "waiting", !.hand = None, !.waited = 0]
<1>1. reader' = [reader EXCEPT ![r] = t]  BY DEF Fetch, Waits
<1>2. /\ t \in ReaderStates /\ t.pc = "waiting" /\ t.hand = None /\ t.waited = 0
      /\ t.at = reader[r].at /\ t.asked = reader[r].asked /\ t.taken = reader[r].taken
  <2>1. 0 \in 0..ReplyTime  BY Constants
  <2>. QED  BY <2>1, ReaderFacts DEF ReaderStates
<1>. HIDE DEF t
<1>3. Sound(t, deletes, cleared)
  BY <1>2, ReaderFacts DEF Sound, Aged, Fresh, Fetch
<1>4. flight' = flight \/ flight' = [open |-> TRUE, age |-> 0, gen |-> deletes]
  BY DEF Fetch
<1>5. flight' \in Flights \cup {None} /\ (flight' # None /\ flight'.open => flight'.gen = deletes)
  <2>1. CASE flight' = flight  BY <2>1 DEF Inv, TypeOK, Caches
  <2>2. CASE flight' = [open |-> TRUE, age |-> 0, gen |-> deletes]
    <3>1. 0 \in 0..MaxWait /\ deletes \in Clears  BY Constants DEF Inv, TypeOK
    <3>. QED  BY <2>2, <3>1 DEF Flights
  <2>. QED  BY <1>4, <2>1, <2>2
<1>6. UNCHANGED <<memory, mongo, clearing, deletes, cleared>>  BY DEF Fetch
<1>7. Caches'  BY <1>5, <1>6 DEF Inv, Caches
<1>8. flight' # None /\ flight'.open
  <2>1. 0 \in 0..MaxWait /\ deletes \in Clears  BY Constants DEF Inv, TypeOK
  <2>2. [open |-> TRUE, age |-> 0, gen |-> deletes] \in Flights  BY <2>1 DEF Flights
  <2>3. [open |-> TRUE, age |-> 0, gen |-> deletes] # None  BY <2>2, NoneIsApart
  <2>4. [open |-> TRUE, age |-> 0, gen |-> deletes].open  OBVIOUS
  <2>. QED  BY <2>3, <2>4 DEF Fetch
<1>9. Awaited(t, flight')  BY <1>8 DEF Awaited
<1>. QED  BY <1>1, <1>2, <1>3, <1>5, <1>6, <1>7, <1>8, <1>9, ReaderStep DEF Inv, TypeOK

\* The items are as old as the wait, and come after every clear that met no read.
LEMMA FinishPreserves ==
    ASSUME Inv, Finish
    PROVE  Inv'
<1>1. /\ flight \in Flights /\ flight' = None
      /\ UNCHANGED <<memory, mongo, clearing, deletes, cleared>>
  BY DEF Finish, Inv, TypeOK
<1>2. Caches'  BY <1>1 DEF Inv, Caches
<1>3. ASSUME NEW r \in Readers
      PROVE  reader'[r] \in ReaderStates /\ Sound(reader'[r], deletes, cleared)
  <2>1. CASE ~(flight.open /\ reader[r].pc = "waiting")
    BY <2>1, ReaderFacts DEF Finish
  <2>2. CASE flight.open /\ reader[r].pc = "waiting"
    <3>. DEFINE e == Items(r)
                t == [reader[r] EXCEPT !.pc = "fetched", !.hand = e]
    <3>1. reader'[r] = t  BY <2>2 DEF Finish
    <3>2. /\ e \in Entries /\ e.age <= MaxWait /\ e.kept = 0
          /\ reader[r].at = Watched => e.gen = deletes
      <4>1. /\ flight.age \in 0..MaxWait /\ flight.gen \in Clears /\ flight.gen = deletes
            /\ 0 \in Clears /\ 0 \in 0..TTL /\ flight.age \in 0..Oldest
            /\ flight.age <= MaxWait
        BY <1>1, <2>2, Constants, NoneIsApart DEF Flights, Inv, Caches, Clears
      <4>. QED  BY <4>1 DEF Items, Entries
    <3>. HIDE DEF e
    <3>3. /\ t \in ReaderStates /\ t.pc = "fetched" /\ t.hand = e
          /\ t.at = reader[r].at /\ t.waited = reader[r].waited
          /\ t.asked = reader[r].asked /\ t.taken = reader[r].taken
      BY <3>2, ReaderFacts DEF ReaderStates
    <3>. HIDE DEF t
    <3>4. Aged(e, MaxWait) /\ e # None
      BY <3>2, EntryTypes, Constants DEF Aged
    <3>5. Sound(t, deletes, cleared)
      BY <2>2, <3>2, <3>3, <3>4, ReaderFacts DEF Sound
    <3>. QED  BY <3>1, <3>3, <3>5
  <2>. QED  BY <2>1, <2>2
<1>4. reader' \in [Readers -> ReaderStates]
  <2>1. reader' = [r \in Readers |-> reader'[r]]  BY DEF Finish
  <2>. QED  BY <1>3, <2>1
<1>5. TypeOK'  BY <1>1, <1>4 DEF Inv, TypeOK
<1>6. \A r \in Readers : Awaited(reader'[r], flight')
  <2>1. \A r \in Readers : reader[r].pc = "waiting" => flight.open
    BY DEF Inv, Awaited
  <2>2. \A r \in Readers : reader[r] \in ReaderStates  BY DEF Inv, TypeOK
  <2>3. ASSUME NEW r \in Readers PROVE reader'[r].pc # "waiting"
    <3>1. CASE flight.open /\ reader[r].pc = "waiting"
      <4>1. reader'[r] = [reader[r] EXCEPT !.pc = "fetched", !.hand = Items(r)]
        BY <3>1 DEF Finish
      <4>. QED  BY <2>2, <4>1 DEF ReaderStates
    <3>2. CASE ~(flight.open /\ reader[r].pc = "waiting")
      BY <2>1, <3>2 DEF Finish
    <3>. QED  BY <3>1, <3>2
  <2>. QED  BY <2>3 DEF Awaited
<1>. QED  BY <1>1, <1>2, <1>3, <1>5, <1>6 DEF Inv

LEMMA StorePreserves ==
    ASSUME Inv, NEW r \in Readers, Store(r)
    PROVE  Inv'
<1>. DEFINE a == reader[r].at
            e == reader[r].hand
            t == [reader[r] EXCEPT !.pc = "stored"]
<1>1. /\ reader[r].pc = "fetched" /\ mongo' = [mongo EXCEPT ![a] = e]
      /\ reader' = [reader EXCEPT ![r] = t]
      /\ UNCHANGED <<memory, flight, clearing, deletes, cleared>>
  BY DEF Store
<1>2. /\ a \in Accounts /\ e \in Entries /\ Aged(e, MaxWait)
      /\ Fresh(e) /\ a = Watched => e.gen = deletes
  BY <1>1, ReaderFacts DEF ReaderStates, Sound
<1>3. /\ t \in ReaderStates /\ t.pc = "stored" /\ t.hand = e /\ t.at = a
      /\ t.waited = reader[r].waited /\ t.asked = reader[r].asked
      /\ t.taken = reader[r].taken
  BY ReaderFacts DEF ReaderStates
<1>. HIDE DEF t
<1>4. Sound(t, deletes, cleared)  BY <1>1, <1>3, ReaderFacts DEF Sound
<1>. HIDE DEF a, e
<1>5. mongo' \in [Accounts -> Entries \cup {None}]  BY <1>1, <1>2 DEF Inv, TypeOK
<1>6. \A b \in Accounts : mongo'[b] = IF b = a THEN e ELSE mongo[b]
  BY <1>1, <1>2 DEF Inv, TypeOK
<1>7. Caches'
  <2>1. \A b \in Accounts : Aged(mongo'[b], MaxWait)  BY <1>2, <1>6 DEF Inv, Caches
  <2>2. Fresh(mongo'[Watched]) => mongo'[Watched].gen = deletes
    BY <1>2, <1>6, Constants DEF Inv, Caches
  <2>. QED  BY <1>1, <2>1, <2>2 DEF Inv, Caches
<1>8. Awaited(t, flight')  BY <1>3 DEF Awaited
<1>. QED  BY <1>1, <1>3, <1>4, <1>5, <1>7, <1>8, ReaderStep DEF Inv, TypeOK

\* Readers that are done, cut off or cancelled; all of the waiting ones together.
LEMMA DonePreserves ==
    ASSUME Inv,
           \/ flight' = flight
           \/ /\ flight' = [flight EXCEPT !.open = FALSE] /\ flight # None
              /\ \A r \in Readers : reader'[r].pc # "waiting",
           \A r \in Readers : reader'[r] = reader[r] \/ reader'[r] = IdleReader,
           reader' = [r \in Readers |-> reader'[r]],
           UNCHANGED <<memory, mongo, clearing, deletes, cleared>>
    PROVE  Inv'
<1>1. reader' \in [Readers -> ReaderStates]
      /\ \A r \in Readers : Sound(reader'[r], deletes, cleared)
  <2>1. \A r \in Readers : reader[r] \in ReaderStates /\ Sound(reader[r], deletes, cleared)
    BY ReaderFacts
  <2>2. IdleReader \in ReaderStates /\ Sound(IdleReader, deletes, cleared)
    BY IdleSound, Counts
  <2>3. \A r \in Readers : reader'[r] \in ReaderStates /\ Sound(reader'[r], deletes, cleared)
    BY <2>1, <2>2
  <2>. QED  BY <2>3
<1>2. flight' \in Flights \cup {None} /\ (flight' # None /\ flight'.open => flight'.gen = deletes)
  <2>1. CASE flight' = flight  BY <2>1 DEF Inv, TypeOK, Caches
  <2>2. CASE flight' = [flight EXCEPT !.open = FALSE] /\ flight # None
    <3>1. flight \in Flights  BY <2>2 DEF Inv, TypeOK
    <3>. QED  BY <2>2, <3>1 DEF Flights
  <2>. QED  BY <2>1, <2>2
<1>3. Caches'  BY <1>2 DEF Inv, Caches
<1>4. TypeOK'  BY <1>1, <1>2 DEF Inv, TypeOK
<1>5. \A r \in Readers : Awaited(reader'[r], flight')
  BY DEF Inv, Awaited, IdleReader
<1>. QED  BY <1>1, <1>3, <1>4, <1>5 DEF Inv

LEMMA LeavePreserves ==
    ASSUME Inv, NEW r \in Readers, End(r) \/ Leave(r) \/ FetchCancelled(r)
    PROVE  Inv'
<1>1. CASE reader' = [reader EXCEPT ![r] = IdleReader] /\ flight' = flight
           /\ UNCHANGED <<memory, mongo, clearing, deletes, cleared>>
  <2>1. \A q \in Readers : reader'[q] = reader[q] \/ reader'[q] = IdleReader
    BY <1>1 DEF Inv, TypeOK
  <2>2. reader' = [q \in Readers |-> reader'[q]]  BY <1>1 DEF Inv, TypeOK
  <2>. QED  BY <1>1, <2>1, <2>2, DonePreserves
<1>2. CASE Leave(r) /\ reader[r].pc = "waiting"
  <2>1. /\ flight' = [flight EXCEPT !.open = FALSE]
        /\ reader' = [q \in Readers |->
              IF reader[q].pc = "waiting" THEN IdleReader ELSE reader[q]]
        /\ UNCHANGED <<memory, mongo, clearing, deletes, cleared>>
    BY <1>2 DEF Leave
  <2>2. \A q \in Readers : reader'[q] = reader[q] \/ reader'[q] = IdleReader
    BY <2>1
  <2>3. \A q \in Readers : reader'[q].pc # "waiting"  BY <2>1 DEF IdleReader
  <2>4. flight # None  BY <1>2 DEF Inv, Awaited
  <2>. QED  BY <2>1, <2>2, <2>3, <2>4, DonePreserves
<1>3. CASE Leave(r) /\ reader[r].pc # "waiting"  BY <1>1, <1>3 DEF Leave
<1>. QED  BY <1>1, <1>2, <1>3 DEF End, FetchCancelled
-----------------------------------------------------------------------------
\* A clear that is counted finds no entry in hand and no execution to join.
LEMMA DeletePreserves ==
    ASSUME Inv, NEW which \in SUBSET Accounts, DeleteMongo(which)
    PROVE  Inv'
<1>1. /\ clearing' = which /\ UNCHANGED <<memory, flight, reader, cleared>>
      /\ mongo' = [a \in Accounts |-> IF a \in which THEN None ELSE mongo[a]]
  BY DEF DeleteMongo
<1>2. mongo' \in [Accounts -> Entries \cup {None}]
      /\ \A a \in Accounts : mongo'[a] = None \/ mongo'[a] = mongo[a]
  BY <1>1 DEF Inv, TypeOK
<1>3. CASE deletes' = deletes
  <2>1. TypeOK'  BY <1>1, <1>2, <1>3 DEF Inv, TypeOK
  <2>2. Caches'  BY <1>1, <1>2, <1>3, Constants DEF Inv, Caches, Aged, Fresh
  <2>. QED  BY <1>1, <1>3, <2>1, <2>2 DEF Inv
<1>4. CASE Watched \in which /\ Quiet /\ deletes < MaxClears /\ deletes' = deletes + 1
  <2>1. deletes' \in Clears /\ deletes \in Nat /\ cleared \in Nat
        /\ cleared <= deletes'
    BY <1>4, Counts, Constants DEF Clears
  <2>2. TypeOK'  BY <1>1, <1>2, <2>1 DEF Inv, TypeOK
  <2>3. mongo'[Watched] = None  BY <1>1, <1>4, Constants
  <2>4. Caches'
    <3>1. \A a \in Accounts : Aged(memory'[a], MaxWait + TTL - 1) /\ Aged(mongo'[a], MaxWait)
      BY <1>1, <1>2 DEF Inv, Caches, Aged, Fresh
    <3>2. ~Fresh(mongo'[Watched])  BY <2>3 DEF Fresh
    <3>3. ~(flight' # None /\ flight'.open)  BY <1>1, <1>4 DEF Quiet
    <3>. QED  BY <1>1, <2>1, <3>1, <3>2, <3>3 DEF Inv, Caches
  <2>5. ASSUME NEW r \in Readers PROVE Sound(reader'[r], deletes', cleared')
    <3>1. reader[r].pc \in {"idle", "reading"} /\ Sound(reader[r], deletes, cleared)
      BY <1>4, ReaderFacts DEF Quiet
    <3>2. reader[r].hand = None /\ ~Fresh(reader[r].hand)  BY <3>1 DEF Sound, Fresh
    <3>. QED  BY <1>1, <3>1, <3>2 DEF Sound
  <2>. QED  BY <1>1, <2>2, <2>4, <2>5 DEF Inv
<1>. QED  BY <1>3, <1>4 DEF DeleteMongo

LEMMA ClearMemoryPreserves ==
    ASSUME Inv, ClearMemory
    PROVE  Inv'
<1>1. /\ memory' = [a \in Accounts |-> IF a \in clearing THEN None ELSE memory[a]]
      /\ clearing' = {}
      /\ cleared' = IF Watched \in clearing THEN deletes ELSE cleared
      /\ UNCHANGED <<mongo, flight, reader, deletes>>
  BY DEF ClearMemory
<1>2. /\ cleared' \in Clears /\ cleared' <= deletes /\ cleared <= cleared'
      /\ cleared \in Nat /\ cleared' \in Nat /\ deletes \in Nat
  BY <1>1, Counts, Constants DEF Inv, TypeOK, Clears
<1>3. TypeOK'  BY <1>1, <1>2 DEF Inv, TypeOK
<1>4. Caches'
  <2>1. \A a \in Accounts : memory'[a] = None \/ memory'[a] = memory[a]
    BY <1>1
  <2>2. \A a \in Accounts : Aged(memory'[a], MaxWait + TTL - 1)
    BY <2>1 DEF Inv, Caches, Aged, Fresh
  <2>3. Fresh(memory'[Watched]) => memory'[Watched].gen >= cleared'
    <3>1. CASE Watched \in clearing
      <4>1. memory'[Watched] = None  BY <1>1, <3>1, Constants
      <4>. QED  BY <4>1 DEF Fresh
    <3>2. CASE Watched \notin clearing
      <4>1. memory'[Watched] = memory[Watched] /\ cleared' = cleared
        BY <1>1, <3>2, Constants
      <4>. QED  BY <4>1 DEF Inv, Caches
    <3>. QED  BY <3>1, <3>2
  <2>. QED  BY <1>1, <1>2, <2>2, <2>3 DEF Inv, Caches
<1>5. ASSUME NEW r \in Readers PROVE Sound(reader'[r], deletes', cleared')
  <2>1. Sound(reader[r], deletes, cleared) /\ reader[r].asked \in Nat
    BY ReaderFacts, Constants DEF ReaderStates, Clears
  <2>2. reader[r].asked <= cleared'  BY <1>2, <2>1 DEF Sound
  <2>. QED  BY <1>1, <2>1, <2>2 DEF Sound
<1>. QED  BY <1>1, <1>3, <1>4, <1>5 DEF Inv

LEMMA RestartPreserves ==
    ASSUME Inv, Restart
    PROVE  Inv'
<1>1. /\ memory' = [a \in Accounts |-> None] /\ flight' = None /\ clearing' = {}
      /\ reader' = [r \in Readers |-> IdleReader]
      /\ UNCHANGED <<mongo, deletes, cleared>>
  BY DEF Restart
<1>2. IdleReader \in ReaderStates /\ Sound(IdleReader, deletes, cleared)
  BY IdleSound, Counts
<1>3. TypeOK'  BY <1>1, <1>2 DEF Inv, TypeOK
<1>4. Caches'  BY <1>1, Constants DEF Inv, Caches, Aged, Fresh
<1>5. \A r \in Readers : Awaited(reader'[r], flight')
  BY <1>1 DEF Awaited, IdleReader
<1>. QED  BY <1>1, <1>2, <1>3, <1>4, <1>5 DEF Inv

\* Time passes: what has been stored waits no longer than a reply takes.
LEMMA TickPreserves ==
    ASSUME Inv, Tick
    PROVE  Inv'
<1>. DEFINE Waited(r) == IF reader[r].pc \in {"mongo", "stored"}
                         THEN reader[r].waited + 1 ELSE reader[r].waited
            T(r) == [reader[r] EXCEPT !.hand = Older(reader[r].hand), !.waited = Waited(r)]
<1>1. /\ memory' = [a \in Accounts |-> Older(memory[a])]
      /\ mongo' = [a \in Accounts |-> Older(mongo[a])]
      /\ flight' = IF flight = None THEN None
                   ELSE [flight EXCEPT !.age = IF @ < MaxWait THEN @ + 1 ELSE @]
      /\ UNCHANGED <<clearing, deletes, cleared>>
      /\ MayPass
  BY DEF Tick
<1>2. reader' = [r \in Readers |-> T(r)]
  BY DEF Tick
<1>3. \A a \in Accounts :
        /\ memory[a] \in Entries \cup {None} /\ Aged(memory[a], MaxWait + TTL - 1)
        /\ mongo[a] \in Entries \cup {None} /\ Aged(mongo[a], MaxWait)
  BY DEF Inv, TypeOK, Caches
<1>4. MaxWait + TTL - 1 \in Nat /\ MaxWait + TTL - 1 <= MaxWait + TTL
      /\ MaxWait <= MaxWait + TTL /\ MaxWait \in Nat
  BY Constants
<1>5. \A a \in Accounts :
        /\ Older(memory[a]) \in Entries \cup {None}
        /\ Aged(Older(memory[a]), MaxWait + TTL - 1)
        /\ Fresh(Older(memory[a])) => Fresh(memory[a]) /\ Older(memory[a]).gen = memory[a].gen
        /\ Older(mongo[a]) \in Entries \cup {None}
        /\ Aged(Older(mongo[a]), MaxWait)
        /\ Fresh(Older(mongo[a])) => Fresh(mongo[a]) /\ Older(mongo[a]).gen = mongo[a].gen
  BY <1>3, <1>4, OlderEntry
<1>6. /\ memory' \in [Accounts -> Entries \cup {None}]
      /\ mongo' \in [Accounts -> Entries \cup {None}]
  BY <1>1, <1>5
<1>7. /\ flight' \in Flights \cup {None}
      /\ flight' # None => flight # None /\ flight'.open = flight.open
                           /\ flight'.gen = flight.gen
      /\ flight # None => flight' # None
  <2>1. CASE flight = None  BY <1>1, <2>1
  <2>2. CASE flight # None
    <3>. DEFINE age == IF flight.age < MaxWait THEN flight.age + 1 ELSE flight.age
                f == [flight EXCEPT !.age = age]
    <3>1. flight \in Flights  BY <2>2 DEF Inv, TypeOK
    <3>2. age \in 0..MaxWait  BY <3>1, Constants DEF Flights
    <3>. HIDE DEF age
    <3>3. f \in Flights /\ f.open = flight.open /\ f.gen = flight.gen
      BY <3>1, <3>2 DEF Flights
    <3>4. flight' = f  BY <1>1, <2>2 DEF age
    <3>. HIDE DEF f
    <3>. QED  BY <2>2, <3>3, <3>4, NoneIsApart
  <2>. QED  BY <2>1, <2>2
<1>8. Caches'
  <2>1. \A a \in Accounts : memory'[a] = Older(memory[a]) /\ mongo'[a] = Older(mongo[a])
    BY <1>1
  <2>2. \A a \in Accounts : Aged(memory'[a], MaxWait + TTL - 1) /\ Aged(mongo'[a], MaxWait)
    BY <1>5, <2>1
  <2>3. Watched \in Accounts  BY Constants
  <2>4. Fresh(memory'[Watched]) => memory'[Watched].gen >= cleared
    BY <1>5, <2>1, <2>3 DEF Inv, Caches
  <2>5. Fresh(mongo'[Watched]) => mongo'[Watched].gen = deletes
    BY <1>5, <2>1, <2>3 DEF Inv, Caches
  <2>6. flight' # None /\ flight'.open => flight'.gen = deletes
    BY <1>7 DEF Inv, Caches
  <2>. QED  BY <1>1, <2>2, <2>4, <2>5, <2>6 DEF Inv, Caches
<1>9. ASSUME NEW r \in Readers
      PROVE  /\ T(r) \in ReaderStates /\ Sound(T(r), deletes, cleared)
             /\ Awaited(T(r), flight')
  <2>. DEFINE t == reader[r]
              h == Older(t.hand)
              w == Waited(r)
              u == [t EXCEPT !.hand = h, !.waited = w]
  <2>0. u = T(r)  OBVIOUS
  <2>1. t \in ReaderStates /\ Sound(t, deletes, cleared) /\ Awaited(t, flight)
    BY ReaderFacts DEF Inv
  <2>2. /\ t.hand \in Entries \cup {None} /\ Aged(t.hand, MaxWait)
        /\ t.waited \in 0..ReplyTime
    BY <2>1 DEF ReaderStates, Sound
  <2>3. /\ h \in Entries \cup {None} /\ (t.hand = None => h = None)
        /\ Aged(h, MaxWait) /\ (Fresh(h) => Fresh(t.hand) /\ h.gen = t.hand.gen)
        /\ (t.hand # None /\ t.hand.kept + 1 < TTL => h # None /\ h.kept = t.hand.kept + 1)
    BY <1>4, <2>2, OlderEntry
  <2>4. w \in 0..ReplyTime /\ (t.pc = "stored" => w = t.waited + 1 /\ w < TTL)
        /\ (t.pc \notin {"mongo", "stored"} => w = t.waited)
    BY <1>1, <2>2, Constants DEF MayPass
  <2>5. t.pc # "fetched"  BY <1>1 DEF MayPass
  <2>6. t.pc = "idle" => t.hand = None  BY <2>1 DEF Sound
  <2>. HIDE DEF h, w
  <2>7. /\ u \in ReaderStates /\ u.pc = t.pc /\ u.hand = h /\ u.at = t.at
        /\ u.waited = w /\ u.asked = t.asked /\ u.taken = t.taken
    BY <2>1, <2>3, <2>4 DEF ReaderStates
  <2>8. u.pc = "idle" => u = IdleReader
    <3>. SUFFICES ASSUME t.pc = "idle" PROVE u = IdleReader  BY <2>7
    <3>1. h = t.hand /\ w = t.waited  BY <2>3, <2>4, <2>6
    <3>2. u = [t EXCEPT !.hand = t.hand, !.waited = t.waited]  BY <3>1
    <3>3. t = IdleReader  BY <2>1 DEF Sound
    <3>4. IdleReader = [IdleReader EXCEPT !.hand = IdleReader.hand,
                                          !.waited = IdleReader.waited]
      BY DEF IdleReader
    <3>. QED  BY <3>2, <3>3, <3>4
  <2>9. u.pc = "stored" => u.hand # None /\ u.hand.kept = u.waited
    <3>. SUFFICES ASSUME t.pc = "stored" PROVE h # None /\ h.kept = w  BY <2>7
    <3>1. t.hand # None /\ t.hand.kept = t.waited  BY <2>1 DEF Sound
    <3>. QED  BY <2>3, <2>4, <3>1
  <2>. HIDE DEF u
  <2>10. Sound(u, deletes, cleared)
    BY <2>1, <2>3, <2>4, <2>5, <2>7, <2>8, <2>9 DEF Sound
  <2>11. Awaited(u, flight')  BY <1>7, <2>1, <2>7 DEF Awaited
  <2>. QED  BY <2>0, <2>7, <2>10, <2>11
<1>. HIDE DEF T
<1>10. reader' \in [Readers -> ReaderStates]
       /\ \A r \in Readers : Sound(reader'[r], deletes, cleared) /\ Awaited(reader'[r], flight')
  BY <1>2, <1>9
<1>11. TypeOK'  BY <1>1, <1>6, <1>7, <1>10 DEF Inv, TypeOK
<1>. QED  BY <1>1, <1>8, <1>10, <1>11 DEF Inv

-----------------------------------------------------------------------------
LEMMA NextInv == Inv /\ [Next]_vars => Inv'
<1>. SUFFICES ASSUME Inv, [Next]_vars PROVE Inv'  OBVIOUS
<1>1. ASSUME NEW r \in Readers, Read(r) PROVE Inv'
  BY <1>1, BeginPreserves, LeavePreserves, FromMemoryPreserves, LookUpPreserves,
     HandPreserves, BadConfigPreserves, FetchPreserves, StorePreserves DEF Read
<1>2. CASE Finish  BY <1>2, FinishPreserves
<1>3. CASE Clear  BY <1>3, DeletePreserves, ClearMemoryPreserves DEF Clear
<1>4. CASE Restart  BY <1>4, RestartPreserves
<1>5. CASE Tick  BY <1>5, TickPreserves
<1>6. CASE UNCHANGED vars  BY <1>6 DEF vars, Inv, TypeOK, Caches
<1>. QED  BY <1>1, <1>2, <1>3, <1>4, <1>5, <1>6 DEF Next

LEMMA Invariance == Spec => []Inv
BY InitInv, NextInv, PTL DEF Spec

\* No entry is older and no wait longer than the limits of the code allow.
THEOREM Typing == Spec => []TypeOK
<1>1. Inv => TypeOK  BY DEF Inv
<1>. QED  BY <1>1, Invariance, PTL

\* Nothing that is used was fetched two lifetimes and a wait ago.
THEOREM AgeIsBounded == Spec => []WithinTwoLifetimes
<1>1. Inv => WithinTwoLifetimes  BY DEF Inv, Sound, WithinTwoLifetimes
<1>. QED  BY <1>1, Invariance, PTL

\* After a clear that met no read nothing that was fetched before it is used.
THEOREM ClearsAreFinal == Spec => []ClearedIsGone
<1>1. Inv => ClearedIsGone  BY DEF Inv, Sound, ClearedIsGone
<1>. QED  BY <1>1, Invariance, PTL
===============================================================================
