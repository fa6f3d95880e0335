---------------------------- MODULE Recommendations ---------------------------
(***************************************************************************)
(* The providers' recommendations and their two caches                     *)
(* (app/recommendations/csp_service.py): a map in the memory of the        *)
(* process and a MongoDB collection, both by cloud account, filled by      *)
(* whoever misses both and emptied on request.                             *)
(*                                                                         *)
(* A read goes through the accounts one by one.  On a miss it shares the   *)
(* execution of resource-wide coalescing: the function it passes has no    *)
(* arguments, so all accounts share one key.  An entry is as old as the    *)
(* execution that fetched it, while its lifetime starts when it is stored. *)
(* Accounts without an adapter, which have no items, are left out.         *)
(***************************************************************************)
EXTENDS Naturals

CONSTANTS
    Accounts,   \* cloud accounts of the organization
    Readers,    \* requests and scheduler runs that read
    TTL,        \* CACHE_TTL_RECOMMENDATIONS, in ticks
    MaxWait,    \* max_wait_seconds of the coalescer, in ticks
    ReplyTime,  \* a reply of MongoDB takes at most this many ticks, fewer than TTL
    Watched,    \* the account whose clears are counted: any one of them
    MaxClears,  \* bound: clears of it that meet no read
    None        \* no entry, no execution, no account

ASSUME RecommendationsAssumption ==
    /\ TTL \in Nat \ {0}
    /\ MaxWait \in Nat
    /\ ReplyTime \in 0..(TTL - 1)
    /\ MaxClears \in Nat
    /\ Watched \in Accounts
    /\ None \notin Accounts
    /\ None \notin [age : Nat, kept : Nat, gen : Nat]
    /\ None \notin [open : BOOLEAN, age : Nat, gen : Nat]

VARIABLES
    memory,    \* _csp_cache
    mongo,     \* the csp_recommendations collection
    flight,    \* the pending execution of coalesce_recommendations
    reader,    \* the reads under way
    clearing,  \* accounts whose entries left MongoDB and not yet the memory
    deletes,   \* history: clears of Watched that met no read, as begun
    cleared    \* history: the same, as completed

vars == <<memory, mongo, flight, reader, clearing, deletes, cleared>>

\* The age of an entry that has expired; no other is as old.
Oldest == 2 * TTL + MaxWait

Clears == 0..MaxClears

\* Items of an account: how long ago their fetch began, how long ago they were
\* stored and, for Watched, how many of its clears that fetch came after.
Entries == [age : 0..Oldest, kept : 0..TTL, gen : Clears]

Flights == [open : BOOLEAN, age : 0..MaxWait, gen : Clears]

\* hand is what a read has got from MongoDB or from the providers, taken what it
\* last used, waited how long its present wait lasts.
ReaderStates ==
    [pc     : {"idle", "reading", "mongo", "waiting", "fetched", "stored"},
     todo   : SUBSET Accounts,
     at     : Accounts \cup {None},
     hand   : Entries \cup {None},
     taken  : Entries \cup {None},
     asked  : Clears,
     waited : 0..ReplyTime]

IdleReader == [pc |-> "idle", todo |-> {}, at |-> None, hand |-> None,
               taken |-> None, asked |-> 0, waited |-> 0]

Init ==
    /\ memory = [a \in Accounts |-> None]
    /\ mongo = [a \in Accounts |-> None]
    /\ flight = None
    /\ reader = [r \in Readers |-> IdleReader]
    /\ clearing = {}
    /\ deletes = 0
    /\ cleared = 0

-----------------------------------------------------------------------------
(* Mutants: plausible bugs, each put in the place of the definition it is  *)
(* named for to show that a property notices.  No specification uses them. *)

\* an entry counts whatever its age
Fresh_any(entry) == entry # None

\* only MongoDB is cleared
ClearMemory_skipped ==
    /\ clearing # {}
    /\ clearing' = {}
    /\ cleared' = IF Watched \in clearing THEN deletes ELSE cleared
    /\ UNCHANGED <<memory, mongo, flight, reader, deletes>>

\* MongoDB may take any time to answer
MayPass_unbounded ==
    /\ flight # None => (flight.open => flight.age < MaxWait)
    /\ \A r \in Readers : reader[r].pc # "fetched"

-----------------------------------------------------------------------------
(* Entries.                                                                *)

Fresh(entry) == entry # None /\ entry.kept < TTL

\* Stored now.
Stamped(entry) == [entry EXCEPT !.kept = 0]

-----------------------------------------------------------------------------
(* Reading: get_recommendations_overview, fetch_csp_recommendations.       *)

\* All accounts, or those the request names; none when the organization has none.
Begin(r) ==
    /\ reader[r].pc = "idle"
    /\ \E chosen \in SUBSET Accounts \ {{}} :
          reader' = [reader EXCEPT ![r].pc = "reading", ![r].todo = chosen,
                                   ![r].asked = IF Watched \in chosen THEN cleared ELSE 0]
    /\ UNCHANGED <<memory, mongo, flight, clearing, deletes, cleared>>

\* The items of account a are used: on with the next one.
Taken(r, a, entry) ==
    reader' = [reader EXCEPT ![r].pc = "reading", ![r].todo = @ \ {a}, ![r].at = a,
                             ![r].taken = Stamped(entry), ![r].hand = None,
                             ![r].waited = 0]

FromMemory(r, a) ==
    /\ reader[r].pc = "reading"
    /\ a \in reader[r].todo
    /\ Fresh(memory[a])
    /\ Taken(r, a, memory[a])
    /\ UNCHANGED <<memory, mongo, flight, clearing, deletes, cleared>>

\* An expired entry is dropped, and MongoDB asked for the account's document.
LookUp(r, a) ==
    /\ reader[r].pc = "reading"
    /\ a \in reader[r].todo
    /\ ~Fresh(memory[a])
    /\ memory' = [memory EXCEPT ![a] = None]
    /\ reader' = [reader EXCEPT ![r].pc = "mongo", ![r].at = a,
                                ![r].hand = IF Fresh(mongo[a]) THEN mongo[a] ELSE None,
                                ![r].taken = None]
    /\ UNCHANGED <<mongo, flight, clearing, deletes, cleared>>

\* The document is fresh: it goes to memory with a lifetime that starts anew.
FromMongo(r) ==
    LET a == reader[r].at IN
    /\ reader[r].pc = "mongo"
    /\ Fresh(reader[r].hand)
    /\ memory' = [memory EXCEPT ![a] = Stamped(reader[r].hand)]
    /\ Taken(r, a, reader[r].hand)
    /\ UNCHANGED <<mongo, flight, clearing, deletes, cleared>>

\* The account's configuration cannot be read: the account is left out.
BadConfig(r) ==
    /\ reader[r].pc = "mongo"
    /\ ~Fresh(reader[r].hand)
    /\ reader' = [reader EXCEPT ![r].pc = "reading", ![r].todo = @ \ {reader[r].at},
                                ![r].at = None, ![r].hand = None, ![r].waited = 0]
    /\ UNCHANGED <<memory, mongo, flight, clearing, deletes, cleared>>

Waits(r) == reader' = [reader EXCEPT ![r].pc = "waiting", ![r].hand = None,
                                     ![r].waited = 0]

\* A fetch is started, or the pending one is joined, whichever account it is for.
Fetch(r) ==
    /\ reader[r].pc = "mongo"
    /\ ~Fresh(reader[r].hand)
    /\ \/ /\ flight = None
          /\ flight' = [open |-> TRUE, age |-> 0, gen |-> deletes]
       \/ flight # None /\ flight.open /\ UNCHANGED flight
    /\ Waits(r)
    /\ UNCHANGED <<memory, mongo, clearing, deletes, cleared>>

\* A pending execution whose future has been cancelled cancels who joins it.
FetchCancelled(r) ==
    /\ reader[r].pc = "mongo"
    /\ ~Fresh(reader[r].hand)
    /\ flight # None /\ ~flight.open
    /\ reader' = [reader EXCEPT ![r] = IdleReader]
    /\ UNCHANGED <<memory, mongo, flight, clearing, deletes, cleared>>

\* What r gets from the pending execution: items that are as old as it or, when
\* the provider fails, an empty list that is kept like any other.
Items(r) == [age |-> flight.age, kept |-> 0,
             gen |-> IF reader[r].at = Watched THEN flight.gen ELSE 0]

\* The execution ends; all that wait get its items, unless its future has been
\* cancelled.
Finish ==
    /\ flight # None
    /\ reader' = [r \in Readers |->
          IF flight.open /\ reader[r].pc = "waiting"
          THEN [reader[r] EXCEPT !.pc = "fetched", !.hand = Items(r)]
          ELSE reader[r]]
    /\ flight' = None
    /\ UNCHANGED <<memory, mongo, clearing, deletes, cleared>>

\* _cache_recommendations writes the document, then the entry in memory.
Store(r) ==
    /\ reader[r].pc = "fetched"
    /\ mongo' = [mongo EXCEPT ![reader[r].at] = reader[r].hand]
    /\ reader' = [reader EXCEPT ![r].pc = "stored"]
    /\ UNCHANGED <<memory, flight, clearing, deletes, cleared>>

Remember(r) ==
    LET a == reader[r].at IN
    /\ reader[r].pc = "stored"
    /\ memory' = [memory EXCEPT ![a] = Stamped(reader[r].hand)]
    /\ Taken(r, a, reader[r].hand)
    /\ UNCHANGED <<mongo, flight, clearing, deletes, cleared>>

End(r) ==
    /\ reader[r].pc = "reading"
    /\ reader[r].todo = {}
    /\ reader' = [reader EXCEPT ![r] = IdleReader]
    /\ UNCHANGED <<memory, mongo, flight, clearing, deletes, cleared>>

\* MongoDB fails, the wait lasts too long, or the request is cancelled: the read
\* ends without the providers' items.  Who waits cancels the future it shares
\* and with it all others that wait.
Leave(r) ==
    /\ reader[r].pc \in {"mongo", "waiting", "stored"}
    /\ IF reader[r].pc = "waiting"
       THEN /\ flight' = [flight EXCEPT !.open = FALSE]
            /\ reader' = [q \in Readers |->
                  IF reader[q].pc = "waiting" THEN IdleReader ELSE reader[q]]
       ELSE /\ reader' = [reader EXCEPT ![r] = IdleReader]
            /\ UNCHANGED flight
    /\ UNCHANGED <<memory, mongo, clearing, deletes, cleared>>

-----------------------------------------------------------------------------
(* clear_recommendations_cache, for one account or for all.                *)

\* No read holds anything that was fetched or stored before.
Quiet ==
    /\ \A r \in Readers : reader[r].pc \in {"idle", "reading"}
    /\ flight # None => ~flight.open

DeleteMongo(which) ==
    /\ clearing = {}
    /\ clearing' = which
    /\ mongo' = [a \in Accounts |-> IF a \in which THEN None ELSE mongo[a]]
    /\ IF Watched \in which /\ Quiet
       THEN deletes < MaxClears /\ deletes' = deletes + 1
       ELSE UNCHANGED deletes
    /\ UNCHANGED <<memory, flight, reader, cleared>>

ClearMemory ==
    /\ clearing # {}
    /\ memory' = [a \in Accounts |-> IF a \in clearing THEN None ELSE memory[a]]
    /\ clearing' = {}
    /\ cleared' = IF Watched \in clearing THEN deletes ELSE cleared
    /\ UNCHANGED <<mongo, flight, reader, deletes>>

\* The process ends and another one starts: what is in memory is lost.
Restart ==
    /\ memory' = [a \in Accounts |-> None]
    /\ flight' = None
    /\ reader' = [r \in Readers |-> IdleReader]
    /\ clearing' = {}
    /\ UNCHANGED <<mongo, deletes, cleared>>

-----------------------------------------------------------------------------
(* Time.                                                                   *)

\* Nobody uses an entry that has reached TTL: it is told apart from no other.
Expired == [age |-> Oldest, kept |-> TTL, gen |-> 0]

Older(entry) ==
    CASE entry = None            -> None
      [] entry # None /\ entry.kept + 1 >= TTL -> Expired
      [] OTHER -> [entry EXCEPT !.age = @ + 1, !.kept = @ + 1]

\* Waits end in time: whoever waits for the fetch gives up after MaxWait, and a
\* task that need not wait has run on.
MayPass ==
    /\ flight # None => (flight.open => flight.age < MaxWait)
    /\ \A r \in Readers :
          /\ reader[r].pc # "fetched"
          /\ reader[r].pc \in {"mongo", "stored"} => reader[r].waited < ReplyTime

Tick ==
    /\ MayPass
    /\ memory' = [a \in Accounts |-> Older(memory[a])]
    /\ mongo' = [a \in Accounts |-> Older(mongo[a])]
    /\ flight' = IF flight = None THEN None
                 ELSE [flight EXCEPT !.age = IF @ < MaxWait THEN @ + 1 ELSE @]
    /\ reader' = [r \in Readers |->
          [reader[r] EXCEPT !.hand = Older(@),
                            !.waited = IF reader[r].pc \in {"mongo", "stored"}
                                       THEN @ + 1 ELSE @]]
    /\ UNCHANGED <<clearing, deletes, cleared>>

Read(r) ==
    \/ Begin(r) \/ End(r) \/ Leave(r)
    \/ \E a \in Accounts : FromMemory(r, a) \/ LookUp(r, a)
    \/ FromMongo(r) \/ BadConfig(r)
    \/ Fetch(r) \/ FetchCancelled(r)
    \/ Store(r) \/ Remember(r)

Clear ==
    \/ \E a \in Accounts : DeleteMongo({a})
    \/ DeleteMongo(Accounts)
    \/ ClearMemory

Next == (\E r \in Readers : Read(r)) \/ Finish \/ Clear \/ Restart \/ Tick

Spec == Init /\ [][Next]_vars

-----------------------------------------------------------------------------
(* Type invariant.                                                         *)

\* Entries, the pending execution and the reads in their ranges; no entry is
\* older, and no wait longer, than the limits in the code allow
\* (csp_service.py:21-24, request_coalescing.py:49-110).
TypeOK ==
    /\ memory \in [Accounts -> Entries \cup {None}]
    /\ mongo \in [Accounts -> Entries \cup {None}]
    /\ flight \in Flights \cup {None}
    /\ reader \in [Readers -> ReaderStates]
    /\ clearing \in SUBSET Accounts
    /\ deletes \in Clears
    /\ cleared \in Clears

-----------------------------------------------------------------------------
(* Safety.                                                                 *)

\* What a read uses was fetched less than two lifetimes and one wait ago: a
\* document at the end of its life starts a new one in memory, but an entry in
\* memory never goes back to MongoDB, whatever reads, failures and restarts
\* come between (csp_service.py:34-42, 61-68, 81-92).
WithinTwoLifetimes ==
    \A r \in Readers :
        reader[r].taken # None => reader[r].taken.age < 2 * TTL + MaxWait

\* "Clear recommendations cache from MongoDB and memory": a read that starts
\* after a clear which met no read under way uses nothing fetched before it,
\* whatever the reads that run between its two steps put back
\* (csp_service.py:95-130).
ClearedIsGone ==
    \A r \in Readers :
        reader[r].taken # None /\ reader[r].at = Watched =>
            reader[r].taken.gen >= reader[r].asked
===============================================================================
