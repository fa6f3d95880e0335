------------------------------ MODULE CloudReads -----------------------------
(***************************************************************************)
(* Reading figures from the clouds (app/expenses/service.py,               *)
(* app/resources/service.py, app/shared/degradation.py): a read looks into *)
(* the cache of its kind, loads the accounts it is about, asks the cloud   *)
(* of each, and caches what it got.                                        *)
(*                                                                         *)
(* The summary asks all accounts at once, the other reads one after        *)
(* another.  Most calls go through a request coalescer, whose keys are     *)
(* made of the arguments: all accounts share the key of a kind of call.    *)
(* A caller that gives up cancels the future all callers of the key wait   *)
(* for, and the key stays taken until the call itself returns.             *)
(*                                                                         *)
(* Time passes in ticks, and only when no coroutine can go on.  One date   *)
(* range, one page and one resource of each account stand for all.  The    *)
(* pause of three seconds after an answer of Azure is below a tick.        *)
(*                                                                         *)
(* The figures of an account are what its adapter answers.  A discovery    *)
(* answers with what it found, and leaves out regions and services whose   *)
(* calls failed without saying so (adapters/aws.py:391-401, 421-425,       *)
(* azure.py:553-555, gcp.py:666-668).                                      *)
(*                                                                         *)
(* An answer is what the services and get_*_with_fallback hand to an       *)
(* endpoint.  The endpoint of the breakdown leaves out the failures, and   *)
(* that of the summary cannot render an "unavailable" one.                 *)
(***************************************************************************)
EXTENDS Naturals

CONSTANTS
    Orgs, Accounts,  \* organizations and their cloud accounts
    OrgOf, CloudOf,  \* the organization and the provider of an account
    Broken,          \* accounts whose stored configuration cannot be decrypted
    Deletable,       \* accounts that may be deleted in the behaviours checked
    Readers,         \* requests that may be in flight together
    Mixes,           \* the kinds of reads that may come together, one set per client mix
    None,            \* no account, no subject
    Horizon,         \* bound: longer than this, waits and reads count the same
    TTL,             \* lifetime of a cache entry (CACHE_TTL_*)
    AccountTimeout,  \* wait of a summary for one account
    CostsWait,       \* max_wait_seconds of the cost coalescers
    DiscoveryWait,   \* max_wait_seconds of the discovery coalescer
    RequestLimit     \* timeout of the middleware for these paths

ReadKinds == {"summary", "breakdown", "clean", "resources", "detail"}
Keys == {"summary", "azure", "breakdown", "clean", "discovery"}
Subjects == Orgs \cup Accounts
Slots == ((ReadKinds \ {"detail"}) \X Orgs) \cup ({"detail"} \X Accounts)

ASSUME CloudReadsAssumption ==
    /\ OrgOf \in [Accounts -> Orgs]
    /\ CloudOf \in [Accounts -> {"aws", "azure", "gcp"}]
    /\ Broken \cup Deletable \subseteq Accounts
    /\ Mixes \subseteq SUBSET ReadKinds
    /\ None \notin Subjects
    /\ TTL \in Nat \ {0}
    /\ Horizon \in Nat /\ RequestLimit \in 0..Horizon
    /\ {AccountTimeout, CostsWait, DiscoveryWait} \subseteq 1..Horizon
    /\ AccountTimeout <= CostsWait

VARIABLES
    stored,  \* accounts that are not deleted
    cache,   \* _expense_cache, _resource_cache and _resource_detail_cache
    flight,  \* the call under way for each key of the coalescers
    reader,  \* the requests
    mix      \* the kinds of reads the clients make in this behaviour

vars == <<stored, cache, flight, reader, mix>>

LongestWait == IF CostsWait > DiscoveryWait THEN CostsWait ELSE DiscoveryWait

\* bound: figures as old as this count the same.
Oldest == TTL + Horizon + LongestWait

\* What a read has of one account: figures of account "of", asked for "age" ticks ago.
Part == [at : {"none", "todo", "waiting", "calling", "figures", "failed", "lost"},
         of : Accounts \cup {None},
         age : 0..Oldest,
         waited : 0..Horizon]

Flight == [at : {"none", "open", "cancelled"},   \* its future, while the call runs
           by : Accounts \cup {None},            \* the account it is about
           age : 0..Horizon]

\* elapsed: how long the read took that filled the entry.
Entry == [kept : BOOLEAN, asked : SUBSET Accounts, part : [Accounts -> Part],
          elapsed : 0..Horizon, age : 0..(TTL - 1)]

\* elapsed: how long the read takes, or took that got the figures; gone: the client
\* has been told 504 meanwhile; source: what the answer comes from, a hit of the
\* in-memory caches ("cache") is called live too.
Reader == [pc : {"idle", "opening", "reading", "answered", "interrupted"},
           read : ReadKinds,
           subject : Subjects \cup {None},
           asked : SUBSET Accounts,
           part : [Accounts -> Part],
           elapsed : 0..Horizon,
           gone : BOOLEAN,
           source : {"live", "cache", "stored", "unavailable"}]

NoPart == [at |-> "none", of |-> None, age |-> 0, waited |-> 0]
NoParts == [a \in Accounts |-> NoPart]
NoFlight == [at |-> "none", by |-> None, age |-> 0]
NoEntry == [kept |-> FALSE, asked |-> {}, part |-> NoParts, elapsed |-> 0, age |-> 0]
IdleReader == [pc |-> "idle", read |-> "summary", subject |-> None, asked |-> {},
               part |-> NoParts, elapsed |-> 0, gone |-> FALSE, source |-> "live"]

Init ==
    /\ stored = Accounts
    /\ cache = [i \in Slots |-> NoEntry]
    /\ flight = [k \in Keys |-> NoFlight]
    /\ reader = [r \in Readers |-> IdleReader]
    /\ mix \in Mixes

-----------------------------------------------------------------------------
(* Calls and caches.                                                       *)

CallKey(i, a) ==
    CASE i = "summary" -> IF CloudOf[a] = "azure" THEN "azure" ELSE "summary"
      [] i \in {"resources", "detail"} -> "discovery"
      [] OTHER -> i

\* The list of resources asks Azure and GCP for costs too, without a coalescer.
Coalesced(i, a) == i = "resources" => CloudOf[a] = "aws"

WaitLimit(i) ==
    CASE i = "summary" -> AccountTimeout
      [] i \in {"resources", "detail"} -> DiscoveryWait
      [] OTHER -> CostsWait

Figures(a, age) == [NoPart EXCEPT !.at = "figures", !.of = a, !.age = age]
FailedPart == [NoPart EXCEPT !.at = "failed"]
LostPart == [NoPart EXCEPT !.at = "lost"]

WithoutFailures(part) ==
    [a \in Accounts |-> IF part[a].at = "figures" THEN part[a] ELSE NoPart]

\* Failures an answer reports, and failures its cache entry remembers.
Reported(i, part) ==
    IF i \in {"breakdown", "resources"} THEN part ELSE WithoutFailures(part)
Remembered(i, part) == IF i = "breakdown" THEN part ELSE WithoutFailures(part)

FromCache(i) ==
    [IdleReader EXCEPT !.pc = "answered", !.read = i[1], !.subject = i[2],
        !.asked = cache[i].asked, !.part = cache[i].part,
        !.elapsed = cache[i].elapsed, !.source = "cache"]

\* The accounts a read is about, as stored now.
About(s) == {a \in stored : s \in {a, OrgOf[a]}}

Interrupted(q) == [IdleReader EXCEPT !.pc = "interrupted", !.read = q.read]

-----------------------------------------------------------------------------
(* Time and cancellation.                                                  *)

Later(n, bound) == IF n < bound THEN n + 1 ELSE bound

Older(p) == CASE p.at = "figures" -> [p EXCEPT !.age = Later(@, Oldest)]
              [] p.at \in {"waiting", "calling"} -> [p EXCEPT !.waited = Later(@, Horizon)]
              [] OTHER -> p

\* The accounts for which q waits for one of the given keys.
Waits(q, keys) ==
    {a \in Accounts : /\ q.part[a].at = "waiting"
                      /\ CallKey(q.read, a) \in keys}

Cancel(keys) ==
    flight' = [k \in Keys |-> IF k \in keys THEN [NoFlight EXCEPT !.at = "cancelled"]
                              ELSE flight[k]]

-----------------------------------------------------------------------------
(* Mutants: plausible bugs, each put in the place of the definition it is  *)
(* named for to show that a property notices.  No specification uses them. *)

\* an entry is used for one tick too many
Aging_late(entry) ==
    IF ~entry.kept \/ entry.age = TTL THEN NoEntry
    ELSE [entry EXCEPT !.age = @ + 1, !.part = [a \in Accounts |-> Older(@[a])]]

\* a cancelled wait is taken for a failed account that nobody reports
Cancelled_skips(q, hit) ==
    [q EXCEPT !.part = [a \in Accounts |-> IF a \in hit THEN LostPart ELSE @[a]]]

-----------------------------------------------------------------------------
(* What time and a cancellation do.                                        *)

\* The age of an entry is compared when it is looked up; one that has reached
\* its lifetime is as good as none.
Aging(entry) ==
    IF ~entry.kept \/ entry.age + 1 = TTL THEN NoEntry
    ELSE [entry EXCEPT !.age = @ + 1, !.part = [a \in Accounts |-> Older(@[a])]]

\* CancelledError is not caught by "except Exception": it ends the request,
\* except in a summary, whose gather drops the accounts it hits.
Cancelled(q, hit) ==
    IF hit = {} THEN q
    ELSE IF q.read = "summary"
    THEN [q EXCEPT !.part = [a \in Accounts |-> IF a \in hit THEN LostPart ELSE @[a]]]
    ELSE Interrupted(q)

\* the middleware knows no limit for the list of resources
RequestTimeout_not_resources(r) ==
    /\ reader[r].pc = "reading" /\ ~reader[r].gone
    /\ reader[r].elapsed = RequestLimit
    /\ reader[r].read # "resources"
    /\ reader' = [reader EXCEPT ![r].gone = TRUE]
    /\ UNCHANGED <<stored, cache, flight, mix>>

\* The middleware answers 504.  It cancels its own wait for the response only:
\* the handler is a task of its own and reads on, for nobody.
RequestTimeout(r) ==
    /\ reader[r].pc = "reading" /\ ~reader[r].gone
    /\ reader[r].elapsed = RequestLimit
    /\ reader' = [reader EXCEPT ![r].gone = TRUE]
    /\ UNCHANGED <<stored, cache, flight, mix>>

-----------------------------------------------------------------------------
(* Beginning a read.                                                       *)

Hit(r, i) ==
    /\ reader[r].pc = "idle"
    /\ cache[i].kept
    /\ reader' = [reader EXCEPT ![r] = FromCache(i)]
    /\ UNCHANGED <<stored, cache, flight, mix>>

Miss(r, i) ==
    /\ reader[r].pc = "idle"
    /\ ~cache[i].kept
    /\ reader' = [reader EXCEPT ![r] = [IdleReader EXCEPT !.pc = "opening",
                                           !.read = i[1], !.subject = i[2]]]
    /\ UNCHANGED <<stored, cache, flight, mix>>

\* Accounts without an adapter are reported by the list of resources only.
_get_cloud_adapters(r) ==
    LET about == About(reader[r].subject)
        lists == reader[r].read = "resources"
    IN
    /\ reader[r].pc = "opening"
    /\ reader' = [reader EXCEPT
         ![r].pc = "reading",
         ![r].asked = IF lists THEN about ELSE about \ Broken,
         ![r].part = [a \in Accounts |->
             IF a \in about \ Broken THEN [NoPart EXCEPT !.at = "todo"]
             ELSE IF a \in about /\ lists THEN FailedPart ELSE NoPart]]
    /\ UNCHANGED <<stored, cache, flight, mix>>

\* The accounts cannot be loaded: the only exception that reaches the fallbacks.
get_with_fallback(r) ==
    LET i == <<reader[r].read, reader[r].subject>>
        Degraded(source) == [IdleReader EXCEPT !.pc = "answered", !.read = i[1],
                                               !.subject = i[2], !.source = source]
    IN
    /\ reader[r].pc = "opening"
    /\ \/ /\ i[1] \in {"summary", "breakdown"}
          /\ \E source \in {"stored", "unavailable"} :
                reader' = [reader EXCEPT ![r] = Degraded(source)]
       \/ /\ i[1] = "resources"
          /\ reader' = [reader EXCEPT ![r] = IF cache[i].kept THEN FromCache(i)
                                             ELSE Degraded("unavailable")]
       \/ /\ i[1] \in {"clean", "detail"}
          /\ reader' = [reader EXCEPT ![r] = Interrupted(@)]
    /\ UNCHANGED <<stored, cache, flight, mix>>

-----------------------------------------------------------------------------
(* Asking the clouds.                                                      *)

Asks(r, a) ==
    /\ reader[r].pc = "reading"
    /\ reader[r].part[a].at = "todo"
    /\ \/ reader[r].read = "summary"
       \/ \A b \in Accounts : reader[r].part[b].at \notin {"waiting", "calling"}

CallDirectly(r, a) ==
    /\ Asks(r, a)
    /\ ~Coalesced(reader[r].read, a)
    /\ reader' = [reader EXCEPT ![r].part[a].at = "calling"]
    /\ UNCHANGED <<stored, cache, flight, mix>>

\* coalesce: join the call of the key, or start one.
Coalesce(r, a) ==
    LET k == CallKey(reader[r].read, a) IN
    /\ Asks(r, a)
    /\ Coalesced(reader[r].read, a)
    /\ reader' = [reader EXCEPT ![r] =
         IF flight[k].at = "cancelled" THEN Cancelled(@, {a})
         ELSE [@ EXCEPT !.part[a].at = "waiting"]]
    /\ flight' = IF flight[k].at = "none"
                 THEN [flight EXCEPT ![k] = [at |-> "open", by |-> a, age |-> 0]]
                 ELSE flight
    /\ UNCHANGED <<stored, cache, mix>>

\* The call of key k returns or raises; all that wait get the outcome.  A
\* detail finds its resource only among those of its account.
CallEnds(k) ==
    /\ flight[k].at # "none"
    /\ flight' = [flight EXCEPT ![k] = NoFlight]
    /\ \E outcome \in {"figures", "empty", "error"} :
         reader' = [r \in Readers |-> [reader[r] EXCEPT !.part =
             [a \in Accounts |->
                IF a \notin Waits(reader[r], {k}) THEN @[a]
                ELSE IF \/ outcome = "error"
                        \/ /\ reader[r].read = "detail"
                           /\ (outcome = "empty" \/ flight[k].by # a)
                THEN FailedPart
                ELSE Figures(flight[k].by, flight[k].age)]]]
    /\ UNCHANGED <<stored, cache, mix>>

DirectCallEnds(r, a) ==
    /\ reader[r].part[a].at = "calling"
    /\ \E outcome \in {Figures(a, reader[r].part[a].waited), FailedPart} :
         reader' = [reader EXCEPT ![r].part[a] = outcome]
    /\ UNCHANGED <<stored, cache, flight, mix>>

\* wait_for: the one that gives up has a failed account, the others that wait
\* for the same future are cancelled with it.
GiveUp(r, a) ==
    LET k == CallKey(reader[r].read, a) IN
    /\ reader[r].part[a].at = "waiting"
    /\ reader[r].part[a].waited = WaitLimit(reader[r].read)
    /\ Cancel({k})
    /\ reader' = [q \in Readers |->
         LET now == IF q = r THEN [reader[q] EXCEPT !.part[a] = FailedPart] ELSE reader[q]
         IN  Cancelled(now, Waits(now, {k}))]
    /\ UNCHANGED <<stored, cache, mix>>

-----------------------------------------------------------------------------
(* Ending a read.                                                          *)

Settled(q) == \A a \in Accounts : q.part[a].at \notin {"todo", "waiting", "calling"}

\* A detail that was not found is not cached, every other answer is, also the one
\* nobody waits for any more.
Finish(r) ==
    LET q == reader[r]
        i == <<q.read, q.subject>>
        found == \E a \in Accounts : q.part[a].at = "figures"
    IN
    /\ q.pc = "reading"
    /\ Settled(q)
    /\ reader' = [reader EXCEPT ![r] =
         IF q.gone THEN Interrupted(q)
         ELSE [q EXCEPT !.pc = "answered", !.part = Reported(q.read, q.part)]]
    /\ cache' = IF q.read = "detail" /\ ~found THEN cache
                ELSE [cache EXCEPT ![i] = [kept |-> TRUE, asked |-> q.asked, age |-> 0,
                                           elapsed |-> q.elapsed,
                                           part |-> Remembered(q.read, q.part)]]
    /\ UNCHANGED <<stored, flight, mix>>

Leave(r) ==
    /\ reader[r].pc \in {"answered", "interrupted"}
    /\ reader' = [reader EXCEPT ![r] = IdleReader]
    /\ UNCHANGED <<stored, cache, flight, mix>>

delete_cloud_account(a) ==
    /\ a \in stored
    /\ stored' = stored \ {a}
    /\ UNCHANGED <<cache, flight, reader, mix>>

-----------------------------------------------------------------------------
(* Time.                                                                   *)

Busy(r) ==
    \/ reader[r].pc \in {"opening", "answered", "interrupted"}
    \/ /\ reader[r].pc = "reading"
       /\ \/ Settled(reader[r])
          \/ reader[r].elapsed = RequestLimit /\ ~reader[r].gone
          \/ \E a \in Accounts :
                \/ Asks(r, a)
                \/ /\ reader[r].part[a].at = "waiting"
                   /\ reader[r].part[a].waited = WaitLimit(reader[r].read)

Tick ==
    /\ \A r \in Readers : ~Busy(r)
    /\ cache' = [i \in Slots |-> Aging(cache[i])]
    /\ flight' = [k \in Keys |-> IF flight[k].at = "open"
                                 THEN [flight[k] EXCEPT !.age = Later(@, Horizon)]
                                 ELSE flight[k]]
    /\ reader' = [r \in Readers |->
         IF reader[r].pc = "idle" THEN reader[r]
         ELSE [reader[r] EXCEPT !.elapsed = Later(@, Horizon),
                                !.part = [a \in Accounts |-> Older(@[a])]]]
    /\ UNCHANGED <<stored, mix>>

ReaderStep(r) ==
    \/ _get_cloud_adapters(r) \/ get_with_fallback(r)
    \/ RequestTimeout(r) \/ Finish(r) \/ Leave(r)
    \/ \E a \in Accounts : CallDirectly(r, a) \/ Coalesce(r, a) \/ GiveUp(r, a)

Next ==
    \/ \E r \in Readers :
         \/ ReaderStep(r)
         \/ \E i \in Slots : i[1] \in mix /\ (Hit(r, i) \/ Miss(r, i))
         \/ \E a \in Accounts : DirectCallEnds(r, a)
    \/ \E k \in Keys : CallEnds(k)
    \/ \E a \in Deletable : delete_cloud_account(a)
    \/ Tick

Spec == Init /\ [][Next]_vars

\* The event loop runs what is ready, and time goes on however many requests
\* are answered meanwhile.  Nothing is assumed of the clouds.
Fairness ==
    /\ \A r \in Readers : WF_vars(ReaderStep(r))
    /\ SF_vars(Tick)

FairSpec == Spec /\ Fairness

-----------------------------------------------------------------------------
(* Type invariant.                                                         *)

\* Reads, calls and cache entries have their shapes, whatever goes on after the
\* client was told that the request timed out (expenses/service.py,
\* resources/service.py, request_coalescing.py:107-142).
TypeOK ==
    /\ stored \subseteq Accounts
    /\ cache \in [Slots -> Entry]
    /\ flight \in [Keys -> Flight]
    /\ reader \in [Readers -> Reader]
    /\ mix \in Mixes

-----------------------------------------------------------------------------
(* Safety.                                                                 *)

Answers == {r \in Readers : reader[r].pc = "answered"}

\* The figures of an answer, which is labelled live and 0 seconds old, were asked for
\* less than a lifetime, the time of the read that got them and the wait of a shared
\* call ago: reads that share calls, outlive their clients, overtake each other and
\* fill the caches late add up to no more.  Nothing bounds the time of a read: the
\* direct calls of Azure and GCP have no timeout (expenses/service.py:42-56,
\* resources/service.py:30-44, 147-150, request_coalescing.py:87-112,
\* degradation.py:235-245).
FiguresAreRecent ==
    \A r \in Answers, a \in Accounts :
        reader[r].part[a].at = "figures" /\ reader[r].elapsed < Horizon =>
            reader[r].part[a].age < TTL + reader[r].elapsed + LongestWait

\* What get_expense_breakdown returns, fresh or cached, and a fresh list of
\* resources account for every account they asked: its figures are in it, or
\* its failure is.  A read that was cancelled half way, by another reader that
\* gave up the call they share, is never taken for a complete one
\* (expenses/service.py:306-345, resources/service.py:148-223).
EveryAccountCounted ==
    \A r \in Answers :
        \/ reader[r].read = "breakdown"
        \/ reader[r].read = "resources" /\ reader[r].source = "live"
        => \A a \in reader[r].asked : reader[r].part[a].at \in {"figures", "failed"}

-----------------------------------------------------------------------------
(* Liveness, under Fairness.                                               *)

\* Every read ends, with an answer or an error, even if no cloud ever answers,
\* unless it hangs in a direct call of Azure or GCP, and then its client is told
\* that the request timed out (expenses/service.py:138-150, resources/service.py:147-150,
\* request_coalescing.py:107-112, timeout.py:103-117).
ReadEnds ==
    \A r \in Readers :
        reader[r].pc = "reading" ~>
            \/ reader[r].pc # "reading"
            \/ reader[r].gone /\ \E a \in Accounts : reader[r].part[a].at = "calling"
==============================================================================
