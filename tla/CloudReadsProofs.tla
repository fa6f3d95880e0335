-------------------------- MODULE CloudReadsProofs --------------------------
(***************************************************************************)
(* Proofs about the reads of expenses and resources, for any organizations *)
(* and accounts, any number of requests, any mix of reads, and any         *)
(* lifetimes and timeouts that CloudReadsAssumption allows.                *)
(***************************************************************************)
EXTENDS CloudReads, TLAPS

-----------------------------------------------------------------------------
(* The inductive invariant.                                                *)

\* While a request reads, its figures are older than it by at most a wait, as
\* long as the time it takes is counted.
PartInv(q, p) ==
    /\ p.at = "todo" => p.waited = 0
    /\ p.at = "figures" /\ q.elapsed < Horizon => p.age <= q.elapsed + LongestWait
    /\ p.at = "calling" /\ q.elapsed < Horizon => p.waited <= q.elapsed
    /\ p.at = "waiting" => p.waited <= WaitLimit(q.read)

ReadingInv(q) ==
    /\ \A a \in Accounts : PartInv(q, q.part[a])
    /\ q.read \in {"breakdown", "resources"} =>
          \A a \in q.asked : q.part[a].at \notin {"none", "lost"}

AnswerInv(q) ==
    /\ \A a \in Accounts :
          /\ q.part[a].at \notin {"todo", "waiting", "calling"}
          /\ q.part[a].at = "figures" /\ q.elapsed < Horizon =>
                q.part[a].age < TTL + q.elapsed + LongestWait
    /\ \/ q.read = "breakdown"
       \/ q.read = "resources" /\ q.source = "live"
       => \A a \in q.asked : q.part[a].at \in {"figures", "failed"}

ReaderInv(q) ==
    /\ q.pc \in {"opening", "reading"} => <<q.read, q.subject>> \in Slots
    /\ q.pc = "reading" => ReadingInv(q)
    /\ q.pc = "answered" => AnswerInv(q)
    /\ q.pc \notin {"reading", "answered"} => q.part = NoParts

\* A kept entry was filled by a read that ended when the entry began to age.
EntryInv(i) ==
    cache[i].kept =>
        /\ \A a \in Accounts :
              /\ cache[i].part[a].at \notin {"todo", "waiting", "calling"}
              /\ cache[i].part[a].at = "figures" /\ cache[i].elapsed < Horizon =>
                    cache[i].part[a].age <= cache[i].age + cache[i].elapsed + LongestWait
        /\ i[1] = "breakdown" =>
              \A a \in cache[i].asked : cache[i].part[a].at \in {"figures", "failed"}

\* q waits for key k, for its account a.
WaitsFor(q, a, k) == q.part[a].at = "waiting" /\ CallKey(q.read, a) = k

\* Whoever waits waits for an open call, and the one that began it still does:
\* the timeout of its wait bounds the age of the call.
WaitersInv(r) ==
    \A a \in Accounts, k \in Keys : WaitsFor(reader[r], a, k) => flight[k].at = "open"

FlightInv(k) ==
    flight[k].at = "open" =>
        \E r \in Readers, a \in Accounts :
            WaitsFor(reader[r], a, k) /\ flight[k].age <= reader[r].part[a].waited

IInv ==
    /\ TypeOK
    /\ \A r \in Readers : ReaderInv(reader[r]) /\ WaitersInv(r)
    /\ \A i \in Slots : EntryInv(i)
    /\ \A k \in Keys : FlightInv(k)

-----------------------------------------------------------------------------
(* Values: the shapes of parts, entries and reads, and the limits.         *)

LEMMA Limits ==
    /\ LongestWait \in 1..Horizon /\ Horizon \in Nat /\ TTL \in Nat \ {0}
    /\ Oldest = TTL + Horizon + LongestWait /\ Oldest \in Nat
    /\ \A i \in ReadKinds : WaitLimit(i) \in 1..LongestWait
BY CloudReadsAssumption DEF LongestWait, Oldest, WaitLimit, ReadKinds

\* Counting up to a bound.
LEMMA LaterCounts ==
    ASSUME NEW b \in Nat, NEW n \in 0..b
    PROVE  /\ Later(n, b) \in 0..b
           /\ Later(n, b) <= n + 1
           /\ n < b => Later(n, b) = n + 1
           /\ Later(n, b) < b => n < b
           /\ \A m \in 0..b : m <= n => Later(m, b) <= Later(n, b)
BY DEF Later

LEMMA KeyOfCall ==
    ASSUME NEW i \in ReadKinds, NEW a \in Accounts
    PROVE  CallKey(i, a) \in Keys
BY DEF CallKey, Keys, ReadKinds

\* All calls of a read that is not a summary have one key.
LEMMA KeyOfKind ==
    ASSUME NEW i \in ReadKinds \ {"summary"}, NEW a \in Accounts, NEW b \in Accounts
    PROVE  CallKey(i, a) = CallKey(i, b)
BY DEF CallKey, ReadKinds

LEMMA PartTypes ==
    /\ NoPart \in Part /\ NoPart.at = "none"
    /\ FailedPart \in Part /\ FailedPart.at = "failed"
    /\ LostPart \in Part /\ LostPart.at = "lost"
    /\ [NoPart EXCEPT !.at = "todo"] \in Part
    /\ [NoPart EXCEPT !.at = "todo"].at = "todo"
    /\ [NoPart EXCEPT !.at = "todo"].waited = 0
    /\ NoParts \in [Accounts -> Part]
BY Limits DEF NoPart, FailedPart, LostPart, NoParts, Part

LEMMA FiguresType ==
    ASSUME NEW a \in Accounts \cup {None}, NEW n \in 0..Oldest
    PROVE  /\ Figures(a, n) \in Part
           /\ Figures(a, n).at = "figures" /\ Figures(a, n).age = n
BY PartTypes DEF Figures, Part

LEMMA RestTypes ==
    /\ NoFlight \in Flight /\ NoFlight.at = "none"
    /\ NoEntry \in Entry /\ ~NoEntry.kept
    /\ IdleReader \in Reader /\ ReaderInv(IdleReader)
BY Limits, PartTypes
   DEF NoFlight, Flight, NoEntry, Entry, IdleReader, Reader, ReadKinds, Subjects, ReaderInv

\* A read that was ended from outside has nothing left.
LEMMA InterruptedType ==
    ASSUME NEW q \in Reader
    PROVE  /\ Interrupted(q) \in Reader /\ ReaderInv(Interrupted(q))
           /\ Interrupted(q).part = NoParts
BY RestTypes DEF Interrupted, IdleReader, Reader, ReaderInv

\* A read answered out of the cache.
LEMMA FromCacheType ==
    ASSUME IInv, NEW i \in Slots, cache[i].kept
    PROVE  /\ FromCache(i) \in Reader /\ ReaderInv(FromCache(i))
           /\ \A a \in Accounts : FromCache(i).part[a].at # "waiting"
<1>1. cache[i] \in Entry  BY DEF IInv, TypeOK
<1>2. i[1] \in ReadKinds /\ i[2] \in Subjects  BY DEF Slots, ReadKinds, Subjects
<1>3. /\ FromCache(i).pc = "answered" /\ FromCache(i).read = i[1]
      /\ FromCache(i).asked = cache[i].asked /\ FromCache(i).part = cache[i].part
      /\ FromCache(i).source = "cache" /\ FromCache(i).elapsed = cache[i].elapsed
  BY RestTypes DEF FromCache, Reader
<1>4. FromCache(i) \in Reader  BY <1>1, <1>2, RestTypes DEF FromCache, Entry, Reader
<1>5. EntryInv(i)  BY DEF IInv
<1>6. /\ cache[i].age \in 0..(TTL - 1) /\ cache[i].elapsed \in 0..Horizon
      /\ \A a \in Accounts : cache[i].part[a] \in Part
  BY <1>1 DEF Entry
<1>7. AnswerInv(FromCache(i))
  BY <1>3, <1>5, <1>6, Limits DEF AnswerInv, EntryInv, Part
<1>. QED  BY <1>3, <1>4, <1>7 DEF ReaderInv, AnswerInv

-----------------------------------------------------------------------------
(* Steps that leave the calls alone, or end some of them.                  *)

LEMMA WaitsPreserved ==
    ASSUME IInv,
           \A k \in Keys : flight'[k] # flight[k] => flight'[k].at # "open",
           \A q \in Readers, a \in Accounts, k \in Keys :
              WaitsFor(reader'[q], a, k) =>
                 WaitsFor(reader[q], a, k) /\ flight'[k] = flight[k],
           \A q \in Readers, a \in Accounts, k \in Keys :
              WaitsFor(reader[q], a, k) /\ flight'[k] = flight[k] =>
                 /\ WaitsFor(reader'[q], a, k)
                 /\ reader'[q].part[a].waited = reader[q].part[a].waited
    PROVE  /\ \A r \in Readers : WaitersInv(r)'
           /\ \A k \in Keys : FlightInv(k)'
<1>1. ASSUME NEW r \in Readers PROVE WaitersInv(r)'
  BY DEF IInv, WaitersInv, WaitsFor
<1>2. ASSUME NEW k \in Keys, flight'[k].at = "open"
      PROVE  \E r \in Readers, a \in Accounts :
                /\ WaitsFor(reader'[r], a, k)
                /\ flight'[k].age <= reader'[r].part[a].waited
  <2>1. flight'[k] = flight[k]  BY <1>2
  <2>2. PICK r \in Readers, a \in Accounts :
           WaitsFor(reader[r], a, k) /\ flight[k].age <= reader[r].part[a].waited
    BY <1>2, <2>1 DEF IInv, FlightInv
  <2>. QED  BY <2>1, <2>2
<1>. QED  BY <1>1, <1>2 DEF FlightInv, WaitsFor

LEMMA OneReader ==
    ASSUME IInv, NEW r \in Readers, NEW q \in Reader, ReaderInv(q),
           reader' = [reader EXCEPT ![r] = q],
           \A a \in Accounts, k \in Keys : WaitsFor(q, a, k) <=> WaitsFor(reader[r], a, k),
           \A a \in Accounts : q.part[a].at = "waiting" =>
              q.part[a].waited = reader[r].part[a].waited,
           cache' \in [Slots -> Entry], \A i \in Slots : EntryInv(i)',
           UNCHANGED <<stored, flight, mix>>
    PROVE  IInv'
<1>1. reader' \in [Readers -> Reader] /\ TypeOK'  BY DEF IInv, TypeOK
<1>2. \A p \in Readers : reader'[p] = IF p = r THEN q ELSE reader[p]  BY DEF IInv, TypeOK
<1>3. \A p \in Readers : ReaderInv(reader'[p])  BY <1>2 DEF IInv
<1>4. /\ \A p \in Readers : WaitersInv(p)'
      /\ \A k \in Keys : FlightInv(k)'
  BY <1>2, WaitsPreserved DEF WaitsFor
<1>. QED  BY <1>1, <1>3, <1>4 DEF IInv

LEMMA OnlyReadingWaits ==
    ASSUME IInv, NEW r \in Readers, reader[r].pc # "reading"
    PROVE  \A a \in Accounts : reader[r].part[a].at \notin {"todo", "waiting", "calling"}
<1>1. reader[r] \in Reader /\ ReaderInv(reader[r])  BY DEF IInv, TypeOK
<1>. QED  BY <1>1, PartTypes DEF ReaderInv, AnswerInv, NoParts

\* A request that waits for nothing, before and after the step.
LEMMA OneFreeReader ==
    ASSUME IInv, NEW r \in Readers, NEW q \in Reader, ReaderInv(q),
           reader' = [reader EXCEPT ![r] = q],
           \A a \in Accounts :
              q.part[a].at # "waiting" /\ reader[r].part[a].at # "waiting",
           cache' \in [Slots -> Entry], \A i \in Slots : EntryInv(i)',
           UNCHANGED <<stored, flight, mix>>
    PROVE  IInv'
BY OneReader DEF WaitsFor

\* The same, when the caches stay as they are.
LEMMA OneReaderStep ==
    ASSUME IInv, NEW r \in Readers, NEW q \in Reader, ReaderInv(q),
           reader' = [reader EXCEPT ![r] = q],
           \A a \in Accounts :
              q.part[a].at # "waiting" /\ reader[r].part[a].at # "waiting",
           UNCHANGED <<stored, cache, flight, mix>>
    PROVE  IInv'
<1>1. cache' \in [Slots -> Entry] /\ \A i \in Slots : EntryInv(i)'
  BY DEF IInv, TypeOK, EntryInv
<1>. QED  BY <1>1, OneFreeReader

LEMMA HitPreserves ==
    ASSUME IInv, NEW r \in Readers, NEW i \in Slots, Hit(r, i)
    PROVE  IInv'
<1>1. reader[r].pc = "idle" /\ reader' = [reader EXCEPT ![r] = FromCache(i)]
      /\ UNCHANGED <<stored, cache, flight, mix>>
  BY DEF Hit
<1>2. FromCache(i) \in Reader /\ ReaderInv(FromCache(i))
      /\ \A a \in Accounts : FromCache(i).part[a].at # "waiting"
  BY FromCacheType DEF Hit
<1>. QED  BY <1>1, <1>2, OnlyReadingWaits, OneReaderStep

LEMMA MissPreserves ==
    ASSUME IInv, NEW r \in Readers, NEW i \in Slots, Miss(r, i)
    PROVE  IInv'
<1>. DEFINE q == [IdleReader EXCEPT !.pc = "opening", !.read = i[1], !.subject = i[2]]
<1>1. reader[r].pc = "idle" /\ reader' = [reader EXCEPT ![r] = q]
      /\ UNCHANGED <<stored, cache, flight, mix>>
  BY DEF Miss
<1>2. i[1] \in ReadKinds /\ i[2] \in Subjects /\ i = <<i[1], i[2]>>
  BY DEF Slots, ReadKinds, Subjects
<1>3. q \in Reader /\ q.pc = "opening" /\ q.read = i[1] /\ q.subject = i[2]
      /\ q.part = IdleReader.part
  BY <1>2, RestTypes DEF Reader
<1>4. q.part = NoParts  BY <1>3, RestTypes DEF IdleReader
<1>5. ReaderInv(q)  BY <1>2, <1>3, <1>4 DEF ReaderInv
<1>6. \A a \in Accounts : q.part[a].at # "waiting"  BY <1>4, PartTypes DEF NoParts
<1>. QED  BY <1>1, <1>3, <1>5, <1>6, OnlyReadingWaits, OneReaderStep

\* What a read begins with, once its accounts are loaded.
LEMMA ReadBegins ==
    ASSUME NEW q \in Reader, <<q.read, q.subject>> \in Slots,
           NEW asked \in SUBSET Accounts, NEW parts \in [Accounts -> Part],
           \A a \in Accounts : /\ parts[a].at \in {"todo", "failed", "none"}
                               /\ parts[a].at = "todo" => parts[a].waited = 0,
           q.read \in {"breakdown", "resources"} =>
              \A a \in asked : parts[a].at \notin {"none", "lost"}
    PROVE  LET n == [q EXCEPT !.pc = "reading", !.asked = asked, !.part = parts]
           IN  /\ n \in Reader /\ ReaderInv(n)
               /\ \A a \in Accounts : n.part[a].at # "waiting"
<1>. DEFINE n == [q EXCEPT !.pc = "reading", !.asked = asked, !.part = parts]
<1>1. /\ n \in Reader /\ n.pc = "reading" /\ n.asked = asked /\ n.part = parts
      /\ n.read = q.read /\ n.subject = q.subject
  BY DEF Reader
<1>. HIDE DEF n
<1>2. ReadingInv(n)  BY <1>1 DEF ReadingInv, PartInv
<1>3. ReaderInv(n)  BY <1>1, <1>2 DEF ReaderInv
<1>4. \A a \in Accounts : n.part[a].at # "waiting"  BY <1>1
<1>. QED  BY <1>1, <1>3, <1>4 DEF n

LEMMA AdaptersPreserve ==
    ASSUME IInv, NEW r \in Readers, _get_cloud_adapters(r)
    PROVE  IInv'
<1>. DEFINE about == About(reader[r].subject)
            lists == reader[r].read = "resources"
            asked == IF lists THEN about ELSE about \ Broken
            parts == [a \in Accounts |->
                        IF a \in about \ Broken THEN [NoPart EXCEPT !.at = "todo"]
                        ELSE IF a \in about /\ lists THEN FailedPart ELSE NoPart]
<1>1. /\ reader[r] \in Reader /\ ReaderInv(reader[r]) /\ reader \in [Readers -> Reader]
      /\ about \in SUBSET Accounts
  BY DEF IInv, TypeOK, About
<1>2. /\ reader[r].pc = "opening" /\ UNCHANGED <<stored, cache, flight, mix>>
      /\ reader' = [reader EXCEPT ![r] = [reader[r] EXCEPT
                       !.pc = "reading", !.asked = asked, !.part = parts]]
  BY <1>1 DEF _get_cloud_adapters
<1>. HIDE DEF about
<1>3. /\ parts \in [Accounts -> Part] /\ asked \in SUBSET Accounts
      /\ \A a \in Accounts : /\ parts[a].at \in {"todo", "failed", "none"}
                             /\ parts[a].at = "todo" => parts[a].waited = 0
  BY <1>1, PartTypes
<1>4. ASSUME NEW a \in asked PROVE parts[a].at \notin {"none", "lost"}
  BY <1>1, <1>4, PartTypes
<1>5. <<reader[r].read, reader[r].subject>> \in Slots  BY <1>1, <1>2 DEF ReaderInv
<1>. HIDE DEF asked, parts
<1>. DEFINE n == [reader[r] EXCEPT !.pc = "reading", !.asked = asked, !.part = parts]
<1>6. n \in Reader /\ ReaderInv(n) /\ \A a \in Accounts : n.part[a].at # "waiting"
  BY <1>1, <1>3, <1>4, <1>5, ReadBegins
<1>7. reader' = [reader EXCEPT ![r] = n]  BY <1>2
<1>. HIDE DEF n
<1>. QED  BY <1>2, <1>6, <1>7, OnlyReadingWaits, OneReaderStep

LEMMA FallbackPreserves ==
    ASSUME IInv, NEW r \in Readers, get_with_fallback(r)
    PROVE  IInv'
<1>. DEFINE i == <<reader[r].read, reader[r].subject>>
            Degraded(source) == [IdleReader EXCEPT !.pc = "answered", !.read = i[1],
                                                   !.subject = i[2], !.source = source]
<1>0. reader \in [Readers -> Reader] /\ reader[r] \in Reader /\ ReaderInv(reader[r])
  BY DEF IInv, TypeOK
<1>1. /\ reader[r].pc = "opening" /\ UNCHANGED <<stored, cache, flight, mix>>
      /\ \/ \E source \in {"stored", "unavailable"} :
               reader' = [reader EXCEPT ![r] = Degraded(source)]
         \/ cache[i].kept /\ reader' = [reader EXCEPT ![r] = FromCache(i)]
         \/ reader' = [reader EXCEPT ![r] = Interrupted(reader[r])]
  BY <1>0 DEF get_with_fallback
<1>2. i \in Slots  BY <1>0, <1>1 DEF ReaderInv
<1>3. ASSUME NEW source \in {"stored", "unavailable"},
             reader' = [reader EXCEPT ![r] = Degraded(source)]
      PROVE  IInv'
  <2>1. i[1] \in ReadKinds /\ i[2] \in Subjects  BY <1>2 DEF Slots, ReadKinds, Subjects
  <2>. HIDE DEF i
  <2>2. Degraded(source) \in Reader /\ Degraded(source).pc = "answered"
        /\ Degraded(source).asked = IdleReader.asked
        /\ Degraded(source).part = IdleReader.part
    BY <2>1, RestTypes DEF Reader
  <2>3. Degraded(source).asked = {} /\ Degraded(source).part = NoParts
    BY <2>2 DEF IdleReader
  <2>. HIDE DEF Degraded
  <2>4. \A a \in Accounts : Degraded(source).part[a].at = "none"
    BY <2>3, PartTypes DEF NoParts
  <2>5. ReaderInv(Degraded(source))  BY <2>2, <2>3, <2>4 DEF ReaderInv, AnswerInv
  <2>. QED  BY <1>1, <1>3, <2>2, <2>4, <2>5, OnlyReadingWaits, OneReaderStep
<1>4. CASE cache[i].kept /\ reader' = [reader EXCEPT ![r] = FromCache(i)]
  <2>. HIDE DEF i
  <2>. QED  BY <1>1, <1>2, <1>4, FromCacheType, OnlyReadingWaits, OneReaderStep
<1>5. CASE reader' = [reader EXCEPT ![r] = Interrupted(reader[r])]
  BY <1>0, <1>1, <1>5, InterruptedType, PartTypes, OnlyReadingWaits, OneReaderStep
     DEF NoParts
<1>. QED  BY <1>1, <1>3, <1>4, <1>5

LEMMA LeavePreserves ==
    ASSUME IInv, NEW r \in Readers, Leave(r)
    PROVE  IInv'
<1>1. \A a \in Accounts : IdleReader.part[a].at # "waiting"
  BY PartTypes DEF IdleReader, NoParts
<1>. QED  BY <1>1, RestTypes, OnlyReadingWaits, OneReaderStep DEF Leave

-----------------------------------------------------------------------------
(* Steps of a read.                                                        *)

\* The parts of a read change in a way that keeps the invariant.
LEMMA PartsChange ==
    ASSUME NEW q \in Reader, ReaderInv(q), q.pc = "reading",
           NEW parts \in [Accounts -> Part],
           \A a \in Accounts : PartInv(q, parts[a]),
           q.read \in {"breakdown", "resources"} =>
              \A a \in q.asked : parts[a].at \notin {"none", "lost"}
    PROVE  LET n == [q EXCEPT !.part = parts]
           IN  /\ n \in Reader /\ ReaderInv(n)
               /\ n.part = parts /\ n.read = q.read
<1>. DEFINE n == [q EXCEPT !.part = parts]
<1>1. /\ n \in Reader /\ n.part = parts /\ n.read = q.read /\ n.pc = "reading"
      /\ n.elapsed = q.elapsed /\ n.asked = q.asked /\ n.subject = q.subject
  BY DEF Reader
<1>. HIDE DEF n
<1>2. ReadingInv(n)  BY <1>1 DEF ReadingInv, PartInv
<1>3. ReaderInv(n)  BY <1>1, <1>2 DEF ReaderInv
<1>. QED  BY <1>1, <1>3 DEF n

LEMMA PartChange ==
    ASSUME NEW q \in Reader, ReaderInv(q), q.pc = "reading",
           NEW a \in Accounts, NEW p \in Part, PartInv(q, p), p.at \notin {"none", "lost"}
    PROVE  LET n == [q EXCEPT !.part = [q.part EXCEPT ![a] = p]]
           IN  /\ n \in Reader /\ ReaderInv(n)
               /\ n.part = [q.part EXCEPT ![a] = p] /\ n.read = q.read
<1>. DEFINE parts == [q.part EXCEPT ![a] = p]
<1>1. q.part \in [Accounts -> Part] /\ q.asked \in SUBSET Accounts  BY DEF Reader
<1>2. parts \in [Accounts -> Part]
      /\ \A b \in Accounts : parts[b] = IF b = a THEN p ELSE q.part[b]
  BY <1>1
<1>. HIDE DEF parts
<1>3. ReadingInv(q)  BY DEF ReaderInv
<1>4. \A b \in Accounts : PartInv(q, parts[b])  BY <1>2, <1>3 DEF ReadingInv
<1>5. q.read \in {"breakdown", "resources"} =>
         \A b \in q.asked : parts[b].at \notin {"none", "lost"}
  BY <1>1, <1>2, <1>3 DEF ReadingInv
<1>6. LET n == [q EXCEPT !.part = parts]
      IN  /\ n \in Reader /\ ReaderInv(n)
          /\ n.part = parts /\ n.read = q.read
  BY <1>2, <1>4, <1>5, PartsChange
<1>. QED  BY <1>6 DEF parts

LEMMA CallDirectlyPreserves ==
    ASSUME IInv, NEW r \in Readers, NEW a \in Accounts, CallDirectly(r, a)
    PROVE  IInv'
<1>. DEFINE p == [reader[r].part[a] EXCEPT !.at = "calling"]
            q == [reader[r] EXCEPT !.part = [reader[r].part EXCEPT ![a] = p]]
<1>0. /\ reader \in [Readers -> Reader] /\ reader[r] \in Reader /\ ReaderInv(reader[r])
      /\ reader[r].part \in [Accounts -> Part] /\ reader[r].part[a] \in Part
  BY DEF IInv, TypeOK, Reader
<1>1. /\ reader[r].pc = "reading" /\ reader[r].part[a].at = "todo"
      /\ reader' = [reader EXCEPT ![r] = q] /\ UNCHANGED <<stored, cache, flight, mix>>
  BY <1>0 DEF CallDirectly, Asks
<1>2. p \in Part /\ p.at = "calling" /\ p.waited = reader[r].part[a].waited
  BY <1>0 DEF Part
<1>3. PartInv(reader[r], p)
  BY <1>0, <1>1, <1>2 DEF ReaderInv, ReadingInv, PartInv, Reader
<1>. HIDE DEF p
<1>4. /\ q \in Reader /\ ReaderInv(q) /\ q.read = reader[r].read
      /\ q.part = [reader[r].part EXCEPT ![a] = p]
  BY <1>0, <1>1, <1>2, <1>3, PartChange
<1>. HIDE DEF q
<1>5. \A b \in Accounts : q.part[b] = IF b = a THEN p ELSE reader[r].part[b]
  BY <1>0, <1>4
<1>6. cache' \in [Slots -> Entry] /\ \A i \in Slots : EntryInv(i)'
  BY <1>1 DEF IInv, TypeOK, EntryInv
<1>. QED  BY <1>1, <1>2, <1>4, <1>5, <1>6, OneReader DEF WaitsFor

LEMMA DirectCallEndsPreserves ==
    ASSUME IInv, NEW r \in Readers, NEW a \in Accounts, DirectCallEnds(r, a)
    PROVE  IInv'
<1>0. /\ reader \in [Readers -> Reader] /\ reader[r] \in Reader /\ ReaderInv(reader[r])
      /\ reader[r].part \in [Accounts -> Part] /\ reader[r].part[a] \in Part
  BY DEF IInv, TypeOK, Reader
<1>1. reader[r].part[a].at = "calling" /\ UNCHANGED <<stored, cache, flight, mix>>
  BY DEF DirectCallEnds
<1>2. reader[r].pc = "reading"  BY <1>1, OnlyReadingWaits
<1>3. PICK p \in {Figures(a, reader[r].part[a].waited), FailedPart} :
         reader' = [reader EXCEPT ![r].part[a] = p]
  BY DEF DirectCallEnds
<1>. DEFINE q == [reader[r] EXCEPT !.part = [reader[r].part EXCEPT ![a] = p]]
<1>4. reader' = [reader EXCEPT ![r] = q]  BY <1>0, <1>3
<1>5. (reader[r].elapsed < Horizon => reader[r].part[a].waited <= reader[r].elapsed)
      /\ reader[r].part[a].waited \in 0..Horizon
      /\ reader[r].elapsed \in 0..Horizon
  BY <1>0, <1>1, <1>2 DEF ReaderInv, ReadingInv, PartInv, Part, Reader
<1>6. reader[r].part[a].waited \in 0..Oldest  BY <1>5, Limits
<1>7. p \in Part /\ p.at \in {"figures", "failed"} /\ PartInv(reader[r], p)
  BY <1>5, <1>6, FiguresType, PartTypes, Limits DEF PartInv
<1>. HIDE DEF q
<1>8. /\ q \in Reader /\ ReaderInv(q) /\ q.read = reader[r].read
      /\ q.part = [reader[r].part EXCEPT ![a] = p]
  BY <1>0, <1>2, <1>7, PartChange DEF q
<1>9. \A b \in Accounts : q.part[b] = IF b = a THEN p ELSE reader[r].part[b]
  BY <1>0, <1>8
<1>10. cache' \in [Slots -> Entry] /\ \A i \in Slots : EntryInv(i)'
  BY <1>1 DEF IInv, TypeOK, EntryInv
<1>. QED  BY <1>1, <1>4, <1>7, <1>8, <1>9, <1>10, OneReader DEF WaitsFor

\* Dropping the failures of parts that are settled.
LEMMA FailuresDropped ==
    ASSUME NEW parts \in [Accounts -> Part], NEW i
    PROVE  /\ Reported(i, parts) \in [Accounts -> Part]
           /\ Remembered(i, parts) \in [Accounts -> Part]
           /\ \A a \in Accounts :
                 /\ Reported(i, parts)[a] \in {parts[a], NoPart}
                 /\ Remembered(i, parts)[a] \in {parts[a], NoPart}
           /\ i \in {"breakdown", "resources"} => Reported(i, parts) = parts
           /\ i = "breakdown" => Remembered(i, parts) = parts
BY PartTypes DEF Reported, Remembered, WithoutFailures

\* What a settled read has, and what it hands out and leaves in the cache.
LEMMA SettledParts ==
    ASSUME NEW q \in Reader, ReaderInv(q), q.pc = "reading", Settled(q)
    PROVE  /\ q.part \in [Accounts -> Part]
           /\ \A a \in Accounts :
                 /\ q.part[a] \in Part
                 /\ q.part[a].at \notin {"todo", "waiting", "calling"}
                 /\ q.part[a].at = "figures" /\ q.elapsed < Horizon =>
                       q.part[a].age <= q.elapsed + LongestWait
           /\ q.elapsed \in 0..Horizon
           /\ q.read \in {"breakdown", "resources"} =>
                 \A a \in q.asked : q.part[a].at \in {"figures", "failed"}
<1>1. /\ q.part \in [Accounts -> Part] /\ q.asked \in SUBSET Accounts
      /\ q.elapsed \in 0..Horizon /\ ReadingInv(q)
  BY DEF Reader, ReaderInv
<1>2. ASSUME NEW a \in Accounts
      PROVE  /\ q.part[a] \in Part
             /\ q.part[a].at \notin {"todo", "waiting", "calling"}
             /\ q.part[a].at = "figures" /\ q.elapsed < Horizon =>
                   q.part[a].age <= q.elapsed + LongestWait
  BY <1>1, Limits DEF ReadingInv, PartInv, Settled, Part
<1>. QED  BY <1>1, <1>2 DEF ReadingInv, Part

LEMMA AnswerGiven ==
    ASSUME NEW q \in Reader, ReaderInv(q), q.pc = "reading", Settled(q)
    PROVE  LET n == [q EXCEPT !.pc = "answered", !.part = Reported(q.read, q.part)]
           IN  /\ n \in Reader /\ ReaderInv(n)
               /\ \A a \in Accounts : n.part[a].at # "waiting"
<1>. DEFINE said == Reported(q.read, q.part)
            n == [q EXCEPT !.pc = "answered", !.part = said]
<1>1. /\ said \in [Accounts -> Part]
      /\ \A a \in Accounts : said[a] \in {q.part[a], NoPart}
      /\ q.read \in {"breakdown", "resources"} => said = q.part
  BY SettledParts, FailuresDropped
<1>. HIDE DEF said
<1>2. /\ n \in Reader /\ n.pc = "answered" /\ n.part = said
      /\ n.read = q.read /\ n.asked = q.asked /\ n.elapsed = q.elapsed
  BY <1>1 DEF Reader
<1>. HIDE DEF n
<1>3. ASSUME NEW a \in Accounts
      PROVE  /\ n.part[a].at \notin {"todo", "waiting", "calling"}
             /\ n.part[a].at = "figures" /\ n.elapsed < Horizon =>
                   n.part[a].age < TTL + n.elapsed + LongestWait
  <2>1. CASE said[a] = q.part[a]  BY <1>2, <2>1, SettledParts, Limits DEF Part
  <2>2. CASE said[a] = NoPart  BY <1>2, <2>2, PartTypes
  <2>. QED  BY <1>1, <2>1, <2>2
<1>4. AnswerInv(n)  BY <1>1, <1>2, <1>3, SettledParts DEF AnswerInv
<1>5. ReaderInv(n)  BY <1>2, <1>4 DEF ReaderInv
<1>6. n \in Reader /\ ReaderInv(n) /\ \A a \in Accounts : n.part[a].at # "waiting"
  BY <1>2, <1>3, <1>5
<1>. QED  BY <1>6 DEF n, said

LEMMA EntryFilled ==
    ASSUME NEW q \in Reader, ReaderInv(q), q.pc = "reading", Settled(q)
    PROVE  LET e == [kept |-> TRUE, asked |-> q.asked, age |-> 0,
                     elapsed |-> q.elapsed, part |-> Remembered(q.read, q.part)]
           IN  /\ e \in Entry /\ e.age = 0
               /\ \A a \in Accounts :
                     /\ e.part[a].at \notin {"todo", "waiting", "calling"}
                     /\ e.part[a].at = "figures" /\ e.elapsed < Horizon =>
                           e.part[a].age <= e.elapsed + LongestWait
               /\ q.read = "breakdown" =>
                     \A a \in e.asked : e.part[a].at \in {"figures", "failed"}
<1>. DEFINE left == Remembered(q.read, q.part)
            e == [kept |-> TRUE, asked |-> q.asked, age |-> 0,
                  elapsed |-> q.elapsed, part |-> left]
<1>1. /\ left \in [Accounts -> Part]
      /\ \A a \in Accounts : left[a] \in {q.part[a], NoPart}
      /\ q.read = "breakdown" => left = q.part
  BY SettledParts, FailuresDropped
<1>. HIDE DEF left
<1>2. /\ e \in Entry /\ e.part = left /\ e.asked = q.asked /\ e.age = 0
      /\ e.elapsed = q.elapsed
  BY <1>1, Limits DEF Entry, Reader
<1>. HIDE DEF e
<1>3. ASSUME NEW a \in Accounts
      PROVE  /\ e.part[a].at \notin {"todo", "waiting", "calling"}
             /\ e.part[a].at = "figures" /\ e.elapsed < Horizon =>
                   e.part[a].age <= e.elapsed + LongestWait
  <2>1. CASE left[a] = q.part[a]  BY <1>2, <2>1, SettledParts
  <2>2. CASE left[a] = NoPart  BY <1>2, <2>2, PartTypes
  <2>. QED  BY <1>1, <2>1, <2>2
<1>4. q.read = "breakdown" =>
         \A a \in e.asked : e.part[a].at \in {"figures", "failed"}
  BY <1>1, <1>2, SettledParts
<1>. QED  BY <1>2, <1>3, <1>4 DEF e, left

LEMMA FinishPreserves ==
    ASSUME IInv, NEW r \in Readers, Finish(r)
    PROVE  IInv'
<1>1. /\ reader \in [Readers -> Reader] /\ reader[r] \in Reader /\ ReaderInv(reader[r])
      /\ cache \in [Slots -> Entry] /\ \A j \in Slots : EntryInv(j)
  BY DEF IInv, TypeOK
<1>2. /\ reader[r].pc = "reading" /\ Settled(reader[r])
      /\ UNCHANGED <<stored, flight, mix>>
  BY DEF Finish
<1>3. PICK n \in Reader :
         /\ ReaderInv(n) /\ reader' = [reader EXCEPT ![r] = n]
         /\ \A a \in Accounts : n.part[a].at # "waiting"
  <2>1. CASE reader[r].gone
    <3>1. reader' = [reader EXCEPT ![r] = Interrupted(reader[r])]  BY <2>1 DEF Finish
    <3>2. \A a \in Accounts : Interrupted(reader[r]).part[a].at # "waiting"
      BY <1>1, InterruptedType, PartTypes DEF NoParts
    <3>. QED  BY <1>1, <3>1, <3>2, InterruptedType
  <2>2. CASE ~reader[r].gone
    <3>1. reader' = [reader EXCEPT ![r] = [reader[r] EXCEPT !.pc = "answered",
                        !.part = Reported(reader[r].read, reader[r].part)]]
      BY <2>2 DEF Finish
    <3>. QED  BY <1>1, <1>2, <3>1, AnswerGiven
  <2>. QED  BY <2>1, <2>2
<1>4. PICK e \in Entry :
         /\ cache' \in {cache, [cache EXCEPT ![<<reader[r].read, reader[r].subject>>] = e]}
         /\ e.age = 0
         /\ \A a \in Accounts :
               /\ e.part[a].at \notin {"todo", "waiting", "calling"}
               /\ e.part[a].at = "figures" /\ e.elapsed < Horizon =>
                     e.part[a].age <= e.elapsed + LongestWait
         /\ reader[r].read = "breakdown" =>
               \A a \in e.asked : e.part[a].at \in {"figures", "failed"}
  <2>. DEFINE i == <<reader[r].read, reader[r].subject>>
              e == [kept |-> TRUE, asked |-> reader[r].asked, age |-> 0,
                    elapsed |-> reader[r].elapsed,
                    part |-> Remembered(reader[r].read, reader[r].part)]
  <2>1. cache' = cache \/ cache' = [cache EXCEPT ![i] = e]  BY DEF Finish
  <2>2. /\ e \in Entry /\ e.age = 0
        /\ \A a \in Accounts :
              /\ e.part[a].at \notin {"todo", "waiting", "calling"}
              /\ e.part[a].at = "figures" /\ e.elapsed < Horizon =>
                    e.part[a].age <= e.elapsed + LongestWait
        /\ reader[r].read = "breakdown" =>
              \A a \in e.asked : e.part[a].at \in {"figures", "failed"}
    BY <1>1, <1>2, EntryFilled
  <2>. HIDE DEF e
  <2>. QED  BY <2>1, <2>2
<1>5. cache' \in [Slots -> Entry]  BY <1>1, <1>4
<1>6. ASSUME NEW j \in Slots PROVE EntryInv(j)'
  <2>1. CASE cache'[j] = cache[j]  BY <1>1, <2>1 DEF EntryInv
  <2>2. CASE j = <<reader[r].read, reader[r].subject>> /\ cache'[j] = e
    <3>1. j[1] = reader[r].read /\ e.age + e.elapsed + LongestWait = e.elapsed + LongestWait
      BY <1>4, <2>2, Limits DEF Entry
    <3>. QED  BY <1>4, <2>2, <3>1 DEF EntryInv
  <2>. QED  BY <1>1, <1>4, <2>1, <2>2
<1>7. \A a \in Accounts : reader[r].part[a].at # "waiting"
  BY <1>1, <1>2, SettledParts
<1>. QED  BY <1>2, <1>3, <1>5, <1>6, <1>7, OneFreeReader

-----------------------------------------------------------------------------
(* Steps of the calls: joining one, its end, and its cancellation.         *)

LEMMA ReadersTyped ==
    ASSUME IInv, NEW r \in Readers
    PROVE  /\ reader \in [Readers -> Reader] /\ reader[r] \in Reader /\ ReaderInv(reader[r])
           /\ reader[r].part \in [Accounts -> Part] /\ reader[r].read \in ReadKinds
           /\ reader[r].elapsed \in 0..Horizon
           /\ reader[r].asked \in SUBSET Accounts
           /\ flight \in [Keys -> Flight]
BY DEF IInv, TypeOK, Reader

\* A cancelled wait is lost to a summary, and ends any other read.
LEMMA LostOrInterrupted ==
    ASSUME NEW q \in Reader, ReaderInv(q), q.pc = "reading",
           NEW hit \in SUBSET Accounts, hit # {}
    PROVE  LET n == Cancelled(q, hit)
           IN  /\ n \in Reader /\ ReaderInv(n)
               /\ q.read = "summary" =>
                     /\ n.read = "summary"
                     /\ \A a \in Accounts :
                           n.part[a] = IF a \in hit THEN LostPart ELSE q.part[a]
               /\ q.read # "summary" => n.part = NoParts
<1>1. CASE q.read # "summary"  BY <1>1, InterruptedType DEF Cancelled
<1>2. CASE q.read = "summary"
  <2>. DEFINE parts == [a \in Accounts |-> IF a \in hit THEN LostPart ELSE q.part[a]]
  <2>1. q.part \in [Accounts -> Part] /\ ReadingInv(q)  BY DEF Reader, ReaderInv
  <2>2. parts \in [Accounts -> Part]
        /\ \A a \in Accounts : parts[a] = IF a \in hit THEN LostPart ELSE q.part[a]
    BY <2>1, PartTypes
  <2>3. Cancelled(q, hit) = [q EXCEPT !.part = parts]  BY <1>2 DEF Cancelled
  <2>. HIDE DEF parts
  <2>4. \A a \in Accounts : PartInv(q, parts[a])
    BY <2>1, <2>2, PartTypes DEF ReadingInv, PartInv
  <2>5. LET n == [q EXCEPT !.part = parts]
        IN  n \in Reader /\ ReaderInv(n) /\ n.part = parts /\ n.read = q.read
    BY <1>2, <2>2, <2>4, PartsChange
  <2>. QED  BY <1>2, <2>2, <2>3, <2>5
<1>. QED  BY <1>1, <1>2

\* When the calls of some keys are cancelled, a read loses the waits for them
\* and no other.
LEMMA WaitsCancelled ==
    ASSUME NEW q \in Reader, ReaderInv(q), NEW keys \in SUBSET Keys
    PROVE  LET n == Cancelled(q, Waits(q, keys))
           IN  /\ n \in Reader /\ ReaderInv(n)
               /\ \A a \in Accounts :
                     /\ \A k \in Keys : WaitsFor(n, a, k) <=> WaitsFor(q, a, k) /\ k \notin keys
                     /\ n.part[a].at = "waiting" => n.part[a].waited = q.part[a].waited
<1>. DEFINE n == Cancelled(q, Waits(q, keys))
<1>1. q.part \in [Accounts -> Part] /\ q.read \in ReadKinds  BY DEF Reader
<1>2. \A a \in Accounts : CallKey(q.read, a) \in Keys  BY <1>1, KeyOfCall
<1>3. CASE Waits(q, keys) = {}
  <2>1. n = q  BY <1>3 DEF Cancelled
  <2>2. \A a \in Accounts, k \in Keys : WaitsFor(q, a, k) => k \notin keys
    BY <1>3 DEF Waits, WaitsFor
  <2>. QED  BY <2>1, <2>2
<1>4. CASE Waits(q, keys) # {}
  <2>1. q.pc = "reading"
    <3>1. PICK a \in Accounts : q.part[a].at = "waiting"  BY <1>4 DEF Waits
    <3>. QED  BY <3>1, PartTypes DEF ReaderInv, AnswerInv, NoParts
  <2>2. Waits(q, keys) \in SUBSET Accounts  BY DEF Waits
  <2>3. /\ n \in Reader /\ ReaderInv(n)
        /\ q.read = "summary" =>
              /\ n.read = "summary"
              /\ \A a \in Accounts :
                    n.part[a] = IF a \in Waits(q, keys) THEN LostPart ELSE q.part[a]
        /\ q.read # "summary" => n.part = NoParts
    BY <1>4, <2>1, <2>2, LostOrInterrupted
  <2>. HIDE DEF n
  <2>4. CASE q.read = "summary"
    <3>1. ASSUME NEW a \in Accounts
          PROVE  /\ \A k \in Keys : WaitsFor(n, a, k) <=> WaitsFor(q, a, k) /\ k \notin keys
                 /\ n.part[a].at = "waiting" => n.part[a].waited = q.part[a].waited
      <4>1. n.read = q.read
            /\ n.part[a] = IF a \in Waits(q, keys) THEN LostPart ELSE q.part[a]
        BY <2>3, <2>4
      <4>2. CASE a \in Waits(q, keys)
        BY <4>1, <4>2, PartTypes DEF Waits, WaitsFor
      <4>3. CASE a \notin Waits(q, keys)
        BY <4>1, <4>3 DEF Waits, WaitsFor
      <4>. QED  BY <4>2, <4>3
    <3>. QED  BY <2>3, <3>1 DEF n
  <2>5. CASE q.read # "summary"
    <3>1. PICK b \in Accounts : CallKey(q.read, b) \in keys  BY <1>4 DEF Waits
    <3>2. \A a \in Accounts : CallKey(q.read, a) \in keys
      BY <1>1, <2>5, <3>1, KeyOfKind
    <3>3. \A a \in Accounts : n.part[a].at = "none"  BY <2>3, <2>5, PartTypes DEF NoParts
    <3>4. \A a \in Accounts, k \in Keys :
             ~WaitsFor(n, a, k) /\ (WaitsFor(q, a, k) => k \in keys)
      BY <3>2, <3>3 DEF WaitsFor
    <3>. QED  BY <2>3, <3>3, <3>4 DEF n
  <2>. QED  BY <2>4, <2>5
<1>. QED  BY <1>3, <1>4

LEMMA CancelPreserves ==
    ASSUME IInv, NEW keys \in SUBSET Keys, Cancel(keys),
           NEW f \in [Readers -> Reader], reader' = f,
           \A q \in Readers :
              /\ ReaderInv(f[q])
              /\ \A a \in Accounts :
                    /\ \A k \in Keys :
                          WaitsFor(f[q], a, k) <=> WaitsFor(reader[q], a, k) /\ k \notin keys
                    /\ f[q].part[a].at = "waiting" =>
                          f[q].part[a].waited = reader[q].part[a].waited,
           UNCHANGED <<stored, cache, mix>>
    PROVE  IInv'
<1>1. flight \in [Keys -> Flight]  BY DEF IInv, TypeOK
<1>2. [NoFlight EXCEPT !.at = "cancelled"] \in Flight
      /\ [NoFlight EXCEPT !.at = "cancelled"].at = "cancelled"
  BY RestTypes DEF Flight
<1>3. flight' \in [Keys -> Flight]
      /\ \A k \in Keys : IF k \in keys THEN flight'[k].at = "cancelled"
                         ELSE flight'[k] = flight[k]
  BY <1>1, <1>2 DEF Cancel
<1>4. TypeOK'  BY <1>3 DEF IInv, TypeOK
<1>5. \A i \in Slots : EntryInv(i)'  BY DEF IInv, EntryInv
<1>6. \A q \in Readers, a \in Accounts, k \in Keys :
         WaitsFor(reader[q], a, k) => flight[k].at = "open"
  BY DEF IInv, WaitersInv
<1>7. /\ \A q \in Readers : WaitersInv(q)'
      /\ \A k \in Keys : FlightInv(k)'
  <2>1. \A k \in Keys : flight'[k] # flight[k] => flight'[k].at # "open"  BY <1>3
  <2>2. \A q \in Readers, a \in Accounts, k \in Keys :
           WaitsFor(reader'[q], a, k) =>
              WaitsFor(reader[q], a, k) /\ flight'[k] = flight[k]
    BY <1>3
  <2>3. ASSUME NEW q \in Readers, NEW a \in Accounts, NEW k \in Keys,
               WaitsFor(reader[q], a, k), flight'[k] = flight[k]
        PROVE  /\ WaitsFor(reader'[q], a, k)
               /\ reader'[q].part[a].waited = reader[q].part[a].waited
    <3>1. k \notin keys  BY <1>3, <1>6, <2>3
    <3>2. WaitsFor(f[q], a, k)  BY <2>3, <3>1
    <3>. QED  BY <3>2 DEF WaitsFor
  <2>. QED  BY <2>1, <2>2, <2>3, WaitsPreserved
<1>. QED  BY <1>4, <1>5, <1>7 DEF IInv

\* The middleware's answer changes nothing for the read.
LEMMA RequestTimeoutPreserves ==
    ASSUME IInv, NEW r \in Readers, RequestTimeout(r)
    PROVE  IInv'
<1>. DEFINE n == [reader[r] EXCEPT !.gone = TRUE]
<1>1. reader \in [Readers -> Reader] /\ reader[r] \in Reader /\ ReaderInv(reader[r])
  BY ReadersTyped
<1>2. reader' = [reader EXCEPT ![r] = n] /\ UNCHANGED <<stored, cache, flight, mix>>
  BY DEF RequestTimeout
<1>3. /\ n \in Reader /\ n.pc = reader[r].pc /\ n.read = reader[r].read
      /\ n.subject = reader[r].subject /\ n.asked = reader[r].asked
      /\ n.part = reader[r].part /\ n.elapsed = reader[r].elapsed
      /\ n.source = reader[r].source
  BY <1>1 DEF Reader
<1>. HIDE DEF n
<1>4. ReaderInv(n)
  BY <1>1, <1>3 DEF ReaderInv, ReadingInv, PartInv, AnswerInv
<1>5. cache' \in [Slots -> Entry] /\ \A i \in Slots : EntryInv(i)'
  BY <1>2 DEF IInv, TypeOK, EntryInv
<1>. QED  BY <1>2, <1>3, <1>4, <1>5, OneReader DEF WaitsFor

LEMMA GiveUpPreserves ==
    ASSUME IInv, NEW r \in Readers, NEW a \in Accounts, GiveUp(r, a)
    PROVE  IInv'
<1>. DEFINE key == CallKey(reader[r].read, a)
            failed == [reader[r] EXCEPT !.part = [reader[r].part EXCEPT ![a] = FailedPart]]
            now(q) == IF q = r THEN failed ELSE reader[q]
            f == [q \in Readers |-> Cancelled(now(q), Waits(now(q), {key}))]
<1>1. reader[r].part[a].at = "waiting"  BY DEF GiveUp
<1>2. /\ reader \in [Readers -> Reader] /\ reader[r] \in Reader /\ ReaderInv(reader[r])
      /\ reader[r].part \in [Accounts -> Part] /\ reader[r].read \in ReadKinds
  BY ReadersTyped
<1>3. reader[r].pc = "reading"  BY <1>1, OnlyReadingWaits
<1>4. Cancel({key}) /\ reader' = f /\ UNCHANGED <<stored, cache, mix>>
  BY <1>2 DEF GiveUp
<1>5. key \in Keys  BY <1>2, KeyOfCall
<1>6. /\ failed \in Reader /\ ReaderInv(failed) /\ failed.read = reader[r].read
      /\ failed.part = [reader[r].part EXCEPT ![a] = FailedPart]
  BY <1>2, <1>3, PartTypes, PartChange DEF PartInv
<1>. HIDE DEF failed
<1>7. ASSUME NEW q \in Readers
      PROVE  /\ now(q) \in Reader /\ ReaderInv(now(q))
             /\ \A b \in Accounts :
                   /\ \A k \in Keys :
                         WaitsFor(now(q), b, k) /\ k # key <=>
                            WaitsFor(reader[q], b, k) /\ k # key
                   /\ now(q).part[b].at = "waiting" => now(q).part[b] = reader[q].part[b]
  <2>1. CASE q # r
    <3>1. now(q) = reader[q]  BY <2>1
    <3>. QED  BY <3>1, ReadersTyped
  <2>2. CASE q = r
    <3>1. now(q) = failed  BY <2>2
    <3>2. ASSUME NEW b \in Accounts
          PROVE  /\ \A k \in Keys : WaitsFor(failed, b, k) /\ k # key <=>
                                       WaitsFor(reader[r], b, k) /\ k # key
                 /\ failed.part[b].at = "waiting" => failed.part[b] = reader[r].part[b]
      <4>1. CASE b = a
        <5>1. failed.part[b].at = "failed"  BY <1>2, <1>6, <4>1, PartTypes
        <5>. QED  BY <4>1, <5>1 DEF WaitsFor
      <4>2. CASE b # a
        <5>1. failed.part[b] = reader[r].part[b]  BY <1>2, <1>6, <4>2
        <5>. QED  BY <1>6, <5>1 DEF WaitsFor
      <4>. QED  BY <4>1, <4>2
    <3>. QED  BY <1>6, <2>2, <3>1, <3>2
  <2>. QED  BY <2>1, <2>2
<1>. HIDE DEF key, now
<1>8. ASSUME NEW q \in Readers
      PROVE  /\ f[q] \in Reader /\ ReaderInv(f[q])
             /\ \A b \in Accounts :
                   /\ \A k \in Keys :
                         WaitsFor(f[q], b, k) <=> WaitsFor(reader[q], b, k) /\ k \notin {key}
                   /\ f[q].part[b].at = "waiting" =>
                         f[q].part[b].waited = reader[q].part[b].waited
  <2>1. /\ f[q] \in Reader /\ ReaderInv(f[q])
        /\ \A b \in Accounts :
              /\ \A k \in Keys :
                    WaitsFor(f[q], b, k) <=> WaitsFor(now(q), b, k) /\ k \notin {key}
              /\ f[q].part[b].at = "waiting" =>
                    f[q].part[b].waited = now(q).part[b].waited
    BY <1>5, <1>7, WaitsCancelled
  <2>. HIDE DEF f
  <2>2. ASSUME NEW b \in Accounts, f[q].part[b].at = "waiting"
        PROVE  f[q].part[b].waited = reader[q].part[b].waited
    <3>. DEFINE k == CallKey(f[q].read, b)
    <3>1. f[q].read \in ReadKinds  BY <2>1 DEF Reader
    <3>2. k \in Keys /\ WaitsFor(f[q], b, k)  BY <2>2, <3>1, KeyOfCall DEF WaitsFor
    <3>3. WaitsFor(now(q), b, k)  BY <2>1, <3>2
    <3>4. now(q).part[b] = reader[q].part[b]  BY <1>7, <3>3 DEF WaitsFor
    <3>. QED  BY <2>1, <2>2, <3>4
  <2>. QED  BY <1>7, <2>1, <2>2
<1>9. f \in [Readers -> Reader]  BY <1>8
<1>. HIDE DEF f
<1>. QED  BY <1>4, <1>5, <1>8, <1>9, CancelPreserves

\* A call joined or begun: the request waits for it from now on.
LEMMA Joined ==
    ASSUME IInv, NEW r \in Readers, NEW a \in Accounts,
           reader[r].pc = "reading", reader[r].part[a].at = "todo",
           flight[CallKey(reader[r].read, a)].at \in {"none", "open"},
           reader' = [reader EXCEPT ![r] = [reader[r] EXCEPT !.part =
              [reader[r].part EXCEPT ![a] = [reader[r].part[a] EXCEPT !.at = "waiting"]]]],
           flight' = IF flight[CallKey(reader[r].read, a)].at = "none"
                     THEN [flight EXCEPT ![CallKey(reader[r].read, a)] =
                             [at |-> "open", by |-> a, age |-> 0]]
                     ELSE flight,
           UNCHANGED <<stored, cache, mix>>
    PROVE  IInv'
<1>. DEFINE p == [reader[r].part[a] EXCEPT !.at = "waiting"]
            q == [reader[r] EXCEPT !.part = [reader[r].part EXCEPT ![a] = p]]
            key == CallKey(reader[r].read, a)
            begun == [at |-> "open", by |-> a, age |-> 0]
<1>1. /\ reader \in [Readers -> Reader] /\ reader[r] \in Reader /\ ReaderInv(reader[r])
      /\ reader[r].part \in [Accounts -> Part] /\ reader[r].part[a] \in Part
      /\ reader[r].read \in ReadKinds /\ flight \in [Keys -> Flight]
  BY ReadersTyped
<1>2. ReadingInv(reader[r])  BY <1>1 DEF ReaderInv
<1>3. p \in Part /\ p.at = "waiting" /\ p.waited = 0
  BY <1>1, <1>2 DEF Part, ReadingInv, PartInv
<1>. HIDE DEF p
<1>4. PartInv(reader[r], p)  BY <1>1, <1>3, Limits DEF PartInv
<1>5. /\ q \in Reader /\ ReaderInv(q) /\ q.read = reader[r].read
      /\ q.part = [reader[r].part EXCEPT ![a] = p]
  BY <1>1, <1>3, <1>4, PartChange
<1>6. key \in Keys  BY <1>1, KeyOfCall
<1>7. begun \in Flight /\ begun.at = "open" /\ begun.age = 0
  BY Limits DEF Flight
<1>8. /\ reader' = [reader EXCEPT ![r] = q]
      /\ flight' = IF flight[key].at = "none" THEN [flight EXCEPT ![key] = begun]
                   ELSE flight
      /\ flight[key].at \in {"none", "open"}
  BY DEF p
<1>. HIDE DEF q, begun, key
<1>9. \A o \in Readers : reader'[o] = IF o = r THEN q ELSE reader[o]  BY <1>1, <1>8
<1>10. /\ flight' \in [Keys -> Flight] /\ flight'[key].at = "open"
       /\ \A k \in Keys : k # key => flight'[k] = flight[k]
       /\ flight'[key] = flight[key] \/ flight'[key].age = 0
  <2>1. CASE flight[key].at = "none"  BY <1>1, <1>6, <1>7, <1>8, <2>1
  <2>2. CASE flight[key].at = "open"
    <3>1. flight' = flight  BY <1>8, <2>2
    <3>. QED  BY <1>1, <2>2, <3>1
  <2>. QED  BY <1>8, <2>1, <2>2
<1>11. TypeOK'  BY <1>1, <1>5, <1>8, <1>10 DEF IInv, TypeOK
<1>12. \A o \in Readers : ReaderInv(reader'[o])  BY <1>5, <1>9 DEF IInv
<1>13. \A b \in Accounts : q.part[b] = IF b = a THEN p ELSE reader[r].part[b]
  BY <1>1, <1>5
<1>14. ASSUME NEW o \in Readers, NEW b \in Accounts, NEW k \in Keys
       PROVE  /\ WaitsFor(reader'[o], b, k) =>
                    WaitsFor(reader[o], b, k) \/ (o = r /\ b = a /\ k = key)
              /\ WaitsFor(reader[o], b, k) =>
                    WaitsFor(reader'[o], b, k) /\ reader'[o].part[b] = reader[o].part[b]
  BY <1>5, <1>9, <1>13 DEF WaitsFor, key
<1>15. ASSUME NEW o \in Readers PROVE WaitersInv(o)'
  <2>1. ASSUME NEW b \in Accounts, NEW k \in Keys, WaitsFor(reader'[o], b, k)
        PROVE  flight'[k].at = "open"
    <3>1. CASE WaitsFor(reader[o], b, k)
      <4>1. flight[k].at = "open"  BY <3>1 DEF IInv, WaitersInv
      <4>. QED  BY <1>10, <4>1
    <3>2. CASE k = key  BY <1>10, <3>2
    <3>. QED  BY <1>14, <2>1, <3>1, <3>2
  <2>. QED  BY <2>1 DEF WaitersInv, WaitsFor
<1>16. ASSUME NEW k \in Keys, flight'[k].at = "open"
       PROVE  \E o \in Readers, b \in Accounts :
                 WaitsFor(reader'[o], b, k) /\ flight'[k].age <= reader'[o].part[b].waited
  <2>1. CASE flight'[k] = flight[k]
    <3>1. PICK o \in Readers, b \in Accounts :
             WaitsFor(reader[o], b, k) /\ flight[k].age <= reader[o].part[b].waited
      BY <1>16, <2>1 DEF IInv, FlightInv
    <3>. QED  BY <1>14, <2>1, <3>1
  <2>2. CASE k = key /\ flight'[k].age = 0
    <3>1. reader'[r] = q /\ q.part[a] = p  BY <1>9, <1>13
    <3>2. WaitsFor(q, a, k)  BY <1>3, <1>5, <2>2, <3>1 DEF WaitsFor, key
    <3>3. flight'[k].age <= q.part[a].waited  BY <1>3, <2>2, <3>1
    <3>. QED  BY <3>1, <3>2, <3>3
  <2>. QED  BY <1>10, <2>1, <2>2
<1>17. \A k \in Keys : FlightInv(k)'  BY <1>16 DEF FlightInv, WaitsFor
<1>18. \A i \in Slots : EntryInv(i)'  BY DEF IInv, EntryInv
<1>. QED  BY <1>11, <1>12, <1>15, <1>17, <1>18 DEF IInv

LEMMA CoalescePreserves ==
    ASSUME IInv, NEW r \in Readers, NEW a \in Accounts, Coalesce(r, a)
    PROVE  IInv'
<1>. DEFINE key == CallKey(reader[r].read, a)
<1>1. /\ reader \in [Readers -> Reader] /\ reader[r] \in Reader /\ ReaderInv(reader[r])
      /\ reader[r].part \in [Accounts -> Part] /\ reader[r].read \in ReadKinds
      /\ flight \in [Keys -> Flight] /\ key \in Keys
  BY ReadersTyped, KeyOfCall
<1>2. /\ reader[r].pc = "reading" /\ reader[r].part[a].at = "todo"
      /\ reader[r].read # "summary" =>
            \A b \in Accounts : reader[r].part[b].at # "waiting"
      /\ UNCHANGED <<stored, cache, mix>>
  BY DEF Coalesce, Asks
<1>3. CASE flight[key].at = "cancelled"
  <2>. DEFINE n == Cancelled(reader[r], {a})
  <2>1. reader' = [reader EXCEPT ![r] = n] /\ flight' = flight
    BY <1>1, <1>3 DEF Coalesce
  <2>2. /\ n \in Reader /\ ReaderInv(n)
        /\ reader[r].read = "summary" =>
              /\ n.read = "summary"
              /\ \A b \in Accounts :
                    n.part[b] = IF b \in {a} THEN LostPart ELSE reader[r].part[b]
        /\ reader[r].read # "summary" => n.part = NoParts
    <3>1. {a} \in SUBSET Accounts /\ {a} # {}  OBVIOUS
    <3>. QED  BY <1>1, <1>2, <3>1, LostOrInterrupted
  <2>. HIDE DEF n
  <2>3. ASSUME NEW b \in Accounts
        PROVE  /\ \A k \in Keys : WaitsFor(n, b, k) <=> WaitsFor(reader[r], b, k)
               /\ n.part[b].at = "waiting" =>
                     n.part[b].waited = reader[r].part[b].waited
    <3>1. CASE reader[r].read = "summary"
      <4>1. n.read = reader[r].read
            /\ n.part[b] = IF b \in {a} THEN LostPart ELSE reader[r].part[b]
        BY <2>2, <3>1
      <4>. QED  BY <1>2, <4>1, PartTypes DEF WaitsFor
    <3>2. CASE reader[r].read # "summary"
      <4>1. n.part[b].at = "none"  BY <2>2, <3>2, PartTypes DEF NoParts
      <4>. QED  BY <1>2, <3>2, <4>1 DEF WaitsFor
    <3>. QED  BY <3>1, <3>2
  <2>4. cache' \in [Slots -> Entry] /\ \A i \in Slots : EntryInv(i)'
    BY <1>2 DEF IInv, TypeOK, EntryInv
  <2>. QED  BY <1>2, <2>1, <2>2, <2>3, <2>4, OneReader
<1>4. CASE flight[key].at # "cancelled"
  <2>1. flight[key].at \in {"none", "open"}  BY <1>1, <1>4 DEF Flight
  <2>2. reader' = [reader EXCEPT ![r] = [reader[r] EXCEPT !.part =
           [reader[r].part EXCEPT ![a] = [reader[r].part[a] EXCEPT !.at = "waiting"]]]]
    BY <1>1, <1>4 DEF Coalesce
  <2>3. flight' = IF flight[key].at = "none"
                  THEN [flight EXCEPT ![key] = [at |-> "open", by |-> a, age |-> 0]]
                  ELSE flight
    BY DEF Coalesce
  <2>. QED  BY <1>2, <2>1, <2>2, <2>3, Joined
<1>. QED  BY <1>3, <1>4

\* What the callers of a call have once it has ended: a failure, or figures no
\* older than the call.
LEMMA OutcomeGiven ==
    ASSUME NEW q \in Reader, ReaderInv(q), NEW k \in Keys,
           NEW parts \in [Accounts -> Part],
           \A a \in Accounts : a \notin Waits(q, {k}) => parts[a] = q.part[a],
           \A a \in Waits(q, {k}) :
              /\ parts[a].at \in {"figures", "failed"}
              /\ parts[a].at = "figures" => parts[a].age <= LongestWait
    PROVE  LET n == [q EXCEPT !.part = parts]
           IN  /\ n \in Reader /\ ReaderInv(n)
               /\ \A a \in Accounts :
                     /\ \A j \in Keys : WaitsFor(n, a, j) <=> WaitsFor(q, a, j) /\ j # k
                     /\ n.part[a].at = "waiting" => n.part[a].waited = q.part[a].waited
<1>. DEFINE n == [q EXCEPT !.part = parts]
<1>1. /\ q.part \in [Accounts -> Part] /\ q.asked \in SUBSET Accounts
      /\ q.elapsed \in 0..Horizon
  BY DEF Reader
<1>3. n \in Reader /\ n.part = parts /\ n.read = q.read  BY DEF Reader
<1>4. ReaderInv(n)
  <2>1. CASE q.pc = "reading"
    <3>1. ReadingInv(q)  BY <2>1 DEF ReaderInv
    <3>2. ASSUME NEW a \in Accounts PROVE PartInv(q, parts[a])
      <4>1. CASE a \notin Waits(q, {k})  BY <3>1, <4>1 DEF ReadingInv
      <4>2. CASE a \in Waits(q, {k})
        <5>1. /\ parts[a].at \in {"figures", "failed"}
              /\ parts[a].at = "figures" => parts[a].age <= LongestWait
              /\ parts[a].age \in 0..Oldest
          BY <4>2 DEF Part
        <5>. QED  BY <1>1, <5>1, Limits DEF PartInv
      <4>. QED  BY <4>1, <4>2
    <3>3. q.read \in {"breakdown", "resources"} =>
             \A a \in q.asked : parts[a].at \notin {"none", "lost"}
      <4>1. ASSUME q.read \in {"breakdown", "resources"}, NEW a \in q.asked
            PROVE  parts[a].at \notin {"none", "lost"}
        <5>1. a \in Accounts /\ q.part[a].at \notin {"none", "lost"}
          BY <1>1, <3>1, <4>1 DEF ReadingInv
        <5>. QED  BY <5>1
      <4>. QED  BY <4>1
    <3>. HIDE DEF n
    <3>4. LET m == [q EXCEPT !.part = parts]
          IN  m \in Reader /\ ReaderInv(m) /\ m.part = parts /\ m.read = q.read
      BY <2>1, <3>2, <3>3, PartsChange
    <3>. QED  BY <3>4 DEF n
  <2>2. CASE q.pc # "reading"
    <3>1. \A a \in Accounts : q.part[a].at # "waiting"
      BY <2>2, PartTypes DEF ReaderInv, AnswerInv, NoParts
    <3>2. Waits(q, {k}) = {}  BY <3>1 DEF Waits
    <3>3. \A a \in Accounts : parts[a] = q.part[a]  BY <3>2
    <3>4. parts = q.part  BY <1>1, <3>3
    <3>5. n = q  BY <3>4 DEF Reader
    <3>. QED  BY <3>5
  <2>. QED  BY <2>1, <2>2
<1>. HIDE DEF n
<1>5. ASSUME NEW a \in Accounts
      PROVE  /\ \A j \in Keys : WaitsFor(n, a, j) <=> WaitsFor(q, a, j) /\ j # k
             /\ n.part[a].at = "waiting" => n.part[a].waited = q.part[a].waited
  <2>1. CASE a \in Waits(q, {k})
    <3>1. n.part[a].at \in {"figures", "failed"}  BY <1>3, <2>1
    <3>. QED  BY <2>1, <3>1 DEF Waits, WaitsFor
  <2>2. CASE a \notin Waits(q, {k})  BY <1>3, <2>2 DEF Waits, WaitsFor
  <2>. QED  BY <2>1, <2>2
<1>. QED  BY <1>3, <1>4, <1>5 DEF n

LEMMA CallEndsPreserves ==
    ASSUME IInv, NEW k \in Keys, CallEnds(k)
    PROVE  IInv'
<1>1. PICK outcome \in {"figures", "empty", "error"} :
         reader' = [r \in Readers |-> [reader[r] EXCEPT !.part =
             [a \in Accounts |->
                IF a \notin Waits(reader[r], {k}) THEN reader[r].part[a]
                ELSE IF \/ outcome = "error"
                        \/ /\ reader[r].read = "detail"
                           /\ (outcome = "empty" \/ flight[k].by # a)
                THEN FailedPart
                ELSE Figures(flight[k].by, flight[k].age)]]]
  BY DEF CallEnds
<1>2. /\ flight[k].at # "none" /\ flight' = [flight EXCEPT ![k] = NoFlight]
      /\ UNCHANGED <<stored, cache, mix>>
  BY DEF CallEnds
<1>. DEFINE fails(r, a) == \/ outcome = "error"
                           \/ /\ reader[r].read = "detail"
                              /\ (outcome = "empty" \/ flight[k].by # a)
            given == Figures(flight[k].by, flight[k].age)
            parts(r) == [a \in Accounts |->
                           IF a \notin Waits(reader[r], {k}) THEN reader[r].part[a]
                           ELSE IF fails(r, a) THEN FailedPart ELSE given]
            n(r) == [reader[r] EXCEPT !.part = parts(r)]
<1>3. flight \in [Keys -> Flight] /\ flight[k] \in Flight  BY DEF IInv, TypeOK
<1>4. /\ flight[k].by \in Accounts \cup {None}
      /\ flight[k].age \in 0..Oldest /\ flight[k].age \in Nat
  BY <1>3, Limits DEF Flight
<1>5. given \in Part /\ given.at = "figures" /\ given.age = flight[k].age
  BY <1>4, FiguresType
<1>. HIDE DEF fails, given
<1>6. ASSUME NEW r \in Readers, Waits(reader[r], {k}) # {} PROVE flight[k].age <= LongestWait
  <2>1. flight[k].at = "open"
    BY <1>6 DEF IInv, WaitersInv, Waits, WaitsFor
  <2>2. PICK o \in Readers, a \in Accounts :
           WaitsFor(reader[o], a, k) /\ flight[k].age <= reader[o].part[a].waited
    BY <2>1 DEF IInv, FlightInv
  <2>3. /\ ReaderInv(reader[o]) /\ reader[o].part[a] \in Part /\ reader[o].read \in ReadKinds
        /\ reader[o].part[a].at = "waiting"
    BY <2>2, ReadersTyped DEF WaitsFor
  <2>4. reader[o].pc = "reading"  BY <2>3, OnlyReadingWaits
  <2>5. reader[o].part[a].waited <= WaitLimit(reader[o].read)
        /\ reader[o].part[a].waited \in Nat
    BY <2>3, <2>4 DEF ReaderInv, ReadingInv, PartInv, Part
  <2>. QED  BY <1>4, <2>2, <2>3, <2>5, Limits
<1>7. ASSUME NEW r \in Readers
      PROVE  /\ n(r) \in Reader /\ ReaderInv(n(r))
             /\ \A a \in Accounts :
                   /\ \A j \in Keys : WaitsFor(n(r), a, j) <=> WaitsFor(reader[r], a, j) /\ j # k
                   /\ n(r).part[a].at = "waiting" =>
                         n(r).part[a].waited = reader[r].part[a].waited
  <2>1. reader[r] \in Reader /\ ReaderInv(reader[r]) /\ reader[r].part \in [Accounts -> Part]
    BY ReadersTyped
  <2>2. /\ parts(r) \in [Accounts -> Part]
        /\ \A a \in Accounts :
              a \notin Waits(reader[r], {k}) => parts(r)[a] = reader[r].part[a]
        /\ \A a \in Waits(reader[r], {k}) : parts(r)[a] \in {FailedPart, given}
    BY <1>5, <2>1, PartTypes DEF Waits
  <2>. HIDE DEF parts
  <2>3. \A a \in Waits(reader[r], {k}) :
           /\ parts(r)[a].at \in {"figures", "failed"}
           /\ parts(r)[a].at = "figures" => parts(r)[a].age <= LongestWait
    BY <1>5, <1>6, <2>2, PartTypes
  <2>. QED  BY <2>1, <2>2, <2>3, OutcomeGiven
<1>8. ASSUME NEW r \in Readers PROVE reader'[r] = n(r)
  BY <1>1 DEF fails, given
<1>9. reader' = [r \in Readers |-> reader'[r]]  BY <1>1
<1>. HIDE DEF n
<1>10. reader' \in [Readers -> Reader]  BY <1>7, <1>8, <1>9
<1>11. flight' \in [Keys -> Flight] /\ flight'[k] = NoFlight
       /\ \A j \in Keys : j # k => flight'[j] = flight[j]
  BY <1>2, <1>3, RestTypes
<1>12. TypeOK'  BY <1>2, <1>10, <1>11 DEF IInv, TypeOK
<1>13. /\ \A r \in Readers : WaitersInv(r)'
       /\ \A j \in Keys : FlightInv(j)'
  <2>1. \A j \in Keys : flight'[j] # flight[j] => flight'[j].at # "open"
    BY <1>11, RestTypes
  <2>2. \A q \in Readers, a \in Accounts, j \in Keys :
           WaitsFor(reader'[q], a, j) =>
              WaitsFor(reader[q], a, j) /\ flight'[j] = flight[j]
    BY <1>7, <1>8, <1>11
  <2>3. ASSUME NEW q \in Readers, NEW a \in Accounts, NEW j \in Keys,
               WaitsFor(reader[q], a, j), flight'[j] = flight[j]
        PROVE  /\ WaitsFor(reader'[q], a, j)
               /\ reader'[q].part[a].waited = reader[q].part[a].waited
    <3>1. j # k  BY <1>2, <1>11, <2>3, RestTypes
    <3>2. WaitsFor(reader'[q], a, j)  BY <1>7, <1>8, <2>3, <3>1
    <3>. QED  BY <1>7, <1>8, <3>2 DEF WaitsFor
  <2>. QED  BY <2>1, <2>2, <2>3, WaitsPreserved
<1>14. \A r \in Readers : ReaderInv(reader'[r])  BY <1>7, <1>8
<1>15. \A i \in Slots : EntryInv(i)'  BY <1>2 DEF IInv, EntryInv
<1>. QED  BY <1>12, <1>13, <1>14, <1>15 DEF IInv

LEMMA DeletePreserves ==
    ASSUME IInv, NEW a \in Deletable, delete_cloud_account(a)
    PROVE  IInv'
<1>1. TypeOK'  BY DEF IInv, TypeOK, delete_cloud_account
<1>. QED  BY <1>1 DEF IInv, delete_cloud_account, EntryInv, WaitersInv, FlightInv

-----------------------------------------------------------------------------
(* Time.                                                                   *)

LEMMA OlderPart ==
    ASSUME NEW p \in Part
    PROVE  /\ Older(p) \in Part /\ Older(p).at = p.at
           /\ p.at = "figures" => Older(p).age = Later(p.age, Oldest)
           /\ p.at \in {"waiting", "calling"} => Older(p).waited = Later(p.waited, Horizon)
           /\ p.at \notin {"figures", "waiting", "calling"} => Older(p) = p
<1>1. CASE p.at = "figures"
  <2>1. Older(p) = [p EXCEPT !.age = Later(p.age, Oldest)]  BY <1>1 DEF Older
  <2>2. Later(p.age, Oldest) \in 0..Oldest  BY Limits, LaterCounts DEF Part
  <2>. QED  BY <1>1, <2>1, <2>2 DEF Part
<1>2. CASE p.at \in {"waiting", "calling"}
  <2>1. Older(p) = [p EXCEPT !.waited = Later(p.waited, Horizon)]  BY <1>2 DEF Older
  <2>2. Later(p.waited, Horizon) \in 0..Horizon  BY Limits, LaterCounts DEF Part
  <2>. QED  BY <1>2, <2>1, <2>2 DEF Part
<1>3. CASE p.at \notin {"figures", "waiting", "calling"}  BY <1>3 DEF Older
<1>. QED  BY <1>1, <1>2, <1>3

\* A read grows older only while no wait of it is due.
LEMMA ReadGrowsOlder ==
    ASSUME NEW q \in Reader, ReaderInv(q), q.pc = "reading",
           \A a \in Accounts : q.part[a].at = "waiting" =>
              q.part[a].waited # WaitLimit(q.read)
    PROVE  LET n == [q EXCEPT !.elapsed = Later(q.elapsed, Horizon),
                              !.part = [a \in Accounts |-> Older(q.part[a])]]
           IN  /\ n \in Reader /\ ReaderInv(n) /\ n.read = q.read
               /\ n.part = [a \in Accounts |-> Older(q.part[a])]
<1>. DEFINE parts == [a \in Accounts |-> Older(q.part[a])]
            n == [q EXCEPT !.elapsed = Later(q.elapsed, Horizon), !.part = parts]
<1>1. /\ q.part \in [Accounts -> Part] /\ q.asked \in SUBSET Accounts
      /\ q.elapsed \in 0..Horizon /\ q.read \in ReadKinds /\ ReadingInv(q)
  BY DEF Reader, ReaderInv
<1>2. /\ n.elapsed = Later(q.elapsed, Horizon) /\ n.read = q.read
      /\ n.elapsed \in 0..Horizon
      /\ n.elapsed < Horizon => q.elapsed < Horizon /\ n.elapsed = q.elapsed + 1
  <2>1. /\ Later(q.elapsed, Horizon) \in 0..Horizon
        /\ Later(q.elapsed, Horizon) < Horizon =>
              q.elapsed < Horizon /\ Later(q.elapsed, Horizon) = q.elapsed + 1
    BY <1>1, Limits, LaterCounts
  <2>. QED  BY <2>1 DEF Reader
<1>3. ASSUME NEW a \in Accounts
      PROVE  /\ parts[a] \in Part /\ parts[a].at = q.part[a].at
             /\ PartInv(n, parts[a])
  <2>1. q.part[a] \in Part /\ PartInv(q, q.part[a])  BY <1>1 DEF ReadingInv
  <2>2. /\ q.part[a].age \in 0..Oldest /\ q.part[a].waited \in 0..Horizon
    BY <2>1 DEF Part
  <2>. HIDE DEF n
  <2>3. parts[a] = Older(q.part[a])  OBVIOUS
  <2>. HIDE DEF parts
  <2>4. parts[a] \in Part /\ parts[a].at = q.part[a].at  BY <2>1, <2>3, OlderPart
  <2>5. CASE q.part[a].at = "figures"
    <3>1. parts[a].age = Later(q.part[a].age, Oldest)  BY <2>1, <2>3, <2>5, OlderPart
    <3>2. parts[a].age <= q.part[a].age + 1 /\ parts[a].age \in Nat
      <4>1. /\ Later(q.part[a].age, Oldest) \in 0..Oldest
            /\ Later(q.part[a].age, Oldest) <= q.part[a].age + 1
        BY <2>2, Limits, LaterCounts
      <4>. QED  BY <3>1, <4>1
    <3>3. q.elapsed < Horizon => q.part[a].age <= q.elapsed + LongestWait
      BY <2>1, <2>5 DEF PartInv
    <3>4. n.elapsed < Horizon => parts[a].age <= n.elapsed + LongestWait
      BY <1>1, <1>2, <2>2, <3>2, <3>3, Limits
    <3>. QED  BY <2>4, <2>5, <3>4 DEF PartInv
  <2>6. CASE q.part[a].at = "waiting"
    <3>1. q.part[a].waited < WaitLimit(q.read) /\ WaitLimit(q.read) \in 1..LongestWait
      BY <1>1, <2>1, <2>2, <2>6, Limits DEF PartInv
    <3>2. parts[a].waited = Later(q.part[a].waited, Horizon)
      BY <2>1, <2>3, <2>6, OlderPart
    <3>3. parts[a].waited = q.part[a].waited + 1
      <4>1. q.part[a].waited < Horizon  BY <2>2, <3>1, Limits
      <4>2. Later(q.part[a].waited, Horizon) = q.part[a].waited + 1
        BY <2>2, <4>1, Limits, LaterCounts
      <4>. QED  BY <3>2, <4>2
    <3>4. parts[a].waited <= WaitLimit(q.read)  BY <2>2, <3>1, <3>3, Limits
    <3>. QED  BY <1>2, <2>4, <2>6, <3>4 DEF PartInv
  <2>7. CASE q.part[a].at = "calling"
    <3>1. parts[a].waited = Later(q.part[a].waited, Horizon)
      BY <2>1, <2>3, <2>7, OlderPart
    <3>2. parts[a].waited <= q.part[a].waited + 1 /\ parts[a].waited \in Nat
      <4>1. /\ Later(q.part[a].waited, Horizon) \in 0..Horizon
            /\ Later(q.part[a].waited, Horizon) <= q.part[a].waited + 1
        BY <2>2, Limits, LaterCounts
      <4>. QED  BY <3>1, <4>1
    <3>3. q.elapsed < Horizon => q.part[a].waited <= q.elapsed
      BY <2>1, <2>7 DEF PartInv
    <3>4. n.elapsed < Horizon => parts[a].waited <= n.elapsed
      BY <1>1, <1>2, <2>2, <3>2, <3>3, Limits
    <3>. QED  BY <2>4, <2>7, <3>4 DEF PartInv
  <2>8. CASE q.part[a].at \notin {"figures", "waiting", "calling"}
    <3>1. parts[a] = q.part[a]  BY <2>1, <2>3, <2>8, OlderPart
    <3>. QED  BY <2>1, <2>8, <3>1 DEF PartInv
  <2>. QED  BY <2>4, <2>5, <2>6, <2>7, <2>8
<1>4. parts \in [Accounts -> Part]  BY <1>3
<1>5. Later(q.elapsed, Horizon) \in 0..Horizon  BY <1>2
<1>. HIDE DEF parts
<1>6. /\ n \in Reader /\ n.part = parts /\ n.read = q.read /\ n.pc = "reading"
      /\ n.asked = q.asked /\ n.subject = q.subject
  BY <1>4, <1>5 DEF Reader
<1>. HIDE DEF n
<1>7. ReadingInv(n)
  <2>1. \A a \in Accounts : PartInv(n, n.part[a])  BY <1>3, <1>6
  <2>2. q.read \in {"breakdown", "resources"} =>
           \A a \in q.asked : parts[a].at \notin {"none", "lost"}
    BY <1>1, <1>3 DEF ReadingInv
  <2>. QED  BY <1>6, <2>1, <2>2 DEF ReadingInv
<1>8. ReaderInv(n)  BY <1>6, <1>7 DEF ReaderInv
<1>. QED  BY <1>6, <1>8 DEF n, parts

\* The figures of a kept entry grow older with it.
LEMMA EntryAges ==
    ASSUME IInv, NEW i \in Slots, cache' = [j \in Slots |-> Aging(cache[j])]
    PROVE  Aging(cache[i]) \in Entry /\ EntryInv(i)'
<1>. DEFINE entry == cache[i]
            parts == [a \in Accounts |-> Older(entry.part[a])]
            n == [entry EXCEPT !.age = entry.age + 1, !.part = parts]
<1>1. /\ entry \in Entry /\ entry.part \in [Accounts -> Part] /\ EntryInv(i)
      /\ entry.age \in 0..(TTL - 1) /\ entry.asked \in SUBSET Accounts
      /\ entry.elapsed \in 0..Horizon
  BY DEF IInv, TypeOK, Entry
<1>2. cache'[i] = Aging(entry)  OBVIOUS
<1>3. CASE ~entry.kept \/ entry.age + 1 = TTL
  <2>1. Aging(entry) = NoEntry  BY <1>3 DEF Aging
  <2>. QED  BY <1>2, <2>1, RestTypes DEF EntryInv
<1>4. CASE entry.kept /\ entry.age + 1 # TTL
  <2>1. Aging(entry) = n  BY <1>4 DEF Aging
  <2>2. \A a \in Accounts :
           /\ entry.part[a].at \notin {"todo", "waiting", "calling"}
           /\ entry.part[a].at = "figures" /\ entry.elapsed < Horizon =>
                 entry.part[a].age <= entry.age + entry.elapsed + LongestWait
    BY <1>1, <1>4 DEF EntryInv
  <2>3. entry.age + 1 \in 0..(TTL - 1) /\ entry.age \in Nat  BY <1>1, <1>4, Limits
  <2>4. ASSUME NEW a \in Accounts
        PROVE  /\ parts[a] \in Part /\ parts[a].at = entry.part[a].at
               /\ parts[a].at = "figures" /\ entry.elapsed < Horizon =>
                     parts[a].age <= entry.age + 1 + entry.elapsed + LongestWait
    <3>1. entry.part[a] \in Part /\ parts[a] = Older(entry.part[a])  BY <1>1
    <3>. HIDE DEF parts
    <3>2. CASE entry.part[a].at = "figures"
      <4>1. /\ entry.elapsed < Horizon =>
                  entry.part[a].age <= entry.age + entry.elapsed + LongestWait
            /\ entry.part[a].age \in 0..Oldest
        BY <2>2, <3>1, <3>2 DEF Part
      <4>2. /\ parts[a] \in Part /\ parts[a].at = "figures"
            /\ parts[a].age = Later(entry.part[a].age, Oldest)
        BY <3>1, <3>2, OlderPart
      <4>3. parts[a].age <= entry.part[a].age + 1 /\ parts[a].age \in Nat
        <5>1. /\ Later(entry.part[a].age, Oldest) \in 0..Oldest
              /\ Later(entry.part[a].age, Oldest) <= entry.part[a].age + 1
          BY <4>1, Limits, LaterCounts
        <5>. QED  BY <4>2, <5>1
      <4>. QED  BY <1>1, <2>3, <3>2, <4>1, <4>2, <4>3, Limits
    <3>3. CASE entry.part[a].at # "figures"
      <4>1. parts[a] = entry.part[a]  BY <2>2, <3>1, <3>3, OlderPart
      <4>. QED  BY <3>1, <3>3, <4>1
    <3>. QED  BY <3>2, <3>3
  <2>5. parts \in [Accounts -> Part]  BY <2>4
  <2>. HIDE DEF parts, entry
  <2>6. /\ n \in Entry /\ n.age = entry.age + 1 /\ n.part = parts
        /\ n.asked = entry.asked /\ n.elapsed = entry.elapsed
    BY <1>1, <2>3, <2>5 DEF Entry
  <2>. HIDE DEF n
  <2>7. \A a \in Accounts :
           /\ n.part[a].at \notin {"todo", "waiting", "calling"}
           /\ n.part[a].at = "figures" /\ n.elapsed < Horizon =>
                 n.part[a].age <= n.age + n.elapsed + LongestWait
    BY <2>2, <2>4, <2>6
  <2>8. i[1] = "breakdown" => \A a \in n.asked : n.part[a].at \in {"figures", "failed"}
    BY <1>1, <1>4, <2>4, <2>6 DEF EntryInv, entry
  <2>9. cache'[i] = n /\ Aging(cache[i]) = n  BY <1>2, <2>1 DEF entry
  <2>. QED  BY <2>6, <2>7, <2>8, <2>9 DEF EntryInv
<1>. QED  BY <1>3, <1>4

LEMMA TickPreserves ==
    ASSUME IInv, Tick
    PROVE  IInv'
<1>1. /\ cache' = [j \in Slots |-> Aging(cache[j])]
      /\ flight' = [k \in Keys |-> IF flight[k].at = "open"
                                   THEN [flight[k] EXCEPT !.age = Later(flight[k].age, Horizon)]
                                   ELSE flight[k]]
      /\ reader' = [r \in Readers |->
            IF reader[r].pc = "idle" THEN reader[r]
            ELSE [reader[r] EXCEPT !.elapsed = Later(reader[r].elapsed, Horizon),
                     !.part = [a \in Accounts |-> Older(reader[r].part[a])]]]
      /\ UNCHANGED <<stored, mix>>
  BY DEF Tick
<1>2. ASSUME NEW r \in Readers
      PROVE  /\ reader[r] \in Reader /\ ReaderInv(reader[r])
             /\ reader[r].part \in [Accounts -> Part]
             /\ reader[r].pc \in {"idle", "reading"}
             /\ reader[r].pc = "reading" =>
                   \A a \in Accounts : reader[r].part[a].at = "waiting" =>
                      reader[r].part[a].waited # WaitLimit(reader[r].read)
  <2>1. reader[r] \in Reader /\ ReaderInv(reader[r])
        /\ reader[r].part \in [Accounts -> Part]
    BY ReadersTyped
  <2>2. ~Busy(r)  BY DEF Tick
  <2>. QED  BY <2>1, <2>2 DEF Busy, Reader
<1>3. ASSUME NEW r \in Readers
      PROVE  /\ reader'[r] \in Reader /\ ReaderInv(reader'[r])
             /\ reader'[r].read = reader[r].read
             /\ \A a \in Accounts :
                   /\ reader'[r].part[a].at = reader[r].part[a].at
                   /\ reader[r].part[a].at = "waiting" =>
                         reader'[r].part[a].waited = Later(reader[r].part[a].waited, Horizon)
  <2>1. CASE reader[r].pc = "idle"
    <3>1. reader'[r] = reader[r]  BY <1>1, <2>1
    <3>2. \A a \in Accounts : reader[r].part[a].at # "waiting"
      BY <2>1, OnlyReadingWaits
    <3>. QED  BY <1>2, <3>1, <3>2
  <2>2. CASE reader[r].pc = "reading"
    <3>. DEFINE n == [reader[r] EXCEPT !.elapsed = Later(reader[r].elapsed, Horizon),
                         !.part = [a \in Accounts |-> Older(reader[r].part[a])]]
    <3>1. reader'[r] = n  BY <1>1, <2>2
    <3>2. /\ n \in Reader /\ ReaderInv(n) /\ n.read = reader[r].read
          /\ n.part = [a \in Accounts |-> Older(reader[r].part[a])]
      BY <1>2, <2>2, ReadGrowsOlder
    <3>. HIDE DEF n
    <3>3. ASSUME NEW a \in Accounts
          PROVE  /\ n.part[a].at = reader[r].part[a].at
                 /\ reader[r].part[a].at = "waiting" =>
                       n.part[a].waited = Later(reader[r].part[a].waited, Horizon)
      <4>1. n.part[a] = Older(reader[r].part[a]) /\ reader[r].part[a] \in Part
        BY <1>2, <3>2
      <4>. QED  BY <4>1, OlderPart
    <3>. QED  BY <3>1, <3>2, <3>3
  <2>. QED  BY <1>2, <2>1, <2>2
<1>4. reader' \in [Readers -> Reader]
  <2>1. reader' = [r \in Readers |-> reader'[r]]  BY <1>1
  <2>. QED  BY <1>3, <2>1
<1>5. ASSUME NEW k \in Keys
      PROVE  /\ flight[k] \in Flight /\ flight'[k].at = flight[k].at
             /\ flight[k].at = "open" => flight'[k].age = Later(flight[k].age, Horizon)
             /\ flight[k].at # "open" => flight'[k] = flight[k]
             /\ flight[k].age \in 0..Horizon
  <2>1. flight[k] \in Flight  BY DEF IInv, TypeOK
  <2>2. flight[k].age \in 0..Horizon  BY <2>1 DEF Flight
  <2>3. CASE flight[k].at = "open"
    <3>1. flight'[k] = [flight[k] EXCEPT !.age = Later(flight[k].age, Horizon)]  BY <1>1, <2>3
    <3>. QED  BY <2>1, <2>2, <2>3, <3>1 DEF Flight
  <2>4. CASE flight[k].at # "open"
    <3>1. flight'[k] = flight[k]  BY <1>1, <2>4
    <3>. QED  BY <2>1, <2>2, <2>4, <3>1
  <2>. QED  BY <2>3, <2>4
<1>6. \A r \in Readers, a \in Accounts, k \in Keys :
         WaitsFor(reader'[r], a, k) <=> WaitsFor(reader[r], a, k)
  BY <1>3 DEF WaitsFor
<1>7. ASSUME NEW k \in Keys, flight[k].at = "open"
      PROVE  \E r \in Readers, a \in Accounts :
                /\ WaitsFor(reader'[r], a, k)
                /\ flight'[k].age <= reader'[r].part[a].waited
  <2>1. PICK r \in Readers, a \in Accounts :
           WaitsFor(reader[r], a, k) /\ flight[k].age <= reader[r].part[a].waited
    BY <1>7 DEF IInv, FlightInv
  <2>2. reader[r].part[a] \in Part /\ reader[r].part[a].waited \in 0..Horizon
    BY <1>2 DEF Part
  <2>3. reader'[r].part[a].waited = Later(reader[r].part[a].waited, Horizon)
    BY <1>3, <2>1 DEF WaitsFor
  <2>4. Later(flight[k].age, Horizon) <= Later(reader[r].part[a].waited, Horizon)
    BY <1>5, <2>1, <2>2, Limits, LaterCounts
  <2>. QED  BY <1>5, <1>6, <1>7, <2>1, <2>3, <2>4
<1>8. ASSUME NEW k \in Keys PROVE flight'[k] \in Flight
  <2>1. CASE flight[k].at = "open"
    <3>1. flight'[k] = [flight[k] EXCEPT !.age = Later(flight[k].age, Horizon)]  BY <1>1, <2>1
    <3>2. Later(flight[k].age, Horizon) \in 0..Horizon  BY <1>5, Limits, LaterCounts
    <3>. QED  BY <1>5, <3>1, <3>2 DEF Flight
  <2>2. CASE flight[k].at # "open"  BY <1>5, <2>2
  <2>. QED  BY <2>1, <2>2
<1>9. flight' \in [Keys -> Flight]
  <2>1. flight' = [k \in Keys |-> flight'[k]]  BY <1>1
  <2>. QED  BY <1>8, <2>1
<1>10. /\ cache' \in [Slots -> Entry]
       /\ \A i \in Slots : EntryInv(i)'
  BY <1>1, EntryAges
<1>11. TypeOK'  BY <1>1, <1>4, <1>9, <1>10 DEF IInv, TypeOK
<1>12. ASSUME NEW r \in Readers PROVE WaitersInv(r)'
  <2>1. \A a \in Accounts, k \in Keys :
           WaitsFor(reader'[r], a, k) => flight'[k].at = "open"
    BY <1>5, <1>6 DEF IInv, WaitersInv
  <2>. QED  BY <2>1 DEF WaitersInv, WaitsFor
<1>13. ASSUME NEW k \in Keys PROVE FlightInv(k)'
  <2>1. flight'[k].at = "open" =>
           \E r \in Readers, a \in Accounts :
              WaitsFor(reader'[r], a, k) /\ flight'[k].age <= reader'[r].part[a].waited
    BY <1>5, <1>7
  <2>. QED  BY <2>1 DEF FlightInv, WaitsFor
<1>. QED  BY <1>3, <1>10, <1>11, <1>12, <1>13 DEF IInv

-----------------------------------------------------------------------------
(* The invariant, and what it says.                                        *)

LEMMA InitEstablishes == Init => IInv
<1>. SUFFICES ASSUME Init PROVE IInv
  OBVIOUS
<1>1. /\ stored = Accounts /\ mix \in Mixes
      /\ \A r \in Readers : reader[r] = IdleReader
      /\ \A i \in Slots : cache[i] = NoEntry
      /\ \A k \in Keys : flight[k] = NoFlight
  BY DEF Init
<1>2. TypeOK  BY RestTypes DEF Init, TypeOK
<1>3. \A a \in Accounts : IdleReader.part[a].at = "none"
  BY PartTypes DEF IdleReader, NoParts
<1>4. \A r \in Readers : ReaderInv(reader[r]) /\ WaitersInv(r)
  BY <1>1, <1>3, RestTypes DEF WaitersInv, WaitsFor
<1>5. \A i \in Slots : EntryInv(i)  BY <1>1, RestTypes DEF EntryInv
<1>6. \A k \in Keys : FlightInv(k)  BY <1>1, RestTypes DEF FlightInv
<1>. QED  BY <1>2, <1>4, <1>5, <1>6 DEF IInv

LEMMA NextPreserves == IInv /\ [Next]_vars => IInv'
<1>. SUFFICES ASSUME IInv, [Next]_vars PROVE IInv'
  OBVIOUS
<1>1. CASE UNCHANGED vars
  BY <1>1 DEF vars, IInv, TypeOK, EntryInv, WaitersInv, FlightInv
<1>2. ASSUME NEW r \in Readers, ReaderStep(r) PROVE IInv'
  BY <1>2, AdaptersPreserve, FallbackPreserves, RequestTimeoutPreserves, FinishPreserves,
     LeavePreserves, CallDirectlyPreserves, CoalescePreserves, GiveUpPreserves
     DEF ReaderStep
<1>3. ASSUME NEW r \in Readers, NEW i \in Slots, Hit(r, i) \/ Miss(r, i) PROVE IInv'
  BY <1>3, HitPreserves, MissPreserves
<1>. QED
  BY <1>1, <1>2, <1>3, DirectCallEndsPreserves, CallEndsPreserves, DeletePreserves,
     TickPreserves
     DEF Next

\* The inductive invariant holds throughout: whoever waits waits for an open call,
\* whoever began it waits at least as long as it is old, and figures are no older
\* than the read that got them, a wait and the age of their entry.
THEOREM CloudReadsInvariant == Spec => []IInv
BY InitEstablishes, NextPreserves, PTL DEF Spec

\* However many requests share calls, give up, outlive their clients or find an
\* account deleted: every read, call and cache entry keeps its shape
\* (expenses/service.py, resources/service.py, request_coalescing.py:107-142).
THEOREM ReadsTyped == Spec => []TypeOK
BY CloudReadsInvariant, PTL DEF IInv

\* The figures of every answer were asked for less than a lifetime, the time of the
\* read that got them and a wait before, for any lifetimes and timeouts and however
\* long that read took: Horizon, up to which its time is counted, is any number
\* (expenses/service.py:42-56, request_coalescing.py:87-112).
THEOREM FiguresRecent == Spec => []FiguresAreRecent
<1>1. IInv => FiguresAreRecent
  <2>. SUFFICES ASSUME IInv, NEW r \in Answers, NEW a \in Accounts,
                       reader[r].part[a].at = "figures", reader[r].elapsed < Horizon
                PROVE  reader[r].part[a].age < TTL + reader[r].elapsed + LongestWait
    BY DEF FiguresAreRecent
  <2>. QED  BY DEF IInv, Answers, ReaderInv, AnswerInv
<1>. QED  BY <1>1, CloudReadsInvariant, PTL

\* A breakdown, and a fresh list of resources, has the figures or the failure
\* of every account it asked, whichever waits were cancelled meanwhile
\* (expenses/service.py:306-345, resources/service.py:148-223).
THEOREM AccountsCounted == Spec => []EveryAccountCounted
<1>1. IInv => EveryAccountCounted
  <2>. SUFFICES ASSUME IInv, NEW r \in Answers,
                       \/ reader[r].read = "breakdown"
                       \/ reader[r].read = "resources" /\ reader[r].source = "live",
                       NEW a \in reader[r].asked
                PROVE  reader[r].part[a].at \in {"figures", "failed"}
    BY DEF EveryAccountCounted
  <2>. QED  BY DEF IInv, Answers, ReaderInv, AnswerInv
<1>. QED  BY <1>1, CloudReadsInvariant, PTL

=============================================================================
