----------------------------- MODULE DnsCacheProofs -----------------------------
(***************************************************************************)
(* The DNS cache of a session, for any keys, callers, servers, responses   *)
(* and capacities: the shared lookups and their limit, the cache and its   *)
(* capacity, and how long an answer is served from it.                     *)
(***************************************************************************)
EXTENDS DnsCache, FiniteSetTheorems, WellFoundedInduction, TLAPS

LookupRecords == [state : {"none", "loop", "query", "found", "failed"},
                  key : Keys, asked : 0..Servers, answers : Answers, cut : BOOLEAN]

CallerRecords == [pc : {"idle", "lock", "copy", "wait"}, key : Keys, now : Nat,
                  lookup : Ids \cup {0}, entry : Entries]

\* The types of the variables without the sizes of the two tables.
Types ==
  /\ clock \in Nat /\ calls \in 0..MaxCalls /\ interrupts \in 0..MaxInterrupts
  /\ cache \in [Keys -> Entries]
  /\ pending \in [Keys -> Ids \cup {0}]
  /\ lookups \in [Ids -> LookupRecords]
  /\ caller \in [Callers -> CallerRecords]
  /\ canceled \subseteq Callers /\ closed \in BOOLEAN

\* There may be more names than a cache ever holds.
Sizes ==
  /\ IsFiniteSet(Cached) /\ Cardinality(Cached) <= CacheCapacity
  /\ IsFiniteSet(Pending) /\ Cardinality(Pending) <= LookupCapacity

\* An entry expires no later than any record of its answer.
Current(e) == \A a \in e.answers : a.type \in {"A", "CNAME"} => e.expires <= e.stored + a.ttl

FreshInv ==
  /\ \A k \in Keys : Current(cache[k])
  /\ \A c \in Callers : caller[c].pc = "copy" =>
       Current(caller[c].entry) /\ caller[c].now < caller[c].entry.expires

\* A query is to a server that is left; an answer has an address.
StagesInv ==
  \A i \in Ids :
    /\ lookups[i].state = "query" => lookups[i].asked < Servers
    /\ lookups[i].state = "found" =>
         \E r \in Responses : Usable(r) /\ lookups[i].answers = r.answers

DnsInv ==
  Types /\ Sizes /\ OneLookupPerKey /\ SharedLookupSurvives /\ StagesInv /\ FreshInv
-----------------------------------------------------------------------------
\* The least TTL of a set of records exists.
LEMMA Minimum ==
  ASSUME NEW S, S \subseteq Nat, S # {}
  PROVE  Min(S) \in S /\ \A x \in S : Min(S) <= x
<1>1. PICK m \in S : \A x \in S : <<x, m>> \notin OpToRel(<, Nat)
  BY NatLessThanWellFounded, WFMin
<1>2. \A x \in S : m <= x
  <2>. SUFFICES ASSUME NEW x \in S, x < m PROVE FALSE
    OBVIOUS
  <2>1. <<x, m>> \in OpToRel(<, Nat)
    BY DEF OpToRel
  <2>. QED  BY <1>1, <2>1
<1>. QED  BY <1>2 DEF Min

\* What querySessionA returns as the TTL of an answer with an address.
LEMMA TTLBounds ==
  ASSUME NEW r \in Responses, Usable(r)
  PROVE  /\ TTL(r.answers) \in Nat
         /\ \A a \in r.answers : a.type \in {"A", "CNAME"} => TTL(r.answers) <= a.ttl
<1>. DEFINE S == {a.ttl : a \in {b \in r.answers : b.type \in {"A", "CNAME"}}}
<1>1. S \subseteq Nat
  BY DnsAssumption DEF Response
<1>2. S # {}
  BY DEF Usable, Addresses
<1>3. Min(S) \in S /\ \A x \in S : Min(S) <= x
  BY <1>1, <1>2, Minimum
<1>4. TTL(r.answers) = Min(S)
  BY DEF TTL
<1>. QED  BY <1>1, <1>3, <1>4

\* The values that stand for nothing have their types.
LEMMA NoValues ==
  /\ NoEntry \in Entries /\ Current(NoEntry) /\ NoEntry.expires = 0
  /\ NoLookup \in LookupRecords /\ NoLookup.state = "none"
  /\ NoCaller \in CallerRecords /\ NoCaller.pc = "idle" /\ NoCaller.lookup = 0
<1>1. NoEntry \in Entries /\ Current(NoEntry) /\ NoEntry.expires = 0
  BY DEF NoEntry, Entry, Entries, Answers, Current
<1>2. (CHOOSE k \in Keys : TRUE) \in Keys
  BY DnsAssumption
<1>3. NoLookup \in LookupRecords /\ NoLookup.state = "none"
  BY <1>2, DnsAssumption DEF NoLookup, Lookup, LookupRecords, Answers
<1>4. NoCaller \in CallerRecords /\ NoCaller.pc = "idle" /\ NoCaller.lookup = 0
  BY <1>1, <1>2 DEF NoCaller, Caller, CallerRecords
<1>. QED  BY <1>1, <1>3, <1>4

\* Below the limit there is a lookup to start: those under way have different
\* keys, each with an entry of its own in the pending table.
LEMMA FreeLookup ==
  ASSUME Types, Sizes, OneLookupPerKey, Cardinality(Pending) < LookupCapacity
  PROVE  \E i \in Ids : lookups[i] = NoLookup
<1>. SUFFICES ASSUME \A i \in Ids : lookups[i] # NoLookup PROVE FALSE
  OBVIOUS
<1>. DEFINE f == [i \in Ids |-> lookups[i].key]
<1>1. \A i \in Ids : f[i] \in Keys /\ pending[f[i]] = i /\ i # 0
  BY DEF Running, OneLookupPerKey, Types, LookupRecords, Ids
<1>2. f \in [Ids -> Pending]
  BY <1>1 DEF Pending
<1>. HIDE DEF f
<1>3. IsFiniteSet(Ids) /\ Cardinality(Ids) = LookupCapacity
  BY DnsAssumption, FS_Interval DEF Ids
<1>4. PICK i \in Ids, j \in Ids : i # j /\ f[i] = f[j]
  BY <1>2, <1>3, FS_PigeonHole DEF Sizes
<1>. QED  BY <1>1, <1>4
-----------------------------------------------------------------------------
\* A new session: nothing is cached, asked for or waited for.
LEMMA InitDnsInv == Init => DnsInv
<1>. SUFFICES ASSUME Init PROVE DnsInv
  OBVIOUS
<1>1. Types
  <2>1. 0 \in 0..MaxCalls /\ 0 \in 0..MaxInterrupts
    BY DnsAssumption
  <2>. QED  BY <2>1, NoValues DEF Init, Types
<1>2. Sizes
  <2>1. Cached = {} /\ Pending = {}
    BY DEF Init, Cached, Pending
  <2>. QED  BY <2>1, FS_EmptySet, DnsAssumption DEF Sizes
<1>3. OneLookupPerKey /\ SharedLookupSurvives /\ StagesInv /\ FreshInv
  BY NoValues DEF Init, OneLookupPerKey, SharedLookupSurvives, StagesInv, FreshInv, Running, Pending
<1>. QED  BY <1>1, <1>2, <1>3 DEF DnsInv

\* resolveIPv4 up to its look at the tables, from a hit of the cache to its end,
\* and its return from the wait: the tables and the lookups are left alone.
LEMMA CallInv ==
  ASSUME DnsInv, NEW c \in Callers,
         \/ Resolve(c) \/ FindClosed(c) \/ FromCache(c) \/ CopyAddresses(c) \/ WaitEnds(c)
         \/ CancelCaller(c)
  PROVE  DnsInv'
<1>. USE DEF DnsInv, session
<1>1. UNCHANGED <<clock, session, lookups>>
  BY DEF Resolve, FindClosed, FromCache, CopyAddresses, WaitEnds, CancelCaller
<1>2. calls' \in 0..MaxCalls /\ interrupts' \in 0..MaxInterrupts /\ canceled' \subseteq Callers
  BY DnsAssumption DEF Types, Resolve, FindClosed, FromCache, CopyAddresses, WaitEnds, CancelCaller,
        Interrupt, Return
<1>3. /\ \A d \in Callers : d # c => caller'[d] = caller[d]
      /\ caller' \in [Callers -> CallerRecords]
      /\ \/ caller'[c] = caller[c]
         \/ caller'[c].lookup = 0 /\ caller'[c].pc \in {"idle", "lock"}
         \/ /\ caller'[c].lookup = caller[c].lookup /\ caller'[c].key = caller[c].key
            /\ Current(caller'[c].entry) /\ caller'[c].now < caller'[c].entry.expires
  <2>1. CASE Resolve(c)
    <3>1. PICK k \in Keys : caller' = [caller EXCEPT ![c] = Caller("lock", k, clock)]
      BY <2>1 DEF Resolve
    <3>2. Caller("lock", k, clock) \in CallerRecords
      BY NoValues DEF Caller, CallerRecords, Types
    <3>. QED  BY <3>1, <3>2 DEF Types, Caller
  <2>2. CASE FindClosed(c) \/ CopyAddresses(c) \/ WaitEnds(c)
    <3>1. caller' = [caller EXCEPT ![c] = NoCaller]
      BY <2>2 DEF FindClosed, CopyAddresses, WaitEnds, Return
    <3>. QED  BY <3>1, NoValues DEF Types
  <2>3. CASE FromCache(c)
    <3>1. /\ caller' = [caller EXCEPT ![c] = [caller[c] EXCEPT !.pc = "copy",
                                                               !.entry = cache[caller[c].key]]]
          /\ caller[c].key \in Keys /\ cache[caller[c].key] \in Entries
          /\ caller[c].now < cache[caller[c].key].expires /\ Current(cache[caller[c].key])
      BY <2>3 DEF FromCache, Fresh, Cached, Types, FreshInv, CallerRecords
    <3>2. caller[c] \in CallerRecords
      BY DEF Types
    <3>. QED  BY <3>1, <3>2 DEF Types, CallerRecords
  <2>4. CASE CancelCaller(c)
    BY <2>4 DEF CancelCaller, Types
  <2>. QED  BY <2>1, <2>2, <2>3, <2>4
<1>4. Types'
  BY <1>1, <1>2, <1>3 DEF Types
<1>5. Sizes' /\ SharedLookupSurvives' /\ StagesInv'
  BY <1>1 DEF Sizes, Cached, Pending, SharedLookupSurvives, StagesInv
<1>6. OneLookupPerKey'
  BY <1>1, <1>3 DEF OneLookupPerKey, Pending, Running, Cached
<1>7. FreshInv'
  BY <1>1, <1>3 DEF FreshInv
<1>. QED  BY <1>4, <1>5, <1>6, <1>7

\* The goroutine of a lookup asks the servers one by one.
LEMMA QueryInv ==
  ASSUME DnsInv, NEW i \in Ids, LookupExpires(i) \/ BeginQuery(i) \/ EndQuery(i)
  PROVE  DnsInv'
<1>. USE DEF DnsInv, session, callers
<1>1. /\ UNCHANGED <<clock, session, caller, calls, canceled>>
      /\ interrupts' \in 0..MaxInterrupts
  BY DnsAssumption DEF LookupExpires, BeginQuery, EndQuery, Interrupt, Types
<1>2. lookups[i] \in LookupRecords /\ lookups[i] # NoLookup
  BY NoValues DEF LookupExpires, BeginQuery, EndQuery, Types
<1>3. PICK l \in LookupRecords :
        /\ lookups' = [lookups EXCEPT ![i] = l]
        /\ l.state # "none" /\ l.key = lookups[i].key
        /\ l.state = "query" => l.asked < Servers
        /\ l.state = "found" => \E r \in Responses : Usable(r) /\ l.answers = r.answers
        /\ l.state = "failed" => l.asked = Servers \/ l.cut \/ closed
  <2>1. CASE LookupExpires(i)
    <3>. DEFINE l == [lookups[i] EXCEPT !.cut = TRUE]
    <3>1. /\ lookups[i].state = "query" /\ lookups' = [lookups EXCEPT ![i] = l]
          /\ lookups[i].asked < Servers
      BY <1>2, <2>1 DEF LookupExpires, StagesInv, Types
    <3>2. l \in LookupRecords /\ l.state = "query" /\ l.key = lookups[i].key
          /\ l.asked = lookups[i].asked
      BY <1>2, <3>1 DEF LookupRecords
    <3>. QED  BY <3>1, <3>2
  <2>2. CASE BeginQuery(i)
    <3>. DEFINE s == IF LookupDone(i) \/ lookups[i].asked = Servers THEN "failed" ELSE "query"
                l == [lookups[i] EXCEPT !.state = s]
    <3>1. lookups' = [lookups EXCEPT ![i] = l]
      BY <1>2, <2>2 DEF BeginQuery, Types
    <3>2. /\ l \in LookupRecords /\ l.state = s /\ l.key = lookups[i].key
          /\ l.asked = lookups[i].asked /\ l.cut = lookups[i].cut
          /\ lookups[i].asked \in 0..Servers
      BY <1>2 DEF LookupRecords
    <3>. HIDE DEF l
    <3>3. CASE LookupDone(i) \/ lookups[i].asked = Servers
      BY <3>1, <3>2, <3>3 DEF LookupDone
    <3>4. CASE ~(LookupDone(i) \/ lookups[i].asked = Servers)
      <4>1. l.state = "query"
        BY <3>2, <3>4
      <4>2. lookups[i].asked < Servers
        BY <3>2, <3>4, DnsAssumption
      <4>. QED  BY <3>1, <3>2, <4>1, <4>2
    <3>. QED  BY <3>3, <3>4
  <2>3. CASE EndQuery(i)
    BY <1>2, <2>3, DnsAssumption DEF EndQuery, StagesInv, LookupRecords, Answers
  <2>. QED  BY <2>1, <2>2, <2>3
<1>4. Types' /\ Sizes' /\ FreshInv'
  BY <1>1, <1>3 DEF Types, Sizes, Cached, Pending, FreshInv
<1>5. StagesInv' /\ SharedLookupSurvives'
  BY <1>1, <1>3 DEF StagesInv, SharedLookupSurvives, Types
<1>6. OneLookupPerKey'
  <2>1. Running' = Running /\ \A j \in Ids : lookups'[j].key = lookups[j].key
    BY <1>2, <1>3, NoValues DEF Running, Types
  <2>. QED  BY <1>1, <2>1 DEF OneLookupPerKey, Pending, Cached, Types, Running
<1>. QED  BY <1>4, <1>5, <1>6
-----------------------------------------------------------------------------
\* A lookup that is started gets a free place, and the callers to come join it.
LEMMA Started ==
  ASSUME DnsInv, NEW c \in Callers, Join(c), MustStart(caller[c].key),
         Cardinality(Pending) < LookupCapacity
  PROVE  \E i \in Ids : /\ lookups[i] = NoLookup
                        /\ lookups' = [lookups EXCEPT ![i] = Lookup("loop", caller[c].key)]
                        /\ pending' = [pending EXCEPT ![caller[c].key] = i]
                        /\ caller' = [caller EXCEPT ![c] = Waiting(caller[c].key, i)]
                        /\ canceled' = canceled
<1>. DEFINE i == CHOOSE i \in Ids : lookups[i] = NoLookup
            k == caller[c].key
<1>1. i \in Ids /\ lookups[i] = NoLookup
  BY FreeLookup DEF DnsInv
<1>2. Cardinality(Pending) \in Nat
  BY FS_CardinalityType DEF DnsInv, Sizes
<1>3. /\ lookups' = [lookups EXCEPT ![i] = Lookup("loop", k)]
      /\ pending' = [pending EXCEPT ![k] = i]
      /\ caller' = [caller EXCEPT ![c] = Waiting(k, i)]
      /\ canceled' = canceled
  BY <1>2, DnsAssumption DEF Join
<1>. HIDE DEF i
<1>. QED  BY <1>1, <1>3

\* A caller without an answer joins the lookup of its key or starts one, within
\* the limit of lookups.
LEMMA JoinInv ==
  ASSUME DnsInv, NEW c \in Callers, Join(c) PROVE DnsInv'
<1>. USE DEF DnsInv
<1>. DEFINE k == caller[c].key
<1>1. /\ UNCHANGED <<clock, closed, calls, interrupts>>
      /\ k \in Keys /\ cache' = [cache EXCEPT ![k] = NoEntry]
  BY DEF Join, Types, CallerRecords
<1>2. /\ \A l \in Keys : cache'[l] = IF l = k THEN NoEntry ELSE cache[l]
      /\ cache' \in [Keys -> Entries] /\ Cached' = Cached \ {k}
  BY <1>1, NoValues DEF Types, Cached
<1>3. IsFiniteSet(Cached') /\ Cardinality(Cached') <= CacheCapacity
  <2>1. /\ IsFiniteSet(Cached') /\ Cardinality(Cached') <= Cardinality(Cached)
        /\ Cardinality(Cached) \in Nat /\ Cardinality(Cached') \in Nat
    BY <1>2, FS_Subset, FS_CardinalityType DEF Sizes
  <2>. QED  BY <2>1, DnsAssumption DEF Sizes
<1>4. \A l \in Keys : Current(cache'[l])
  BY <1>2, NoValues DEF FreshInv
<1>. HIDE DEF k
<1>5. CASE pending' = pending /\ lookups' = lookups
  <2>1. PICK r \in CallerRecords :
          /\ caller' = [caller EXCEPT ![c] = r] /\ canceled' \subseteq canceled
          /\ r.pc # "copy"
          /\ r.lookup # 0 => r.lookup = pending[k] /\ r.key = k
    <3>1. CASE Return(c)
      BY <3>1, NoValues DEF Return
    <3>2. CASE ~MustStart(k) /\ caller' = [caller EXCEPT ![c] = Waiting(k, pending[k])]
               /\ canceled' = canceled
      <4>1. /\ Waiting(k, pending[k]) \in CallerRecords /\ Waiting(k, pending[k]).pc = "wait"
            /\ Waiting(k, pending[k]).lookup = pending[k] /\ Waiting(k, pending[k]).key = k
        BY <1>1, NoValues DEF Waiting, Caller, CallerRecords, Types
      <4>. QED  BY <3>2, <4>1 DEF MustStart
    <3>3. ~(MustStart(k) /\ Cardinality(Pending) < LookupCapacity)
      <4>. SUFFICES ASSUME MustStart(k), Cardinality(Pending) < LookupCapacity PROVE FALSE
        OBVIOUS
      <4>1. PICK i \in Ids : pending' = [pending EXCEPT ![k] = i]
        BY Started DEF k
      <4>2. pending[k] = 0 /\ pending'[k] = i
        BY <1>1, <4>1 DEF MustStart, Types
      <4>. QED  BY <1>5, <4>2 DEF Ids
    <3>. QED  BY <3>1, <3>2, <3>3 DEF Join, k
  <2>2. Types' /\ Sizes'
    BY <1>1, <1>2, <1>3, <1>5, <2>1 DEF Types, Sizes, Pending
  <2>3. SharedLookupSurvives' /\ StagesInv'
    BY <1>1, <1>5 DEF SharedLookupSurvives, StagesInv
  <2>4. FreshInv'
    BY <1>4, <2>1 DEF FreshInv, Types
  <2>5. OneLookupPerKey'
    BY <1>1, <1>2, <1>5, <2>1 DEF OneLookupPerKey, Running, Pending, Types
  <2>. QED  BY <2>2, <2>3, <2>4, <2>5
<1>6. CASE MustStart(k) /\ Cardinality(Pending) < LookupCapacity
  <2>1. PICK i \in Ids : /\ lookups[i] = NoLookup
                         /\ lookups' = [lookups EXCEPT ![i] = Lookup("loop", k)]
                         /\ pending' = [pending EXCEPT ![k] = i]
                         /\ caller' = [caller EXCEPT ![c] = Waiting(k, i)]
                         /\ canceled' = canceled
    BY <1>6, Started DEF k
  <2>2. /\ Waiting(k, i) \in CallerRecords /\ Waiting(k, i).pc = "wait"
        /\ Waiting(k, i).lookup = i /\ Waiting(k, i).key = k
    BY <1>1, NoValues DEF Waiting, Caller, CallerRecords
  <2>3. /\ Lookup("loop", k) \in LookupRecords /\ Lookup("loop", k).state = "loop"
        /\ Lookup("loop", k).key = k
    BY <1>1, DnsAssumption DEF Lookup, LookupRecords, Answers
  <2>4. Types'
    BY <1>1, <1>2, <2>1, <2>2, <2>3 DEF Types
  <2>5. Sizes'
    <3>1. Pending' = Pending \cup {k} /\ k \notin Pending
      BY <1>1, <1>6, <2>1 DEF Pending, MustStart, Types, Ids
    <3>2. IsFiniteSet(Pending') /\ Cardinality(Pending') = Cardinality(Pending) + 1
      BY <3>1, FS_AddElement DEF Sizes
    <3>3. Cardinality(Pending) \in Nat
      BY FS_CardinalityType DEF Sizes
    <3>. QED  BY <1>3, <1>6, <3>2, <3>3, DnsAssumption DEF Sizes
  <2>6. SharedLookupSurvives' /\ StagesInv'
    BY <1>1, <2>1, <2>3 DEF SharedLookupSurvives, StagesInv, Types
  <2>7. FreshInv'
    BY <1>4, <2>1, <2>2 DEF FreshInv, Types
  <2>8. OneLookupPerKey'
    <3>1. Running' = Running \cup {i} /\ i \notin Running
      BY <2>1, <2>3, NoValues DEF Running, Types
    <3>2. \A j \in Running : lookups'[j] = lookups[j] /\ j # i
      BY <2>1, <3>1 DEF Types, Running
    <3>3. \A l \in Keys : pending'[l] = IF l = k THEN i ELSE pending[l]
      BY <1>1, <2>1 DEF Types
    <3>4. \A j \in Running : lookups[j].key # k
      BY <1>6 DEF OneLookupPerKey, MustStart, Running, Ids
    <3>5. \A l \in Pending' : /\ pending'[l] \in Running' /\ lookups'[pending'[l]].key = l
                              /\ l \notin Cached'
      BY <1>2, <2>1, <2>3, <3>1, <3>2, <3>3 DEF OneLookupPerKey, Pending, Types
    <3>6. \A j \in Running' : pending'[lookups'[j].key] = j
      BY <2>1, <2>3, <3>1, <3>2, <3>3, <3>4 DEF OneLookupPerKey, Types, Running, LookupRecords
    <3>7. \A d \in Callers : caller'[d].lookup # 0 =>
            caller'[d].lookup \in Running' /\ lookups'[caller'[d].lookup].key = caller'[d].key
      BY <2>1, <2>2, <2>3, <3>1, <3>2 DEF OneLookupPerKey, Types
    <3>. QED  BY <3>5, <3>6, <3>7 DEF OneLookupPerKey
  <2>. QED  BY <2>4, <2>5, <2>6, <2>7, <2>8
<1>7. (pending' = pending /\ lookups' = lookups)
      \/ (MustStart(k) /\ Cardinality(Pending) < LookupCapacity)
  BY DEF Join, k
<1>. QED  BY <1>5, <1>6, <1>7
-----------------------------------------------------------------------------
\* A lookup that is over leaves the table, and nobody waits for it any more.
LEMMA WakeIs ==
  ASSUME DnsInv, NEW i \in Ids, lookups[i].state \in {"found", "failed"}, Wake(i)
  PROVE  /\ lookups[i].key \in Pending /\ pending[lookups[i].key] = i
         /\ lookups' \in [Ids -> LookupRecords] /\ pending' \in [Keys -> Ids \cup {0}]
         /\ caller' \in [Callers -> CallerRecords]
         /\ \A j \in Ids : lookups'[j] = IF j = i THEN NoLookup ELSE lookups[j]
         /\ \A l \in Keys : pending'[l] = IF l = lookups[i].key THEN 0 ELSE pending[l]
         /\ \A d \in Callers :
              /\ caller'[d].lookup = IF caller[d].lookup = i THEN 0 ELSE caller[d].lookup
              /\ caller'[d].pc = caller[d].pc /\ caller'[d].key = caller[d].key
              /\ caller'[d].now = caller[d].now /\ caller'[d].entry = caller[d].entry
<1>. USE DEF DnsInv
<1>1. i \in Running /\ i # 0 /\ lookups[i].key \in Keys
  BY NoValues DEF Running, Ids, Types, LookupRecords
<1>2. pending[lookups[i].key] = i /\ lookups[i].key \in Pending
  BY <1>1 DEF OneLookupPerKey, Pending
<1>3. /\ lookups' \in [Ids -> LookupRecords] /\ pending' \in [Keys -> Ids \cup {0}]
      /\ \A j \in Ids : lookups'[j] = IF j = i THEN NoLookup ELSE lookups[j]
      /\ \A l \in Keys : pending'[l] = IF l = lookups[i].key THEN 0 ELSE pending[l]
  BY NoValues DEF Wake, Types
<1>4. ASSUME NEW d \in Callers
      PROVE  /\ caller'[d] \in CallerRecords
             /\ caller'[d].lookup = IF caller[d].lookup = i THEN 0 ELSE caller[d].lookup
             /\ caller'[d].pc = caller[d].pc /\ caller'[d].key = caller[d].key
             /\ caller'[d].now = caller[d].now /\ caller'[d].entry = caller[d].entry
  <2>1. caller[d] \in CallerRecords
    BY DEF Types
  <2>2. caller'[d] = IF caller[d].lookup = i THEN [caller[d] EXCEPT !.lookup = 0] ELSE caller[d]
    BY DEF Wake
  <2>. QED  BY <2>1, <2>2 DEF CallerRecords
<1>5. caller' \in [Callers -> CallerRecords]
  <2>1. caller' = [d \in Callers |-> caller'[d]]
    BY DEF Wake
  <2>. QED  BY <1>4, <2>1
<1>. QED  BY <1>2, <1>3, <1>4, <1>5

\* The lookups after Wake, if no key that is still asked for is cached.
LEMMA WakeInv ==
  ASSUME DnsInv, NEW i \in Ids, lookups[i].state \in {"found", "failed"}, Wake(i),
         closed' = closed,
         \A l \in Keys : l # lookups[i].key /\ l \in Cached' => l \in Cached
  PROVE  /\ OneLookupPerKey' /\ SharedLookupSurvives' /\ StagesInv'
         /\ IsFiniteSet(Pending') /\ Cardinality(Pending') <= LookupCapacity
<1>. USE DEF DnsInv
<1>. DEFINE k == lookups[i].key
<1>1. Running' = Running \ {i}
  BY WakeIs DEF Running
<1>2. Pending' = Pending \ {k}
  BY WakeIs DEF Pending
<1>3. IsFiniteSet(Pending') /\ Cardinality(Pending') <= LookupCapacity
  <2>1. /\ IsFiniteSet(Pending') /\ Cardinality(Pending') <= Cardinality(Pending)
        /\ Cardinality(Pending) \in Nat /\ Cardinality(Pending') \in Nat
    BY <1>2, FS_Subset, FS_CardinalityType DEF Sizes
  <2>. QED  BY <2>1, DnsAssumption DEF Sizes
<1>4. SharedLookupSurvives' /\ StagesInv'
  BY WakeIs, NoValues DEF SharedLookupSurvives, StagesInv
<1>5. ASSUME NEW l \in Pending'
      PROVE  /\ pending'[l] \in Running' /\ lookups'[pending'[l]].key = l
             /\ l \notin Cached'
  <2>1. l \in Pending /\ l \in Keys /\ l # k
    BY <1>2, <1>5 DEF Pending
  <2>2. pending'[l] = pending[l] /\ pending[l] \in Running /\ lookups[pending[l]].key = l
    BY <2>1, WakeIs DEF OneLookupPerKey
  <2>3. pending[l] # i /\ pending[l] \in Ids
    BY <2>1, <2>2 DEF Running
  <2>. QED  BY <1>1, <2>1, <2>2, <2>3, WakeIs DEF OneLookupPerKey
<1>6. ASSUME NEW j \in Running' PROVE pending'[lookups'[j].key] = j
  <2>1. j \in Running /\ j # i /\ j \in Ids
    BY <1>1, <1>6 DEF Running
  <2>2. pending[lookups[j].key] = j /\ lookups[j].key \in Keys /\ lookups'[j] = lookups[j]
    BY <2>1, WakeIs DEF OneLookupPerKey, Types, LookupRecords
  <2>. QED  BY <2>1, <2>2, WakeIs
<1>7. ASSUME NEW d \in Callers, caller'[d].lookup # 0
      PROVE  caller'[d].lookup \in Running' /\ lookups'[caller'[d].lookup].key = caller'[d].key
  <2>1. caller'[d].lookup = caller[d].lookup /\ caller[d].lookup # i /\ caller'[d].key = caller[d].key
    BY <1>7, WakeIs
  <2>2. caller[d].lookup \in Running /\ lookups[caller[d].lookup].key = caller[d].key
    BY <1>7, <2>1 DEF OneLookupPerKey
  <2>. QED  BY <1>1, <2>1, <2>2, WakeIs DEF Running
<1>8. OneLookupPerKey'
  BY <1>5, <1>6, <1>7 DEF OneLookupPerKey
<1>. QED  BY <1>3, <1>4, <1>8

\* The end of a lookup without an answer.
LEMMA StoreErrorInv ==
  ASSUME DnsInv, NEW i \in Ids, StoreError(i) PROVE DnsInv'
<1>. USE DEF DnsInv
<1>1. /\ UNCHANGED <<clock, cache, closed, calls, canceled, interrupts>>
      /\ lookups[i].state \in {"found", "failed"} /\ Wake(i)
  BY DEF StoreError
<1>2. Cached' = Cached
  BY <1>1 DEF Cached
<1>3. /\ OneLookupPerKey' /\ SharedLookupSurvives' /\ StagesInv'
      /\ IsFiniteSet(Pending') /\ Cardinality(Pending') <= LookupCapacity
  BY <1>1, <1>2, WakeInv
<1>4. Types' /\ FreshInv'
  BY <1>1, WakeIs DEF Types, FreshInv
<1>. QED  BY <1>2, <1>3, <1>4 DEF Sizes

\* The end of a lookup with an answer: the cache gets an entry for the key that is
\* no older than any of its records, and keeps its capacity.
LEMMA StoreAnswerInv ==
  ASSUME DnsInv, NEW i \in Ids, StoreAnswer(i) PROVE DnsInv'
<1>. USE DEF DnsInv
<1>. DEFINE k == lookups[i].key
            ttl == TTL(lookups[i].answers)
            new == Entry(lookups[i].answers, clock + ttl, clock)
<1>1. /\ UNCHANGED <<clock, closed, calls, canceled, interrupts>>
      /\ lookups[i].state \in {"found", "failed"} /\ Wake(i)
  BY DEF StoreAnswer
<1>2. new \in Entries /\ Current(new)
  <2>1. PICK r \in Responses : Usable(r) /\ lookups[i].answers = r.answers
    BY DEF StoreAnswer, StagesInv
  <2>2. /\ ttl \in Nat /\ lookups[i].answers \in Answers
        /\ \A a \in lookups[i].answers : a.type \in {"A", "CNAME"} => ttl <= a.ttl
    BY <2>1, TTLBounds DEF Answers
  <2>3. \A a \in lookups[i].answers : a.ttl \in Nat
    BY <2>1, DnsAssumption DEF Response
  <2>4. clock \in Nat
    BY DEF Types
  <2>. HIDE DEF ttl
  <2>. QED  BY <2>2, <2>3, <2>4 DEF Entry, Entries, Current
<1>3. cache' \in [Keys -> Entries] /\ \A l \in Keys : Current(cache'[l])
  <2>1. CASE cache' = cache
    BY <2>1 DEF Types, FreshInv
  <2>2. ASSUME NEW victims, cache' = [l \in Keys |-> IF l = k THEN new
                                      ELSE IF l \in Live \ victims THEN cache[l] ELSE NoEntry]
        PROVE  cache' \in [Keys -> Entries] /\ \A l \in Keys : Current(cache'[l])
    <3>. HIDE DEF new, k
    <3>1. \A l \in Keys : /\ cache'[l] \in {new, cache[l], NoEntry}
                          /\ cache[l] \in Entries /\ Current(cache[l])
      BY <2>2 DEF Types, FreshInv
    <3>2. cache' = [l \in Keys |-> cache'[l]]
      BY <2>2
    <3>. QED  BY <1>2, <3>1, <3>2, NoValues
  <2>. QED  BY <2>1, <2>2 DEF StoreAnswer
<1>4. /\ IsFiniteSet(Cached') /\ Cardinality(Cached') <= CacheCapacity
      /\ Cached' \subseteq Cached \cup {k}
  <2>1. CASE cache' = cache
    BY <2>1 DEF Cached, Sizes
  <2>2. ASSUME NEW victims \in Victims,
               cache' = [l \in Keys |-> IF l = k THEN new
                         ELSE IF l \in Live \ victims THEN cache[l] ELSE NoEntry]
        PROVE  /\ IsFiniteSet(Cached') /\ Cardinality(Cached') <= CacheCapacity
               /\ Cached' \subseteq Cached \cup {k}
    <3>. HIDE DEF new, k
    <3>. DEFINE Kept == Live \ victims
    <3>1. Live \subseteq Cached /\ IsFiniteSet(Live) /\ Cardinality(Live) \in Nat
          /\ Cardinality(Live) <= Cardinality(Cached) /\ Cardinality(Cached) \in Nat
      <4>1. Live \subseteq Cached
        BY DEF Live
      <4>. QED  BY <4>1, FS_Subset, FS_CardinalityType DEF Sizes
    <3>2. /\ IsFiniteSet(Kept) /\ Cardinality(Kept) \in Nat /\ Cardinality(Kept) + 1 <= CacheCapacity
      <4>1. CASE Cardinality(Live) < CacheCapacity
        <5>1. Kept = Live
          BY <4>1 DEF Victims
        <5>. QED  BY <3>1, <4>1, <5>1, DnsAssumption
      <4>2. CASE ~(Cardinality(Live) < CacheCapacity)
        <5>1. PICK v \in Live : victims = {v}
          BY <4>2 DEF Victims
        <5>2. IsFiniteSet(Kept) /\ Cardinality(Kept) = Cardinality(Live) - 1
          BY <3>1, <5>1, FS_RemoveElement
        <5>3. Cardinality(Kept) \in Nat
          BY <5>2, FS_CardinalityType
        <5>. QED  BY <3>1, <5>2, <5>3, DnsAssumption DEF Sizes
      <4>. QED  BY <4>1, <4>2
    <3>3. Cached' \subseteq Kept \cup {k}
      BY <2>2 DEF Cached
    <3>4. /\ IsFiniteSet(Kept \cup {k}) /\ Cardinality(Kept \cup {k}) \in Nat
          /\ Cardinality(Kept \cup {k}) <= Cardinality(Kept) + 1
      <4>. HIDE DEF Kept
      <4>1. /\ IsFiniteSet(Kept \cup {k})
            /\ Cardinality(Kept \cup {k}) = IF k \in Kept THEN Cardinality(Kept)
                                            ELSE Cardinality(Kept) + 1
        BY <3>2, FS_AddElement
      <4>. QED  BY <3>2, <4>1
    <3>5. /\ IsFiniteSet(Cached') /\ Cardinality(Cached') <= Cardinality(Kept \cup {k})
          /\ Cardinality(Cached') \in Nat
      BY <3>3, <3>4, FS_Subset, FS_CardinalityType
    <3>6. Cardinality(Cached') <= CacheCapacity
      <4>. HIDE DEF Kept
      <4>. QED  BY <3>2, <3>4, <3>5, DnsAssumption
    <3>. QED  BY <3>1, <3>3, <3>5, <3>6
  <2>. QED  BY <2>1, <2>2 DEF StoreAnswer
<1>5. /\ OneLookupPerKey' /\ SharedLookupSurvives' /\ StagesInv'
      /\ IsFiniteSet(Pending') /\ Cardinality(Pending') <= LookupCapacity
  BY <1>1, <1>4, WakeInv
<1>6. Types' /\ FreshInv'
  BY <1>1, <1>3, WakeIs DEF Types, FreshInv
<1>. QED  BY <1>4, <1>5, <1>6 DEF Sizes
-----------------------------------------------------------------------------
\* The invariant of the cache.
LEMMA DnsInvariant == Spec => []DnsInv
<1>. USE DEF DnsInv, session, callers, vars
<1>1. ASSUME DnsInv, UNCHANGED <<session, lookups, caller, canceled>>,
             clock' \in Nat, calls' = calls, interrupts' = interrupts
      PROVE  DnsInv'
  BY <1>1 DEF Types, Sizes, OneLookupPerKey, SharedLookupSurvives, StagesInv, FreshInv, Cached,
              Pending, Running
<1>2. ASSUME DnsInv, UNCHANGED vars PROVE DnsInv'
  BY <1>1, <1>2 DEF Types
<1>3. ASSUME DnsInv, Tick PROVE DnsInv'
  <2>1. clock' \in Nat
    BY <1>3 DEF Tick, Types
  <2>. QED  BY <1>1, <1>3, <2>1 DEF Tick
<1>4. ASSUME DnsInv, Close PROVE DnsInv'
  <2>1. /\ UNCHANGED <<clock, cache, pending, lookups, caller, calls, canceled>> /\ closed' = TRUE
        /\ interrupts' \in 0..MaxInterrupts
    BY <1>4, DnsAssumption DEF Close, Interrupt, Types
  <2>. QED  BY <1>4, <2>1 DEF Types, Sizes, OneLookupPerKey, SharedLookupSurvives, StagesInv,
                              FreshInv, Cached, Pending, Running
<1>5. DnsInv /\ [Next]_vars => DnsInv'
  BY <1>2, <1>3, <1>4, CallInv, JoinInv, QueryInv, StoreAnswerInv, StoreErrorInv
     DEF Next, CallerStep, LookupStep, AtRest
<1>. QED  BY InitDnsInv, <1>5, PTL DEF Spec

\* Every variable keeps its type, and the cache and the table of lookups their
\* capacities, however many names are asked for.
THEOREM TypeCorrect == Spec => []TypeOK
<1>1. DnsInv => TypeOK
  BY DEF DnsInv, Types, Sizes, TypeOK, LookupRecords, CallerRecords
<1>. QED  BY <1>1, DnsInvariant, PTL

\* Concurrent callers of a key share one lookup, and wait for a lookup of their
\* own key that is under way.
THEOREM SharesLookups == Spec => []OneLookupPerKey
<1>1. DnsInv => OneLookupPerKey
  BY DEF DnsInv
<1>. QED  BY <1>1, DnsInvariant, PTL

\* Nobody is served an address that had outlived a record of its answer.
THEOREM ServesFresh == Spec => []AnswersFresh
<1>1. ASSUME DnsInv, NEW c \in Callers, caller[c].pc = "copy",
             NEW a \in caller[c].entry.answers, a.type \in {"A", "CNAME"}
      PROVE  caller[c].now < caller[c].entry.stored + a.ttl
  <2>1. /\ caller[c].now < caller[c].entry.expires
        /\ caller[c].entry.expires <= caller[c].entry.stored + a.ttl
    BY <1>1 DEF DnsInv, FreshInv, Current
  <2>2. /\ caller[c].now \in Nat /\ caller[c].entry \in Entries
        /\ caller[c].entry.expires \in Nat /\ caller[c].entry.stored \in Nat
    BY <1>1 DEF DnsInv, Types, CallerRecords, Entries
  <2>3. a.ttl \in Nat
    BY <1>1, <2>2, DnsAssumption DEF Entries, Answers, Response
  <2>. QED  BY <2>1, <2>2, <2>3
<1>2. DnsInv => AnswersFresh
  BY <1>1 DEF AnswersFresh
<1>. QED  BY <1>2, DnsInvariant, PTL

\* A caller that gives up does not abort the lookup it shares with others.
THEOREM LookupsSurvive == Spec => []SharedLookupSurvives
<1>1. DnsInv => SharedLookupSurvives
  BY DEF DnsInv
<1>. QED  BY <1>1, DnsInvariant, PTL
=============================================================================
