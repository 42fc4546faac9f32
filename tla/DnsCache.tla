------------------------------ MODULE DnsCache ------------------------------
(***************************************************************************)
(* Name resolution through one VPN session (internal/vpn/dns_cache.go and  *)
(* dns.go): a cache, and lookups that concurrent callers share.            *)
(*                                                                         *)
(* A section under dnsSession.mu is one step.  A key is a host name with   *)
(* its list of servers; addresses are the answer they were taken from.     *)
(***************************************************************************)
EXTENDS Naturals, FiniteSets, FiniteSetsExt

CONSTANTS
  Keys, Callers,
  Servers,         \* how many servers the settings list
  Responses,       \* what a server can answer (see Response)
  CacheCapacity,   \* dnsCacheCapacity, 256
  LookupCapacity,  \* dnsLookupCapacity, 64
  MaxTime,         \* bound on the clock
  MaxCalls,        \* bound on the calls of resolveIPv4
  MaxInterrupts    \* bound on cancelled calls, expired lookups and Close

\* A message that passed or failed the checks on its header and question, with
\* its answer records.
Response == [valid : BOOLEAN, answers : SUBSET [type : {"A", "CNAME", "other"}, ttl : Nat]]

ASSUME DnsAssumption ==
  /\ Keys # {} /\ Responses \subseteq Response
  /\ CacheCapacity \in Nat \ {0} /\ LookupCapacity \in Nat \ {0}
  /\ Servers \in Nat /\ MaxTime \in Nat /\ MaxCalls \in Nat
  /\ MaxInterrupts \in Nat

VARIABLES
  clock,
  cache,        \* dnsSession.cache: answer, expiry and (history) time of each entry
  pending,      \* dnsSession.pending: the lookup under way for each key
  lookups,      \* the dnsLookups under way, each with its goroutine
  caller,       \* where each caller is, with its key, time and lookup
  calls,
  canceled,     \* callers whose context is cancelled
  closed,       \* the context of the session is cancelled
  interrupts

session == <<cache, pending, closed>>
callers == <<caller, calls, canceled, interrupts>>
vars == <<clock, session, lookups, callers>>

Ids == 1..LookupCapacity
Entry(answers, expires, t) == [answers |-> answers, expires |-> expires, stored |-> t]
NoEntry == Entry({}, 0, 0)
Cached == {k \in Keys : cache[k] # NoEntry}
Pending == {k \in Keys : pending[k] # 0}

Lookup(s, k) ==
  [state |-> s, key |-> k, asked |-> 0, answers |-> {}, cut |-> FALSE]
NoLookup == Lookup("none", CHOOSE k \in Keys : TRUE)

Caller(p, k, t) == [pc |-> p, key |-> k, now |-> t, lookup |-> 0, entry |-> NoEntry]
Waiting(k, i) == [Caller("wait", k, 0) EXCEPT !.lookup = i]
NoCaller == Caller("idle", CHOOSE k \in Keys : TRUE, 0)

Init ==
  /\ clock = 0 /\ calls = 0 /\ interrupts = 0
  /\ cache = [k \in Keys |-> NoEntry] /\ pending = [k \in Keys |-> 0]
  /\ lookups = [i \in Ids |-> NoLookup]
  /\ caller = [c \in Callers |-> NoCaller]
  /\ canceled = {} /\ closed = FALSE
-----------------------------------------------------------------------------
(* resolveIPv4.                                                             *)

\* The time is read before the mutex is taken.
Resolve(c) ==
  /\ caller[c].pc = "idle" /\ calls < MaxCalls
  /\ \E k \in Keys : caller' = [caller EXCEPT ![c] = Caller("lock", k, clock)]
  /\ calls' = calls + 1
  /\ UNCHANGED <<clock, session, lookups, canceled, interrupts>>

Return(c) == caller' = [caller EXCEPT ![c] = NoCaller] /\ canceled' = canceled \ {c}

\* net.ErrClosed, at the first look at the session.
FindClosed(c) ==
  /\ caller[c].pc = "lock" /\ closed
  /\ Return(c)
  /\ UNCHANGED <<clock, session, lookups, calls, interrupts>>

Fresh(c) == caller[c].key \in Cached /\ caller[c].now < cache[caller[c].key].expires

FromCache(c) ==
  /\ caller[c].pc = "lock" /\ ~closed /\ Fresh(c)
  /\ caller' = [caller EXCEPT ![c].pc = "copy", ![c].entry = cache[caller[c].key]]
  /\ UNCHANGED <<clock, session, lookups, calls, canceled, interrupts>>

\* The addresses of the entry are copied after the mutex is released.
CopyAddresses(c) ==
  /\ caller[c].pc = "copy"
  /\ Return(c)
  /\ UNCHANGED <<clock, session, lookups, calls, interrupts>>

\* Mutant: every caller that finds no entry starts a lookup of its own.
MustStartAlways(k) == TRUE

MustStart(k) == pending[k] = 0

\* No entry, or one that has expired: join the lookup under way or start one.
Join(c) ==
  LET k == caller[c].key IN
  /\ caller[c].pc = "lock" /\ ~closed /\ ~Fresh(c)
  /\ cache' = [cache EXCEPT ![k] = NoEntry]
  /\ \/ /\ ~MustStart(k)
        /\ caller' = [caller EXCEPT ![c] = Waiting(k, pending[k])]
        /\ UNCHANGED <<pending, lookups, canceled>>
     \/ /\ MustStart(k) /\ Cardinality(Pending) >= LookupCapacity
        /\ Return(c)
        /\ UNCHANGED <<pending, lookups>>
     \/ /\ MustStart(k) /\ Cardinality(Pending) < LookupCapacity
        /\ LET i == CHOOSE i \in Ids : lookups[i] = NoLookup IN
           /\ lookups' = [lookups EXCEPT ![i] = Lookup("loop", k)]
           /\ pending' = [pending EXCEPT ![k] = i]
           /\ caller' = [caller EXCEPT ![c] = Waiting(k, i)]
        /\ UNCHANGED canceled
  /\ UNCHANGED <<clock, closed, calls, interrupts>>

\* The select: any of its channels that is ready.
WaitEnds(c) ==
  /\ caller[c].pc = "wait"
  /\ c \in canceled \/ closed \/ caller[c].lookup = 0
  /\ Return(c)
  /\ UNCHANGED <<clock, session, lookups, calls, interrupts>>

Interrupt == interrupts < MaxInterrupts /\ interrupts' = interrupts + 1

CancelCaller(c) ==
  /\ Interrupt
  /\ caller[c].pc # "idle" /\ c \notin canceled
  /\ canceled' = canceled \cup {c}
  /\ UNCHANGED <<clock, session, lookups, caller, calls>>
-----------------------------------------------------------------------------
(* lookup, lookupSessionIPv4 and querySessionA.                             *)

\* Mutant: the lookup inherits the context of a caller.
LookupDoneWithCaller(i) == closed \/ lookups[i].cut \/ \E c \in canceled : caller[c].lookup = i

\* The context of a lookup: the session's, with a limit of 10 s (cut).
LookupDone(i) == closed \/ lookups[i].cut

LookupExpires(i) ==
  /\ Interrupt
  /\ lookups[i].state = "query" /\ ~lookups[i].cut
  /\ lookups' = [lookups EXCEPT ![i].cut = TRUE]
  /\ UNCHANGED <<clock, session, caller, calls, canceled>>

BeginQuery(i) ==
  /\ lookups[i].state = "loop"
  /\ lookups' = [lookups EXCEPT ![i].state =
                   IF LookupDone(i) \/ lookups[i].asked = Servers THEN "failed" ELSE "query"]
  /\ UNCHANGED <<clock, session, callers>>

\* The records querySessionA returns addresses for, and those that bound how
\* long they are valid.
Addresses(answers) == {a \in answers : a.type = "A"}

\* Mutant: only the address records count, not the aliases that lead to them.
TTLOfAddresses(answers) == Min({a.ttl : a \in Addresses(answers)})

TTL(answers) == Min({a.ttl : a \in {b \in answers : b.type \in {"A", "CNAME"}}})

Usable(r) == r.valid /\ Addresses(r.answers) # {}

\* A response, an error or the 2 s timeout: the next server is asked unless
\* the response has an address.
EndQuery(i) ==
  /\ lookups[i].state = "query"
  /\ \/ \E r \in Responses :
          /\ Usable(r)
          /\ lookups' = [lookups EXCEPT ![i].state = "found", ![i].answers = r.answers]
     \/ lookups' = [lookups EXCEPT ![i].state = "loop", ![i].asked = @ + 1]
  /\ UNCHANGED <<clock, session, callers>>

Live == {k \in Cached : clock < cache[k].expires}

\* Mutant: room is made one entry too late.
VictimsTooLate ==
  IF Cardinality(Live) <= CacheCapacity THEN {{}}
  ELSE {{k} : k \in {l \in Live : \A m \in Live : cache[l].expires <= cache[m].expires}}

\* The live entries that a new one displaces: when the cache is full, one of
\* those that expire first (map iteration order decides between equals).
Victims ==
  IF Cardinality(Live) < CacheCapacity THEN {{}}
  ELSE {{k} : k \in {l \in Live : \A m \in Live : cache[l].expires <= cache[m].expires}}

\* The lookup is over: its channel is closed, which wakes all that wait.
Wake(i) ==
  /\ lookups' = [lookups EXCEPT ![i] = NoLookup]
  /\ pending' = [pending EXCEPT ![lookups[i].key] = 0]
  /\ caller' = [c \in Callers |-> IF caller[c].lookup = i THEN [caller[c] EXCEPT !.lookup = 0]
                                                       ELSE caller[c]]

\* The section that ends lookup: expired entries go, the oldest one makes
\* room, and the waiting callers are woken.
StoreAnswer(i) ==
  LET k == lookups[i].key
      ttl == TTL(lookups[i].answers)
  IN
  /\ lookups[i].state = "found"
  /\ Wake(i)
  /\ IF ttl = 0 THEN UNCHANGED cache
     ELSE \E victims \in Victims :
            cache' = [l \in Keys |->
                        IF l = k THEN Entry(lookups[i].answers, clock + ttl, clock)
                        ELSE IF l \in Live \ victims THEN cache[l] ELSE NoEntry]
  /\ UNCHANGED <<clock, closed, calls, canceled, interrupts>>

\* Mutant: a failed lookup returns before it is removed and its channel closed.
AbandonLookup(i) ==
  /\ lookups[i].state = "failed"
  /\ lookups' = [lookups EXCEPT ![i] = NoLookup]
  /\ UNCHANGED <<clock, session, callers>>

StoreError(i) ==
  /\ lookups[i].state = "failed"
  /\ Wake(i)
  /\ UNCHANGED <<clock, cache, closed, calls, canceled, interrupts>>
-----------------------------------------------------------------------------
\* dnsSession.Close cancels the context.
Close ==
  /\ Interrupt
  /\ ~closed
  /\ closed' = TRUE
  /\ UNCHANGED <<clock, cache, pending, lookups, caller, calls, canceled>>

Tick ==
  /\ clock < MaxTime
  /\ clock' = clock + 1
  /\ UNCHANGED <<session, lookups, callers>>

CallerStep(c) == FindClosed(c) \/ FromCache(c) \/ CopyAddresses(c) \/ Join(c) \/ WaitEnds(c)
LookupStep(i) == BeginQuery(i) \/ EndQuery(i) \/ StoreAnswer(i) \/ StoreError(i)

\* No caller is in a call and no lookup is under way.
AtRest ==
  /\ \A c \in Callers : caller[c].pc = "idle"
  /\ \A i \in Ids : lookups[i] = NoLookup
  /\ UNCHANGED vars

Next ==
  \/ \E c \in Callers : Resolve(c) \/ CallerStep(c) \/ CancelCaller(c)
  \/ \E i \in Ids : LookupStep(i) \/ LookupExpires(i)
  \/ Close \/ Tick \/ AtRest

Spec == Init /\ [][Next]_vars

\* Callers and lookups run; a query ends by its timeout.
Fairness ==
  /\ \A c \in Callers : WF_vars(CallerStep(c))
  /\ \A i \in Ids : WF_vars(LookupStep(i))

FairSpec == Spec /\ Fairness
-----------------------------------------------------------------------------
Answers == {r.answers : r \in Responses} \cup {{}}
Entries == [answers : Answers, expires : Nat, stored : Nat]

\* Every variable has its type, and the two tables keep their capacities:
\* a full cache makes room, and a lookup beyond the limit is refused.
TypeOK ==
  /\ clock \in Nat /\ calls \in 0..MaxCalls /\ interrupts \in 0..MaxInterrupts
  /\ cache \in [Keys -> Entries]
  /\ pending \in [Keys -> Ids \cup {0}]
  /\ Cardinality(Cached) <= CacheCapacity /\ Cardinality(Pending) <= LookupCapacity
  /\ lookups \in [Ids -> [state : {"none", "loop", "query", "found", "failed"},
                          key : Keys, asked : 0..Servers,
                          answers : Answers, cut : BOOLEAN]]
  /\ caller \in [Callers -> [pc : {"idle", "lock", "copy", "wait"}, key : Keys, now : Nat,
                             lookup : Ids \cup {0}, entry : Entries]]
  /\ canceled \subseteq Callers /\ closed \in BOOLEAN

Running == {i \in Ids : lookups[i] # NoLookup}

\* Concurrent callers of a key share one lookup: the pending table lists exactly
\* the lookups whose goroutine still runs, a key that is being asked for has no
\* cached answer, and a caller waits for a lookup of its own key.
OneLookupPerKey ==
  /\ \A k \in Pending : /\ pending[k] \in Running /\ lookups[pending[k]].key = k
                        /\ k \notin Cached
  /\ \A i \in Running : pending[lookups[i].key] = i
  /\ \A c \in Callers : caller[c].lookup # 0 =>
       caller[c].lookup \in Running /\ lookups[caller[c].lookup].key = caller[c].key

\* Nobody is served addresses from the cache that had outlived a record of the
\* answer, aliases included, when the call was made.
AnswersFresh ==
  \A c \in Callers : caller[c].pc = "copy" =>
    \A a \in caller[c].entry.answers :
      a.type \in {"A", "CNAME"} => caller[c].now < caller[c].entry.stored + a.ttl

\* "A single caller canceling must not abort a query shared by others": a lookup
\* fails only after every server was asked, at its time limit or at Close.
SharedLookupSurvives ==
  \A i \in Ids : lookups[i].state = "failed" =>
    lookups[i].asked = Servers \/ lookups[i].cut \/ closed

\* Every call returns, also if nobody cancels it: a lookup always wakes those
\* that wait for it.
CallersReturn ==
  \A c \in Callers : (caller[c].pc # "idle") ~> (caller[c].pc = "idle")
=============================================================================
