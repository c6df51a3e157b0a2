------------------------- MODULE IdentityEmailCache -------------------------
(***************************************************************************)
(* Resolving the email of a verified token's subject                       *)
(* (src/internal/infrastructure/auth/cognito_jwt.go, resolveEmailBySub):   *)
(* the email cache, the cache of subjects Cognito does not know, and       *)
(* Cognito's directory behind them.  The caches are two maps with their    *)
(* orders of insertion in memory (identity_email_cache.go), or two kinds   *)
(* of Redis key with an expiry (redis_identity_cache.go).                  *)
(*                                                                         *)
(* Each access to a cache holds its mutex, or is one Redis command, and is *)
(* an action, with the reading of the clock just before it; requests for   *)
(* one subject or several interleave between them.                         *)
(* A cache is a record of its map and its order; one definition serves     *)
(* both.  Time is a tick: timers count down, ages count up.                *)
(***************************************************************************)
EXTENDS Naturals, Sequences, FiniteSets

CONSTANTS
  Requests,    \* requests being authenticated at once; each is reused
  Subjects,    \* Cognito subjects
  Emails,      \* email addresses
  Absent,      \* Cognito: no such user (UserNotFoundException)
  NoEmail,     \* Cognito: a user without the email attribute
  None,        \* no answer yet, or the empty answer of an error
  MaxEntries,  \* identityEmailCacheMaxEntries (4096)
  EmailTTL,    \* identityEmailCacheTTL (24 h)
  NegTTL,      \* identityNegativeCacheTTL (120 s)
  LookupTime,  \* the request timeout (30 s): a later answer is an error
  MaxOrder,    \* bound: lookups started only while the orders are shorter
  MaxChanges   \* bound: changes made to the directory

ASSUME ConstantsAssumption ==
  /\ Absent \notin Emails /\ NoEmail \notin Emails /\ None \notin Emails
  /\ Absent # NoEmail /\ Absent # None /\ NoEmail # None
  /\ IsFiniteSet(Subjects)

ASSUME NumbersAssumption ==
  /\ MaxEntries \in Nat \ {0}
  /\ NegTTL \in Nat \ {0}
  /\ EmailTTL \in Nat
  /\ NegTTL <= EmailTTL
  /\ LookupTime \in Nat
  /\ MaxOrder \in Nat
  /\ MaxChanges \in Nat

VARIABLES
  inMemory,    \* TRUE: maps of this process; FALSE: Redis (fixed at start)
  directory,   \* Cognito: what it knows of each subject (external)
  age,         \* ticks since the directory last said so, capped (history)
  changes,     \* changes made to the directory (bound)
  emails,      \* the email cache: [entries, order]
  negatives,   \* the cache of unknown subjects: [entries, order]
  pc, subject, \* per request: where it is, whose email it resolves
  found,       \* per request: what Cognito said, and then the answer
  waited       \* per request: ticks since Cognito said so

vars == <<inMemory, directory, age, changes, emails, negatives, pc, subject, found, waited>>
outside == <<inMemory, directory, age, changes>>

Known    == Emails \union {Absent}
AgeCap   == EmailTTL + LookupTime
Never    == AgeCap + 1
-----------------------------------------------------------------------------
(* The caches *)

Empty == [entries |-> <<>>, order |-> <<>>]

\* The subjects in the first k places of the order.
FirstOf(order, k) == {order[i] : i \in 1 .. k}

\* The caches that dropping the k oldest places of the order leaves.
Without(entries, order, k) ==
  [entries |-> [s \in DOMAIN entries \ FirstOf(order, k) |-> entries[s]],
   order   |-> SubSeq(order, k + 1, Len(order))]

\* How many places Set drops at most: none if it fits, else until it does.
EnoughPlaces(entries, order) ==
  {k \in 0 .. Len(order) :
     Cardinality(DOMAIN entries \ FirstOf(order, k)) <= MaxEntries \/ k = Len(order)}

\* Fault variant: one place is dropped, whether it holds an entry or not.
EvictOnce(entries, order) ==
  Without(entries, order, IF Cardinality(DOMAIN entries) > MaxEntries THEN 1 ELSE 0)

\* Fault variant: the order is kept within the bound, not the map.
EvictByOrder(entries, order) ==
  Without(entries, order, IF Len(order) > MaxEntries THEN Len(order) - MaxEntries ELSE 0)

\* Fault variant: the newest place is dropped.
EvictNewest(entries, order) ==
  IF Cardinality(DOMAIN entries) > MaxEntries
  THEN [entries |-> [s \in DOMAIN entries \ {order[Len(order)]} |-> entries[s]],
        order   |-> SubSeq(order, 1, Len(order) - 1)]
  ELSE [entries |-> entries, order |-> order]

\* The eviction loop of Set and SetNegative: oldest places first, until the
\* entries fit.
Evict(entries, order) ==
  Without(entries, order,
          CHOOSE k \in EnoughPlaces(entries, order) :
            \A j \in EnoughPlaces(entries, order) : k <= j)

\* Set and SetNegative: a subject that is not in the map is appended to the
\* order, even when an expired entry of it left a place there.
Put(cache, s, e) ==
  LET entries == [x \in DOMAIN cache.entries \union {s} |->
                    IF x = s THEN e ELSE cache.entries[x]]
      order == IF s \in DOMAIN cache.entries THEN cache.order
               ELSE Append(cache.order, s)
  IN  IF inMemory THEN Evict(entries, order)
      ELSE [cache EXCEPT !.entries = entries]

Remove(cache, gone) ==
  [cache EXCEPT !.entries = [x \in DOMAIN cache.entries \ gone |-> cache.entries[x]]]

\* Get and IsNegative: an entry counts while its expiry lies ahead.
Live(cache, s) == s \in DOMAIN cache.entries /\ cache.entries[s].ttl > 0

\* Get and IsNegative delete an expired entry from the map, not its place in
\* the order.  Redis expires keys by itself.
AfterMiss(cache, s) == IF inMemory THEN Remove(cache, {s}) ELSE cache
-----------------------------------------------------------------------------
(* State space *)

IsCache(cache) ==
  /\ cache = [entries |-> cache.entries, order |-> cache.order]
  /\ DOMAIN cache.entries \subseteq Subjects
  /\ cache.entries \in [DOMAIN cache.entries -> [value : Known, ttl : Nat]]
  /\ cache.order \in Seq(Subjects)

TypeOK ==
  /\ inMemory \in BOOLEAN
  /\ directory \in [Subjects -> Known \union {NoEmail}]
  /\ age \in [Subjects -> [Known -> 0 .. Never]]
  /\ changes \in Nat
  /\ IsCache(emails) /\ IsCache(negatives)
  /\ \A s \in DOMAIN emails.entries : emails.entries[s].value \in Emails
  /\ \A s \in DOMAIN negatives.entries : negatives.entries[s].value = Absent
  /\ pc \in [Requests -> {"idle", "negative", "lookup", "store", "done"}]
  /\ subject \in [Requests -> Subjects \union {None}]
  /\ \A r \in Requests : pc[r] # "idle" => subject[r] \in Subjects
  /\ found \in [Requests -> Known \union {NoEmail, None}]
  /\ waited \in [Requests -> 0 .. LookupTime]

Init ==
  /\ inMemory \in BOOLEAN
  /\ directory \in [Subjects -> Known \union {NoEmail}]
  /\ age = [s \in Subjects |-> [v \in Known |->
              IF v = directory[s] THEN 0 ELSE Never]]
  /\ changes = 0
  /\ emails = Empty /\ negatives = Empty
  /\ pc = [r \in Requests |-> "idle"]
  /\ subject = [r \in Requests |-> None]
  /\ found = [r \in Requests |-> None]
  /\ waited = [r \in Requests |-> 0]
-----------------------------------------------------------------------------
(* resolveEmailBySub *)

\* The answer of a request; None and Absent both read "" to its caller.
Answer(r, value) ==
  /\ pc' = [pc EXCEPT ![r] = "done"]
  /\ found' = [found EXCEPT ![r] = value]
  /\ waited' = [waited EXCEPT ![r] = 0]

\* The next request of the same client starts from scratch.
Return(r) ==
  /\ pc[r] = "done"
  /\ pc' = [pc EXCEPT ![r] = "idle"]
  /\ subject' = [subject EXCEPT ![r] = None]
  /\ found' = [found EXCEPT ![r] = None]
  /\ UNCHANGED <<outside, emails, negatives, waited>>

\* v.cache.Get hits.
GetHits(r, s) ==
  /\ pc[r] = "idle"
  /\ Live(emails, s)
  /\ subject' = [subject EXCEPT ![r] = s]
  /\ Answer(r, emails.entries[s].value)
  /\ UNCHANGED <<outside, emails, negatives>>

\* v.cache.Get misses; on Redis an error reads as a miss.
GetMisses(r, s) ==
  /\ pc[r] = "idle"
  /\ inMemory => ~ Live(emails, s)
  /\ emails' = AfterMiss(emails, s)
  /\ pc' = [pc EXCEPT ![r] = "negative"]
  /\ subject' = [subject EXCEPT ![r] = s]
  /\ UNCHANGED <<outside, negatives, found, waited>>

\* v.cache.IsNegative hits: the empty answer without asking Cognito.
NegativeHits(r) ==
  /\ pc[r] = "negative"
  /\ Live(negatives, subject[r])
  /\ Answer(r, Absent)
  /\ UNCHANGED <<outside, emails, negatives, subject>>

\* v.cache.IsNegative misses; on Redis an error reads as a miss.
NegativeMisses(r) ==
  /\ pc[r] = "negative"
  /\ inMemory => ~ Live(negatives, subject[r])
  /\ negatives' = AfterMiss(negatives, subject[r])
  /\ pc' = [pc EXCEPT ![r] = "lookup"]
  /\ UNCHANGED <<outside, emails, subject, found, waited>>

\* Bound: the places both orders have, and may still be given.
Places ==
  Len(emails.order) + Len(negatives.order)
    + Cardinality({r \in Requests : pc[r] = "store"})

\* LookupEmail: AdminGetUser reads the directory; its answer travels.
Lookup(r) ==
  /\ pc[r] = "lookup"
  /\ Places < MaxOrder
  /\ pc' = [pc EXCEPT ![r] = "store"]
  /\ found' = [found EXCEPT ![r] = directory[subject[r]]]
  /\ UNCHANGED <<outside, emails, negatives, subject, waited>>

\* Fault variant: an error is taken for UserNotFoundException.
LookupFailsAsAbsent(r) ==
  /\ pc[r] = "lookup"
  /\ negatives' = Put(negatives, subject[r], [value |-> Absent, ttl |-> NegTTL])
  /\ Answer(r, None)
  /\ UNCHANGED <<outside, emails, subject>>

\* LookupEmail fails or times out: an empty answer, and nothing is cached.
LookupFails(r) ==
  /\ pc[r] = "lookup"
  /\ Answer(r, None)
  /\ UNCHANGED <<outside, emails, negatives, subject>>

\* Fault variant: the email is cached without looking at it.
StoreBlindly(r) ==
  /\ pc[r] = "store"
  /\ emails' = Put(emails, subject[r], [value |-> found[r], ttl |-> EmailTTL])
  /\ Answer(r, found[r])
  /\ UNCHANGED <<outside, negatives, subject>>

\* The outcome is cached, an email and an absence each in its cache; on
\* Redis the write may fail, unnoticed.
Store(r) ==
  LET value == found[r]
  IN  /\ pc[r] = "store"
      /\ \/ /\ value \in Emails
            /\ emails' = Put(emails, subject[r], [value |-> value, ttl |-> EmailTTL])
            /\ negatives' = negatives
         \/ /\ value = Absent
            /\ negatives' = Put(negatives, subject[r], [value |-> value, ttl |-> NegTTL])
            /\ emails' = emails
         \/ /\ value = NoEmail \/ ~ inMemory
            /\ UNCHANGED <<emails, negatives>>
      /\ Answer(r, value)
      /\ UNCHANGED <<outside, subject>>
-----------------------------------------------------------------------------
(* Cognito and time *)

\* An administrator creates, changes or deletes a user (external).
Change(s, value) ==
  /\ changes < MaxChanges
  /\ value # directory[s]
  /\ directory' = [directory EXCEPT ![s] = value]
  /\ age' = [t \in Subjects |-> [v \in Known |->
               IF t = s /\ v = value THEN 0 ELSE age[t][v]]]
  /\ changes' = changes + 1
  /\ UNCHANGED <<inMemory, emails, negatives, pc, subject, found, waited>>

\* A tick off every entry; Redis drops the keys that expire.
Aged(cache) ==
  LET older == [s \in DOMAIN cache.entries |->
                  [cache.entries[s] EXCEPT !.ttl = IF @ = 0 THEN 0 ELSE @ - 1]]
      dead  == {s \in DOMAIN older : older[s].ttl = 0}
  IN  IF inMemory THEN [cache EXCEPT !.entries = older]
      ELSE Remove([cache EXCEPT !.entries = older], dead)

\* The context of a request in the lookup ends after LookupTime.
Tick ==
  /\ \A r \in Requests : pc[r] = "store" => waited[r] < LookupTime
  /\ age' = [s \in Subjects |-> [v \in Known |->
               IF v = directory[s] THEN 0
               ELSE IF age[s][v] = Never THEN Never ELSE age[s][v] + 1]]
  /\ emails' = Aged(emails)
  /\ negatives' = Aged(negatives)
  /\ waited' = [r \in Requests |-> IF pc[r] = "store" THEN waited[r] + 1 ELSE waited[r]]
  /\ UNCHANGED <<inMemory, directory, changes, pc, subject, found>>
-----------------------------------------------------------------------------
Resolve(r) ==
  \/ \E s \in Subjects : GetHits(r, s) \/ GetMisses(r, s)
  \/ NegativeHits(r) \/ NegativeMisses(r)
  \/ Lookup(r) \/ LookupFails(r)
  \/ Store(r)
  \/ Return(r)

Next ==
  \/ \E r \in Requests : Resolve(r)
  \/ \E s \in Subjects, value \in Known \union {NoEmail} : Change(s, value)
  \/ Tick

Spec == Init /\ [][Next]_vars
-----------------------------------------------------------------------------
(* Properties *)

\* The in-memory caches never outgrow maxEntries, although expired entries
\* leave the map and not the order (Set and SetNegative, the eviction loop).
Bounded ==
  inMemory => /\ Cardinality(DOMAIN emails.entries) <= MaxEntries
              /\ Cardinality(DOMAIN negatives.entries) <= MaxEntries

\* A live email leaves the in-memory cache only when the map is full, and
\* alone: the eviction loop stops at the first entry it deletes, however many
\* dead places of the order it passes.
OnlyFullEvicts ==
  [][LET gone == {s \in DOMAIN emails.entries : Live(emails, s)} \ DOMAIN emails'.entries
     IN  inMemory /\ gone # {} =>
           /\ Cardinality(DOMAIN emails.entries) = MaxEntries
           /\ Cardinality(gone) = 1]_vars

\* An email just looked up is in the cache, unless an expired entry of its
\* own subject left a place in the order: that place is older, the loop takes
\* it for the subject's and deletes the new entry.
StoredUnlessLeftover ==
  [][\A r \in Requests :
       inMemory /\ pc[r] = "store" /\ found[r] \in Emails /\ pc'[r] = "done" =>
         \/ subject[r] \in DOMAIN emails'.entries
         \/ /\ subject[r] \notin DOMAIN emails.entries
            /\ subject[r] \in FirstOf(emails.order, Len(emails.order))]_vars

\* resolveEmailBySub answers with an email that Cognito held for this very
\* subject less than the cache's TTL and a request ago, and with a cached
\* absence only if the user was absent within the shorter negative TTL;
\* whatever the requests of the same subject do meanwhile.  An error of
\* Cognito is never cached as an absence (the regression BUG-0662).
AnswersAreRecent ==
  [][\A r \in Requests :
       pc[r] # "done" /\ pc'[r] = "done" =>
         /\ found'[r] \in Emails =>
              age[subject'[r]][found'[r]] < EmailTTL + LookupTime
         /\ found'[r] = Absent =>
              age[subject'[r]][Absent] < NegTTL + LookupTime]_vars
=============================================================================
