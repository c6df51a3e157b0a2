---------------------- MODULE IdentityEmailCacheProofs ----------------------
(***************************************************************************)
(* Theorems about IdentityEmailCache, for any number of subjects, emails   *)
(* and requests, any bound on the entries and any lifetimes.               *)
(***************************************************************************)
EXTENDS IdentityEmailCache, FiniteSetTheorems, WellFoundedInduction, TLAPS

\* A set of natural numbers has a least element.
LEMMA Least ==
  ASSUME NEW S \in SUBSET Nat, S # {}
  PROVE  \E k \in S : \A j \in S : k <= j
<1> DEFINE R == {pair \in Nat \X Nat : pair[1] < pair[2]}
<1>1. IsWellFoundedOn(R, Nat)
  BY NatLessThanWellFounded DEF OpToRel
<1>2. \A j, k \in Nat : j < k => <<j, k>> \in R
  OBVIOUS
<1> HIDE DEF R
<1>3. PICK k \in S : \A j \in S : ~ (<<j, k>> \in R)
  BY <1>1, WFMin
<1>4. ASSUME NEW j \in S PROVE k <= j
  <2>1. j \in Nat /\ k \in Nat
    OBVIOUS
  <2>2. ~ (<<j, k>> \in R)
    BY <1>3
  <2>3. ~ (j < k)
    BY <1>2, <2>1, <2>2, Zenon
  <2> QED BY <2>1, <2>3
<1> QED BY <1>4

\* What an email cache holds is listed in its order.
Listed(entries, order) == DOMAIN entries \subseteq FirstOf(order, Len(order))

\* The eviction loop ends with a cache that fits, because what is in the map
\* is in the order: dropping the whole order empties the map.
LEMMA EvictFits ==
  ASSUME NEW entries, NEW order \in Seq(Subjects),
         DOMAIN entries \subseteq Subjects, Listed(entries, order)
  PROVE  LET kept == Evict(entries, order)
         IN  /\ Cardinality(DOMAIN kept.entries) <= MaxEntries
             /\ Listed(kept.entries, kept.order)
             /\ kept.order \in Seq(Subjects)
             /\ \E X \in SUBSET DOMAIN entries : kept.entries = [s \in X |-> entries[s]]
             /\ kept = [entries |-> kept.entries, order |-> kept.order]
<1> DEFINE E == EnoughPlaces(entries, order)
           k == CHOOSE i \in E : \A j \in E : i <= j
           kept == Without(entries, order, k)
<1>1. k \in E
  <2>1. E \in SUBSET Nat
    BY DEF EnoughPlaces
  <2>2. Len(order) \in E
    BY DEF EnoughPlaces
  <2>3. \E i \in E : \A j \in E : i <= j
    BY <2>1, <2>2, Least
  <2> QED BY <2>3
<1>2. k \in 0 .. Len(order)
  BY <1>1 DEF EnoughPlaces
<1> HIDE DEF k, E
<1>3. Cardinality(DOMAIN entries \ FirstOf(order, k)) <= MaxEntries
  <2>1. CASE k = Len(order)
    <3>1. DOMAIN entries \ FirstOf(order, k) = {}
      BY <2>1 DEF Listed
    <3>2. Cardinality(DOMAIN entries \ FirstOf(order, k)) = 0
      BY <3>1, FS_EmptySet, Zenon
    <3> QED BY <3>2, NumbersAssumption
  <2>2. CASE k # Len(order)
    BY <1>1, <2>2 DEF EnoughPlaces, E
  <2> QED BY <2>1, <2>2
<1>4. kept.order \in Seq(Subjects)
  BY <1>2 DEF Without
<1>5. Listed(kept.entries, kept.order)
  <2> SUFFICES ASSUME NEW s \in DOMAIN entries \ FirstOf(order, k)
               PROVE  s \in FirstOf(kept.order, Len(kept.order))
    BY DEF Listed, Without
  <2>1. PICK i \in 1 .. Len(order) : s = order[i]
    BY DEF Listed, FirstOf
  <2>2. i > k
    BY <1>2, <2>1 DEF FirstOf
  <2>3. /\ kept.order = SubSeq(order, k + 1, Len(order))
        /\ Len(kept.order) = Len(order) - k
        /\ i - k \in 1 .. Len(kept.order)
        /\ kept.order[i - k] = order[i]
    BY <1>2, <2>2 DEF Without
  <2> QED BY <2>1, <2>3 DEF FirstOf
<1>6. /\ DOMAIN kept.entries = DOMAIN entries \ FirstOf(order, k)
      /\ kept.entries = [s \in DOMAIN entries \ FirstOf(order, k) |-> entries[s]]
      /\ kept = [entries |-> kept.entries, order |-> kept.order]
  BY DEF Without
<1>7. Evict(entries, order) = kept
  BY Zenon DEF Evict, k, E
<1> HIDE DEF kept
<1> QED BY <1>3, <1>4, <1>5, <1>6, <1>7

-----------------------------------------------------------------------------
(* One cache *)

\* A cache of either kind, and in memory one that fits and lists its entries.
GoodCache(cache) ==
  /\ IsCache(cache)
  /\ inMemory => /\ Cardinality(DOMAIN cache.entries) <= MaxEntries
                 /\ Listed(cache.entries, cache.order)

\* Set and SetNegative keep a good cache, with the new entry or the old one of
\* each subject it still holds.
LEMMA PutGood ==
  ASSUME NEW cache, NEW s \in Subjects, NEW e \in [value : Known, ttl : Nat],
         GoodCache(cache)
  PROVE  LET new == Put(cache, s, e)
         IN  /\ GoodCache(new)
             /\ \A x \in DOMAIN new.entries :
                  \/ x = s /\ new.entries[x] = e
                  \/ x \in DOMAIN cache.entries /\ new.entries[x] = cache.entries[x]
<1> DEFINE all == [x \in DOMAIN cache.entries \union {s} |->
                     IF x = s THEN e ELSE cache.entries[x]]
           order == IF s \in DOMAIN cache.entries THEN cache.order
                    ELSE Append(cache.order, s)
           new == Put(cache, s, e)
<1>1. /\ DOMAIN all = DOMAIN cache.entries \union {s}
      /\ DOMAIN all \subseteq Subjects
      /\ all \in [DOMAIN all -> [value : Known, ttl : Nat]]
      /\ all[s] = e
      /\ \A x \in DOMAIN all : x # s => x \in DOMAIN cache.entries /\ all[x] = cache.entries[x]
  BY DEF GoodCache, IsCache
<1>2. CASE inMemory
  <2>1. order \in Seq(Subjects)
    BY DEF GoodCache, IsCache
  <2>2. Listed(all, order)
    <3>1. CASE s \in DOMAIN cache.entries
      BY <1>1, <1>2, <3>1 DEF GoodCache, Listed
    <3>2. CASE s \notin DOMAIN cache.entries
      <4>1. /\ cache.order \in Seq(Subjects)
            /\ order = Append(cache.order, s)
        BY <3>2 DEF GoodCache, IsCache
      <4>2. /\ Len(order) = Len(cache.order) + 1
            /\ order[Len(order)] = s
            /\ \A i \in 1 .. Len(cache.order) : order[i] = cache.order[i]
        BY <4>1
      <4>3. FirstOf(cache.order, Len(cache.order)) \union {s} \subseteq FirstOf(order, Len(order))
        BY <4>1, <4>2 DEF FirstOf
      <4> QED BY <1>1, <1>2, <4>3 DEF GoodCache, Listed
    <3> QED BY <3>1, <3>2
  <2>3. new = Evict(all, order)
    BY <1>2 DEF Put
  <2> HIDE DEF all, order, new
  <2>4. /\ Cardinality(DOMAIN new.entries) <= MaxEntries
        /\ Listed(new.entries, new.order)
        /\ new.order \in Seq(Subjects)
        /\ \E X \in SUBSET DOMAIN all : new.entries = [x \in X |-> all[x]]
        /\ new = [entries |-> new.entries, order |-> new.order]
    BY <1>1, <2>1, <2>2, <2>3, EvictFits
  <2>5. PICK X \in SUBSET DOMAIN all : new.entries = [x \in X |-> all[x]]
    BY <2>4
  <2>6. DOMAIN new.entries = X /\ \A x \in X : new.entries[x] = all[x]
    BY <2>5
  <2>7. IsCache(new)
    BY <1>1, <2>4, <2>5, <2>6 DEF IsCache
  <2>8. GoodCache(new)
    BY <2>4, <2>7 DEF GoodCache
  <2> QED BY <1>1, <2>6, <2>8 DEF new
<1>3. CASE ~ inMemory
  <2>1. /\ new.entries = all
        /\ new.order = cache.order
        /\ new = [entries |-> new.entries, order |-> new.order]
    BY <1>3 DEF Put, GoodCache, IsCache
  <2> QED BY <1>1, <1>3, <2>1 DEF GoodCache, IsCache
<1> QED BY <1>2, <1>3

\* Deleting expired entries keeps a good cache.
LEMMA RemoveGood ==
  ASSUME NEW cache, NEW gone, GoodCache(cache)
  PROVE  LET new == Remove(cache, gone)
         IN  /\ GoodCache(new)
             /\ \A x \in DOMAIN new.entries :
                  x \in DOMAIN cache.entries /\ new.entries[x] = cache.entries[x]
<1> DEFINE new == Remove(cache, gone)
<1>1. /\ DOMAIN new.entries = DOMAIN cache.entries \ gone
      /\ \A x \in DOMAIN new.entries : new.entries[x] = cache.entries[x]
      /\ IsCache(new)
      /\ new.order = cache.order
  BY DEF Remove, GoodCache, IsCache
<1>2. IsFiniteSet(DOMAIN cache.entries)
  BY FS_Subset, ConstantsAssumption DEF GoodCache, IsCache
<1>3. /\ Cardinality(DOMAIN new.entries) <= Cardinality(DOMAIN cache.entries)
      /\ Cardinality(DOMAIN new.entries) \in Nat
      /\ Cardinality(DOMAIN cache.entries) \in Nat
  BY <1>1, <1>2, FS_Subset, FS_CardinalityType
<1> HIDE DEF new
<1>4. inMemory => /\ Cardinality(DOMAIN new.entries) <= MaxEntries
                  /\ Listed(new.entries, new.order)
  BY <1>1, <1>3, NumbersAssumption DEF GoodCache, Listed
<1> QED BY <1>1, <1>4 DEF GoodCache, new

LEMMA MissGood ==
  ASSUME NEW cache, NEW s, GoodCache(cache)
  PROVE  LET new == AfterMiss(cache, s)
         IN  /\ GoodCache(new)
             /\ \A x \in DOMAIN new.entries :
                  x \in DOMAIN cache.entries /\ new.entries[x] = cache.entries[x]
BY RemoveGood DEF AfterMiss

\* A tick keeps a good cache and takes one off every live entry.
LEMMA AgedGood ==
  ASSUME NEW cache, GoodCache(cache)
  PROVE  LET new == Aged(cache)
         IN  /\ GoodCache(new)
             /\ \A x \in DOMAIN new.entries :
                  /\ x \in DOMAIN cache.entries
                  /\ new.entries[x].value = cache.entries[x].value
                  /\ new.entries[x].ttl > 0 =>
                       new.entries[x].ttl = cache.entries[x].ttl - 1
<1> DEFINE older == [s \in DOMAIN cache.entries |->
                       [cache.entries[s] EXCEPT !.ttl = IF @ = 0 THEN 0 ELSE @ - 1]]
           dead == {s \in DOMAIN older : older[s].ttl = 0}
           aged == [cache EXCEPT !.entries = older]
<1>1. /\ DOMAIN older = DOMAIN cache.entries
      /\ \A x \in DOMAIN older :
           /\ older[x] \in [value : Known, ttl : Nat]
           /\ older[x].value = cache.entries[x].value
           /\ older[x].ttl > 0 => older[x].ttl = cache.entries[x].ttl - 1
  <2> SUFFICES ASSUME NEW x \in DOMAIN cache.entries
               PROVE  /\ older[x] \in [value : Known, ttl : Nat]
                      /\ older[x].value = cache.entries[x].value
                      /\ older[x].ttl > 0 => older[x].ttl = cache.entries[x].ttl - 1
    OBVIOUS
  <2>1. cache.entries[x] \in [value : Known, ttl : Nat]
    BY DEF GoodCache, IsCache
  <2> QED BY <2>1
<1>2. aged.entries = older /\ aged.order = cache.order
      /\ aged = [entries |-> aged.entries, order |-> aged.order]
  <2> HIDE DEF older
  <2>1. cache = [entries |-> cache.entries, order |-> cache.order]
    BY DEF GoodCache, IsCache
  <2>2. aged = [entries |-> older, order |-> cache.order]
    BY <2>1
  <2> QED BY <2>2
<1>3. GoodCache(aged)
  <2>1. older \in [DOMAIN older -> [value : Known, ttl : Nat]]
    BY <1>1
  <2> HIDE DEF aged, older
  <2>2. IsCache(aged)
    BY <1>1, <1>2, <2>1 DEF GoodCache, IsCache
  <2>3. DOMAIN aged.entries = DOMAIN cache.entries /\ aged.order = cache.order
    BY <1>1, <1>2
  <2> QED BY <2>2, <2>3 DEF GoodCache, Listed
<1>4. Aged(cache) = IF inMemory THEN aged ELSE Remove(aged, dead)
  BY DEF Aged
<1> HIDE DEF aged, dead, older
<1>5. GoodCache(Remove(aged, dead))
      /\ \A x \in DOMAIN Remove(aged, dead).entries :
           x \in DOMAIN aged.entries /\ Remove(aged, dead).entries[x] = aged.entries[x]
  BY <1>3, RemoveGood
<1> QED BY <1>1, <1>2, <1>3, <1>4, <1>5
-----------------------------------------------------------------------------
(* The inductive invariant *)

\* Each live entry was Cognito's word within what its lifetime leaves.
RecentCache(cache, bound) ==
  \A s \in DOMAIN cache.entries :
    cache.entries[s].ttl > 0 =>
      age[s][cache.entries[s].value] + cache.entries[s].ttl <= bound

\* So was each answer on its way, within the time it has travelled.
RecentRequests ==
  \A r \in Requests :
    pc[r] = "store" /\ found[r] \in Known => age[subject[r]][found[r]] <= waited[r]

DirectoryIsNow ==
  \A s \in Subjects : directory[s] \in Known => age[s][directory[s]] = 0

IInv ==
  /\ TypeOK
  /\ GoodCache(emails) /\ GoodCache(negatives)
  /\ RecentCache(emails, EmailTTL + LookupTime)
  /\ RecentCache(negatives, NegTTL + LookupTime)
  /\ RecentRequests
  /\ DirectoryIsNow

LEMMA IInvBounded == IInv => Bounded
BY DEF IInv, GoodCache, Bounded

LEMMA InitIInv == Init => IInv
<1> SUFFICES ASSUME Init PROVE IInv
  OBVIOUS
<1>1. GoodCache(Empty)
  <2>1. DOMAIN Empty.entries = {} /\ Empty.order = << >> /\ IsCache(Empty)
    BY DEF Empty, IsCache
  <2>2. Cardinality(DOMAIN Empty.entries) = 0
    BY <2>1, FS_EmptySet, Zenon
  <2> QED BY <2>1, <2>2, NumbersAssumption DEF GoodCache, Listed
<1>2. DOMAIN Empty.entries = {}
  BY DEF Empty
<1>3. TypeOK
  BY <1>1, <1>2, NumbersAssumption DEF Init, TypeOK, GoodCache, Never, AgeCap
<1>4. RecentCache(emails, EmailTTL + LookupTime) /\ RecentCache(negatives, NegTTL + LookupTime)
  BY <1>2 DEF Init, RecentCache
<1>5. RecentRequests /\ DirectoryIsNow
  BY DEF Init, RecentRequests, DirectoryIsNow
<1> QED BY <1>1, <1>3, <1>4, <1>5 DEF IInv, Init

\* The bounds are naturals, and a cached value is one that an age is kept for.
LEMMA Numbers ==
  /\ EmailTTL + LookupTime \in Nat /\ NegTTL + LookupTime \in Nat
  /\ Never \in Nat /\ EmailTTL \in Nat /\ NegTTL \in Nat /\ LookupTime \in Nat
BY NumbersAssumption DEF Never, AgeCap

\* What IInv asks of the two caches.
CachesInv ==
  /\ GoodCache(emails) /\ GoodCache(negatives)
  /\ \A s \in DOMAIN emails.entries : emails.entries[s].value \in Emails
  /\ \A s \in DOMAIN negatives.entries : negatives.entries[s].value = Absent
  /\ RecentCache(emails, EmailTTL + LookupTime)
  /\ RecentCache(negatives, NegTTL + LookupTime)

LEMMA CachesKept ==
  ASSUME IInv, UNCHANGED <<inMemory, age, emails, negatives>>
  PROVE  CachesInv'
BY DEF IInv, CachesInv, TypeOK, GoodCache, IsCache, Listed, RecentCache

\* A request that answers leaves nothing behind but what it cached.
LEMMA AnswerStep ==
  ASSUME IInv, NEW r \in Requests, NEW v \in Known \union {NoEmail, None}, Answer(r, v),
         UNCHANGED outside, CachesInv',
         NEW s \in Subjects, subject' = [subject EXCEPT ![r] = s]
  PROVE  IInv'
<1>1. TypeOK'
  <2>1. /\ pc' \in [Requests -> {"idle", "negative", "lookup", "store", "done"}]
        /\ found' \in [Requests -> Known \union {NoEmail, None}]
        /\ waited' \in [Requests -> 0 .. LookupTime]
        /\ subject' \in [Requests -> Subjects \union {None}]
    BY Numbers DEF IInv, TypeOK, Answer
  <2>2. \A q \in Requests : pc'[q] # "idle" => subject'[q] \in Subjects
    BY DEF IInv, TypeOK, Answer
  <2> QED BY <2>1, <2>2 DEF IInv, TypeOK, outside, CachesInv, GoodCache
<1>2. RecentRequests'
  BY DEF IInv, TypeOK, RecentRequests, Answer, outside
<1>3. DirectoryIsNow'
  BY DEF IInv, DirectoryIsNow, outside
<1> QED BY <1>1, <1>2, <1>3 DEF IInv, CachesInv

\* The subject of a request under way stays the same subject.
LEMMA SameSubject ==
  ASSUME IInv, NEW r \in Requests, pc[r] # "idle"
  PROVE  subject[r] \in Subjects /\ subject = [subject EXCEPT ![r] = subject[r]]
BY DEF IInv, TypeOK

LEMMA GetHitsStep ==
  ASSUME IInv, NEW r \in Requests, NEW s \in Subjects, GetHits(r, s)
  PROVE  IInv'
<1>1. CachesInv'
  BY CachesKept DEF GetHits, outside
<1>2. emails.entries[s].value \in Known
  BY DEF IInv, TypeOK, GetHits, Live, Known
<1> QED BY <1>1, <1>2, AnswerStep DEF GetHits

LEMMA GetMissesStep ==
  ASSUME IInv, NEW r \in Requests, NEW s \in Subjects, GetMisses(r, s)
  PROVE  IInv'
<1>1. /\ GoodCache(emails)'
      /\ \A x \in DOMAIN emails'.entries :
           x \in DOMAIN emails.entries /\ emails'.entries[x] = emails.entries[x]
  BY MissGood DEF IInv, GetMisses, outside, GoodCache, IsCache, Listed
<1>2. TypeOK'
  BY <1>1 DEF IInv, TypeOK, GetMisses, outside, GoodCache
<1>3. RecentCache(emails, EmailTTL + LookupTime)'
  BY <1>1 DEF IInv, RecentCache, GetMisses, outside
<1>4. /\ GoodCache(negatives)' /\ RecentCache(negatives, NegTTL + LookupTime)'
      /\ RecentRequests' /\ DirectoryIsNow'
  BY DEF IInv, GetMisses, outside, GoodCache, IsCache, Listed, RecentCache,
     RecentRequests, DirectoryIsNow, TypeOK
<1> QED BY <1>1, <1>2, <1>3, <1>4 DEF IInv

LEMMA NegativeHitsStep ==
  ASSUME IInv, NEW r \in Requests, NegativeHits(r)
  PROVE  IInv'
BY CachesKept, SameSubject, AnswerStep DEF NegativeHits, outside, Known

LEMMA NegativeMissesStep ==
  ASSUME IInv, NEW r \in Requests, NegativeMisses(r)
  PROVE  IInv'
<1>1. /\ GoodCache(negatives)'
      /\ \A x \in DOMAIN negatives'.entries :
           x \in DOMAIN negatives.entries /\ negatives'.entries[x] = negatives.entries[x]
  <2>1. GoodCache(negatives) /\ negatives' = AfterMiss(negatives, subject[r])
        /\ inMemory' = inMemory
    BY DEF IInv, NegativeMisses, outside
  <2>2. /\ GoodCache(AfterMiss(negatives, subject[r]))
        /\ \A x \in DOMAIN AfterMiss(negatives, subject[r]).entries :
             /\ x \in DOMAIN negatives.entries
             /\ AfterMiss(negatives, subject[r]).entries[x] = negatives.entries[x]
    BY <2>1, MissGood
  <2>3. GoodCache(negatives')
    BY <2>1, <2>2
  <2> QED BY <2>1, <2>2, <2>3 DEF GoodCache, IsCache, Listed
<1>2. TypeOK'
  BY <1>1 DEF IInv, TypeOK, NegativeMisses, outside, GoodCache
<1>3. RecentCache(negatives, NegTTL + LookupTime)'
  BY <1>1 DEF IInv, RecentCache, NegativeMisses, outside
<1>4. /\ GoodCache(emails)' /\ RecentCache(emails, EmailTTL + LookupTime)'
      /\ RecentRequests' /\ DirectoryIsNow'
  BY DEF IInv, NegativeMisses, outside, GoodCache, IsCache, Listed, RecentCache,
     RecentRequests, DirectoryIsNow, TypeOK
<1> QED BY <1>1, <1>2, <1>3, <1>4 DEF IInv

\* Steps of a request that touch no cache, no time and nobody else.
LEMMA LookupStep ==
  ASSUME IInv, NEW r \in Requests, Lookup(r)
  PROVE  IInv'
<1>1. CachesInv'
  BY CachesKept DEF Lookup, outside
<1>2. subject[r] \in Subjects
  BY SameSubject DEF Lookup
<1>3. TypeOK'
  BY <1>1, <1>2 DEF IInv, TypeOK, Lookup, outside, CachesInv, GoodCache
<1>4. RecentRequests'
  BY <1>2, Numbers DEF IInv, TypeOK, RecentRequests, DirectoryIsNow, Lookup, outside
<1>5. DirectoryIsNow'
  BY DEF IInv, DirectoryIsNow, Lookup, outside
<1> QED BY <1>1, <1>3, <1>4, <1>5 DEF IInv, CachesInv

LEMMA LookupFailsStep ==
  ASSUME IInv, NEW r \in Requests, LookupFails(r)
  PROVE  IInv'
BY CachesKept, SameSubject, AnswerStep DEF LookupFails, outside

LEMMA ReturnStep ==
  ASSUME IInv, NEW r \in Requests, Return(r)
  PROVE  IInv'
<1>1. CachesInv'
  BY CachesKept DEF Return, outside
<1>2. TypeOK'
  BY <1>1 DEF IInv, TypeOK, Return, outside, CachesInv, GoodCache
<1>3. RecentRequests' /\ DirectoryIsNow'
  BY DEF IInv, TypeOK, RecentRequests, DirectoryIsNow, Return, outside
<1> QED BY <1>1, <1>2, <1>3 DEF IInv, CachesInv

\* Storing keeps the caches: what is stored is as old as its travel.
LEMMA StoreStep ==
  ASSUME IInv, NEW r \in Requests, Store(r)
  PROVE  IInv'
<1> DEFINE v == found[r]
           s == subject[r]
           email == [value |-> v, ttl |-> EmailTTL]
           absence == [value |-> v, ttl |-> NegTTL]
<1>1. s \in Subjects /\ subject' = [subject EXCEPT ![r] = s]
  BY SameSubject DEF Store
<1>2. v \in Known \union {NoEmail, None} /\ Answer(r, v) /\ UNCHANGED outside
  BY DEF Store, IInv, TypeOK
<1>3. v \in Known => age[s][v] \in Nat /\ age[s][v] <= LookupTime
  BY <1>1, Numbers DEF Store, IInv, TypeOK, RecentRequests
<1>4. CachesInv
  BY DEF IInv, CachesInv, TypeOK
<1>5. CachesInv'
  <2>1. CASE v \in Emails /\ emails' = Put(emails, s, email) /\ negatives' = negatives
    <3>1. email \in [value : Known, ttl : Nat] /\ email.value = v /\ email.ttl = EmailTTL
      BY <2>1, Numbers DEF Known
    <3> HIDE DEF email, v, s
    <3>2. /\ GoodCache(emails')
          /\ \A x \in DOMAIN emails'.entries :
               \/ x = s /\ emails'.entries[x] = email
               \/ x \in DOMAIN emails.entries /\ emails'.entries[x] = emails.entries[x]
      BY <1>1, <1>4, <2>1, <3>1, PutGood DEF CachesInv
    <3>3. \A x \in DOMAIN emails'.entries : emails'.entries[x].value \in Emails
      BY <1>4, <2>1, <3>1, <3>2 DEF CachesInv
    <3>4. age[s][v] + EmailTTL <= EmailTTL + LookupTime
      BY <1>3, <2>1, Numbers DEF Known
    <3>5. RecentCache(emails, EmailTTL + LookupTime)'
      BY <1>2, <1>4, <3>1, <3>2, <3>4 DEF CachesInv, RecentCache, outside
    <3> QED BY <1>2, <1>4, <2>1, <3>2, <3>3, <3>5 DEF CachesInv, RecentCache, outside,
       GoodCache, IsCache, Listed
  <2>2. CASE v = Absent /\ negatives' = Put(negatives, s, absence) /\ emails' = emails
    <3>1. absence \in [value : Known, ttl : Nat] /\ absence.value = Absent /\ absence.ttl = NegTTL
      BY <2>2, Numbers DEF Known
    <3> HIDE DEF absence, v, s
    <3>2. /\ GoodCache(negatives')
          /\ \A x \in DOMAIN negatives'.entries :
               \/ x = s /\ negatives'.entries[x] = absence
               \/ x \in DOMAIN negatives.entries /\ negatives'.entries[x] = negatives.entries[x]
      BY <1>1, <1>4, <2>2, <3>1, PutGood DEF CachesInv
    <3>3. \A x \in DOMAIN negatives'.entries : negatives'.entries[x].value = Absent
      BY <1>4, <2>2, <3>1, <3>2 DEF CachesInv
    <3>4. age[s][Absent] + NegTTL <= NegTTL + LookupTime
      BY <1>3, <2>2, Numbers DEF Known
    <3>5. RecentCache(negatives, NegTTL + LookupTime)'
      BY <1>2, <1>4, <3>1, <3>2, <3>4 DEF CachesInv, RecentCache, outside
    <3> QED BY <1>2, <1>4, <2>2, <3>2, <3>3, <3>5 DEF CachesInv, RecentCache, outside,
       GoodCache, IsCache, Listed
  <2>3. CASE UNCHANGED <<emails, negatives>>
    BY <1>2, <2>3, CachesKept DEF outside
  <2> QED BY <2>1, <2>2, <2>3 DEF Store
<1> QED BY <1>1, <1>2, <1>5, AnswerStep

\* The directory changes: what it says now is new, and nothing else is older.
LEMMA ChangeStep ==
  ASSUME IInv, NEW s \in Subjects, NEW v \in Known \union {NoEmail}, Change(s, v)
  PROVE  IInv'
<1>1. \A t \in Subjects, u \in Known :
        age'[t][u] \in 0 .. Never /\ age'[t][u] <= age[t][u]
  BY Numbers DEF IInv, TypeOK, Change
<1>2. TypeOK'
  <2>1. directory' \in [Subjects -> Known \union {NoEmail}] /\ changes' \in Nat
    BY DEF IInv, TypeOK, Change
  <2>2. age' \in [Subjects -> [Known -> 0 .. Never]]
    BY <1>1 DEF Change
  <2> QED BY <2>1, <2>2 DEF IInv, TypeOK, Change, IsCache
<1>3. GoodCache(emails)' /\ GoodCache(negatives)'
  BY DEF IInv, Change, GoodCache, IsCache, Listed
<1>4. ASSUME NEW cache, NEW bound \in Nat, GoodCache(cache),
             \A x \in DOMAIN cache.entries : cache.entries[x].ttl > 0 =>
               age[x][cache.entries[x].value] + cache.entries[x].ttl <= bound
      PROVE  \A x \in DOMAIN cache.entries : cache.entries[x].ttl > 0 =>
               age'[x][cache.entries[x].value] + cache.entries[x].ttl <= bound
  <2> SUFFICES ASSUME NEW x \in DOMAIN cache.entries, cache.entries[x].ttl > 0
               PROVE  age'[x][cache.entries[x].value] + cache.entries[x].ttl <= bound
    OBVIOUS
  <2>1. x \in Subjects /\ cache.entries[x].value \in Known /\ cache.entries[x].ttl \in Nat
    BY <1>4 DEF GoodCache, IsCache
  <2>2. age[x][cache.entries[x].value] \in 0 .. Never
    BY <2>1 DEF IInv, TypeOK
  <2> QED BY <1>1, <1>4, <2>1, <2>2, Numbers
<1>5. RecentCache(emails, EmailTTL + LookupTime)' /\ RecentCache(negatives, NegTTL + LookupTime)'
  BY <1>4, Numbers DEF IInv, RecentCache, Change
<1>6. RecentRequests'
  <2> SUFFICES ASSUME NEW r \in Requests, pc[r] = "store", found[r] \in Known
               PROVE  age'[subject[r]][found[r]] <= waited[r]
    BY DEF RecentRequests, Change
  <2>1. subject[r] \in Subjects
    BY SameSubject
  <2>2. /\ age[subject[r]][found[r]] \in 0 .. Never /\ waited[r] \in 0 .. LookupTime
        /\ age[subject[r]][found[r]] <= waited[r]
    BY <2>1 DEF IInv, TypeOK, RecentRequests
  <2> QED BY <1>1, <2>1, <2>2, Numbers
<1>7. DirectoryIsNow'
  BY DEF IInv, TypeOK, DirectoryIsNow, Change
<1> QED BY <1>2, <1>3, <1>5, <1>6, <1>7 DEF IInv

LEMMA TickStep ==
  ASSUME IInv, Tick
  PROVE  IInv'
<1>1. \A s \in Subjects, v \in Known :
        /\ age[s][v] \in 0 .. Never
        /\ age'[s][v] \in 0 .. Never
        /\ age'[s][v] <= age[s][v] + 1
        /\ v = directory[s] => age'[s][v] = 0
  <2> SUFFICES ASSUME NEW s \in Subjects, NEW v \in Known
               PROVE  /\ age[s][v] \in 0 .. Never
                      /\ age'[s][v] \in 0 .. Never
                      /\ age'[s][v] <= age[s][v] + 1
                      /\ v = directory[s] => age'[s][v] = 0
    OBVIOUS
  <2>1. age[s][v] \in 0 .. Never
    BY DEF IInv, TypeOK
  <2>2. age'[s][v] = IF v = directory[s] THEN 0
                     ELSE IF age[s][v] = Never THEN Never ELSE age[s][v] + 1
    BY DEF Tick
  <2> QED BY <2>1, <2>2, Numbers
<1>2. \A cache \in {emails, negatives} :
        /\ GoodCache(Aged(cache))
        /\ \A x \in DOMAIN Aged(cache).entries :
             /\ x \in DOMAIN cache.entries
             /\ Aged(cache).entries[x].value = cache.entries[x].value
             /\ Aged(cache).entries[x].ttl > 0 =>
                  Aged(cache).entries[x].ttl = cache.entries[x].ttl - 1
  BY AgedGood DEF IInv
<1>3. TypeOK'
  <2>1. age' \in [Subjects -> [Known -> 0 .. Never]]
    BY <1>1 DEF Tick
  <2>2. waited' \in [Requests -> 0 .. LookupTime]
    BY Numbers DEF IInv, TypeOK, Tick
  <2>3. IsCache(emails)' /\ IsCache(negatives)'
    BY <1>2 DEF Tick, GoodCache
  <2>4. /\ \A x \in DOMAIN emails'.entries : emails'.entries[x].value \in Emails
        /\ \A x \in DOMAIN negatives'.entries : negatives'.entries[x].value = Absent
    BY <1>2 DEF IInv, TypeOK, Tick
  <2> QED BY <2>1, <2>2, <2>3, <2>4 DEF IInv, TypeOK, Tick
<1>4. ASSUME NEW cache \in {emails, negatives}, NEW bound \in Nat, RecentCache(cache, bound),
             NEW x \in DOMAIN Aged(cache).entries, Aged(cache).entries[x].ttl > 0
      PROVE  age'[x][Aged(cache).entries[x].value] + Aged(cache).entries[x].ttl <= bound
  <2>1. /\ x \in DOMAIN cache.entries
        /\ Aged(cache).entries[x].value = cache.entries[x].value
        /\ Aged(cache).entries[x].ttl = cache.entries[x].ttl - 1
    BY <1>2, <1>4
  <2>2. /\ x \in Subjects
        /\ cache.entries[x].value \in Known
        /\ cache.entries[x].ttl \in Nat /\ cache.entries[x].ttl > 0
    <3>1. GoodCache(cache) /\ GoodCache(Aged(cache))
      BY <1>2 DEF IInv
    <3>2. cache.entries[x] \in [value : Known, ttl : Nat] /\ x \in Subjects
      BY <2>1, <3>1 DEF GoodCache, IsCache
    <3> QED BY <1>4, <2>1, <3>2
  <2>3. age[x][cache.entries[x].value] + cache.entries[x].ttl <= bound
    BY <1>4, <2>1, <2>2 DEF RecentCache
  <2>4. age'[x][cache.entries[x].value] <= age[x][cache.entries[x].value] + 1
        /\ age[x][cache.entries[x].value] \in 0 .. Never
        /\ age'[x][cache.entries[x].value] \in 0 .. Never
    BY <1>1, <2>2
  <2> QED BY <2>1, <2>2, <2>3, <2>4, Numbers
<1>5. RecentCache(emails, EmailTTL + LookupTime)' /\ RecentCache(negatives, NegTTL + LookupTime)'
  <2>1. emails' = Aged(emails) /\ negatives' = Aged(negatives)
    BY DEF Tick
  <2>2. RecentCache(emails, EmailTTL + LookupTime) /\ RecentCache(negatives, NegTTL + LookupTime)
    BY DEF IInv
  <2>3. EmailTTL + LookupTime \in Nat /\ NegTTL + LookupTime \in Nat
    BY Numbers
  <2>4. \A x \in DOMAIN Aged(emails).entries : Aged(emails).entries[x].ttl > 0 =>
          age'[x][Aged(emails).entries[x].value] + Aged(emails).entries[x].ttl
            <= EmailTTL + LookupTime
    BY <1>4, <2>2, <2>3
  <2>5. \A x \in DOMAIN Aged(negatives).entries : Aged(negatives).entries[x].ttl > 0 =>
          age'[x][Aged(negatives).entries[x].value] + Aged(negatives).entries[x].ttl
            <= NegTTL + LookupTime
    BY <1>4, <2>2, <2>3
  <2> QED BY <2>1, <2>4, <2>5, Zenon DEF RecentCache
<1>6. RecentRequests'
  <2> SUFFICES ASSUME NEW r \in Requests, pc[r] = "store", found[r] \in Known
               PROVE  age'[subject[r]][found[r]] <= waited'[r]
    BY DEF RecentRequests, Tick
  <2>1. subject[r] \in Subjects
    BY SameSubject
  <2>2. /\ waited[r] \in 0 .. LookupTime /\ waited'[r] = waited[r] + 1
        /\ age[subject[r]][found[r]] <= waited[r]
    BY <2>1 DEF IInv, TypeOK, RecentRequests, Tick
  <2> QED BY <1>1, <2>1, <2>2, Numbers
<1>7. DirectoryIsNow'
  BY <1>1 DEF DirectoryIsNow, Tick
<1> QED BY <1>2, <1>3, <1>5, <1>6, <1>7 DEF IInv, Tick, GoodCache, Listed
-----------------------------------------------------------------------------
LEMMA StepIInv == IInv /\ [Next]_vars => IInv'
<1> SUFFICES ASSUME IInv, [Next]_vars PROVE IInv'
  OBVIOUS
<1>1. CASE UNCHANGED vars
  <2>1. CachesInv'
    BY <1>1, CachesKept DEF vars
  <2> QED BY <1>1, <2>1 DEF vars, IInv, CachesInv, TypeOK, RecentRequests, DirectoryIsNow, GoodCache
<1>2. ASSUME NEW r \in Requests, Resolve(r) PROVE IInv'
  BY <1>2, GetHitsStep, GetMissesStep, NegativeHitsStep, NegativeMissesStep, LookupStep,
     LookupFailsStep, StoreStep, ReturnStep DEF Resolve
<1>3. CASE \E s \in Subjects, v \in Known \union {NoEmail} : Change(s, v)
  BY <1>3, ChangeStep
<1>4. CASE Tick
  BY <1>4, TickStep
<1> QED BY <1>1, <1>2, <1>3, <1>4 DEF Next

LEMMA Invariant == Spec => []IInv
BY InitIInv, StepIInv, PTL DEF Spec

\* What the caches and the requests of resolveEmailBySub hold: an empty email
\* or an error is never cached, in either kind of cache.
THEOREM IdentityTypes == Spec => []TypeOK
<1>1. IInv => TypeOK
  BY DEF IInv
<1> QED BY <1>1, Invariant, PTL

\* The in-memory caches never outgrow maxEntries, however many expired
\* entries left their places in the orders.
THEOREM CachesStayBounded == Spec => []Bounded
BY IInvBounded, Invariant, PTL

\* Every answer was Cognito's word within the lifetime of its cache and the
\* time of one request, whatever the other requests do meanwhile.
THEOREM EmailsAreRecent == Spec => AnswersAreRecent
<1> DEFINE A == \A r \in Requests :
                  pc[r] # "done" /\ pc'[r] = "done" =>
                    /\ found'[r] \in Emails =>
                         age[subject'[r]][found'[r]] < EmailTTL + LookupTime
                    /\ found'[r] = Absent =>
                         age[subject'[r]][Absent] < NegTTL + LookupTime
<1>1. IInv /\ [Next]_vars => [A]_vars
  <2> SUFFICES ASSUME IInv, Next, NEW r \in Requests, pc[r] # "done", pc'[r] = "done"
               PROVE  /\ found'[r] \in Emails =>
                           age[subject'[r]][found'[r]] < EmailTTL + LookupTime
                      /\ found'[r] = Absent =>
                           age[subject'[r]][Absent] < NegTTL + LookupTime
    OBVIOUS
  <2>1. Absent \notin Emails /\ None \notin Emails /\ Absent # None /\ Absent # NoEmail
    BY ConstantsAssumption
  <2>2. PICK q \in Requests : Resolve(q)
    BY DEF Next, Change, Tick
  <2>3. q = r
    BY <2>2 DEF Resolve, GetHits, GetMisses, NegativeHits, NegativeMisses, Lookup,
       LookupFails, Store, Return, Answer, IInv, TypeOK
  <2>4. CASE \E s \in Subjects : GetHits(r, s)
    <3>1. PICK s \in Subjects : GetHits(r, s)
      BY <2>4
    <3>2. /\ s \in DOMAIN emails.entries /\ emails.entries[s].ttl > 0
          /\ subject'[r] = s /\ found'[r] = emails.entries[s].value
          /\ found'[r] \in Emails
      BY <3>1 DEF GetHits, Live, Answer, IInv, TypeOK
    <3>3. emails.entries[s].ttl \in Nat /\ age[s][emails.entries[s].value] \in 0 .. Never
      BY <3>2 DEF IInv, TypeOK, IsCache, Known
    <3>4. age[s][emails.entries[s].value] + emails.entries[s].ttl <= EmailTTL + LookupTime
      BY <3>2 DEF IInv, RecentCache
    <3> QED BY <2>1, <3>2, <3>3, <3>4, Numbers
  <2>5. CASE NegativeHits(r)
    <3> DEFINE s == subject[r]
    <3>1. /\ s \in Subjects /\ s \in DOMAIN negatives.entries /\ negatives.entries[s].ttl > 0
          /\ subject'[r] = s /\ found'[r] = Absent
          /\ negatives.entries[s].value = Absent
      BY <2>5 DEF NegativeHits, Live, Answer, IInv, TypeOK
    <3>2. negatives.entries[s].ttl \in Nat /\ age[s][Absent] \in 0 .. Never
      BY <3>1 DEF IInv, TypeOK, IsCache, Known
    <3>3. age[s][Absent] + negatives.entries[s].ttl <= NegTTL + LookupTime
      BY <3>1 DEF IInv, RecentCache
    <3> QED BY <2>1, <3>1, <3>2, <3>3, Numbers
  <2>6. CASE LookupFails(r)
    BY <2>1, <2>6 DEF LookupFails, Answer, IInv, TypeOK
  <2>7. CASE Store(r)
    <3>1. /\ subject'[r] = subject[r] /\ found'[r] = found[r] /\ pc[r] = "store"
          /\ subject[r] \in Subjects
      BY <2>7 DEF Store, Answer, IInv, TypeOK
    <3>2. found[r] \in Known =>
            /\ age[subject[r]][found[r]] \in 0 .. Never
            /\ age[subject[r]][found[r]] <= waited[r] /\ waited[r] \in 0 .. LookupTime
      BY <3>1 DEF IInv, TypeOK, RecentRequests
    <3>3. EmailTTL > 0 /\ NegTTL > 0
      BY NumbersAssumption
    <3> QED BY <3>1, <3>2, <3>3, Numbers DEF Known
  <2>8. ~ Return(r) /\ ~ Lookup(r) /\ ~ NegativeMisses(r) /\ \A s \in Subjects : ~ GetMisses(r, s)
    BY DEF Return, Lookup, NegativeMisses, GetMisses, IInv, TypeOK
  <2> QED BY <2>2, <2>3, <2>4, <2>5, <2>6, <2>7, <2>8 DEF Resolve
<1> QED BY <1>1, Invariant, PTL DEF Spec, AnswersAreRecent-----------------------------------------------------------------------------
(* What the eviction loop takes *)

\* The loop drops the k oldest places, and fewer would not have been enough.
LEMMA EvictStopsEarly ==
  ASSUME NEW entries, NEW order \in Seq(Subjects)
  PROVE  \E k \in 0 .. Len(order) :
           /\ DOMAIN Evict(entries, order).entries = DOMAIN entries \ FirstOf(order, k)
           /\ \A j \in 0 .. Len(order) :
                j < k => ~ (Cardinality(DOMAIN entries \ FirstOf(order, j)) <= MaxEntries)
<1> DEFINE E == EnoughPlaces(entries, order)
           k == CHOOSE i \in E : \A j \in E : i <= j
<1>1. k \in E /\ \A j \in E : k <= j
  <2>1. E \in SUBSET Nat
    BY DEF EnoughPlaces
  <2>2. Len(order) \in E
    BY DEF EnoughPlaces
  <2>3. \E i \in E : \A j \in E : i <= j
    BY <2>1, <2>2, Least
  <2> QED BY <2>3
<1>2. Evict(entries, order) = Without(entries, order, k)
  BY Zenon DEF Evict
<1> HIDE DEF k
<1>3. k \in 0 .. Len(order)
  BY <1>1 DEF EnoughPlaces
<1>4. DOMAIN Evict(entries, order).entries = DOMAIN entries \ FirstOf(order, k)
  BY <1>2 DEF Without
<1>5. ASSUME NEW j \in 0 .. Len(order), j < k
      PROVE  ~ (Cardinality(DOMAIN entries \ FirstOf(order, j)) <= MaxEntries)
  <2>1. j \notin E
    BY <1>1, <1>3, <1>5
  <2> QED BY <2>1 DEF EnoughPlaces
<1> QED BY <1>3, <1>4, <1>5

\* Putting an entry that is already there drops nothing; otherwise either
\* nothing goes, or the map was full and the place of one entry goes, with dead
\* places before it.
LEMMA PutDropsOne ==
  ASSUME NEW cache, NEW s \in Subjects, NEW e, inMemory, GoodCache(cache)
  PROVE  LET new == DOMAIN Put(cache, s, e).entries
             old == DOMAIN cache.entries
         IN  \/ new = old \union {s}
             \/ /\ s \notin old
                /\ Cardinality(old) = MaxEntries
                /\ \E x \in FirstOf(cache.order, Len(cache.order)) :
                     new = (old \union {s}) \ {x}
<1> DEFINE old == DOMAIN cache.entries
           all == [x \in old \union {s} |-> IF x = s THEN e ELSE cache.entries[x]]
           order == IF s \in old THEN cache.order ELSE Append(cache.order, s)
           new == DOMAIN Put(cache, s, e).entries
<1>1. /\ cache.order \in Seq(Subjects) /\ order \in Seq(Subjects)
      /\ old \subseteq Subjects /\ Cardinality(old) <= MaxEntries
      /\ DOMAIN all = old \union {s}
      /\ old \subseteq FirstOf(cache.order, Len(cache.order))
  BY DEF GoodCache, IsCache, Listed
<1>2. IsFiniteSet(old) /\ Cardinality(old) \in Nat
  BY <1>1, FS_Subset, FS_CardinalityType, ConstantsAssumption
<1>3. Put(cache, s, e) = Evict(all, order)
  BY DEF Put
<1> HIDE DEF all
<1>4. PICK k \in 0 .. Len(order) :
        /\ new = (old \union {s}) \ FirstOf(order, k)
        /\ \A j \in 0 .. Len(order) :
             j < k => ~ (Cardinality((old \union {s}) \ FirstOf(order, j)) <= MaxEntries)
  BY <1>1, <1>3, EvictStopsEarly
<1>5. FirstOf(order, 0) = {}
  BY DEF FirstOf
<1>6. CASE k = 0
  BY <1>4, <1>5, <1>6
<1>7. CASE k > 0
  <2> DEFINE full == old \union {s}
             before == FirstOf(order, k - 1)
  <2>1. 0 \in 0 .. Len(order) /\ k - 1 \in 0 .. Len(order) /\ k - 1 < k /\ 0 < k /\ k \in Nat
    BY <1>1, <1>4, <1>7
  <2>2. ~ (Cardinality(full) <= MaxEntries) /\ ~ (Cardinality(full \ before) <= MaxEntries)
    <3>1. full \ FirstOf(order, 0) = full
      BY <1>5
    <3>2. ~ (Cardinality(full \ FirstOf(order, 0)) <= MaxEntries)
      BY <1>4, <2>1
    <3>3. ~ (Cardinality(full \ before) <= MaxEntries)
      BY <1>4, <2>1
    <3> QED BY <3>1, <3>2, <3>3
  <2>3. s \notin old
    <3> SUFFICES ASSUME s \in old PROVE FALSE
      OBVIOUS
    <3>1. full = old
      OBVIOUS
    <3> QED BY <1>1, <2>2, <3>1
  <2>4. /\ IsFiniteSet(full) /\ Cardinality(full) = Cardinality(old) + 1
        /\ Cardinality(old) = MaxEntries
    <3>1. IsFiniteSet(full) /\ Cardinality(full) = Cardinality(old) + 1
      BY <1>2, <2>3, FS_AddElement
    <3> QED BY <1>1, <1>2, <2>2, <3>1, NumbersAssumption
  <2>5. full \ before = full
    <3>1. IsFiniteSet(full \ before) /\ Cardinality(full \ before) \in Nat
      BY <2>4, FS_Subset, FS_CardinalityType
    <3>2. /\ Cardinality(full \ before) <= Cardinality(full)
          /\ Cardinality(full) = Cardinality(full \ before) => full = full \ before
      <4> full \ before \in SUBSET full
        OBVIOUS
      <4> HIDE DEF full, before
      <4> QED BY <2>4, FS_Subset
    <3> QED BY <1>2, <2>2, <2>4, <3>1, <3>2, NumbersAssumption
  <2>6. FirstOf(order, k) = before \union {order[k]}
    BY <2>1 DEF FirstOf
  <2>7. new = full \ {order[k]}
    <3>1. new = full \ (before \union {order[k]})
      BY <1>4, <2>6
    <3> HIDE DEF new, full, before
    <3> QED BY <2>5, <3>1
  <2>8. order = Append(cache.order, s) /\ Len(order) = Len(cache.order) + 1
    BY <1>1, <2>3
  <2>9. k # Len(cache.order) + 1
    <3> SUFFICES ASSUME k = Len(cache.order) + 1 PROVE FALSE
      OBVIOUS
    <3>1. k - 1 = Len(cache.order)
      BY <1>1
    <3>2. FirstOf(cache.order, Len(cache.order)) \subseteq before
      BY <1>1, <2>8, <3>1 DEF FirstOf
    <3>3. old = {}
      BY <1>1, <2>5, <3>2
    <3>4. Cardinality(old) = 0
      BY <3>3, FS_EmptySet, Zenon
    <3> QED BY <2>4, <3>4, NumbersAssumption
  <2>10. order[k] \in FirstOf(cache.order, Len(cache.order))
    BY <1>1, <2>1, <2>8, <2>9 DEF FirstOf
  <2> HIDE DEF new, old, order
  <2> QED BY <2>3, <2>4, <2>7, <2>10 DEF new, old
<1> QED BY <1>4, <1>6, <1>7
\* An email that was looked up is stored, and stays at least as long as it
\* takes Set to return, unless an expired entry of the same subject left a
\* place in the order (identity_email_cache.go 74-82); for any number of
\* requests, subjects and entries.
THEOREM LookupsAreStored == Spec => StoredUnlessLeftover
<1> DEFINE A == \A r \in Requests :
                  inMemory /\ pc[r] = "store" /\ found[r] \in Emails /\ pc'[r] = "done" =>
                    \/ subject[r] \in DOMAIN emails'.entries
                    \/ /\ subject[r] \notin DOMAIN emails.entries
                       /\ subject[r] \in FirstOf(emails.order, Len(emails.order))
<1>1. IInv /\ [Next]_vars => [A]_vars
  <2> SUFFICES ASSUME IInv, Next, NEW r \in Requests,
                      inMemory, pc[r] = "store", found[r] \in Emails, pc'[r] = "done"
               PROVE  \/ subject[r] \in DOMAIN emails'.entries
                      \/ /\ subject[r] \notin DOMAIN emails.entries
                         /\ subject[r] \in FirstOf(emails.order, Len(emails.order))
    OBVIOUS
  <2>1. PICK q \in Requests : Resolve(q)
    BY DEF Next, Change, Tick
  <2>2. q = r
    BY <2>1 DEF Resolve, GetHits, GetMisses, NegativeHits, NegativeMisses, Lookup,
       LookupFails, Store, Return, Answer, IInv, TypeOK
  <2>3. Store(r)
    BY <2>1, <2>2 DEF Resolve, GetHits, GetMisses, NegativeHits, NegativeMisses, Lookup,
       LookupFails, Return
  <2> DEFINE e == [value |-> found[r], ttl |-> EmailTTL]
  <2>4. emails' = Put(emails, subject[r], e)
    BY <2>3, ConstantsAssumption DEF Store
  <2>5. subject[r] \in Subjects /\ GoodCache(emails)
    BY DEF IInv, TypeOK
  <2> HIDE DEF e
  <2>6. \/ DOMAIN emails'.entries = DOMAIN emails.entries \union {subject[r]}
        \/ /\ subject[r] \notin DOMAIN emails.entries
           /\ \E x \in FirstOf(emails.order, Len(emails.order)) :
                DOMAIN emails'.entries = (DOMAIN emails.entries \union {subject[r]}) \ {x}
    <3> DEFINE old == DOMAIN emails.entries
               new == DOMAIN Put(emails, subject[r], e).entries
    <3>1. \/ new = old \union {subject[r]}
          \/ /\ subject[r] \notin old
             /\ Cardinality(old) = MaxEntries
             /\ \E x \in FirstOf(emails.order, Len(emails.order)) :
                  new = (old \union {subject[r]}) \ {x}
      BY <2>5, PutDropsOne, SMTT(60)
    <3> QED BY <2>4, <3>1, Zenon
  <2> QED BY <2>6
<1> QED BY <1>1, Invariant, PTL DEF Spec, StoredUnlessLeftover

\* A live email is evicted only from a full map and alone, however many dead
\* places the eviction loop passes on its way (identity_email_cache.go 78-82).
THEOREM OnlyFullMapsEvict == Spec => OnlyFullEvicts
<1> DEFINE gone == {s \in DOMAIN emails.entries : Live(emails, s)} \ DOMAIN emails'.entries
           A == inMemory /\ gone # {} =>
                  /\ Cardinality(DOMAIN emails.entries) = MaxEntries
                  /\ Cardinality(gone) = 1
<1>1. IInv /\ [Next]_vars => [A]_vars
  <2> SUFFICES ASSUME IInv, Next, inMemory, gone # {}
               PROVE  Cardinality(DOMAIN emails.entries) = MaxEntries /\ Cardinality(gone) = 1
    OBVIOUS
  <2>1. ~ Tick
    <3>1. Tick => DOMAIN emails'.entries = DOMAIN emails.entries
      BY DEF Tick, Aged, IInv, TypeOK, IsCache
    <3> QED BY <3>1
  <2>2. ~ \E s \in Subjects, value \in Known \union {NoEmail} : Change(s, value)
    BY DEF Change
  <2>3. PICK r \in Requests : Resolve(r)
    BY <2>1, <2>2 DEF Next
  <2>4. \A s \in Subjects : ~ GetHits(r, s)
    BY DEF GetHits
  <2>5. \A s \in Subjects : ~ GetMisses(r, s)
    BY DEF GetMisses, AfterMiss, Remove, IInv, TypeOK, IsCache
  <2>6. Store(r)
    BY <2>3, <2>4, <2>5 DEF Resolve, NegativeHits, NegativeMisses, Lookup, LookupFails, Return
  <2> DEFINE e == [value |-> found[r], ttl |-> EmailTTL]
  <2>7. emails' = Put(emails, subject[r], e)
    BY <2>6 DEF Store
  <2>8. subject[r] \in Subjects /\ GoodCache(emails)
    BY <2>6 DEF IInv, TypeOK, Store
  <2> HIDE DEF e
  <2>9. \/ DOMAIN emails'.entries = DOMAIN emails.entries \union {subject[r]}
        \/ /\ Cardinality(DOMAIN emails.entries) = MaxEntries
           /\ \E x \in FirstOf(emails.order, Len(emails.order)) :
                DOMAIN emails'.entries = (DOMAIN emails.entries \union {subject[r]}) \ {x}
    BY <2>7, <2>8, PutDropsOne
  <2>10. DOMAIN emails'.entries # DOMAIN emails.entries \union {subject[r]}
    OBVIOUS
  <2>11. PICK x : DOMAIN emails'.entries = (DOMAIN emails.entries \union {subject[r]}) \ {x}
    BY <2>9, <2>10
  <2>12. gone = {x}
    BY <2>11
  <2> HIDE DEF gone
  <2>13. Cardinality(gone) = 1
    BY <2>12, FS_Singleton
  <2> QED BY <2>9, <2>10, <2>13
<1> QED BY <1>1, Invariant, PTL DEF Spec, OnlyFullEvicts
=============================================================================
