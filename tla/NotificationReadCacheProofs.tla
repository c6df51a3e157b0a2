-------------------- MODULE NotificationReadCacheProofs --------------------
(***************************************************************************)
(* Theorems about NotificationReadCache, for any readers, events, kinds of *)
(* reading and lifetimes.                                                  *)
(***************************************************************************)
EXTENDS NotificationReadCache, TLAPS

-----------------------------------------------------------------------------
(* The inductive invariant *)

\* The age of an event counts from the moment Core saw it.
AgesStart == \A e \in Events : e \notin Core => age[e] = 0

\* The events that Core's answer to kind k shows now.
Shown(k) == Core \intersect Regards[k]

\* What a copy lacks leaves it the rest of its life.
CopiesAreRecent ==
  \A x \in DOMAIN entries :
    /\ entries[x].ttl <= TTL[entries[x].asked]
    /\ entries[x].form # "zero" =>
         \A e \in Shown(entries[x].asked) \ entries[x].seen :
           age[e] + entries[x].ttl <= TTL[entries[x].asked] + ReqTime

\* What a request lacks has happened since it came.
RequestsAreRecent ==
  \A r \in Readers : pc[r] \in {"again", "set"} =>
    \A e \in Shown(kind[r]) \ seen[r] : age[e] <= waited[r]

\* A copy that nothing makes doubtful lies under no version to come, and under
\* the present one shows the marks.
CopiesShow ==
  \A x \in DOMAIN entries : ~ entries[x].doubtful =>
    /\ x[1] <= ver
    /\ x[1] = ver /\ entries[x].form # "zero" =>
         bumped \intersect Regards[entries[x].asked] \subseteq entries[x].seen

\* So does the answer of a request that no change of the version overlapped.
RequestsShow ==
  \A r \in Readers : ~ moved[r] =>
    /\ pc[r] \in {"get", "set"} => at[r] <= ver
    /\ pc[r] \in {"again", "set"} => bumped \intersect Regards[kind[r]] \subseteq seen[r]

IInv ==
  /\ TypeOK
  /\ AgesStart /\ bumped \subseteq Core
  /\ CopiesAreRecent /\ RequestsAreRecent
  /\ CopiesShow /\ RequestsShow

LEMMA Numbers ==
  /\ ReqTime \in Nat /\ VerTTL \in Nat /\ VerTTL # 0 /\ Cap \in Nat /\ Forever \notin Nat
  /\ Forever # 0
  /\ \A k \in Cacheable : TTL[k] \in Nat \ {0}
BY SetsAssumption, LifetimesAssumption DEF Cap

LEMMA InitIInv == Init => IInv
<1> SUFFICES ASSUME Init PROVE IInv
  OBVIOUS
<1>1. DOMAIN entries = {} /\ entries \in [{} -> Entry]
  BY DEF Init
<1>2. TypeOK
  BY <1>1, Numbers DEF Init, TypeOK, AnswerForms
<1> QED BY <1>1, <1>2 DEF Init, IInv, AgesStart, Core, CopiesAreRecent, RequestsAreRecent,
    CopiesShow, RequestsShow
-----------------------------------------------------------------------------
(* The requests that read *)

\* The part of the invariant that a reader does not touch.
Shared ==
  /\ epc \in [Events -> {"idle", "accepted", "incremented", "done"}]
  /\ age \in [Events -> 0 .. Cap]
  /\ ver \in Nat /\ verTTL \in Nat \union {Forever} /\ (ver = 0 <=> verTTL = 0)
  /\ bumped \subseteq Events /\ bumped \subseteq Core /\ AgesStart

Copies ==
  /\ \A x \in DOMAIN entries : x \in Nat \X {KeyText[entries[x].asked]}
  /\ entries \in [DOMAIN entries -> Entry]
  /\ CopiesAreRecent /\ CopiesShow

Requests ==
  /\ pc \in [Readers -> {"idle", "version", "get", "core", "again", "set", "done"}]
  /\ kind \in [Readers -> Kinds]
  /\ at \in [Readers -> Nat]
  /\ seen \in [Readers -> SUBSET Events]
  /\ form \in [Readers -> AnswerForms]
  /\ waited \in [Readers -> 0 .. ReqTime]
  /\ moved \in [Readers -> BOOLEAN]
  /\ \A r \in Readers : pc[r] \in {"version", "get", "again", "set"} => kind[r] \in Cacheable
  /\ RequestsAreRecent /\ RequestsShow

LEMMA Parts == IInv <=> Shared /\ Copies /\ Requests
BY DEF IInv, TypeOK, Shared, Copies, Requests

LEMMA PartsNext == Shared' /\ Copies' /\ Requests' => IInv'
BY DEF IInv, TypeOK, Shared, Copies, Requests

LEMMA SharedKept ==
  ASSUME Shared, UNCHANGED <<eventVars, versionVars>>
  PROVE  Shared' /\ Core' = Core
BY DEF Shared, eventVars, versionVars, AgesStart, Core

LEMMA CopiesKept ==
  ASSUME Copies, UNCHANGED <<eventVars, versionVars, entries>>
  PROVE  Copies'
BY DEF Copies, eventVars, versionVars, CopiesAreRecent, CopiesShow, Shown, Core

LEMMA ReadStep ==
  ASSUME IInv, NEW r \in Readers, Read(r)
  PROVE  IInv'
<1>1. Shared /\ Copies /\ Requests
  BY Parts
<1>2. UNCHANGED <<eventVars, versionVars>>
  BY DEF Read, Ask, ReadVersion, GetHits, GetMisses, CoreAnswers, CoreFails, File
<1>3. Shared' /\ Core' = Core
  BY <1>1, <1>2, SharedKept
<1>4. UNCHANGED <<epc, age, ver, bumped>>
  BY <1>2 DEF eventVars, versionVars
<1>5. CASE \E k \in Kinds : Ask(r, k)
  <2>1. Requests'
    BY <1>1, <1>3, <1>4, <1>5 DEF Requests, RequestsAreRecent, RequestsShow, Shown, AnswerForms, Ask, Goto
  <2> QED BY <1>1, <1>2, <1>3, <1>5, <2>1, CopiesKept, PartsNext DEF Ask
<1>6. CASE ReadVersion(r)
  <2>1. ver \in Nat
    BY <1>1 DEF Shared
  <2>2. Requests'
    BY <1>1, <1>3, <1>4, <1>6, <2>1 DEF Requests, RequestsAreRecent, RequestsShow, Shown, ReadVersion, Goto
  <2> QED BY <1>1, <1>2, <1>3, <1>6, <2>2, CopiesKept, PartsNext DEF ReadVersion
<1>7. CASE GetHits(r)
  <2>1. entries[Key(r)].seen \in SUBSET Events /\ entries[Key(r)].form \in AnswerForms
    <3>1. Key(r) \in DOMAIN entries /\ entries[Key(r)] \in Entry
      BY <1>1, <1>7 DEF Copies, GetHits
    <3> QED BY <3>1 DEF Entry, AnswerForms
  <2>2. Requests'
    BY <1>1, <1>3, <1>4, <1>7, <2>1, Numbers
       DEF Requests, RequestsAreRecent, RequestsShow, Shown, GetHits, End, Goto
  <2> QED BY <1>1, <1>2, <1>3, <1>7, <2>2, CopiesKept, PartsNext DEF GetHits
<1>8. CASE GetMisses(r)
  <2>1. Requests'
    BY <1>1, <1>3, <1>4, <1>8 DEF Requests, RequestsAreRecent, RequestsShow, Shown, GetMisses, Goto
  <2> QED BY <1>1, <1>2, <1>3, <1>8, <2>1, CopiesKept, PartsNext DEF GetMisses
<1>9. CASE CoreAnswers(r)
  <2> DEFINE asked == Shown(kind[r])
  <2>1. asked \in SUBSET Events /\ bumped \intersect Regards[kind[r]] \subseteq asked
    BY <1>1 DEF Shared, Core, Shown
  <2>2. /\ seen' = [seen EXCEPT ![r] = asked] /\ kind' = kind
        /\ form' \in [Readers -> AnswerForms]
    BY <1>1, <1>9 DEF CoreAnswers, Shown, AnswerForms, Requests, End
  <2> HIDE DEF asked
  <2>3. /\ \A q \in Readers : q # r => /\ pc'[q] = pc[q] /\ at'[q] = at[q]
                                      /\ waited'[q] = waited[q] /\ moved'[q] = moved[q]
        /\ pc' \in [Readers -> {"idle", "version", "get", "core", "again", "set", "done"}]
        /\ at' \in [Readers -> Nat]
        /\ waited' \in [Readers -> 0 .. ReqTime]
        /\ moved' \in [Readers -> BOOLEAN]
        /\ (pc'[r] = "again" /\ kind[r] \in Cacheable) \/ pc'[r] = "done"
    <3>1. 0 \in Nat /\ 0 \in 0 .. ReqTime /\ pc[r] = "core"
      BY <1>9, Numbers DEF CoreAnswers
    <3>2. CASE kind[r] \in Cacheable
      <4>1. pc' = [pc EXCEPT ![r] = "again"] /\ UNCHANGED <<at, waited, moved>>
        BY <1>9, <3>2 DEF CoreAnswers, Goto
      <4> QED BY <1>1, <3>2, <4>1 DEF Requests
    <3>3. CASE kind[r] \notin Cacheable
      <4>1. /\ pc' = [pc EXCEPT ![r] = "done"] /\ at' = [at EXCEPT ![r] = 0]
            /\ waited' = [waited EXCEPT ![r] = 0] /\ moved' = [moved EXCEPT ![r] = FALSE]
        BY <1>9, <3>3 DEF CoreAnswers, End, Goto
      <4> QED BY <1>1, <3>1, <4>1 DEF Requests
    <3> QED BY <3>2, <3>3
  <2>4. seen' \in [Readers -> SUBSET Events] /\ seen'[r] = asked
        /\ \A q \in Readers : q # r => seen'[q] = seen[q]
    BY <1>1, <2>1, <2>2 DEF Requests
  <2>5. RequestsAreRecent'
    BY <1>1, <1>3, <1>4, <2>2, <2>3, <2>4 DEF Requests, RequestsAreRecent, Shown, asked
  <2>6. RequestsShow'
    BY <1>1, <1>4, <2>1, <2>2, <2>3, <2>4 DEF Requests, RequestsShow
  <2>7. Requests'
    BY <1>1, <2>2, <2>3, <2>4, <2>5, <2>6 DEF Requests
  <2> QED BY <1>1, <1>2, <1>3, <1>9, <2>7, CopiesKept, PartsNext DEF CoreAnswers
<1>10. CASE CoreFails(r)
  <2>1. Requests'
    BY <1>1, <1>3, <1>4, <1>10, Numbers
       DEF Requests, RequestsAreRecent, RequestsShow, Shown, CoreFails, End, Goto
  <2> QED BY <1>1, <1>2, <1>3, <1>10, <2>1, CopiesKept, PartsNext DEF CoreFails
<1>11. CASE File(r)
  <2> DEFINE kept == UnreadCountFromCore(r)
             copy == [asked |-> kind[r], seen |-> kept.seen, form |-> kept.form,
                      ttl |-> TTL[kind[r]], doubtful |-> moved[r]]
             filed == [x \in DOMAIN entries \union {Key(r)} |->
                         IF x = Key(r) THEN copy ELSE entries[x]]
  <2>1. Requests'
    BY <1>1, <1>3, <1>4, <1>11, Numbers
       DEF Requests, RequestsAreRecent, RequestsShow, Shown, File, End, Goto
  <2>2. CASE entries' = entries
    BY <1>1, <1>2, <1>3, <2>1, <2>2, CopiesKept, PartsNext
  <2>3. CASE entries' = filed
    <3>1. /\ pc[r] = "set" /\ kind[r] \in Cacheable /\ at[r] \in Nat
          /\ seen[r] \in SUBSET Events /\ moved[r] \in BOOLEAN /\ waited[r] \in 0 .. ReqTime
          /\ Key(r) = <<at[r], KeyText[kind[r]]>>
      BY <1>1, <1>11 DEF Requests, File, Key
    <3>2. /\ kept.seen \in SUBSET Events /\ kept.form \in {"plain", "zero"}
          /\ kept.form # "zero" => kept.seen = seen[r]
      BY <3>1 DEF UnreadCountFromCore
    <3> HIDE DEF kept
    <3>3. /\ copy \in Entry /\ copy.asked = kind[r]
          /\ copy.seen = kept.seen /\ copy.form = kept.form
          /\ copy.ttl = TTL[kind[r]] /\ copy.doubtful = moved[r]
      BY <3>1, <3>2, Numbers DEF Entry
    <3>4. /\ DOMAIN entries' = DOMAIN entries \union {Key(r)}
          /\ entries'[Key(r)] = copy
          /\ \A x \in DOMAIN entries' : x # Key(r) => x \in DOMAIN entries /\ entries'[x] = entries[x]
      BY <2>3
    <3> HIDE DEF copy, filed
    <3>5. \A x \in DOMAIN entries' :
            entries'[x] \in Entry /\ x \in Nat \X {KeyText[entries'[x].asked]}
      <4> TAKE x \in DOMAIN entries'
      <4>1. CASE x = Key(r)
        BY <3>1, <3>3, <3>4, <4>1
      <4>2. CASE x # Key(r)
        BY <1>1, <3>4, <4>2 DEF Copies
      <4> QED BY <4>1, <4>2
    <3>6. entries' \in [DOMAIN entries' -> Entry]
      BY <2>3, <3>5 DEF filed
    <3>7. CopiesAreRecent'
      <4> SUFFICES ASSUME NEW x \in DOMAIN entries'
                   PROVE  /\ entries'[x].ttl <= TTL[entries'[x].asked]
                          /\ entries'[x].form # "zero" =>
                               \A e \in Shown(entries'[x].asked) \ entries'[x].seen :
                                 age[e] + entries'[x].ttl <= TTL[entries'[x].asked] + ReqTime
        BY <1>3, <1>4 DEF CopiesAreRecent, Shown
      <4>1. CASE x = Key(r)
        <5> SUFFICES ASSUME NEW e \in Shown(kind[r]) \ seen[r]
                     PROVE  age[e] + TTL[kind[r]] <= TTL[kind[r]] + ReqTime
          BY <3>1, <3>2, <3>3, <3>4, <4>1, Numbers
        <5>1. age[e] <= waited[r] /\ age[e] \in 0 .. Cap
          BY <1>1, <3>1 DEF Requests, RequestsAreRecent, Shared, Core, Shown
        <5> QED BY <3>1, <5>1, Numbers
      <4>2. CASE x # Key(r)
        BY <1>1, <3>4, <4>2 DEF Copies, CopiesAreRecent
      <4> QED BY <4>1, <4>2
    <3>8. CopiesShow'
      <4>1. ~ moved[r] => /\ at[r] <= ver
                          /\ bumped \intersect Regards[kind[r]] \subseteq seen[r]
        BY <1>1, <3>1 DEF Requests, RequestsShow
      <4>2. Key(r)[1] = at[r]
        BY <3>1
      <4> QED BY <1>1, <1>4, <3>2, <3>3, <3>4, <4>1, <4>2 DEF Copies, CopiesShow
    <3> QED BY <1>3, <2>1, <3>5, <3>6, <3>7, <3>8, PartsNext DEF Copies
  <2> QED BY <1>11, <2>2, <2>3 DEF File
<1> QED BY <1>5, <1>6, <1>7, <1>8, <1>9, <1>10, <1>11 DEF Read
-----------------------------------------------------------------------------
(* The events, and time *)

LEMMA HappensStep ==
  ASSUME IInv, NEW e \in Events, Mark(e) \/ Arrive(e)
  PROVE  IInv'
<1>1. /\ epc[e] = "idle"
      /\ epc' \in [Events -> {"idle", "accepted", "incremented", "done"}]
      /\ Core' = Core \union {e} /\ e \notin Core
      /\ UNCHANGED <<age, ver, verTTL, entries, readerVars, bumped>>
  BY DEF IInv, TypeOK, Mark, Arrive, Happens, Core, versionVars
<1>2. age[e] = 0
  BY <1>1 DEF IInv, AgesStart
<1>3. Shared'
  BY <1>1 DEF IInv, TypeOK, Shared, AgesStart
<1>4. Copies'
  <2>1. CopiesAreRecent'
    <3> SUFFICES ASSUME NEW x \in DOMAIN entries, entries[x].form # "zero",
                        NEW f \in Shown(entries[x].asked)' \ entries[x].seen
                 PROVE  age[f] + entries[x].ttl <= TTL[entries[x].asked] + ReqTime
      BY <1>1 DEF IInv, CopiesAreRecent
    <3>1. CASE f = e
      <4>1. entries[x] \in Entry /\ entries[x].ttl <= TTL[entries[x].asked]
        BY DEF IInv, TypeOK, CopiesAreRecent
      <4>2. entries[x].ttl \in Nat /\ TTL[entries[x].asked] \in Nat
        BY <4>1, Numbers DEF Entry
      <4> QED BY <1>2, <3>1, <4>1, <4>2, Numbers
    <3>2. CASE f # e
      <4>1. f \in Shown(entries[x].asked)
        BY <1>1, <3>2 DEF Shown
      <4> QED BY <4>1 DEF IInv, CopiesAreRecent
    <3> QED BY <3>1, <3>2
  <2>2. CopiesShow'
    BY <1>1 DEF IInv, CopiesShow
  <2> QED BY <1>1, <2>1, <2>2 DEF IInv, TypeOK, Copies
<1>5. Requests'
  <2>1. RequestsAreRecent'
    <3> SUFFICES ASSUME NEW r \in Readers, pc[r] \in {"again", "set"},
                        NEW f \in Shown(kind[r])' \ seen[r]
                 PROVE  age[f] <= waited[r]
      BY <1>1 DEF RequestsAreRecent, readerVars, Shown
    <3>1. waited[r] \in 0 .. ReqTime
      BY DEF IInv, TypeOK
    <3>2. f = e \/ f \in Shown(kind[r])
      BY <1>1 DEF Shown, readerVars
    <3> QED BY <1>2, <3>1, <3>2, Numbers DEF IInv, RequestsAreRecent
  <2>2. RequestsShow'
    BY <1>1 DEF IInv, RequestsShow, readerVars
  <2> QED BY <1>1, <2>1, <2>2 DEF IInv, TypeOK, Requests, readerVars
<1> QED BY <1>3, <1>4, <1>5, PartsNext

LEMMA IncrStep ==
  ASSUME IInv, NEW e \in Events, Incr(e)
  PROVE  IInv'
<1>1. /\ epc' \in [Events -> {"idle", "accepted", "incremented", "done"}]
      /\ Core' = Core /\ e \in Core
      /\ ver \in Nat /\ ver' = ver + 1 /\ bumped' = bumped \union {e}
      /\ UNCHANGED <<age, entries, pc, kind, at, seen, form, waited>>
  BY DEF IInv, TypeOK, Incr, Core
<1>2. verTTL' \in Nat \union {Forever} /\ verTTL' # 0
  BY Numbers DEF IInv, TypeOK, Incr
<1>3. moved' \in [Readers -> BOOLEAN] /\ \A r \in Readers : Busy(r) => moved'[r]
  BY DEF Incr, Busy
<1>4. Shared'
  BY <1>1, <1>2 DEF IInv, TypeOK, Shared, AgesStart
<1>5. Copies'
  <2>1. CopiesAreRecent'
    BY <1>1 DEF IInv, CopiesAreRecent, Shown
  <2>2. CopiesShow'
    <3> SUFFICES ASSUME NEW x \in DOMAIN entries, ~ entries[x].doubtful
                 PROVE  x[1] <= ver + 1 /\ x[1] # ver + 1
      BY <1>1 DEF CopiesShow
    <3>1. x[1] \in Nat /\ x[1] <= ver
      BY DEF IInv, TypeOK, CopiesShow
    <3> QED BY <1>1, <3>1
  <2> QED BY <1>1, <2>1, <2>2 DEF IInv, TypeOK, Copies
<1>6. Requests'
  <2>1. RequestsShow'
    BY <1>1, <1>3 DEF RequestsShow, Busy
  <2> QED BY <1>1, <1>3, <2>1 DEF IInv, TypeOK, Requests, RequestsAreRecent, Shown
<1> QED BY <1>4, <1>5, <1>6, PartsNext

\* An INCR that fails and an EXPIRE leave the version as it is.
LEMMA ExpireStep ==
  ASSUME IInv, NEW e \in Events, IncrFails(e) \/ Expire(e)
  PROVE  IInv'
<1>1. /\ epc' \in [Events -> {"idle", "accepted", "incremented", "done"}]
      /\ Core' = Core
      /\ UNCHANGED <<age, ver, entries, readerVars, bumped>>
  BY DEF IInv, TypeOK, IncrFails, Expire, Core, versionVars
<1>2. verTTL' \in Nat \union {Forever} /\ (ver = 0 <=> verTTL' = 0)
  BY Numbers DEF IInv, TypeOK, IncrFails, Expire, versionVars
<1>3. Shared'
  BY <1>1, <1>2 DEF IInv, TypeOK, Shared, AgesStart
<1>4. Copies'
  BY <1>1 DEF IInv, TypeOK, Copies, CopiesAreRecent, CopiesShow, Shown
<1>5. Requests'
  BY <1>1 DEF IInv, TypeOK, Requests, RequestsAreRecent, RequestsShow, Shown, readerVars
<1> QED BY <1>3, <1>4, <1>5, PartsNext

LEMMA TickStep ==
  ASSUME IInv, Tick
  PROVE  IInv'
<1> DEFINE lapses == verTTL = 1
           alive == {x \in DOMAIN entries : entries[x].ttl > 1}
<1>1. /\ Core' = Core
      /\ UNCHANGED <<epc, bumped, pc, kind, at, seen, form>>
      /\ \A e \in Events : /\ age[e] \in 0 .. Cap /\ age'[e] \in 0 .. Cap
                           /\ age'[e] <= age[e] + 1
                           /\ e \notin Core => age'[e] = age[e]
  <2>1. Core' = Core /\ UNCHANGED <<epc, bumped, pc, kind, at, seen, form>>
    BY DEF Tick, Core
  <2> SUFFICES ASSUME NEW e \in Events
               PROVE  /\ age[e] \in 0 .. Cap /\ age'[e] \in 0 .. Cap
                      /\ age'[e] <= age[e] + 1
                      /\ e \notin Core => age'[e] = age[e]
    BY <2>1
  <2>2. age[e] \in 0 .. Cap
    BY DEF IInv, TypeOK
  <2>3. age'[e] = IF e \in Core /\ age[e] < Cap THEN age[e] + 1 ELSE age[e]
    BY DEF Tick
  <2> QED BY <2>2, <2>3, Numbers
<1>2. age' \in [Events -> 0 .. Cap]
  BY <1>1 DEF Tick
<1>3. /\ ver \in Nat /\ ver' \in Nat
      /\ verTTL' \in Nat \union {Forever} /\ (ver' = 0 <=> verTTL' = 0)
      /\ ~ lapses => ver' = ver
  <2>1. /\ ver \in Nat /\ verTTL \in Nat \union {Forever} /\ (ver = 0 <=> verTTL = 0)
        /\ verTTL' = IF verTTL \in {0, Forever} THEN verTTL ELSE verTTL - 1
        /\ ver' = IF lapses THEN 0 ELSE ver
    BY DEF IInv, TypeOK, Tick
  <2>2. CASE verTTL \in {0, Forever}
    <3>1. verTTL' = verTTL /\ verTTL # 1
      BY <2>1, <2>2, Numbers
    <3> QED BY <2>1, <3>1
  <2>3. CASE verTTL \notin {0, Forever}
    <3>1. verTTL \in Nat /\ verTTL # 0 /\ verTTL' = verTTL - 1
      BY <2>1, <2>3
    <3> QED BY <2>1, <3>1
  <2> QED BY <2>2, <2>3
<1>4. Shared'
  BY <1>1, <1>2, <1>3 DEF IInv, TypeOK, Shared, AgesStart
<1>5. /\ DOMAIN entries' = alive /\ alive \subseteq DOMAIN entries
      /\ \A x \in alive :
           /\ x \in Nat \X {KeyText[entries[x].asked]}
           /\ entries[x] \in Entry
           /\ entries[x].ttl > 1
           /\ entries'[x] = [entries[x] EXCEPT !.ttl = @ - 1, !.doubtful = @ \/ lapses]
  BY DEF IInv, TypeOK, Tick
<1>6. \A x \in alive :
        /\ entries'[x] \in Entry
        /\ entries'[x].asked = entries[x].asked /\ entries'[x].seen = entries[x].seen
        /\ entries'[x].form = entries[x].form
        /\ entries'[x].ttl = entries[x].ttl - 1
        /\ ~ entries'[x].doubtful => ~ entries[x].doubtful /\ ~ lapses
  <2> SUFFICES ASSUME NEW x \in alive
               PROVE  /\ entries'[x] \in Entry
                      /\ entries'[x].asked = entries[x].asked /\ entries'[x].seen = entries[x].seen
                      /\ entries'[x].form = entries[x].form
                      /\ entries'[x].ttl = entries[x].ttl - 1
                      /\ ~ entries'[x].doubtful => ~ entries[x].doubtful /\ ~ lapses
    OBVIOUS
  <2> DEFINE c == entries[x]
             d == c.doubtful \/ lapses
  <2>1. c \in Entry /\ c.ttl > 1
    BY <1>5
  <2>2. d \in BOOLEAN /\ (~ d => ~ c.doubtful /\ ~ lapses)
    BY <2>1 DEF Entry
  <2>3. entries'[x] = [c EXCEPT !.ttl = c.ttl - 1, !.doubtful = d]
    BY <1>5
  <2> HIDE DEF c, d
  <2>4. entries'[x] = [asked |-> c.asked, seen |-> c.seen, form |-> c.form,
                       ttl |-> c.ttl - 1, doubtful |-> d]
    BY <2>1, <2>3 DEF Entry
  <2> QED BY <2>1, <2>2, <2>4 DEF c, Entry
<1> HIDE DEF alive
<1>7. Copies'
  <2>1. entries' \in [DOMAIN entries' -> Entry]
    <3>1. entries' = [x \in alive |-> entries'[x]]
      BY DEF Tick, alive
    <3> QED BY <1>5, <1>6, <3>1
  <2>2. \A x \in DOMAIN entries' : x \in Nat \X {KeyText[entries'[x].asked]}
    BY <1>5, <1>6
  <2>3. CopiesAreRecent'
    <3> SUFFICES ASSUME NEW x \in alive
                 PROVE  /\ entries'[x].ttl <= TTL[entries[x].asked]
                        /\ entries[x].form # "zero" =>
                             \A e \in Shown(entries[x].asked) \ entries[x].seen :
                               age'[e] + entries'[x].ttl <= TTL[entries[x].asked] + ReqTime
      BY <1>1, <1>5, <1>6 DEF CopiesAreRecent, Shown
    <3> DEFINE life == TTL[entries[x].asked]
    <3>1. /\ entries[x].ttl \in Nat /\ entries'[x].ttl = entries[x].ttl - 1
          /\ life \in Nat /\ entries[x].ttl <= life
      <4>1. entries[x].asked \in Cacheable /\ entries[x].ttl \in Nat
        BY <1>5 DEF Entry
      <4> QED BY <1>5, <1>6, <4>1, Numbers DEF IInv, CopiesAreRecent
    <3>2. ASSUME entries[x].form # "zero", NEW e \in Shown(entries[x].asked) \ entries[x].seen
          PROVE  age'[e] + entries'[x].ttl <= life + ReqTime
      <4>1. e \in Events /\ age[e] + entries[x].ttl <= life + ReqTime
        BY <1>5, <3>2 DEF IInv, CopiesAreRecent, Core, Shown
      <4>2. age[e] \in Nat /\ age'[e] \in Nat /\ age'[e] <= age[e] + 1
        BY <1>1, <4>1, Numbers
      <4> HIDE DEF life
      <4> QED BY <3>1, <4>1, <4>2, Numbers
    <3> QED BY <3>1, <3>2
  <2>4. CopiesShow'
    <3> SUFFICES ASSUME NEW x \in alive, ~ entries'[x].doubtful
                 PROVE  /\ x[1] <= ver'
                        /\ x[1] = ver' /\ entries[x].form # "zero" =>
                             bumped \intersect Regards[entries[x].asked] \subseteq entries[x].seen
      BY <1>1, <1>5, <1>6 DEF CopiesShow
    <3>1. ~ entries[x].doubtful /\ ver' = ver /\ x \in DOMAIN entries
      BY <1>3, <1>5, <1>6
    <3> QED BY <3>1 DEF IInv, CopiesShow
  <2> QED BY <2>1, <2>2, <2>3, <2>4 DEF Copies
<1>8. \A r \in Readers :
        /\ waited[r] \in 0 .. ReqTime /\ waited'[r] \in 0 .. ReqTime
        /\ Busy(r) => waited'[r] = waited[r] + 1
        /\ moved'[r] \in BOOLEAN
        /\ ~ moved'[r] => ~ moved[r] /\ (Busy(r) => ~ lapses)
  <2>1. \A r \in Readers :
          /\ waited[r] \in 0 .. ReqTime /\ waited'[r] \in 0 .. ReqTime
          /\ Busy(r) => waited'[r] = waited[r] + 1
    <3> SUFFICES ASSUME NEW r \in Readers
                 PROVE  /\ waited[r] \in 0 .. ReqTime /\ waited'[r] \in 0 .. ReqTime
                        /\ Busy(r) => waited'[r] = waited[r] + 1
      OBVIOUS
    <3>1. waited[r] \in 0 .. ReqTime
      BY DEF IInv, TypeOK
    <3>2. /\ waited'[r] = IF Busy(r) THEN waited[r] + 1 ELSE waited[r]
          /\ Busy(r) => waited[r] < ReqTime
      BY DEF Tick
    <3> QED BY <3>1, <3>2, Numbers
  <2>2. \A r \in Readers : moved'[r] = (moved[r] \/ (lapses /\ Busy(r)))
    BY DEF Tick
  <2> QED BY <2>1, <2>2
<1>9. Requests'
  <2>1. waited' \in [Readers -> 0 .. ReqTime] /\ moved' \in [Readers -> BOOLEAN]
    BY <1>8 DEF Tick
  <2>2. RequestsAreRecent'
    <3> SUFFICES ASSUME NEW r \in Readers, pc[r] \in {"again", "set"},
                        NEW e \in Shown(kind[r]) \ seen[r]
                 PROVE  age'[e] <= waited'[r]
      BY <1>1 DEF RequestsAreRecent, Shown
    <3>1. e \in Events /\ age[e] <= waited[r]
      BY DEF IInv, RequestsAreRecent, Core, Shown
    <3>2. age[e] \in Nat /\ age'[e] \in Nat /\ age'[e] <= age[e] + 1
      BY <1>1, <3>1, Numbers
    <3> QED BY <1>8, <3>1, <3>2, Numbers DEF Busy
  <2>3. RequestsShow'
    BY <1>1, <1>3, <1>8 DEF IInv, RequestsShow, Busy
  <2> QED BY <1>1, <2>1, <2>2, <2>3 DEF IInv, TypeOK, Requests
<1> QED BY <1>4, <1>7, <1>9, PartsNext
-----------------------------------------------------------------------------
LEMMA StepIInv == IInv /\ [Next]_vars => IInv'
<1> SUFFICES ASSUME IInv, [Next]_vars PROVE IInv'
  OBVIOUS
<1>1. CASE UNCHANGED vars
  <2>1. Shared' /\ Copies'
    BY <1>1, Parts, SharedKept, CopiesKept DEF vars
  <2>2. Requests'
    BY <1>1, Parts DEF vars, readerVars, eventVars, versionVars, Requests, RequestsAreRecent,
       RequestsShow, Shown, Core
  <2> QED BY <2>1, <2>2, PartsNext
<1>2. ASSUME NEW r \in Readers, Read(r) PROVE IInv'
  BY <1>2, ReadStep
<1>3. ASSUME NEW e \in Events, Change(e) PROVE IInv'
  BY <1>3, HappensStep, IncrStep, ExpireStep DEF Change
<1>4. CASE Tick
  BY <1>4, TickStep
<1> QED BY <1>1, <1>2, <1>3, <1>4 DEF Next

LEMMA Invariant == Spec => []IInv
BY InitIInv, StepIInv, PTL DEF Spec

\* What the version key, the copies and the requests hold.
THEOREM ReadCacheTypes == Spec => []TypeOK
<1>1. IInv => TypeOK
  BY DEF IInv
<1> QED BY <1>1, Invariant, PTL

\* After InvalidateUser a copy that lacks a mark it is about is met only if its
\* read overlapped a change of the version key, the key has lapsed since, or
\* unreadCountFromCore made it a zero.
THEOREM InvalidationShowsMarks == Spec => []MarksAreShown
<1>1. IInv => MarksAreShown
  BY DEF IInv, CopiesShow, MarksAreShown
<1> QED BY <1>1, Invariant, PTL

-----------------------------------------------------------------------------
(* Refinement of RecentReads *)

\* Nothing is shown that Core has not seen or that was not asked for.
ShowsStored ==
  /\ \A x \in DOMAIN entries : entries[x].seen \subseteq Shown(entries[x].asked)
  /\ \A r \in Readers : pc[r] \in {"again", "set"} => seen[r] \subseteq Shown(kind[r])

LEMMA CoreGrows ==
  ASSUME TypeOK, [Next]_vars
  PROVE  Core \subseteq Core'
BY DEF TypeOK, Next, vars, Read, Change, Ask, ReadVersion, GetHits, GetMisses, CoreAnswers,
       CoreFails, File, Mark, Arrive, Happens, Incr, IncrFails, Expire, Tick, eventVars, Core

LEMMA ShowsStoredStep ==
  ASSUME TypeOK, ShowsStored, [Next]_vars
  PROVE  ShowsStored'
<1> USE DEF TypeOK, ShowsStored
<1>1. \A k : Shown(k) \subseteq Shown(k)'
  BY CoreGrows DEF Shown
<1>2. ASSUME NEW r \in Readers, CoreAnswers(r)
      PROVE  ShowsStored'
  BY <1>1, <1>2 DEF CoreAnswers, End, Goto, Shown
<1>3. ASSUME NEW r \in Readers, File(r)
      PROVE  ShowsStored'
  <2>1. \A x \in DOMAIN entries' :
          \/ x \in DOMAIN entries /\ entries'[x] = entries[x]
          \/ entries'[x].asked = kind[r] /\ entries'[x].seen \subseteq seen[r]
    BY <1>3 DEF File, UnreadCountFromCore
  <2>2. pc[r] = "set" /\ UNCHANGED <<kind, seen>> /\ pc' = [pc EXCEPT ![r] = "done"]
    BY <1>3 DEF File, End, Goto
  <2> QED BY <1>1, <2>1, <2>2
<1>4. ASSUME NEW r \in Readers,
             \/ \E k \in Kinds : Ask(r, k)
             \/ ReadVersion(r) \/ GetHits(r) \/ GetMisses(r) \/ CoreFails(r)
      PROVE  ShowsStored'
  <2>1. /\ UNCHANGED entries
        /\ pc'[r] \in {"again", "set"} => pc[r] = "again" /\ UNCHANGED <<kind, seen>>
        /\ \A q \in Readers \ {r} : UNCHANGED <<pc[q], kind[q], seen[q]>>
    <3>1. CASE \E k \in Kinds : Ask(r, k)
      <4>1. PICK k \in Kinds : Ask(r, k)
        BY <3>1
      <4>2. /\ UNCHANGED entries /\ kind' = [kind EXCEPT ![r] = k] /\ seen' = [seen EXCEPT ![r] = {}]
            /\ \E p \in {"version", "core"} : pc' = [pc EXCEPT ![r] = p]
        BY <4>1 DEF Ask, Goto
      <4> QED BY <4>2
    <3>2. CASE ReadVersion(r)
      BY <3>2 DEF ReadVersion, Goto
    <3>3. CASE GetHits(r) \/ GetMisses(r) \/ CoreFails(r)
      <4>1. /\ UNCHANGED <<entries, kind>>
            /\ \E p \in {"done", "core", "idle"} : pc' = [pc EXCEPT ![r] = p]
            /\ \A q \in Readers \ {r} : UNCHANGED seen[q]
        BY <3>3 DEF GetHits, GetMisses, CoreFails, End, Goto
      <4> QED BY <4>1
    <3> QED BY <1>4, <3>1, <3>2, <3>3
  <2> QED BY <1>1, <2>1
<1>5. CASE Tick
  <2>1. UNCHANGED <<pc, kind, seen>>
    BY <1>5 DEF Tick
  <2> SUFFICES ASSUME NEW x \in DOMAIN entries'
               PROVE  /\ x \in DOMAIN entries
                      /\ entries'[x].asked = entries[x].asked /\ entries'[x].seen = entries[x].seen
    BY <1>1, <2>1
  <2> DEFINE c == entries[x]
  <2>2. x \in DOMAIN entries /\ c \in Entry
    BY <1>5 DEF Tick
  <2>3. entries'[x] = [c EXCEPT !.ttl = c.ttl - 1, !.doubtful = c.doubtful \/ verTTL = 1]
    BY <1>5 DEF Tick
  <2> HIDE DEF c
  <2> QED BY <2>2, <2>3 DEF c, Entry
<1>6. CASE (\E e \in Events : Change(e)) \/ UNCHANGED vars
  <2>1. UNCHANGED <<entries, pc, kind, seen>>
    BY <1>6 DEF Change, Mark, Arrive, Happens, Incr, IncrFails, Expire, vars, readerVars
  <2> QED BY <1>1, <2>1
<1> QED BY <1>2, <1>3, <1>4, <1>5, <1>6 DEF Next, Read

RefinementInv == IInv /\ ShowsStored

\* RecentReads' variables, read off those of NotificationReadCache.
absStored == [e \in Core |-> e]
absAnswer == [r \in Readers |-> Answered(r)]

LEMMA AskedIsShown == \A k : Recent!Asked(k) = Shown(k)
BY DEF Recent!Asked, About, Shown

\* What one request is answered the others are not.
LEMMA OthersKeepTheirAnswers ==
  ASSUME NEW r \in Readers, NEW a, Answered(r)' = a,
         \A q \in Readers \ {r} : UNCHANGED <<pc[q], kind[q], seen[q], form[q]>>
  PROVE  absAnswer' = [absAnswer EXCEPT ![r] = a]
BY DEF absAnswer, Answered

LEMMA RecentAnswer ==
  ASSUME TypeOK, NEW r \in Readers, NEW p \in Kinds, NEW shown \in SUBSET Events,
         Alike(kind[r], p), shown \subseteq Shown(p),
         \A e \in Shown(p) \ shown : age[e] < MaxAge(kind[r]),
         absAnswer' = [absAnswer EXCEPT ![r] = [query |-> kind[r], rows |-> shown]],
         UNCHANGED <<epc, age>>
  PROVE  Recent!Next
<1>1. PICK k \in Kinds : k = kind[r]
  BY DEF TypeOK
<1>2. absStored' = absStored
  BY DEF absStored, Core
<1>3. Recent!Answer(r, k, shown)
  BY <1>1, <1>2, AskedIsShown DEF Recent!Answer, absAnswer, absStored
<1> QED BY <1>3 DEF Recent!Next

LEMMA RecentReadStep ==
  ASSUME RefinementInv, NEW r \in Readers, Read(r)
  PROVE  Recent!Next \/ UNCHANGED <<absStored, age, absAnswer>>
<1> USE DEF RefinementInv, IInv, TypeOK
<1>1. UNCHANGED <<epc, age, absStored>>
  BY DEF Read, Ask, ReadVersion, GetHits, GetMisses, CoreAnswers, CoreFails, File,
         eventVars, absStored, Core
<1>2. \A q \in Readers \ {r} : UNCHANGED <<pc[q], kind[q], seen[q], form[q]>>
  BY DEF Read, Ask, ReadVersion, GetHits, GetMisses, CoreAnswers, CoreFails, File, End, Goto
<1>3. CASE pc'[r] # "done" \/ form'[r] = "zero"
  <2>1. Answered(r)' = None
    BY <1>3 DEF Answered
  <2>2. absAnswer' = [absAnswer EXCEPT ![r] = None]
    BY <1>2, <2>1, OthersKeepTheirAnswers
  <2>3. Recent!Clear(r)
    BY <1>1, <2>2 DEF Recent!Clear, absAnswer, absStored
  <2> QED BY <2>3 DEF Recent!Next
<1>4. CASE pc'[r] = "done" /\ form'[r] # "zero"
  <2>1. GetHits(r) \/ (CoreAnswers(r) /\ kind[r] \notin Cacheable) \/ File(r)
    BY <1>4 DEF Read, Ask, ReadVersion, GetMisses, CoreAnswers, CoreFails, End, Goto
  <2>2. kind'[r] = kind[r] /\ Answered(r)' = [query |-> kind[r], rows |-> seen'[r]]
    BY <1>4, <2>1 DEF GetHits, CoreAnswers, File, Answered
  <2>3. PICK shown : shown = seen'[r]
    OBVIOUS
  <2>4. absAnswer' = [absAnswer EXCEPT ![r] = [query |-> kind[r], rows |-> shown]]
    BY <1>2, <2>2, <2>3, OthersKeepTheirAnswers
  \* The kind that the answer is of: on a hit the copy's, otherwise the reader's.
  <2>5. \E p \in Kinds :
          /\ Alike(kind[r], p) /\ shown \subseteq Shown(p)
          /\ \A e \in Shown(p) \ shown : age[e] < MaxAge(kind[r])
    <3>1. CASE GetHits(r)
      <4>1. PICK x \in DOMAIN entries : x = Key(r)
        BY <3>1 DEF GetHits
      <4>2. entries[x] \in Entry /\ x \in Nat \X {KeyText[entries[x].asked]}
        OBVIOUS
      <4>3. PICK p \in Cacheable : p = entries[x].asked
        BY <4>2 DEF Entry
      <4>4. /\ kind[r] \in Cacheable /\ x = <<at[r], KeyText[kind[r]]>>
            /\ shown = entries[x].seen /\ entries[x].form # "zero"
        BY <1>4, <2>3, <3>1, <4>1 DEF GetHits, Key
      <4>5. KeyText[p] = KeyText[kind[r]]
        BY <4>2, <4>3, <4>4
      <4>6. TTL[p] = TTL[kind[r]] /\ TTL[p] \in Nat \ {0} /\ MaxAge(kind[r]) = TTL[p] + ReqTime
        BY <4>4, <4>5, LifetimesAssumption DEF MaxAge
      <4>7. ASSUME NEW e \in Shown(p) \ shown
            PROVE  age[e] < MaxAge(kind[r])
        <5>1. age[e] + entries[x].ttl <= TTL[p] + ReqTime
          BY <4>3, <4>4 DEF CopiesAreRecent
        <5>2. e \in Events /\ age[e] \in Nat /\ entries[x].ttl \in Nat \ {0}
          BY <4>2, Numbers DEF Core, Shown, Entry
        <5> HIDE DEF RefinementInv, IInv, TypeOK
        <5> QED BY <4>6, <5>1, <5>2, Numbers
      <4>8. Alike(kind[r], p) /\ p \in Kinds /\ shown \subseteq Shown(p)
        BY <4>3, <4>4, <4>5, SetsAssumption DEF Alike, ShowsStored
      <4> QED BY <4>7, <4>8
    <3>2. CASE CoreAnswers(r) /\ kind[r] \notin Cacheable
      <4>1. shown = Shown(kind[r])
        BY <2>3, <3>2 DEF CoreAnswers, Shown
      <4> QED BY <3>2, <4>1 DEF Alike
    <3>3. CASE File(r)
      <4>1. /\ pc[r] = "set" /\ shown = seen[r] /\ kind[r] \in Cacheable
            /\ waited[r] \in 0 .. ReqTime
        BY <2>3, <3>3 DEF File
      <4>2. TTL[kind[r]] \in Nat \ {0} /\ MaxAge(kind[r]) = TTL[kind[r]] + ReqTime
        BY <4>1, Numbers DEF MaxAge
      <4>3. ASSUME NEW e \in Shown(kind[r]) \ shown
            PROVE  age[e] < MaxAge(kind[r])
        <5>1. age[e] <= waited[r]
          BY <4>1, <4>3 DEF RequestsAreRecent
        <5>2. e \in Events /\ age[e] \in Nat
          BY Numbers DEF Core, Shown
        <5> HIDE DEF RefinementInv, IInv, TypeOK
        <5> QED BY <4>1, <4>2, <5>1, <5>2, Numbers
      <4>4. Alike(kind[r], kind[r]) /\ kind[r] \in Kinds /\ shown \subseteq Shown(kind[r])
        BY <4>1 DEF Alike, ShowsStored
      <4> QED BY <4>3, <4>4
    <3> QED BY <2>1, <3>1, <3>2, <3>3
  <2>6. shown \in SUBSET Events
    BY <2>5 DEF Shown, Core
  <2> QED BY <1>1, <2>4, <2>5, <2>6, RecentAnswer
<1> QED BY <1>3, <1>4

LEMMA RecentOtherStep ==
  ASSUME RefinementInv, (\E e \in Events : Change(e)) \/ Tick \/ UNCHANGED vars
  PROVE  Recent!Next \/ UNCHANGED <<absStored, age, absAnswer>>
<1> USE DEF RefinementInv, IInv, TypeOK
<1>1. UNCHANGED absAnswer
  BY DEF Change, Mark, Arrive, Happens, Incr, IncrFails, Expire, Tick, vars, readerVars,
         absAnswer, Answered
<1>2. CASE Tick
  <2>1. Recent!GrowOlder
    BY <1>1, <1>2 DEF Tick, Recent!GrowOlder, absAnswer, Core
  <2> QED BY <2>1 DEF Recent!Next
<1>3. ASSUME NEW e \in Events, Mark(e) \/ Arrive(e)
      PROVE  Recent!Next
  <2>1. e \notin Core /\ Core' = Core \union {e} /\ UNCHANGED age
    BY <1>3 DEF Mark, Arrive, Happens, Core
  <2>2. Recent!Store(e, e)
    BY <1>1, <2>1 DEF Recent!Store, absAnswer
  <2> QED BY <2>2 DEF Recent!Next
<1>4. CASE (\E e \in Events : Incr(e) \/ IncrFails(e) \/ Expire(e)) \/ UNCHANGED vars
  <2>1. UNCHANGED <<age, Core>>
    BY <1>4 DEF Incr, IncrFails, Expire, vars, eventVars, Core
  <2> QED BY <1>1, <2>1 DEF absStored
<1> QED BY <1>2, <1>3, <1>4 DEF Change

\* The reads of notifications keep RecentReads' promise: with any failure of
\* Redis and Core, and any marks and reads meanwhile, an answer is that to one
\* kind of reading with the same key text; it shows only what Core has seen of
\* it, and of that all but what is younger than a copy's lifetime and one
\* request; a later page shows all.  Nothing is said of the zeros that
\* unreadCountFromCore makes of counts it cannot read.
THEOREM NotificationsAreRecent == Spec => ImplementsRecentReads
<1>1. Init => RefinementInv /\ Recent!Init
  <2>1. Init => ShowsStored
    BY DEF Init, ShowsStored
  <2>2. Init => Recent!Init
    BY DEF Init, Recent!Init, Answered, Core
  <2> QED BY <2>1, <2>2, InitIInv DEF RefinementInv
<1>2. RefinementInv /\ [Next]_vars => RefinementInv'
  BY StepIInv, ShowsStoredStep DEF RefinementInv, IInv
<1>3. RefinementInv /\ [Next]_vars => [Recent!Next]_<<absStored, age, absAnswer>>
  BY RecentReadStep, RecentOtherStep DEF Next
<1> QED BY <1>1, <1>2, <1>3, PTL
        DEF Spec, ImplementsRecentReads, Recent!Spec, absStored, absAnswer
=============================================================================
