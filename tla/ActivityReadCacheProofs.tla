----------------------- MODULE ActivityReadCacheProofs -----------------------
(***************************************************************************)
(* Theorems about ActivityReadCache, for any set of requests and scopes.   *)
(***************************************************************************)
EXTENDS ActivityReadCache, TLAPS

\* What InvalidateScopes bumps for a payload are scopes.
LEMMA InvalidatesScopes ==
  ASSUME NEW p \in Payloads
  PROVE  InvalidateScopes(ScopeIDsFromPayload(p)) \in Seq(Scopes)
<1>1. ScopeIDsFromPayload(p).loan \in Loans \union {None}
  <2>1. CASE p.loan_ids # <<>>
    <3>1. p.loan_ids[1] \in Loans
      BY <2>1 DEF Payloads
    <3> QED BY <3>1 DEF Payloads, ScopeIDsFromPayload
  <2>2. CASE p.loan_ids = <<>>
    BY <2>2 DEF Payloads, ScopeIDsFromPayload
  <2> QED BY <2>1, <2>2
<1>2. ScopeIDsFromPayload(p).client \in Clients \union {None}
  BY DEF Payloads, ScopeIDsFromPayload
<1> DEFINE ids == ScopeIDsFromPayload(p)
           a == IF ids.loan = None THEN <<>> ELSE <<ids.loan>>
           b == IF ids.client = None THEN <<>> ELSE <<ids.client>>
<1>3. a \in Seq(Scopes) /\ b \in Seq(Scopes)
  <2>1. \A x \in Scopes : <<x>> \in Seq(Scopes)
    OBVIOUS
  <2>2. ids.loan # None => ids.loan \in Scopes
    BY <1>1 DEF Scopes
  <2>3. ids.client # None => ids.client \in Scopes
    BY <1>2 DEF Scopes
  <2> HIDE DEF ids
  <2> QED BY <2>1, <2>2, <2>3
<1>4. a \o b \in Seq(Scopes)
  <2> HIDE DEF a, b
  <2> QED BY <1>3
<1>5. <<>> \in Seq(Scopes)
  OBVIOUS
<1> QED BY <1>4, <1>5 DEF InvalidateScopes

\* A batch keeps its activity, and of its own fields the loan ids alone.
LEMMA NormalizedBatch ==
  ASSUME NEW r \in Requests
  PROVE  LET b == NormalizeActivityBatchPayload(r)
         IN  /\ b.payload \in Payloads /\ b.payload.list_type = "[]string"
             /\ b.payload.loan_id = None /\ b.payload.client_id = None
             /\ b.activity = r.activity /\ r.activity \in Payloads
<1>1. r \in CreateRequests
  BY ConstantsAssumption
<1> QED BY <1>1 DEF CreateRequests, NormalizeActivityBatchPayload, Payloads

\* The version keys that follow a create are those of its scopes.
LEMMA InvalidationsAreScopes ==
  ASSUME NEW r \in Requests
  PROVE  InvalidationsOf(r) \in Seq(Scopes)
<1>1. r.payload \in Payloads
  BY ConstantsAssumption DEF CreateRequests
<1>2. CASE r.kind = "single"
  BY <1>1, <1>2, InvalidatesScopes DEF InvalidationsOf
<1>3. CASE r.kind = "escalation"
  <2>1. <<>> \in Seq(Scopes)
    OBVIOUS
  <2> QED BY <1>3, <2>1 DEF InvalidationsOf
<1>4. CASE r.kind \notin {"single", "escalation"}
  <2> DEFINE norm == NormalizeActivityBatchPayload(r)
             a == InvalidateScopes(ScopeIDsFromPayload(norm.payload))
             b == InvalidateScopes(ScopeIDsFromPayload(norm.activity))
             c == IF norm.payload.list_type = "[]any" /\ Tenant # None
                  THEN norm.payload.loan_ids ELSE <<>>
  <2>1. a \in Seq(Scopes) /\ b \in Seq(Scopes)
    BY NormalizedBatch, InvalidatesScopes
  <2>2. c \in Seq(Scopes)
    <3>1. c = <<>>
      BY NormalizedBatch
    <3>2. <<>> \in Seq(Scopes)
      OBVIOUS
    <3> HIDE DEF c
    <3> QED BY <3>1, <3>2
  <2>3. (a \o b) \o c \in Seq(Scopes)
    <3> HIDE DEF a, b, c
    <3>1. a \o b \in Seq(Scopes)
      BY <2>1
    <3> QED BY <2>2, <3>1
  <2> QED BY <1>4, <2>3 DEF InvalidationsOf
<1> QED BY <1>2, <1>3, <1>4

-----------------------------------------------------------------------------
(* Type correctness *)

LEMMA NoVersionsAreVersions == Versions(NoVersions)
BY DEF Versions, NoVersions

LEMMA InitTypeOK == Init => TypeOK
<1> SUFFICES ASSUME Init PROVE TypeOK
  OBVIOUS
<1>1. CoreOK
  BY TimeAssumption DEF Init, CoreOK, AgeCap
<1>2. RedisOK
  BY TimeAssumption DEF Init, RedisOK, Forever, AgeCap
<1>3. ControlOK
  BY TimeAssumption DEF Init, ControlOK, Procs, ReaderSteps, WriterSteps
<1>4. ReaderOK
  BY NoVersionsAreVersions DEF Init, ReaderOK, Procs
<1>5. WriterOK
  <2>1. <<>> \in Seq(Scopes)
    OBVIOUS
  <2> QED BY <2>1 DEF Init, WriterOK, Procs
<1> QED BY <1>1, <1>2, <1>3, <1>4, <1>5 DEF TypeOK

LEMMA StartListTypeOK ==
  ASSUME TypeOK, NEW r \in Readers, NEW q \in Queries, StartList(r, q)
  PROVE  TypeOK'
<1> USE DEF TypeOK, StartList
<1>1. CoreOK' /\ RedisOK'
  BY DEF coreVars, redisVars, CoreOK, RedisOK, IsKey, IsEntry, Versions, ListKey, Printed, AgeCap, Forever
<1>2. ControlOK'
  BY ConstantsAssumption, TimeAssumption
  DEF ControlOK, Goto, Procs, ReaderSteps, WriterSteps
<1>3. ReaderOK'
  BY ConstantsAssumption DEF ReaderOK, ControlOK, Goto, Procs, Versions, NoVersions
<1>4. WriterOK'
  BY ConstantsAssumption DEF WriterOK, ControlOK, Goto, Procs, writerVars
<1> QED BY <1>1, <1>2, <1>3, <1>4

LEMMA RespondTypeOK ==
  ASSUME TypeOK, NEW r \in Readers, NEW res \in Answers \union {None}, Respond(r, res)
  PROVE  /\ ControlOK' /\ ReaderOK'
         /\ UNCHANGED writerVars => WriterOK'
<1> USE DEF TypeOK, Respond, Goto
<1>1. ControlOK'
  BY ConstantsAssumption, TimeAssumption DEF ControlOK, Procs, ReaderSteps, WriterSteps
<1>2. ReaderOK'
  BY ConstantsAssumption, NoVersionsAreVersions DEF ReaderOK, ControlOK, Procs
<1>3. UNCHANGED writerVars => WriterOK'
  BY ConstantsAssumption DEF WriterOK, ControlOK, Procs, writerVars
<1> QED BY <1>1, <1>2, <1>3

LEMMA ReadVersionsTypeOK ==
  ASSUME TypeOK, NEW r \in Readers, ReadVersions(r)
  PROVE  TypeOK'
<1> USE DEF TypeOK
<1>1. pc[r] \in {"getVersions", "setVersions"} /\ query[r] \in Queries
  BY DEF ReadVersions, ReaderOK
<1>0. PICK s \in query[r].scopes \ DOMAIN seen[r] :
        /\ \E v \in {ver[s], 0} : ReadVersion(r, s, v)
        /\ UNCHANGED pc \/ Goto(r, "getList") \/ Goto(r, "setList")
  BY DEF ReadVersions
<1>2. PICK v \in {ver[s], 0} :
        seen' = [seen EXCEPT ![r] = [t \in DOMAIN seen[r] \union {s} |->
                                       IF t = s THEN v ELSE seen[r][t]]]
  BY <1>0 DEF ReadVersion
<1>3. UNCHANGED <<coreVars, redisVars, left, query, rows, coreVer, answer, writerVars>>
  BY DEF ReadVersions
<1>4. s \in Scopes /\ v \in Nat
  BY <1>1, ConstantsAssumption DEF RedisOK
<1>5. CoreOK' /\ RedisOK'
  BY <1>3 DEF coreVars, redisVars, CoreOK, RedisOK, IsKey, IsEntry, Versions, ListKey, Printed
<1>6. ControlOK'
  BY <1>0, <1>3, ConstantsAssumption DEF ControlOK, Goto, Procs, ReaderSteps, WriterSteps
<1>7. ReaderOK'
  <2>1. Versions(seen'[r])
    BY <1>2, <1>4 DEF ReaderOK, Versions
  <2> QED BY <1>0, <1>1, <1>2, <1>3, <2>1, ConstantsAssumption DEF ReaderOK, ControlOK, Goto, Procs
<1>8. WriterOK'
  BY <1>0, <1>3, ConstantsAssumption DEF WriterOK, ControlOK, Goto, Procs, writerVars
<1> QED BY <1>5, <1>6, <1>7, <1>8

LEMMA GetListTypeOK ==
  ASSUME TypeOK, NEW r \in Readers, GetListHit(r) \/ GetListMiss(r)
  PROVE  TypeOK'
<1> USE DEF TypeOK
<1>1. CoreOK' /\ RedisOK'
  BY DEF GetListHit, GetListMiss, coreVars, redisVars, CoreOK, RedisOK, IsKey, IsEntry, Versions, ListKey, Printed
<1>2. CASE GetListHit(r)
  <2> DEFINE res == [query |-> query[r], rows |-> lists[KeyOf(r)].rows]
  <2>1. res \in Answers
    BY <1>2 DEF GetListHit, Answers, ReaderOK, RedisOK, IsEntry
  <2>2. Respond(r, res) /\ UNCHANGED writerVars
    BY <1>2 DEF GetListHit
  <2> HIDE DEF res
  <2> QED BY <1>1, <2>1, <2>2, RespondTypeOK
<1>3. CASE GetListMiss(r)
  <2> USE <1>3 DEF GetListMiss, Goto
  <2>1. ControlOK'
    BY ConstantsAssumption DEF ControlOK, Procs, ReaderSteps, WriterSteps
  <2>2. ReaderOK'
    BY ConstantsAssumption DEF ReaderOK, ControlOK, Procs, readerVars, Versions
  <2>3. WriterOK'
    BY ConstantsAssumption DEF WriterOK, ControlOK, Procs, writerVars
  <2> QED BY <1>1, <2>1, <2>2, <2>3
<1> QED BY <1>2, <1>3

LEMMA CoreAnswersTypeOK ==
  ASSUME TypeOK, NEW r \in Readers, CoreLists(r) \/ CoreListFails(r)
  PROVE  TypeOK'
<1> USE DEF TypeOK
<1> DEFINE found == {w \in committed : Matches(query[r], req[w])}
           res == [query |-> query[r], rows |-> found]
<1>1. CoreOK' /\ RedisOK'
  BY DEF CoreLists, CoreListFails, coreVars, redisVars, CoreOK, RedisOK, IsKey,
         IsEntry, Versions, ListKey, Printed
<1>2. query[r] \in Queries /\ found \subseteq Writers
  BY DEF CoreLists, CoreListFails, ReaderOK, CoreOK
<1>3. CASE CoreListFails(r)
  <2>1. Respond(r, None) /\ UNCHANGED writerVars
    BY <1>3 DEF CoreListFails
  <2> QED BY <1>1, <2>1, RespondTypeOK
<1>4. CASE CoreLists(r) /\ ~CacheableList(query[r])
  <2>1. Respond(r, res) /\ UNCHANGED writerVars
    BY <1>4 DEF CoreLists
  <2>2. res \in Answers
    BY <1>2 DEF Answers
  <2> HIDE DEF res
  <2> QED BY <1>1, <2>1, <2>2, RespondTypeOK
<1>5. CASE CoreLists(r) /\ CacheableList(query[r])
  <2>1. /\ Goto(r, "setVersions")
        /\ rows' = [rows EXCEPT ![r] = found]
        /\ seen' = [seen EXCEPT ![r] = NoVersions]
        /\ coreVer' = [coreVer EXCEPT ![r] = [s \in query[r].scopes |-> ver[s]]]
        /\ UNCHANGED <<left, query, answer, req, todo, bumped>>
    BY <1>5 DEF CoreLists, writerVars
  <2>2. ControlOK'
    BY <2>1, ConstantsAssumption DEF ControlOK, Goto, Procs, ReaderSteps, WriterSteps
  <2>3. Versions([s \in query[r].scopes |-> ver[s]])
    BY <1>2, ConstantsAssumption DEF RedisOK, Versions
  <2>4. ReaderOK'
    <3> HIDE DEF found
    <3> QED BY <1>2, <2>1, <2>3, ConstantsAssumption, NoVersionsAreVersions
            DEF ReaderOK, ControlOK, Goto, Procs
  <2>5. WriterOK'
    BY <2>1, ConstantsAssumption DEF WriterOK, ControlOK, Goto, Procs
  <2> QED BY <1>1, <2>2, <2>4, <2>5
<1> QED BY <1>3, <1>4, <1>5 DEF CoreLists

LEMMA SetListTypeOK ==
  ASSUME TypeOK, NEW r \in Readers, SetList(r)
  PROVE  TypeOK'
<1> USE DEF TypeOK
<1> DEFINE res == [query |-> query[r], rows |-> rows[r]]
           e == Filed(r)
<1>1. query[r] \in Queries /\ rows[r] \subseteq Writers /\ Versions(seen[r])
  BY DEF SetList, ReaderOK
<1>2. res \in Answers
  BY <1>1 DEF Answers
<1>3. Respond(r, res) /\ UNCHANGED <<committed, age, ver, verTTL, lapsed>> /\ UNCHANGED writerVars
  BY DEF SetList, coreVars
<1>4. ControlOK' /\ ReaderOK' /\ WriterOK'
  <2> HIDE DEF res
  <2> QED BY <1>2, <1>3, RespondTypeOK
<1>5. CoreOK'
  BY <1>3 DEF CoreOK
<1>6. RedisOK'
  <2>1. IsKey(KeyOf(r))
    BY <1>1 DEF IsKey, KeyOf, ListKey
  <2>2. IsEntry(e)
    BY <1>1, TimeAssumption DEF IsEntry, Filed
  <2>5. KeyOf(r).query = Printed(e.asked)
    BY DEF KeyOf, ListKey, Filed
  <2>3. CASE StoreList(r)
    <3>1. lists' = [k \in DOMAIN lists \union {KeyOf(r)} |->
                      IF k = KeyOf(r) THEN e ELSE lists[k]]
      BY <2>3 DEF StoreList
    <3>2. \A k \in DOMAIN lists' : /\ IsKey(k) /\ IsEntry(lists'[k])
                                   /\ k.query = Printed(lists'[k].asked)
      <4> HIDE DEF e
      <4> QED BY <2>1, <2>2, <2>5, <3>1 DEF RedisOK
    <3> QED BY <1>3, <3>1, <3>2 DEF RedisOK, IsKey, IsEntry, Versions, ListKey, Printed
  <2>4. CASE UNCHANGED lists
    BY <1>3, <2>4 DEF RedisOK, IsKey, IsEntry, Versions, ListKey, Printed
  <2> QED BY <2>3, <2>4 DEF SetList
<1> QED BY <1>4, <1>5, <1>6

LEMMA StartCreateTypeOK ==
  ASSUME TypeOK, NEW w \in Writers, NEW r \in Requests, StartCreate(w, r)
  PROVE  TypeOK'
<1> USE DEF TypeOK, StartCreate
<1>0. PICK step \in WriterSteps \ {"incr", "expire"} : pc' = [pc EXCEPT ![w] = step]
  BY DEF FirstSteps, Goto, WriterSteps, Preparing, Ended
<1>1. CoreOK' /\ RedisOK'
  BY DEF coreVars, redisVars, CoreOK, RedisOK, IsKey, IsEntry, Versions, ListKey, Printed
<1>2. ControlOK'
  BY <1>0, ConstantsAssumption, TimeAssumption DEF ControlOK, Procs, ReaderSteps
<1>3. ReaderOK'
  BY <1>0, ConstantsAssumption DEF ReaderOK, ControlOK, Procs, Versions, readerVars
<1>4. WriterOK'
  BY <1>0, ConstantsAssumption DEF WriterOK, ControlOK, Procs
<1> QED BY <1>1, <1>2, <1>3, <1>4

LEMMA ProceedTypeOK ==
  ASSUME TypeOK, NEW w \in Writers, NEW step \in WriterSteps, Proceed(w, step)
  PROVE  /\ ControlOK'
         /\ UNCHANGED readerVars => ReaderOK'
<1> USE DEF TypeOK, Proceed, Goto
<1>1. ControlOK'
  BY ConstantsAssumption, TimeAssumption DEF ControlOK, Procs
<1>2. UNCHANGED readerVars => ReaderOK'
  BY ConstantsAssumption DEF ReaderOK, ControlOK, Procs, Versions, readerVars
<1> QED BY <1>1, <1>2

\* What a create does before Core only moves it on, or ends it.
LEMMA PrepareProceeds ==
  ASSUME NEW w, Prepare(w)
  PROVE  /\ pc[w] \in Preparing
         /\ \E step \in {"core", "failed", "refused"} : Proceed(w, step)
         /\ UNCHANGED <<committed, age, ver, verTTL, lapsed, lists, query, seen, rows, coreVer,
                        answer, req, todo, bumped>>
BY DEF Prepare, EncryptActivityPII, RequireLastManagement, RefuseEscalation,
       PrepareFails, Preparing, coreVars, redisVars, readerVars, writerVars

LEMMA PrepareTypeOK ==
  ASSUME TypeOK, NEW w \in Writers, Prepare(w)
  PROVE  TypeOK'
<1> USE DEF TypeOK
<1>1. /\ UNCHANGED <<committed, age, ver, verTTL, lapsed, lists, req, todo, bumped>>
      /\ UNCHANGED readerVars
  BY PrepareProceeds DEF readerVars
<1>2. PICK step \in {"core", "failed", "refused"} : Proceed(w, step)
  BY PrepareProceeds
<1>3. ControlOK' /\ ReaderOK'
  <2>1. step \in WriterSteps
    BY DEF WriterSteps, Ended
  <2> QED BY <1>1, <1>2, <2>1, ProceedTypeOK
<1>4. CoreOK' /\ RedisOK'
  BY <1>1 DEF CoreOK, RedisOK, IsKey, IsEntry, Versions, ListKey, Printed
<1>5. WriterOK'
  <2>1. pc[w] \in {"encrypt", "prerequisite"} /\ pc' = [pc EXCEPT ![w] = step]
    BY <1>2, PrepareProceeds DEF Preparing, Proceed, Goto
  <2> QED BY <1>1, <2>1, ConstantsAssumption DEF WriterOK, ControlOK, Procs
<1> QED BY <1>3, <1>4, <1>5

LEMMA CoreCreatesTypeOK ==
  ASSUME TypeOK, NEW w \in Writers,
         CoreCommits(w) \/ CoreCommitsUnheard(w) \/ CoreRejects(w)
  PROVE  TypeOK'
<1> USE DEF TypeOK
<1> DEFINE next == IF InvalidationsOf(req[w]) = <<>> THEN "done" ELSE "incr"
<1>1. CoreOK' /\ RedisOK'
  BY DEF CoreCommits, CoreCommitsUnheard, CoreRejects, CoreStores, coreVars,
         redisVars, CoreOK, RedisOK, IsKey, IsEntry, Versions, ListKey, Printed
<1>2. req[w] \in Requests
  BY DEF CoreCommits, CoreCommitsUnheard, CoreRejects, WriterOK
<1>3. CASE CoreCommits(w)
  <2>1. Proceed(w, next) /\ next \in WriterSteps
    BY <1>3 DEF CoreCommits, WriterSteps, Ended
  <2>2. UNCHANGED readerVars
    BY <1>3 DEF CoreCommits
  <2>3. ControlOK' /\ ReaderOK'
    <3> HIDE DEF next
    <3> QED BY <2>1, <2>2, ProceedTypeOK
  <2>4. WriterOK'
    <3>1. /\ todo' = [todo EXCEPT ![w] = InvalidationsOf(req[w])]
          /\ UNCHANGED <<req, bumped>>
      BY <1>3 DEF CoreCommits
    <3>2. pc' = [pc EXCEPT ![w] = next]
      BY <2>1 DEF Proceed, Goto
    <3> QED BY <1>2, <1>3, <3>1, <3>2, InvalidationsAreScopes, ConstantsAssumption
            DEF WriterOK, ControlOK, Procs, CoreCommits
  <2> QED BY <1>1, <2>3, <2>4
<1>4. CASE CoreCommitsUnheard(w) \/ CoreRejects(w)
  <2>1. Proceed(w, "failed") /\ "failed" \in WriterSteps
    BY <1>4 DEF CoreCommitsUnheard, CoreRejects, WriterSteps, Ended
  <2>2. UNCHANGED readerVars /\ UNCHANGED writerVars
    BY <1>4 DEF CoreCommitsUnheard, CoreRejects
  <2>3. ControlOK' /\ ReaderOK'
    BY <2>1, <2>2, ProceedTypeOK
  <2>4. WriterOK'
    BY <1>2, <2>1, <2>2, ConstantsAssumption
    DEF WriterOK, ControlOK, Procs, Proceed, Goto, writerVars
  <2> QED BY <1>1, <2>3, <2>4
<1> QED BY <1>3, <1>4

LEMMA TailIsShorter ==
  ASSUME NEW S, NEW x \in Seq(S), x # <<>>, Len(x) # 1
  PROVE  Tail(x) # <<>>
<1>1. Len(x) \in Nat /\ Len(x) # 0
  OBVIOUS
<1>2. Len(Tail(x)) = Len(x) - 1
  BY <1>1
<1>3. Len(<<>>) = 0
  OBVIOUS
<1>4. Len(x) - 1 # 0
  BY <1>1
<1> QED BY <1>2, <1>3, <1>4, Zenon

LEMMA IncrTypeOK ==
  ASSUME TypeOK, NEW w \in Writers, Incr(w)
  PROVE  TypeOK'
<1> USE DEF TypeOK
<1> DEFINE s == Head(todo[w])
<1>1. Proceed(w, "expire") /\ "expire" \in WriterSteps
  BY DEF Incr, WriterSteps
<1>2. UNCHANGED <<committed, age, lapsed, lists, req, todo>> /\ UNCHANGED readerVars
  BY DEF Incr, coreVars
<1>3. todo[w] # <<>> /\ s \in Scopes
  BY DEF Incr, WriterOK
<1>4. CoreOK' /\ ControlOK' /\ ReaderOK'
  BY <1>1, <1>2, ProceedTypeOK DEF CoreOK
<1>5. \/ /\ ver' = [ver EXCEPT ![s] = ver[s] + 1]
         /\ verTTL' = [verTTL EXCEPT ![s] = IF ver[s] = 0 THEN Forever ELSE verTTL[s]]
         /\ bumped' = [bumped EXCEPT ![w][s] = ver[s] + 1]
      \/ UNCHANGED <<ver, verTTL, bumped>>
  BY DEF Incr
<1> HIDE DEF s
<1>6. RedisOK'
  <2>1. ver' \in [Scopes -> Nat]
    <3>1. ver \in [Scopes -> Nat] /\ ver[s] + 1 \in Nat
      BY <1>3 DEF RedisOK
    <3>2. [ver EXCEPT ![s] = ver[s] + 1] \in [Scopes -> Nat]
      BY <3>1
    <3> QED BY <1>5, <3>1, <3>2
  <2>2. verTTL' \in [Scopes -> 0..Forever]
    <3> DEFINE t == IF ver[s] = 0 THEN Forever ELSE verTTL[s]
    <3>1. t \in 0..Forever
      BY <1>3, TimeAssumption DEF RedisOK, Forever
    <3> HIDE DEF t
    <3>2. verTTL' = [verTTL EXCEPT ![s] = t] \/ UNCHANGED verTTL
      BY <1>5 DEF t
    <3> QED BY <3>1, <3>2 DEF RedisOK
  <2> QED BY <1>2, <2>1, <2>2 DEF RedisOK, IsKey, IsEntry, Versions, ListKey, Printed
<1>7. WriterOK'
  <2>1. bumped' \in [Writers -> [Scopes -> Nat]]
    <3>1. CASE bumped' = [bumped EXCEPT ![w][s] = ver[s] + 1]
      <4> DEFINE f == [bumped[w] EXCEPT ![s] = ver[s] + 1]
      <4>1. bumped' = [bumped EXCEPT ![w] = f]
        BY <3>1
      <4>2. f \in [Scopes -> Nat]
        BY <1>3 DEF WriterOK, RedisOK
      <4> HIDE DEF f
      <4> QED BY <4>1, <4>2 DEF WriterOK
    <3> QED BY <1>5, <3>1 DEF WriterOK
  <2>2. /\ pc' = [pc EXCEPT ![w] = "expire"]
        /\ pc[w] = "incr"
    BY <1>1 DEF Proceed, Goto, Incr
  <2> QED BY <1>2, <1>3, <2>1, <2>2, ConstantsAssumption DEF WriterOK, ControlOK, Procs
<1> QED BY <1>4, <1>6, <1>7

LEMMA ExpireTypeOK ==
  ASSUME TypeOK, NEW w \in Writers, Expire(w)
  PROVE  TypeOK'
<1> USE DEF TypeOK
<1> DEFINE s == Head(todo[w])
           next == IF Len(todo[w]) = 1 THEN "done" ELSE "incr"
<1>1. Proceed(w, next) /\ next \in WriterSteps
  BY DEF Expire, WriterSteps, Ended
<1>2. UNCHANGED <<committed, age, ver, lapsed, lists, req, bumped>> /\ UNCHANGED readerVars
  BY DEF Expire, coreVars
<1>3. todo[w] # <<>> /\ todo[w] \in Seq(Scopes) /\ s \in Scopes
  BY DEF Expire, WriterOK
<1>4. CoreOK' /\ ControlOK' /\ ReaderOK'
  <2> HIDE DEF next
  <2> QED BY <1>1, <1>2, ProceedTypeOK DEF CoreOK
<1>5. \/ verTTL' = [verTTL EXCEPT ![s] = IF ver[s] = 0 THEN verTTL[s] ELSE VerTTL]
      \/ UNCHANGED verTTL
  BY DEF Expire
<1>6. RedisOK'
  <2>1. verTTL' \in [Scopes -> 0..Forever]
    <3> DEFINE t == IF ver[s] = 0 THEN verTTL[s] ELSE VerTTL
    <3>1. t \in 0..Forever
      BY <1>3, TimeAssumption DEF RedisOK, Forever
    <3> HIDE DEF t
    <3>2. verTTL' = [verTTL EXCEPT ![s] = t] \/ UNCHANGED verTTL
      BY <1>5 DEF t
    <3> HIDE DEF s
    <3> QED BY <3>1, <3>2 DEF RedisOK
  <2> QED BY <1>2, <2>1 DEF RedisOK, IsKey, IsEntry, Versions, ListKey, Printed
<1>7. WriterOK'
  <2>1. todo' = [todo EXCEPT ![w] = Tail(todo[w])]
    BY DEF Expire
  <2>2. Tail(todo[w]) \in Seq(Scopes)
    BY <1>3
  <2>3. Len(todo[w]) # 1 => Tail(todo[w]) # <<>>
    BY <1>3, TailIsShorter
  <2>4. pc' = [pc EXCEPT ![w] = next] /\ pc[w] = "expire"
    BY <1>1 DEF Proceed, Goto, Expire
  <2> QED BY <1>2, <2>1, <2>2, <2>3, <2>4, ConstantsAssumption
          DEF WriterOK, ControlOK, Procs
<1> QED BY <1>4, <1>6, <1>7

LEMMA EnvironmentTypeOK ==
  ASSUME TypeOK, Tick \/ \E p \in Procs : Disconnect(p)
  PROVE  TypeOK'
<1> USE DEF TypeOK
<1>1. CASE Tick
  <2> USE <1>1 DEF Tick
  <2>1. CoreOK'
    BY TimeAssumption DEF CoreOK, AgeCap
  <2>2. RedisOK'
    <3>1. ver' \in [Scopes -> Nat]
      BY DEF RedisOK
    <3>2. verTTL' \in [Scopes -> 0..Forever]
      BY TimeAssumption DEF RedisOK, Forever
    <3>6. lapsed' \in [Scopes -> 0..AgeCap]
      BY TimeAssumption DEF RedisOK, AgeCap
    <3>3. DOMAIN lists' \subseteq DOMAIN lists
      OBVIOUS
    <3>4. ASSUME NEW k \in DOMAIN lists'
          PROVE  /\ IsKey(k) /\ IsEntry(lists'[k])
                 /\ k.query = Printed(lists'[k].asked)
      <4>1. /\ k \in DOMAIN lists /\ lists[k].ttl > 1
            /\ lists'[k] = [lists[k] EXCEPT !.ttl = lists[k].ttl - 1]
        OBVIOUS
      <4>2. IsKey(k) /\ IsEntry(lists[k])
        BY <4>1 DEF RedisOK
      <4>3. lists[k].ttl - 1 \in 1..ListTTL
        BY <4>1, <4>2, TimeAssumption DEF IsEntry
      <4>4. IsEntry(lists'[k])
        BY <4>1, <4>2, <4>3 DEF IsEntry
      <4>5. lists'[k].asked = lists[k].asked
        BY <4>1, <4>2 DEF IsEntry
      <4> QED BY <4>1, <4>2, <4>4, <4>5 DEF RedisOK
    <3>5. lists' = [k \in DOMAIN lists' |-> lists'[k]]
      OBVIOUS
    <3> QED BY <3>1, <3>2, <3>4, <3>5, <3>6 DEF RedisOK, AgeCap, IsKey, IsEntry, Versions, ListKey, Printed
  <2>3. ControlOK'
    BY TimeAssumption DEF ControlOK
  <2>4. ReaderOK'
    BY DEF ReaderOK, readerVars, Versions
  <2>5. WriterOK'
    BY DEF WriterOK, writerVars
  <2> QED BY <2>1, <2>2, <2>3, <2>4, <2>5
<1>2. CASE \E p \in Procs : Disconnect(p)
  <2>1. PICK p \in Procs : Disconnect(p)
    BY <1>2
  <2> USE <2>1 DEF Disconnect
  <2>2. CoreOK' /\ RedisOK'
    BY DEF coreVars, redisVars, CoreOK, RedisOK, IsKey, IsEntry, Versions, ListKey, Printed
  <2>3. ControlOK'
    BY TimeAssumption DEF ControlOK
  <2>4. ReaderOK' /\ WriterOK'
    BY DEF ReaderOK, WriterOK, readerVars, writerVars, Versions
  <2> QED BY <2>2, <2>3, <2>4
<1> QED BY <1>1, <1>2

LEMMA StutterTypeOK ==
  ASSUME TypeOK, UNCHANGED vars
  PROVE  TypeOK'
BY DEF TypeOK, vars, CoreOK, RedisOK, ControlOK, ReaderOK, WriterOK, IsKey, IsEntry,
       Versions, ListKey, Printed

LEMMA StepTypeOK ==
  ASSUME TypeOK, [Next]_vars
  PROVE  TypeOK'
<1>1. CASE \E r \in Readers, q \in Queries : StartList(r, q)
  BY <1>1, StartListTypeOK
<1>2. CASE \E r \in Readers : ReaderStep(r)
  BY <1>2, ReadVersionsTypeOK, GetListTypeOK, CoreAnswersTypeOK, SetListTypeOK
  DEF ReaderStep
<1>3. CASE \E w \in Writers, r \in Requests : StartCreate(w, r)
  BY <1>3, StartCreateTypeOK
<1>4. CASE \E w \in Writers : WriterStep(w)
  BY <1>4, PrepareTypeOK, CoreCreatesTypeOK, IncrTypeOK, ExpireTypeOK DEF WriterStep
<1>5. CASE Tick \/ \E p \in Procs : Disconnect(p)
  BY <1>5, EnvironmentTypeOK
<1>6. CASE UNCHANGED vars
  BY <1>6, StutterTypeOK
<1> QED BY <1>1, <1>2, <1>3, <1>4, <1>5, <1>6 DEF Next

\* In every reachable state each variable has its type: a list request that is
\* under way has a query, a create that still invalidates has a version key
\* left to bump, and every cached list has a TTL between 1 and ListTTL.
THEOREM TypeCorrect == Spec => []TypeOK
<1>1. Init => TypeOK
  BY InitTypeOK
<1>2. TypeOK /\ [Next]_vars => TypeOK'
  BY StepTypeOK
<1> QED BY <1>1, <1>2, PTL DEF Spec

-----------------------------------------------------------------------------
(* Bounded staleness *)

\* A create that is not in Core has not aged, and one that is has left "core".
BeforeStored == {"idle", "core"} \union Preparing

StoredOnce ==
  \A w \in Writers : /\ w \in committed => pc[w] \notin BeforeStored
                     /\ w \notin committed => age[w] = 0

Held == {"setVersions", "setList"}

\* What any set of shown creates lacks only grows by a create that Core stores.
LEMMA LacksUnchanged ==
  ASSUME UNCHANGED <<committed, req>>
  PROVE  \A q, shown : Lacks(q, shown)' = Lacks(q, shown)
BY DEF Lacks

LEMMA LacksAfterStart ==
  ASSUME TypeOK, StoredOnce, NEW w \in Writers, NEW r \in Requests, StartCreate(w, r)
  PROVE  \A q, shown : Lacks(q, shown)' = Lacks(q, shown)
<1>1. w \notin committed /\ committed' = committed
  BY DEF StartCreate, StoredOnce, BeforeStored, coreVars
<1>2. \A v \in committed : req'[v] = req[v]
  BY <1>1 DEF StartCreate, TypeOK, WriterOK, CoreOK
<1> QED BY <1>1, <1>2 DEF Lacks

LEMMA LacksAfterStore ==
  ASSUME TypeOK, NEW w \in Writers, CoreStores(w), req' = req
  PROVE  \A q, shown : Lacks(q, shown)' \subseteq Lacks(q, shown) \union {w}
BY DEF CoreStores, Lacks

LEMMA StoredOnceStep ==
  ASSUME TypeOK, StoredOnce, [Next]_vars
  PROVE  StoredOnce'
<1> USE DEF TypeOK, StoredOnce, BeforeStored
<1>1. CASE \E r \in Readers, q \in Queries : StartList(r, q)
  BY <1>1, ConstantsAssumption DEF StartList, coreVars, Goto, ControlOK, Procs
<1>2. CASE \E r \in Readers : ReaderStep(r)
  <2>1. PICK r \in Readers : ReaderStep(r)
    BY <1>2
  <2>2. \A w \in Writers : pc'[w] = pc[w]
    BY <2>1, ConstantsAssumption
    DEF ReaderStep, ReadVersions, GetListHit, GetListMiss, CoreLists, CoreListFails,
        SetList, Respond, Goto, ControlOK, Procs
  <2>3. UNCHANGED coreVars
    BY <2>1 DEF ReaderStep, ReadVersions, GetListHit, GetListMiss, CoreLists,
                CoreListFails, SetList
  <2> QED BY <2>2, <2>3 DEF coreVars
<1>3. CASE \E w \in Writers, r \in Requests : StartCreate(w, r)
  BY <1>3 DEF StartCreate, coreVars, Goto, ControlOK, Procs
<1>4. CASE \E w \in Writers : WriterStep(w)
  <2>1. PICK w \in Writers : WriterStep(w)
    BY <1>4
  <2>2. CASE Prepare(w)
    <3>1. w \notin committed /\ UNCHANGED coreVars
      BY <2>2, PrepareProceeds DEF coreVars
    <3>2. \A v \in Writers : v # w => pc'[v] = pc[v]
      BY <2>2, PrepareProceeds DEF Proceed, Goto, ControlOK, Procs
    <3> QED BY <3>1, <3>2 DEF coreVars
  <2>3. CASE ~Prepare(w)
    <3>1. PICK step \in {"incr", "expire", "done", "failed"} : pc' = [pc EXCEPT ![w] = step]
      BY <2>1, <2>3 DEF WriterStep, CoreCommits, CoreCommitsUnheard, CoreRejects, Incr,
                        Expire, Proceed, Goto
    <3>2. age' = age /\ (committed' = committed \/ committed' = committed \union {w})
      BY <2>1, <2>3 DEF WriterStep, CoreCommits, CoreCommitsUnheard, CoreRejects, Incr,
                        Expire, CoreStores, coreVars
    <3> QED BY <3>1, <3>2 DEF ControlOK, Procs, Preparing
  <2> QED BY <2>2, <2>3
<1>5. CASE Tick
  BY <1>5 DEF Tick
<1>6. CASE \E p \in Procs : Disconnect(p)
  BY <1>6 DEF Disconnect, coreVars
<1>7. CASE UNCHANGED vars
  BY <1>7 DEF vars
<1> QED BY <1>1, <1>2, <1>3, <1>4, <1>5, <1>6, <1>7 DEF Next

\* The two halves of StalenessRunsDown.
ListsRunDown ==
  \A k \in DOMAIN lists : \A w \in LacksOf(k) :
    age[w] + lists[k].ttl <= ListTTL + ReqTimeout

HeldRunDown ==
  \A r \in Readers : pc[r] \in Held =>
    \A w \in Lacks(query[r], rows[r]) : age[w] + left[r] <= ReqTimeout

LEMMA ReaderStaleness ==
  ASSUME TypeOK, ListsRunDown, HeldRunDown, NEW r \in Readers,
         ReaderStep(r) \/ \E q \in Queries : StartList(r, q)
  PROVE  ListsRunDown' /\ HeldRunDown'
<1> USE DEF TypeOK, LacksOf
<1>0. UNCHANGED <<committed, age, req>>
  BY DEF ReaderStep, StartList, ReadVersions, GetListHit, GetListMiss, CoreLists,
         CoreListFails, SetList, coreVars, writerVars
<1>1. \A q, shown : Lacks(q, shown)' = Lacks(q, shown)
  BY <1>0, LacksUnchanged
<1>2. \A o \in Readers \ {r} : /\ pc'[o] = pc[o] /\ left'[o] = left[o]
                               /\ query'[o] = query[o] /\ rows'[o] = rows[o]
  BY DEF ReaderStep, StartList, ReadVersions, GetListHit, GetListMiss, CoreLists,
         CoreListFails, SetList, Respond, Goto, ControlOK, ReaderOK, Procs, readerVars
<1>3. CASE ~SetList(r)
  <2>1. UNCHANGED lists
    BY <1>3 DEF ReaderStep, StartList, ReadVersions, GetListHit, GetListMiss, CoreLists,
                CoreListFails, redisVars
  <2>2. ListsRunDown'
    BY <1>0, <1>1, <2>1 DEF ListsRunDown
  <2>3. ASSUME pc'[r] \in Held, NEW w \in Lacks(query'[r], rows'[r])
        PROVE  age[w] + left'[r] <= ReqTimeout
    <3>1. CASE ReadVersions(r)
      BY <2>3, <3>1 DEF ReadVersions, Goto, HeldRunDown, Held, ControlOK, Procs
    <3>2. CASE CoreLists(r)
      <4>1. CASE CacheableList(query[r])
        <5>1. rows'[r] = {v \in committed : Matches(query[r], req[v])} /\ query' = query
          BY <3>2, <4>1 DEF CoreLists, ReaderOK
        <5> QED BY <2>3, <5>1 DEF Lacks
      <4>2. CASE ~CacheableList(query[r])
        BY <2>3, <3>2, <4>2 DEF CoreLists, Respond, Goto, Held, ControlOK, Procs
      <4> QED BY <4>1, <4>2
    <3>3. CASE pc'[r] \notin Held
      BY <2>3, <3>3
    <3> QED BY <1>3, <3>1, <3>2, <3>3
            DEF ReaderStep, StartList, GetListHit, GetListMiss, CoreListFails, Respond,
                Goto, Held, ControlOK, Procs
  <2>4. HeldRunDown'
    BY <1>0, <1>1, <1>2, <2>3 DEF HeldRunDown
  <2> QED BY <2>2, <2>4
<1>4. CASE SetList(r)
  <2>1. pc'[r] = "idle" /\ pc[r] \in Held
    BY <1>4 DEF SetList, Respond, Goto, ControlOK, Procs, Held
  <2>2. HeldRunDown'
    BY <1>0, <1>1, <1>2, <2>1 DEF HeldRunDown, Held
  <2>3. CASE UNCHANGED lists
    BY <1>0, <1>1, <2>2, <2>3 DEF ListsRunDown
  <2>4. CASE StoreList(r) /\ RedisUp(r)
    <3>1. ASSUME NEW w \in Lacks(query[r], rows[r])
          PROVE  age[w] + ListTTL <= ListTTL + ReqTimeout
      <4>1. age[w] + left[r] <= ReqTimeout
        BY <2>1 DEF HeldRunDown
      <4>2. age[w] \in Nat /\ left[r] \in Nat /\ left[r] > 0
        BY <2>4, TimeAssumption DEF RedisUp, ControlOK, CoreOK, Procs, Lacks, AgeCap
      <4> QED BY <4>1, <4>2, TimeAssumption
    <3>2. ASSUME NEW k \in DOMAIN lists', NEW w \in Lacks(lists'[k].asked, lists'[k].rows)
          PROVE  age[w] + lists'[k].ttl <= ListTTL + ReqTimeout
      <4>1. CASE k = KeyOf(r)
        <5>1. /\ lists'[k].asked = query[r] /\ lists'[k].rows = rows[r]
              /\ lists'[k].ttl = ListTTL
          BY <2>4, <4>1 DEF StoreList, Filed
        <5> QED BY <3>1, <3>2, <5>1
      <4>2. CASE k # KeyOf(r)
        BY <2>4, <3>2, <4>2 DEF StoreList, ListsRunDown
      <4> QED BY <4>1, <4>2
    <3> QED BY <1>0, <1>1, <2>2, <3>2 DEF ListsRunDown
  <2> QED BY <1>4, <2>2, <2>3, <2>4 DEF SetList
<1> QED BY <1>3, <1>4

LEMMA WriterStaleness ==
  ASSUME TypeOK, StoredOnce, ListsRunDown, HeldRunDown, NEW w \in Writers,
         WriterStep(w) \/ \E q \in Requests : StartCreate(w, q)
  PROVE  ListsRunDown' /\ HeldRunDown'
<1> USE DEF TypeOK, LacksOf
<1>1. UNCHANGED <<age, lists, query, rows>>
  BY PrepareProceeds
  DEF WriterStep, StartCreate, CoreCommits, CoreCommitsUnheard, CoreRejects, Incr,
      Expire, CoreStores, coreVars, redisVars, readerVars
<1>2. \A r \in Readers : pc'[r] = pc[r] /\ left'[r] = left[r]
  BY ConstantsAssumption, PrepareProceeds
  DEF WriterStep, StartCreate, CoreCommits, CoreCommitsUnheard, CoreRejects, Incr,
      Expire, Proceed, Goto, ControlOK, Procs
<1>3. ASSUME NEW q, NEW shown, NEW v \in Lacks(q, shown)'
      PROVE  v \in Lacks(q, shown) \/ age[v] = 0
  <2>1. CASE CoreStores(w) /\ req' = req
    <3>1. v \in Lacks(q, shown) \/ v = w
      BY <1>3, <2>1, LacksAfterStore
    <3>2. w \in committed => Lacks(q, shown)' = Lacks(q, shown)
      BY <2>1 DEF CoreStores, Lacks
    <3> QED BY <1>3, <3>1, <3>2 DEF StoredOnce
  <2>2. CASE \E r \in Requests : StartCreate(w, r)
    BY <1>3, <2>2, LacksAfterStart
  <2>3. CASE UNCHANGED <<committed, req>>
    BY <1>3, <2>3, LacksUnchanged
  <2> QED BY <2>1, <2>2, <2>3, PrepareProceeds
          DEF WriterStep, CoreCommits, CoreCommitsUnheard, CoreRejects, Incr, Expire,
              coreVars, writerVars
<1>4. ListsRunDown'
  <2> SUFFICES ASSUME NEW k \in DOMAIN lists, NEW v \in LacksOf(k)'
               PROVE  age[v] + lists[k].ttl <= ListTTL + ReqTimeout
    BY <1>1 DEF ListsRunDown
  <2>1. v \in LacksOf(k) \/ age[v] = 0
    BY <1>1, <1>3
  <2>2. lists[k].ttl \in 1..ListTTL
    BY DEF RedisOK, IsEntry
  <2> QED BY <2>1, <2>2, TimeAssumption DEF ListsRunDown
<1>5. HeldRunDown'
  <2> SUFFICES ASSUME NEW r \in Readers, pc[r] \in Held, NEW v \in Lacks(query[r], rows[r])'
               PROVE  age[v] + left[r] <= ReqTimeout
    BY <1>1, <1>2 DEF HeldRunDown
  <2>1. v \in Lacks(query[r], rows[r]) \/ age[v] = 0
    BY <1>1, <1>3
  <2>2. left[r] \in 0..ReqTimeout
    BY DEF ControlOK, Procs
  <2> QED BY <2>1, <2>2, TimeAssumption DEF HeldRunDown
<1> QED BY <1>4, <1>5

LEMMA EnvironmentStaleness ==
  ASSUME TypeOK, ListsRunDown, HeldRunDown, Tick \/ \E p \in Procs : Disconnect(p)
  PROVE  ListsRunDown' /\ HeldRunDown'
<1> USE DEF TypeOK, LacksOf
<1>1. \A q, shown : Lacks(q, shown)' = Lacks(q, shown)
  BY LacksUnchanged DEF Tick, Disconnect, coreVars, writerVars
<1>2. CASE Tick
  <2>1. \A w \in Writers : age[w] \in Nat /\ age'[w] \in {age[w], age[w] + 1}
    BY <1>2, TimeAssumption DEF Tick, CoreOK, AgeCap
  <2>2. ASSUME NEW k \in DOMAIN lists', NEW w \in Lacks(lists'[k].asked, lists'[k].rows)
        PROVE  age'[w] + lists'[k].ttl <= ListTTL + ReqTimeout
    <3>1. /\ k \in DOMAIN lists
          /\ lists'[k] = [lists[k] EXCEPT !.ttl = lists[k].ttl - 1]
      BY <1>2 DEF Tick
    <3>2. lists[k] \in [rows : SUBSET Writers, ttl : 1..ListTTL, moved : BOOLEAN,
                          asked : Queries]
      BY <3>1 DEF RedisOK, IsEntry
    <3>3. /\ lists'[k].rows = lists[k].rows /\ lists'[k].asked = lists[k].asked
          /\ lists'[k].ttl = lists[k].ttl - 1
      BY <3>1, <3>2
    <3>4. age[w] + lists[k].ttl <= ListTTL + ReqTimeout
      BY <2>2, <3>1, <3>3 DEF ListsRunDown
    <3>5. w \in Writers
      BY DEF Lacks, CoreOK
    <3> QED BY <2>1, <3>2, <3>3, <3>4, <3>5, TimeAssumption
  <2>3. ASSUME NEW r \in Readers, pc[r] \in Held, NEW w \in Lacks(query[r], rows[r])
        PROVE  age'[w] + left'[r] <= ReqTimeout
    <3>1. Active(r) /\ r \in Procs
      BY <2>3 DEF Held, Active, Ended, Procs
    <3>2. left[r] \in Nat /\ left'[r] = left[r] - 1
      BY <1>2, <3>1, TimeAssumption DEF Tick, ControlOK
    <3>3. age[w] + left[r] <= ReqTimeout
      BY <2>3 DEF HeldRunDown
    <3>4. w \in Writers
      BY DEF Lacks, CoreOK
    <3> QED BY <2>1, <3>2, <3>3, <3>4, TimeAssumption
  <2> QED BY <1>1, <1>2, <2>2, <2>3 DEF Tick, readerVars, ListsRunDown, HeldRunDown
<1>3. CASE \E p \in Procs : Disconnect(p)
  <2>1. PICK p \in Procs : Disconnect(p)
    BY <1>3
  <2>2. UNCHANGED <<age, lists, pc, query, rows>>
    BY <2>1 DEF Disconnect, coreVars, redisVars, readerVars
  <2>3. \A r \in Readers : left'[r] \in {left[r], 0} /\ left[r] \in Nat
    BY <2>1, TimeAssumption DEF Disconnect, ControlOK, Procs
  <2>4. ListsRunDown'
    BY <1>1, <2>2 DEF ListsRunDown
  <2>5. ASSUME NEW r \in Readers, pc[r] \in Held, NEW w \in Lacks(query[r], rows[r])
        PROVE  age[w] + left'[r] <= ReqTimeout
    <3>1. age[w] + left[r] <= ReqTimeout
      BY <2>5 DEF HeldRunDown
    <3>2. age[w] \in Nat
      BY TimeAssumption DEF Lacks, CoreOK, AgeCap
    <3> QED BY <2>3, <3>1, <3>2, TimeAssumption
  <2>6. HeldRunDown'
    BY <1>1, <2>2, <2>5 DEF HeldRunDown
  <2> QED BY <2>4, <2>6
<1> QED BY <1>2, <1>3

\* The inductive invariant behind bounded staleness.
StalenessInv == TypeOK /\ StoredOnce /\ ListsRunDown /\ HeldRunDown

LEMMA StalenessInvInit == Init => StalenessInv
<1> SUFFICES ASSUME Init PROVE StalenessInv
  OBVIOUS
<1>1. TypeOK
  BY InitTypeOK
<1>2. StoredOnce /\ ListsRunDown /\ HeldRunDown
  BY DEF Init, StoredOnce, ListsRunDown, HeldRunDown, Held, Procs
<1> QED BY <1>1, <1>2 DEF StalenessInv

LEMMA StalenessInvStep ==
  ASSUME StalenessInv, [Next]_vars
  PROVE  StalenessInv'
<1> USE DEF StalenessInv, LacksOf
<1>1. TypeOK' /\ StoredOnce'
  BY StepTypeOK, StoredOnceStep
<1>2. CASE UNCHANGED vars
  <2>1. UNCHANGED <<committed, age, req, lists, pc, left, query, rows>>
    BY <1>2 DEF vars
  <2>2. \A q, shown : Lacks(q, shown)' = Lacks(q, shown)
    BY <2>1, LacksUnchanged
  <2> QED BY <1>1, <2>1, <2>2 DEF ListsRunDown, HeldRunDown
<1>3. CASE Next
  BY <1>1, <1>3, ReaderStaleness, WriterStaleness, EnvironmentStaleness DEF Next
<1> QED BY <1>2, <1>3

\* Staleness runs down with the timers, for any number of requests, scopes and
\* ticks: what a cached list lacks was stored after its Core read, whatever
\* Redis commands fail and whichever clients go away.
THEOREM BoundedStaleness == Spec => []StalenessRunsDown
<1>1. Init => StalenessInv
  BY StalenessInvInit
<1>2. StalenessInv /\ [Next]_vars => StalenessInv'
  BY StalenessInvStep
<1>3. StalenessInv => StalenessRunsDown
  BY DEF StalenessInv, ListsRunDown, HeldRunDown, Held,
         StalenessRunsDown
<1> QED BY <1>1, <1>2, <1>3, PTL DEF Spec

-----------------------------------------------------------------------------
(* Refinement of RecentReads *)

Asked(q) == {w \in committed : Matches(q, req[w])}

\* Every list, cached or held, shows only stored activities its query asks for.
RowsAreAsked ==
  /\ \A k \in DOMAIN lists : lists[k].rows \subseteq Asked(lists[k].asked)
  /\ \A r \in Readers : pc[r] \in Held => rows[r] \subseteq Asked(query[r])

LEMMA AskedGrows ==
  ASSUME TypeOK, StoredOnce, [Next]_vars
  PROVE  \A q : Asked(q) \subseteq Asked(q)'
<1> USE DEF TypeOK, Asked
<1>1. CASE UNCHANGED <<committed, req>>
  BY <1>1
<1>2. CASE \E w \in Writers, r \in Requests : StartCreate(w, r)
  <2>1. PICK w \in Writers, r \in Requests : StartCreate(w, r)
    BY <1>2
  <2>2. w \notin committed /\ committed' = committed /\ \A v \in committed : req'[v] = req[v]
    BY <2>1 DEF StartCreate, StoredOnce, BeforeStored, coreVars, WriterOK, CoreOK
  <2> QED BY <2>2
<1>3. CASE \E w \in Writers : CoreCommits(w) \/ CoreCommitsUnheard(w)
  BY <1>3 DEF CoreCommits, CoreCommitsUnheard, CoreStores, writerVars
<1> QED BY <1>1, <1>2, <1>3, PrepareProceeds
        DEF Next, vars, ReaderStep, WriterStep, StartList, ReadVersions, GetListHit,
            GetListMiss, CoreLists, CoreListFails, SetList, CoreRejects, Incr, Expire,
            Disconnect, Tick, coreVars, writerVars

LEMMA RowsAreAskedStep ==
  ASSUME TypeOK, StoredOnce, RowsAreAsked, [Next]_vars
  PROVE  RowsAreAsked'
<1> USE DEF TypeOK
<1>1. \A q : Asked(q) \subseteq Asked(q)'
  BY AskedGrows
<1>2. ASSUME NEW r \in Readers, SetList(r)
      PROVE  RowsAreAsked'
  <2>1. query[r] \in Queries /\ rows[r] \subseteq Asked(query[r])
    BY <1>2 DEF SetList, ReaderOK, RowsAreAsked, Held
  <2>2. \A k \in DOMAIN lists' : lists'[k].rows \subseteq Asked(lists'[k].asked)
    <3>1. CASE UNCHANGED lists
      BY <3>1 DEF RowsAreAsked
    <3>2. CASE StoreList(r)
      <4>1. \A k \in DOMAIN lists' : k # KeyOf(r) => k \in DOMAIN lists /\ lists'[k] = lists[k]
        BY <3>2 DEF StoreList
      <4>2. lists'[KeyOf(r)].rows = rows[r] /\ lists'[KeyOf(r)].asked = query[r]
        BY <3>2 DEF StoreList, Filed
      <4> QED BY <2>1, <4>1, <4>2 DEF RowsAreAsked
    <3> QED BY <1>2, <3>1, <3>2 DEF SetList
  <2>3. /\ pc' = [pc EXCEPT ![r] = "idle"]
        /\ query' = [query EXCEPT ![r] = None]
        /\ rows' = [rows EXCEPT ![r] = {}]
    BY <1>2 DEF SetList, Respond, Goto
  <2>4. \A o \in Readers : pc'[o] \in Held => rows'[o] \subseteq Asked(query'[o])
    BY <2>3 DEF RowsAreAsked, Held, ControlOK, ReaderOK, Procs
  <2> QED BY <1>1, <2>2, <2>4 DEF RowsAreAsked
<1>3. ASSUME NEW r \in Readers, CoreLists(r)
      PROVE  RowsAreAsked'
  <2>1. UNCHANGED <<lists, committed, req>>
    BY <1>3 DEF CoreLists, redisVars, coreVars, writerVars
  <2>2. \A o \in Readers : pc'[o] \in Held => rows'[o] \subseteq Asked(query'[o])
    <3>1. CASE CacheableList(query[r])
      <4>1. /\ pc' = [pc EXCEPT ![r] = "setVersions"]
            /\ query' = query
            /\ rows' = [rows EXCEPT ![r] = Asked(query[r])]
        BY <1>3, <3>1 DEF CoreLists, Goto, Asked
      <4> QED BY <4>1 DEF RowsAreAsked, Held, ControlOK, ReaderOK, Procs
    <3>2. CASE ~CacheableList(query[r])
      <4>1. /\ pc' = [pc EXCEPT ![r] = "idle"]
            /\ query' = [query EXCEPT ![r] = None]
            /\ rows' = [rows EXCEPT ![r] = {}]
        BY <1>3, <3>2 DEF CoreLists, Respond, Goto
      <4> QED BY <4>1 DEF RowsAreAsked, Held, ControlOK, ReaderOK, Procs
    <3> QED BY <3>1, <3>2
  <2> QED BY <1>1, <2>1, <2>2 DEF RowsAreAsked
<1>4. ASSUME NEW r \in Readers,
             \/ ReadVersions(r) \/ GetListHit(r) \/ GetListMiss(r) \/ CoreListFails(r)
             \/ \E q \in Queries : StartList(r, q)
      PROVE  RowsAreAsked'
  <2>1. UNCHANGED lists
    BY <1>4 DEF ReadVersions, GetListHit, GetListMiss, CoreListFails, StartList, redisVars
  <2>2. \A o \in Readers : pc'[o] \in Held =>
          pc[o] \in Held /\ rows'[o] = rows[o] /\ query'[o] = query[o]
    BY <1>4 DEF ReadVersions, GetListHit, GetListMiss, CoreListFails, StartList, Respond,
                Goto, Held, ControlOK, ReaderOK, Procs, readerVars
  <2> QED BY <1>1, <2>1, <2>2 DEF RowsAreAsked
<1>5. ASSUME NEW w \in Writers, WriterStep(w) \/ \E r \in Requests : StartCreate(w, r)
      PROVE  RowsAreAsked'
  <2>1. UNCHANGED <<lists, rows, query>> /\ \A r \in Readers : pc'[r] = pc[r]
    BY <1>5, ConstantsAssumption, PrepareProceeds
    DEF WriterStep, StartCreate, CoreCommits, CoreCommitsUnheard, CoreRejects, Incr, Expire,
        Proceed, Goto, redisVars, readerVars, ControlOK, Procs
  <2> QED BY <1>1, <2>1 DEF RowsAreAsked
<1>6. ASSUME Tick PROVE RowsAreAsked'
  <2>1. UNCHANGED <<rows, query, pc>>
    BY <1>6 DEF Tick, readerVars
  <2>2. \A k \in DOMAIN lists' : /\ k \in DOMAIN lists /\ lists'[k].rows = lists[k].rows
                                 /\ lists'[k].asked = lists[k].asked
    BY <1>6 DEF Tick, RedisOK, IsEntry
  <2> QED BY <1>1, <2>1, <2>2 DEF RowsAreAsked
<1>7. CASE (\E p \in Procs : Disconnect(p)) \/ UNCHANGED vars
  <2>1. UNCHANGED <<rows, query, pc, lists>>
    BY <1>7 DEF Disconnect, vars, readerVars, redisVars
  <2> QED BY <1>1, <2>1 DEF RowsAreAsked
<1> QED BY <1>2, <1>3, <1>4, <1>5, <1>6, <1>7 DEF Next, ReaderStep

\* Only a list that is cacheable is looked up, or held for its SET.
Cached == {"getVersions", "getList"} \union Held
CachedRequests == \A r \in Readers : pc[r] \in Cached => CacheableList(query[r])

LEMMA CachedRequestsStep ==
  ASSUME TypeOK, CachedRequests, [Next]_vars
  PROVE  CachedRequests'
<1> USE DEF TypeOK
<1>1. ASSUME NEW o \in Readers, ReaderStep(o) \/ \E q \in Queries : StartList(o, q)
      PROVE  CachedRequests'
  <2> SUFFICES ASSUME NEW r \in Readers, pc'[r] \in Cached
               PROVE  CacheableList(query'[r])
    BY DEF CachedRequests, CacheableList
  <2>1. CASE o # r
    <3>1. pc'[r] = pc[r] /\ query'[r] = query[r]
      BY <1>1, <2>1
      DEF ReaderStep, StartList, ReadVersions, GetListHit, GetListMiss, CoreLists,
          CoreListFails, SetList, Respond, Goto, ControlOK, ReaderOK, Procs, readerVars
    <3> QED BY <3>1 DEF CachedRequests
  <2>2. CASE o = r
    <3>1. CASE \E q \in Queries : StartList(r, q)
      BY <3>1 DEF StartList, Goto, Cached, Held, ControlOK, ReaderOK, Procs
    <3>2. CASE ReadVersions(r) \/ CoreLists(r)
      BY <3>2 DEF ReadVersions, CoreLists, Respond, Goto, CachedRequests, Cached, Held,
                  ControlOK, Procs
    <3>3. CASE GetListHit(r) \/ GetListMiss(r) \/ CoreListFails(r) \/ SetList(r)
      BY <3>3 DEF GetListHit, GetListMiss, CoreListFails, SetList, Respond, Goto, Cached,
                  Held, ControlOK, Procs
    <3> QED BY <1>1, <2>2, <3>1, <3>2, <3>3 DEF ReaderStep
  <2> QED BY <2>1, <2>2
<1>2. CASE \E w \in Writers : WriterStep(w) \/ \E q \in Requests : StartCreate(w, q)
  <2>1. UNCHANGED query /\ \A r \in Readers : pc'[r] = pc[r]
    BY <1>2, ConstantsAssumption, PrepareProceeds
    DEF WriterStep, StartCreate, CoreCommits, CoreCommitsUnheard, CoreRejects, Incr, Expire,
        Proceed, Goto, readerVars, ControlOK, Procs
  <2> QED BY <2>1 DEF CachedRequests, CacheableList
<1>3. CASE Tick \/ (\E p \in Procs : Disconnect(p)) \/ UNCHANGED vars
  BY <1>3 DEF Tick, Disconnect, vars, readerVars, CachedRequests, CacheableList
<1> QED BY <1>1, <1>2, <1>3 DEF Next

RefinementInv == StalenessInv /\ RowsAreAsked /\ CachedRequests

\* RecentReads's variables, read off those of ActivityReadCache.
absStored == [w \in committed |-> req[w]]

LEMMA AskedIsAbstract == \A q : Recent!Asked(q) = Asked(q)
BY DEF Recent!Asked, Asked

LEMMA RecentAnswer ==
  ASSUME NEW r \in Readers, NEW q \in Queries, NEW p \in Queries, Alike(q, p),
         NEW shown \in SUBSET Writers, shown \subseteq Asked(p),
         \A w \in Lacks(p, shown) : age[w] < MaxAge(q),
         answer' = [answer EXCEPT ![r] = [query |-> q, rows |-> shown]],
         UNCHANGED <<committed, age, req>>
  PROVE  Recent!Next
<1>1. Recent!Answer(r, q, shown)
  <2>1. Recent!Asked(p) = Asked(p)
    BY AskedIsAbstract
  <2>2. Asked(p) \ shown = Lacks(p, shown)
    BY DEF Asked, Lacks
  <2> QED BY <2>1, <2>2 DEF Recent!Answer
<1> QED BY <1>1 DEF Recent!Next

\* A query is answered with its own list, if not with that of one with its key.
LEMMA AlikeItself == \A q \in Queries : Alike(q, q)
BY DEF Alike

LEMMA RecentReaderStep ==
  ASSUME RefinementInv, NEW r \in Readers,
         ReaderStep(r) \/ \E q \in Queries : StartList(r, q)
  PROVE  Recent!Next \/ UNCHANGED <<absStored, age, answer>>
<1> USE DEF RefinementInv, StalenessInv, TypeOK
<1>1. UNCHANGED <<committed, age, req>>
  BY DEF ReaderStep, StartList, ReadVersions, GetListHit, GetListMiss, CoreLists,
         CoreListFails, SetList, coreVars, writerVars
<1>2. CASE CoreListFails(r) \/ \E q \in Queries : StartList(r, q)
  <2>1. answer' = [answer EXCEPT ![r] = None]
    BY <1>2 DEF CoreListFails, StartList, Respond
  <2>2. Recent!Clear(r)
    BY <1>1, <2>1 DEF Recent!Clear
  <2> QED BY <2>2 DEF Recent!Next
<1>3. CASE ReadVersions(r) \/ GetListMiss(r) \/ (CoreLists(r) /\ CacheableList(query[r]))
  <2>1. UNCHANGED answer
    BY <1>3 DEF ReadVersions, GetListMiss, CoreLists, readerVars
  <2> QED BY <1>1, <2>1 DEF absStored
<1>4. ASSUME CoreLists(r), ~CacheableList(query[r])
      PROVE  Recent!Next
  <2>1. /\ query[r] \in Queries /\ Asked(query[r]) \in SUBSET Writers
        /\ answer' = [answer EXCEPT ![r] = [query |-> query[r], rows |-> Asked(query[r])]]
    BY <1>4 DEF CoreLists, Respond, ReaderOK, CoreOK, Asked
  <2>2. Lacks(query[r], Asked(query[r])) = {}
    BY DEF Lacks, Asked
  <2> QED BY <1>1, <2>1, <2>2, RecentAnswer, AlikeItself
<1>5. ASSUME GetListHit(r)
      PROVE  Recent!Next
  <2> DEFINE k == KeyOf(r)
             p == lists[k].asked
  <2>1. /\ query[r] \in Queries /\ k \in DOMAIN lists
        /\ CacheableList(query[r]) /\ MaxAge(query[r]) = AgeCap
    BY <1>5 DEF GetListHit, ReaderOK, CachedRequests, Cached, MaxAge
  <2>2. p \in Queries /\ Alike(query[r], p)
    <3>1. p \in Queries /\ k.query = Printed(p)
      BY <2>1 DEF RedisOK, IsEntry
    <3>2. k.query = Printed(query[r])
      BY DEF KeyOf, ListKey
    <3> QED BY <2>1, <3>1, <3>2 DEF Alike
  <2>3. lists[k].rows \subseteq Asked(p) /\ lists[k].rows \in SUBSET Writers
    BY <2>1 DEF RowsAreAsked, RedisOK, IsEntry
  <2>4. ASSUME NEW w \in Lacks(p, lists[k].rows)
        PROVE  age[w] < MaxAge(query[r])
    <3>1. age[w] + lists[k].ttl <= ListTTL + ReqTimeout
      BY <2>1, <2>4 DEF ListsRunDown, LacksOf
    <3>2. age[w] \in Nat /\ lists[k].ttl \in Nat \ {0}
      BY <2>1, TimeAssumption DEF Lacks, CoreOK, RedisOK, IsEntry, AgeCap
    <3> QED BY <2>1, <3>1, <3>2, TimeAssumption DEF AgeCap
  <2>5. answer' = [answer EXCEPT ![r] = [query |-> query[r], rows |-> lists[k].rows]]
    BY <1>5 DEF GetListHit, Respond
  <2> HIDE DEF k, p
  <2> QED BY <1>1, <2>1, <2>2, <2>3, <2>4, <2>5, RecentAnswer
<1>6. ASSUME SetList(r)
      PROVE  Recent!Next
  <2>1. /\ query[r] \in Queries /\ pc[r] \in Held /\ rows[r] \in SUBSET Writers
        /\ MaxAge(query[r]) = AgeCap
    BY <1>6 DEF SetList, ReaderOK, Held, CachedRequests, Cached, MaxAge
  <2>2. rows[r] \subseteq Asked(query[r])
    BY <2>1 DEF RowsAreAsked
  <2>3. ASSUME NEW w \in Lacks(query[r], rows[r])
        PROVE  age[w] < MaxAge(query[r])
    <3>1. age[w] + left[r] <= ReqTimeout
      BY <2>1, <2>3 DEF HeldRunDown
    <3>2. age[w] \in Nat /\ left[r] \in Nat
      BY TimeAssumption DEF Lacks, CoreOK, ControlOK, Procs, AgeCap
    <3> QED BY <2>1, <3>1, <3>2, TimeAssumption DEF AgeCap
  <2>4. answer' = [answer EXCEPT ![r] = [query |-> query[r], rows |-> rows[r]]]
    BY <1>6 DEF SetList, Respond
  <2> QED BY <1>1, <2>1, <2>2, <2>3, <2>4, RecentAnswer, AlikeItself
<1> QED BY <1>2, <1>3, <1>4, <1>5, <1>6 DEF ReaderStep

LEMMA RecentOtherStep ==
  ASSUME RefinementInv,
         \/ \E w \in Writers : WriterStep(w) \/ \E r \in Requests : StartCreate(w, r)
         \/ Tick \/ \E p \in Procs : Disconnect(p)
         \/ UNCHANGED vars
  PROVE  Recent!Next \/ UNCHANGED <<absStored, age, answer>>
<1> USE DEF RefinementInv, StalenessInv, TypeOK
<1>1. CASE \E w \in Writers : CoreCommits(w) \/ CoreCommitsUnheard(w)
  <2>1. PICK w \in Writers : CoreCommits(w) \/ CoreCommitsUnheard(w)
    BY <1>1
  <2>2. /\ committed' = committed \union {w} /\ req' = req /\ age' = age
        /\ answer' = answer /\ pc[w] = "core"
    BY <2>1 DEF CoreCommits, CoreCommitsUnheard, CoreStores, readerVars, writerVars
  <2>3. w \in Writers /\ w \notin committed /\ req[w] \in Requests
    BY <2>2 DEF StoredOnce, BeforeStored, WriterOK
  <2>4. PICK a \in Requests : a = req[w]
    BY <2>3
  <2>5. Recent!Store(w, a)
    BY <2>2, <2>3, <2>4 DEF Recent!Store
  <2> QED BY <2>3, <2>5 DEF Recent!Next
<1>2. CASE Tick
  <2>1. Recent!GrowOlder
    BY <1>2 DEF Tick, Recent!GrowOlder, readerVars, writerVars
  <2> QED BY <2>1 DEF Recent!Next
<1>3. CASE \E w \in Writers, r \in Requests : StartCreate(w, r)
  <2>1. PICK w \in Writers, r \in Requests : StartCreate(w, r)
    BY <1>3
  <2>2. w \notin committed /\ UNCHANGED <<committed, age, answer>>
    BY <2>1 DEF StartCreate, StoredOnce, BeforeStored, coreVars, readerVars
  <2>3. \A v \in committed : req'[v] = req[v]
    BY <2>1, <2>2 DEF StartCreate, WriterOK, CoreOK
  <2> QED BY <2>2, <2>3 DEF absStored
<1>4. CASE UNCHANGED <<committed, age, req, answer>>
  BY <1>4 DEF absStored
<1> QED BY <1>1, <1>2, <1>3, <1>4, PrepareProceeds
        DEF WriterStep, CoreRejects, Incr, Expire, Disconnect, vars, coreVars, readerVars,
            writerVars

\* The list endpoint keeps RecentReads's promise: with any Redis and Core
\* failure, client gone away and interleaving of requests, an answer is the list
\* of one query, the one asked or another that the list key prints alike; it
\* shows only stored activities that query asks for, and lacks none of them that
\* is ListTTL + ReqTimeout old, or none at all when the list is not cacheable.
THEOREM ListsAreRecent == Spec => ImplementsRecentReads
<1>1. Init => RefinementInv /\ Recent!Init
  <2>1. Init => RowsAreAsked /\ CachedRequests
    BY DEF Init, RowsAreAsked, CachedRequests, Cached, Held, Procs
  <2>2. Init => Recent!Init
    BY DEF Init, Recent!Init
  <2> QED BY <2>1, <2>2, StalenessInvInit DEF RefinementInv
<1>2. RefinementInv /\ [Next]_vars => RefinementInv'
  BY StalenessInvStep, RowsAreAskedStep, CachedRequestsStep DEF RefinementInv, StalenessInv
<1>3. RefinementInv /\ [Next]_vars => [Recent!Next]_<<absStored, age, answer>>
  BY RecentReaderStep, RecentOtherStep DEF Next
<1> QED BY <1>1, <1>2, <1>3, PTL DEF Spec, ImplementsRecentReads, Recent!Spec, absStored
-----------------------------------------------------------------------------
(* What Core has answered *)

\* What Core has answered 2xx to is in Core.
AnsweredIsStored ==
  \A w \in Writers : pc[w] \in {"incr", "expire", "done"} => w \in committed

LEMMA ReaderKeepsWriters ==
  ASSUME TypeOK, NEW r \in Readers, ReaderStep(r) \/ \E q \in Queries : StartList(r, q)
  PROVE  committed' = committed /\ \A w \in Writers : pc'[w] = pc[w]
BY ConstantsAssumption
DEF ReaderStep, StartList, ReadVersions, GetListHit, GetListMiss, CoreLists,
    CoreListFails, SetList, Respond, Goto, TypeOK, ControlOK, Procs, coreVars

LEMMA AnsweredIsStoredStep ==
  ASSUME TypeOK, AnsweredIsStored, [Next]_vars
  PROVE  AnsweredIsStored'
<1> USE DEF TypeOK, AnsweredIsStored
<1>1. CASE \E r \in Readers : ReaderStep(r) \/ \E q \in Queries : StartList(r, q)
  BY <1>1, ReaderKeepsWriters
<1>2. ASSUME NEW w \in Writers, NEW r \in Requests, StartCreate(w, r)
      PROVE  AnsweredIsStored'
  <2>1. committed' = committed
    BY <1>2 DEF StartCreate, coreVars
  <2>2. PICK step \in {"core"} \union Preparing : pc' = [pc EXCEPT ![w] = step]
    BY <1>2 DEF StartCreate, FirstSteps, Goto, Preparing
  <2> QED BY <2>1, <2>2 DEF ControlOK, Procs, Preparing
<1>3. ASSUME NEW w \in Writers, WriterStep(w)
      PROVE  AnsweredIsStored'
  <2>1. committed \subseteq committed'
    BY <1>3, PrepareProceeds
    DEF WriterStep, CoreCommits, CoreCommitsUnheard, CoreRejects, Incr, Expire,
        CoreStores, coreVars
  <2>2. PICK step : pc' = [pc EXCEPT ![w] = step]
    BY <1>3, PrepareProceeds
    DEF WriterStep, CoreCommits, CoreCommitsUnheard, CoreRejects, Incr, Expire,
        Proceed, Goto
  <2>3. CASE CoreCommits(w)
    BY <2>1, <2>2, <2>3 DEF CoreCommits, CoreStores, ControlOK, Procs
  <2>4. CASE Incr(w) \/ Expire(w)
    BY <2>1, <2>2, <2>4 DEF Incr, Expire, ControlOK, Procs
  <2>5. CASE Prepare(w) \/ CoreCommitsUnheard(w) \/ CoreRejects(w)
    <3>1. pc'[w] \in {"core", "failed", "refused"}
      BY <2>5, PrepareProceeds
      DEF CoreCommitsUnheard, CoreRejects, Proceed, Goto, ControlOK, Procs
    <3> QED BY <2>1, <2>2, <3>1 DEF ControlOK, Procs
  <2> QED BY <1>3, <2>3, <2>4, <2>5 DEF WriterStep
<1>4. CASE Tick \/ (\E p \in Procs : Disconnect(p)) \/ UNCHANGED vars
  BY <1>4 DEF Tick, Disconnect, vars, coreVars
<1> QED BY <1>1, <1>2, <1>3, <1>4 DEF Next

-----------------------------------------------------------------------------
(* Invalidation *)

\* What was read or filed names no version past the present one, unless the
\* version key has expired since: then the TTL, or the request context, of what
\* names it has run down for as long.
Lag(f, t, cap) == \A s \in DOMAIN f : f[s] <= ver[s] \/ lapsed[s] + t <= cap

VersionsLag ==
  /\ \A k \in DOMAIN lists : Lag(k.ver, lists[k].ttl, AgeCap)
  /\ \A r \in Readers : pc[r] # "idle" => Lag(seen[r], left[r], ReqTimeout)
  /\ \A r \in Readers : pc[r] \in Held => Lag(coreVer[r], left[r], ReqTimeout)

\* A version key only grows, until it expires and a new count begins.
LEMMA VersionsGrowOrLapse ==
  ASSUME TypeOK, [Next]_vars, NEW s \in Scopes
  PROVE  /\ ver[s] \in Nat /\ ver'[s] \in Nat
         /\ lapsed[s] \in Nat /\ lapsed'[s] \in Nat
         /\ \/ Tick /\ lapsed'[s] = 0
            \/ /\ ver[s] <= ver'[s]
               /\ lapsed'[s] = lapsed[s] \/ (Tick /\ lapsed'[s] = lapsed[s] + 1)
<1>1. ver \in [Scopes -> Nat] /\ lapsed \in [Scopes -> Nat]
  BY TimeAssumption DEF TypeOK, RedisOK, AgeCap
<1>2. ver' \in [Scopes -> Nat] /\ lapsed' \in [Scopes -> Nat]
  BY StepTypeOK, TimeAssumption DEF TypeOK, RedisOK, AgeCap
<1>3. CASE Tick
  BY <1>1, <1>2, <1>3 DEF Tick
<1>4. ASSUME NEW w \in Writers, Incr(w)
      PROVE  ver'[s] \in {ver[s], ver[s] + 1} /\ UNCHANGED lapsed
  <2>1. /\ \/ ver' = [ver EXCEPT ![Head(todo[w])] = ver[Head(todo[w])] + 1]
           \/ UNCHANGED ver
        /\ UNCHANGED lapsed
    BY <1>4 DEF Incr
  <2> QED BY <1>1, <2>1
<1>5. CASE ~Tick /\ ~ \E w \in Writers : Incr(w)
  <2>1. UNCHANGED <<ver, lapsed>>
    BY <1>5, PrepareProceeds
    DEF Next, vars, ReaderStep, WriterStep, StartList, StartCreate, ReadVersions,
        GetListHit, GetListMiss, CoreLists, CoreListFails, SetList, CoreCommits,
        CoreCommitsUnheard, CoreRejects, Expire, Disconnect, redisVars
  <2> QED BY <1>1, <2>1
<1> QED
  <2>1. CASE \E w \in Writers : Incr(w)
    <3>1. ver'[s] \in {ver[s], ver[s] + 1} /\ UNCHANGED lapsed
      BY <1>4, <2>1
    <3>2. ver[s] <= ver'[s] /\ lapsed'[s] = lapsed[s]
      BY <1>1, <3>1
    <3> QED BY <1>1, <1>2, <3>2
  <2> QED BY <1>3, <1>5, <2>1

\* A timer that runs down with the ticks covers the lapse of a version key.
LEMMA LapseKept ==
  ASSUME TypeOK, [Next]_vars, NEW s \in Scopes,
         NEW t \in Nat, NEW u \in Nat, NEW cap \in Nat,
         u <= cap, u <= t, Tick => u < t, lapsed[s] + t <= cap
  PROVE  lapsed'[s] + u <= cap
BY VersionsGrowOrLapse

LEMMA LagKept ==
  ASSUME TypeOK, [Next]_vars, NEW f, Versions(f),
         NEW t \in Nat, NEW u \in Nat, NEW cap \in Nat,
         u <= cap, u <= t, Tick => u < t, Lag(f, t, cap)
  PROVE  \A s \in DOMAIN f : f[s] <= ver'[s] \/ lapsed'[s] + u <= cap
<1> SUFFICES ASSUME NEW s \in DOMAIN f
             PROVE  f[s] <= ver'[s] \/ lapsed'[s] + u <= cap
  OBVIOUS
<1>1. s \in Scopes /\ f[s] \in Nat
  BY DEF Versions
<1>2. /\ ver[s] \in Nat /\ ver'[s] \in Nat
      /\ lapsed[s] \in Nat /\ lapsed'[s] \in Nat
      /\ \/ Tick /\ lapsed'[s] = 0
         \/ ver[s] <= ver'[s]
  BY <1>1, VersionsGrowOrLapse
<1>3. CASE Tick /\ lapsed'[s] = 0
  BY <1>3
<1>4. CASE lapsed[s] + t <= cap
  BY <1>1, <1>4, LapseKept
<1>5. CASE f[s] <= ver[s] /\ ver[s] <= ver'[s]
  BY <1>1, <1>2, <1>5
<1> QED BY <1>2, <1>3, <1>4, <1>5 DEF Lag

\* The step by which a list request files what it holds under k.
Files(r, k) == SetList(r) /\ RedisUp(r) /\ StoreList(r) /\ k = KeyOf(r)

\* A list that is not being filed keeps what it shows, and its TTL runs down.
LEMMA ListTimersRunDown ==
  ASSUME TypeOK, [Next]_vars, NEW k \in DOMAIN lists',
         ~ \E r \in Readers : Files(r, k)
  PROVE  /\ k \in DOMAIN lists
         /\ lists'[k].rows = lists[k].rows /\ lists'[k].moved = lists[k].moved
         /\ lists'[k].asked = lists[k].asked
         /\ lists[k].ttl \in Nat /\ lists'[k].ttl \in 0..AgeCap
         /\ lists'[k].ttl <= lists[k].ttl /\ (Tick => lists'[k].ttl < lists[k].ttl)
<1> USE DEF TypeOK
<1>1. \A l \in DOMAIN lists : lists[l] \in [rows : SUBSET Writers, ttl : 1..ListTTL,
                                            moved : BOOLEAN, asked : Queries]
  BY DEF RedisOK, IsEntry
<1>2. lists'[k].ttl \in 1..ListTTL
  BY StepTypeOK DEF RedisOK, IsEntry
<1>3. CASE Tick
  <2>1. /\ k \in DOMAIN lists
        /\ lists'[k] = [lists[k] EXCEPT !.ttl = lists[k].ttl - 1]
    BY <1>3 DEF Tick
  <2> QED BY <1>1, <1>2, <2>1, TimeAssumption DEF AgeCap
<1>4. CASE ~Tick
  <2>1. k \in DOMAIN lists /\ lists'[k] = lists[k]
    <3>1. CASE UNCHANGED lists
      BY <3>1
    <3>2. CASE \E r \in Readers : SetList(r) /\ RedisUp(r) /\ StoreList(r)
      BY <3>2 DEF StoreList, Files
    <3> QED BY <1>4, <3>1, <3>2, PrepareProceeds
            DEF Next, vars, ReaderStep, WriterStep, StartList, StartCreate, ReadVersions,
                GetListHit, GetListMiss, CoreLists, CoreListFails, SetList, CoreCommits,
                CoreCommitsUnheard, CoreRejects, Incr, Expire, Disconnect, redisVars
  <2> QED BY <1>1, <1>2, <1>4, <2>1, TimeAssumption DEF AgeCap
<1> QED BY <1>3, <1>4

\* So does the context of a list request that does not begin.
LEMMA ContextsRunDown ==
  ASSUME TypeOK, [Next]_vars, NEW r \in Readers, pc'[r] # "idle",
         ~ \E q \in Queries : StartList(r, q)
  PROVE  /\ pc[r] # "idle"
         /\ left[r] \in Nat /\ left'[r] \in 0..ReqTimeout
         /\ left'[r] <= left[r] /\ (Tick => left'[r] < left[r])
<1> USE DEF TypeOK
<1>1. left[r] \in 0..ReqTimeout /\ left'[r] \in 0..ReqTimeout
  BY StepTypeOK DEF ControlOK, Procs
<1>2. CASE ~Tick /\ \E o \in Readers : ReaderStep(o) \/ \E q \in Queries : StartList(o, q)
  <2>1. PICK o \in Readers : ReaderStep(o) \/ \E q \in Queries : StartList(o, q)
    BY <1>2
  <2>2. CASE o # r
    <3>1. pc'[r] = pc[r] /\ left'[r] = left[r]
      BY <2>1, <2>2
      DEF ReaderStep, StartList, ReadVersions, GetListHit, GetListMiss, CoreLists,
          CoreListFails, SetList, Respond, Goto, ControlOK, Procs
    <3> QED BY <1>1, <1>2, <3>1, TimeAssumption
  <2>3. CASE o = r
    <3>1. ReaderStep(r)
      BY <2>1, <2>3
    <3>2. pc[r] # "idle"
      BY <3>1 DEF ReaderStep, ReadVersions, GetListHit, GetListMiss, CoreLists,
                  CoreListFails, SetList
    <3>3. left'[r] = left[r]
      BY <3>1 DEF ReaderStep, ReadVersions, GetListHit, GetListMiss, CoreLists,
                  CoreListFails, SetList, Respond, Goto, ControlOK, Procs
    <3> QED BY <1>1, <1>2, <3>2, <3>3, TimeAssumption
  <2> QED BY <2>2, <2>3
<1>3. CASE ~Tick /\ \E w \in Writers : WriterStep(w) \/ \E q \in Requests : StartCreate(w, q)
  <2>1. pc'[r] = pc[r] /\ left'[r] = left[r]
    BY <1>3, ConstantsAssumption, PrepareProceeds
    DEF WriterStep, StartCreate, CoreCommits, CoreCommitsUnheard, CoreRejects, Incr,
        Expire, Proceed, Goto, ControlOK, Procs
  <2> QED BY <1>1, <1>3, <2>1, TimeAssumption
<1>4. CASE Tick
  <2>1. pc[r] # "idle"
    BY <1>4 DEF Tick
  <2>2. Active(r)
    BY <2>1 DEF Active, Ended, ControlOK, ReaderSteps
  <2> QED BY <1>1, <1>4, <2>1, <2>2, TimeAssumption DEF Tick, Procs
<1>5. CASE ~Tick /\ ((\E p \in Procs : Disconnect(p)) \/ UNCHANGED vars)
  <2>1. UNCHANGED pc /\ left'[r] \in {left[r], 0}
    BY <1>5 DEF Disconnect, vars, ControlOK, Procs
  <2> QED BY <1>1, <1>5, <2>1, TimeAssumption
<1> QED BY <1>2, <1>3, <1>4, <1>5 DEF Next

\* What one step leaves named by a list or a request still lags, or has lapsed.
LEMMA ListsLag ==
  ASSUME TypeOK, VersionsLag, [Next]_vars, NEW k \in DOMAIN lists',
         ~ \E r \in Readers : Files(r, k)
  PROVE  Lag(k.ver, lists[k].ttl, AgeCap)'
<1>1. PICK t : t = lists[k].ttl
  OBVIOUS
<1>2. PICK u : u = lists'[k].ttl
  OBVIOUS
<1>3. /\ k \in DOMAIN lists /\ t \in Nat /\ u \in 0..AgeCap
      /\ u <= t /\ (Tick => u < t)
  BY <1>1, <1>2, ListTimersRunDown
<1>4. Versions(k.ver) /\ Lag(k.ver, t, AgeCap)
  BY <1>1, <1>3 DEF TypeOK, RedisOK, IsKey, VersionsLag
<1>5. AgeCap \in Nat /\ u \in Nat /\ u <= AgeCap
  BY <1>3, TimeAssumption DEF AgeCap
<1>6. \A s \in DOMAIN k.ver : k.ver[s] <= ver'[s] \/ lapsed'[s] + u <= AgeCap
  BY <1>3, <1>4, <1>5, LagKept
<1> QED BY <1>2, <1>6 DEF Lag, AgeCap

LEMMA RequestsLag ==
  ASSUME TypeOK, [Next]_vars, NEW r \in Readers, pc'[r] # "idle",
         ~ \E q \in Queries : StartList(r, q),
         NEW f, Versions(f), Lag(f, left[r], ReqTimeout)
  PROVE  \A s \in DOMAIN f : f[s] <= ver'[s] \/ lapsed'[s] + left'[r] <= ReqTimeout
<1>1. PICK t : t = left[r]
  OBVIOUS
<1>2. PICK u : u = left'[r]
  OBVIOUS
<1>3. t \in Nat /\ u \in 0..ReqTimeout /\ u <= t /\ (Tick => u < t)
  BY <1>1, <1>2, ContextsRunDown
<1>4. ReqTimeout \in Nat /\ u \in Nat /\ u <= ReqTimeout
  BY <1>3, TimeAssumption
<1>5. Lag(f, t, ReqTimeout)
  BY <1>1
<1>6. \A s \in DOMAIN f : f[s] <= ver'[s] \/ lapsed'[s] + u <= ReqTimeout
  BY <1>3, <1>4, <1>5, LagKept
<1> QED BY <1>2, <1>6

\* A list request holds rows only from its Core read on.
LEMMA HeldOnlyAfterCore ==
  ASSUME TypeOK, [Next]_vars, NEW r \in Readers, pc'[r] \in Held, ~CoreLists(r)
  PROVE  /\ pc[r] \in Held /\ query'[r] = query[r]
         /\ rows'[r] = rows[r] /\ coreVer'[r] = coreVer[r]
<1> USE DEF TypeOK
<1>1. CASE \E o \in Readers : ReaderStep(o) \/ \E q \in Queries : StartList(o, q)
  <2>1. PICK o \in Readers : ReaderStep(o) \/ \E q \in Queries : StartList(o, q)
    BY <1>1
  <2>2. CASE o # r
    BY <2>1, <2>2
    DEF ReaderStep, StartList, ReadVersions, GetListHit, GetListMiss, CoreLists,
        CoreListFails, SetList, Respond, Goto, ControlOK, ReaderOK, Procs, readerVars
  <2>3. CASE o = r
    BY <2>1, <2>3
    DEF ReaderStep, StartList, ReadVersions, GetListHit, GetListMiss, CoreLists,
        CoreListFails, SetList, Respond, Goto, Held, ControlOK, ReaderOK, Procs, readerVars
  <2> QED BY <2>2, <2>3
<1>2. CASE \E w \in Writers : WriterStep(w) \/ \E q \in Requests : StartCreate(w, q)
  BY <1>2, ConstantsAssumption, PrepareProceeds
  DEF WriterStep, StartCreate, CoreCommits, CoreCommitsUnheard, CoreRejects, Incr,
      Expire, Proceed, Goto, ControlOK, Procs, readerVars
<1>3. CASE Tick \/ (\E p \in Procs : Disconnect(p)) \/ UNCHANGED vars
  BY <1>3 DEF Tick, Disconnect, vars, readerVars
<1> QED BY <1>1, <1>2, <1>3 DEF Next

LEMMA VersionsLagStep ==
  ASSUME TypeOK, VersionsLag, [Next]_vars
  PROVE  VersionsLag'
<1> USE DEF TypeOK
<1>1. ASSUME NEW k \in DOMAIN lists'
      PROVE  Lag(k.ver, lists[k].ttl, AgeCap)'
  <2>1. ASSUME NEW r \in Readers, Files(r, k)
        PROVE  Lag(k.ver, lists[k].ttl, AgeCap)'
    <3>1. /\ k.ver = seen[r] /\ lists'[k].ttl = ListTTL
          /\ UNCHANGED <<ver, lapsed>>
      BY <2>1 DEF Files, SetList, StoreList, Filed, KeyOf, ListKey
    <3>2. Lag(seen[r], left[r], ReqTimeout)
      BY <2>1 DEF Files, SetList, VersionsLag
    <3>3. left[r] \in Nat /\ left[r] > 0 /\ Versions(seen[r])
      BY <2>1, TimeAssumption DEF Files, RedisUp, ControlOK, ReaderOK, Procs
    <3>4. \A s \in DOMAIN seen[r] : lapsed[s] \in Nat
      BY <3>3, TimeAssumption DEF Versions, RedisOK, AgeCap
    <3> QED BY <3>1, <3>2, <3>3, <3>4, TimeAssumption DEF Lag, AgeCap
  <2> QED BY <2>1, ListsLag
<1>2. ASSUME NEW r \in Readers, pc'[r] # "idle"
      PROVE  Lag(seen[r], left[r], ReqTimeout)'
  <2>1. CASE seen'[r] = NoVersions
    BY <2>1 DEF Lag, NoVersions
  <2>2. CASE seen'[r] # NoVersions
    <3>1. ~ \E q \in Queries : StartList(r, q)
      BY <2>2 DEF StartList, ReaderOK
    <3>2. CASE seen'[r] = seen[r]
      <4>1. Versions(seen[r]) /\ Lag(seen[r], left[r], ReqTimeout)
        BY <1>2, <3>1, ContextsRunDown DEF ReaderOK, VersionsLag
      <4>2. \A s \in DOMAIN seen[r] : \/ seen[r][s] <= ver'[s]
                                      \/ lapsed'[s] + left'[r] <= ReqTimeout
        BY <1>2, <3>1, <4>1, RequestsLag
      <4> QED BY <3>2, <4>2 DEF Lag
    <3>3. CASE ReadVersions(r)
      <4>1. /\ UNCHANGED <<ver, lapsed, left>> /\ pc[r] # "idle"
            /\ query[r].scopes \subseteq Scopes
        BY <3>3, ConstantsAssumption DEF ReadVersions, redisVars, ReaderOK
      <4>2. PICK s \in query[r].scopes : \E v \in {ver[s], 0} :
              seen' = [seen EXCEPT ![r] = [t \in DOMAIN seen[r] \union {s} |->
                                             IF t = s THEN v ELSE seen[r][t]]]
        BY <3>3 DEF ReadVersions, ReadVersion
      <4>3. \A v \in {ver[s], 0} : v <= ver[s]
        BY <4>1, <4>2 DEF RedisOK
      <4>4. Lag(seen[r], left[r], ReqTimeout)
        BY <4>1 DEF VersionsLag
      <4> QED BY <4>1, <4>2, <4>3, <4>4 DEF Lag, ReaderOK
    <3>4. ASSUME NEW o \in Readers, ReaderStep(o) \/ \E q \in Queries : StartList(o, q)
          PROVE  seen'[r] = seen[r] \/ ReadVersions(r)
      <4>1. CASE o # r
        BY <3>4, <4>1
        DEF ReaderStep, StartList, ReadVersions, ReadVersion, GetListHit, GetListMiss,
            CoreLists, CoreListFails, SetList, Respond, readerVars, ReaderOK
      <4>2. CASE o = r
        BY <2>2, <3>1, <3>4, <4>2
        DEF ReaderStep, GetListHit, GetListMiss, CoreLists, CoreListFails, SetList,
            Respond, readerVars, ReaderOK
      <4> QED BY <4>1, <4>2
    <3>5. ASSUME ~ \E o \in Readers : ReaderStep(o) \/ \E q \in Queries : StartList(o, q)
          PROVE  seen'[r] = seen[r]
      BY <3>5, PrepareProceeds
      DEF Next, vars, WriterStep, StartCreate, CoreCommits, CoreCommitsUnheard, CoreRejects,
          Incr, Expire, Disconnect, Tick, readerVars
    <3> QED BY <3>2, <3>3, <3>4, <3>5
  <2> QED BY <2>1, <2>2
<1>3. ASSUME NEW r \in Readers, pc'[r] \in Held
      PROVE  Lag(coreVer[r], left[r], ReqTimeout)'
  <2>1. CASE CoreLists(r)
    <3>1. CacheableList(query[r])
      BY <1>3, <2>1 DEF CoreLists, Respond, Goto, Held, ControlOK, Procs
    <3>2. /\ coreVer'[r] = [s \in query[r].scopes |-> ver[s]]
          /\ UNCHANGED ver /\ query[r].scopes \subseteq Scopes
      BY <2>1, <3>1, ConstantsAssumption DEF CoreLists, redisVars, ReaderOK
    <3> QED BY <3>2 DEF Lag, RedisOK
  <2>2. CASE ~CoreLists(r)
    <3>1. pc[r] \in Held /\ coreVer'[r] = coreVer[r]
      BY <1>3, <2>2, HeldOnlyAfterCore
    <3>2. pc'[r] # "idle" /\ ~ \E q \in Queries : StartList(r, q)
      BY <1>3, <3>1 DEF Held, StartList
    <3>3. Versions(coreVer[r]) /\ Lag(coreVer[r], left[r], ReqTimeout)
      BY <3>1 DEF ReaderOK, VersionsLag
    <3>4. \A s \in DOMAIN coreVer[r] : \/ coreVer[r][s] <= ver'[s]
                                       \/ lapsed'[s] + left'[r] <= ReqTimeout
      BY <3>2, <3>3, RequestsLag
    <3> QED BY <3>1, <3>4 DEF Lag
  <2> QED BY <2>1, <2>2
<1> QED BY <1>1, <1>2, <1>3 DEF VersionsLag

\* What a step bumps, it bumps to a version past the present one.
LEMMA BumpIsNew ==
  ASSUME TypeOK, [Next]_vars, NEW w \in Writers, NEW s \in Scopes,
         bumped'[w][s] # bumped[w][s]
  PROVE  /\ bumped'[w][s] = ver[s] + 1 /\ ver'[s] = ver[s] + 1
         /\ UNCHANGED <<lists, lapsed>>
<1> USE DEF TypeOK
<1>1. PICK v \in Writers : Incr(v)
  BY PrepareProceeds
  DEF Next, vars, ReaderStep, WriterStep, StartList, StartCreate, ReadVersions, GetListHit,
      GetListMiss, CoreLists, CoreListFails, SetList, CoreCommits, CoreCommitsUnheard,
      CoreRejects, Expire, Tick, Disconnect, writerVars
<1> DEFINE h == Head(todo[v])
<1>2. /\ ver' = [ver EXCEPT ![h] = ver[h] + 1]
      /\ bumped' = [bumped EXCEPT ![v][h] = ver[h] + 1]
  BY <1>1 DEF Incr
<1>3. v = w /\ h = s
  BY <1>2 DEF WriterOK
<1> HIDE DEF h
<1> QED BY <1>1, <1>2, <1>3 DEF Incr, WriterOK, RedisOK

\* Right after an INCR no list of its scope can be looked up, unless the version
\* key has expired within the last ListTTL + ReqTimeout: the bump of
\* InvalidateScopes leads to a version past the present one, and a list is filed
\* under such a version only when the key has expired since its versions were
\* read, ReqTimeout at most before its SET and so that time and a TTL ago.
THEOREM InvalidationMisses == Spec => ScopedListsMissImmediately
<1> DEFINE Inv == TypeOK /\ VersionsLag
<1>1. Init => Inv
  BY InitTypeOK DEF Init, VersionsLag, Held, Procs
<1>2. Inv /\ [Next]_vars => Inv'
  BY StepTypeOK, VersionsLagStep
<1>3. Inv /\ [Next]_vars =>
        [\A w \in Writers, s \in Scopes : bumped'[w][s] # bumped[w][s] /\ Settled(s) =>
           \A k \in DOMAIN lists' : s \in k.query.scopes => ~Reachable(k)']_vars
  <2> SUFFICES ASSUME Inv, [Next]_vars, NEW w \in Writers, NEW s \in Scopes,
                      bumped'[w][s] # bumped[w][s], Settled(s),
                      NEW k \in DOMAIN lists', s \in k.query.scopes, Reachable(k)'
               PROVE  FALSE
    OBVIOUS
  <2>1. ver'[s] = ver[s] + 1 /\ k \in DOMAIN lists
    BY BumpIsNew
  <2>2. k.ver = [t \in k.query.scopes |-> ver'[t]]
    BY DEF Reachable, ListKey, Printed
  <2>3. k.ver[s] <= ver[s] \/ lapsed[s] + lists[k].ttl <= AgeCap
    BY <2>1, <2>2 DEF VersionsLag, Lag
  <2>4. lists[k].ttl \in 1..ListTTL /\ ver[s] \in Nat
    BY <2>1 DEF TypeOK, RedisOK, IsEntry
  <2> QED BY <2>1, <2>2, <2>3, <2>4, TimeAssumption DEF Settled, AgeCap
<1> QED BY <1>1, <1>2, <1>3, PTL DEF Spec, ScopedListsMissImmediately

\* Every bump of w within f came after the versions in f were current, unless
\* the version key has expired since.
BumpedSince(w, f, t, cap) ==
  \A s \in DOMAIN f : bumped[w][s] = 0 \/ f[s] < bumped[w][s] \/ lapsed[s] + t <= cap

\* No version is bumped before its create is stored, or past the present one
\* since the version key last expired.
BumpsFollowStores ==
  \A w \in Writers, s \in Scopes : bumped[w][s] # 0 =>
    w \in committed /\ (bumped[w][s] <= ver[s] \/ lapsed[s] <= age[w])

\* A fill lacks only what has been bumped after its Core read, or not yet.
FillsShowBumps ==
  /\ \A k \in DOMAIN lists : ~lists[k].moved =>
       /\ DOMAIN k.ver = k.query.scopes
       /\ \A w \in LacksOf(k) :
            BumpedSince(w, k.ver, lists[k].ttl, AgeCap)
  /\ \A r \in Readers : pc[r] \in Held =>
       /\ DOMAIN coreVer[r] = query[r].scopes
       /\ \A w \in Lacks(query[r], rows[r]) :
            BumpedSince(w, coreVer[r], left[r], ReqTimeout)

FreshInv == /\ StalenessInv /\ AnsweredIsStored
            /\ VersionsLag /\ BumpsFollowStores /\ FillsShowBumps

LEMMA BumpsFollowStoresStep ==
  ASSUME TypeOK, StoredOnce, AnsweredIsStored, BumpsFollowStores, [Next]_vars
  PROVE  BumpsFollowStores'
<1> USE DEF TypeOK
<1>1. committed \subseteq committed'
  BY PrepareProceeds
  DEF Next, vars, ReaderStep, WriterStep, StartList, StartCreate, ReadVersions, GetListHit,
      GetListMiss, CoreLists, CoreListFails, SetList, CoreCommits, CoreCommitsUnheard,
      CoreRejects, CoreStores, Incr, Expire, Tick, Disconnect, coreVars
<1>2. \A w \in Writers, s \in Scopes : bumped'[w][s] # bumped[w][s] => w \in committed
  <2> SUFFICES ASSUME NEW w \in Writers, NEW s \in Scopes, bumped'[w][s] # bumped[w][s]
               PROVE  w \in committed
    OBVIOUS
  <2>1. PICK v \in Writers : Incr(v)
    BY PrepareProceeds
    DEF Next, vars, ReaderStep, WriterStep, StartList, StartCreate, ReadVersions,
        GetListHit, GetListMiss, CoreLists, CoreListFails, SetList, CoreCommits,
        CoreCommitsUnheard, CoreRejects, Expire, Tick, Disconnect, writerVars
  <2>2. v = w
    BY <2>1 DEF Incr, WriterOK
  <2> QED BY <2>1, <2>2 DEF Incr, AnsweredIsStored
<1> SUFFICES ASSUME NEW w \in Writers, NEW s \in Scopes, bumped'[w][s] # 0
             PROVE  w \in committed' /\ (bumped'[w][s] <= ver'[s] \/ lapsed'[s] <= age'[w])
  BY DEF BumpsFollowStores
<1>3. CASE bumped'[w][s] # bumped[w][s]
  <2>1. w \in committed'
    BY <1>1, <1>2, <1>3
  <2>2. bumped'[w][s] = ver'[s] /\ ver'[s] \in Nat
    BY <1>3, BumpIsNew, VersionsGrowOrLapse
  <2> QED BY <2>1, <2>2
<1>4. CASE bumped'[w][s] = bumped[w][s]
  <2>1. /\ w \in committed /\ w \in committed'
        /\ bumped[w][s] <= ver[s] \/ lapsed[s] <= age[w]
    BY <1>1, <1>4 DEF BumpsFollowStores
  <2>2. /\ bumped[w][s] \in Nat /\ ver[s] \in Nat /\ ver'[s] \in Nat
        /\ lapsed[s] \in 0..AgeCap /\ lapsed'[s] \in 0..AgeCap
        /\ age[w] \in 0..AgeCap /\ age'[w] \in 0..AgeCap /\ AgeCap \in Nat
    <3>1. bumped[w][s] \in Nat
      BY DEF WriterOK
    <3>2. /\ ver[s] \in Nat /\ lapsed[s] \in 0..AgeCap /\ age[w] \in 0..AgeCap
      BY DEF RedisOK, CoreOK
    <3>3. ver'[s] \in Nat /\ lapsed'[s] \in 0..AgeCap /\ age'[w] \in 0..AgeCap
      BY StepTypeOK DEF RedisOK, CoreOK, AgeCap
    <3> QED BY <3>1, <3>2, <3>3, TimeAssumption DEF AgeCap
  <2>3. CASE Tick /\ lapsed'[s] = 0
    BY <2>1, <2>2, <2>3
  <2>4. CASE bumped[w][s] <= ver[s] /\ ver[s] <= ver'[s]
    BY <1>4, <2>1, <2>2, <2>4
  <2>5. CASE lapsed[s] <= age[w] /\ Tick
    <3>1. age'[w] = IF age[w] < AgeCap THEN age[w] + 1 ELSE age[w]
      BY <2>1, <2>5 DEF Tick
    <3>2. lapsed'[s] \in {0, lapsed[s], lapsed[s] + 1}
      BY <2>5 DEF Tick
    <3> HIDE DEF AgeCap
    <3> QED BY <2>1, <2>2, <2>5, <3>1, <3>2
  <2>6. CASE lapsed[s] <= age[w] /\ ~Tick
    <3>1. age'[w] = age[w]
      BY <2>6, PrepareProceeds
      DEF Next, vars, ReaderStep, WriterStep, StartList, StartCreate, ReadVersions,
          GetListHit, GetListMiss, CoreLists, CoreListFails, SetList, CoreCommits,
          CoreCommitsUnheard, CoreRejects, CoreStores, Incr, Expire, Disconnect, coreVars
    <3>2. lapsed'[s] = lapsed[s]
      BY <2>6, VersionsGrowOrLapse
    <3> QED BY <2>1, <2>6, <3>1, <3>2
  <2> QED BY <2>1, <2>3, <2>4, <2>5, <2>6, VersionsGrowOrLapse
<1> QED BY <1>3, <1>4

\* What is lacking, and bumped since, stays so; what becomes lacking is not
\* bumped yet.
LEMMA LackingStaysBumpedSince ==
  ASSUME TypeOK, StoredOnce, BumpsFollowStores, [Next]_vars,
         NEW f, Versions(f), NEW t \in Nat, NEW u \in Nat, NEW cap \in Nat,
         u <= cap, u <= t, Tick => u < t, Lag(f, t, cap),
         NEW q, NEW shown, \A w \in Lacks(q, shown) : BumpedSince(w, f, t, cap)
  PROVE  \A w \in Lacks(q, shown)' : BumpedSince(w, f, u, cap)'
<1> USE DEF TypeOK
<1> SUFFICES ASSUME NEW w \in Lacks(q, shown)', NEW s \in DOMAIN f
             PROVE  bumped'[w][s] = 0 \/ f[s] < bumped'[w][s] \/ lapsed'[s] + u <= cap
  BY DEF BumpedSince
<1>1. w \in Writers
  BY StepTypeOK DEF Lacks, CoreOK
<1>2. w \in Lacks(q, shown) \/ w \notin committed
  <2>1. CASE w \in committed
    <3>1. req'[w] = req[w]
      BY <1>1, <2>1, PrepareProceeds
      DEF Next, vars, ReaderStep, WriterStep, StartList, StartCreate, ReadVersions,
          GetListHit, GetListMiss, CoreLists, CoreListFails, SetList, CoreCommits,
          CoreCommitsUnheard, CoreRejects, Incr, Expire, Tick, Disconnect, writerVars,
          StoredOnce, BeforeStored, WriterOK
    <3> QED BY <2>1, <3>1 DEF Lacks
  <2> QED BY <2>1
<1>3. s \in Scopes /\ f[s] \in Nat
  BY DEF Versions
<1>4. bumped[w][s] = 0 \/ f[s] < bumped[w][s] \/ lapsed[s] + t <= cap
  BY <1>1, <1>2, <1>3 DEF BumpedSince, BumpsFollowStores
<1>5. CASE lapsed[s] + t <= cap
  BY <1>3, <1>5, LapseKept
<1>6. CASE bumped'[w][s] = bumped[w][s]
  BY <1>4, <1>5, <1>6
<1>7. CASE bumped'[w][s] # bumped[w][s]
  <2>1. bumped'[w][s] = ver[s] + 1 /\ ver[s] \in Nat
    BY <1>1, <1>3, <1>7, BumpIsNew DEF RedisOK
  <2>2. f[s] <= ver[s] \/ lapsed[s] + t <= cap
    BY DEF Lag
  <2> QED BY <1>3, <1>5, <2>1, <2>2
<1> QED BY <1>6, <1>7

\* The lists and the held rows a step leaves alone.
LEMMA FiledListsShowBumps ==
  ASSUME FreshInv, [Next]_vars, NEW k \in DOMAIN lists', ~lists'[k].moved,
         ~ \E r \in Readers : Files(r, k)
  PROVE  /\ DOMAIN k.ver = k.query.scopes
         /\ \A w \in LacksOf(k)' :
              BumpedSince(w, k.ver, lists[k].ttl, AgeCap)'
<1> USE DEF FreshInv, StalenessInv
<1>1. PICK t : t = lists[k].ttl
  OBVIOUS
<1>2. PICK u : u = lists'[k].ttl
  OBVIOUS
<1>3. PICK shown, q : shown = lists[k].rows /\ q = lists[k].asked
  OBVIOUS
<1>4. /\ k \in DOMAIN lists /\ ~lists[k].moved /\ lists'[k].rows = shown
      /\ lists'[k].asked = q
      /\ t \in Nat /\ u \in 0..AgeCap /\ u <= t /\ (Tick => u < t)
  BY <1>1, <1>2, <1>3, ListTimersRunDown
<1>5. AgeCap \in Nat /\ u \in Nat /\ u <= AgeCap
  BY <1>4, TimeAssumption DEF AgeCap
<1>6. Versions(k.ver) /\ Lag(k.ver, t, AgeCap)
  BY <1>1, <1>4 DEF TypeOK, RedisOK, IsKey, VersionsLag
<1>7. /\ DOMAIN k.ver = k.query.scopes
      /\ \A w \in Lacks(q, shown) : BumpedSince(w, k.ver, t, AgeCap)
  BY <1>1, <1>3, <1>4 DEF FillsShowBumps, LacksOf
<1>8. \A w \in Lacks(q, shown)' : BumpedSince(w, k.ver, u, AgeCap)'
  BY <1>4, <1>5, <1>6, <1>7, LackingStaysBumpedSince
<1> QED BY <1>2, <1>4, <1>7, <1>8 DEF LacksOf, Lacks, BumpedSince, AgeCap

LEMMA HeldRowsShowBumps ==
  ASSUME FreshInv, [Next]_vars, NEW r \in Readers, pc'[r] \in Held, ~CoreLists(r)
  PROVE  /\ DOMAIN coreVer'[r] = query'[r].scopes
         /\ \A w \in Lacks(query[r], rows[r])' :
              BumpedSince(w, coreVer[r], left[r], ReqTimeout)'
<1> USE DEF FreshInv, StalenessInv
<1>1. PICK t : t = left[r]
  OBVIOUS
<1>2. PICK u : u = left'[r]
  OBVIOUS
<1>3. PICK q, shown, f : q = query[r] /\ shown = rows[r] /\ f = coreVer[r]
  OBVIOUS
<1>4. /\ pc[r] \in Held /\ query'[r] = q /\ rows'[r] = shown /\ coreVer'[r] = f
      /\ t \in Nat /\ u \in 0..ReqTimeout /\ u <= t /\ (Tick => u < t)
  <2>1. pc[r] \in Held /\ query'[r] = q /\ rows'[r] = shown /\ coreVer'[r] = f
    BY <1>3, HeldOnlyAfterCore
  <2>2. pc'[r] # "idle" /\ ~ \E p \in Queries : StartList(r, p)
    BY <2>1 DEF Held, StartList
  <2> QED BY <1>1, <1>2, <2>1, <2>2, ContextsRunDown
<1>5. ReqTimeout \in Nat /\ u \in Nat /\ u <= ReqTimeout
  BY <1>4, TimeAssumption
<1>6. Versions(f) /\ Lag(f, t, ReqTimeout)
  BY <1>1, <1>3, <1>4 DEF TypeOK, ReaderOK, VersionsLag
<1>7. /\ DOMAIN f = q.scopes
      /\ \A w \in Lacks(q, shown) : BumpedSince(w, f, t, ReqTimeout)
  BY <1>1, <1>3, <1>4 DEF FillsShowBumps
<1>8. \A w \in Lacks(q, shown)' : BumpedSince(w, f, u, ReqTimeout)'
  BY <1>4, <1>5, <1>6, <1>7, LackingStaysBumpedSince
<1> QED BY <1>2, <1>4, <1>7, <1>8 DEF Lacks, BumpedSince

LEMMA FillsShowBumpsStep ==
  ASSUME FreshInv, [Next]_vars
  PROVE  FillsShowBumps'
<1> USE DEF FreshInv, StalenessInv, TypeOK
<1>1. ASSUME NEW k \in DOMAIN lists', ~lists'[k].moved
      PROVE  /\ DOMAIN k.ver = k.query.scopes
             /\ \A w \in LacksOf(k)' :
                  BumpedSince(w, k.ver, lists[k].ttl, AgeCap)'
  <2>1. ASSUME NEW r \in Readers, Files(r, k)
        PROVE  /\ DOMAIN k.ver = k.query.scopes
               /\ \A w \in LacksOf(k)' :
                    BumpedSince(w, k.ver, lists[k].ttl, AgeCap)'
    <3>1. /\ k.query = Printed(query[r]) /\ k.ver = seen[r]
          /\ lists'[k] = Filed(r)
          /\ UNCHANGED <<committed, req, bumped, lapsed>> /\ pc[r] \in Held
      BY <2>1 DEF Files, SetList, StoreList, KeyOf, ListKey, Held, coreVars, writerVars
    <3>2. /\ k.ver = coreVer[r] /\ lists'[k].rows = rows[r] /\ lists'[k].ttl = ListTTL
          /\ lists'[k].asked = query[r]
      <4>1. seen[r] = coreVer[r]
        <5>1. lists'[k].moved = (seen[r] # coreVer[r])
          BY <3>1 DEF Filed
        <5> QED BY <1>1, <5>1
      <4>2. lists'[k].rows = rows[r] /\ lists'[k].ttl = ListTTL /\ lists'[k].asked = query[r]
        BY <3>1 DEF Filed
      <4> QED BY <3>1, <4>1, <4>2
    <3>3. DOMAIN k.ver = k.query.scopes
      BY <3>1, <3>2 DEF FillsShowBumps, Printed
    <3>4. ASSUME NEW w \in LacksOf(k)', NEW s \in DOMAIN k.ver
          PROVE  \/ bumped'[w][s] = 0 \/ k.ver[s] < bumped'[w][s]
                 \/ lapsed'[s] + lists'[k].ttl <= AgeCap
      <4>1. w \in Lacks(query[r], rows[r])
        BY <3>1, <3>2, <3>4 DEF LacksOf, Lacks
      <4>2. \/ bumped[w][s] = 0 \/ k.ver[s] < bumped[w][s]
            \/ lapsed[s] + left[r] <= ReqTimeout
        BY <3>1, <3>2, <3>4, <4>1 DEF FillsShowBumps, BumpedSince
      <4>3. left[r] \in Nat /\ left[r] > 0
        BY <2>1, TimeAssumption DEF Files, RedisUp, ControlOK, Procs
      <4>4. s \in Scopes /\ lapsed[s] \in Nat
        BY <3>1, <3>4, TimeAssumption DEF ReaderOK, Versions, RedisOK, AgeCap
      <4> QED BY <3>1, <3>2, <4>2, <4>3, <4>4, TimeAssumption DEF AgeCap
    <3> QED BY <3>3, <3>4 DEF BumpedSince, AgeCap
  <2> QED BY <1>1, <2>1, FiledListsShowBumps
<1>2. ASSUME NEW r \in Readers, pc'[r] \in Held
      PROVE  /\ DOMAIN coreVer'[r] = query'[r].scopes
             /\ \A w \in Lacks(query[r], rows[r])' :
                  BumpedSince(w, coreVer[r], left[r], ReqTimeout)'
  <2>1. CASE CoreLists(r)
    <3>1. CacheableList(query[r])
      BY <1>2, <2>1 DEF CoreLists, Respond, Goto, Held, ControlOK, Procs
    <3>2. /\ query' = query /\ UNCHANGED <<committed, req>>
          /\ rows'[r] = {v \in committed : Matches(query[r], req[v])}
          /\ coreVer'[r] = [s \in query[r].scopes |-> ver[s]]
      BY <2>1, <3>1 DEF CoreLists, ReaderOK, coreVars, writerVars
    <3>3. Lacks(query[r], rows[r])' = {}
      BY <3>2 DEF Lacks
    <3> QED BY <3>2, <3>3
  <2> QED BY <1>2, <2>1, HeldRowsShowBumps
<1> QED BY <1>1, <1>2 DEF FillsShowBumps, AgeCap

\* A list that can be looked up, and whose versions stood still while it was
\* filled, shows every create that has bumped one of its scopes, for any number
\* of requests: what such a fill lacks was bumped after its Core read, past the
\* version it is filed under, or before its version key last expired, and then
\* it is too old for a list to lack.
THEOREM UnmovedFillsShowBumps == Spec => []UnmovedFillIsFresh
<1>1. Init => FreshInv
  <2>1. Init => AnsweredIsStored
    BY DEF Init, AnsweredIsStored, Procs
  <2>2. Init => VersionsLag /\ BumpsFollowStores /\ FillsShowBumps
    BY DEF Init, VersionsLag, BumpsFollowStores, FillsShowBumps, Held, Procs
  <2> QED BY <2>1, <2>2, StalenessInvInit DEF FreshInv
<1>2. FreshInv /\ [Next]_vars => FreshInv'
  BY StalenessInvStep, AnsweredIsStoredStep, VersionsLagStep, BumpsFollowStoresStep,
     FillsShowBumpsStep DEF FreshInv, StalenessInv
<1>3. FreshInv => UnmovedFillIsFresh
  <2> SUFFICES ASSUME FreshInv, NEW k \in DOMAIN lists, Reachable(k), ~lists[k].moved,
                      NEW w \in LacksOf(k), NEW s \in k.query.scopes,
                      Settled(s), bumped[w][s] # 0
               PROVE  FALSE
    BY DEF UnmovedFillIsFresh
  <2> USE DEF FreshInv, StalenessInv, TypeOK
  <2>1. /\ DOMAIN k.ver = k.query.scopes
        /\ k.ver[s] < bumped[w][s] \/ lapsed[s] + lists[k].ttl <= AgeCap
    BY DEF FillsShowBumps, BumpedSince
  <2>2. k.ver[s] = ver[s]
    BY DEF Reachable, ListKey, Printed
  <2>3. s \in Scopes /\ w \in Writers
    BY <2>1 DEF RedisOK, CoreOK, IsKey, Versions, LacksOf, Lacks
  <2>4. bumped[w][s] <= ver[s] \/ lapsed[s] <= age[w]
    BY <2>3 DEF BumpsFollowStores
  <2>5. age[w] + lists[k].ttl <= AgeCap
    BY DEF ListsRunDown, AgeCap
  <2>6. /\ bumped[w][s] \in Nat /\ ver[s] \in Nat /\ age[w] \in Nat
        /\ lists[k].ttl \in 1..ListTTL
    BY <2>3, TimeAssumption DEF RedisOK, WriterOK, CoreOK, IsEntry, AgeCap
  <2> QED BY <2>1, <2>2, <2>4, <2>5, <2>6, TimeAssumption DEF Settled, AgeCap
<1> QED BY <1>1, <1>2, <1>3, PTL DEF Spec
-----------------------------------------------------------------------------
(* The creates of a batch *)

IsBatch(r) == r \in Requests /\ r.kind = "batch"

\* The one loan that the activity of a batch names under its other names.
LoanOfActivity(r) == ScopeIDsFromPayload(r.activity).loan

\* A batch bumps the version key of no loan but the one its activity names,
\* whichever the loans are that it creates activities for.
BatchesBumpOneLoan ==
  \A w \in Writers, l \in Loans :
    IsBatch(req[w]) /\ bumped[w][l] # 0 => l = LoanOfActivity(req[w])

\* What a batch has left to bump is that loan and clients, and a create that
\* Core has not stored has nothing yet.
BatchInv ==
  \A w \in Writers :
    /\ pc[w] \in BeforeStored =>
         todo[w] = <<>> /\ \A l \in Loans : bumped[w][l] = 0
    /\ IsBatch(req[w]) =>
         /\ todo[w] \in Seq(Clients \union {LoanOfActivity(req[w])})
         /\ \A l \in Loans : bumped[w][l] # 0 => l = LoanOfActivity(req[w])

\* Of the three lookups of CreateActivityBatch the first and the last find
\* nothing, and the one within the activity at most a loan and a client.
LEMMA BatchInvalidations ==
  ASSUME NEW r, IsBatch(r)
  PROVE  InvalidationsOf(r) \in Seq(Clients \union {LoanOfActivity(r)})
<1> DEFINE S == Clients \union {LoanOfActivity(r)}
           body == NormalizeActivityBatchPayload(r).payload
           ids == ScopeIDsFromPayload(r.activity)
<1>1. /\ body.list_type = "[]string" /\ body.loan_id = None /\ body.client_id = None
      /\ NormalizeActivityBatchPayload(r).activity = r.activity /\ r.activity \in Payloads
  BY NormalizedBatch DEF IsBatch
<1> DEFINE a == InvalidateScopes(ScopeIDsFromPayload(body))
           b == InvalidateScopes(ids)
           c == IF body.list_type = "[]any" /\ Tenant # None THEN body.loan_ids ELSE <<>>
<1>2. <<>> \in Seq(S) /\ (\A x \in S : <<x>> \in Seq(S))
      /\ \A x, y \in Seq(S) : x \o y \in Seq(S)
  <2> HIDE DEF S
  <2> QED OBVIOUS
<1>3. a \in Seq(S)
  <2>1. a \in {<<>>, <<>> \o <<>>}
    BY <1>1 DEF ScopeIDsFromPayload, InvalidateScopes
  <2> HIDE DEF a, S
  <2> QED BY <1>2, <2>1
<1>4. b \in Seq(S)
  <2> DEFINE d == IF ids.loan = None THEN <<>> ELSE <<ids.loan>>
             e == IF ids.client = None THEN <<>> ELSE <<ids.client>>
  <2>1. ids.loan \in S /\ (ids.client # None => ids.client \in S)
    BY <1>1 DEF LoanOfActivity, ScopeIDsFromPayload, Payloads
  <2>2. b \in {<<>>, d \o e}
    BY DEF InvalidateScopes
  <2>3. d \in Seq(S) /\ e \in Seq(S)
    <3> HIDE DEF ids, S
    <3> QED BY <1>2, <2>1
  <2> HIDE DEF b, d, e, S
  <2> QED BY <1>2, <2>2, <2>3
<1>5. c = <<>>
  BY <1>1
<1>6. InvalidationsOf(r) = (a \o b) \o c
  BY <1>1 DEF InvalidationsOf, IsBatch
<1> HIDE DEF a, b, c, S
<1>7. a \o b \in Seq(S)
  BY <1>2, <1>3, <1>4
<1>8. InvalidationsOf(r) \in Seq(S)
  BY <1>2, <1>5, <1>6, <1>7
<1> QED BY <1>8 DEF S

LEMMA BatchInvStep ==
  ASSUME TypeOK, BatchInv, [Next]_vars
  PROVE  BatchInv'
<1> USE DEF TypeOK
<1>1. ASSUME NEW w \in Writers, NEW r \in Requests, StartCreate(w, r)
      PROVE  BatchInv'
  <2>1. /\ pc[w] = "idle" /\ todo[w] = <<>> /\ \A l \in Loans : bumped[w][l] = 0
        /\ UNCHANGED <<todo, bumped>>
    BY <1>1 DEF StartCreate, BatchInv, BeforeStored
  <2>2. \A v \in Writers \ {w} : pc'[v] = pc[v] /\ req'[v] = req[v]
    BY <1>1 DEF StartCreate, Goto, ControlOK, WriterOK, Procs
  <2>3. \A x : <<>> \in Seq(Clients \union {x})
    OBVIOUS
  <2> QED BY <2>1, <2>2, <2>3 DEF BatchInv
<1>2. ASSUME NEW w \in Writers, CoreCommits(w)
      PROVE  BatchInv'
  <2>1. /\ todo' = [todo EXCEPT ![w] = InvalidationsOf(req[w])]
        /\ UNCHANGED <<req, bumped>> /\ pc[w] = "core"
    BY <1>2 DEF CoreCommits
  <2>2. \A v \in Writers \ {w} : pc'[v] = pc[v]
    BY <1>2 DEF CoreCommits, Proceed, Goto, ControlOK, Procs
  <2>3. pc'[w] \notin BeforeStored
    BY <1>2 DEF CoreCommits, Proceed, Goto, ControlOK, Procs, BeforeStored, Preparing
  <2> QED BY <2>1, <2>2, <2>3, BatchInvalidations DEF BatchInv, WriterOK, BeforeStored
<1>3. ASSUME NEW w \in Writers, Incr(w)
      PROVE  BatchInv'
  <2> DEFINE s == Head(todo[w])
  <2>1. /\ pc[w] = "incr" /\ UNCHANGED <<req, todo>> /\ todo[w] # <<>>
        /\ \/ bumped' = [bumped EXCEPT ![w][s] = ver[s] + 1]
           \/ UNCHANGED bumped
    BY <1>3 DEF Incr, WriterOK
  <2>2. \A v \in Writers \ {w} : pc'[v] = pc[v] /\ bumped'[v] = bumped[v]
    BY <1>3, <2>1 DEF Incr, Proceed, Goto, ControlOK, WriterOK, Procs
  <2>3. pc'[w] = "expire"
    BY <1>3 DEF Incr, Proceed, Goto, ControlOK, Procs
  <2>4. IsBatch(req[w]) =>
          /\ s \in Clients \union {LoanOfActivity(req[w])}
          /\ \A l \in Loans : bumped[w][l] # 0 => l = LoanOfActivity(req[w])
    <3>1. IsBatch(req[w]) => /\ todo[w] \in Seq(Clients \union {LoanOfActivity(req[w])})
                             /\ \A l \in Loans : bumped[w][l] # 0 => l = LoanOfActivity(req[w])
      BY DEF BatchInv
    <3>2. \A S : todo[w] \in Seq(S) => s \in S
      BY <2>1
    <3> QED BY <3>1, <3>2
  <2> HIDE DEF s
  <2>5. ASSUME IsBatch(req[w]), NEW l \in Loans, bumped'[w][l] # 0
        PROVE  l = LoanOfActivity(req[w])
    <3>1. l = s \/ bumped[w][l] # 0
      BY <2>1, <2>5 DEF WriterOK, Scopes
    <3> QED BY <2>4, <2>5, <3>1, ConstantsAssumption DEF Scopes
  <2>6. ASSUME NEW v \in Writers, v # w
        PROVE  pc'[v] = pc[v] /\ todo'[v] = todo[v] /\ req'[v] = req[v] /\ bumped'[v] = bumped[v]
    BY <2>1, <2>2, <2>6
  <2>7. pc'[w] \notin BeforeStored /\ todo'[w] = todo[w] /\ req'[w] = req[w]
    BY <2>1, <2>3 DEF BeforeStored, Preparing
  <2> QED BY <2>5, <2>6, <2>7 DEF BatchInv
<1>4. ASSUME NEW w \in Writers, Expire(w)
      PROVE  BatchInv'
  <2>1. /\ UNCHANGED <<req, bumped>> /\ todo[w] # <<>>
        /\ todo' = [todo EXCEPT ![w] = Tail(todo[w])]
    BY <1>4 DEF Expire, WriterOK
  <2>2. \A v \in Writers \ {w} : pc'[v] = pc[v]
    BY <1>4 DEF Expire, Proceed, Goto, ControlOK, Procs
  <2>3. pc'[w] \notin BeforeStored
    BY <1>4 DEF Expire, Proceed, Goto, ControlOK, Procs, BeforeStored, Preparing
  <2>4. \A S : todo[w] \in Seq(S) => Tail(todo[w]) \in Seq(S)
    BY <2>1
  <2> QED BY <2>1, <2>2, <2>3, <2>4 DEF BatchInv, WriterOK
<1>5. ASSUME NEW w \in Writers, Prepare(w) \/ CoreCommitsUnheard(w) \/ CoreRejects(w)
      PROVE  BatchInv'
  <2>1. UNCHANGED <<req, todo, bumped>> /\ pc[w] \in BeforeStored
    BY <1>5, PrepareProceeds DEF CoreCommitsUnheard, CoreRejects, writerVars, BeforeStored
  <2>2. \A v \in Writers \ {w} : pc'[v] = pc[v]
    BY <1>5, PrepareProceeds
    DEF CoreCommitsUnheard, CoreRejects, Proceed, Goto, ControlOK, Procs
  <2> QED BY <2>1, <2>2 DEF BatchInv
<1>6. CASE \E r \in Readers : ReaderStep(r) \/ \E q \in Queries : StartList(r, q)
  <2>1. UNCHANGED <<req, todo, bumped>>
    BY <1>6 DEF ReaderStep, StartList, ReadVersions, GetListHit, GetListMiss, CoreLists,
                CoreListFails, SetList, writerVars
  <2>2. \A w \in Writers : pc'[w] = pc[w]
    BY <1>6, ReaderKeepsWriters
  <2> QED BY <2>1, <2>2 DEF BatchInv
<1>7. CASE Tick \/ (\E p \in Procs : Disconnect(p)) \/ UNCHANGED vars
  BY <1>7 DEF Tick, Disconnect, vars, writerVars, BatchInv
<1> QED BY <1>1, <1>2, <1>3, <1>4, <1>5, <1>6, <1>7 DEF Next, WriterStep

\* However many loans a batch has, CreateActivityBatch bumps the version key of
\* none for being in it: its loop over loan_ids never runs, and every cached list
\* of the loans stays until its TTL.  The one loan it may bump is that which its activity
\* names, as loanId or first in a loan_ids of its own, and which
\* normalizeActivityBatchPayload leaves there.
THEOREM BatchesBumpOnlyTheActivitys == Spec => []BatchesBumpOneLoan
<1>1. Init => BatchInv
  BY DEF Init, BatchInv, Scopes, IsBatch
<1>2. TypeOK /\ BatchInv /\ [Next]_vars => BatchInv'
  BY BatchInvStep
<1>3. BatchInv => BatchesBumpOneLoan
  BY DEF BatchInv, BatchesBumpOneLoan
<1> QED BY <1>1, <1>2, <1>3, TypeCorrect, PTL DEF Spec
=============================================================================
