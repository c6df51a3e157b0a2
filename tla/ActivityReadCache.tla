------------------------- MODULE ActivityReadCache -------------------------
(***************************************************************************)
(* The Redis cache-aside in front of Core's activity lists                 *)
(* (src/internal/infrastructure/activities/read_cache.go), with the list   *)
(* and create requests that use it (usecases/activities.go and the         *)
(* handlers above it).                                                     *)
(*                                                                         *)
(* One process per request.  A list request reads the version key of each  *)
(* scope it filters on, GETs the list key built from them, and on a miss   *)
(* asks Core, reads the version keys AGAIN and SETs the list.  A create    *)
(* request is committed by Core and then INCRs and EXPIREs the version key *)
(* of each scope found in its payload.  Before that the loan route has the *)
(* comment encrypted by crypto-bff (usecases/activity_pii.go), and an      *)
(* escalation, an activity for Core too, looks there for a management of   *)
(* the loan (usecases/escalation_gestion.go); it invalidates nothing.      *)
(* Every Redis command is an action; each may fail, and its error is       *)
(* dropped by the code.                                                    *)
(*                                                                         *)
(* A list payload is abstracted to the set of create requests whose rows   *)
(* it shows.  A query's filter is all that Core is asked besides the scope *)
(* ids and the page: the user, the agent, the type, and the blanks around  *)
(* any value.  The list key prints it trimmed and joined, so that several  *)
(* filters may have one key; ids are taken to hold no ':', so that scopes  *)
(* stay apart in it.  Time is a tick: timers count down, ages up.          *)
(***************************************************************************)
EXTENDS Naturals, Sequences, FiniteSets

CONSTANTS
  Readers,            \* list requests in flight at once; one may be reused
  Writers,            \* create requests; each is sent once
  Loans, Clients,     \* loan and client identifiers of one tenant
  ClientOf,           \* the client each loan belongs to, in Core (external)
  None,               \* an absent string field, or no answer yet
  Tenant,             \* X-Tenant-Id, trimmed; None when it is blank
  Filters,            \* what Core is asked besides scopes and page
  KeyText,            \* what the list key prints of each filter
  Passes(_, _),       \* Passes(f, r): Core shows create r under f (external)
  Queries,            \* the list queries in use: [scopes, offset, filter]
  Requests,           \* the create requests in use
  ListTTL,            \* ticks a cached list lives (25 s)
  ReqTimeout,         \* ticks before the request context is cancelled (30 s)
  VerTTL,             \* ticks a version key lives after EXPIRE (24 h)
  RedisMayFail        \* TRUE: a Redis command may fail with the context alive

Scopes == Loans \union Clients
Procs  == Readers \union Writers

\* A create payload: its scope fields, each under either of its names (loan_id
\* or loanId, client_id or clientId), and the Go type that its loan_ids has.
Payloads == [loan_id : Loans \union {None}, client_id : Clients \union {None},
             loan_ids : Seq(Loans), list_type : {"[]any", "[]string"}]

\* A create request; a batch has an activity within its payload.  type and
\* agent are those of the activity that Core makes of it.
CreateRequests ==
  [kind : {"single", "batch", "escalation"}, payload : Payloads, activity : Payloads,
   type : {"call", "escalation", "escalation_decision", "payment"},
   agent : {"gestor", "sistema"}]

ASSUME ConstantsAssumption ==
  /\ None \notin Scopes
  /\ Loans \intersect Clients = {}
  /\ Readers \intersect Writers = {}
  /\ ClientOf \in [Loans -> Clients]
  /\ DOMAIN KeyText = Filters
  /\ Queries \subseteq [scopes : SUBSET Scopes, offset : Nat, filter : Filters]
  /\ Requests \subseteq CreateRequests
  /\ RedisMayFail \in BOOLEAN

ASSUME TimeAssumption ==
  /\ ListTTL \in Nat \ {0}
  /\ ReqTimeout \in Nat \ {0}
  /\ VerTTL \in Nat
  /\ VerTTL > ListTTL + ReqTimeout

VARIABLES
  committed,  \* Core: the create requests it has stored (external)
  age,        \* Core: ticks since each was stored, capped at AgeCap (history)
  ver,        \* Redis: version key of each scope, 0 when absent
  verTTL,     \* Redis: ticks left of the version key, Forever without EXPIRE
  lapsed,     \* Redis: ticks since a version key last expired, capped (history)
  lists,      \* Redis: the live list keys, as a function on a set of keys
  pc, left,   \* per request: where it is, ticks left of its context
  query, seen, rows, coreVer,  \* per list request; coreVer is history
  answer,     \* per list request: what it last returned
  req, todo,  \* per create request: what it asked, the version keys to bump
  bumped      \* per create request and scope: the INCR's result (history)

coreVars   == <<committed, age>>
redisVars  == <<ver, verTTL, lapsed, lists>>
readerVars == <<query, seen, rows, coreVer, answer>>
writerVars == <<req, todo, bumped>>
vars == <<committed, age, ver, verTTL, lapsed, lists, pc, left, query, seen, rows,
          coreVer, answer, req, todo, bumped>>

AgeCap  == ListTTL + ReqTimeout
Forever == VerTTL + 1

-----------------------------------------------------------------------------
(* Pure helpers of the code and of Core *)

\* CacheableList: first page, and scoped to a loan or a client.
CacheableList(q) == q.offset = 0 /\ q.scopes # {}

\* What listKey prints of a query: ids and filter values trimmed, and joined
\* with ':' and '|' as they are.
Printed(q) == [scopes |-> q.scopes, offset |-> q.offset, text |-> KeyText[q.filter]]

\* Fault variant: the key leaves the client's version out.
ListKeyByLoanVersion(q, versions) ==
  [query |-> Printed(q), ver |-> [s \in DOMAIN versions \intersect Loans |-> versions[s]]]

\* listKey: what it prints of the query, and the version of each of its scopes.
ListKey(q, versions) == [query |-> Printed(q), ver |-> versions]

\* ScopeIDsFromPayload: the (at most one) loan and client of a payload.  A list
\* of ids is looked at only when it still is the []any of decoded JSON.
ScopeIDsFromPayload(p) ==
  [loan |-> IF p.loan_id = None /\ p.list_type = "[]any" /\ p.loan_ids # <<>>
            THEN p.loan_ids[1] ELSE p.loan_id,
   client |-> p.client_id]

\* InvalidateScopes: the version keys it bumps, the loan's first; none for a
\* blank tenant.
InvalidateScopes(ids) ==
  IF Tenant = None THEN <<>> ELSE
  (IF ids.loan = None THEN <<>> ELSE <<ids.loan>>)
    \o (IF ids.client = None THEN <<>> ELSE <<ids.client>>)

\* normalizeActivityBatchPayload: the payload is built anew of the loan_ids, a
\* []string now, and the activity.  An activity with a loan_id is rejected, but
\* its loanId, client_id and loan_ids, a []any still, stay.
NormalizeActivityBatchPayload(r) ==
  [r EXCEPT !.payload = [loan_id |-> None, client_id |-> None,
                         loan_ids |-> r.payload.loan_ids, list_type |-> "[]string"]]

\* CreateActivity and CreateActivityBatch: every bump after a 2xx from Core;
\* CreateEscalation leaves the cache alone.
\* The batch looks at its payload, at payload["activity"] and then at each id of
\* loan_ids, if that still is a []any.
InvalidationsOf(r) ==
  IF r.kind = "escalation" THEN <<>>
  ELSE IF r.kind = "single" THEN InvalidateScopes(ScopeIDsFromPayload(r.payload))
  ELSE LET b == NormalizeActivityBatchPayload(r)
       IN  InvalidateScopes(ScopeIDsFromPayload(b.payload))
             \o InvalidateScopes(ScopeIDsFromPayload(b.activity))
             \o (IF b.payload.list_type = "[]any" /\ Tenant # None
                 THEN b.payload.loan_ids ELSE <<>>)

\* Core (external): one row per loan, filed under the loan and its client; a
\* create without a loan is filed under the client alone.
RowScopes(r) ==
  LET ids == r.payload.loan_ids
      loans == {ids[i] : i \in DOMAIN ids} \union ({r.payload.loan_id} \ {None})
  IN  IF loans = {} THEN {{r.payload.client_id} \ {None}}
      ELSE {{l, ClientOf[l]} : l \in loans}

\* Core (external): the row filters are a conjunction.
Matches(q, r) == Passes(q.filter, r) /\ \E row \in RowScopes(r) : q.scopes \subseteq row

\* isManagementActivity: neither a type that is no management, nor the system's.
IsManagementActivity(r) ==
  /\ r.type \notin {"escalation", "escalation_decision", "payment"}
  /\ r.agent # "sistema"

\* Where a create begins: CreateLoanActivity encrypts a comment, if there is
\* one; CreateEscalation looks for a management unless the client names it.
FirstSteps(r) ==
  {"core"} \union (IF r.kind = "single" /\ r.payload.loan_id # None THEN {"encrypt"} ELSE {})
           \union (IF r.kind = "escalation" THEN {"prerequisite"} ELSE {})
-----------------------------------------------------------------------------
(* State space *)

\* The versions read for some scopes.
Versions(f) == f \in [DOMAIN f -> Nat] /\ DOMAIN f \subseteq Scopes

IsKey(k) == \E q \in Queries : k = ListKey(q, k.ver) /\ Versions(k.ver)
IsEntry(e) ==
  e \in [rows : SUBSET Writers, ttl : 1..ListTTL, moved : BOOLEAN, asked : Queries]
Answers == [query : Queries, rows : SUBSET Writers]

ReaderSteps == {"idle", "getVersions", "getList", "core", "setVersions", "setList"}
Preparing   == {"encrypt", "prerequisite"}
Ended       == {"done", "failed", "refused"}
WriterSteps == {"idle", "core", "incr", "expire"} \union Preparing \union Ended
Active(p) == pc[p] \notin {"idle"} \union Ended

CoreOK ==
  /\ committed \subseteq Writers
  /\ age \in [Writers -> 0..AgeCap]

RedisOK ==
  /\ ver \in [Scopes -> Nat]
  /\ verTTL \in [Scopes -> 0..Forever]
  /\ lapsed \in [Scopes -> 0..AgeCap]
  /\ lists = [k \in DOMAIN lists |-> lists[k]]
  /\ \A k \in DOMAIN lists : IsKey(k) /\ IsEntry(lists[k])
  /\ \A k \in DOMAIN lists : k.query = Printed(lists[k].asked)

ControlOK ==
  /\ pc \in [Procs -> ReaderSteps \union WriterSteps]
  /\ left \in [Procs -> 0..ReqTimeout]
  /\ \A r \in Readers : pc[r] \in ReaderSteps
  /\ \A w \in Writers : pc[w] \in WriterSteps

ReaderOK ==
  /\ query \in [Readers -> Queries \union {None}]
  /\ \A r \in Readers : pc[r] # "idle" => query[r] \in Queries
  /\ seen = [r \in Readers |-> seen[r]]
  /\ coreVer = [r \in Readers |-> coreVer[r]]
  /\ \A r \in Readers : Versions(seen[r]) /\ Versions(coreVer[r])
  /\ rows \in [Readers -> SUBSET Writers]
  /\ answer \in [Readers -> Answers \union {None}]

WriterOK ==
  /\ req \in [Writers -> Requests \union {None}]
  /\ \A w \in Writers : pc[w] # "idle" => req[w] \in Requests
  /\ todo \in [Writers -> Seq(Scopes)]
  /\ \A w \in Writers : pc[w] \in {"incr", "expire"} => todo[w] # <<>>
  /\ bumped \in [Writers -> [Scopes -> Nat]]

TypeOK == CoreOK /\ RedisOK /\ ControlOK /\ ReaderOK /\ WriterOK

NoVersions == [s \in {} |-> 0]

Init ==
  /\ committed = {}
  /\ age = [w \in Writers |-> 0]
  /\ ver = [s \in Scopes |-> 0]
  /\ verTTL = [s \in Scopes |-> 0]
  /\ lapsed = [s \in Scopes |-> AgeCap]
  /\ lists = [k \in {} |-> None]
  /\ pc = [p \in Procs |-> "idle"]
  /\ left = [p \in Procs |-> 0]
  /\ query = [r \in Readers |-> None]
  /\ seen = [r \in Readers |-> NoVersions]
  /\ coreVer = [r \in Readers |-> NoVersions]
  /\ rows = [r \in Readers |-> {}]
  /\ answer = [r \in Readers |-> None]
  /\ req = [w \in Writers |-> None]
  /\ todo = [w \in Writers |-> <<>>]
  /\ bumped = [w \in Writers |-> [s \in Scopes |-> 0]]

\* A Redis command of p may succeed only while the context of p is alive, and
\* may fail when it is not or when Redis does.
RedisUp(p)   == left[p] > 0
RedisDown(p) == left[p] = 0 \/ RedisMayFail

Goto(p, step) == pc' = [pc EXCEPT ![p] = step]
-----------------------------------------------------------------------------
(* List requests: ListActivities, GetList, SetList *)

StartList(r, q) ==
  /\ pc[r] = "idle"
  /\ Goto(r, IF CacheableList(q) THEN "getVersions" ELSE "core")
  /\ left' = [left EXCEPT ![r] = ReqTimeout]
  /\ query' = [query EXCEPT ![r] = q]
  /\ seen' = [seen EXCEPT ![r] = NoVersions]
  /\ answer' = [answer EXCEPT ![r] = None]
  /\ UNCHANGED <<coreVars, redisVars, rows, coreVer, writerVars>>

\* scopeVersion: "0" on any error and on an absent key.
ReadVersion(r, s, v) ==
  /\ \/ v = ver[s] /\ RedisUp(r)
     \/ v = 0 /\ RedisDown(r)
  /\ seen' = [seen EXCEPT ![r] =
                [t \in DOMAIN seen[r] \union {s} |-> IF t = s THEN v ELSE seen[r][t]]]

\* versions: the loan's version key first, then the client's.
ReadVersions(r) ==
  /\ pc[r] \in {"getVersions", "setVersions"}
  /\ LET unread == query[r].scopes \ DOMAIN seen[r]
     IN  \E s \in unread :
           /\ s \in Clients => unread \intersect Loans = {}
           /\ \E v \in {ver[s], 0} : ReadVersion(r, s, v)
           /\ IF unread = {s}
              THEN Goto(r, IF pc[r] = "getVersions" THEN "getList" ELSE "setList")
              ELSE UNCHANGED pc
  /\ UNCHANGED <<coreVars, redisVars, left, query, rows, coreVer, answer, writerVars>>

KeyOf(r) == ListKey(query[r], seen[r])

\* The request returns, and what it held is gone.
Respond(r, result) ==
  /\ Goto(r, "idle")
  /\ left' = [left EXCEPT ![r] = 0]
  /\ answer' = [answer EXCEPT ![r] = result]
  /\ query' = [query EXCEPT ![r] = None]
  /\ seen' = [seen EXCEPT ![r] = NoVersions]
  /\ coreVer' = [coreVer EXCEPT ![r] = NoVersions]
  /\ rows' = [rows EXCEPT ![r] = {}]

\* Fault variant: a hit renews the list's TTL.
GetListHitRenewing(r) ==
  /\ pc[r] = "getList"
  /\ RedisUp(r)
  /\ KeyOf(r) \in DOMAIN lists
  /\ Respond(r, [query |-> query[r], rows |-> lists[KeyOf(r)].rows])
  /\ lists' = [lists EXCEPT ![KeyOf(r)].ttl = ListTTL]
  /\ UNCHANGED <<coreVars, ver, verTTL, lapsed, writerVars>>

GetListHit(r) ==
  /\ pc[r] = "getList"
  /\ RedisUp(r)
  /\ KeyOf(r) \in DOMAIN lists
  /\ Respond(r, [query |-> query[r], rows |-> lists[KeyOf(r)].rows])
  /\ UNCHANGED <<coreVars, redisVars, writerVars>>

GetListMiss(r) ==
  /\ pc[r] = "getList"
  /\ \/ RedisUp(r) /\ KeyOf(r) \notin DOMAIN lists
     \/ RedisDown(r)
  /\ Goto(r, "core")
  /\ UNCHANGED <<coreVars, redisVars, left, readerVars, writerVars>>

\* core.ListActivities answers; SetList returns at once when not cacheable.
CoreLists(r) ==
  /\ pc[r] = "core"
  /\ left[r] > 0
  /\ LET found == {w \in committed : Matches(query[r], req[w])}
     IN  IF CacheableList(query[r])
         THEN /\ Goto(r, "setVersions")
              /\ rows' = [rows EXCEPT ![r] = found]
              /\ seen' = [seen EXCEPT ![r] = NoVersions]
              /\ coreVer' = [coreVer EXCEPT ![r] = [s \in query[r].scopes |-> ver[s]]]
              /\ UNCHANGED <<left, query, answer>>
         ELSE Respond(r, [query |-> query[r], rows |-> found])
  /\ UNCHANGED <<coreVars, redisVars, writerVars>>

\* core.ListActivities fails or is cancelled: nothing is cached.
CoreListFails(r) ==
  /\ pc[r] = "core"
  /\ Respond(r, None)
  /\ UNCHANGED <<coreVars, redisVars, writerVars>>

\* The list that is filed.  asked and moved are history: the query that Core
\* answered, and whether the versions the list is filed under are others than
\* those that stood when it did.
Filed(r) == [rows |-> rows[r], ttl |-> ListTTL, moved |-> seen[r] # coreVer[r],
             asked |-> query[r]]

\* Fault variant: SETNX and EXPIRE, so that an older list stays, with a new TTL.
StoreListIfAbsent(r) ==
  lists' = [k \in DOMAIN lists \union {KeyOf(r)} |->
              IF k \notin DOMAIN lists
              THEN Filed(r)
              ELSE [lists[k] EXCEPT !.ttl = IF k = KeyOf(r) THEN ListTTL ELSE @]]

\* The SET, whichever list the key had.
StoreList(r) ==
  lists' = [k \in DOMAIN lists \union {KeyOf(r)} |->
              IF k = KeyOf(r)
              THEN Filed(r)
              ELSE lists[k]]

\* The SET of SetList, its error dropped, and the answer to the client.
SetList(r) ==
  /\ pc[r] = "setList"
  /\ \/ RedisUp(r) /\ StoreList(r)
     \/ RedisDown(r) /\ UNCHANGED lists
  /\ Respond(r, [query |-> query[r], rows |-> rows[r]])
  /\ UNCHANGED <<coreVars, ver, verTTL, lapsed, writerVars>>
-----------------------------------------------------------------------------
(* Create requests: CreateActivity, CreateActivityBatch, CreateEscalation *)

StartCreate(w, r) ==
  /\ pc[w] = "idle"
  /\ \E step \in FirstSteps(r) : Goto(w, step)
  /\ left' = [left EXCEPT ![w] = ReqTimeout]
  /\ req' = [req EXCEPT ![w] = r]
  /\ UNCHANGED <<coreVars, redisVars, readerVars, todo, bumped>>

\* The request goes on, or ends and drops its context.
Proceed(w, step) ==
  /\ Goto(w, step)
  /\ left' = IF step \in Ended THEN [left EXCEPT ![w] = 0] ELSE left

\* EncryptActivityPII: crypto-bff seals the comment.
EncryptActivityPII(w) ==
  /\ pc[w] = "encrypt"
  /\ left[w] > 0
  /\ Proceed(w, "core")
  /\ UNCHANGED <<coreVars, redisVars, readerVars, writerVars>>

\* The activities of a loan in Core, and what it may show of them to a user
\* (external): visibility per user, and a page of others, may hide any.
OfLoan(l) == {v \in committed : \E row \in RowScopes(req[v]) : l \in row}
Pages(l) == SUBSET OfLoan(l)

\* requireLastManagement finds one in Core's list; the cache is not asked.
RequireLastManagement(w) ==
  /\ pc[w] = "prerequisite"
  /\ left[w] > 0
  /\ \E page \in Pages(req[w].payload.loan_id), v \in Writers :
       v \in page /\ IsManagementActivity(req[v])
  /\ Proceed(w, "core")
  /\ UNCHANGED <<coreVars, redisVars, readerVars, writerVars>>

\* It finds none.
RefuseEscalation(w) ==
  /\ pc[w] = "prerequisite"
  /\ left[w] > 0
  /\ req[w].payload.loan_id # None
  /\ \E page \in Pages(req[w].payload.loan_id) :
       \A v \in page : ~ IsManagementActivity(req[v])
  /\ Proceed(w, "refused")
  /\ UNCHANGED <<coreVars, redisVars, readerVars, writerVars>>

\* crypto-bff or Core does not answer, or no loan is named: nothing is created.
PrepareFails(w) ==
  /\ pc[w] \in Preparing
  /\ Proceed(w, "failed")
  /\ UNCHANGED <<coreVars, redisVars, readerVars, writerVars>>

Prepare(w) == \/ EncryptActivityPII(w) \/ RequireLastManagement(w)
              \/ RefuseEscalation(w) \/ PrepareFails(w)

CoreStores(w) ==
  /\ committed' = committed \union {w}
  /\ UNCHANGED age

\* Core answers 2xx: the payload's scopes are bumped, or there are none.
CoreCommits(w) ==
  /\ pc[w] = "core"
  /\ left[w] > 0
  /\ CoreStores(w)
  /\ todo' = [todo EXCEPT ![w] = InvalidationsOf(req[w])]
  /\ Proceed(w, IF InvalidationsOf(req[w]) = <<>> THEN "done" ELSE "incr")
  /\ UNCHANGED <<redisVars, readerVars, req, bumped>>

\* Core stores the activity, but its reply is lost, an error, or too late.
CoreCommitsUnheard(w) ==
  /\ pc[w] = "core"
  /\ CoreStores(w)
  /\ Proceed(w, "failed")
  /\ UNCHANGED <<redisVars, readerVars, writerVars>>

CoreRejects(w) ==
  /\ pc[w] = "core"
  /\ Proceed(w, "failed")
  /\ UNCHANGED <<coreVars, redisVars, readerVars, writerVars>>

\* Fault variant: SET 1 in place of INCR.
IncrRestarting(w) ==
  /\ pc[w] = "incr"
  /\ LET s == Head(todo[w])
     IN  \/ /\ RedisUp(w)
            /\ ver' = [ver EXCEPT ![s] = 1]
            /\ verTTL' = [verTTL EXCEPT ![s] = Forever]
            /\ bumped' = [bumped EXCEPT ![w][s] = 1]
         \/ RedisDown(w) /\ UNCHANGED <<ver, verTTL, bumped>>
  /\ Proceed(w, "expire")
  /\ UNCHANGED <<coreVars, lapsed, lists, readerVars, req, todo>>

\* INCR creates an absent key without a TTL and keeps the TTL of a present one.
Incr(w) ==
  /\ pc[w] = "incr"
  /\ LET s == Head(todo[w])
     IN  \/ /\ RedisUp(w)
            /\ ver' = [ver EXCEPT ![s] = @ + 1]
            /\ verTTL' = [verTTL EXCEPT ![s] = IF ver[s] = 0 THEN Forever ELSE @]
            /\ bumped' = [bumped EXCEPT ![w][s] = ver[s] + 1]
         \/ RedisDown(w) /\ UNCHANGED <<ver, verTTL, bumped>>
  /\ Proceed(w, "expire")
  /\ UNCHANGED <<coreVars, lapsed, lists, readerVars, req, todo>>

\* Fault variant: the loop over the keys runs once too often.
ExpireAndGoOn(w) ==
  /\ pc[w] = "expire"
  /\ verTTL' = [verTTL EXCEPT ![Head(todo[w])] = VerTTL]
  /\ todo' = [todo EXCEPT ![w] = Tail(@)]
  /\ Proceed(w, "incr")
  /\ UNCHANGED <<coreVars, ver, lapsed, lists, readerVars, req, bumped>>

\* EXPIRE follows whether or not INCR failed; on an absent key it does nothing.
Expire(w) ==
  /\ pc[w] = "expire"
  /\ LET s == Head(todo[w])
     IN  \/ /\ RedisUp(w)
            /\ verTTL' = [verTTL EXCEPT ![s] = IF ver[s] = 0 THEN @ ELSE VerTTL]
         \/ RedisDown(w) /\ UNCHANGED verTTL
  /\ todo' = [todo EXCEPT ![w] = Tail(@)]
  /\ Proceed(w, IF Len(todo[w]) = 1 THEN "done" ELSE "incr")
  /\ UNCHANGED <<coreVars, ver, lapsed, lists, readerVars, req, bumped>>
-----------------------------------------------------------------------------
(* The environment *)

\* The client goes away: the server cancels the request's context.
Disconnect(p) ==
  /\ Active(p) /\ left[p] > 0
  /\ left' = [left EXCEPT ![p] = 0]
  /\ UNCHANGED <<coreVars, redisVars, pc, readerVars, writerVars>>

\* One tick.  A request whose context is cancelled unwinds within the tick: its
\* calls fail at once.  Redis drops the keys whose TTL has run out.
VersionKeyDies(s) == verTTL[s] = 1

Tick ==
  /\ \A p \in Procs : Active(p) => left[p] > 0
  /\ left' = [p \in Procs |-> IF Active(p) THEN left[p] - 1 ELSE left[p]]
  /\ age' = [w \in Writers |-> IF w \in committed /\ age[w] < AgeCap
                               THEN age[w] + 1 ELSE age[w]]
  /\ lists' = [k \in {l \in DOMAIN lists : lists[l].ttl > 1} |->
                 [lists[k] EXCEPT !.ttl = @ - 1]]
  /\ ver' = [s \in Scopes |-> IF VersionKeyDies(s) THEN 0 ELSE ver[s]]
  /\ verTTL' = [s \in Scopes |->
                  IF verTTL[s] \in 1..VerTTL THEN verTTL[s] - 1 ELSE verTTL[s]]
  /\ lapsed' = [s \in Scopes |-> IF VersionKeyDies(s) THEN 0
                                 ELSE IF lapsed[s] < AgeCap THEN lapsed[s] + 1
                                 ELSE lapsed[s]]
  /\ UNCHANGED <<committed, pc, readerVars, writerVars>>

ReaderStep(r) == \/ ReadVersions(r) \/ GetListHit(r) \/ GetListMiss(r)
                 \/ CoreLists(r) \/ CoreListFails(r) \/ SetList(r)

WriterStep(w) == \/ Prepare(w)
                 \/ CoreCommits(w) \/ CoreCommitsUnheard(w) \/ CoreRejects(w)
                 \/ Incr(w) \/ Expire(w)

Next ==
  \/ \E r \in Readers, q \in Queries : StartList(r, q)
  \/ \E r \in Readers : ReaderStep(r)
  \/ \E w \in Writers, r \in Requests : StartCreate(w, r)
  \/ \E w \in Writers : WriterStep(w)
  \/ \E p \in Procs : Disconnect(p)
  \/ Tick

Spec == Init /\ [][Next]_vars

\* Time passes (strongly: a request may stop the clock over and over, but only
\* until it unwinds), and the goroutine of a request in flight is not starved.
Fairness == /\ SF_vars(Tick)
            /\ \A r \in Readers : WF_vars(ReaderStep(r))
            /\ \A w \in Writers : WF_vars(WriterStep(w))

FairSpec == Spec /\ Fairness
-----------------------------------------------------------------------------
(* Properties *)

\* The stored activities a list lacks although its query asks for them.
Lacks(q, shown) == {w \in committed \ shown : Matches(q, req[w])}

\* The list key is one that a lookup whose version reads succeed builds now.
Reachable(k) == \E q \in Queries : k = ListKey(q, [s \in q.scopes |-> ver[s]])

\* What a cached list lacks of what Core was asked for.
LacksOf(k) == Lacks(lists[k].asked, lists[k].rows)

\* Staleness runs down with the timers: what a cached list lacks is no older
\* than the time since its Core read, and so is what a list request holds
\* between its Core read and its SET.  Covers the order Core read, write, SET
\* (ListActivities) with every Redis and Core failure and a client gone away.
StalenessRunsDown ==
  /\ \A k \in DOMAIN lists : \A w \in LacksOf(k) :
       age[w] + lists[k].ttl <= ListTTL + ReqTimeout
  /\ \A r \in Readers : pc[r] \in {"setVersions", "setList"} =>
       \A w \in Lacks(query[r], rows[r]) : age[w] + left[r] <= ReqTimeout

\* How far an answer may lag Core: a list that is not cached not at all.
MaxAge(q) == IF CacheableList(q) THEN AgeCap ELSE 0

\* Whose list a query may be answered with: that of any query with its key, if
\* it is cached; its own alone, if it is not.
Alike(q, p) == IF CacheableList(q) THEN Printed(p) = Printed(q) ELSE p = q

\* Every answer of ListActivities, cached or not, is one RecentReads allows: it
\* is the list of one query with the same key, without mixture, and a first page
\* lags Core by less than the list TTL and the request timeout together, a later
\* one not at all, whatever Redis, Core and the clients do.  A query whose key no
\* other query in use prints is answered with its own list.
Recent == INSTANCE RecentReads WITH
            stored <- [w \in committed |-> req[w]], Oldest <- AgeCap
ImplementsRecentReads == Recent!Spec

\* No list filed before the version key of s last expired is left: a restarted
\* version key may come to a version that such a list is filed under.
Settled(s) == lapsed[s] = AgeCap

\* "InvalidateScopes bumps loan/client versions so scoped lists miss
\* immediately": right after an INCR no list of that scope can be looked up,
\* unless the version key has expired within the last ListTTL + ReqTimeout.
ScopedListsMissImmediately ==
  [][\A w \in Writers, s \in Scopes : bumped'[w][s] # bumped[w][s] /\ Settled(s) =>
       \A k \in DOMAIN lists' : s \in k.query.scopes => ~Reachable(k)']_vars

\* A cached list that can be looked up, and whose versions stood still between
\* its Core read and its SET, shows every create that has bumped one of its
\* scopes: without a fill around the INCR, invalidation works, again unless the
\* version key of that scope has just expired.
UnmovedFillIsFresh ==
  \A k \in DOMAIN lists : Reachable(k) /\ ~lists[k].moved =>
    \A w \in LacksOf(k), s \in k.query.scopes :
      Settled(s) => bumped[w][s] = 0

\* After the last write the stale lists go: from some moment on every cached
\* list shows all it should, although no list request is ever told to refill
\* and a busy list is read over and over (its TTL is not renewed by hits).
StaleListsDieOut ==
  <>[](\A k \in DOMAIN lists : LacksOf(k) = {})

\* The same comment read as the caller reads it: once a create has returned
\* 201 with all its version keys bumped, no list that can be looked up lacks it.
CreatedIsListed ==
  \A w \in Writers : pc[w] = "done" /\ (\A s \in Scopes : bumped[w][s] # 0) =>
    \A k \in DOMAIN lists : Reachable(k) => w \notin LacksOf(k)

\* CreateActivityBatch loops over payload["loan_ids"] to invalidate each loan:
\* once Core has accepted a batch, every one of its loans is due to be bumped.
BatchInvalidatesItsLoans ==
  [][\A w \in Writers :
       pc[w] = "core" /\ pc'[w] \in {"incr", "done"} /\ req[w].kind = "batch" =>
         \A i \in DOMAIN req[w].payload.loan_ids :
           \E j \in DOMAIN todo'[w] : todo'[w][j] = req[w].payload.loan_ids[i]]_vars
=============================================================================
