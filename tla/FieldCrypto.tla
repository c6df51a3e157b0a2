---------------------------- MODULE FieldCrypto ----------------------------
(***************************************************************************)
(* Field encryption: the crypto-session handshake (handler/crypto_session, *)
(* fieldcrypto/session.go, stateless.go), the two session stores, and the  *)
(* middleware that opens request bodies and seals responses                *)
(* (middleware/fieldcrypto.go), in the order main.go puts them.            *)
(*                                                                         *)
(* A session key lives in a store (the map of one process, or Redis) or,   *)
(* sealed under a key-encryption key (KEK), inside the client's token.     *)
(* Processes restart, and may come back with another ring of KEKs.         *)
(* Each access to a store or to Core is an action, and so is each passage  *)
(* of the request between them.                                            *)
(*                                                                         *)
(* Ciphers and signatures are ideal: a session key is named by its         *)
(* session, and what is sealed under it by that session too.  A body is    *)
(* one leaf.  Time is a tick: ages count up, a store's TTLs count down.    *)
(***************************************************************************)
EXTENDS Integers, FiniteSets

CONSTANTS
  Procs,        \* server processes
  Requests,     \* requests in flight at once; each is reused
  MaxSessions,  \* bound: session ids drawn
  Tenants,      \* tenants the client may name in X-Tenant-Id
  MaxBearer,    \* bound: access tokens the client obtains one after another
  MaxKek,       \* bound: KEKs put in use one after another
  MaxRestarts,  \* bound: restarts of a process
  Endpoints,    \* CRYPTO_REQUIRED_ENDPOINTS: [route -> rule]
  Routes,       \* the routes the clients call
  Forms,        \* the forms of body they send
  ConfTTL,      \* CRYPTO_SESSION_TTL_SECONDS, 0 when unset
  DefaultTTL,   \* defaultSessionTTL (900 s)
  HardMaxTTL,   \* ttlHardMax (300 s)
  Skew,         \* clockSkewSeconds (5 s)
  ReqTime,      \* the request timeout (30 s)
  BodyTime,     \* bound: how long a client may take to send its body
  None,         \* no session, tenant, KEK or rule
  Shared        \* Redis, as the keeper of session keys

Sessions == 1 .. MaxSessions
Bearers  == 1 .. MaxBearer
Keks     == 1 .. MaxKek
Rules    == [decrypt : BOOLEAN, encrypt : BOOLEAN]
Tokens   == [tenant : Tenants \union {None}, bearer : Bearers, kek : Keks \union {None}]
AllForms == {"empty", "sealed", "tampered", "malformed", "plain", "notjson",
             "oversize", "overlimit"}

ASSUME NumbersAssumption ==
  /\ MaxSessions \in Nat /\ MaxBearer \in Nat \ {0} /\ MaxKek \in Nat \ {0}
  /\ MaxRestarts \in Nat
  /\ ConfTTL \in Nat /\ DefaultTTL \in Nat \ {0} /\ HardMaxTTL \in Nat \ {0}
  /\ Skew \in Nat /\ ReqTime \in Nat
  /\ BodyTime \in Nat /\ BodyTime >= ReqTime

ASSUME NamesAssumption ==
  /\ None \notin Nat \union Tenants \union Rules \union Tokens
  /\ Shared \notin Procs
  /\ Endpoints \in [DOMAIN Endpoints -> Rules]
  /\ Forms \subseteq AllForms 
  /\ "handshake" \notin Routes \union DOMAIN Endpoints

VARIABLES
  manager,    \* the session manager: none, memory, redis or stateless
  authority,  \* the tenant authority: core, or closed (refuses everyone)
  ring,       \* per process: [active, grace] KEKs
  restarts,   \* restarts so far (bound)
  drawn,      \* session ids drawn so far
  store,      \* session keys: ticks left, per keeper and session; 0 absent
  token,      \* the crypto access token of each session, None before
  age,        \* ticks since each token was signed, capped
  bearer,     \* the client's current Cognito access token
  members,    \* Core: the tenants the client's user belongs to (external)
  lapse,      \* ticks since the user left each tenant, capped (history)
  pc, call,   \* per request: where it is, what it asks
  waited,     \* per request: ticks since it arrived
  reply,      \* per request: what the client got
  logged      \* per request: the status Tracing and Audit log

fixed    == <<manager, authority>>
procVars == <<ring, restarts>>
keyVars  == <<drawn, store, token, age>>
world    == <<bearer, members, lapse>>
vars == <<manager, authority, ring, restarts, drawn, store, token, age, bearer,
          members, lapse, pc, call, waited, reply, logged>>
-----------------------------------------------------------------------------
(* Configuration, read once at start-up.  A secret is absent, weak (short, *)
(* or a known placeholder) or strong; a KEK ring may also be half set.     *)

Configurations ==
  [mode : {"", "store", "redis", "stateless", "other"}, backend : {"", "memory", "redis"},
   local : BOOLEAN, rollback : BOOLEAN, redisURL : BOOLEAN, coreURL : BOOLEAN,
   secret : {"absent", "weak", "strong"}, digestKey : {"absent", "weak", "strong"},
   kek : {"absent", "half", "weak", "strong"}]

\* AssertSessionModeAllowed
SessionModeAllowed(c) ==
  \/ c.mode = "stateless"
  \/ c.mode \in {"", "store", "redis"} /\ c.local
  \/ c.mode = "redis" /\ c.rollback

\* AssertSigningOrDigestSecretNotWeak
NotWeak(secret) == secret = "strong"

\* ResolveSessionTokenSecretFromEnv finds a secret: the store modes take any,
\* and in a local environment a built-in one.
HasTokenSecret(c) ==
  IF c.mode = "stateless" THEN NotWeak(c.secret) ELSE c.secret # "absent" \/ c.local

\* KekRingFromEnv with assertSessionMaterialNotWeak
HasKekRing(c) == c.kek = "strong"

\* TenantDigestKeyFromEnv, called in the stateless mode only.
HasDigestKey(c) == NotWeak(c.digestKey)

\* BuildSessionStoreFromEnv: the memory store is for local environments.
SessionStore(c) ==
  CASE c.backend = "memory" /\ c.local    -> "memory"
    [] c.backend = "redis" /\ c.redisURL  -> "redis"
    [] OTHER                              -> "none"

\* GetSessionManager; main only logs its error.
GetSessionManager(c) ==
  IF ~ SessionModeAllowed(c) \/ ~ HasTokenSecret(c) THEN "none"
  ELSE IF c.mode # "stateless" THEN SessionStore(c)
  ELSE IF HasKekRing(c) THEN "stateless" ELSE "none"

\* main: the authority of the stateless mode, FailClosed if it cannot be built.
TenantAuthority(c) ==
  IF c.mode = "stateless" /\ c.coreURL /\ HasDigestKey(c) THEN "core" ELSE "closed"

\* CryptoSettings.Policy: the built-in entries come first ...
DefaultRules ==
  [devices     |-> [decrypt |-> TRUE,  encrypt |-> FALSE],
   status      |-> [decrypt |-> FALSE, encrypt |-> FALSE],
   performance |-> [decrypt |-> FALSE, encrypt |-> TRUE]]

\* ... and CryptoPolicy.Resolve takes the first that matches.
Resolve(route) ==
  IF route \in DOMAIN DefaultRules THEN DefaultRules[route]
  ELSE IF route \in DOMAIN Endpoints THEN Endpoints[route] ELSE None

Opens(route) == Resolve(route) # None /\ Resolve(route).decrypt
Seals(route) == Resolve(route) # None /\ Resolve(route).encrypt

\* Fault: no hard maximum.
UnclampedTTL == IF ConfTTL = 0 THEN HardMaxTTL ELSE ConfTTL

\* NewStatelessCryptoSessionManager clamps its TTL ...
ClampedTTL == IF ConfTTL = 0 \/ ConfTTL > HardMaxTTL THEN HardMaxTTL ELSE ConfTTL

\* ... and the stores take it as it is.
SessionTTL ==
  IF manager = "stateless" THEN ClampedTTL
  ELSE IF ConfTTL = 0 THEN DefaultTTL ELSE ConfTTL

\* How old a token may be: resolveUnchecked and parseToken allow for skew.
TokenLife == IF manager = "stateless" THEN SessionTTL + Skew ELSE SessionTTL

\* The status of each FieldCryptoError.
Status ==
  [CRYPTO_ERROR |-> 400, CRYPTO_INVALID_FORMAT |-> 400, CRYPTO_UNKNOWN_KID |-> 400,
   CRYPTO_INVALID_TAG |-> 400, CRYPTO_PLAINTEXT_REJECTED |-> 400,
   CRYPTO_PAYLOAD_TOO_LARGE |-> 413, CRYPTO_RESPONSE_ENCRYPTION_FAILED |-> 500,
   CRYPTO_SESSION_INVALID |-> 401, SERVICE_UNAVAILABLE |-> 503]
-----------------------------------------------------------------------------
(* State space *)

Body(form, kid) == [form |-> form, kid |-> kid]
Sealed(s) == Body("sealed", s)
Bare(form) == Body(form, None)
Bodies == [form : AllForms \union {"error", "raw"}, kid : Sessions \union {None}]

Rings  == [active : Keks, grace : Keks \union {None}]
Calls  == [proc : Procs, route : Routes \union {"handshake"},
           session : Sessions \union {None}, access : Sessions \union {None},
           bearer : Bearers, tenant : Tenants \union {None}, body : Bodies]
Steps  == {"idle", "put", "sign", "consult", "seal",
           "key", "open", "handler", "encrypt", "done"}
Keepers == Procs \union {Shared}

\* Bounds of the history.
AgeCap   == TokenLife + BodyTime
LapseCap == TokenLife + ReqTime + BodyTime

Active(q) == pc[q] \notin {"idle", "done"}

\* Fault: every process keeps the keys to itself.
OwnKeeper(p) == p

\* The keeper of the keys a process sees: its own map, or Redis.
Keeper(p) == IF manager = "memory" THEN p ELSE Shared

TypeOK ==
  /\ manager \in {"none", "memory", "redis", "stateless"}
  /\ authority \in {"core", "closed"}
  /\ ring \in [Procs -> Rings]
  /\ restarts \in 0 .. MaxRestarts
  /\ drawn \in 0 .. MaxSessions
  /\ store \in [Keepers -> [Sessions -> 0 .. SessionTTL]]
  /\ token \in [Sessions -> Tokens \union {None}]
  /\ age \in [Sessions -> 0 .. AgeCap]
  /\ bearer \in Bearers
  /\ members \subseteq Tenants
  /\ lapse \in [Tenants -> 0 .. LapseCap]
  /\ pc \in [Requests -> Steps]
  /\ call \in [Requests -> Calls \union {None}]
  /\ \A q \in Requests : pc[q] # "idle" => call[q] \in Calls
  /\ waited \in [Requests -> 0 .. BodyTime]
  /\ reply \in [Requests -> [status : Nat, body : Bodies]]
  /\ logged \in [Requests -> Nat]

NoReply == [status |-> 0, body |-> Bare("error")]

Init ==
  /\ \E c \in Configurations :
       manager = GetSessionManager(c) /\ authority = TenantAuthority(c)
  /\ ring = [p \in Procs |-> [active |-> 1, grace |-> None]]
  /\ restarts = 0 /\ drawn = 0
  /\ store = [k \in Keepers |-> [s \in Sessions |-> 0]]
  /\ token = [s \in Sessions |-> None]
  /\ age = [s \in Sessions |-> 0]
  /\ bearer = 1
  /\ members = Tenants
  /\ lapse = [t \in Tenants |-> 0]
  /\ pc = [q \in Requests |-> "idle"]
  /\ call = [q \in Requests |-> None]
  /\ waited = [q \in Requests |-> 0]
  /\ reply = [q \in Requests |-> NoReply]
  /\ logged = [q \in Requests |-> 0]
-----------------------------------------------------------------------------
(* Answers *)

Goto(q, step) == /\ pc' = [pc EXCEPT ![q] = step]
                 /\ UNCHANGED <<waited, reply, logged>>

\* The client gets a status and a body; another status may be logged.
Finish(q, status, body, log) ==
  /\ pc' = [pc EXCEPT ![q] = "done"]
  /\ waited' = [waited EXCEPT ![q] = 0]
  /\ reply' = [reply EXCEPT ![q] = [status |-> status, body |-> body]]
  /\ logged' = [logged EXCEPT ![q] = log]

Answer(q, status, body) == Finish(q, status, body, status)

\* abortFieldCrypto on the real writer.
Refuse(q, code) == Answer(q, Status[code], Bare("error"))

\* The client has read the answer, and may send the next request.
Return(q) ==
  /\ pc[q] = "done"
  /\ pc' = [pc EXCEPT ![q] = "idle"]
  /\ call' = [call EXCEPT ![q] = None]
  /\ reply' = [reply EXCEPT ![q] = NoReply]
  /\ logged' = [logged EXCEPT ![q] = 0]
  /\ UNCHANGED <<fixed, procVars, keyVars, world, waited>>
-----------------------------------------------------------------------------
(* The session stores *)

\* Fault: the store is built with the default TTL, the manager with the configured.
PutDefault(q, s) ==
  store' = [store EXCEPT ![Keeper(call[q].proc)][s] = DefaultTTL]

\* Put of either store: the key is stored under a new id, with the TTL.
Put(q, s) ==
  store' = [store EXCEPT ![Keeper(call[q].proc)][s] = SessionTTL]

\* MemorySessionStore.Get: an entry past its expiry is no entry.
MemoryGet(p, s) == IF store[p][s] > 0 THEN {"hit"} ELSE {"miss"}

\* RedisCryptoSessionStore.Get: a key, none, or an error of Redis.
RedisGet(s) == (IF store[Shared][s] > 0 THEN {"hit"} ELSE {"miss"}) \union {"error"}

\* CryptoSessionManager.SessionKey: what the store may answer.
SessionKey(p, s) == IF manager = "memory" THEN MemoryGet(p, s) ELSE RedisGet(s)
-----------------------------------------------------------------------------
(* The handshake *)

\* CryptoSessionHandler.Handshake, up to its first call outside; a tenant
\* header that names no tenant ("default", "all", nothing) stops it.
StartHandshake(q, p, t) ==
  /\ pc[q] = "idle"
  /\ call' = [call EXCEPT ![q] =
       [proc |-> p, route |-> "handshake", session |-> None, access |-> None,
        bearer |-> bearer, tenant |-> t, body |-> Bare("plain")]]
  /\ \/ manager = "none" /\ Answer(q, 500, Bare("error"))
     \/ manager \in {"memory", "redis"} /\ Goto(q, "put")
     \/ /\ manager = "stateless"
        /\ IF authority = "core" /\ t # None
           THEN Goto(q, "consult") ELSE Refuse(q, "CRYPTO_SESSION_INVALID")
  /\ UNCHANGED <<fixed, procVars, keyVars, world>>

\* Fault: the list of tenants is asked for, and not searched.
ConsultUnsearched(q) ==
  /\ pc[q] = "consult"
  /\ \/ Goto(q, "seal")
     \/ Refuse(q, "CRYPTO_SESSION_INVALID")
     \/ Refuse(q, "SERVICE_UNAVAILABLE")
  /\ UNCHANGED <<fixed, procVars, keyVars, world, call>>

\* ManagementTenantClient.AuthorizedTenants: the tenants of the user, a refusal
\* (a status of 4xx, a list it cannot read), or no answer.
Consult(q) ==
  /\ pc[q] = "consult"
  /\ \/ call[q].tenant \in members /\ Goto(q, "seal")
     \/ Refuse(q, "CRYPTO_SESSION_INVALID")
     \/ Refuse(q, "SERVICE_UNAVAILABLE")
  /\ UNCHANGED <<fixed, procVars, keyVars, world, call>>

\* CryptoSessionManager.Handshake stores the key first.  An error of Redis is
\* answered 400; the key may have been stored all the same.
PutKey(q) ==
  LET s == drawn + 1
  IN  /\ pc[q] = "put"
      /\ s \in Sessions
      /\ drawn' = s
      /\ call' = [call EXCEPT ![q].session = s]
      /\ \/ Put(q, s) /\ Goto(q, "sign")
         \/ /\ manager = "redis"
            /\ \/ Put(q, s)
               \/ UNCHANGED store
            /\ Answer(q, 400, Bare("error"))
      /\ UNCHANGED <<fixed, procVars, token, age, world>>

Issue(s, t, b, k) ==
  /\ token' = [token EXCEPT ![s] = [tenant |-> t, bearer |-> b, kek |-> k]]
  /\ age' = [age EXCEPT ![s] = 0]

\* ... and then the token is signed and sent; it is bound to the id alone.
Sign(q) ==
  /\ pc[q] = "sign"
  /\ Issue(call[q].session, None, call[q].bearer, None)
  /\ Answer(q, 200, Bare("plain"))
  /\ UNCHANGED <<fixed, procVars, drawn, store, world, call>>

\* StatelessCryptoSessionManager.Handshake: the token carries the key, sealed
\* under the active KEK, bound to tenant and access token.
Seal(q) ==
  LET s == drawn + 1
      c == call[q]
  IN  /\ pc[q] = "seal"
      /\ s \in Sessions
      /\ drawn' = s
      /\ call' = [call EXCEPT ![q].session = s]
      /\ Issue(s, c.tenant, c.bearer, ring[c.proc].active)
      /\ Answer(q, 200, Bare("plain"))
      /\ UNCHANGED <<fixed, procVars, store, world>>
-----------------------------------------------------------------------------
(* FieldCryptoMiddleware *)

\* Fault: any token will do, whichever session it was issued for.
VerifyAccessTokenUnbound(c) == c.access # None /\ age[c.access] < TokenLife

\* VerifyAccessToken of the store-backed manager: the token in
\* X-Crypto-Access-Token is not too old, and its id is X-Crypto-Session-Id.
VerifyAccessToken(c) == c.access = c.session /\ age[c.access] < TokenLife

\* KekRing.KeyFor finds the KEK.
InRing(k, r) == k \in {r.active, r.grace} \ {None}

\* CoreManagementTenantAuthority.Resolve without consultCore.
TenantNamed(c) == authority = "core" /\ c.tenant # None

\* StatelessCryptoSessionManager.resolveUnchecked
ResolvesStateless(c) ==
  /\ c.access = c.session
  /\ token[c.access].tenant = c.tenant
  /\ token[c.access].bearer = c.bearer
  /\ age[c.access] < TokenLife
  /\ InRing(token[c.access].kek, ring[c.proc])

\* Where a request goes once its session is accepted.
Onwards(q, route) == Goto(q, IF Opens(route) THEN "open" ELSE "handler")

\* A request arrives; the middleware decides what it can without a store.
StartCall(q, c) ==
  /\ pc[q] = "idle"
  /\ call' = [call EXCEPT ![q] = c]
  /\ \/ Resolve(c.route) = None /\ Goto(q, "handler")
     \/ /\ Resolve(c.route) # None
        /\ c.session = None \/ manager = "none"
        /\ Refuse(q, "CRYPTO_SESSION_INVALID")
     \/ /\ Resolve(c.route) # None /\ c.session # None /\ manager = "stateless"
        /\ IF TenantNamed(c) /\ ResolvesStateless(c)
           THEN Onwards(q, c.route) ELSE Refuse(q, "CRYPTO_SESSION_INVALID")
     \/ /\ Resolve(c.route) # None /\ c.session # None
        /\ manager \in {"memory", "redis"}
        /\ IF VerifyAccessToken(c)
           THEN Goto(q, "key") ELSE Refuse(q, "CRYPTO_SESSION_INVALID")
  /\ UNCHANGED <<fixed, procVars, keyVars, world>>

\* mgr.SessionKey(sessionID): the key itself is not kept.
ReadKey(q) ==
  /\ pc[q] = "key"
  /\ \E found \in SessionKey(call[q].proc, call[q].session) :
       \/ found = "hit" /\ Onwards(q, call[q].route)
       \/ found = "miss" /\ Refuse(q, "CRYPTO_SESSION_INVALID")
       \/ found = "error" /\ Refuse(q, "SERVICE_UNAVAILABLE")
  /\ UNCHANGED <<fixed, procVars, keyVars, world, call>>

\* KeyFor of the request's provider: FixedSessionKeyProvider knows the verified
\* session alone, SessionKeyProvider whatever the store has.
KeyFor(c, kid) ==
  IF manager = "stateless"
  THEN IF kid = c.session THEN {"hit"} ELSE {"miss"}
  ELSE SessionKey(c.proc, kid)

\* What decryptRequestBody, IsEnvelope and ParseEnvelope refuse without a key.
\* A body cut off by MaxBytesReader is answered as an invalid session.
FormCode ==
  [oversize  |-> "CRYPTO_SESSION_INVALID",
   overlimit |-> "CRYPTO_PAYLOAD_TOO_LARGE",
   notjson   |-> "CRYPTO_ERROR",
   plain     |-> "CRYPTO_PLAINTEXT_REJECTED",
   malformed |-> "CRYPTO_INVALID_FORMAT"]

\* DecryptValue: the key of the id in the envelope, then the tag.
DecryptValue(q, b) ==
  \E found \in KeyFor(call[q], b.kid) :
    \/ found = "hit" /\ b.form = "sealed" /\ Goto(q, "handler")
    \/ found = "hit" /\ b.form = "tampered" /\ Refuse(q, "CRYPTO_INVALID_TAG")
    \/ found = "miss" /\ Refuse(q, "CRYPTO_UNKNOWN_KID")
    \/ found = "error" /\ Refuse(q, "SERVICE_UNAVAILABLE")

\* decryptRequestBody with DecryptJSON
Open(q) ==
  LET b == call[q].body
  IN  /\ pc[q] = "open"
      /\ \/ b.form = "empty" /\ Goto(q, "handler")
         \/ b.form \in DOMAIN FormCode /\ Refuse(q, FormCode[b.form])
         \/ b.form \in {"sealed", "tampered"} /\ DecryptValue(q, b)
      /\ UNCHANGED <<fixed, procVars, keyVars, world, call>>

\* The handler answers 200 or an error, into the capturing writer if the
\* response is to be sealed; flushRaw passes on what is no success, and what is
\* no JSON.
Handle(q) ==
  /\ pc[q] = "handler"
  /\ \/ ~ Seals(call[q].route) /\ Answer(q, 200, Bare("plain"))
     \/ Seals(call[q].route) /\ (Goto(q, "encrypt") \/ Answer(q, 200, Bare("raw")))
     \/ Answer(q, 502, Bare("error"))
  /\ UNCHANGED <<fixed, procVars, keyVars, world, call>>

\* abortFieldCrypto on the capturing writer, which nothing flushes: net/http
\* sends an empty 200.  Past its timeout the request is logged as one, too late.
SealFails(q) ==
  \E log \in {Status["CRYPTO_RESPONSE_ENCRYPTION_FAILED"], 504} :
    /\ log = 504 => waited[q] >= ReqTime
    /\ Finish(q, 200, Bare("empty"), log)

\* EncryptJSON under ctx.KID, if what was captured can be parsed.
Encrypt(q) ==
  LET c == call[q]
  IN  /\ pc[q] = "encrypt"
      /\ \/ SealFails(q)
         \/ \E found \in KeyFor(c, c.session) :
              IF found = "hit" THEN Answer(q, 200, Sealed(c.session)) ELSE SealFails(q)
      /\ UNCHANGED <<fixed, procVars, keyVars, world, call>>
-----------------------------------------------------------------------------
(* Processes, the client, Core and time *)

\* The rings an operator may configure for the next start: the same, the next
\* KEK in the second place, or the next one active with or without the old.
NextRings(r) ==
  {r} \union {ring2 \in Rings :
                /\ {ring2.active, ring2.grace} \ {None} \subseteq {r.active, r.active + 1}
                /\ ring2.active # ring2.grace}

\* A process restarts: its requests are cut off, its own map is gone, and a
\* stateless one reads its ring again.
Restart(p, r) ==
  /\ restarts < MaxRestarts
  /\ restarts' = restarts + 1
  /\ manager # "stateless" => r = ring[p]
  /\ ring' = [ring EXCEPT ![p] = r]
  /\ store' = [store EXCEPT ![p] = [s \in Sessions |-> 0]]
  /\ LET cut(q) == Active(q) /\ call[q].proc = p
     IN  /\ pc' = [q \in Requests |-> IF cut(q) THEN "idle" ELSE pc[q]]
         /\ call' = [q \in Requests |-> IF cut(q) THEN None ELSE call[q]]
         /\ waited' = [q \in Requests |-> IF cut(q) THEN 0 ELSE waited[q]]
  /\ UNCHANGED <<fixed, drawn, token, age, world, reply, logged>>

\* The client obtains a new access token from Cognito (external).
RefreshBearer ==
  /\ bearer < MaxBearer
  /\ bearer' = bearer + 1
  /\ UNCHANGED <<fixed, procVars, keyVars, members, lapse, pc, call, waited, reply, logged>>

\* Core takes the user out of a tenant (external).
Leave(t) ==
  /\ t \in members
  /\ members' = members \ {t}
  /\ UNCHANGED <<fixed, procVars, keyVars, bearer, lapse, pc, call, waited, reply, logged>>

\* Fault: no request timeout.
TickUntimed ==
  /\ waited' = [q \in Requests |-> IF Active(q) THEN waited[q] + 1 ELSE waited[q]]
  /\ UNCHANGED <<fixed, procVars, keyVars, world, pc, call, reply, logged>>

\* The body is read here, or by the handler of a route that is not opened; the
\* read ends when the client has sent it, whatever the request timeout.
ReadsBody(q) == \/ pc[q] = "open"
                \/ pc[q] = "handler" /\ ~ Opens(call[q].route)

\* Time passes; but for the reading of its body, a request is over within the
\* request timeout, or at once when that has passed.
Tick ==
  /\ \A q \in Requests :
       Active(q) => waited[q] < IF ReadsBody(q) THEN BodyTime ELSE ReqTime
  /\ waited' = [q \in Requests |-> IF Active(q) THEN waited[q] + 1 ELSE waited[q]]
  /\ store' = [k \in Keepers |->
                 [s \in Sessions |-> IF store[k][s] = 0 THEN 0 ELSE store[k][s] - 1]]
  /\ age' = [s \in Sessions |->
               IF token[s] # None /\ age[s] < AgeCap THEN age[s] + 1 ELSE age[s]]
  /\ lapse' = [t \in Tenants |->
                 IF t \notin members /\ lapse[t] < LapseCap THEN lapse[t] + 1 ELSE lapse[t]]
  /\ UNCHANGED <<fixed, procVars, drawn, token, bearer, members, pc, call, reply, logged>>
-----------------------------------------------------------------------------
\* What a client sends: the id of a session and a token, of that session or of
\* another, where the policy asks for them; a tenant, where the mode does; a body
\* where the route reads one, sealed under any of the sessions.  (A token that
\* cannot be parsed, or none, is refused as another session's is.)
Held == {s \in Sessions : token[s] # None}
SentSessions(route) == IF Resolve(route) = None THEN {None} ELSE Held \union {None}
SentAccess(s) == IF s = None THEN {None} ELSE Held
SentTenants(s) == IF manager = "stateless" /\ s # None THEN Tenants \union {None} ELSE {None}
SentBodies(route) ==
  {Bare("empty")} \union
    IF Opens(route)
    THEN {Body(f, k) : f \in Forms \intersect {"sealed", "tampered"}, k \in Held}
           \union {Bare(f) : f \in Forms \ {"sealed", "tampered"}}
    ELSE {}

HandshakeTenants == IF manager = "stateless" THEN Tenants \union {None} ELSE {None}

Arrive(q, p, route) ==
  \E s \in SentSessions(route), b \in SentBodies(route) :
    \E a \in SentAccess(s), t \in SentTenants(s) :
      StartCall(q, [proc |-> p, route |-> route, session |-> s, access |-> a,
                    bearer |-> bearer, tenant |-> t, body |-> b])

Step(q) ==
  \/ Consult(q) \/ PutKey(q) \/ Sign(q) \/ Seal(q)
  \/ ReadKey(q) \/ Open(q) \/ Handle(q) \/ Encrypt(q)

Next ==
  \/ \E q \in Requests, p \in Procs, t \in HandshakeTenants : StartHandshake(q, p, t)
  \/ \E q \in Requests, p \in Procs, route \in Routes : Arrive(q, p, route)
  \/ \E q \in Requests : Step(q)
  \/ \E q \in Requests : Return(q)
  \/ \E p \in Procs : \E r \in NextRings(ring[p]) : Restart(p, r)
  \/ RefreshBearer
  \/ \E t \in Tenants : Leave(t)
  \/ Tick

Spec == Init /\ [][Next]_vars
-----------------------------------------------------------------------------
(* Properties *)

Serving(q) == /\ pc[q] \in {"key", "open", "handler", "encrypt"}
              /\ Resolve(call[q].route) # None

\* No request is served under a session past its life: in the stateless mode
\* ttlHardMax bounds it, whatever CRYPTO_SESSION_TTL_SECONDS says.  What a
\* request may add is the time it has itself been waiting.
SessionsEnd ==
  \A q \in Requests : Serving(q) =>
    age[call[q].session] <
      waited[q] + IF manager = "stateless" THEN HardMaxTTL + Skew ELSE SessionTTL

\* Core is asked at the handshake alone; still a user taken out of a tenant is
\* served for it no longer than one session and two requests can last.
TenantsLapse ==
  \A q \in Requests : Serving(q) /\ manager = "stateless" =>
    \/ call[q].tenant \in members
    \/ lapse[call[q].tenant] < HardMaxTTL + Skew + ReqTime + waited[q]

\* In Redis a key and its token, written one after the other, end together but
\* for the length of the handshake: no key is left behind by an expired token,
\* and none goes missing under a token that is good for longer than that.
LifetimesAgree ==
  manager = "redis" =>
    \A s \in Sessions : token[s] # None =>
      /\ store[Shared][s] > 0 => store[Shared][s] + age[s] <= SessionTTL
      /\ age[s] + ReqTime < SessionTTL => store[Shared][s] + age[s] + ReqTime >= SessionTTL

\* A request is opened and answered under the session whose token it presents:
\* the stateless mode hands the handler no body sealed under another one, and the
\* 200 of a protected route is sealed under that session, or no JSON and passed
\* on as it is, or, where it could not be sealed, empty and logged as an error.
OneSessionPerRequest ==
  \A q \in Requests :
    /\ pc[q] \in {"handler", "encrypt"} /\ Opens(call[q].route) /\ manager = "stateless"
         => \/ call[q].body.form = "empty"
            \/ call[q].body.form = "sealed" /\ call[q].body.kid = call[q].access
    /\ pc[q] = "done" /\ Seals(call[q].route) /\ reply[q].status = 200
         => \/ reply[q].body = Sealed(call[q].access)
            \/ reply[q].body = Bare("raw")
            \/ reply[q].body = Bare("empty") /\ logged[q] # 200

\* What a client can tell of why its session was refused.
Excused(c) ==
  \/ c.session = None \/ c.access # c.session \/ c.body.form = "oversize"
  \/ age[c.session] + (IF manager = "redis" THEN ReqTime ELSE 0) >= TokenLife
  \/ /\ manager = "stateless"
     /\ \/ authority = "closed"
        \/ token[c.session].tenant # c.tenant \/ token[c.session].bearer # c.bearer
        \/ \E p \in Procs : ring[p] # [active |-> 1, grace |-> None]

\* Sessions are replica-safe: any process accepts what any other issued, after
\* restarts too, unless the session is too old or the client asks for something
\* else or with another token; only a new ring of KEKs may end a stateless session before its time.
ReplicaSafe ==
  [][\A q \in Requests :
       /\ manager \in {"redis", "stateless"}
       /\ pc[q] # "done" /\ pc'[q] = "done"
       /\ call'[q].route # "handshake" /\ reply'[q].status = 401
       => Excused(call'[q])]_vars

\* A response that cannot be sealed is answered CRYPTO_RESPONSE_ENCRYPTION_FAILED
\* (errors.go: EncryptionFailed, 500), as Tracing and Audit log it.
EncryptionFailureIsAnswered ==
  \A q \in Requests : pc[q] = "done" =>
    (logged[q] = Status["CRYPTO_RESPONSE_ENCRYPTION_FAILED"] => reply[q].status = logged[q])
=============================================================================
