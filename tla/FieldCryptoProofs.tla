------------------------- MODULE FieldCryptoProofs -------------------------
(***************************************************************************)
(* Theorems about FieldCrypto, for any number of processes, requests,      *)
(* sessions, tenants and KEKs and any lifetimes.                           *)
(***************************************************************************)
EXTENDS FieldCrypto, TLAPS

\* A request that is served has a session that was issued, and was young enough
\* when the request arrived.
Served ==
  \A q \in Requests : Serving(q) =>
    /\ call[q].session \in Sessions
    /\ token[call[q].session] # None
    /\ age[call[q].session] < TokenLife + waited[q]

\* Until it is opened or handled, a request is within the request timeout.
Timely ==
  \A q \in Requests : pc[q] \notin {"open", "handler", "encrypt"} => waited[q] <= ReqTime

\* A request that is served presents the token of the session it names.
AccessBound ==
  \A q \in Requests : Serving(q) => call[q].access = call[q].session

\* A session id is drawn before anything is issued for it.
DrawnFirst ==
  /\ \A s \in Sessions : token[s] # None => s <= drawn
  /\ \A q \in Requests : pc[q] = "sign" => call[q].session \in 1 .. drawn

\* The two ends of LifetimesAgree, with the handshakes between them.
KeysMatchTokens ==
  /\ DrawnFirst
  /\ LifetimesAgree
  /\ manager = "redis" =>
       \A q \in Requests : pc[q] = "sign" =>
         store[Shared][call[q].session] + waited[q] >= SessionTTL

\* How far a tenant that was left may lag behind in handshakes, tokens and calls.
TenantLag ==
  /\ \A t \in members : lapse[t] = 0
  /\ manager = "stateless" =>
       /\ \A q \in Requests : pc[q] = "seal" =>
            /\ call[q].tenant \in Tenants
            /\ call[q].tenant \in members \/ lapse[call[q].tenant] <= waited[q]
       /\ \A s \in Sessions : token[s] # None =>
            /\ token[s].tenant \in Tenants
            /\ \/ token[s].tenant \in members
               \/ lapse[token[s].tenant] <= ReqTime + age[s]
               \/ age[s] = AgeCap
       /\ \A q \in Requests : Serving(q) =>
            /\ call[q].tenant \in Tenants
            /\ \/ call[q].tenant \in members
               \/ lapse[call[q].tenant] < ReqTime + TokenLife + waited[q]
-----------------------------------------------------------------------------
LEMMA Lifetimes ==
  /\ SessionTTL \in Nat /\ SessionTTL > 0
  /\ TokenLife \in Nat /\ TokenLife >= SessionTTL
  /\ AgeCap \in Nat /\ AgeCap = TokenLife + BodyTime
  /\ LapseCap \in Nat /\ ReqTime \in Nat
  /\ BodyTime \in Nat /\ BodyTime >= ReqTime
BY NumbersAssumption DEF SessionTTL, ClampedTTL, TokenLife, AgeCap, LapseCap

LEMMA SameLifetimes ==
  ASSUME manager' = manager
  PROVE  SessionTTL' = SessionTTL /\ TokenLife' = TokenLife /\ AgeCap' = AgeCap
           /\ LapseCap' = LapseCap
BY DEF SessionTTL, ClampedTTL, TokenLife, AgeCap, LapseCap

LEMMA BodiesTyped ==
  /\ \A f \in AllForms \union {"error", "raw"} : Bare(f) \in Bodies
  /\ \A s \in Sessions \union {None} : Sealed(s) \in Bodies
  /\ \A f \in AllForms, s \in Sessions : Body(f, s) \in Bodies
BY DEF Bare, Sealed, Body, Bodies, AllForms

LEMMA StatusTyped ==
  ASSUME NEW code \in DOMAIN Status
  PROVE  Status[code] \in Nat /\ Status[code] # 200
BY DEF Status

LEMMA TypeInit == Init => TypeOK
<1> SUFFICES ASSUME Init PROVE TypeOK
  OBVIOUS
<1>1. manager \in {"none", "memory", "redis", "stateless"} /\ authority \in {"core", "closed"}
  BY DEF Init, GetSessionManager, SessionStore, TenantAuthority
<1>2. ring \in [Procs -> Rings]
  BY NumbersAssumption DEF Init, Rings, Keks
<1>3. /\ restarts \in 0 .. MaxRestarts /\ drawn \in 0 .. MaxSessions /\ bearer \in Bearers
      /\ members \subseteq Tenants
  BY NumbersAssumption DEF Init, Bearers
<1>4. /\ store \in [Keepers -> [Sessions -> 0 .. SessionTTL]]
      /\ age \in [Sessions -> 0 .. AgeCap] /\ lapse \in [Tenants -> 0 .. LapseCap]
      /\ waited \in [Requests -> 0 .. BodyTime]
  BY Lifetimes DEF Init
<1>5. /\ token \in [Sessions -> Tokens \union {None}]
      /\ pc \in [Requests -> Steps] /\ call \in [Requests -> Calls \union {None}]
      /\ \A q \in Requests : pc[q] # "idle" => call[q] \in Calls
      /\ logged \in [Requests -> Nat]
  BY DEF Init, Steps
<1>6. reply \in [Requests -> [status : Nat, body : Bodies]]
  BY BodiesTyped DEF Init, NoReply
<1> QED BY <1>1, <1>2, <1>3, <1>4, <1>5, <1>6 DEF TypeOK

\* The conjuncts of TypeOK about requests, and those about the rest.
RequestsOK ==
  /\ pc \in [Requests -> Steps]
  /\ call \in [Requests -> Calls \union {None}]
  /\ \A q \in Requests : pc[q] # "idle" => call[q] \in Calls
  /\ waited \in [Requests -> 0 .. BodyTime]
  /\ reply \in [Requests -> [status : Nat, body : Bodies]]
  /\ logged \in [Requests -> Nat]

WorldOK ==
  /\ manager \in {"none", "memory", "redis", "stateless"}
  /\ authority \in {"core", "closed"}
  /\ ring \in [Procs -> Rings]
  /\ restarts \in 0 .. MaxRestarts
  /\ drawn \in 0 .. MaxSessions
  /\ store \in [Keepers -> [Sessions -> 0 .. SessionTTL]]
  /\ token \in [Sessions -> Tokens \union {None}]
  /\ age \in [Sessions -> 0 .. AgeCap]
  /\ bearer \in Bearers
  /\ members \subseteq Tenants
  /\ lapse \in [Tenants -> 0 .. LapseCap]

LEMMA TypeParts ==
  /\ TypeOK <=> RequestsOK /\ WorldOK
  /\ TypeOK' <=> RequestsOK' /\ WorldOK'
BY DEF TypeOK, RequestsOK, WorldOK

\* A request moves to its next step, or is answered.
Moves(q, c) ==
  /\ call' = [call EXCEPT ![q] = c]
  /\ \/ \E step \in Steps : Goto(q, step)
     \/ \E status \in Nat, log \in Nat, b \in Bodies : Finish(q, status, b, log)

LEMMA MovesTyped ==
  ASSUME RequestsOK, NEW q \in Requests, NEW c \in Calls, Moves(q, c)
  PROVE  RequestsOK'
<1>1. call' \in [Requests -> Calls \union {None}]
  BY DEF RequestsOK, Moves
<1>2. CASE \E step \in Steps : Goto(q, step)
  BY <1>1, <1>2 DEF RequestsOK, Moves, Goto
<1>3. ASSUME NEW status \in Nat, NEW log \in Nat, NEW b \in Bodies,
             Finish(q, status, b, log)
      PROVE  RequestsOK'
  <2>1. "done" \in Steps /\ 0 \in 0 .. BodyTime
    BY Lifetimes DEF Steps
  <2>2. reply' \in [Requests -> [status : Nat, body : Bodies]]
    BY <1>3 DEF RequestsOK, Finish
  <2> QED BY <1>1, <1>3, <2>1, <2>2 DEF RequestsOK, Moves, Finish
<1> QED BY <1>2, <1>3 DEF Moves

LEMMA RefuseFinishes ==
  ASSUME NEW q, NEW code \in DOMAIN Status, Refuse(q, code)
  PROVE  \E status \in Nat, log \in Nat, b \in Bodies : Finish(q, status, b, log)
BY BodiesTyped, StatusTyped DEF Refuse, Answer

LEMMA AnswerFinishes ==
  ASSUME NEW q, NEW status \in Nat, NEW b \in Bodies, Answer(q, status, b)
  PROVE  \E status2 \in Nat, log \in Nat, b2 \in Bodies : Finish(q, status2, b2, log)
BY DEF Answer

LEMMA Codes ==
  /\ {"CRYPTO_SESSION_INVALID", "SERVICE_UNAVAILABLE", "CRYPTO_UNKNOWN_KID",
      "CRYPTO_INVALID_TAG", "CRYPTO_RESPONSE_ENCRYPTION_FAILED"} \subseteq DOMAIN Status
  /\ \A f \in DOMAIN FormCode : FormCode[f] \in DOMAIN Status
BY DEF Status, FormCode

LEMMA Replies ==
  /\ Bare("plain") \in Bodies /\ Bare("empty") \in Bodies
  /\ Bare("error") \in Bodies /\ Bare("raw") \in Bodies
BY BodiesTyped DEF AllForms
-----------------------------------------------------------------------------
(* TypeOK *)

\* UNCHANGED call, as the EXCEPT of Moves.
LEMMA CallKept ==
  ASSUME RequestsOK, NEW q \in Requests, call' = call
  PROVE  call' = [call EXCEPT ![q] = call[q]]
BY DEF RequestsOK

LEMMA WorldKept ==
  ASSUME WorldOK, UNCHANGED <<fixed, procVars, keyVars, world>>
  PROVE  WorldOK'
BY SameLifetimes DEF WorldOK, fixed, procVars, keyVars, world

LEMMA HandshakeTyped ==
  ASSUME TypeOK, NEW q \in Requests, NEW p \in Procs,
         NEW t \in Tenants \union {None}, StartHandshake(q, p, t)
  PROVE  TypeOK'
<1> DEFINE c == [proc |-> p, route |-> "handshake", session |-> None, access |-> None,
                 bearer |-> bearer, tenant |-> t, body |-> Bare("plain")]
<1>1. RequestsOK /\ WorldOK
  BY TypeParts
<1>2. c \in Calls
  BY <1>1, Replies DEF Calls, WorldOK
<1>3. Moves(q, c)
  <2>1. call' = [call EXCEPT ![q] = c]
    BY DEF StartHandshake
  <2>2. CASE Answer(q, 500, Bare("error"))
    BY <2>1, <2>2, AnswerFinishes, Replies DEF Moves
  <2>3. CASE Goto(q, "put") \/ Goto(q, "consult")
    BY <2>1, <2>3 DEF Moves, Steps
  <2>4. CASE Refuse(q, "CRYPTO_SESSION_INVALID")
    BY <2>1, <2>4, RefuseFinishes, Codes DEF Moves
  <2> QED BY <2>2, <2>3, <2>4 DEF StartHandshake
<1>4. RequestsOK'
  BY <1>1, <1>2, <1>3, MovesTyped
<1>5. WorldOK'
  BY <1>1, WorldKept DEF StartHandshake
<1> QED BY <1>4, <1>5, TypeParts

LEMMA CallTyped ==
  ASSUME TypeOK, NEW q \in Requests, NEW c \in Calls, StartCall(q, c)
  PROVE  TypeOK'
<1>1. RequestsOK /\ WorldOK
  BY TypeParts
<1>2. Moves(q, c)
  <2>1. call' = [call EXCEPT ![q] = c]
    BY DEF StartCall
  <2>2. CASE Goto(q, "handler") \/ Goto(q, "key") \/ Goto(q, "open")
    BY <2>1, <2>2 DEF Moves, Steps
  <2>3. CASE Refuse(q, "CRYPTO_SESSION_INVALID")
    BY <2>1, <2>3, RefuseFinishes, Codes DEF Moves
  <2> QED BY <2>2, <2>3 DEF StartCall, Onwards
<1>3. RequestsOK'
  BY <1>1, <1>2, MovesTyped
<1>4. WorldOK'
  BY <1>1, WorldKept DEF StartCall
<1> QED BY <1>3, <1>4, TypeParts

\* What Arrive sends is a call.
LEMMA SentTyped ==
  ASSUME TypeOK, NEW p \in Procs, NEW route \in Routes,
         NEW s \in SentSessions(route), NEW b \in SentBodies(route),
         NEW a \in SentAccess(s), NEW t \in SentTenants(s)
  PROVE  [proc |-> p, route |-> route, session |-> s, access |-> a,
          bearer |-> bearer, tenant |-> t, body |-> b] \in Calls
<1>1. /\ s \in Sessions \union {None} /\ a \in Sessions \union {None}
      /\ t \in Tenants \union {None} /\ bearer \in Bearers
  BY DEF SentSessions, SentAccess, SentTenants, Held, TypeOK
<1>2. b \in Bodies
  <2>1. CASE b = Bare("empty")
    BY <2>1, Replies
  <2>2. CASE \E f \in Forms \intersect {"sealed", "tampered"}, k \in Held : b = Body(f, k)
    BY <2>2, BodiesTyped, NamesAssumption DEF Held
  <2>3. CASE \E f \in Forms \ {"sealed", "tampered"} : b = Bare(f)
    BY <2>3, BodiesTyped, NamesAssumption
  <2> QED BY <2>1, <2>2, <2>3 DEF SentBodies
<1> QED BY <1>1, <1>2 DEF Calls

\* Steps that only move the request on.
LEMMA StepTyped ==
  ASSUME TypeOK, NEW q \in Requests,
         Consult(q) \/ ReadKey(q) \/ Open(q) \/ Handle(q) \/ Encrypt(q)
  PROVE  TypeOK'
<1>1. RequestsOK /\ WorldOK
  BY TypeParts
<1>2. pc[q] # "idle" /\ call[q] \in Calls
  BY DEF TypeOK, Consult, ReadKey, Open, Handle, Encrypt
<1>3. call' = [call EXCEPT ![q] = call[q]]
  BY <1>1, CallKept DEF Consult, ReadKey, Open, Handle, Encrypt
<1>4. Moves(q, call[q])
  <2>1. CASE \E step \in Steps : Goto(q, step)
    BY <1>3, <2>1 DEF Moves
  <2>2. CASE \E code \in DOMAIN Status : Refuse(q, code)
    BY <1>3, <2>2, RefuseFinishes DEF Moves
  <2>3. CASE \/ Answer(q, 200, Bare("plain")) \/ Answer(q, 200, Bare("raw"))
             \/ Answer(q, 502, Bare("error"))
    BY <1>3, <2>3, AnswerFinishes, Replies DEF Moves
  <2>4. CASE Encrypt(q)
    <3>1. Sealed(call[q].session) \in Bodies
      BY <1>2, BodiesTyped DEF Calls
    <3>2. CASE Answer(q, 200, Sealed(call[q].session))
      BY <1>3, <3>1, <3>2, AnswerFinishes DEF Moves
    <3>3. CASE SealFails(q)
      <4>1. PICK log \in {Status["CRYPTO_RESPONSE_ENCRYPTION_FAILED"], 504} :
              Finish(q, 200, Bare("empty"), log)
        BY <3>3 DEF SealFails
      <4>2. log \in Nat
        BY StatusTyped, Codes
      <4> QED BY <1>3, <4>1, <4>2, Replies DEF Moves
    <3> QED BY <2>4, <3>2, <3>3 DEF Encrypt
  <2>5. CASE Consult(q)
    BY <2>5, <2>1, <2>2, Codes DEF Consult, Steps
  <2>6. CASE ReadKey(q)
    BY <2>6, <2>1, <2>2, Codes DEF ReadKey, Onwards, Steps
  <2>7. CASE Open(q)
    BY <2>7, <2>1, <2>2, Codes DEF Open, DecryptValue, Steps
  <2>8. CASE Handle(q)
    BY <2>8, <2>1, <2>3 DEF Handle, Steps
  <2> QED BY <2>4, <2>5, <2>6, <2>7, <2>8
<1>5. RequestsOK'
  BY <1>1, <1>2, <1>4, MovesTyped
<1>6. WorldOK'
  BY <1>1, WorldKept DEF Consult, ReadKey, Open, Handle, Encrypt
<1> QED BY <1>5, <1>6, TypeParts
LEMMA PutTyped ==
  ASSUME WorldOK, NEW q, NEW s, Put(q, s)
  PROVE  store' \in [Keepers -> [Sessions -> 0 .. SessionTTL]]
<1> DEFINE k == Keeper(call[q].proc)
<1>1. SessionTTL \in 0 .. SessionTTL
  BY Lifetimes
<1>2. \A j \in Keepers : [store[j] EXCEPT ![s] = SessionTTL] \in [Sessions -> 0 .. SessionTTL]
  BY <1>1 DEF WorldOK
<1>3. store' = [store EXCEPT ![k] = [store[k] EXCEPT ![s] = SessionTTL]]
  BY DEF Put
<1> QED BY <1>2, <1>3 DEF WorldOK

LEMMA WithSession ==
  ASSUME NEW c \in Calls, NEW s \in Sessions
  PROVE  [c EXCEPT !.session = s] \in Calls
BY DEF Calls

LEMMA PutKeyTyped ==
  ASSUME TypeOK, NEW q \in Requests, PutKey(q)
  PROVE  TypeOK'
<1> DEFINE s == drawn + 1
           c == [call[q] EXCEPT !.session = s]
<1>1. RequestsOK /\ WorldOK
  BY TypeParts
<1>2. s \in Sessions /\ call[q] \in Calls
  BY DEF PutKey, TypeOK
<1>3. c \in Calls
  BY <1>2, WithSession
<1>4. Moves(q, c)
  <2>1. call' = [call EXCEPT ![q] = c]
    BY DEF PutKey
  <2>2. CASE Goto(q, "sign")
    BY <2>1, <2>2 DEF Moves, Steps
  <2>3. CASE Answer(q, 400, Bare("error"))
    BY <2>1, <2>3, AnswerFinishes, Replies DEF Moves
  <2> QED BY <2>2, <2>3 DEF PutKey
<1>5. RequestsOK'
  BY <1>1, <1>3, <1>4, MovesTyped
<1>6. store' \in [Keepers -> [Sessions -> 0 .. SessionTTL]]
  <2>1. CASE Put(q, s)
    BY <1>1, <2>1, PutTyped
  <2>2. CASE UNCHANGED store
    BY <1>1, <2>2 DEF WorldOK
  <2> QED BY <2>1, <2>2 DEF PutKey
<1>7. drawn' \in 0 .. MaxSessions
  BY <1>1, <1>2 DEF PutKey, Sessions, WorldOK
<1>8. WorldOK'
  BY <1>1, <1>6, <1>7, SameLifetimes DEF PutKey, WorldOK, fixed, procVars, world
<1> QED BY <1>5, <1>8, TypeParts

LEMMA IssueTyped ==
  ASSUME WorldOK, NEW s, NEW t \in Tenants \union {None}, NEW b \in Bearers,
         NEW k \in Keks \union {None}, Issue(s, t, b, k)
  PROVE  /\ token' \in [Sessions -> Tokens \union {None}]
         /\ age' \in [Sessions -> 0 .. AgeCap]
<1>1. [tenant |-> t, bearer |-> b, kek |-> k] \in Tokens /\ 0 \in 0 .. AgeCap
  BY Lifetimes DEF Tokens
<1> QED BY <1>1 DEF WorldOK, Issue

LEMMA SignTyped ==
  ASSUME TypeOK, NEW q \in Requests, Sign(q)
  PROVE  TypeOK'
<1>1. RequestsOK /\ WorldOK
  BY TypeParts
<1>2. call[q] \in Calls
  BY DEF Sign, TypeOK
<1>3. Moves(q, call[q])
  BY <1>1, CallKept, AnswerFinishes, Replies DEF Sign, Moves
<1>4. RequestsOK'
  BY <1>1, <1>2, <1>3, MovesTyped
<1>5. token' \in [Sessions -> Tokens \union {None}] /\ age' \in [Sessions -> 0 .. AgeCap]
  BY <1>1, <1>2, IssueTyped DEF Sign, Calls
<1>6. WorldOK'
  BY <1>1, <1>5, SameLifetimes DEF Sign, WorldOK, fixed, procVars, world
<1> QED BY <1>4, <1>6, TypeParts

LEMMA SealTyped ==
  ASSUME TypeOK, NEW q \in Requests, Seal(q)
  PROVE  TypeOK'
<1> DEFINE s == drawn + 1
           c == call[q]
<1>1. RequestsOK /\ WorldOK
  BY TypeParts
<1>2. c \in Calls /\ s \in Sessions
  BY DEF Seal, TypeOK
<1>3. Moves(q, [c EXCEPT !.session = s])
  BY AnswerFinishes, Replies DEF Seal, Moves
<1>4. RequestsOK'
  BY <1>1, <1>2, <1>3, WithSession, MovesTyped
<1>5. token' \in [Sessions -> Tokens \union {None}] /\ age' \in [Sessions -> 0 .. AgeCap]
  <2>1. /\ c.tenant \in Tenants \union {None} /\ c.bearer \in Bearers
        /\ ring[c.proc].active \in Keks
    BY <1>1, <1>2 DEF Calls, WorldOK, Rings
  <2> QED BY <1>1, <2>1, IssueTyped DEF Seal
<1>6. drawn' \in 0 .. MaxSessions
  BY <1>1, <1>2 DEF Seal, Sessions, WorldOK
<1>7. WorldOK'
  BY <1>1, <1>5, <1>6, SameLifetimes DEF Seal, WorldOK, fixed, procVars, world
<1> QED BY <1>4, <1>7, TypeParts

LEMMA ReturnTyped ==
  ASSUME TypeOK, NEW q \in Requests, Return(q)
  PROVE  TypeOK'
<1>1. RequestsOK /\ WorldOK
  BY TypeParts
<1>2. NoReply \in [status : Nat, body : Bodies]
  BY Replies DEF NoReply
<1>3. RequestsOK'
  BY <1>1, <1>2 DEF Return, RequestsOK, Steps
<1>4. WorldOK'
  BY <1>1, WorldKept DEF Return
<1> QED BY <1>3, <1>4, TypeParts

LEMMA RestartTyped ==
  ASSUME TypeOK, NEW p \in Procs, NEW r \in NextRings(ring[p]), Restart(p, r)
  PROVE  TypeOK'
<1>1. RequestsOK /\ WorldOK
  BY TypeParts
<1>2. RequestsOK'
  <2>1. "idle" \in Steps /\ 0 \in 0 .. BodyTime
    BY Lifetimes DEF Steps
  <2> QED BY <1>1, <2>1 DEF RequestsOK, Restart, Active
<1>3. ring' \in [Procs -> Rings]
  BY <1>1 DEF WorldOK, Restart, NextRings
<1>4. store' \in [Keepers -> [Sessions -> 0 .. SessionTTL]]
  <2>1. [s \in Sessions |-> 0] \in [Sessions -> 0 .. SessionTTL]
    BY Lifetimes
  <2> QED BY <1>1, <2>1 DEF WorldOK, Restart
<1>5. restarts' \in 0 .. MaxRestarts
  BY <1>1, NumbersAssumption DEF WorldOK, Restart
<1>6. WorldOK'
  BY <1>1, <1>3, <1>4, <1>5, SameLifetimes DEF Restart, WorldOK, fixed, world
<1> QED BY <1>2, <1>6, TypeParts

LEMMA OutsideTyped ==
  ASSUME TypeOK, RefreshBearer \/ \E t \in Tenants : Leave(t)
  PROVE  TypeOK'
<1>1. RequestsOK /\ WorldOK
  BY TypeParts
<1>2. RequestsOK'
  BY <1>1 DEF RequestsOK, RefreshBearer, Leave
<1>3. WorldOK'
  BY <1>1, SameLifetimes, NumbersAssumption
     DEF WorldOK, RefreshBearer, Leave, Bearers, fixed, procVars, keyVars
<1> QED BY <1>2, <1>3, TypeParts

LEMMA TickTyped == TypeOK /\ Tick => TypeOK'
<1> SUFFICES ASSUME TypeOK, Tick PROVE TypeOK'
  OBVIOUS
<1>1. RequestsOK /\ WorldOK
  BY TypeParts
<1>2. waited' \in [Requests -> 0 .. BodyTime]
  BY <1>1, Lifetimes DEF RequestsOK, Tick
<1>3. RequestsOK'
  BY <1>1, <1>2 DEF RequestsOK, Tick
<1>4. store' \in [Keepers -> [Sessions -> 0 .. SessionTTL]]
  <2>1. ASSUME NEW k \in Keepers, NEW s \in Sessions
        PROVE  (IF store[k][s] = 0 THEN 0 ELSE store[k][s] - 1) \in 0 .. SessionTTL
    <3>1. store[k][s] \in 0 .. SessionTTL
      BY <1>1 DEF WorldOK
    <3> QED BY <3>1, Lifetimes
  <2>2. \A k \in Keepers :
          [s \in Sessions |-> IF store[k][s] = 0 THEN 0 ELSE store[k][s] - 1]
            \in [Sessions -> 0 .. SessionTTL]
    BY <2>1
  <2> QED BY <2>2 DEF Tick
<1>5. age' \in [Sessions -> 0 .. AgeCap]
  BY <1>1, Lifetimes DEF WorldOK, Tick
<1>6. lapse' \in [Tenants -> 0 .. LapseCap]
  BY <1>1, Lifetimes DEF WorldOK, Tick
<1>7. WorldOK'
  BY <1>1, <1>4, <1>5, <1>6, SameLifetimes DEF Tick, WorldOK, fixed, procVars
<1> QED BY <1>3, <1>7, TypeParts

LEMMA TypeStep == TypeOK /\ [Next]_vars => TypeOK'
<1> SUFFICES ASSUME TypeOK, [Next]_vars PROVE TypeOK'
  OBVIOUS
<1>1. CASE \E q \in Requests, p \in Procs, t \in HandshakeTenants : StartHandshake(q, p, t)
  <2>1. HandshakeTenants \subseteq Tenants \union {None}
    BY DEF HandshakeTenants
  <2> QED BY <1>1, <2>1, HandshakeTyped
<1>2. CASE \E q \in Requests, p \in Procs, route \in Routes : Arrive(q, p, route)
  BY <1>2, SentTyped, CallTyped DEF Arrive
<1>3. CASE \E q \in Requests : Step(q)
  BY <1>3, StepTyped, PutKeyTyped, SignTyped, SealTyped DEF Step
<1>4. CASE \E q \in Requests : Return(q)
  BY <1>4, ReturnTyped
<1>5. CASE \E p \in Procs : \E r \in NextRings(ring[p]) : Restart(p, r)
  BY <1>5, RestartTyped
<1>6. CASE RefreshBearer \/ \E t \in Tenants : Leave(t)
  BY <1>6, OutsideTyped
<1>7. CASE Tick
  BY <1>7, TickTyped
<1>8. CASE UNCHANGED vars
  BY <1>8, SameLifetimes DEF vars, TypeOK
<1> QED BY <1>1, <1>2, <1>3, <1>4, <1>5, <1>6, <1>7, <1>8 DEF Next

\* Every variable keeps its type: no key in a store has more than the TTL left,
\* and no request outlives the sending of its body and the request timeout.
THEOREM TypeCorrect == Spec => []TypeOK
BY TypeInit, TypeStep, PTL DEF Spec
-----------------------------------------------------------------------------
(* How requests move *)

\* Nothing happens to the request.
Still(r) ==
  /\ pc'[r] = pc[r] /\ call'[r] = call[r] /\ waited'[r] = waited[r]
  /\ reply'[r] = reply[r] /\ logged'[r] = logged[r]

\* A step of the handshake, of a call under way, or the return.
Shakes(q) == Consult(q) \/ PutKey(q) \/ Sign(q) \/ Seal(q)
Proceeds(q) == ReadKey(q) \/ Open(q) \/ Handle(q) \/ Encrypt(q)

LEMMA OthersStill ==
  ASSUME TypeOK, NEW q \in Requests, NEW r \in Requests, r # q,
         \/ \E p \in Procs, t \in HandshakeTenants : StartHandshake(q, p, t)
         \/ \E c \in Calls : StartCall(q, c)
         \/ Shakes(q) \/ Proceeds(q) \/ Return(q)
  PROVE  Still(r)
<1> USE DEF TypeOK, Still, Goto, Finish, Answer, Refuse
<1>1. CASE \E p \in Procs, t \in HandshakeTenants : StartHandshake(q, p, t)
  BY <1>1 DEF StartHandshake
<1>2. CASE \E c \in Calls : StartCall(q, c)
  BY <1>2 DEF StartCall, Onwards
<1>3. CASE Consult(q) \/ Sign(q) \/ Seal(q) \/ Return(q)
  BY <1>3 DEF Consult, Sign, Seal, Return
<1>4. CASE PutKey(q)
  BY <1>4 DEF PutKey
<1>5. CASE ReadKey(q)
  BY <1>5 DEF ReadKey, Onwards
<1>6. CASE Open(q)
  BY <1>6 DEF Open, DecryptValue
<1>7. CASE Handle(q) \/ Encrypt(q)
  BY <1>7 DEF Handle, Encrypt, SealFails
<1> QED BY <1>1, <1>2, <1>3, <1>4, <1>5, <1>6, <1>7 DEF Shakes, Proceeds

\* A handshake leads to no service; its steps are put, sign, consult and seal.
LEMMA HandshakeMoves ==
  ASSUME TypeOK, NEW q \in Requests,
         \/ \E p \in Procs, t \in HandshakeTenants : StartHandshake(q, p, t)
         \/ Shakes(q) \/ Return(q)
  PROVE  pc'[q] \in {"put", "consult", "sign", "seal", "done", "idle"}
<1> USE DEF TypeOK, Goto, Finish, Answer, Refuse
<1>1. CASE \E p \in Procs, t \in HandshakeTenants : StartHandshake(q, p, t)
  BY <1>1 DEF StartHandshake
<1>2. CASE Consult(q) \/ Sign(q) \/ Seal(q) \/ Return(q)
  BY <1>2 DEF Consult, Sign, Seal, Return
<1>3. CASE PutKey(q)
  BY <1>3 DEF PutKey
<1> QED BY <1>1, <1>2, <1>3 DEF Shakes

\* A call under way keeps what it asked, until it is answered.
LEMMA CallMoves ==
  ASSUME TypeOK, NEW q \in Requests, Proceeds(q)
  PROVE  /\ pc[q] \in {"key", "open", "handler", "encrypt"} /\ call'[q] = call[q]
         /\ \/ pc'[q] = "done"
            \/ pc'[q] \in {"open", "handler", "encrypt"} /\ waited'[q] = waited[q]
<1> USE DEF TypeOK, Goto, Finish, Answer, Refuse
<1>1. CASE ReadKey(q)
  BY <1>1 DEF ReadKey, Onwards
<1>2. CASE Open(q)
  BY <1>2 DEF Open, DecryptValue
<1>3. CASE Handle(q) \/ Encrypt(q)
  BY <1>3 DEF Handle, Encrypt, SealFails
<1> QED BY <1>1, <1>2, <1>3 DEF Proceeds

\* A call that is let in names a session that was young enough, and in the
\* stateless mode the tenant of the session.
LEMMA CallEnters ==
  ASSUME TypeOK, NEW q \in Requests, NEW c \in Calls, StartCall(q, c),
         c.session # None => token[c.session] # None
  PROVE  /\ call'[q] = c
         /\ pc'[q] \in {"key", "open", "handler", "done"}
         /\ Serving(q)' =>
              /\ waited'[q] = waited[q]
              /\ c.session \in Sessions /\ token[c.session] # None
              /\ c.access = c.session /\ age[c.session] < TokenLife
              /\ manager = "stateless" =>
                   c.tenant = token[c.session].tenant /\ c.tenant # None
<1>1. call'[q] = c
  BY DEF StartCall, TypeOK
<1>2. pc'[q] \in {"key", "open", "handler", "done"}
  BY DEF StartCall, TypeOK, Onwards, Goto, Refuse, Answer, Finish
<1>3. c.session \in Sessions \union {None}
  BY DEF Calls
<1>4. ASSUME Serving(q)'
      PROVE  /\ waited'[q] = waited[q]
             /\ c.session # None /\ c.access = c.session /\ age[c.session] < TokenLife
             /\ manager = "stateless" =>
                  c.tenant = token[c.session].tenant /\ c.tenant # None
  <2>1. Resolve(c.route) # None /\ pc'[q] # "done"
    BY <1>1, <1>4 DEF Serving, Resolve
  <2>2. ~ Refuse(q, "CRYPTO_SESSION_INVALID")
    BY <2>1 DEF TypeOK, Refuse, Answer, Finish
  <2> QED BY <2>1, <2>2 DEF StartCall, Onwards, Goto, TypeOK, VerifyAccessToken,
             ResolvesStateless, TenantNamed
<1> QED BY <1>1, <1>2, <1>3, <1>4

\* Sessions are sent by clients that hold their tokens.
LEMMA SentHeld ==
  ASSUME NEW route \in Routes, NEW s \in SentSessions(route), s # None
  PROVE  token[s] # None
BY DEF SentSessions, Held

\* Restarting cuts requests off and leaves the rest still.
LEMMA RestartMoves ==
  ASSUME TypeOK, NEW p \in Procs, NEW r \in Rings, Restart(p, r), NEW q \in Requests
  PROVE  Still(q) \/ pc'[q] = "idle"
BY DEF Restart, TypeOK, Still

\* The steps, as the proofs below split them.
LEMMA NextCases ==
  ASSUME TypeOK, Next
  PROVE  \/ \E q \in Requests, p \in Procs, t \in HandshakeTenants : StartHandshake(q, p, t)
         \/ \E q \in Requests, c \in Calls :
              (c.session # None => token[c.session] # None) /\ StartCall(q, c)
         \/ \E q \in Requests : Shakes(q)
         \/ \E q \in Requests : Proceeds(q)
         \/ \E q \in Requests : Return(q)
         \/ \E p \in Procs, r \in Rings : Restart(p, r)
         \/ RefreshBearer
         \/ \E t \in Tenants : Leave(t)
         \/ Tick
<1>1. CASE \E q \in Requests, p \in Procs, route \in Routes : Arrive(q, p, route)
  <2>1. PICK q \in Requests, p \in Procs, route \in Routes : Arrive(q, p, route)
    BY <1>1
  <2>2. PICK s \in SentSessions(route), b \in SentBodies(route) :
          \E a \in SentAccess(s), t \in SentTenants(s) :
            StartCall(q, [proc |-> p, route |-> route, session |-> s, access |-> a,
                          bearer |-> bearer, tenant |-> t, body |-> b])
    BY <2>1 DEF Arrive
  <2>3. PICK a \in SentAccess(s), t \in SentTenants(s) :
          StartCall(q, [proc |-> p, route |-> route, session |-> s, access |-> a,
                        bearer |-> bearer, tenant |-> t, body |-> b])
    BY <2>2
  <2> DEFINE c == [proc |-> p, route |-> route, session |-> s, access |-> a,
                   bearer |-> bearer, tenant |-> t, body |-> b]
  <2>4. c \in Calls /\ (c.session # None => token[c.session] # None)
    BY SentTyped, SentHeld
  <2> QED BY <2>3, <2>4
<1>2. CASE \E p \in Procs : \E r \in NextRings(ring[p]) : Restart(p, r)
  BY <1>2 DEF NextRings, TypeOK
<1>3. CASE \E q \in Requests : Step(q)
  BY <1>3 DEF Step, Shakes, Proceeds
<1> QED BY <1>1, <1>2, <1>3 DEF Next
-----------------------------------------------------------------------------
(* Timely *)

LEMMA TimelyInit == Init => Timely
BY Lifetimes DEF Init, Timely

LEMMA TimelyStep == TypeOK /\ Timely /\ [Next]_vars => Timely'
<1> SUFFICES ASSUME TypeOK, Timely, [Next]_vars, NEW q \in Requests,
                    pc'[q] \notin {"open", "handler", "encrypt"}
             PROVE  waited'[q] <= ReqTime
  BY DEF Timely
<1>0. waited[q] \in Nat
  BY Lifetimes DEF TypeOK
<1>1. ASSUME pc[q] \notin {"open", "handler", "encrypt"}, waited'[q] = waited[q]
      PROVE  waited'[q] <= ReqTime
  BY <1>1 DEF Timely
<1>2. CASE waited'[q] = 0
  BY <1>2, Lifetimes
<1>3. CASE Still(q)
  BY <1>1, <1>3 DEF Still
<1>4. ASSUME NEW r \in Requests,
             \/ \E p \in Procs, t \in HandshakeTenants : StartHandshake(r, p, t)
             \/ Shakes(r) \/ Return(r)
      PROVE  waited'[q] <= ReqTime
  <2>1. CASE r # q
    BY <1>3, <1>4, <2>1, OthersStill
  <2>2. CASE r = q
    <3>1. pc[q] \notin {"open", "handler", "encrypt"}
      BY <1>4, <2>2 DEF StartHandshake, Shakes, Consult, PutKey, Sign, Seal, Return
    <3>2. waited'[q] \in {0, waited[q]}
      BY <1>4, <2>2 DEF StartHandshake, Shakes, Consult, PutKey, Sign, Seal, Return, Goto,
         Refuse, Answer, Finish, TypeOK
    <3> QED BY <1>1, <1>2, <3>1, <3>2
  <2> QED BY <2>1, <2>2
<1>5. ASSUME NEW r \in Requests, Proceeds(r)
      PROVE  waited'[q] <= ReqTime
  <2>1. CASE r # q
    BY <1>3, <1>5, <2>1, OthersStill
  <2>2. CASE r = q
    <3>1. pc'[q] = "done"
      BY <1>5, <2>2, CallMoves
    <3>2. waited'[q] = 0
      BY <1>5, <2>2, <3>1 DEF Proceeds, ReadKey, Onwards, Open, DecryptValue, Handle, Encrypt,
         SealFails, Goto, Refuse, Answer, Finish, TypeOK
    <3> QED BY <1>2, <3>2
  <2> QED BY <2>1, <2>2
<1>6. ASSUME NEW r \in Requests, NEW c \in Calls, StartCall(r, c)
      PROVE  waited'[q] <= ReqTime
  <2>1. CASE r # q
    BY <1>3, <1>6, <2>1, OthersStill
  <2>2. CASE r = q
    <3>1. pc[q] = "idle" /\ waited'[q] \in {0, waited[q]}
      BY <1>6, <2>2 DEF StartCall, Onwards, Goto, Refuse, Answer, Finish, TypeOK
    <3> QED BY <1>1, <1>2, <3>1
  <2> QED BY <2>1, <2>2
<1>7. ASSUME NEW p \in Procs, NEW r \in Rings, Restart(p, r)
      PROVE  waited'[q] <= ReqTime
  <2>1. Still(q) \/ waited'[q] = 0
    BY <1>7 DEF Restart, TypeOK, Still
  <2> QED BY <1>2, <1>3, <2>1
<1>8. CASE Tick
  <2>1. pc[q] \notin {"open", "handler", "encrypt"}
    BY <1>8 DEF Tick
  <2>2. waited[q] <= ReqTime
    BY <2>1 DEF Timely
  <2>3. CASE Active(q)
    <3>1. waited[q] < ReqTime /\ waited'[q] = waited[q] + 1
      BY <1>8, <2>1, <2>3 DEF Tick, ReadsBody
    <3> QED BY <1>0, <3>1, Lifetimes
  <2>4. CASE ~ Active(q)
    BY <1>8, <2>2, <2>4 DEF Tick
  <2> QED BY <2>3, <2>4
<1>9. CASE RefreshBearer \/ (\E t \in Tenants : Leave(t)) \/ UNCHANGED vars
  BY <1>3, <1>9 DEF RefreshBearer, Leave, vars, Still
<1> QED BY <1>4, <1>5, <1>6, <1>7, <1>8, <1>9, NextCases
-----------------------------------------------------------------------------
(* SessionsEnd *)

\* Only time makes a session older, and none is taken back.
LEMMA SessionsStay ==
  ASSUME TypeOK, [Next]_vars, ~ Tick, NEW s \in Sessions, token[s] # None
  PROVE  token'[s] # None /\ age'[s] <= age[s]
<1>1. age[s] \in 0 .. AgeCap
  BY DEF TypeOK
<1>2. ASSUME NEW s2, NEW t, NEW b, NEW k, Issue(s2, t, b, k),
             [tenant |-> t, bearer |-> b, kek |-> k] \in Tokens
      PROVE  token'[s] # None /\ age'[s] <= age[s]
  BY <1>1, <1>2, Lifetimes, NamesAssumption DEF Issue, TypeOK
<1>3. CASE UNCHANGED <<token, age>>
  BY <1>1, <1>3
<1>4. ASSUME NEW q \in Requests, Sign(q)
      PROVE  token'[s] # None /\ age'[s] <= age[s]
  <2>1. call[q].bearer \in Bearers
    BY <1>4 DEF Sign, TypeOK, Calls
  <2>2. [tenant |-> None, bearer |-> call[q].bearer, kek |-> None] \in Tokens
    BY <2>1 DEF Tokens
  <2> QED BY <1>2, <1>4, <2>2 DEF Sign
<1>5. ASSUME NEW q \in Requests, Seal(q)
      PROVE  token'[s] # None /\ age'[s] <= age[s]
  <2>1. /\ call[q].tenant \in Tenants \union {None} /\ call[q].bearer \in Bearers
        /\ ring[call[q].proc].active \in Keks
    BY <1>5 DEF Seal, TypeOK, Calls, Rings
  <2>2. [tenant |-> call[q].tenant, bearer |-> call[q].bearer,
         kek |-> ring[call[q].proc].active] \in Tokens
    BY <2>1 DEF Tokens
  <2> QED BY <1>2, <1>5, <2>2 DEF Seal
<1>6. \/ UNCHANGED <<token, age>>
      \/ \E q \in Requests : Sign(q) \/ Seal(q)
  <2> USE DEF keyVars
  <2>1. CASE UNCHANGED vars
    BY <2>1 DEF vars
  <2>2. CASE \E q \in Requests, p \in Procs, t \in HandshakeTenants : StartHandshake(q, p, t)
    BY <2>2 DEF StartHandshake
  <2>3. CASE \E q \in Requests, c \in Calls : StartCall(q, c)
    BY <2>3 DEF StartCall
  <2>4. CASE \E q \in Requests : Shakes(q)
    BY <2>4 DEF Shakes, Consult, PutKey
  <2>5. CASE \E q \in Requests : Proceeds(q)
    BY <2>5 DEF Proceeds, ReadKey, Open, Handle, Encrypt
  <2>6. CASE \E q \in Requests : Return(q)
    BY <2>6 DEF Return
  <2>7. CASE \E p \in Procs, r \in Rings : Restart(p, r)
    BY <2>7 DEF Restart
  <2>8. CASE RefreshBearer \/ \E t \in Tenants : Leave(t)
    BY <2>8 DEF RefreshBearer, Leave
  <2> QED BY <2>1, <2>2, <2>3, <2>4, <2>5, <2>6, <2>7, <2>8, NextCases
<1> QED BY <1>3, <1>4, <1>5, <1>6

\* The manager and the configured lifetimes never change.
LEMMA Fixed ==
  ASSUME TypeOK, [Next]_vars
  PROVE  /\ manager' = manager
         /\ SessionTTL' = SessionTTL /\ TokenLife' = TokenLife /\ AgeCap' = AgeCap
<1>1. manager' = manager
  <2> USE DEF fixed
  <2>1. CASE UNCHANGED vars
    BY <2>1 DEF vars
  <2>2. CASE \E q \in Requests, p \in Procs, t \in HandshakeTenants : StartHandshake(q, p, t)
    BY <2>2 DEF StartHandshake
  <2>3. CASE \E q \in Requests, c \in Calls : StartCall(q, c)
    BY <2>3 DEF StartCall
  <2>4. CASE \E q \in Requests : Shakes(q)
    BY <2>4 DEF Shakes, Consult, PutKey, Sign, Seal
  <2>5. CASE \E q \in Requests : Proceeds(q)
    BY <2>5 DEF Proceeds, ReadKey, Open, Handle, Encrypt
  <2>6. CASE \E q \in Requests : Return(q)
    BY <2>6 DEF Return
  <2>7. CASE \E p \in Procs, r \in Rings : Restart(p, r)
    BY <2>7 DEF Restart
  <2>8. CASE Tick \/ RefreshBearer \/ \E t \in Tenants : Leave(t)
    BY <2>8 DEF RefreshBearer, Leave, Tick
  <2> QED BY <2>1, <2>2, <2>3, <2>4, <2>5, <2>6, <2>7, <2>8, NextCases
<1> QED BY <1>1, SameLifetimes

\* What Served says of one request.
ServedAt(q) ==
  Serving(q) => /\ call[q].session \in Sessions
                /\ token[call[q].session] # None
                /\ age[call[q].session] < TokenLife + waited[q]

\* A request still served as it was, while no time passes.
LEMMA ServedKept ==
  ASSUME TypeOK, [Next]_vars, ~ Tick, NEW q \in Requests, ServedAt(q),
         Serving(q)' => Serving(q) /\ call'[q] = call[q] /\ waited'[q] = waited[q]
  PROVE  ServedAt(q)'
<1> SUFFICES ASSUME Serving(q)'
             PROVE  /\ call'[q].session \in Sessions
                    /\ token'[call'[q].session] # None
                    /\ age'[call'[q].session] < TokenLife' + waited'[q]
  BY DEF ServedAt
<1> DEFINE s == call[q].session
<1>1. call'[q] = call[q] /\ waited'[q] = waited[q] /\ s \in Sessions /\ token[s] # None
      /\ age[s] < TokenLife + waited[q]
  BY DEF ServedAt
<1>2. token'[s] # None /\ age'[s] <= age[s]
  BY <1>1, SessionsStay
<1>3. age[s] \in Nat /\ age'[s] \in Nat /\ waited[q] \in Nat
  BY <1>1, TypeStep DEF TypeOK
<1> QED BY <1>1, <1>2, <1>3, Lifetimes, Fixed

LEMMA StillServed ==
  ASSUME NEW q, Still(q) \/ pc'[q] \notin {"key", "open", "handler", "encrypt"}
  PROVE  Serving(q)' => Serving(q) /\ call'[q] = call[q] /\ waited'[q] = waited[q]
BY DEF Serving, Still, Resolve

LEMMA ServedStep == TypeOK /\ Served /\ [Next]_vars => Served'
<1> SUFFICES ASSUME TypeOK, Served, [Next]_vars, NEW q \in Requests
             PROVE  ServedAt(q)'
  BY DEF Served, ServedAt
<1>0. ServedAt(q)
  BY DEF Served, ServedAt
<1>1. ASSUME Serving(q)' => Serving(q) /\ call'[q] = call[q] /\ waited'[q] = waited[q],
             ~ Tick
      PROVE  ServedAt(q)'
  BY <1>0, <1>1, ServedKept
<1>2. CASE Tick
  <2>1. call' = call /\ token' = token /\ pc' = pc
    BY <1>2 DEF Tick, keyVars
  <2>2. Serving(q)' => Serving(q) /\ waited'[q] = waited[q] + 1
    BY <1>2, <2>1 DEF Serving, Tick, Active, TypeOK, Resolve
  <2>3. ASSUME NEW s \in Sessions PROVE age'[s] <= age[s] + 1 /\ age[s] \in Nat /\ age'[s] \in Nat
    BY <1>2, TypeStep DEF Tick, TypeOK
  <2>4. waited[q] \in Nat
    BY DEF TypeOK
  <2> QED BY <1>0, <2>1, <2>2, <2>3, <2>4, Lifetimes, Fixed DEF ServedAt
<1>3. CASE ~ Tick /\ UNCHANGED vars
  BY <1>1, <1>3, StillServed DEF vars, Still
<1>4. ASSUME NEW r \in Requests, ~ Tick,
             \/ \E p \in Procs, t \in HandshakeTenants : StartHandshake(r, p, t)
             \/ Shakes(r) \/ Return(r)
      PROVE  ServedAt(q)'
  <2>1. r # q => Still(q)
    BY <1>4, OthersStill
  <2>2. r = q => pc'[q] \notin {"key", "open", "handler", "encrypt"}
    BY <1>4, HandshakeMoves
  <2> QED BY <1>1, <1>4, <2>1, <2>2, StillServed
<1>5. ASSUME NEW r \in Requests, Proceeds(r), ~ Tick
      PROVE  ServedAt(q)'
  <2>1. CASE r # q
    BY <1>1, <1>5, <2>1, OthersStill, StillServed
  <2>2. CASE r = q
    <3>1. Serving(q)' => Serving(q) /\ call'[q] = call[q] /\ waited'[q] = waited[q]
      BY <1>5, <2>2, CallMoves DEF Serving, Resolve
    <3> QED BY <1>1, <1>5, <3>1
  <2> QED BY <2>1, <2>2
<1>6. ASSUME NEW r \in Requests, NEW c \in Calls, ~ Tick,
             c.session # None => token[c.session] # None, StartCall(r, c)
      PROVE  ServedAt(q)'
  <2>1. CASE r # q
    BY <1>1, <1>6, <2>1, OthersStill, StillServed
  <2>2. CASE r = q
    <3> SUFFICES ASSUME Serving(q)'
                 PROVE  /\ call'[q].session \in Sessions
                        /\ token'[call'[q].session] # None
                        /\ age'[call'[q].session] < TokenLife' + waited'[q]
      BY DEF ServedAt
    <3>1. /\ call'[q] = c /\ waited'[q] = waited[q] /\ c.session \in Sessions
          /\ token[c.session] # None /\ age[c.session] < TokenLife
      BY <1>6, <2>2, CallEnters
    <3>2. token'[c.session] # None /\ age'[c.session] <= age[c.session]
      BY <1>6, <3>1, SessionsStay
    <3>3. age[c.session] \in Nat /\ age'[c.session] \in Nat /\ waited[q] \in Nat
      BY <3>1, TypeStep DEF TypeOK
    <3> QED BY <3>1, <3>2, <3>3, Lifetimes, Fixed
  <2> QED BY <2>1, <2>2
<1>7. ASSUME NEW p \in Procs, NEW r \in Rings, Restart(p, r), ~ Tick
      PROVE  ServedAt(q)'
  BY <1>1, <1>7, RestartMoves, StillServed
<1>8. CASE ~ Tick /\ (RefreshBearer \/ \E t \in Tenants : Leave(t))
  <2>1. Still(q)
    BY <1>8 DEF Still, RefreshBearer, Leave
  <2> QED BY <1>1, <1>8, <2>1, StillServed
<1> QED BY <1>2, <1>3, <1>4, <1>5, <1>6, <1>7, <1>8, NextCases

LEMMA LifeBound ==
  TokenLife <= IF manager = "stateless" THEN HardMaxTTL + Skew ELSE SessionTTL
BY NumbersAssumption DEF TokenLife, SessionTTL, ClampedTTL

LEMMA ServedEnds == TypeOK /\ Served => SessionsEnd
<1> SUFFICES ASSUME TypeOK, Served, NEW q \in Requests, Serving(q)
             PROVE  age[call[q].session] <
                      waited[q] + IF manager = "stateless" THEN HardMaxTTL + Skew ELSE SessionTTL
  BY DEF SessionsEnd
<1>1. /\ call[q].session \in Sessions
      /\ age[call[q].session] < TokenLife + waited[q]
  BY DEF Served
<1>2. age[call[q].session] \in Nat /\ waited[q] \in Nat
  BY <1>1 DEF TypeOK
<1> QED BY <1>1, <1>2, LifeBound, Lifetimes, NumbersAssumption

LEMMA ServedInit == Init => Served
BY DEF Init, Served, Serving

\* No request is served under a session past its life, whatever TTL is configured.
THEOREM SessionsEndAlways == Spec => []SessionsEnd
<1>1. Init => TypeOK /\ Served
  BY TypeInit, ServedInit
<1>2. TypeOK /\ Served /\ [Next]_vars => TypeOK' /\ Served'
  BY TypeStep, ServedStep
<1> QED BY <1>1, <1>2, ServedEnds, PTL DEF Spec
-----------------------------------------------------------------------------
(* LifetimesAgree *)

\* KeysMatchTokens for one session, and for one request.
SessionAgrees(s) ==
  token[s] # None =>
    /\ store[Shared][s] > 0 => store[Shared][s] + age[s] <= SessionTTL
    /\ age[s] + ReqTime < SessionTTL => store[Shared][s] + age[s] + ReqTime >= SessionTTL

SignAgrees(q) ==
  pc[q] = "sign" => store[Shared][call[q].session] + waited[q] >= SessionTTL

LEMMA KeysMatchTokensParts ==
  KeysMatchTokens <=>
    /\ DrawnFirst
    /\ manager = "redis" => \A s \in Sessions : SessionAgrees(s)
    /\ manager = "redis" => \A q \in Requests : SignAgrees(q)
BY DEF KeysMatchTokens, LifetimesAgree, SessionAgrees, SignAgrees

LEMMA KeysInit == Init => KeysMatchTokens
BY DEF Init, KeysMatchTokens, DrawnFirst, LifetimesAgree

LEMMA StoreTyped ==
  ASSUME TypeOK
  PROVE  /\ \A s \in Sessions : store[Shared][s] \in 0 .. SessionTTL /\ age[s] \in 0 .. AgeCap
         /\ \A q \in Requests : waited[q] \in 0 .. BodyTime
         /\ drawn \in 0 .. MaxSessions
BY DEF TypeOK, Keepers

LEMMA SigningTyped ==
  ASSUME TypeOK, DrawnFirst, NEW q \in Requests, pc[q] = "sign"
  PROVE  call[q].session \in Sessions
BY NumbersAssumption DEF DrawnFirst, Sessions, TypeOK

LEMMA KeysElse ==
  ASSUME TypeOK, KeysMatchTokens, UNCHANGED <<manager, drawn, store, token, age>>,
         \A q \in Requests : pc'[q] = "sign" => Still(q)
  PROVE  KeysMatchTokens'
BY SameLifetimes DEF KeysMatchTokens, DrawnFirst, LifetimesAgree, Still

LEMMA KeysTick ==
  ASSUME TypeOK, KeysMatchTokens, Tick
  PROVE  KeysMatchTokens'
<1>1. /\ manager' = manager /\ SessionTTL' = SessionTTL
      /\ token' = token /\ drawn' = drawn /\ pc' = pc /\ call' = call
  BY SameLifetimes DEF Tick, fixed
<1>2. DrawnFirst'
  BY <1>1 DEF KeysMatchTokens, DrawnFirst
<1>3. ASSUME NEW s \in Sessions
      PROVE  store'[Shared][s] = IF store[Shared][s] = 0 THEN 0 ELSE store[Shared][s] - 1
  BY DEF Tick, Keepers
<1>4. ASSUME manager = "redis", NEW s \in Sessions
      PROVE  SessionAgrees(s)'
  <2>1. SessionAgrees(s)
    BY <1>4, KeysMatchTokensParts
  <2>2. token[s] # None =>
          age'[s] = IF age[s] < AgeCap THEN age[s] + 1 ELSE age[s]
    BY DEF Tick, TypeOK
  <2> QED BY <1>1, <1>3, <2>1, <2>2, StoreTyped, Lifetimes DEF SessionAgrees
<1>5. ASSUME manager = "redis", NEW q \in Requests
      PROVE  SignAgrees(q)'
  <2> SUFFICES ASSUME pc[q] = "sign"
               PROVE  store'[Shared][call[q].session] + waited'[q] >= SessionTTL
    BY <1>1 DEF SignAgrees
  <2>1. call[q].session \in Sessions
    BY SigningTyped DEF KeysMatchTokens
  <2>2. store[Shared][call[q].session] + waited[q] >= SessionTTL
    BY <1>5, KeysMatchTokensParts DEF SignAgrees
  <2>3. waited'[q] = waited[q] + 1
    BY DEF Tick, Active
  <2> QED BY <1>3, <2>1, <2>2, <2>3, StoreTyped, Lifetimes
<1> QED BY <1>1, <1>2, <1>4, <1>5, KeysMatchTokensParts DEF KeysMatchTokens, LifetimesAgree,
           SessionAgrees, SignAgrees

LEMMA KeysPut ==
  ASSUME TypeOK, KeysMatchTokens, NEW q \in Requests, PutKey(q)
  PROVE  KeysMatchTokens'
<1> DEFINE n == drawn + 1
<1>1. /\ manager' = manager /\ SessionTTL' = SessionTTL /\ token' = token /\ age' = age
      /\ drawn' = n /\ n \in Sessions
      /\ call' = [call EXCEPT ![q].session = n]
  BY SameLifetimes DEF PutKey, fixed
<1>2. token[n] = None
  BY <1>1, StoreTyped DEF KeysMatchTokens, DrawnFirst
<1>3. call'[q].session = n
  <2>1. call[q] \in Calls
    BY DEF PutKey, TypeOK
  <2> QED BY <1>1, <2>1 DEF TypeOK, Calls
<1>4. \A r \in Requests : r # q => Still(r)
  BY OthersStill DEF Shakes
<1>5. DrawnFirst'
  <2>1. \A s \in Sessions : token'[s] # None => s <= drawn'
    BY <1>1, StoreTyped DEF KeysMatchTokens, DrawnFirst, Sessions
  <2>2. ASSUME NEW r \in Requests, pc'[r] = "sign"
        PROVE  call'[r].session \in 1 .. drawn'
    BY <1>1, <1>3, <1>4, <2>2, StoreTyped DEF KeysMatchTokens, DrawnFirst, Still
  <2> QED BY <2>1, <2>2 DEF DrawnFirst
<1>6. ASSUME manager = "redis"
      PROVE  /\ \A s \in Sessions : s # n => store'[Shared][s] = store[Shared][s]
             /\ Goto(q, "sign") => store'[Shared][n] = SessionTTL
  <2>1. CASE Put(q, n)
    BY <1>1, <1>6, <2>1 DEF Put, Keeper, TypeOK, Keepers
  <2>2. CASE UNCHANGED store /\ Answer(q, 400, Bare("error"))
    BY <2>2 DEF Answer, Finish, Goto, TypeOK
  <2> QED BY <2>1, <2>2 DEF PutKey
<1>7. ASSUME manager = "redis", NEW s \in Sessions
      PROVE  SessionAgrees(s)'
  <2>1. SessionAgrees(s)
    BY <1>7, KeysMatchTokensParts
  <2> QED BY <1>1, <1>2, <1>6, <1>7, <2>1 DEF SessionAgrees
<1>8. ASSUME manager = "redis", NEW r \in Requests, pc'[r] = "sign"
      PROVE  store'[Shared][call'[r].session] + waited'[r] >= SessionTTL
  <2>1. CASE r = q
    <3>1. Goto(q, "sign")
      BY <1>8, <2>1 DEF PutKey, Answer, Finish, TypeOK
    <3>2. waited'[q] = waited[q]
      BY <3>1 DEF Goto
    <3> QED BY <1>3, <1>6, <1>8, <2>1, <3>1, <3>2, StoreTyped, Lifetimes
  <2>2. CASE r # q
    <3>1. Still(r)
      BY <2>2, <1>4
    <3>2. call[r].session \in Sessions /\ call[r].session # n
      BY <1>8, <3>1, SigningTyped, StoreTyped DEF Still, KeysMatchTokens, DrawnFirst
    <3>3. store[Shared][call[r].session] + waited[r] >= SessionTTL
      BY <1>8, <3>1, KeysMatchTokensParts DEF SignAgrees, Still
    <3> QED BY <1>6, <1>8, <3>1, <3>2, <3>3 DEF Still
  <2> QED BY <2>1, <2>2
<1> QED BY <1>1, <1>5, <1>7, <1>8 DEF KeysMatchTokens, LifetimesAgree, SessionAgrees

LEMMA KeysSign ==
  ASSUME TypeOK, Timely, KeysMatchTokens, NEW q \in Requests, Sign(q)
  PROVE  KeysMatchTokens'
<1> DEFINE n == call[q].session
<1>1. /\ manager' = manager /\ SessionTTL' = SessionTTL /\ store' = store
      /\ drawn' = drawn /\ call' = call /\ pc[q] = "sign"
  BY SameLifetimes DEF Sign, fixed
<1>2. n \in Sessions /\ n \in 1 .. drawn
  BY <1>1, SigningTyped DEF KeysMatchTokens, DrawnFirst
<1>3. /\ age' = [age EXCEPT ![n] = 0]
      /\ \A s \in Sessions : s # n => token'[s] = token[s]
  BY DEF Sign, Issue, TypeOK
<1>4. \A r \in Requests : pc'[r] = "sign" => Still(r)
  BY OthersStill DEF Shakes, Sign, Answer, Finish, TypeOK
<1>5. DrawnFirst'
  BY <1>1, <1>2, <1>3, <1>4 DEF KeysMatchTokens, DrawnFirst, Still
<1>6. ASSUME manager = "redis", NEW s \in Sessions
      PROVE  SessionAgrees(s)'
  <2>1. CASE s = n
    <3>1. store[Shared][n] + waited[q] >= SessionTTL
      BY <1>1, <1>6, KeysMatchTokensParts DEF SignAgrees
    <3>2. age'[n] = 0 /\ waited[q] <= ReqTime
      BY <1>1, <1>2, <1>3 DEF TypeOK, Timely
    <3> QED BY <1>1, <1>2, <2>1, <3>1, <3>2, StoreTyped, Lifetimes DEF SessionAgrees
  <2>2. CASE s # n
    <3>1. age'[s] = age[s] /\ SessionAgrees(s)
      BY <1>3, <1>6, <2>2, KeysMatchTokensParts DEF TypeOK
    <3> QED BY <1>1, <1>3, <2>2, <3>1 DEF SessionAgrees
  <2> QED BY <2>1, <2>2
<1>7. ASSUME manager = "redis", NEW r \in Requests
      PROVE  SignAgrees(r)'
  BY <1>1, <1>4, <1>7, KeysMatchTokensParts DEF SignAgrees, Still
<1> QED BY <1>1, <1>5, <1>6, <1>7 DEF KeysMatchTokens, LifetimesAgree, SessionAgrees, SignAgrees

\* In the stateless mode only the order of drawing is at stake.
SealsStateless == \A q \in Requests : pc[q] \in {"consult", "seal"} => manager = "stateless"

LEMMA KeysSeal ==
  ASSUME TypeOK, KeysMatchTokens, NEW q \in Requests, Seal(q), manager = "stateless"
  PROVE  KeysMatchTokens'
<1>1. manager' = manager /\ drawn' = drawn + 1
  BY DEF Seal, fixed
<1>2. \A s \in Sessions : s # drawn + 1 => token'[s] = token[s]
  BY DEF Seal, Issue, TypeOK
<1>3. \A r \in Requests : pc'[r] = "sign" => Still(r)
  BY OthersStill DEF Shakes, Seal, Answer, Finish, TypeOK
<1>4. DrawnFirst'
  BY <1>1, <1>2, <1>3, StoreTyped DEF KeysMatchTokens, DrawnFirst, Still, Sessions
<1> QED BY <1>1, <1>4 DEF KeysMatchTokens, LifetimesAgree

LEMMA KeysRestart ==
  ASSUME TypeOK, KeysMatchTokens, NEW p \in Procs, NEW r \in Rings, Restart(p, r)
  PROVE  KeysMatchTokens'
<1>1. /\ manager' = manager /\ SessionTTL' = SessionTTL /\ drawn' = drawn
      /\ token' = token /\ age' = age
  BY SameLifetimes DEF Restart, fixed
<1>2. store'[Shared] = store[Shared]
  BY NamesAssumption DEF Restart, TypeOK, Keepers
<1>3. \A q \in Requests : pc'[q] = "sign" => Still(q)
  BY RestartMoves
<1> QED BY <1>1, <1>2, <1>3 DEF KeysMatchTokens, DrawnFirst, LifetimesAgree, Still

LEMMA SealsStatelessStep ==
  TypeOK /\ SealsStateless /\ [Next]_vars => SealsStateless'
<1> SUFFICES ASSUME TypeOK, SealsStateless, [Next]_vars, NEW q \in Requests,
                    pc'[q] \in {"consult", "seal"}
             PROVE  manager' = "stateless"
  BY DEF SealsStateless
<1>1. manager' = manager
  BY Fixed
<1>2. CASE Still(q)
  BY <1>1, <1>2 DEF Still, SealsStateless
<1>3. ASSUME NEW r \in Requests,
             \/ \E p \in Procs, t \in HandshakeTenants : StartHandshake(r, p, t)
             \/ Shakes(r) \/ Return(r)
      PROVE  manager' = "stateless"
  <2>1. CASE r # q
    BY <1>2, <1>3, <2>1, OthersStill
  <2>2. CASE r = q /\ Shakes(q)
    BY <1>1, <2>2 DEF Shakes, Consult, PutKey, Sign, Seal, SealsStateless, TypeOK, Goto,
       Answer, Refuse, Finish
  <2>3. CASE r = q /\ Return(q)
    BY <2>3 DEF Return, TypeOK
  <2>4. CASE r = q /\ \E p \in Procs, t \in HandshakeTenants : StartHandshake(q, p, t)
    BY <1>1, <2>4 DEF StartHandshake, TypeOK, Goto, Answer, Refuse, Finish
  <2> QED BY <1>3, <2>1, <2>2, <2>3, <2>4
<1>4. ASSUME NEW r \in Requests, Proceeds(r) PROVE manager' = "stateless"
  BY <1>2, <1>4, OthersStill, CallMoves
<1>5. ASSUME NEW r \in Requests, NEW c \in Calls,
             c.session # None => token[c.session] # None, StartCall(r, c)
      PROVE  manager' = "stateless"
  BY <1>2, <1>5, OthersStill, CallEnters
<1>6. ASSUME NEW p \in Procs, NEW r \in Rings, Restart(p, r) PROVE manager' = "stateless"
  BY <1>2, <1>6, RestartMoves
<1>7. CASE Tick \/ RefreshBearer \/ (\E t \in Tenants : Leave(t)) \/ UNCHANGED vars
  BY <1>1, <1>7 DEF Tick, RefreshBearer, Leave, vars, SealsStateless
<1> QED BY <1>3, <1>4, <1>5, <1>6, <1>7, NextCases

LEMMA KeysStep ==
  TypeOK /\ Timely /\ SealsStateless /\ KeysMatchTokens /\ [Next]_vars => KeysMatchTokens'
<1> SUFFICES ASSUME TypeOK, Timely, SealsStateless, KeysMatchTokens, [Next]_vars
             PROVE  KeysMatchTokens'
  OBVIOUS
<1>1. CASE Tick
  BY <1>1, KeysTick
<1>2. CASE UNCHANGED vars
  BY <1>2, KeysElse DEF vars, Still
<1>3. ASSUME NEW q \in Requests, Shakes(q)
      PROVE  KeysMatchTokens'
  <2>1. CASE Consult(q)
    <3>1. \A r \in Requests : pc'[r] = "sign" => Still(r)
      BY <1>3, <2>1, OthersStill DEF Consult, Goto, Refuse, Answer, Finish, TypeOK
    <3> QED BY <2>1, <3>1, KeysElse DEF Consult, fixed, keyVars
  <2>2. CASE Seal(q)
    BY <2>2, KeysSeal DEF Seal, SealsStateless
  <2> QED BY <1>3, <2>1, <2>2, KeysPut, KeysSign DEF Shakes
<1>4. ASSUME NEW q \in Requests,
             \/ \E p \in Procs, t \in HandshakeTenants : StartHandshake(q, p, t)
             \/ Return(q)
      PROVE  KeysMatchTokens'
  <2>1. pc'[q] # "sign"
    BY <1>4 DEF StartHandshake, Return, Goto, Refuse, Answer, Finish, TypeOK
  <2>2. \A r \in Requests : pc'[r] = "sign" => Still(r)
    BY <1>4, <2>1, OthersStill
  <2> QED BY <1>4, <2>2, KeysElse DEF StartHandshake, Return, fixed, keyVars
<1>5. ASSUME NEW q \in Requests, Proceeds(q)
      PROVE  KeysMatchTokens'
  <2>1. \A r \in Requests : pc'[r] = "sign" => Still(r)
    BY <1>5, OthersStill, CallMoves
  <2> QED BY <1>5, <2>1, KeysElse
          DEF Proceeds, ReadKey, Open, Handle, Encrypt, fixed, keyVars
<1>6. ASSUME NEW q \in Requests, NEW c \in Calls,
             c.session # None => token[c.session] # None, StartCall(q, c)
      PROVE  KeysMatchTokens'
  <2>1. \A r \in Requests : pc'[r] = "sign" => Still(r)
    BY <1>6, OthersStill, CallEnters
  <2> QED BY <1>6, <2>1, KeysElse DEF StartCall, fixed, keyVars
<1>7. ASSUME NEW p \in Procs, NEW r \in Rings, Restart(p, r)
      PROVE  KeysMatchTokens'
  BY <1>7, KeysRestart
<1>8. CASE RefreshBearer \/ \E t \in Tenants : Leave(t)
  BY <1>8, KeysElse DEF RefreshBearer, Leave, fixed, keyVars, Still
<1> QED BY <1>1, <1>2, <1>3, <1>4, <1>5, <1>6, <1>7, <1>8, NextCases

\* A key in Redis and the token of its session end within one handshake of each other.
THEOREM LifetimesAgreeAlways == Spec => []LifetimesAgree
<1>1. Init => TypeOK /\ Timely /\ SealsStateless /\ KeysMatchTokens
  BY TypeInit, TimelyInit, KeysInit DEF Init, SealsStateless
<1>2. TypeOK /\ Timely /\ SealsStateless /\ KeysMatchTokens /\ [Next]_vars
        => TypeOK' /\ Timely' /\ SealsStateless' /\ KeysMatchTokens'
  BY TypeStep, TimelyStep, SealsStatelessStep, KeysStep
<1>3. KeysMatchTokens => LifetimesAgree
  BY DEF KeysMatchTokens
<1> QED BY <1>1, <1>2, <1>3, PTL DEF Spec
-----------------------------------------------------------------------------
(* OneSessionPerRequest *)

\* The steps of a handshake belong to the route of that name.
HandshakeSteps ==
  \A q \in Requests : pc[q] \in {"put", "sign", "consult", "seal"} =>
    call[q].route = "handshake"

\* OneSessionPerRequest, for one request.
OwnSession(q) ==
  /\ pc[q] \in {"handler", "encrypt"} /\ Opens(call[q].route) /\ manager = "stateless"
       => \/ call[q].body.form = "empty"
          \/ call[q].body.form = "sealed" /\ call[q].body.kid = call[q].access
  /\ pc[q] = "done" /\ Seals(call[q].route) /\ reply[q].status = 200
       => \/ reply[q].body = Sealed(call[q].access)
          \/ reply[q].body = Bare("raw")
          \/ reply[q].body = Bare("empty") /\ logged[q] # 200

LEMMA HandshakeUnsealed == ~ Seals("handshake")
BY NamesAssumption DEF Seals, Resolve, DefaultRules

LEMMA OwnInit == Init => HandshakeSteps /\ AccessBound /\ OneSessionPerRequest
BY DEF Init, HandshakeSteps, AccessBound, Serving, OneSessionPerRequest

LEMMA AccessBoundStep ==
  TypeOK /\ AccessBound /\ [Next]_vars => AccessBound'
<1> SUFFICES ASSUME TypeOK, AccessBound, [Next]_vars, NEW q \in Requests, Serving(q)'
             PROVE  call'[q].access = call'[q].session
  BY DEF AccessBound
<1>0. pc'[q] \in {"key", "open", "handler", "encrypt"}
  BY DEF Serving
<1>1. CASE Serving(q) /\ call'[q] = call[q]
  BY <1>1 DEF AccessBound
<1>2. CASE Still(q)
  BY <1>1, <1>2, StillServed
<1>3. ASSUME NEW r \in Requests,
             \/ \E p \in Procs, t \in HandshakeTenants : StartHandshake(r, p, t)
             \/ Shakes(r) \/ Return(r)
      PROVE  Still(q)
  BY <1>0, <1>3, OthersStill, HandshakeMoves
<1>4. ASSUME NEW r \in Requests, Proceeds(r)
      PROVE  call'[q].access = call'[q].session
  <2>1. CASE r # q
    BY <1>2, <1>4, <2>1, OthersStill
  <2>2. CASE r = q
    BY <1>1, <1>4, <2>2, CallMoves DEF Serving, Resolve
  <2> QED BY <2>1, <2>2
<1>5. ASSUME NEW r \in Requests, NEW c \in Calls,
             c.session # None => token[c.session] # None, StartCall(r, c)
      PROVE  call'[q].access = call'[q].session
  <2>1. CASE r # q
    BY <1>2, <1>5, <2>1, OthersStill
  <2>2. CASE r = q
    BY <1>5, <2>2, CallEnters
  <2> QED BY <2>1, <2>2
<1>6. ASSUME NEW p \in Procs, NEW r \in Rings, Restart(p, r) PROVE Still(q)
  BY <1>0, <1>6, RestartMoves
<1>7. CASE Tick \/ RefreshBearer \/ (\E t \in Tenants : Leave(t)) \/ UNCHANGED vars
  BY <1>1, <1>7 DEF Tick, RefreshBearer, Leave, vars, Serving, Resolve
<1> QED BY <1>2, <1>3, <1>4, <1>5, <1>6, <1>7, NextCases

LEMMA HandshakeStepsStep ==
  TypeOK /\ HandshakeSteps /\ [Next]_vars => HandshakeSteps'
<1> SUFFICES ASSUME TypeOK, HandshakeSteps, [Next]_vars, NEW q \in Requests,
                    pc'[q] \in {"put", "sign", "consult", "seal"}
             PROVE  call'[q].route = "handshake"
  BY DEF HandshakeSteps
<1>1. CASE Still(q)
  BY <1>1 DEF Still, HandshakeSteps
<1>2. ASSUME NEW r \in Requests,
             \/ \E p \in Procs, t \in HandshakeTenants : StartHandshake(r, p, t)
             \/ Shakes(r) \/ Return(r)
      PROVE  call'[q].route = "handshake"
  <2>1. CASE r # q
    BY <1>1, <1>2, <2>1, OthersStill
  <2>2. CASE r = q /\ Shakes(q)
    <3>1. pc[q] \in {"put", "sign", "consult", "seal"}
      BY <2>2 DEF Shakes, Consult, PutKey, Sign, Seal
    <3>2. call[q].route = "handshake" /\ call[q] \in Calls
      BY <3>1 DEF HandshakeSteps, TypeOK
    <3>3. CASE call' = call
      BY <3>2, <3>3
    <3>4. CASE call' = [call EXCEPT ![q].session = drawn + 1]
      BY <3>2, <3>4 DEF TypeOK, Calls
    <3> QED BY <2>2, <3>3, <3>4 DEF Shakes, Consult, PutKey, Sign, Seal
  <2>3. CASE r = q /\ Return(q)
    BY <2>3 DEF Return, TypeOK
  <2>4. CASE r = q /\ \E p \in Procs, t \in HandshakeTenants : StartHandshake(q, p, t)
    BY <2>4 DEF StartHandshake, TypeOK
  <2> QED BY <1>2, <2>1, <2>2, <2>3, <2>4
<1>3. ASSUME NEW r \in Requests, Proceeds(r) PROVE call'[q].route = "handshake"
  BY <1>1, <1>3, OthersStill, CallMoves
<1>4. ASSUME NEW r \in Requests, NEW c \in Calls,
             c.session # None => token[c.session] # None, StartCall(r, c)
      PROVE  call'[q].route = "handshake"
  BY <1>1, <1>4, OthersStill, CallEnters
<1>5. ASSUME NEW p \in Procs, NEW r \in Rings, Restart(p, r)
      PROVE  call'[q].route = "handshake"
  BY <1>1, <1>5, RestartMoves
<1>6. CASE Tick \/ RefreshBearer \/ (\E t \in Tenants : Leave(t)) \/ UNCHANGED vars
  BY <1>6 DEF Tick, RefreshBearer, Leave, vars, HandshakeSteps
<1> QED BY <1>2, <1>3, <1>4, <1>5, <1>6, NextCases

\* What each step of a call leaves OwnSession to say.
LEMMA OwnProceeds ==
  ASSUME TypeOK, AccessBound, NEW q \in Requests, OwnSession(q), Proceeds(q),
         manager' = manager
  PROVE  OwnSession(q)'
<1> USE DEF TypeOK
<1>1. call'[q] = call[q]
  BY CallMoves
<1>2. CASE ReadKey(q)
  <2>1. CASE \E code \in DOMAIN Status : Refuse(q, code)
    BY <1>1, <2>1, StatusTyped DEF OwnSession, Refuse, Answer, Finish
  <2>2. CASE Onwards(q, call[q].route)
    BY <1>1, <2>2 DEF OwnSession, Onwards, Goto
  <2> QED BY <1>2, <2>1, <2>2, Codes DEF ReadKey
<1>3. CASE Open(q)
  <2>1. CASE \E code \in DOMAIN Status : Refuse(q, code)
    BY <1>1, <2>1, StatusTyped DEF OwnSession, Refuse, Answer, Finish
  <2>2. CASE Goto(q, "handler") /\ call[q].body.form = "empty"
    BY <1>1, <2>2 DEF OwnSession, Goto
  <2>3. CASE /\ Goto(q, "handler") /\ call[q].body.form = "sealed"
             /\ "hit" \in KeyFor(call[q], call[q].body.kid)
    <3>1. Opens(call[q].route) => call[q].access = call[q].session
      BY <1>3 DEF Open, AccessBound, Serving, Opens
    <3> QED BY <1>1, <2>3, <3>1 DEF OwnSession, Goto, KeyFor, Opens, Resolve
  <2> QED BY <1>3, <2>1, <2>2, <2>3, Codes DEF Open, DecryptValue
<1>4. CASE Handle(q)
  BY <1>1, <1>4 DEF Handle, OwnSession, Goto, Answer, Finish
<1>5. CASE Encrypt(q)
  <2>1. Seals(call[q].route) => call[q].access = call[q].session
    BY <1>5 DEF Encrypt, AccessBound, Serving, Seals
  <2>2. CASE Answer(q, 200, Sealed(call[q].session))
    BY <1>1, <2>1, <2>2 DEF OwnSession, Answer, Finish, Seals, Resolve
  <2>3. CASE SealFails(q)
    BY <1>1, <2>3 DEF SealFails, OwnSession, Finish, Status
  <2> QED BY <1>5, <2>2, <2>3 DEF Encrypt
<1> QED BY <1>2, <1>3, <1>4, <1>5 DEF Proceeds

LEMMA OwnShakes ==
  ASSUME TypeOK, HandshakeSteps, NEW q \in Requests, [Next]_vars,
         \/ \E p \in Procs, t \in HandshakeTenants : StartHandshake(q, p, t)
         \/ Shakes(q) \/ Return(q)
  PROVE  OwnSession(q)'
<1>1. HandshakeSteps'
  BY HandshakeStepsStep
<1>2. pc'[q] \notin {"handler", "encrypt"}
  BY HandshakeMoves
<1>3. ASSUME pc'[q] = "done"
      PROVE  call'[q].route = "handshake"
  <2>1. CASE \E p \in Procs, t \in HandshakeTenants : StartHandshake(q, p, t)
    BY <2>1 DEF StartHandshake, TypeOK
  <2>2. CASE Shakes(q)
    <3>1. pc[q] \in {"put", "sign", "consult", "seal"}
      BY <2>2 DEF Shakes, Consult, PutKey, Sign, Seal
    <3>2. call[q].route = "handshake" /\ call[q] \in Calls
      BY <3>1 DEF HandshakeSteps, TypeOK
    <3>3. CASE call' = call
      BY <3>2, <3>3
    <3>4. CASE call' = [call EXCEPT ![q].session = drawn + 1]
      BY <3>2, <3>4 DEF TypeOK, Calls
    <3> QED BY <2>2, <3>3, <3>4 DEF Shakes, Consult, PutKey, Sign, Seal
  <2>3. CASE Return(q)
    BY <1>3, <2>3 DEF Return, TypeOK
  <2> QED BY <2>1, <2>2, <2>3
<1> QED BY <1>2, <1>3, HandshakeUnsealed DEF OwnSession, Seals, Resolve

LEMMA OwnStep ==
  TypeOK /\ HandshakeSteps /\ AccessBound /\ OneSessionPerRequest /\ [Next]_vars
    => OneSessionPerRequest'
<1> SUFFICES ASSUME TypeOK, HandshakeSteps, AccessBound, OneSessionPerRequest, [Next]_vars,
                    NEW q \in Requests
             PROVE  OwnSession(q)'
  BY DEF OneSessionPerRequest, OwnSession
<1>1. OwnSession(q)
  BY DEF OneSessionPerRequest, OwnSession
<1>2. manager' = manager
  BY Fixed
<1>3. CASE Still(q)
  BY <1>1, <1>2, <1>3 DEF Still, OwnSession, Opens, Seals, Resolve
<1>4. CASE pc'[q] = "idle"
  BY <1>4 DEF OwnSession
<1>5. ASSUME NEW r \in Requests,
             \/ \E p \in Procs, t \in HandshakeTenants : StartHandshake(r, p, t)
             \/ Shakes(r) \/ Return(r)
      PROVE  OwnSession(q)'
  BY <1>3, <1>5, OthersStill, OwnShakes
<1>6. ASSUME NEW r \in Requests, Proceeds(r) PROVE OwnSession(q)'
  BY <1>1, <1>2, <1>3, <1>6, OthersStill, OwnProceeds
<1>7. ASSUME NEW r \in Requests, NEW c \in Calls,
             c.session # None => token[c.session] # None, StartCall(r, c)
      PROVE  OwnSession(q)'
  <2>1. CASE r # q
    BY <1>3, <1>7, <2>1, OthersStill
  <2>2. CASE r = q
    <3>1. call'[q] = c /\ pc'[q] \in {"key", "open", "handler", "done"}
      BY <1>7, <2>2, CallEnters
    <3>2. CASE Refuse(q, "CRYPTO_SESSION_INVALID")
      BY <3>2, StatusTyped, Codes DEF Refuse, Answer, Finish, OwnSession, TypeOK
    <3>3. CASE pc'[q] = "handler"
      BY <1>7, <2>2, <3>1, <3>3
         DEF StartCall, Onwards, Goto, Refuse, Answer, Finish, OwnSession, TypeOK, Opens,
             Resolve
    <3>4. CASE pc'[q] \in {"key", "open"}
      BY <3>4 DEF OwnSession
    <3>5. Refuse(q, "CRYPTO_SESSION_INVALID") \/ pc'[q] \in {"key", "open", "handler"}
      BY <1>7, <2>2 DEF StartCall, Onwards, Goto, TypeOK
    <3> QED BY <3>2, <3>3, <3>4, <3>5
  <2> QED BY <2>1, <2>2
<1>8. ASSUME NEW p \in Procs, NEW r \in Rings, Restart(p, r) PROVE OwnSession(q)'
  BY <1>3, <1>4, <1>8, RestartMoves
<1>9. CASE Tick \/ RefreshBearer \/ (\E t \in Tenants : Leave(t)) \/ UNCHANGED vars
  BY <1>1, <1>2, <1>9
     DEF Tick, RefreshBearer, Leave, vars, OwnSession, Opens, Seals, Resolve
<1> QED BY <1>5, <1>6, <1>7, <1>8, <1>9, NextCases

\* A request is opened and answered under the session whose token it presents,
\* whatever session it names: nothing else is sealed, and nothing else that is
\* JSON leaves a protected route.
THEOREM OneSessionAlways == Spec => []OneSessionPerRequest
<1>1. Init => TypeOK /\ HandshakeSteps /\ AccessBound /\ OneSessionPerRequest
  BY TypeInit, OwnInit
<1>2. TypeOK /\ HandshakeSteps /\ AccessBound /\ OneSessionPerRequest /\ [Next]_vars
        => TypeOK' /\ HandshakeSteps' /\ AccessBound' /\ OneSessionPerRequest'
  BY TypeStep, HandshakeStepsStep, AccessBoundStep, OwnStep
<1> QED BY <1>1, <1>2, PTL DEF Spec
-----------------------------------------------------------------------------
(* TenantsLapse *)

\* Keys are stored in the store modes only.
PutsStored == \A q \in Requests : pc[q] \in {"put", "sign"} => manager # "stateless"

LEMMA PutsStoredStep ==
  TypeOK /\ PutsStored /\ [Next]_vars => PutsStored'
<1> SUFFICES ASSUME TypeOK, PutsStored, [Next]_vars, NEW q \in Requests,
                    pc'[q] \in {"put", "sign"}
             PROVE  manager' # "stateless"
  BY DEF PutsStored
<1>1. manager' = manager
  BY Fixed
<1>2. CASE Still(q)
  BY <1>1, <1>2 DEF Still, PutsStored
<1>3. ASSUME NEW r \in Requests,
             \/ \E p \in Procs, t \in HandshakeTenants : StartHandshake(r, p, t)
             \/ Shakes(r) \/ Return(r)
      PROVE  manager' # "stateless"
  <2>1. CASE r # q
    BY <1>2, <1>3, <2>1, OthersStill
  <2>2. CASE r = q /\ Shakes(q)
    BY <1>1, <2>2 DEF Shakes, Consult, PutKey, Sign, Seal, PutsStored, TypeOK, Goto,
       Answer, Refuse, Finish
  <2>3. CASE r = q /\ Return(q)
    BY <2>3 DEF Return, TypeOK
  <2>4. CASE r = q /\ \E p \in Procs, t \in HandshakeTenants : StartHandshake(q, p, t)
    BY <1>1, <2>4 DEF StartHandshake, TypeOK, Goto, Answer, Refuse, Finish
  <2> QED BY <1>3, <2>1, <2>2, <2>3, <2>4
<1>4. ASSUME NEW r \in Requests, Proceeds(r) PROVE manager' # "stateless"
  BY <1>2, <1>4, OthersStill, CallMoves
<1>5. ASSUME NEW r \in Requests, NEW c \in Calls,
             c.session # None => token[c.session] # None, StartCall(r, c)
      PROVE  manager' # "stateless"
  BY <1>2, <1>5, OthersStill, CallEnters
<1>6. ASSUME NEW p \in Procs, NEW r \in Rings, Restart(p, r) PROVE manager' # "stateless"
  BY <1>2, <1>6, RestartMoves
<1>7. CASE Tick \/ RefreshBearer \/ (\E t \in Tenants : Leave(t)) \/ UNCHANGED vars
  BY <1>1, <1>7 DEF Tick, RefreshBearer, Leave, vars, PutsStored
<1> QED BY <1>3, <1>4, <1>5, <1>6, <1>7, NextCases

\* TenantLag, part by part.
MembersFresh == \A t \in members : lapse[t] = 0

SealLag(q) ==
  pc[q] = "seal" => /\ call[q].tenant \in Tenants
                    /\ call[q].tenant \in members \/ lapse[call[q].tenant] <= waited[q]

TokenLag(s) ==
  token[s] # None => /\ token[s].tenant \in Tenants
                     /\ \/ token[s].tenant \in members
                        \/ lapse[token[s].tenant] <= ReqTime + age[s]
                        \/ age[s] = AgeCap

ServeLag(q) ==
  Serving(q) => /\ call[q].tenant \in Tenants
                /\ \/ call[q].tenant \in members
                   \/ lapse[call[q].tenant] < ReqTime + TokenLife + waited[q]

LEMMA TenantLagParts ==
  TenantLag <=>
    /\ MembersFresh
    /\ manager = "stateless" => /\ \A q \in Requests : SealLag(q) /\ ServeLag(q)
                                /\ \A s \in Sessions : TokenLag(s)
BY DEF TenantLag, MembersFresh, SealLag, TokenLag, ServeLag

LEMMA LagInit == Init => TenantLag
BY DEF Init, TenantLag, Serving

LEMMA LagTick ==
  ASSUME TypeOK, TenantLag, Tick
  PROVE  TenantLag'
<1>1. /\ manager' = manager /\ members' = members /\ token' = token /\ pc' = pc
      /\ call' = call /\ TokenLife' = TokenLife /\ AgeCap' = AgeCap
  BY SameLifetimes DEF Tick, fixed
<1>2. \A t \in Tenants : /\ lapse[t] \in Nat /\ lapse'[t] \in Nat
                         /\ lapse'[t] <= lapse[t] + 1
                         /\ t \in members => lapse'[t] = lapse[t]
  BY Lifetimes DEF Tick, TypeOK
<1>3. MembersFresh'
  BY <1>1, <1>2 DEF TenantLag, MembersFresh, TypeOK
<1>4. \A q \in Requests : Active(q) => waited'[q] = waited[q] + 1
  BY DEF Tick
<1>5. ASSUME manager = "stateless", NEW q \in Requests
      PROVE  SealLag(q)' /\ ServeLag(q)'
  <2>1. SealLag(q) /\ ServeLag(q)
    BY <1>5, TenantLagParts
  <2>2. pc[q] = "seal" \/ Serving(q) => waited'[q] = waited[q] + 1
    BY <1>4 DEF Active, Serving
  <2>3. Serving(q)' <=> Serving(q)
    BY <1>1 DEF Serving, Resolve
  <2>4. waited[q] \in Nat
    BY DEF TypeOK
  <2> QED BY <1>1, <1>2, <2>1, <2>2, <2>3, <2>4, Lifetimes DEF SealLag, ServeLag
<1>6. ASSUME manager = "stateless", NEW s \in Sessions
      PROVE  TokenLag(s)'
  <2>1. TokenLag(s) /\ age[s] \in 0 .. AgeCap
    BY <1>6, TenantLagParts DEF TypeOK
  <2>2. token[s] # None => age'[s] = IF age[s] < AgeCap THEN age[s] + 1 ELSE age[s]
    BY DEF Tick
  <2> QED BY <1>1, <1>2, <2>1, <2>2, Lifetimes DEF TokenLag
<1> QED BY <1>1, <1>3, <1>5, <1>6, TenantLagParts DEF TenantLag, MembersFresh, SealLag,
           ServeLag, TokenLag

\* Everything but time and a tenant left behind leaves members and lapses alone.
LEMMA WorldStill ==
  ASSUME TypeOK, [Next]_vars, ~ Tick, ~ \E t \in Tenants : Leave(t)
  PROVE  members' = members /\ lapse' = lapse
<1> USE DEF world
<1>1. CASE UNCHANGED vars
  BY <1>1 DEF vars
<1>2. CASE \E q \in Requests, p \in Procs, t \in HandshakeTenants : StartHandshake(q, p, t)
  BY <1>2 DEF StartHandshake
<1>3. CASE \E q \in Requests, c \in Calls : StartCall(q, c)
  BY <1>3 DEF StartCall
<1>4. CASE \E q \in Requests : Shakes(q)
  BY <1>4 DEF Shakes, Consult, PutKey, Sign, Seal
<1>5. CASE \E q \in Requests : Proceeds(q) \/ Return(q)
  BY <1>5 DEF Proceeds, ReadKey, Open, Handle, Encrypt, Return
<1>6. CASE RefreshBearer \/ \E p \in Procs, r \in Rings : Restart(p, r)
  BY <1>6 DEF RefreshBearer, Restart
<1> QED BY <1>1, <1>2, <1>3, <1>4, <1>5, <1>6, NextCases

LEMMA LagLeave ==
  ASSUME TypeOK, TenantLag, NEW t \in Tenants, Leave(t)
  PROVE  TenantLag'
<1>1. /\ manager' = manager /\ members' = members \ {t} /\ lapse' = lapse
      /\ token' = token /\ age' = age /\ pc' = pc /\ call' = call /\ waited' = waited
      /\ TokenLife' = TokenLife /\ AgeCap' = AgeCap /\ lapse[t] = 0
  BY SameLifetimes DEF Leave, fixed, keyVars, TenantLag
<1>2. \A q \in Requests : waited[q] \in Nat
  BY DEF TypeOK
<1>3. \A s \in Sessions : age[s] \in Nat
  BY Lifetimes DEF TypeOK
<1>4. \A q \in Requests : Serving(q)' <=> Serving(q)
  BY <1>1 DEF Serving, Resolve
<1> QED BY <1>1, <1>2, <1>3, <1>4, Lifetimes DEF TenantLag

\* A token issued, in the stateless mode, is one that was sealed.
LEMMA LagTokens ==
  ASSUME TypeOK, Timely, PutsStored, TenantLag, [Next]_vars, ~ Tick,
         ~ \E t \in Tenants : Leave(t), manager = "stateless", NEW s \in Sessions
  PROVE  TokenLag(s)'
<1>1. /\ members' = members /\ lapse' = lapse /\ AgeCap' = AgeCap
  BY WorldStill, Fixed
<1>2. TokenLag(s) /\ \A q \in Requests : SealLag(q)
  BY TenantLagParts
<1>3. CASE UNCHANGED <<token, age>>
  BY <1>1, <1>2, <1>3 DEF TokenLag
<1>4. ASSUME NEW q \in Requests, Seal(q)
      PROVE  TokenLag(s)'
  <2>1. /\ pc[q] = "seal" /\ drawn + 1 \in Sessions
        /\ Issue(drawn + 1, call[q].tenant, call[q].bearer, ring[call[q].proc].active)
    BY <1>4 DEF Seal
  <2>2. CASE s # drawn + 1
    <3>1. token'[s] = token[s] /\ age'[s] = age[s]
      BY <2>1, <2>2 DEF Issue, TypeOK
    <3> QED BY <1>1, <1>2, <3>1 DEF TokenLag
  <2>3. CASE s = drawn + 1
    <3>1. token'[s].tenant = call[q].tenant /\ age'[s] = 0
      BY <2>1, <2>3 DEF Issue, TypeOK
    <3>2. waited[q] \in 0 .. ReqTime
      BY <2>1 DEF TypeOK, Timely
    <3>3. /\ call[q].tenant \in Tenants
          /\ call[q].tenant \in members \/ lapse[call[q].tenant] <= waited[q]
      BY <1>2, <2>1 DEF SealLag
    <3>4. lapse[call[q].tenant] \in Nat
      BY <3>3, Lifetimes DEF TypeOK
    <3> QED BY <1>1, <3>1, <3>2, <3>3, <3>4, Lifetimes DEF TokenLag
  <2> QED BY <2>2, <2>3
<1>5. UNCHANGED <<token, age>> \/ \E q \in Requests : Seal(q)
  <2> USE DEF keyVars
  <2>1. CASE UNCHANGED vars
    BY <2>1 DEF vars
  <2>2. CASE \E q \in Requests, p \in Procs, t \in HandshakeTenants : StartHandshake(q, p, t)
    BY <2>2 DEF StartHandshake
  <2>3. CASE \E q \in Requests, c \in Calls : StartCall(q, c)
    BY <2>3 DEF StartCall
  <2>4. CASE \E q \in Requests : Shakes(q)
    BY <2>4 DEF Shakes, Consult, PutKey, Sign, PutsStored
  <2>5. CASE \E q \in Requests : Proceeds(q) \/ Return(q)
    BY <2>5 DEF Proceeds, ReadKey, Open, Handle, Encrypt, Return
  <2>6. CASE RefreshBearer \/ \E p \in Procs, r \in Rings : Restart(p, r)
    BY <2>6 DEF RefreshBearer, Restart
  <2> QED BY <2>1, <2>2, <2>3, <2>4, <2>5, <2>6, NextCases
<1> QED BY <1>3, <1>4, <1>5

\* A request still sealing or served as it was.
LEMMA LagKept ==
  ASSUME TypeOK, [Next]_vars, ~ Tick, ~ \E t \in Tenants : Leave(t), NEW q \in Requests,
         SealLag(q), ServeLag(q),
         pc'[q] = "seal" => Still(q),
         Serving(q)' => Serving(q) /\ call'[q] = call[q] /\ waited'[q] = waited[q]
  PROVE  SealLag(q)' /\ ServeLag(q)'
<1>1. members' = members /\ lapse' = lapse /\ TokenLife' = TokenLife
  BY WorldStill, Fixed
<1> QED BY <1>1 DEF SealLag, ServeLag, Still

LEMMA LagRequests ==
  ASSUME TypeOK, TenantLag, [Next]_vars, ~ Tick, ~ \E t \in Tenants : Leave(t),
         manager = "stateless", NEW q \in Requests
  PROVE  SealLag(q)' /\ ServeLag(q)'
<1>1. /\ members' = members /\ lapse' = lapse /\ TokenLife' = TokenLife
  BY WorldStill, Fixed
<1>2. SealLag(q) /\ ServeLag(q) /\ \A s \in Sessions : TokenLag(s)
  BY TenantLagParts
<1>3. CASE Still(q)
  <2>1. Serving(q)' => Serving(q)
    BY <1>3 DEF Still, Serving, Resolve
  <2> QED BY <1>2, <1>3, <2>1, LagKept DEF Still
<1>4. CASE pc'[q] \notin {"seal", "key", "open", "handler", "encrypt"}
  BY <1>4 DEF SealLag, ServeLag, Serving
<1>5. ASSUME NEW r \in Requests,
             \/ \E p \in Procs, t \in HandshakeTenants : StartHandshake(r, p, t)
             \/ Shakes(r) \/ Return(r)
      PROVE  SealLag(q)' /\ ServeLag(q)'
  <2>1. CASE r # q
    BY <1>3, <1>5, <2>1, OthersStill
  <2>2. CASE r = q /\ pc'[q] # "seal"
    BY <1>4, <1>5, <2>2, HandshakeMoves
  <2>3. CASE r = q /\ pc'[q] = "seal"
    <3>1. Consult(q) /\ Goto(q, "seal") /\ call[q].tenant \in members
      BY <1>5, <2>3 DEF StartHandshake, Shakes, Consult, PutKey, Sign, Seal, Return, Goto,
         Refuse, Answer, Finish, TypeOK
    <3>2. call'[q].tenant \in members' /\ members \subseteq Tenants
      BY <1>1, <3>1 DEF Consult, TypeOK
    <3>3. SealLag(q)'
      BY <1>1, <3>2 DEF SealLag
    <3>4. ServeLag(q)'
      BY <2>3 DEF ServeLag, Serving
    <3> QED BY <3>3, <3>4
  <2> QED BY <2>1, <2>2, <2>3
<1>6. ASSUME NEW r \in Requests, Proceeds(r) PROVE SealLag(q)' /\ ServeLag(q)'
  <2>1. CASE r # q
    BY <1>3, <1>6, <2>1, OthersStill
  <2>2. CASE r = q
    <3>1. pc'[q] # "seal" /\ (Serving(q)' => Serving(q) /\ call'[q] = call[q]
                                             /\ waited'[q] = waited[q])
      BY <1>6, <2>2, CallMoves DEF Serving, Resolve
    <3> QED BY <1>2, <3>1, LagKept
  <2> QED BY <2>1, <2>2
<1>7. ASSUME NEW r \in Requests, NEW c \in Calls,
             c.session # None => token[c.session] # None, StartCall(r, c)
      PROVE  SealLag(q)' /\ ServeLag(q)'
  <2>1. CASE r # q
    BY <1>3, <1>7, <2>1, OthersStill
  <2>2. CASE r = q
    <3>1. /\ call'[q] = c /\ pc'[q] # "seal"
          /\ Serving(q)' =>
               /\ waited'[q] = waited[q] /\ c.session \in Sessions
               /\ token[c.session] # None /\ age[c.session] < TokenLife
               /\ c.tenant = token[c.session].tenant
      BY <1>7, <2>2, CallEnters
    <3>2. SealLag(q)'
      BY <3>1 DEF SealLag
    <3>3. ASSUME Serving(q)'
          PROVE  /\ c.tenant \in Tenants
                 /\ c.tenant \in members \/ lapse[c.tenant] < ReqTime + TokenLife + waited[q]
      <4>1. /\ c.session \in Sessions /\ TokenLag(c.session)
            /\ token[c.session] # None /\ age[c.session] < TokenLife
            /\ c.tenant = token[c.session].tenant
        BY <1>2, <3>1, <3>3
      <4>2. age[c.session] \in Nat /\ waited[q] \in Nat
        BY <4>1, Lifetimes DEF TypeOK
      <4>3. c.tenant \in Tenants
        BY <4>1 DEF TokenLag
      <4>4. lapse[c.tenant] \in Nat
        BY <4>3, Lifetimes DEF TypeOK
      <4> QED BY <4>1, <4>2, <4>3, <4>4, Lifetimes DEF TokenLag
    <3> QED BY <1>1, <3>1, <3>2, <3>3 DEF ServeLag
  <2> QED BY <2>1, <2>2
<1>8. ASSUME NEW p \in Procs, NEW r \in Rings, Restart(p, r)
      PROVE  SealLag(q)' /\ ServeLag(q)'
  BY <1>3, <1>4, <1>8, RestartMoves
<1>9. CASE RefreshBearer \/ UNCHANGED vars
  BY <1>3, <1>9 DEF RefreshBearer, vars, Still
<1> QED BY <1>5, <1>6, <1>7, <1>8, <1>9, NextCases

LEMMA LagStep ==
  TypeOK /\ Timely /\ PutsStored /\ TenantLag /\ [Next]_vars => TenantLag'
<1> SUFFICES ASSUME TypeOK, Timely, PutsStored, TenantLag, [Next]_vars PROVE TenantLag'
  OBVIOUS
<1>1. CASE Tick \/ \E t \in Tenants : Leave(t)
  BY <1>1, LagTick, LagLeave
<1>2. CASE ~ Tick /\ ~ \E t \in Tenants : Leave(t)
  <2>1. MembersFresh'
    BY <1>2, WorldStill DEF TenantLag, MembersFresh
  <2>2. manager' = manager
    BY Fixed
  <2>3. manager = "stateless" => \A s \in Sessions : TokenLag(s)'
    BY <1>2, LagTokens
  <2>4. manager = "stateless" => \A q \in Requests : SealLag(q)' /\ ServeLag(q)'
    BY <1>2, LagRequests
  <2> QED BY <2>1, <2>2, <2>3, <2>4
          DEF TenantLag, MembersFresh, SealLag, TokenLag, ServeLag
<1> QED BY <1>1, <1>2

LEMMA LagLapses == TypeOK /\ TenantLag => TenantsLapse
<1> SUFFICES ASSUME TypeOK, TenantLag, manager = "stateless", NEW q \in Requests, Serving(q),
                    call[q].tenant \notin members
             PROVE  lapse[call[q].tenant] < HardMaxTTL + Skew + ReqTime + waited[q]
  BY DEF TenantsLapse
<1>1. /\ call[q].tenant \in Tenants
      /\ lapse[call[q].tenant] < ReqTime + TokenLife + waited[q]
  BY DEF TenantLag
<1>2. lapse[call[q].tenant] \in Nat /\ waited[q] \in Nat
  BY <1>1, Lifetimes DEF TypeOK
<1> QED BY <1>1, <1>2, LifeBound, Lifetimes, NumbersAssumption

\* A tenant the user was taken out of is served no longer than one session and
\* two requests, for any configured lifetime.
THEOREM TenantsLapseAlways == Spec => []TenantsLapse
<1>1. Init => TypeOK /\ Timely /\ PutsStored /\ TenantLag
  BY TypeInit, TimelyInit, LagInit DEF Init, PutsStored
<1>2. TypeOK /\ Timely /\ PutsStored /\ TenantLag /\ [Next]_vars
        => TypeOK' /\ Timely' /\ PutsStored' /\ TenantLag'
  BY TypeStep, TimelyStep, PutsStoredStep, LagStep
<1> QED BY <1>1, <1>2, LagLapses, PTL DEF Spec
-----------------------------------------------------------------------------
(* ReplicaSafe *)

\* Keys are read in the store modes, for routes the policy protects.
KeyReads ==
  \A q \in Requests : pc[q] = "key" =>
    manager \in {"memory", "redis"} /\ Resolve(call[q].route) # None

\* A token is sealed under a KEK that was active, and a later ring goes no
\* further back.
KeksInUse ==
  manager = "stateless" => \A s \in Sessions : token[s] # None =>
    token[s].kek \in Keks /\ \E p \in Procs : token[s].kek <= ring[p].active

LEMMA KeyReadsStep ==
  TypeOK /\ KeyReads /\ [Next]_vars => KeyReads'
<1> SUFFICES ASSUME TypeOK, KeyReads, [Next]_vars, NEW q \in Requests, pc'[q] = "key"
             PROVE  manager' \in {"memory", "redis"} /\ Resolve(call'[q].route) # None
  BY DEF KeyReads, Resolve
<1>1. manager' = manager
  BY Fixed
<1>2. CASE Still(q)
  BY <1>1, <1>2 DEF Still, KeyReads
<1>3. ASSUME NEW r \in Requests,
             \/ \E p \in Procs, t \in HandshakeTenants : StartHandshake(r, p, t)
             \/ Shakes(r) \/ Return(r) \/ Proceeds(r)
      PROVE  Still(q)
  BY <1>3, OthersStill, HandshakeMoves, CallMoves
<1>4. ASSUME NEW r \in Requests, NEW c \in Calls, StartCall(r, c)
      PROVE  manager' \in {"memory", "redis"} /\ Resolve(call'[q].route) # None
  <2>1. CASE r # q
    BY <1>2, <1>4, <2>1, OthersStill
  <2>2. CASE r = q
    <3>1. call'[q] = c
      BY <1>4, <2>2 DEF StartCall, TypeOK
    <3>2. Resolve(c.route) # None /\ manager \in {"memory", "redis"}
      BY <1>4, <2>2 DEF StartCall, TypeOK, Onwards, Goto, Refuse, Answer, Finish
    <3> QED BY <1>1, <3>1, <3>2
  <2> QED BY <2>1, <2>2
<1>5. ASSUME NEW p \in Procs, NEW r \in Rings, Restart(p, r) PROVE Still(q)
  BY <1>5, RestartMoves
<1>6. CASE Tick \/ RefreshBearer \/ (\E t \in Tenants : Leave(t)) \/ UNCHANGED vars
  BY <1>1, <1>6 DEF Tick, RefreshBearer, Leave, vars, KeyReads
<1> QED BY <1>2, <1>3, <1>4, <1>5, <1>6, NextCases

LEMMA RingsGoOn ==
  ASSUME NEW r \in Rings, NEW r2 \in NextRings(r)
  PROVE  r.active <= r2.active
<1>1. r.active \in Nat /\ r2.active \in Nat /\ None \notin Nat
  BY NamesAssumption DEF NextRings, Rings, Keks
<1>2. r2 = r \/ r2.active \in {r.active, r.active + 1}
  BY <1>1 DEF NextRings
<1> QED BY <1>1, <1>2

LEMMA KeksStep ==
  TypeOK /\ PutsStored /\ KeksInUse /\ [Next]_vars => KeksInUse'
<1> SUFFICES ASSUME TypeOK, PutsStored, KeksInUse, [Next]_vars, manager = "stateless",
                    NEW s \in Sessions, token'[s] # None
             PROVE  token'[s].kek \in Keks /\ \E p \in Procs : token'[s].kek <= ring'[p].active
  BY Fixed DEF KeksInUse
<1>1. CASE token'[s] = token[s] /\ ring' = ring
  BY <1>1 DEF KeksInUse
<1>2. CASE \E p \in Procs : \E r \in NextRings(ring[p]) : Restart(p, r)
  <2>0. PICK p \in Procs : \E r \in NextRings(ring[p]) : Restart(p, r)
    BY <1>2
  <2>1. PICK r \in NextRings(ring[p]) : Restart(p, r)
    BY <2>0
  <2>2. token' = token /\ ring' = [ring EXCEPT ![p] = r]
    BY <2>1 DEF Restart
  <2>3. token[s].kek \in Keks
    BY <2>2 DEF KeksInUse
  <2>4. PICK p2 \in Procs : token[s].kek <= ring[p2].active
    BY <2>2 DEF KeksInUse
  <2>5. ring[p] \in Rings /\ ring[p2] \in Rings /\ r \in Rings
    BY <2>1 DEF TypeOK, NextRings
  <2>6. ring[p].active <= r.active
    BY <2>5, RingsGoOn
  <2>7. token[s].kek <= ring'[p2].active
    <3>1. CASE p2 = p
      <4>1. ring'[p2] = r
        BY <2>2, <3>1 DEF TypeOK
      <4> QED BY <2>3, <2>4, <2>5, <2>6, <3>1, <4>1 DEF Rings, Keks
    <3>2. CASE p2 # p
      BY <2>2, <2>4, <3>2 DEF TypeOK
    <3> QED BY <3>1, <3>2
  <2> QED BY <2>2, <2>3, <2>7
<1>3. CASE \E q \in Requests : Seal(q)
  <2>1. PICK q \in Requests : Seal(q)
    BY <1>3
  <2>2. call[q].proc \in Procs /\ ring' = ring
    BY <2>1 DEF Seal, TypeOK, Calls, procVars
  <2>3. CASE s = drawn + 1
    <3>1. token'[s].kek = ring[call[q].proc].active
      BY <2>1, <2>3 DEF Seal, Issue, TypeOK
    <3>2. ring[call[q].proc].active \in Keks
      BY <2>2 DEF TypeOK, Rings
    <3> QED BY <2>2, <3>1, <3>2 DEF Keks
  <2>4. CASE s # drawn + 1
    BY <1>1, <2>1, <2>2, <2>4 DEF Seal, Issue, TypeOK
  <2> QED BY <2>3, <2>4
<1>4. ~ \E q \in Requests : Sign(q)
  BY DEF Sign, PutsStored
<1>5. ASSUME NEW q \in Requests, Consult(q) \/ PutKey(q) \/ ReadKey(q) \/ Open(q) \/ Handle(q)
                                 \/ Encrypt(q) \/ Return(q)
      PROVE  token' = token /\ ring' = ring
  BY <1>5 DEF Consult, PutKey, ReadKey, Open, Handle, Encrypt, Return, keyVars, procVars
<1>6. ASSUME NEW q \in Requests, NEW p \in Procs, \E t \in HandshakeTenants : StartHandshake(q, p, t)
      PROVE  token' = token /\ ring' = ring
  BY <1>6 DEF StartHandshake, keyVars, procVars
<1>7. ASSUME NEW q \in Requests, NEW p \in Procs, NEW route \in Routes, Arrive(q, p, route)
      PROVE  token' = token /\ ring' = ring
  BY <1>7 DEF Arrive, StartCall, keyVars, procVars
<1>8. CASE RefreshBearer \/ (\E t \in Tenants : Leave(t)) \/ Tick \/ UNCHANGED vars
  BY <1>1, <1>8 DEF RefreshBearer, Leave, Tick, vars, keyVars, procVars
<1> QED BY <1>1, <1>2, <1>3, <1>4, <1>5, <1>6, <1>7, <1>8 DEF Next, Step

\* A refusal at the door: the stateless mode, or the token in the store modes.
LEMMA DoorExcused ==
  ASSUME TypeOK, TenantLag, KeksInUse, NEW q \in Requests, NEW c \in Calls, StartCall(q, c),
         c.session # None => token[c.session] # None,
         manager \in {"redis", "stateless"}, pc'[q] = "done"
  PROVE  Excused(c)
<1> SUFFICES ASSUME c.session # None, c.access = c.session PROVE Excused(c)
  BY DEF Excused
<1> DEFINE s == c.session
<1>1. s \in Sessions /\ token[s] # None /\ age[s] \in 0 .. AgeCap
  BY DEF Calls, TypeOK
<1>2. CASE manager = "redis"
  <2>1. ~ VerifyAccessToken(c)
    BY <1>2 DEF StartCall, TypeOK, Onwards, Goto
  <2> QED BY <1>1, <1>2, <2>1, Lifetimes DEF Excused, VerifyAccessToken
<1>3. CASE manager = "stateless"
  <2>1. ~ (TenantNamed(c) /\ ResolvesStateless(c))
    BY <1>3 DEF StartCall, TypeOK, Onwards, Goto
  <2>2. token[s].tenant \in Tenants
    BY <1>1, <1>3 DEF TenantLag
  <2>3. CASE authority # "core"
    BY <1>3, <2>3 DEF Excused, TypeOK
  <2>4. CASE c.tenant = None
    BY <1>3, <2>2, <2>4, NamesAssumption DEF Excused
  <2>5. CASE token[s].tenant # c.tenant \/ token[s].bearer # c.bearer
    BY <1>3, <2>5 DEF Excused
  <2>6. CASE ~ (age[s] < TokenLife)
    BY <1>1, <1>3, <2>6, Lifetimes DEF Excused
  <2>7. CASE ~ InRing(token[s].kek, ring[c.proc])
    <3> SUFFICES ASSUME \A p \in Procs : ring[p] = [active |-> 1, grace |-> None] PROVE FALSE
      BY <1>3 DEF Excused
    <3>1. token[s].kek \in Keks /\ \E p \in Procs : token[s].kek <= ring[p].active
      BY <1>1, <1>3 DEF KeksInUse
    <3>2. token[s].kek = 1
      BY <3>1 DEF Keks
    <3>3. ring[c.proc].active = 1
      BY DEF Calls
    <3> QED BY <2>7, <3>2, <3>3, NamesAssumption DEF InRing
  <2> QED BY <2>1, <2>3, <2>4, <2>5, <2>6, <2>7 DEF TenantNamed, ResolvesStateless
<1> QED BY <1>2, <1>3

\* A refusal by the store: in Redis the key ends with its token.
LEMMA StoreExcused ==
  ASSUME TypeOK, Served, KeysMatchTokens, KeyReads, NEW q \in Requests, ReadKey(q),
         manager \in {"redis", "stateless"}, pc'[q] = "done", reply'[q].status = 401
  PROVE  Excused(call[q])
<1> DEFINE s == call[q].session
<1>1. pc[q] = "key" /\ manager = "redis"
  BY DEF ReadKey, KeyReads
<1>2. s \in Sessions /\ token[s] # None
  BY <1>1 DEF Served, Serving, KeyReads
<1>3. PICK found \in SessionKey(call[q].proc, s) :
        \/ found = "hit" /\ Onwards(q, call[q].route)
        \/ found = "miss" /\ Refuse(q, "CRYPTO_SESSION_INVALID")
        \/ found = "error" /\ Refuse(q, "SERVICE_UNAVAILABLE")
  BY DEF ReadKey
<1>4. ~ Onwards(q, call[q].route)
  BY DEF Onwards, Goto, TypeOK
<1>5. ~ Refuse(q, "SERVICE_UNAVAILABLE")
  BY DEF Refuse, Answer, Finish, Status, TypeOK
<1>6. store[Shared][s] = 0
  <2>1. "miss" \in RedisGet(s)
    BY <1>1, <1>3, <1>4, <1>5 DEF SessionKey
  <2>2. store[Shared][s] \in Nat
    BY <1>2, StoreTyped, Lifetimes
  <2> QED BY <2>1, <2>2 DEF RedisGet
<1>7. age[s] + ReqTime < SessionTTL => store[Shared][s] + age[s] + ReqTime >= SessionTTL
  BY <1>1, <1>2 DEF KeysMatchTokens, LifetimesAgree
<1>8. TokenLife = SessionTTL /\ age[s] \in Nat /\ SessionTTL \in Nat /\ ReqTime \in Nat
  BY <1>1, <1>2, StoreTyped, Lifetimes DEF TokenLife
<1>9. age[s] + ReqTime >= TokenLife
  BY <1>6, <1>7, <1>8
<1> QED BY <1>1, <1>9 DEF Excused

\* Opening a body answers 401 for one that is cut off, and for no other.
LEMMA OpenExcused ==
  ASSUME TypeOK, NEW q \in Requests, Open(q), pc'[q] = "done", reply'[q].status = 401
  PROVE  Excused(call[q])
<1> DEFINE b == call[q].body
<1>1. ~ Goto(q, "handler")
  BY DEF Goto, TypeOK
<1>2. \A code \in DOMAIN Status : Refuse(q, code) => Status[code] = 401
  BY DEF Refuse, Answer, Finish, TypeOK
<1>3. ~ DecryptValue(q, b)
  BY <1>1, <1>2 DEF DecryptValue, Status
<1>4. b.form \in DOMAIN FormCode /\ Refuse(q, FormCode[b.form])
  BY <1>1, <1>3 DEF Open
<1>5. Status[FormCode[b.form]] = 401
  BY <1>2, <1>4, Codes
<1>6. b.form = "oversize"
  BY <1>4, <1>5 DEF FormCode, Status
<1> QED BY <1>6 DEF Excused

LEMMA RefusalExcused ==
  ASSUME TypeOK, Served, KeysMatchTokens, TenantLag, HandshakeSteps, KeyReads, KeksInUse,
         [Next]_vars, NEW q \in Requests,
         manager \in {"redis", "stateless"}, pc[q] # "done", pc'[q] = "done",
         call'[q].route # "handshake", reply'[q].status = 401
  PROVE  Excused(call'[q])
<1>1. ~ Still(q)
  BY DEF Still
<1>2. ASSUME NEW p \in Procs, NEW t \in HandshakeTenants, StartHandshake(q, p, t)
      PROVE  FALSE
  BY <1>2 DEF StartHandshake, TypeOK
<1>3. CASE Shakes(q)
  <2>1. call[q].route = "handshake" /\ call[q] \in Calls
    BY <1>3 DEF Shakes, Consult, PutKey, Sign, Seal, HandshakeSteps, TypeOK
  <2>2. call'[q].route = call[q].route
    <3>1. CASE Consult(q) \/ Sign(q)
      BY <3>1 DEF Consult, Sign
    <3>2. CASE PutKey(q) \/ Seal(q)
      BY <2>1, <3>2 DEF PutKey, Seal, TypeOK, Calls
    <3> QED BY <1>3, <3>1, <3>2 DEF Shakes
  <2> QED BY <2>1, <2>2
<1>4. CASE Proceeds(q)
  <2>1. call'[q] = call[q]
    BY <1>4, CallMoves
  <2>2. CASE Handle(q) \/ Encrypt(q)
    <3>1. reply'[q].status \in {200, 502}
      BY <2>2 DEF Handle, Encrypt, SealFails, Answer, Finish, Goto, TypeOK
    <3> QED BY <3>1
  <2> QED BY <1>4, <2>1, <2>2, StoreExcused, OpenExcused DEF Proceeds
<1>5. ASSUME NEW c \in Calls, c.session # None => token[c.session] # None, StartCall(q, c)
      PROVE  Excused(call'[q])
  <2>1. call'[q] = c
    BY <1>5 DEF StartCall, TypeOK
  <2> QED BY <1>5, <2>1, DoorExcused
<1>6. ~ Return(q)
  BY DEF Return, TypeOK
<1>7. ASSUME NEW p \in Procs, NEW r \in Rings, Restart(p, r) PROVE FALSE
  BY <1>1, <1>7, RestartMoves
<1>8. ~ (Tick \/ RefreshBearer \/ (\E t \in Tenants : Leave(t)) \/ UNCHANGED vars)
  BY DEF Tick, RefreshBearer, Leave, vars
<1>9. ASSUME NEW r \in Requests, r # q,
             \/ \E p \in Procs, t \in HandshakeTenants : StartHandshake(r, p, t)
             \/ \E c \in Calls : StartCall(r, c)
             \/ Shakes(r) \/ Proceeds(r) \/ Return(r)
      PROVE  FALSE
  BY <1>1, <1>9, OthersStill
<1> QED BY <1>2, <1>3, <1>4, <1>5, <1>6, <1>7, <1>8, <1>9, NextCases

\* Whatever process a request meets, its session is refused for a reason the
\* client can tell: too old, another tenant or access token than it was opened
\* for, another session's token, an oversize body, or a ring of KEKs that has been changed; for any
\* number of processes, restarts and requests.
THEOREM ReplicaSafeAlways == Spec => ReplicaSafe
<1> DEFINE I == /\ TypeOK /\ Timely /\ Served /\ SealsStateless /\ PutsStored /\ KeysMatchTokens
                /\ TenantLag /\ HandshakeSteps /\ KeyReads /\ KeksInUse
           A == \A q \in Requests :
                  /\ manager \in {"redis", "stateless"}
                  /\ pc[q] # "done" /\ pc'[q] = "done"
                  /\ call'[q].route # "handshake" /\ reply'[q].status = 401
                  => Excused(call'[q])
<1>1. Init => I
  <2>1. Init => PutsStored /\ SealsStateless /\ KeyReads /\ KeksInUse
    BY DEF Init, PutsStored, SealsStateless, KeyReads, KeksInUse
  <2> QED BY <2>1, TypeInit, TimelyInit, ServedInit, KeysInit, LagInit, OwnInit
<1>2. I /\ [Next]_vars => I'
  BY TypeStep, TimelyStep, ServedStep, SealsStatelessStep, PutsStoredStep, KeysStep, LagStep,
     HandshakeStepsStep, KeyReadsStep, KeksStep
<1>3. I /\ [Next]_vars => [A]_vars
  BY RefusalExcused
<1> HIDE DEF I
<1> QED BY <1>1, <1>2, <1>3, PTL DEF Spec, ReplicaSafe
=============================================================================
