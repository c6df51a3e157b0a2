---------------------------- MODULE AuthSession ----------------------------
(***************************************************************************)
(* Cookie login against Keycloak: the flow states and sessions of          *)
(* src/internal/infrastructure/session/redis_store.go, the handlers of     *)
(* src/internal/interface/api/handler/auth.go, and the two middlewares     *)
(* that read a session, csrf.go and session.go.                            *)
(*                                                                         *)
(* One process per request.  A grant stands for all that comes of one      *)
(* authorization code or password grant: the code, its refresh token, and  *)
(* the session id and CSRF token made for it, which are drawn at random    *)
(* and therefore never met again.  Every call to the store or to Keycloak  *)
(* is an action.  Time is a tick that counts every TTL down; nothing in    *)
(* these handlers looks at the request's own deadline.                     *)
(***************************************************************************)
EXTENDS Naturals

CONSTANTS
  Procs,       \* requests in flight at once; each may be reused
  Flows,       \* OIDC state parameters
  Grants,      \* codes and password grants Keycloak gives out
  None,        \* no flow, no grant
  Password,    \* what a grant of the dev login was given for
  FlowTTL,     \* ticks a flow state lives (300 s)
  AccessTTL,   \* Keycloak's expires_in
  RefreshTTL,  \* Keycloak's refresh_expires_in
  MinTTL,      \* the least TTL of a session (60 s)
  MaxFaults    \* bound: failures of Redis and Keycloak, restarts

ASSUME AuthAssumption ==
  /\ None \notin Flows \union Grants
  /\ Password \notin Flows \union {None}
  /\ FlowTTL \in Nat \ {0}
  /\ AccessTTL \in Nat
  /\ RefreshTTL \in Nat
  /\ MinTTL \in Nat \ {0}
  /\ MaxFaults \in Nat

VARIABLES
  inMemory,   \* no Redis at start, for good: both stores are maps under a mutex
  flow,       \* store: ticks left of each flow state, 0 when absent
  session,    \* store: ticks left of each grant's session, 0 when absent
  asked,      \* Keycloak: flows whose authorize URL a client has been given
  grant,      \* Keycloak: what each grant was given for
  redeemed,   \* Keycloak: grants exchanged for tokens
  token,      \* Keycloak: ticks left of each grant's refresh token
  handed,     \* grants whose session id a client holds in its cookie
  pc,         \* per request: see Steps
  req,        \* per request: what it carries
  loaded,     \* per request: the store's last GET found something
  pops,       \* how many Pops have returned each flow (history)
  opened,     \* grants whose session was ever stored (history)
  loggedOut,  \* grants of logouts answered "revoked" (history)
  storeHit,   \* grants one of whose requests met a Redis failure (history)
  abandoned,  \* grants whose tokens a failure left to expire (history)
  faults      \* failures so far

storeVars    == <<flow, session>>
keycloakVars == <<asked, grant, redeemed, token>>
resultVars   == <<pops, opened, loggedOut>>
failureVars  == <<faults, storeHit, abandoned>>
vars == <<inMemory, flow, session, asked, grant, redeemed, token, handed, pc, req,
          loaded, pops, opened, loggedOut, storeHit, abandoned, faults>>

Steps == {"idle", "pop", "popDel", "exchange", "password", "put",
          "logout", "revoke", "delete", "csrf", "require", "handler"}

\* The larger of two numbers.
Larger(a, b) == IF a < b THEN b ELSE a

\* Fault variant: the session lives as long as the access token.
SessionTTLOfAccess == Larger(AccessTTL, MinTTL)

\* saveSessionFromTokens: the refresh token's lifetime, or 60 seconds.
SessionTTL == Larger(RefreshTTL, MinTTL)

Requests == [grant : Grants \union {None}, flow : Flows \union {None}, csrf : BOOLEAN]
NoRequest == [grant |-> None, flow |-> None, csrf |-> FALSE]

StateOK ==
  /\ flow \in [Flows -> 0..FlowTTL]
  /\ session \in [Grants -> 0..SessionTTL]
  /\ asked \subseteq Flows
  /\ grant \in [Grants -> Flows \union {Password, None}]
  /\ redeemed \subseteq {g \in Grants : grant[g] # None}
  /\ token \in [Grants -> 0..RefreshTTL]
  /\ handed \subseteq redeemed
  /\ pc \in [Procs -> Steps]
  /\ req \in [Procs -> Requests]
  /\ loaded \in [Procs -> BOOLEAN]
  /\ pops \in [Flows -> Nat]
  /\ opened \subseteq redeemed
  /\ loggedOut \subseteq handed
  /\ storeHit \subseteq Grants
  /\ abandoned \subseteq Grants
  /\ faults \in 0..MaxFaults

TypeOK == inMemory \in BOOLEAN /\ StateOK

Init ==
  /\ inMemory \in BOOLEAN
  /\ flow = [f \in Flows |-> 0]
  /\ session = [g \in Grants |-> 0]
  /\ asked = {}
  /\ grant = [g \in Grants |-> None]
  /\ redeemed = {}
  /\ token = [g \in Grants |-> 0]
  /\ handed = {}
  /\ pc = [p \in Procs |-> "idle"]
  /\ req = [p \in Procs |-> NoRequest]
  /\ loaded = [p \in Procs |-> FALSE]
  /\ pops = [f \in Flows |-> 0]
  /\ opened = {}
  /\ loggedOut = {}
  /\ storeHit = {} /\ abandoned = {}
  /\ faults = 0

Fault == faults < MaxFaults /\ faults' = faults + 1
NoFault == UNCHANGED failureVars

\* A command to the store fails: only Redis does.
StoreFault(p) ==
  /\ ~inMemory /\ Fault
  /\ storeHit' = storeHit \union ({req[p].grant} \ {None})
  /\ UNCHANGED abandoned

\* Tokens of these grants are left at Keycloak for nobody.
Abandon(grants) ==
  /\ Fault
  /\ abandoned' = abandoned \union grants
  /\ UNCHANGED storeHit

Goto(p, step) == pc' = [pc EXCEPT ![p] = step]

\* The request arrives, carrying r.
Begin(p, step, r) ==
  /\ pc[p] = "idle"
  /\ Goto(p, step)
  /\ req' = [req EXCEPT ![p] = r]

\* The request is answered, and what it held is gone.
Answer(p) ==
  /\ Goto(p, "idle")
  /\ req' = [req EXCEPT ![p] = NoRequest]
  /\ loaded' = [loaded EXCEPT ![p] = FALSE]
-----------------------------------------------------------------------------
(* Login and callback *)

\* Login: a fresh state, stored or not (the error of Put is dropped), and the
\* redirect to Keycloak.
Login(f) ==
  /\ f \notin asked
  /\ asked' = asked \union {f}
  /\ \/ flow' = [flow EXCEPT ![f] = FlowTTL] /\ NoFault
     \/ UNCHANGED <<flow, storeHit, abandoned>> /\ ~inMemory /\ Fault
  /\ UNCHANGED <<inMemory, session, grant, redeemed, token, handed, pc, req, loaded, resultVars>>

\* The user signs in, perhaps once more from the browser's history: Keycloak
\* redirects to the callback with a new code.
Authorize(f, g) ==
  /\ f \in asked
  /\ grant[g] = None
  /\ grant' = [grant EXCEPT ![g] = f]
  /\ UNCHANGED <<inMemory, storeVars, asked, redeemed, token, handed, pc, req, loaded, resultVars, failureVars>>

\* The callback, perhaps loaded once more.
StartCallback(p, g) ==
  /\ grant[g] \in Flows
  /\ Begin(p, "pop", [grant |-> g, flow |-> grant[g], csrf |-> FALSE])
  /\ UNCHANGED <<inMemory, storeVars, keycloakVars, handed, loaded, resultVars, failureVars>>

\* Pop has returned a flow state, or nil and the callback is refused.
Popped(p, found) ==
  IF found
  THEN /\ Goto(p, "exchange")
       /\ pops' = [pops EXCEPT ![req[p].flow] = @ + 1]
       /\ UNCHANGED <<req, loaded>>
  ELSE Answer(p) /\ UNCHANGED pops

\* Fault variant: the entry is deleted by nobody.
PopMemoryPeeking(p) ==
  /\ pc[p] = "pop" /\ inMemory
  /\ Popped(p, flow[req[p].flow] > 0)
  /\ UNCHANGED <<inMemory, storeVars, keycloakVars, handed, opened, loggedOut, failureVars>>

\* memoryFlowStateStore.pop: under the mutex.
PopMemory(p) ==
  /\ pc[p] = "pop" /\ inMemory
  /\ flow' = [flow EXCEPT ![req[p].flow] = 0]
  /\ Popped(p, flow[req[p].flow] > 0)
  /\ UNCHANGED <<inMemory, session, keycloakVars, handed, opened, loggedOut, failureVars>>

\* Pop on Redis: a pipeline of GET and DEL, which is not a transaction.
PopGet(p) ==
  /\ pc[p] = "pop" /\ ~inMemory
  /\ loaded' = [loaded EXCEPT ![p] = flow[req[p].flow] > 0]
  /\ Goto(p, "popDel")
  /\ UNCHANGED <<inMemory, storeVars, keycloakVars, handed, req, resultVars, failureVars>>

PopDel(p) ==
  /\ pc[p] = "popDel"
  /\ flow' = [flow EXCEPT ![req[p].flow] = 0]
  /\ Popped(p, loaded[p])
  /\ UNCHANGED <<inMemory, session, keycloakVars, handed, opened, loggedOut, failureVars>>

\* The pipeline fails, before or after the DEL: nil.
PopFails(p) ==
  /\ pc[p] \in {"pop", "popDel"}
  /\ StoreFault(p)
  /\ \/ flow' = [flow EXCEPT ![req[p].flow] = 0]
     \/ UNCHANGED flow
  /\ Answer(p)
  /\ UNCHANGED <<inMemory, session, keycloakVars, handed, resultVars>>

\* Keycloak redeems grant g: once.
Redeem(g) ==
  /\ g \notin redeemed
  /\ redeemed' = redeemed \union {g}
  /\ token' = [token EXCEPT ![g] = RefreshTTL]

\* ExchangeCode, with the verifier of the popped flow.
Exchange(p) ==
  /\ pc[p] = "exchange"
  /\ Redeem(req[p].grant)
  /\ Goto(p, "put")
  /\ UNCHANGED <<inMemory, storeVars, asked, grant, handed, req, loaded, resultVars, failureVars>>

\* Keycloak refuses, or cannot be reached: 401.
ExchangeFails(p) ==
  /\ pc[p] = "exchange"
  /\ Answer(p)
  /\ UNCHANGED <<inMemory, storeVars, keycloakVars, handed, resultVars, failureVars>>

\* Keycloak redeems the code, but its answer is lost or late.
ExchangeUnheard(p) ==
  /\ pc[p] = "exchange"
  /\ Abandon({req[p].grant})
  /\ Redeem(req[p].grant)
  /\ Answer(p)
  /\ UNCHANGED <<inMemory, storeVars, asked, grant, handed, resultVars>>

\* DevLogin: a password grant.
StartDevLogin(p) ==
  /\ Begin(p, "password", NoRequest)
  /\ UNCHANGED <<inMemory, storeVars, keycloakVars, handed, loaded, resultVars, failureVars>>

PasswordGrant(p, g) ==
  /\ pc[p] = "password"
  /\ grant[g] = None
  /\ grant' = [grant EXCEPT ![g] = Password]
  /\ Redeem(g)
  /\ Goto(p, "put")
  /\ req' = [req EXCEPT ![p].grant = g]
  /\ UNCHANGED <<inMemory, storeVars, asked, handed, loaded, resultVars, failureVars>>

PasswordGrantUnheard(p, g) ==
  /\ pc[p] = "password"
  /\ Abandon({g})
  /\ grant[g] = None
  /\ grant' = [grant EXCEPT ![g] = Password]
  /\ Redeem(g)
  /\ Answer(p)
  /\ UNCHANGED <<inMemory, storeVars, asked, handed, resultVars>>

PasswordGrantFails(p) ==
  /\ pc[p] = "password"
  /\ Answer(p)
  /\ UNCHANGED <<inMemory, storeVars, keycloakVars, handed, resultVars, failureVars>>

\* Fault variant: the minimum is added to the refresh token's lifetime.
StoreSessionLonger(g) ==
  /\ session' = [session EXCEPT ![g] = RefreshTTL + MinTTL]
  /\ opened' = opened \union {g}

StoreSession(g) ==
  /\ session' = [session EXCEPT ![g] = SessionTTL]
  /\ opened' = opened \union {g}

\* saveSessionFromTokens, and the response with the cookie.
PutSession(p) ==
  /\ pc[p] = "put"
  /\ StoreSession(req[p].grant)
  /\ handed' = handed \union {req[p].grant}
  /\ Answer(p)
  /\ UNCHANGED <<inMemory, flow, keycloakVars, pops, loggedOut, failureVars>>

\* Put fails, or is executed and its reply lost: 500, and no cookie.
PutSessionFails(p) ==
  /\ pc[p] = "put"
  /\ StoreFault(p)
  /\ \/ StoreSession(req[p].grant)
     \/ UNCHANGED <<session, opened>>
  /\ Answer(p)
  /\ UNCHANGED <<inMemory, flow, keycloakVars, handed, pops, loggedOut>>
-----------------------------------------------------------------------------
(* Logout *)

\* A request with the cookie of grant g.
WithCookie(g, csrf) == [grant |-> g, flow |-> None, csrf |-> csrf]

StartLogout(p, g) ==
  /\ g \in handed
  /\ Begin(p, "logout", WithCookie(g, TRUE))
  /\ UNCHANGED <<inMemory, storeVars, keycloakVars, handed, loaded, resultVars, failureVars>>

\* sessions.Get: nil on an error too.
LogoutGet(p) ==
  /\ pc[p] = "logout"
  /\ \/ session[req[p].grant] > 0 /\ Goto(p, "revoke") /\ NoFault
     \/ session[req[p].grant] = 0 /\ Goto(p, "delete") /\ NoFault
     \/ StoreFault(p) /\ Goto(p, "delete")
  /\ UNCHANGED <<inMemory, storeVars, keycloakVars, handed, req, loaded, resultVars>>

\* oidc.Logout: best-effort.
Revoke(p) ==
  /\ pc[p] = "revoke"
  /\ \/ token' = [token EXCEPT ![req[p].grant] = 0] /\ NoFault
     \/ UNCHANGED token /\ Abandon({req[p].grant})
  /\ Goto(p, "delete")
  /\ UNCHANGED <<inMemory, storeVars, asked, grant, redeemed, handed, req, loaded, resultVars>>

\* Fault variant: the session is deleted only if its token has been revoked.
DeleteRevokedSession(p) ==
  /\ pc[p] = "delete"
  /\ session' = IF token[req[p].grant] = 0
                THEN [session EXCEPT ![req[p].grant] = 0] ELSE session
  /\ loggedOut' = loggedOut \union {req[p].grant}
  /\ Answer(p)
  /\ UNCHANGED <<inMemory, flow, keycloakVars, handed, pops, opened, failureVars>>

\* sessions.Delete, whose error is dropped, and the answer "revoked".
DeleteSession(p) ==
  /\ pc[p] = "delete"
  /\ \/ session' = [session EXCEPT ![req[p].grant] = 0] /\ NoFault
     \/ UNCHANGED session /\ StoreFault(p)
  /\ loggedOut' = loggedOut \union {req[p].grant}
  /\ Answer(p)
  /\ UNCHANGED <<inMemory, flow, keycloakVars, handed, pops, opened>>
-----------------------------------------------------------------------------
(* A POST to a route behind RequireSession, with or without its CSRF token *)

StartPost(p, g, csrf) ==
  /\ g \in handed
  /\ Begin(p, "csrf", WithCookie(g, csrf))
  /\ UNCHANGED <<inMemory, storeVars, keycloakVars, handed, loaded, resultVars, failureVars>>

\* Fault variant: only a token that was sent is compared.
CheckCSRFWhenSent(p) ==
  /\ pc[p] = "csrf"
  /\ Goto(p, "require")
  /\ UNCHANGED <<inMemory, storeVars, keycloakVars, handed, req, loaded, resultVars, failureVars>>

\* CSRFMiddleware: a session that is not found is left to RequireSession.
CheckCSRF(p) ==
  /\ pc[p] = "csrf"
  /\ \/ /\ session[req[p].grant] = 0 \/ req[p].csrf
        /\ Goto(p, "require") /\ NoFault
        /\ UNCHANGED <<req, loaded>>
     \/ /\ session[req[p].grant] > 0 /\ ~req[p].csrf
        /\ Answer(p) /\ NoFault
     \/ /\ StoreFault(p)
        /\ Goto(p, "require")
        /\ UNCHANGED <<req, loaded>>
  /\ UNCHANGED <<inMemory, storeVars, keycloakVars, handed, resultVars>>

\* Fault variant: RequireSession relies on what CSRFMiddleware has found.
RequireSessionUnread(p) ==
  /\ pc[p] = "require"
  /\ Goto(p, "handler")
  /\ UNCHANGED <<inMemory, storeVars, keycloakVars, handed, req, loaded, resultVars, failureVars>>

RequireSession(p) ==
  /\ pc[p] = "require"
  /\ \/ /\ session[req[p].grant] > 0
        /\ Goto(p, "handler") /\ NoFault
        /\ UNCHANGED <<req, loaded>>
     \/ /\ session[req[p].grant] = 0
        /\ Answer(p) /\ NoFault
     \/ StoreFault(p) /\ Answer(p)
  /\ UNCHANGED <<inMemory, storeVars, keycloakVars, handed, resultVars>>

HandlePost(p) ==
  /\ pc[p] = "handler"
  /\ Answer(p)
  /\ UNCHANGED <<inMemory, storeVars, keycloakVars, handed, resultVars, failureVars>>
-----------------------------------------------------------------------------
(* The environment *)

Less(n) == IF n = 0 THEN 0 ELSE n - 1

Tick ==
  /\ flow' = [f \in Flows |-> Less(flow[f])]
  /\ session' = [g \in Grants |-> Less(session[g])]
  /\ token' = [g \in Grants |-> Less(token[g])]
  /\ UNCHANGED <<inMemory, asked, grant, redeemed, handed, pc, req, loaded, resultVars, failureVars>>

\* The process is killed and started again: every request is lost, and the
\* memory stores with them.
Restart ==
  /\ Abandon(IF inMemory THEN redeemed
             ELSE {req[p].grant : p \in {q \in Procs : pc[q] = "put"}})
  /\ pc' = [p \in Procs |-> "idle"]
  /\ req' = [p \in Procs |-> NoRequest]
  /\ loaded' = [p \in Procs |-> FALSE]
  /\ IF inMemory THEN /\ flow' = [f \in Flows |-> 0]
                      /\ session' = [g \in Grants |-> 0]
                 ELSE UNCHANGED storeVars
  /\ UNCHANGED <<inMemory, keycloakVars, handed, resultVars>>

SignIn(p) ==
  \/ PopMemory(p) \/ PopGet(p) \/ PopDel(p) \/ PopFails(p)
  \/ Exchange(p) \/ ExchangeFails(p) \/ ExchangeUnheard(p)
  \/ \E g \in Grants : PasswordGrant(p, g) \/ PasswordGrantUnheard(p, g)
  \/ PasswordGrantFails(p) \/ PutSession(p) \/ PutSessionFails(p)

UseSession(p) ==
  \/ LogoutGet(p) \/ Revoke(p) \/ DeleteSession(p)
  \/ CheckCSRF(p) \/ RequireSession(p) \/ HandlePost(p)

Arrive(p) ==
  \/ StartDevLogin(p)
  \/ \E g \in Grants : StartCallback(p, g) \/ StartLogout(p, g)
  \/ \E g \in Grants, csrf \in BOOLEAN : StartPost(p, g, csrf)

Next ==
  \/ \E f \in Flows : Login(f)
  \/ \E f \in Flows, g \in Grants : Authorize(f, g)
  \/ \E p \in Procs : Arrive(p) \/ SignIn(p) \/ UseSession(p)
  \/ Tick
  \/ Restart

Spec == Init /\ [][Next]_vars
-----------------------------------------------------------------------------
(* Properties *)

\* "Pop atomically retrieves and deletes OIDC flow state": of any number of
\* callbacks with one state, one gets it.
PoppedOnce == \A f \in Flows : pops[f] <= 1

\* So it is with the stores of memory, where Pop is one critical section.
PoppedOnceInMemory == inMemory => PoppedOnce

\* A login flow opens at most one session with these stores, however many
\* codes the user obtains for it and however often the callback is loaded.
OneSessionPerFlow ==
  inMemory => \A g, h \in opened :
                grant[g] \in Flows /\ grant[g] = grant[h] => g = h

\* Once a logout has answered, the session serves nobody: no order of other
\* logouts, posts, expiries and failures of Keycloak leaves it or brings it
\* back.  A dropped Redis error may.
LoggedOutIsOut == \A g \in loggedOut \ storeHit : session[g] = 0

\* A post that reaches the handler has sent the CSRF token of the session it
\* runs with, although the two middlewares read the store one after the other.
\* A Redis error between them may let it through without.
PostCarriesItsToken ==
  \A p \in Procs : pc[p] = "handler" /\ req[p].grant \notin storeHit => req[p].csrf

\* No refresh token is left alive at Keycloak without a session to revoke it
\* by, unless a failure hit that very grant: the session's TTL is not shorter
\* than the token's, and Logout revokes before it deletes.
NoTokenOutlivesItsSession ==
  \A g \in Grants \ (storeHit \union abandoned) : token[g] > 0 =>
    \/ session[g] >= token[g]
    \/ \E p \in Procs : pc[p] = "put" /\ req[p].grant = g

\* A session, whether its cookie was handed out or its Put only half failed, is
\* stored once; a post is let in only while it is there; and however it went,
\* by logout, expiry or restart, no other request brings it back.
Life(g) == IF session[g] > 0 THEN "open" ELSE IF g \in opened THEN "ended" ELSE "none"
Admitted(p) == IF pc[p] = "handler" THEN req[p].grant ELSE None

Sessions == INSTANCE SessionLife WITH
  Sessions <- Grants, Requests <- Procs,
  life <- [g \in Grants |-> Life(g)], admitted <- [p \in Procs |-> Admitted(p)]

ImplementsSessionLife == Sessions!Spec
=============================================================================
